CONSTANTS
    Tabs = {ta, tb}
    Tokens = {k1, k2}
    NoToken = NoToken
    Versions = {v1, v2}
    InvalidVersion = InvalidVersion
    Placeholder = Placeholder
    Undefined = Undefined
    MaxCalls <- MCMaxCalls
    MaxUpgrades <- MCMaxUpgrades

SPECIFICATION Spec

INVARIANT TypeOK
PROPERTY StaleTokenNeverResent
PROPERTY Refinement

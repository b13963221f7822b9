CONSTANTS
    Tabs = {ta, tb}
    Tokens = {k1, k2, k3}
    NoToken = NoToken
    Versions = {v1, v2}
    InvalidVersion = InvalidVersion
    Placeholder = Placeholder
    Undefined = Undefined
    MaxCalls <- MCMaxCallsStale
    MaxUpgrades <- MCMaxUpgrades
SPECIFICATION Spec
PROPERTY StaleRejectionKeepsSession

CONSTANTS
    Endpoints <- MCEndpoints
    TokenStrings <- MCTokenStrings
    Methods <- MCMethods
    MaxCalls <- MCMaxCalls
SPECIFICATION Spec
INVARIANT TypeOK

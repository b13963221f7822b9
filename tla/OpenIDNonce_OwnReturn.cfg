CONSTANTS
    Tabs = {t1, t2}
    MaxNonces <- MCMaxNonces
SPECIFICATION Spec
PROPERTY OwnReturnAccepted
CHECK_DEADLOCK FALSE

CONSTANT MaxAlerts <- MCMaxAlerts
CONSTANT MaxSetAuth <- MCMaxSetAuth
CONSTANT MaxLogin <- MCMaxLogin
SPECIFICATION ChromeSpec
INVARIANT SignOutIsFinal
CHECK_DEADLOCK FALSE

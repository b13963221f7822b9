CONSTANT MaxAlerts <- MCMaxAlerts
CONSTANT MaxSetAuth <- MCMaxSetAuth
CONSTANT MaxLogin <- MCMaxLogin
SPECIFICATION ChromeSpec
INVARIANT ChromeTypeOK
PROPERTY AutoClearedAlertLeaves StickyAlertStays
CHECK_DEADLOCK FALSE

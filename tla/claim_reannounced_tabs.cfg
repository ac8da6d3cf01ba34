SPECIFICATION Spec
CONSTANTS
    Tabs = {t1}
    FirstTabs = {t1}
    MaxSockets = 1
    MaxCommands = 0
    MaxPosts = 0
    MaxSnapshots = 0
    MaxGenerations = 1
    MaxDisturbances = 0
PROPERTY ReannouncedTabsAreListed
CHECK_DEADLOCK FALSE

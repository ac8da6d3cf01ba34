SPECIFICATION LiveSpec
CONSTANTS
    Tabs = {t1}
    FirstTabs = {}
    MaxSockets = 2
    MaxCommands = 1
    MaxPosts = 2
    MaxSnapshots = 1
    MaxGenerations = 2
    MaxDisturbances = 1
INVARIANTS TypeOK ApprovalsOnSharedTabs DisconnectCancels OneConnection ExecutedOncePerConnection DisconnectedHasRetry SharedTabsAreListed
PROPERTIES PairedReconnects

SPECIFICATION FairSpec
CONSTANTS
 QueueSizeLimit = 2
 MaxCalls = 3
 MaxMessages = 4
INVARIANTS TypeOK OneSocket QueueIsRecent Recovers OneBeat
PROPERTIES Reconnects
CHECK_DEADLOCK FALSE

SPECIFICATION Spec
CONSTANTS
 p1=p1 p2=p2
 Projects = {p1,p2}
 NoProject=NoProject NoSocket=NoSocket
 MaxReconnectAttempts = 1
 MaxSockets = 3
 MaxPending = 2
 MaxTimers = 2
 MaxCalls = 4
INVARIANTS TypeOK OneSocket QueueIsFlushed BeatsWhileConnected
SYMMETRY MCSymmetry
CHECK_DEADLOCK FALSE

SPECIFICATION FairSpec
CONSTANTS
 r1=r1 r2=r2 d1=d1
 Requests = {r1,r2}
 Casts = {}
 Shutdowns = {d1}
 NoMessage=NoMessage
 MaxFaults = 3
INVARIANTS TypeOK NothingLost SettledIsAnswered RepeatsAreFaults
PROPERTIES RequestService TakenIsSettled
CHECK_DEADLOCK FALSE

SPECIFICATION FairSpec
CONSTANTS
 u1=u1 u2=u2 c1=c1 c2=c2 c3=c3 p1=p1 p2=p2 k1=k1 k2=k2 n1=n1
 Users = {u1,u2}
 Conns = {c1,c2}
 Projects = {p1,p2}
 Contents = {k1,k2}
 Notifiers = {}
 UserOf <- MCSingle
 Admins = {u2}
 MaxRequests = 4
 NoUser=NoUser NoConn=NoConn NoProject=NoProject Free=Free Nobody=Nobody
INVARIANTS CurrentIsViewed OpenHolderViews
PROPERTIES LockService CallsEnd
CHECK_DEADLOCK FALSE

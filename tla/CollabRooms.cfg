SPECIFICATION Spec
CONSTANTS
 c1=c1 c2=c2 c3=c3 u1=u1 u2=u2 r1=r1 r2=r2
 Conns = {c1,c2,c3}
 NoConn=NoConn
 Users = {u1,u2}
 User <- MCUser
 Rooms = {r1,r2}
 NoRoom=NoRoom
 MaxMessages = 4
SYMMETRY Symmetry
INVARIANTS TypeOK EndedIsUnregistered RoomDataDies OneTabIsIn
PROPERTIES DocumentService
CHECK_DEADLOCK FALSE

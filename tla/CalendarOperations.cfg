SPECIFICATION Spec
CONSTANTS
 u1=u1 u2=u2 c1=c1 c2=c2 c3=c3 k1=k1 o1=o1 o2=o2
 Users = {u1,u2}
 Conns = {c1,c2,c3}
 Contents = {k1}
 OperationIds = {o1,o2}
 UserOf <- MCUserOf
 Window = 2
 MaxClock = 4
INVARIANTS TypeOK OneUserOperates
SYMMETRY MCSymmetry

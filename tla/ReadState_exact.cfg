CONSTANTS
    Me = me
    Peers = {p1}
    ConvType = "single"
    Callers = {c1}
    Ops <- MCMarkOps
    MaxSeq = 3
    MaxTips = 2
SPECIFICATION Spec
INVARIANT UnreadCountExact

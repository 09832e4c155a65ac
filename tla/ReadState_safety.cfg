CONSTANTS
    Me = me
    Peers = {p1}
    ConvType = "single"
    Callers = {c1, c2}
    Ops <- MCAllOps
    MaxSeq = 3
    MaxTips = 2
SPECIFICATION Spec
INVARIANT TypeOK
INVARIANT NoOvercount

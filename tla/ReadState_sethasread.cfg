CONSTANTS
    Me = me
    Peers = {p1}
    ConvType = "single"
    Callers = {c1}
    Ops <- MCAllOps
    MaxSeq = 3
    MaxTips = 2
SPECIFICATION Spec
PROPERTY WatermarkMonotone

CONSTANTS
    Writers = {w1}
    Codes <- MCCodes
    MaxDials = 2
    ChCap = 1
    HasConvCh = TRUE
SPECIFICATION Spec
PROPERTY
    KickStatusSticky

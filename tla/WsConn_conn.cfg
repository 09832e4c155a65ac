\* One writer, three dials, a ConversationCh of capacity 1 shared with
\* other senders, every kind of dial outcome, fair scheduling.
CONSTANTS
    Writers = {w1}
    Codes <- MCCodes
    MaxDials = 3
    ChCap = 1
    HasConvCh = TRUE
SPECIFICATION FairSpec
INVARIANTS
    SingleLiveConn
PROPERTIES
    Implements
    LockReleased

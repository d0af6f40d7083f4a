SPECIFICATION FairSpec
CONSTANTS
    Acceptor = {http, tls}
    Conn = {c1}
    User = {u1}
    NoUser = NoUser
    Addr = {a1}
    MaxAttempts = 2
    Window = 1
    MaxTime = 3
INVARIANTS
    TypeOK
    GatesHold
PROPERTY
    StopEnds
CHECK_DEADLOCK FALSE

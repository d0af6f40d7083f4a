\* Two threads that log and two clients of the stream.  Nothing happens when nobody logs
\* and no client is there, or once the process was ended.
SPECIFICATION FairSpec
CONSTANTS
    Writer = {w1, w2}
    Subscriber = {s1, s2}
    Nobody = nobody
    HistoryLines = 2
    MaxBuffer = 1
    MaxLine = 2
INVARIANTS
    TypeOK
    CallbacksHaveHandlers
    NoLineMissed
PROPERTIES
    FeedSpec
    WritesEnd
    DisconnectedLeave
CHECK_DEADLOCK FALSE

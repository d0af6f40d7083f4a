\* One request at a time, with restarts and the cleaner thread.
SPECIFICATION FairSpec
CONSTANTS
    Thread = {t1}
    Name = {"admin", "b"}
    Password = {"old", "new"}
    Seed <- AdminSeed
    SessionHours = 1
    SlideHours = 2
    MaxUser = 2
    MaxToken = 2
    MaxRestart = 1
INVARIANTS
    AdminRemains
PROPERTIES
    ExpiredSessionsArePruned

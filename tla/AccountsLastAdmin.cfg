\* Two admins demote each other.
SPECIFICATION Spec
CONSTANTS
    Thread = {t1, t2}
    Name = {"admin", "b"}
    Password = {"old"}
    Seed <- AdminSeed
    SessionHours = 1
    SlideHours = 1
    MaxUser = 2
    MaxToken = 2
    MaxRestart = 0
CHECK_DEADLOCK FALSE
INVARIANT
    AdminRemains

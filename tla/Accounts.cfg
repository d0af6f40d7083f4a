\* Two requests at a time, two users, two sessions.  Two admins who delete each
\* other leave nobody to log in, and no request to come.
SPECIFICATION Spec
CONSTANTS
    Thread = {t1, t2}
    Name = {"admin", "b"}
    Password = {"old"}
    Seed <- AdminSeed
    SessionHours = 1
    SlideHours = 1
    MaxUser = 2
    MaxToken = 2
    MaxRestart = 0
SYMMETRY ThreadSymmetry
CHECK_DEADLOCK FALSE
INVARIANTS
    TypeOK
    SessionsHaveUsers
PROPERTIES
    RegisterSpec

\* One action run twice; a stop, a deletion and the end of the application.
SPECIFICATION FairSpec
CONSTANTS
    Action = {a1}
    Deletable = {a1}
    Call = {c1}
    MaxRun = 2
    MaxQuit = 1
INVARIANTS TypeOK OneRunEach PidIsCurrent NoOrphan
PROPERTY StopIsHeard
\* A bounded instance stops when its runs are used up.
CHECK_DEADLOCK FALSE

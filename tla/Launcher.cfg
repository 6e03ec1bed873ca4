\* An application, two refreshes at once, and five events: installs, forced scans,
\* failures, restarts, edits of the query and of commands, and steps of the window.
\* The bound stops it.
CONSTANTS
    Apps = {a1}
    Threads = {t1, t2}
    None = None
    Queries = {"", "b", "pb"}
    Blank = ""
    LaunchInput <- MCLaunchInput
    MaxEvents = 5
SPECIFICATION Spec
INVARIANTS IndexAtRest AnswersQuery ListIsFresh
CHECK_DEADLOCK FALSE

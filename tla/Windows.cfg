\* A plugin with an icon and one that reopens in the active space: the two
\* kinds of window the registered manifests declare.
SPECIFICATION FairSpec
CONSTANTS
    None = None
    Plugin = {p1, p2}
    OnTop = {p2}
    Docked = {p1}
    MaxWindow = 3
    MaxFail = 1
    MaxOut = 1
INVARIANTS WindowsAreCounted IconFollowsWindow
PROPERTIES StaleAgentIsHarmless QuitCloses
\* A bounded instance stops when its windows are used up.
CHECK_DEADLOCK FALSE

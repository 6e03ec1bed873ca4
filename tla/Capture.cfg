\* Two exchanges and two proxies; one statement may fail.
CONSTANTS
    None = None
    MaxProxies = 2
    PageSize = 1
    MaxRows = 2
    MaxClicks = 5
    MaxFaults = 1
SPECIFICATION Spec
INVARIANTS NoGhostProxy ListIsCurrent DetailMatches
CHECK_DEADLOCK FALSE

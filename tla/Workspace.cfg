CONSTANTS
    None = None
    Task = {t1, t2}
    Stored <- MCStored
    MaxNodes = 5
    MaxEnvs = 3
    MaxClicks = 4
    MaxOverlapping = 2
SPECIFICATION WorkspaceSpec
INVARIANTS Renderable ShownIsStored NoOrphans KeepsOne
SYMMETRY Threads
CHECK_DEADLOCK FALSE

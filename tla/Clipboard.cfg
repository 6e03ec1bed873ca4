\* Each platform, three copies, one fault, two actions, four of them together:
\* enough to copy what is pinned again, and to prune.  Once files are not
\* captured, an ignore pattern refuses their names.  The bounds stop it.
SPECIFICATION Spec
CONSTANTS
    MaxItems = 2
    Items = {"text", "files", "paths", "picture"}
    Files <- MCFiles
    Text <- MCText
    Picture <- MCPicture
    PathsIn <- MCPathsIn
    Ignored = {names}
    Toggled = {"files"}
    PageSize = 1
    None = None
    MaxCopies = 3
    MaxFaults = 1
    MaxActions = 2
    MaxEvents = 4
    text = text
    file = file
    names = names
    paths = paths
    picture = picture
INVARIANTS TypeOK InStep SeenIsKept SameItem
PROPERTIES PinsStay Watched
CHECK_DEADLOCK FALSE

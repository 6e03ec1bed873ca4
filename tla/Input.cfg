\* Four kinds of fields, documents of up to three characters and up to two
\* changes in the stacks.  An edit that took a composition for the document
\* is followed by a reset only, and a locked field can always be unlocked,
\* so nothing is stuck but what the bounds cut.
SPECIFICATION Spec
CONSTANTS
    Mode = {"editor", "line", "masked", "number"}
    Typed <- MCTyped
    Pasted <- MCPasted
    NewLine = "n"
    Space = "s"
    Tab <- MCTab
    Tokens <- MCTokens
    Separator = {"-"}
    Takes <- MCTakes
    Digits = {"x"}
    Signs = {"-"}
    Dot = "."
    None = None
    MaxLen <- MCMaxLen
    MaxUndo <- MCMaxUndo
    MaxPast = 1
INVARIANT Consistent
PROPERTIES UndoIsExact LockedDocument

\* Three requests and a cancel, racing their threads; every request frees the
\* slot in the end.
SPECIFICATION FairSpec
CONSTANTS
    Var = {v1}
    MaxSend = 3
    MaxCancel = 1
INVARIANT ChainedValues
PROPERTIES ShownAdvances Refinement SlotIsFreed

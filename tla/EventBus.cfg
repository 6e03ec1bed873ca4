\* Two publishers, two receivers and three events.
SPECIFICATION BusSpec
CONSTANTS
    Publishers = {p1, p2}
    Receivers = {r1, r2}
    MaxRevision = 3
INVARIANTS NothingLost SameOrderEverywhere
\* A bounded instance stops when its events are used up.
CHECK_DEADLOCK FALSE

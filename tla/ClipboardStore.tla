---------------------------- MODULE ClipboardStore ----------------------------
(***************************************************************************)
(* The clipboard history in its database (qingqi-feature-clipboard,        *)
(* data_source.rs): the table of items and the full-text index beside it.  *)
(* No command is a transaction: every statement commits by itself, so that *)
(* a command is the sequence of databases its statements leave, and a      *)
(* failure or a crash may end it after any of them.                        *)
(***************************************************************************)
EXTENDS Integers, Sequences, FiniteSets

CONSTANT MaxItems    \* MAX_HISTORY_ITEMS

ASSUME StoreAssumption == MaxItems \in Nat \ {0}

\* rows: clipboard_history; index: the rowids of clipboard_history_fts;
\* next: the AUTOINCREMENT counter, which no deletion moves back.
Empty == [rows |-> {}, index |-> {}, next |-> 1]

Ids(S) == {r.id : r \in S}
ContentsOf(S) == {r.content : r \in S}
Pinned(db) == {r \in db.rows : r.pinned}
Same(db, c) == {r \in db.rows : r.content = c}
IsLatest(db, c) == \E r \in Same(db, c) : \A q \in db.rows : q.id <= r.id

\* Statements.
Unindex(db, S) == [db EXCEPT !.index = @ \ Ids(S)]
Remove(db, S) == [db EXCEPT !.rows = @ \ S]
InsertNext(db, c, pin) ==   \* (Fault: an id may be given again, without AUTOINCREMENT)
    [db EXCEPT !.rows = @ \union {[content |-> c, pinned |-> pin,
                   id |-> CHOOSE n \in 1..db.next : /\ \A r \in db.rows : r.id < n
                                                   /\ n - 1 \in Ids(db.rows) \union {0}]},
               !.next = @ + 1]
Insert(db, c, pin) ==
    [db EXCEPT !.rows = @ \union {[id |-> db.next, content |-> c, pinned |-> pin]},
               !.next = @ + 1]
IndexIt(db, c) == [db EXCEPT !.index = @ \union Ids({r \in Same(db, c) : \A q \in Same(db, c) : q.id <= r.id})]

\* prune_history: what exceeds MaxItems, pinned rows counted, is taken from
\* the oldest rows that are not pinned.
Older(db, r) == {q \in db.rows \ Pinned(db) : q.id < r.id}
OverflowAny(db) ==   \* (Fault: the oldest rows, pinned or not)
    {r \in db.rows : Cardinality({q \in db.rows : q.id < r.id}) < Cardinality(db.rows) - MaxItems}
Overflow(db) ==
    {r \in db.rows \ Pinned(db) : Cardinality(Older(db, r)) < Cardinality(db.rows) - MaxItems}

\* add_item: nothing when c is the latest item.
AddSteps(db, c) ==
    LET dup == Same(db, c)
        d1  == Unindex(db, dup)
        d2  == Remove(d1, dup)
        d3  == Insert(d2, c, \E r \in dup : r.pinned)
        d4  == IndexIt(d3, c)
        d5  == Unindex(d4, Overflow(d4))
        d6  == Remove(d5, Overflow(d4))
    IN  IF IsLatest(db, c) THEN <<db>> ELSE <<db, d1, d2, d3, d4, d5, d6>>

\* delete
DeleteRowFirst(db, id) ==   \* (Fault: the row before its index entry)
    LET rest == Remove(db, {r \in db.rows : r.id = id})
    IN  <<db, rest, [rest EXCEPT !.index = @ \ {id}]>>
DeleteSteps(db, id) ==
    LET it == {r \in db.rows : r.id = id}
    IN  <<db, [db EXCEPT !.index = @ \ {id}], Remove([db EXCEPT !.index = @ \ {id}], it)>>

\* toggle_pin
PinSteps(db, id) ==
    <<db, [db EXCEPT !.rows = {IF r.id = id THEN [r EXCEPT !.pinned = ~@] ELSE r : r \in @}]>>

\* search with nothing to look for: pinned rows first, then the newest.
Before(r, q) == IF r.pinned = q.pinned THEN r.id > q.id ELSE r.pinned
Listed(db, offset, limit) ==
    {r \in db.rows : LET n == Cardinality({q \in db.rows : Before(q, r)})
                     IN  offset <= n /\ n < offset + limit}
================================================================================

------------------------------- MODULE ApiTree -------------------------------
(***************************************************************************)
(* The collection of the API debugger as data (qingqi-feature-api-debugger, *)
(* data_source.rs and service.rs): the rows of collection_nodes in the     *)
(* order list_collection_nodes returns them, and the tree the panel is     *)
(* given.  A request is known by its text, which stands for all its        *)
(* editors hold (body, headers, cookies, authorization, scripts); a text   *)
(* is named by the row it was first written in.                            *)
(***************************************************************************)
EXTENDS Naturals, Sequences, SequencesExt

CONSTANT None

Row(id, kind, parent, text) == [id |-> id, kind |-> kind, parent |-> parent, text |-> text]
Folder(id, parent)          == Row(id, "folder", parent, None)
Endpoint(id, parent)        == Row(id, "endpoint", parent, id)

\* What a row may be; it is newer than its parent.
Text == Nat \union {None}
Rows == {r \in [id : Nat, kind : {"folder", "endpoint", "case"}, parent : Text, text : Text] :
            r.parent # None => r.parent < r.id}

Has(rows, id) == \E i \in DOMAIN rows : rows[i].id = id
Get(rows, id) == rows[CHOOSE i \in DOMAIN rows : rows[i].id = id]

\* No row without its parent: a folder or, for a case, an endpoint.
Placed(rows, r) == r.parent # None =>
    /\ Has(rows, r.parent)
    /\ Get(rows, r.parent).kind = IF r.kind = "case" THEN "endpoint" ELSE "folder"
Intact(rows) == \A i \in DOMAIN rows : Placed(rows, rows[i])

\* What a list holds at some of its positions, in its order.
Only(list, I) ==
    LET kept[n \in 0..Len(list)] ==
            IF n = 0 THEN <<>>
            ELSE IF n \in I THEN Append(kept[n - 1], list[n]) ELSE kept[n - 1]
    IN  kept[Len(list)]

RowIds(rows)            == [i \in DOMAIN rows |-> rows[i].id]
Without(rows, id)       == Only(rows, {i \in DOMAIN rows : rows[i].id # id})
WithText(rows, id, txt) == [i \in DOMAIN rows |->
                             IF rows[i].id = id THEN [rows[i] EXCEPT !.text = txt] ELSE rows[i]]

\* The rows under a parent, and those of one kind, by id.
Under(rows, parent)    == Only(RowIds(rows), {i \in DOMAIN rows : rows[i].parent = parent})
Of(rows, kind, parent) == Only(RowIds(rows), {i \in DOMAIN rows : /\ rows[i].kind = kind
                                                                  /\ rows[i].parent = parent})

\* From a parent down: what it has itself, then what each of those next to it has.
Walk(own, next) ==
    LET walked[p \in DOMAIN own] ==
            own[p] \o FlattenSeq([i \in DOMAIN next[p] |-> walked[next[p][i]]])
    IN  walked

-----------------------------------------------------------------------------
(* What the panel is given.                                                *)

RequestOf(rows, id) ==
    LET cases == Of(rows, "case", id)
    IN  [id |-> id, text |-> Get(rows, id).text,
         cases |-> [i \in DOMAIN cases |-> [id |-> cases[i], text |-> Get(rows, cases[i]).text]]]

\* The folders under the root, and the requests, in the order the tree counts
\* them: those of a folder before those of its subfolders.  A row whose parent
\* is gone is in no tree.
Parents(rows) == {None} \union {rows[i].id : i \in DOMAIN rows}
Subs(rows)    == [p \in Parents(rows) |-> Of(rows, "folder", p)]
Order(rows)   == Walk([p \in Parents(rows) |-> Of(rows, "endpoint", p)], Subs(rows))[None]

Tree(rows) == [folders  |-> ToSet(Walk(Subs(rows), Subs(rows))[None]),
               requests |-> [i \in DOMAIN Order(rows) |-> RequestOf(rows, Order(rows)[i])]]

Placeholder == [id |-> None, text |-> None, cases |-> <<>>]
EmptyTree   == [folders |-> {}, requests |-> <<Placeholder>>]

\* What a newly opened panel shows: it looks for requests at the root and in the
\* folders at the root, and takes a collection without them for an empty one.
FirstTree(rows) ==
    IF \E i \in DOMAIN rows :
            /\ rows[i].kind = "endpoint"
            /\ rows[i].parent = None \/ rows[i].parent \in ToSet(Of(rows, "folder", None))
    THEN Tree(rows) ELSE EmptyTree

\* The requests of a tree and their cases, by id.
IdsOf(tree) == [folders  |-> tree.folders,
                requests |-> [i \in DOMAIN tree.requests |->
                               <<tree.requests[i].id, RowIds(tree.requests[i].cases)>>]]

-----------------------------------------------------------------------------
(* delete_collection_node_recursive: the rows a delete goes through, a      *)
(* parent before its children, the folder found last searched first.        *)

\* (Fault: only the children of the row itself are found.)
DoomedChildren(rows, id) == <<id>> \o Under(rows, id)

Doomed(rows, id) ==
    LET nodes == {id} \union {rows[i].id : i \in DOMAIN rows}
        kids  == [p \in nodes |-> Under(rows, p)]
    IN  <<id>> \o Walk(kids, [p \in nodes |-> Reverse(kids[p])])[id]
=============================================================================

------------------------------ MODULE TextInput ------------------------------
(***************************************************************************)
(* The document of an InputState of qingqi-ui (components/input/state.rs,  *)
(* change.rs, indent.rs): its text, the composition of an input method and *)
(* the undo history.  Every handler runs to its end on the UI thread; what *)
(* interleaves is who calls: keys, menus, the input method, and the plugin *)
(* that owns the field.  Offsets count characters, so that clipping to a   *)
(* character boundary is clipping to the length.  The selection is not     *)
(* kept: the user may select any range before any command, and the edits   *)
(* below are of any range.  Only a composition remembers a selection.      *)
(***************************************************************************)
EXTENDS Naturals, Sequences, SequencesExt

CONSTANTS Mode,        \* kinds of fields, among "editor", "line", "masked", "number"
          Typed,       \* Mode -> characters the user types
          Pasted,      \* Mode -> texts that arrive at once
          NewLine, Space,
          Tab,         \* TabSize::to_string
          Tokens, Separator, Takes, Digits, Signs, Dot,    \* of MaskPattern
          None,
          MaxLen,      \* bound, per mode: length of the text
          MaxUndo,     \* bound, per mode: changes in both stacks
          MaxPast      \* bound: how far past the text a selection lies

Char == {NewLine, Space} \union ToSet(Tab) \union Separator
        \union UNION {Typed[m] \union UNION {ToSet(v) : v \in Pasted[m]} : m \in Mode}
Text == Seq(Char)
Place == [start : Nat, end : Nat]

\* A tab is a tab character or spaces.
ASSUME InputAssumption ==
    /\ Mode \subseteq {"editor", "line", "masked", "number"}
    /\ \A m \in Mode : Pasted[m] \subseteq Text /\ MaxLen[m] \in Nat /\ MaxUndo[m] \in Nat
    /\ MaxPast \in Nat
    /\ Tab \in Text /\ NewLine \notin ToSet(Tab) /\ Tokens \in Seq(Separator \union DOMAIN Takes)
    /\ None \notin Place /\ None \notin [text : Text, sel : Place]

VARIABLES mode,         \* of the field: code editor, single line, masked line, number
          text,
          marked,       \* ime_marked_range
          original,     \* ime_initial_state: text and selection before a composition
          undo, redo,   \* History: stacks of changes, the top one last
          grouping,     \* History.last_groupable
          locked,       \* disabled or read_only
          past, future, \* history variables: the documents the changes were made of
          interrupted   \* history variable: an edit took a composition for the document

record == <<past, future, interrupted>>
history == <<undo, redo, grouping>>
ime == <<marked, original>>
vars == <<mode, text, ime, history, locked, record>>

M == INSTANCE MaskPattern

-----------------------------------------------------------------------------
(* Data.                                                                   *)

Least(a, b) == IF a <= b THEN a ELSE b
Span(a, b) == IF a <= b THEN [start |-> a, end |-> b] ELSE [start |-> b, end |-> a]
Ranges == {Span(a, b) : a \in 0..Len(text), b \in 0..Len(text)}
\* In a line indent moves the selection on whether its tab was taken or not
\* (122-131), past the end too; an edit clips its range, a composition keeps it.
Selections ==
    LET end == Len(text) + (IF mode = "editor" THEN 0 ELSE MaxPast)
    IN  {Span(a, b) : a \in 0..end, b \in 0..end}
Whole == Span(0, Len(text))
IsEmpty(r) == r.start = r.end
Clip(t, r) == Span(Least(r.start, Len(t)), Least(r.end, Len(t)))
Slice(t, r) == SubSeq(t, r.start + 1, r.end)
\* RopeExt::replace
Replace(t, r, new) == SubSeq(t, 1, r.start) \o new \o SubSeq(t, r.end + 1, Len(t))

Init ==
    /\ mode \in Mode
    /\ text = <<>> /\ marked = None /\ original = None
    /\ undo = <<>> /\ redo = <<>> /\ grouping = FALSE
    /\ locked = FALSE
    /\ past = <<>> /\ future = <<>> /\ interrupted = FALSE

-----------------------------------------------------------------------------
(* The history, and the one way into the text: apply_edit.                 *)

\* The document is what was there before a composition.  Once a handler has
\* worked on a composition instead, nothing is recorded.
Document == IF original # None THEN original.text ELSE text
Record(doc, p, f) ==
    /\ interrupted' = (interrupted \/ doc # Document)
    /\ past' = IF interrupted' THEN <<>> ELSE p
    /\ future' = IF interrupted' THEN <<>> ELSE f

\* History::push: typing that goes on where the last typing ended, and in a
\* masked field typing that starts from what the last typing left, extends
\* the top change instead of adding one.
GoesOnAnywhere(p, c) == p.old = <<>> /\ c.old = <<>>   \* (Fault: wherever it was typed)
GoesOn(p, c) == p.old = <<>> /\ c.old = <<>> /\ p.start + Len(p.new) = c.start
Remasks(p, c) == p.start = 0 /\ c.start = 0 /\ p.new = c.old
Joins(c, groupable, run) ==
    groupable /\ run /\ undo # <<>> /\ (GoesOn(Last(undo), c) \/ Remasks(Last(undo), c))
Joined(p, c) == [p EXCEPT !.new = IF GoesOn(p, c) THEN @ \o c.new ELSE c.new]
PushOnly(doc, c, groupable, run) ==   \* (Fault: the redo stack is not cleared)
    /\ UNCHANGED redo
    /\ IF Joins(c, groupable, run)
       THEN /\ undo' = Append(Front(undo), Joined(Last(undo), c)) /\ grouping' = run
            /\ Record(doc, past, future)
       ELSE /\ undo' = Append(undo, c) /\ grouping' = groupable
            /\ Record(doc, Append(past, Document), future)
Push(doc, c, groupable, run) ==
    /\ redo' = <<>>
    /\ IF Joins(c, groupable, run)
       THEN /\ undo' = Append(Front(undo), Joined(Last(undo), c)) /\ grouping' = run
            /\ Record(doc, past, <<>>)
       ELSE /\ undo' = Append(undo, c) /\ grouping' = groupable
            /\ Record(doc, Append(past, Document), <<>>)

\* What the field makes of an edited text: a line may be refused by its
\* validation (None), a masked line or a number is formatted first.
Shown(t) == CASE mode = "editor" -> {t}
              [] mode = "line"   -> {t, None}
              [] mode = "masked" -> {IF M!IsValid(M!Mask(t)) THEN M!Mask(t) ELSE None}
              [] mode = "number" -> {M!NumberMask(t)}
OneLine(new) ==
    IF mode = "editor" THEN new
    ELSE [i \in DOMAIN new |-> IF new[i] = NewLine THEN Space ELSE new[i]]

Settle(out) == text' = out /\ marked' = None /\ original' = None

\* apply_edit on the text doc, accepted.
Accept(doc, range, new, run) ==
    LET r   == Clip(doc, range)
        rep == OneLine(new)
    IN  \E out \in Shown(Replace(doc, r, rep)) \ {None} :
          /\ Settle(out)
          /\ Push(doc,
                  IF mode \in {"masked", "number"} THEN [start |-> 0, old |-> doc, new |-> out]
                  ELSE [start |-> r.start, old |-> Slice(doc, r), new |-> rep],
                  IsEmpty(r) /\ Len(rep) = 1, run)

Refused(doc, range, new) ==
    None \in Shown(Replace(doc, Clip(doc, range), OneLine(new)))

\* A handler that edits the text in place; `run` is History.last_groupable
\* when apply_edit starts, FALSE after end_grouping.
Edit(range, new, run) ==
    /\ ~locked
    /\ \/ Accept(text, range, new, run)
       \/ /\ Refused(text, range, new)
          /\ grouping' = run
          /\ UNCHANGED <<text, ime, undo, redo, record>>
    /\ UNCHANGED <<mode, locked>>

-----------------------------------------------------------------------------
(* Handlers that edit.                                                     *)

\* A step of a number field sets the value it comes to.
SetValue == \E v \in Pasted[mode] : Edit(Whole, v, FALSE)
Paste == \E r \in Ranges, v \in Pasted[mode] : Edit(r, v, FALSE)

\* cut, delete_to_*: whatever the command takes away.
Cut == \E r \in Ranges : ~IsEmpty(r) /\ Edit(r, <<>>, grouping)

\* backspace and delete leave a composition to the input method.
DeleteChar == marked = None /\ \E r \in Ranges : ~IsEmpty(r) /\ Edit(r, <<>>, grouping)

Enter == mode = "editor" /\ \E r \in Ranges : Edit(r, <<NewLine>>, grouping)

\* replace_all_matches: every x of the text at once.
ReplaceAllMatches == \E x \in Typed[mode], v \in Pasted[mode] :
    /\ x \in ToSet(text)
    /\ Edit(Whole, FlattenSeq([i \in DOMAIN text |-> IF text[i] = x THEN v ELSE <<text[i]>>]), grouping)

\* indent and outdent edit the lines of the selection, one change each.
LineStarts == {0} \union {i \in DOMAIN text : text[i] = NewLine}
LinesOf(r) == {p \in LineStarts : p <= r.end /\ \A q \in LineStarts : q <= r.start => q <= p}
TabAt(p) == p + Len(Tab) <= Len(text) /\ SubSeq(text, p + 1, p + Len(Tab)) = Tab
InOrder(S) ==
    LET below[k \in 0..Len(text) + 1] ==
            IF k = 0 THEN <<>> ELSE below[k - 1] \o (IF k - 1 \in S THEN <<k - 1>> ELSE <<>>)
    IN  below[Len(text) + 1]

Applied(t, c) == Replace(t, Span(c.start, c.start + Len(c.old)), c.new)
LinesAfter(changes) ==
    LET after[k \in 0..Len(changes)] ==
            IF k = 0 THEN text ELSE Applied(after[k - 1], changes[k])
    IN  after
EditLines(changes) ==
    /\ ~locked /\ changes # <<>>
    /\ Settle(LinesAfter(changes)[Len(changes)])
    /\ undo' = undo \o changes /\ redo' = <<>>
    /\ Record(text, past \o [k \in DOMAIN changes |-> LinesAfter(changes)[k - 1]], <<>>)
    /\ grouping' = (Last(changes).old = <<>> /\ Len(Tab) = 1)
    /\ UNCHANGED <<mode, locked>>

Indent == \E r \in Ranges :
    IF IsEmpty(r) THEN Edit(r, Tab, FALSE)
    ELSE IF mode # "editor" THEN Edit(Span(0, 0), Tab, FALSE)
    ELSE LET ps == InOrder(LinesOf(r)) IN
         EditLines([k \in DOMAIN ps |->
                      [start |-> ps[k] + (k - 1) * Len(Tab), old |-> <<>>, new |-> Tab]])

Outdent == \E r \in Ranges :
    LET whole(p) == IsEmpty(r) \/ p + Len(Tab) <= r.end
        ps == InOrder({p \in LinesOf(r) : TabAt(p) /\ whole(p)})
    IN  IF mode # "editor" THEN ps # <<>> /\ Edit(Span(0, Len(Tab)), <<>>, FALSE)
        ELSE EditLines([k \in DOMAIN ps |->
                          [start |-> ps[k] - (k - 1) * Len(Tab), old |-> Tab, new |-> <<>>]])

\* The owner gives the field another document, locked or not; a single line
\* is given a single line, which reset_value does not see to.
ResetValue ==
    /\ text' \in {OneLine(v) : v \in Pasted[mode]} /\ marked' = None /\ original' = None
    /\ undo' = <<>> /\ redo' = <<>> /\ grouping' = FALSE
    /\ past' = <<>> /\ future' = <<>> /\ interrupted' = FALSE
    /\ UNCHANGED <<mode, locked>>

SetLocked == locked' = ~locked /\ UNCHANGED <<mode, text, ime, history, record>>

-----------------------------------------------------------------------------
(* Undo and redo: the change on top, applied backwards or again at the     *)
(* same place, cut to the text there is.                                   *)

Clamped(start, len) == Span(Least(start, Len(text)), Least(Least(start, Len(text)) + len, Len(text)))
Swap(c, from, to) == Settle(Replace(text, Clamped(c.start, Len(from)), to))

Undo ==
    /\ ~locked /\ undo # <<>>
    /\ Swap(Last(undo), Last(undo).new, Last(undo).old)
    /\ undo' = Front(undo) /\ redo' = Append(redo, Last(undo)) /\ grouping' = FALSE
    /\ Record(text, Front(past), Append(future, Document))
    /\ UNCHANGED <<mode, locked>>

Redo ==
    /\ ~locked /\ redo # <<>>
    /\ Swap(Last(redo), Last(redo).old, Last(redo).new)
    /\ redo' = Front(redo) /\ undo' = Append(undo, Last(redo)) /\ grouping' = FALSE
    /\ Record(text, Append(past, Document), Front(future))
    /\ UNCHANGED <<mode, locked>>

-----------------------------------------------------------------------------
(* The input method, which addresses the marked text or the selection.     *)

\* replace_and_mark_text_in_range: the new composition replaces the marked
\* text; an empty one ends it and brings the original back.
Compose == \E sel \in Selections, new \in {<<>>} \union {<<c>> : c \in Typed[mode]} :
    LET base == IF original # None THEN original ELSE [text |-> text, sel |-> sel]
        r    == Clip(text, IF marked # None THEN marked ELSE sel)
    IN  /\ ~locked
        /\ IF new = <<>>
           THEN text' = base.text /\ marked' = None /\ original' = None
           ELSE /\ text' = Replace(text, r, new)
                /\ marked' = Span(r.start, r.start + Len(new)) /\ original' = base
        /\ UNCHANGED <<mode, history, locked, record>>

\* replace_text_in_range without a composition: plain typing.
Type == \E r \in Ranges, c \in Typed[mode] : original = None /\ Edit(r, <<c>>, grouping)

\* replace_text_in_range with one: what is committed is one edit of the
\* original, which is brought back first, whatever can_edit says.
CommitAnyway == \E c \in Typed[mode] :   \* (Fault: the edit does not ask can_edit)
    /\ original # None
    /\ Accept(original.text, original.sel, <<c>>, FALSE)
    /\ UNCHANGED <<mode, locked>>
Commit == \E c \in Typed[mode] :
    /\ original # None
    /\ \/ ~locked /\ Accept(original.text, original.sel, <<c>>, FALSE)
       \/ /\ locked \/ Refused(original.text, original.sel, <<c>>)
          /\ text' = original.text /\ marked' = None /\ original' = None
          /\ grouping' = FALSE
          /\ UNCHANGED <<undo, redo, record>>
    /\ UNCHANGED <<mode, locked>>

Unmark == marked # None /\ marked' = None
          /\ UNCHANGED <<mode, text, original, history, locked, record>>

\* The branch for marked text without an original is never taken (Composing).
Escape ==
    /\ original # None /\ text' = original.text
    /\ marked' = None /\ original' = None
    /\ UNCHANGED <<mode, history, locked, record>>

\* The bounds: MaxLen, MaxUndo, and nothing but a reset is followed after an
\* edit has taken a composition for the document.
Bounded == /\ Len(text') <= MaxLen[mode]
           /\ Len(undo') + Len(redo') <= MaxUndo[mode]
           /\ interrupted => ~interrupted'

Next ==
    /\ \/ SetValue \/ Paste \/ Cut \/ DeleteChar \/ Enter \/ Indent \/ Outdent
       \/ ReplaceAllMatches \/ ResetValue \/ SetLocked \/ Undo \/ Redo
       \/ Compose \/ Type \/ Commit \/ Unmark \/ Escape
    /\ Bounded

Spec == Init /\ [][Next]_vars

-----------------------------------------------------------------------------
(* Properties.                                                             *)

TypeOK ==
    /\ mode \in Mode /\ text \in Text
    /\ marked \in Place \union {None}
    /\ original \in [text : Text, sel : Place] \union {None}
    /\ {undo, redo} \subseteq Seq([start : Nat, old : Text, new : Text])
    /\ {past, future} \subseteq Seq(Text)
    /\ {grouping, locked, interrupted} \subseteq BOOLEAN

\* There is no composition without a document to go back to, nor one that
\* is not in the text.
Composing == marked # None => original # None /\ marked.end <= Len(text)

\* c turns the document a into b, and its undo b into a.
Turns(a, c, b) ==
    LET r(t) == Span(c.start, c.start + Len(t)) IN
    /\ c.start + Len(c.old) <= Len(a) /\ c.start + Len(c.new) <= Len(b)
    /\ Replace(a, r(c.old), c.new) = b
    /\ Replace(b, r(c.new), c.old) = a

\* Unless an edit took a composition for the document, the stacks lead from
\* document to document: every change still fits the text it will meet when
\* undo or redo reaches it, however typing was grouped and whatever was
\* composed, refused, masked or cancelled in between.
HistoryFits == interrupted \/
    LET back == Append(past, Document)
        on   == Append(future, Document)
    IN  /\ Len(past) = Len(undo) /\ Len(future) = Len(redo)
        /\ \A i \in DOMAIN undo : Turns(back[i], undo[i], back[i + 1])
        /\ \A i \in DOMAIN redo : Turns(on[i + 1], redo[i], on[i])

\* What the field, a composition in it and the history say of one another.
Consistent == TypeOK /\ Composing /\ HistoryFits

\* Undo and redo show the documents that were in the field, in order: the
\* two stacks of ranges and texts (194-248, 1252-1307) implement a history
\* of documents.
Promise == INSTANCE UndoHistory WITH doc <- Document
UndoIsExact == Promise!Spec

\* A field that may not be edited keeps its document, also when it was locked
\* in the middle of a composition: the input method's calls that do not ask
\* can_edit (1823-1835, 1439-1452) bring back the original and nothing else.
LockedDocument == [][locked /\ ~ResetValue => Document' = Document]_vars
=============================================================================

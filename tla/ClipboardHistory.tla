--------------------------- MODULE ClipboardHistory ---------------------------
(***************************************************************************)
(* The clipboard history of qingqi-feature-clipboard: the loop that polls  *)
(* the system clipboard and the panel, over one ClipboardService           *)
(* (service.rs) and its database (ClipboardStore).  The service's mutex is *)
(* held for each command; what interleaves is the loop, which lets go of   *)
(* it between reading the clipboard and recording what it read, the panel, *)
(* whose loads and actions are tasks, other programs that copy, and        *)
(* failures and crashes between two statements of a command.               *)
(***************************************************************************)
EXTENDS ClipboardStore

CONSTANTS Items,        \* what a program may copy
          Files, Text, Picture,   \* Item -> its content of that form, or None
          PathsIn,      \* text -> the files it lists, or None
          Ignored,      \* texts an ignore pattern or the length limit refuses
          Toggled,      \* forms the user turns on and off
          PageSize,     \* HISTORY_PAGE_SIZE
          None,
          MaxCopies, MaxFaults, MaxActions, MaxEvents    \* bounds: of each, and of all

Platforms == {"macos", "windows", "other"}
Forms == {"files", "text", "picture"}

TextsAndFiles == ((UNION {{Files[i], Text[i]} : i \in Items})
                  \union {PathsIn[Text[i]] : i \in {j \in Items : Text[j] # None}}) \ {None}
Pictures == {Picture[i] : i \in Items} \ {None}
Content == TextsAndFiles \union Pictures \union (0..MaxCopies)

\* Only a text is held against the ignore patterns and the length limit; a
\* picture's hash is no change count.
ASSUME ClipboardAssumption ==
    /\ {MaxCopies, MaxFaults, MaxActions, MaxEvents, PageSize} \subseteq Nat /\ Toggled \subseteq Forms
    /\ Ignored \intersect (Pictures \union (0..MaxCopies)) = {}
    /\ \A i \in Items : {Files[i], IF Text[i] = None THEN None ELSE PathsIn[Text[i]]} \intersect Ignored \subseteq {None}
    /\ (Pictures \union {None}) \intersect (0..MaxCopies) = {} /\ None \notin Items

VARIABLES platform,   \* what the program is built for: only "macos" and "windows" count changes
          clip,       \* the system clipboard: its change count and what is on it
          db,         \* clipboard_history and clipboard_history_fts
          disk,       \* the image directory: image id -> the picture in its file
          config,     \* the forms that are captured
          seen,       \* last_seen_files, _text, _image_id and _change_count
          loop,       \* the poll: the count it read, then what it read with it
          panel,      \* the open ClipboardView
          gone,       \* history variable: contents a delete or a prune took
          skipped,    \* history variable: the last capture had nothing to record,
                      \* or could not open the clipboard
          faults, actions   \* counters of the bounds

vars == <<platform, clip, db, disk, config, seen, loop, panel, gone, skipped, faults, actions>>

Unseen == [files |-> None, text |-> None, picture |-> None, count |-> None]
Closed == [open |-> FALSE, items |-> {}, len |-> 0, more |-> FALSE, load |-> None, task |-> None]

Init ==
    /\ platform \in Platforms
    /\ clip = [count |-> 0, item |-> None]
    /\ db = Empty /\ disk = <<>>
    /\ config = Forms /\ seen = Unseen
    /\ loop = None /\ panel = Closed
    /\ gone = {} /\ skipped = FALSE
    /\ faults = 0 /\ actions = 0

-----------------------------------------------------------------------------
(* Recording what was read: capture_snapshot.                              *)

\* What a read of the clipboard makes of an item: files are read where changes
\* are counted, and a picture, named id, is left out when it is the one seen last.
Snapshot(item, id) ==
    [files   |-> IF item = None \/ platform = "other" THEN None ELSE Files[item],
     text    |-> IF item = None THEN None ELSE Text[item],
     picture |-> IF item = None \/ id = seen.picture THEN None ELSE Picture[item],
     known   |-> item # None /\ Picture[item] # None /\ id = seen.picture,
     id      |-> id]
IsEmptySnapshot(s) == s.files = None /\ s.text = None /\ s.picture = None

\* The name of a picture is its hash, for which it stands itself, but for the
\* loop on macOS, where it is the count.
PictureOf(item) == IF item = None THEN None ELSE Picture[item]
OnScreen(item) == Snapshot(item, PictureOf(item))
InLoop(item) == Snapshot(item, IF platform = "macos" THEN loop.count ELSE PictureOf(item))

\* One form of it: c is not recorded when it is the one seen last of its form,
\* and recording stops there unless it is a text; nor when it is ignored or is
\* the latest item, and then a picture is not taken for seen.
Try(a, form, c) ==
    IF a.done \/ c = None THEN a
    ELSE IF a.seen[form] = c THEN [a EXCEPT !.done = (form # "text")]
    ELSE LET marks == [a.seen EXCEPT ![form] = c]
         IN  IF c \in Ignored \/ IsLatest(db, c)
             THEN [a EXCEPT !.seen = IF form = "picture" THEN @ ELSE marks, !.done = (form = "picture")]
             ELSE [a EXCEPT !.before = a.seen, !.seen = marks, !.steps = AddSteps(db, c), !.done = TRUE]

If(form, c) == IF form \in config THEN c ELSE None
PathsOf(text) == IF text = None THEN None ELSE PathsIn[text]

\* The picture goes to its file first, and never over a file that exists.
Save(id, picture) ==
    IF id \in DOMAIN disk THEN disk
    ELSE [i \in DOMAIN disk \union {id} |-> IF i = id THEN picture ELSE disk[i]]

Capture(s) ==
    LET a0 == [seen |-> seen, before |-> seen, steps |-> <<db>>, done |-> FALSE]
        a1 == Try(a0, "files", If("files", s.files))
        a2 == Try(a1, "files", If("text", If("files", PathsOf(s.text))))
        a3 == Try(a2, "text", If("text", s.text))
        id == If("picture", IF s.picture = None THEN None ELSE s.id)
        saves == ~a3.done /\ id # None /\ id # a3.seen.picture
        a4 == Try(a3, "picture", id)
    IN  [seen |-> a4.seen, before |-> a4.before, steps |-> a4.steps, saves |-> saves,
         disk |-> IF saves THEN Save(id, s.picture) ELSE disk]

Records(s) == \/ If("files", s.files) # None
              \/ If("text", s.text) \notin Ignored \union {None}
              \/ If("picture", s.picture) # None \/ s.known

\* A command goes as far as its statement k; what it took from the table on
\* the way, possibly the very row it added, is gone.
Goes(steps, k) ==
    /\ db' = steps[k]
    /\ gone' = (gone \union UNION {ContentsOf(steps[i].rows) : i \in 1..k}) \ ContentsOf(steps[k].rows)
Runs(steps) == Goes(steps, Len(steps))
Stops(steps) == \E k \in DOMAIN steps : Goes(steps, k)

\* A capture that succeeds marks the change count it was told, if there is one.
Recorded(s, count) ==
    LET a == Capture(s)
    IN  /\ Runs(a.steps) /\ disk' = a.disk
        /\ seen' = [a.seen EXCEPT !.count = count]
        /\ skipped' = ~Records(s)

\* One that fails leaves what its statements did so far, and the count unseen.
\* A file cut off by a full disk stays where it is.
Cut(a) ==
    /\ Stops(a.steps)
    /\ \/ disk' = a.disk
       \/ db' = db /\ disk' = disk
       \/ /\ a.saves /\ db' = db
          /\ disk' = [i \in DOMAIN a.disk |-> IF i \in DOMAIN disk THEN disk[i] ELSE None]
More == clip.count + faults + actions < MaxEvents
Fault == faults < MaxFaults /\ More /\ faults' = faults + 1
FailedButSeen(s) == Fault /\ Cut(Capture(s)) /\ seen' = Capture(s).seen /\ UNCHANGED skipped   \* (Fault: marked before it is recorded)
Failed(s) == Fault /\ Cut(Capture(s)) /\ seen' = Capture(s).before /\ UNCHANGED skipped

\* On Windows another program may have the clipboard open: OpenClipboard fails,
\* and what is read is empty.
Unopened == platform = "windows" /\ Fault

-----------------------------------------------------------------------------
(* Other programs.                                                         *)

Onto(item) == clip' = [count |-> clip.count + 1, item |-> item]
Copy == \E item \in Items :
    /\ clip.count < MaxCopies /\ More /\ Onto(item)
    /\ UNCHANGED <<db, disk, config, seen, loop, panel, gone, skipped, faults, actions>>

-----------------------------------------------------------------------------
(* The poll, every 700 ms: the change count, then the content, under the   *)
(* lock; then, under the lock again, what was read is recorded.  Where no  *)
(* changes are counted (change_count is None) it does nothing.             *)

Count == IF platform = "other" THEN None ELSE clip.count
HasSeen(count) == count # None /\ count = seen.count

PollWhileClosed ==   \* (Fault: no polling while the panel is open)
    /\ loop = None /\ Count # None /\ ~HasSeen(Count) /\ ~panel.open
    /\ loop' = [count |-> Count, read |-> None]
    /\ UNCHANGED <<clip, db, disk, config, seen, panel, gone, skipped, faults, actions>>
PollCount ==
    /\ loop = None /\ Count # None /\ ~HasSeen(Count)
    /\ loop' = [count |-> Count, read |-> None]
    /\ UNCHANGED <<clip, db, disk, config, seen, panel, gone, skipped, faults, actions>>

PollContent ==
    /\ loop # None /\ loop.read = None
    /\ \/ loop' = [loop EXCEPT !.read = InLoop(clip.item)] /\ UNCHANGED faults
       \/ Unopened /\ loop' = [loop EXCEPT !.read = InLoop(None)]
    /\ UNCHANGED <<clip, db, disk, config, seen, panel, gone, skipped, actions>>

PollRecord ==
    /\ loop # None /\ loop.read # None
    /\ loop' = None
    /\ \/ /\ IsEmptySnapshot(loop.read)
          /\ seen' = [seen EXCEPT !.count = loop.count] /\ skipped' = ~loop.read.known
          /\ UNCHANGED <<db, disk, gone, faults>>
       \/ ~IsEmptySnapshot(loop.read) /\ Recorded(loop.read, loop.count) /\ UNCHANGED faults
       \/ ~IsEmptySnapshot(loop.read) /\ Failed(loop.read)
    /\ UNCHANGED <<clip, config, panel, actions>>

Poll == PollCount \/ PollContent \/ PollRecord

-----------------------------------------------------------------------------
(* The panel.  Opening it records the clipboard too, on the UI thread: the *)
(* lock keeps the poll out, but not a program that copies between the      *)
(* count and the content.                                                  *)

\* refresh_async: the list is emptied and its first page asked for; a load
\* that has not been shown is dropped.
Refreshed(p) == [p EXCEPT !.items = {}, !.len = 0, !.more = FALSE,
                          !.load = [offset |-> 0, rows |-> None]]

CaptureCurrent ==
    IF HasSeen(Count)
    THEN UNCHANGED <<clip, db, disk, seen, gone, skipped, faults>>
    ELSE \E late \in {None} \union (IF clip.count < MaxCopies /\ More THEN Items ELSE {}) :
           LET item == IF late = None THEN clip.item ELSE late
           IN  /\ IF late = None THEN UNCHANGED clip ELSE Onto(late)
               /\ \/ Recorded(OnScreen(item), Count) /\ UNCHANGED faults
                  \/ Unopened /\ Recorded(OnScreen(None), Count)
                  \/ Failed(OnScreen(item))

\* open makes a panel, reopen shows the one there is.
OpenPanel ==
    /\ actions < MaxActions /\ More /\ actions' = actions + 1
    /\ CaptureCurrent
    /\ panel' = Refreshed(IF panel.open THEN panel ELSE [Closed EXCEPT !.open = TRUE])
    /\ UNCHANGED <<config, loop>>

ClosePanel ==
    /\ panel.open /\ panel' = Closed
    /\ UNCHANGED <<clip, db, disk, config, seen, loop, gone, skipped, faults, actions>>

\* schedule_load, its search and what the panel makes of the rows.  One row
\* more than the page tells that there are more.
Search ==
    /\ panel.load # None /\ panel.load.rows = None
    /\ panel' = [panel EXCEPT !.load.rows = Listed(db, panel.load.offset, PageSize + 1)]
    /\ UNCHANGED <<clip, db, disk, config, seen, loop, gone, skipped, faults, actions>>

ShowAlone ==   \* (Fault: the next page is asked for as if there were only this one)
    /\ panel.load # None /\ panel.load.rows # None
    /\ LET rows == panel.load.rows
           page == {r \in rows : Cardinality({q \in rows : Before(q, r)}) < PageSize}
       IN  panel' = [panel EXCEPT !.items = @ \union page, !.len = Cardinality(page),
                                  !.more = (page # rows), !.load = None]
    /\ UNCHANGED <<clip, db, disk, config, seen, loop, gone, skipped, faults, actions>>
Show ==
    /\ panel.load # None /\ panel.load.rows # None
    /\ LET rows == panel.load.rows
           page == {r \in rows : Cardinality({q \in rows : Before(q, r)}) < PageSize}
       IN  panel' = [panel EXCEPT !.items = @ \union page, !.len = @ + Cardinality(page),
                                  !.more = (page # rows), !.load = None]
    /\ UNCHANGED <<clip, db, disk, config, seen, loop, gone, skipped, faults, actions>>

Prefetch ==
    /\ panel.load = None /\ panel.more
    /\ panel' = [panel EXCEPT !.load = [offset |-> panel.len, rows |-> None]]
    /\ UNCHANGED <<clip, db, disk, config, seen, loop, gone, skipped, faults, actions>>

\* toggle_selected_pin, delete_selected and the toggles of the settings share
\* one task: a new one drops the old one, run or not, with its refresh.
Ask(task) ==
    /\ panel.open /\ actions < MaxActions /\ More /\ actions' = actions + 1
    /\ panel' = [panel EXCEPT !.task = task]
    /\ UNCHANGED <<clip, db, disk, config, seen, loop, gone, skipped, faults>>
AskAboutRow == \E r \in panel.items, op \in {"pin", "delete"} : Ask([op |-> op, row |-> r, ran |-> FALSE])
AskToToggle == \E form \in Toggled : Ask([op |-> "config", form |-> form, on |-> form \notin config, ran |-> FALSE])

StepsOf(task) == CASE task.op = "pin"    -> PinSteps(db, task.row.id)
                   [] task.op = "delete" -> DeleteSteps(db, task.row.id)
                   [] OTHER -> <<db>>
Ran == panel' = [panel EXCEPT !.task.ran = TRUE]
RunTask ==
    LET task == panel.task IN
    /\ task # None /\ ~task.ran /\ Ran
    /\ \/ /\ Runs(StepsOf(task))
          /\ config' = IF task.op # "config" THEN config
                       ELSE IF task.on THEN config \union {task.form} ELSE config \ {task.form}
          /\ UNCHANGED faults
       \/ /\ Fault /\ Stops(StepsOf(task))
          /\ UNCHANGED config
    /\ UNCHANGED <<clip, disk, seen, loop, skipped, actions>>

EndTask ==
    /\ panel.task # None /\ panel.task.ran
    /\ panel' = [IF panel.task.op = "config" THEN panel ELSE Refreshed(panel) EXCEPT !.task = None]
    /\ UNCHANGED <<clip, db, disk, config, seen, loop, gone, skipped, faults, actions>>

-----------------------------------------------------------------------------
(* A crash, in the middle of a command or not, and the next start.         *)

Crash ==
    /\ Fault
    /\ \/ UNCHANGED <<db, disk, gone>>
       \/ loop # None /\ loop.read # None /\ Cut(Capture(loop.read))
       \/ ~HasSeen(Count) /\ Cut(Capture(OnScreen(clip.item)))
       \/ panel.task # None /\ ~panel.task.ran /\ UNCHANGED disk
          /\ Stops(StepsOf(panel.task))
    /\ seen' = Unseen /\ loop' = None /\ panel' = Closed /\ skipped' = FALSE
    /\ UNCHANGED <<clip, config, actions>>

Next ==
    /\ \/ Copy \/ Poll
       \/ OpenPanel \/ ClosePanel \/ Search \/ Show \/ Prefetch
       \/ AskAboutRow \/ AskToToggle \/ RunTask \/ EndTask
       \/ Crash
    /\ UNCHANGED platform

\* The loop goes on while the application runs; what it read is recorded, or
\* the recording fails, which only a fault does (or a crash ends it all).
Recording == loop # None /\ loop.read # None /\ loop' = None
Spec == Init /\ [][Next]_vars /\ WF_loop(PollCount) /\ WF_loop(PollContent) /\ WF_loop(Recording)

-----------------------------------------------------------------------------
(* Properties.                                                             *)

Row == [id : Nat, content : Content, pinned : BOOLEAN]

TypeOK ==
    /\ platform \in Platforms
    /\ clip.count \in 0..MaxCopies /\ clip.item \in Items \union {None}
    /\ db.rows \subseteq Row /\ db.index \subseteq Nat /\ db.next \in Nat
    /\ DOMAIN disk \subseteq Content /\ \A i \in DOMAIN disk : disk[i] \in Pictures \union {None}
    /\ config \subseteq Forms /\ gone \subseteq Content
    /\ \A form \in Forms : seen[form] \in Content \union {None}
    /\ panel.items \subseteq Row /\ panel.len >= Cardinality(panel.items)

\* The table and its index stay in step through every command cut short:
\* no content twice, no id twice or to be given again, no index entry
\* without its row.
InStep ==
    /\ \A r, q \in db.rows : r.content = q.content \/ r.id = q.id => r = q
    /\ \A r \in db.rows : r.id < db.next
    /\ db.index \subseteq Ids(db.rows)

\* What was seen is not looked at again, so it must have been recorded: it is
\* in the table, or a delete or a prune took it, whatever failed or crashed in
\* between, and whether the poll or the panel came first; and the file of a picture
\* shows it, unless the disk was full and cut a file off.
Kept == ContentsOf(db.rows) \union gone
Whole == \A i \in DOMAIN disk : disk[i] # None
HasIt(item) ==
    \/ {Files[item], Text[item], PathsOf(Text[item])} \intersect Kept # {}
    \/ /\ Picture[item] # None
       /\ Whole => \E c \in Kept \intersect DOMAIN disk : disk[c] = Picture[item]
Marked == seen.count = clip.count /\ clip.item # None /\ ~skipped
SeenIsKept ==
    /\ \A form \in {"files", "text"} : seen[form] \in Kept \union Ignored \union {None}
    /\ Marked => HasIt(clip.item)

\* The ids the panel shows, and the one its task works on, still stand for
\* the same items: a delete or a pin late by any number of copies, prunes and
\* restarts cannot fall on another.
Shown == panel.items
         \union (IF panel.load = None \/ panel.load.rows = None THEN {} ELSE panel.load.rows)
         \union (IF panel.task = None \/ panel.task.op = "config" THEN {} ELSE {panel.task.row})
SameItem == \A r \in Shown, q \in db.rows : r.id = q.id => r.content = q.content

\* A pinned item stays, pinned, until the user unpins or deletes it, unless a
\* command was cut short: copying it again moves it, and prunes pass it by.
PinsStay == [][
    \A r \in Pinned(db) :
      \/ r.content \in ContentsOf(Pinned(db)')
      \/ panel.task # None /\ panel.task.op # "config" /\ panel.task.row.id = r.id
      \/ faults' # faults]_vars

\* A copy that is not recorded, though there is something of it to record and
\* Windows did not refuse to open the clipboard.  Only where changes are
\* counted: elsewhere nothing is recorded until the panel is opened.
Missed ==
    /\ platform # "other" /\ clip.count > 0
    /\ ~(seen.count = clip.count /\ (skipped \/ HasIt(clip.item)))

\* Whatever is copied and stays on the clipboard is recorded in the end, also
\* when the poll works on an older content while the panel records it, and when
\* the application fails or starts again meanwhile.  (Copies are bounded, so one
\* of them stays.)
Watched == Missed ~> ~Missed
=============================================================================

------------------------ MODULE ClipboardHistory_proofs ------------------------
(***************************************************************************)
(* Proofs about ClipboardStore and ClipboardHistory, for whatever programs *)
(* copy, any size of the history and of its pages, and any number of       *)
(* copies, actions of the user, failures and crashes.                      *)
(***************************************************************************)
EXTENDS ClipboardHistory, FiniteSetTheorems, TLAPS

-----------------------------------------------------------------------------
(* The database: what a statement keeps.                                   *)

DbShape == [rows : SUBSET Row, index : SUBSET Nat, next : Nat]
InStepOf(d) ==
    /\ \A r, q \in d.rows : r.content = q.content \/ r.id = q.id => r = q
    /\ \A r \in d.rows : r.id < d.next
    /\ d.index \subseteq Ids(d.rows)
Sound(d) == d \in DbShape /\ IsFiniteSet(d.rows) /\ InStepOf(d)

\* No id is given again, and none goes to another content.
From(d, r) == r.id >= d.next \/ \E q \in d.rows : q.id = r.id /\ q.content = r.content
Evolves(d, e) == d.next <= e.next /\ \A r \in e.rows : From(d, r)

LEMMA EmptySound == Sound(Empty)
  BY FS_EmptySet DEF Sound, Empty, DbShape, InStepOf, Ids

LEMMA UnindexSound ==
    ASSUME NEW d, Sound(d), NEW S \in SUBSET d.rows
    PROVE  /\ Sound(Unindex(d, S))
           /\ Unindex(d, S).rows = d.rows /\ Unindex(d, S).next = d.next
           /\ Unindex(d, S).index \intersect Ids(S) = {}
  BY DEF Sound, DbShape, InStepOf, Unindex

LEMMA RemoveSound ==
    ASSUME NEW d, Sound(d), NEW S \in SUBSET d.rows, d.index \intersect Ids(S) = {}
    PROVE  /\ Sound(Remove(d, S))
           /\ Remove(d, S).rows = d.rows \ S /\ Remove(d, S).next = d.next
  <1> DEFINE e == Remove(d, S)
  <1>1. /\ e.rows = d.rows \ S /\ e.next = d.next /\ e.index = d.index /\ e \in DbShape
    BY DEF Sound, DbShape, Remove
  <1>2. IsFiniteSet(e.rows)
    BY <1>1, FS_Subset DEF Sound
  <1>3. InStepOf(e)
    BY <1>1 DEF Sound, InStepOf, Ids
  <1> QED BY <1>1, <1>2, <1>3 DEF Sound

LEMMA InsertSound ==
    ASSUME NEW d, Sound(d), NEW c \in Content, NEW pin \in BOOLEAN, c \notin ContentsOf(d.rows)
    PROVE  LET new == [id |-> d.next, content |-> c, pinned |-> pin]
               e   == Insert(d, c, pin)
           IN  /\ Sound(e)
               /\ e.rows = d.rows \union {new} /\ e.next = d.next + 1
  <1> DEFINE new == [id |-> d.next, content |-> c, pinned |-> pin]
             e   == Insert(d, c, pin)
  <1>1. d.next \in Nat /\ d.rows \subseteq Row /\ d.index \subseteq Nat /\ new \in Row
    BY DEF Sound, DbShape, Row
  <1>0. e = [d EXCEPT !.rows = d.rows \union {new}, !.next = d.next + 1]
    BY DEF Insert
  <1> HIDE DEF new, e
  <1>2. e.rows = d.rows \union {new} /\ e.next = d.next + 1 /\ e.index = d.index /\ e \in DbShape
    <2>1. d \in DbShape /\ d.rows \union {new} \in SUBSET Row /\ d.next + 1 \in Nat
      BY <1>1 DEF Sound
    <2> QED BY <1>0, <2>1 DEF DbShape
  <1>3. IsFiniteSet(e.rows)
    BY <1>2, FS_AddElement DEF Sound
  <1>4. \A r \in d.rows : r.id < d.next /\ r.id \in Nat /\ r.content # c
    BY <1>1 DEF Sound, InStepOf, ContentsOf, Row
  <1>5. InStepOf(e)
    BY <1>1, <1>2, <1>4 DEF Sound, InStepOf, Ids, new
  <1> QED BY <1>2, <1>3, <1>5 DEF Sound, new, e

LEMMA IndexItSound ==
    ASSUME NEW d, Sound(d), NEW c
    PROVE  /\ Sound(IndexIt(d, c))
           /\ IndexIt(d, c).rows = d.rows /\ IndexIt(d, c).next = d.next
  <1> DEFINE S == {r \in Same(d, c) : \A q \in Same(d, c) : q.id <= r.id}
  <1>1. S \subseteq d.rows /\ \A r \in d.rows : r.id \in Nat
    BY DEF Same, Sound, DbShape, Row
  <1>2. Ids(S) \subseteq Ids(d.rows) /\ Ids(S) \subseteq Nat
    BY <1>1 DEF Ids
  <1>3. IndexIt(d, c) = [d EXCEPT !.index = @ \union Ids(S)]
    BY DEF IndexIt
  <1> HIDE DEF S
  <1> QED BY <1>2, <1>3 DEF Sound, DbShape, InStepOf

\* The databases of a command, wherever it is cut short, and what is in the
\* history or was taken from it after it.
Good(d, steps) ==
    /\ steps \in Seq(DbShape) /\ steps # <<>> /\ steps[1] = d
    /\ \A k \in DOMAIN steps : Sound(steps[k]) /\ Evolves(d, steps[k])
PinsStayIn(d, e) == \A r \in Pinned(d) : r.content \in ContentsOf(Pinned(e))

LEMMA EvolvesToSubset ==
    ASSUME NEW d, NEW e, Sound(d), e.rows \subseteq d.rows, e.next = d.next
    PROVE  Evolves(d, e)
  BY DEF Evolves, From, Sound, DbShape

LEMMA AddGood ==
    ASSUME NEW d, Sound(d), NEW c \in Content
    PROVE  LET steps == AddSteps(d, c)
           IN  /\ Good(d, steps)
               /\ \E k \in DOMAIN steps : c \in ContentsOf(steps[k].rows)
               /\ PinsStayIn(d, steps[Len(steps)])
  <1> DEFINE steps == AddSteps(d, c)
             dup == Same(d, c)
             pin == \E r \in dup : r.pinned
             new == [id |-> d.next, content |-> c, pinned |-> pin]
  <1>0. d.next \in Nat /\ d.rows \subseteq Row /\ dup \subseteq d.rows
    BY DEF Sound, DbShape, Same
  <1>1. CASE IsLatest(d, c)
    <2>1. steps = <<d>>
      BY <1>1 DEF AddSteps
    <2>2. Evolves(d, d)
      BY EvolvesToSubset
    <2>3. c \in ContentsOf(d.rows)
      BY <1>1 DEF IsLatest, Same, ContentsOf
    <2>4. d \in DbShape /\ PinsStayIn(d, d)
      BY DEF Sound, PinsStayIn, ContentsOf
    <2> HIDE DEF steps
    <2> QED BY <2>1, <2>2, <2>3, <2>4 DEF Good, steps
  <1>2. CASE ~IsLatest(d, c)
    <2>1. PICK d1 : d1 = Unindex(d, dup)
      OBVIOUS
    <2>2. PICK d2 : d2 = Remove(d1, dup)
      OBVIOUS
    <2>3. PICK d3 : d3 = Insert(d2, c, pin)
      OBVIOUS
    <2>4. PICK d4 : d4 = IndexIt(d3, c)
      OBVIOUS
    <2>5. PICK over : over = Overflow(d4)
      OBVIOUS
    <2>6. PICK d5 : d5 = Unindex(d4, over)
      OBVIOUS
    <2>7. PICK d6 : d6 = Remove(d5, over)
      OBVIOUS
    <2>s. steps = <<d, d1, d2, d3, d4, d5, d6>>
      BY <1>2, <2>1, <2>2, <2>3, <2>4, <2>5, <2>6, <2>7 DEF AddSteps
    <2> HIDE DEF steps, dup, pin
    <2>t1. Sound(d1) /\ d1.rows = d.rows /\ d1.next = d.next /\ d1.index \intersect Ids(dup) = {}
      BY <2>1, <1>0, UnindexSound
    <2>t2. Sound(d2) /\ d2.rows = d.rows \ dup /\ d2.next = d.next
      BY <2>2, <2>t1, <1>0, RemoveSound
    <2>t3. Sound(d3) /\ d3.rows = (d.rows \ dup) \union {new} /\ d3.next = d.next + 1
      <3>1. pin \in BOOLEAN
        BY DEF pin
      <3>2. c \notin ContentsOf(d2.rows)
        BY <2>t2 DEF ContentsOf, dup, Same
      <3>3. /\ Sound(Insert(d2, c, pin)) /\ Insert(d2, c, pin).next = d2.next + 1
            /\ Insert(d2, c, pin).rows = d2.rows \union {[id |-> d2.next, content |-> c, pinned |-> pin]}
        BY <2>t2, <3>1, <3>2, InsertSound
      <3> QED BY <2>3, <2>t2, <3>3
    <2>t4. Sound(d4) /\ d4.rows = d3.rows /\ d4.next = d3.next
      BY <2>4, <2>t3, IndexItSound
    <2>t5. over \subseteq d4.rows \ Pinned(d4)
      BY <2>5 DEF Overflow
    <2>t6. Sound(d5) /\ d5.rows = d4.rows /\ d5.next = d4.next /\ d5.index \intersect Ids(over) = {}
      BY <2>6, <2>t4, <2>t5, UnindexSound
    <2>t7. Sound(d6) /\ d6.rows = d4.rows \ over /\ d6.next = d4.next
      BY <2>7, <2>t6, <2>t5, RemoveSound
    <2> HIDE DEF new
    <2>a. \A r \in d.rows \union {new} : From(d, r)
      BY <1>0 DEF new, From, Row
    <2>b. /\ Evolves(d, d) /\ Evolves(d, d1) /\ Evolves(d, d2)
          /\ Evolves(d, d3) /\ Evolves(d, d4) /\ Evolves(d, d5) /\ Evolves(d, d6)
      BY <1>0, <2>a, <2>t1, <2>t2, <2>t3, <2>t4, <2>t5, <2>t6, <2>t7 DEF Evolves
    <2>c. /\ d \in DbShape /\ d1 \in DbShape /\ d2 \in DbShape /\ d3 \in DbShape
          /\ d4 \in DbShape /\ d5 \in DbShape /\ d6 \in DbShape
      BY <2>t1, <2>t2, <2>t3, <2>t4, <2>t6, <2>t7 DEF Sound
    <2>d. DOMAIN steps = 1..7 /\ Len(steps) = 7 /\ steps \in Seq(DbShape) /\ steps # <<>>
          /\ steps[1] = d /\ steps[2] = d1 /\ steps[3] = d2 /\ steps[4] = d3
          /\ steps[5] = d4 /\ steps[6] = d5 /\ steps[7] = d6
      BY <2>s, <2>c
    <2>e. Good(d, steps)
      <3>1. \A k \in 1..7 : k = 1 \/ k = 2 \/ k = 3 \/ k = 4 \/ k = 5 \/ k = 6 \/ k = 7
        OBVIOUS
      <3> QED BY <2>b, <2>d, <2>t1, <2>t2, <2>t3, <2>t4, <2>t6, <2>t7, <3>1 DEF Good
    <2>f. new \in d3.rows /\ new.content = c /\ (new.pinned <=> pin)
      BY <2>t3 DEF new
    <2>g. c \in ContentsOf(steps[4].rows) /\ 4 \in DOMAIN steps
      BY <2>d, <2>f DEF ContentsOf
    <2>h. ASSUME NEW r \in Pinned(d) PROVE r.content \in ContentsOf(Pinned(d6))
      <3>0. r \in d.rows /\ r.pinned
        BY DEF Pinned
      <3>1. CASE r \in dup
        <4>1. new.pinned /\ r.content = c
          BY <2>f, <3>0, <3>1 DEF pin, dup, Same
        <4>2. new \in Pinned(d6)
          BY <4>1, <2>f, <2>t4, <2>t5, <2>t7 DEF Pinned
        <4> QED BY <4>1, <4>2, <2>f DEF ContentsOf
      <3>2. CASE r \notin dup
        <4>1. r \in Pinned(d6)
          BY <3>0, <3>2, <2>t3, <2>t4, <2>t5, <2>t7 DEF Pinned
        <4> QED BY <4>1 DEF ContentsOf
      <3> QED BY <3>1, <3>2
    <2> QED BY <2>d, <2>e, <2>g, <2>h DEF PinsStayIn, steps
  <1> QED BY <1>1, <1>2

PinsStayBut(d, e, id) == \A r \in Pinned(d) : r.id # id => r.content \in ContentsOf(Pinned(e))

LEMMA DeleteGood ==
    ASSUME NEW d, Sound(d), NEW id
    PROVE  LET steps == DeleteSteps(d, id)
           IN  Good(d, steps) /\ PinsStayBut(d, steps[Len(steps)], id)
  <1>1. PICK it : it = {r \in d.rows : r.id = id}
    OBVIOUS
  <1>2. PICK d1 : d1 = [d EXCEPT !.index = @ \ {id}]
    OBVIOUS
  <1>3. PICK d2 : d2 = Remove(d1, it)
    OBVIOUS
  <1>4. PICK steps : steps = DeleteSteps(d, id)
    OBVIOUS
  <1>5. steps = <<d, d1, d2>>
    BY <1>1, <1>2, <1>3, <1>4 DEF DeleteSteps
  <1>6. Sound(d1) /\ d1.rows = d.rows /\ d1.next = d.next /\ id \notin d1.index
    BY <1>2 DEF Sound, DbShape, InStepOf
  <1>7. Ids(it) \subseteq {id}
    BY <1>1 DEF Ids
  <1>8. Sound(d2) /\ d2.rows = d.rows \ it /\ d2.next = d.next
    BY <1>1, <1>3, <1>6, <1>7, RemoveSound
  <1>9. Evolves(d, d) /\ Evolves(d, d1) /\ Evolves(d, d2)
    BY <1>6, <1>8, EvolvesToSubset
  <1>10. /\ DOMAIN steps = 1..3 /\ Len(steps) = 3 /\ steps \in Seq(DbShape) /\ steps # <<>>
         /\ steps[1] = d /\ steps[2] = d1 /\ steps[3] = d2
    BY <1>5, <1>6, <1>8 DEF Sound
  <1>11. Good(d, steps)
    BY <1>6, <1>8, <1>9, <1>10 DEF Good
  <1>12. PinsStayBut(d, d2, id)
    BY <1>1, <1>8 DEF PinsStayBut, Pinned, ContentsOf
  <1> QED BY <1>4, <1>10, <1>11, <1>12

LEMMA PinGood ==
    ASSUME NEW d, Sound(d), NEW id
    PROVE  LET steps == PinSteps(d, id)
           IN  Good(d, steps) /\ PinsStayBut(d, steps[Len(steps)], id)
  <1>1. PICK rows : rows = {IF r.id = id THEN [r EXCEPT !.pinned = ~@] ELSE r : r \in d.rows}
    OBVIOUS
  <1>2. PICK d1 : d1 = [d EXCEPT !.rows = rows]
    OBVIOUS
  <1>3. PICK steps : steps = PinSteps(d, id)
    OBVIOUS
  <1>4. steps = <<d, d1>>
    BY <1>1, <1>2, <1>3 DEF PinSteps
  <1>5. d.rows \subseteq Row /\ d \in DbShape
    BY DEF Sound, DbShape
  <1>6. ASSUME NEW r \in d.rows
        PROVE  LET s == IF r.id = id THEN [r EXCEPT !.pinned = ~@] ELSE r
               IN  s \in Row /\ s.id = r.id /\ s.content = r.content /\ (r.id # id => s = r)
    BY <1>5 DEF Row
  <1>7. /\ \A s \in rows : s \in Row /\ \E r \in d.rows : s.id = r.id /\ s.content = r.content
        /\ \A r \in d.rows : \E s \in rows : s.id = r.id /\ s.content = r.content /\ (r.id # id => s = r)
    <2>1. ASSUME NEW s \in rows PROVE s \in Row /\ \E r \in d.rows : s.id = r.id /\ s.content = r.content
      BY <1>1, <1>6
    <2>2. ASSUME NEW r \in d.rows
          PROVE  \E s \in rows : s.id = r.id /\ s.content = r.content /\ (r.id # id => s = r)
      <3>1. PICK s : s = IF r.id = id THEN [r EXCEPT !.pinned = ~@] ELSE r
        OBVIOUS
      <3>2. s \in rows
        BY <1>1, <3>1
      <3>3. s.id = r.id /\ s.content = r.content /\ (r.id # id => s = r)
        BY <1>6, <3>1
      <3> QED BY <3>2, <3>3
    <2> QED BY <2>1, <2>2
  <1>8. d1 \in DbShape /\ d1.rows = rows /\ d1.index = d.index /\ d1.next = d.next
    BY <1>2, <1>5, <1>7 DEF DbShape
  <1>9. InStepOf(d1)
    <2>1. ASSUME NEW r \in rows, NEW q \in rows, r.content = q.content \/ r.id = q.id
          PROVE  r = q
      <3>1. PICK r0 \in d.rows : r = IF r0.id = id THEN [r0 EXCEPT !.pinned = ~@] ELSE r0
        BY <1>1
      <3>2. PICK q0 \in d.rows : q = IF q0.id = id THEN [q0 EXCEPT !.pinned = ~@] ELSE q0
        BY <1>1
      <3>3. r.id = r0.id /\ r.content = r0.content /\ q.id = q0.id /\ q.content = q0.content
        BY <3>1, <3>2, <1>6
      <3>4. r0 = q0
        BY <2>1, <3>3 DEF Sound, InStepOf
      <3> QED BY <3>1, <3>2, <3>4
    <2>2. Ids(d.rows) \subseteq Ids(rows) /\ \A s \in rows : s.id < d.next
      BY <1>7 DEF Ids, Sound, InStepOf
    <2> QED BY <1>8, <2>1, <2>2 DEF Sound, InStepOf
  <1>10. IsFiniteSet(rows)
    <2> DEFINE f == [r \in d.rows |-> IF r.id = id THEN [r EXCEPT !.pinned = ~@] ELSE r]
    <2>1. f \in [d.rows -> rows] /\ \A s \in rows : \E r \in d.rows : f[r] = s
      BY <1>1
    <2> HIDE DEF f
    <2>2. f \in Surjection(d.rows, rows)
      BY <2>1 DEF Surjection
    <2> QED BY <2>2, FS_Surjection DEF Sound
  <1>11. Sound(d1)
    BY <1>8, <1>9, <1>10 DEF Sound
  <1>12. Evolves(d, d) /\ Evolves(d, d1)
    BY <1>5, <1>7, <1>8, EvolvesToSubset DEF Evolves, From, DbShape
  <1>13. /\ DOMAIN steps = 1..2 /\ Len(steps) = 2 /\ steps \in Seq(DbShape) /\ steps # <<>>
         /\ steps[1] = d /\ steps[2] = d1
    BY <1>4, <1>5, <1>8
  <1>14. Good(d, steps)
    BY <1>11, <1>12, <1>13 DEF Good
  <1>15. PinsStayBut(d, d1, id)
    BY <1>7, <1>8 DEF PinsStayBut, Pinned, ContentsOf
  <1> QED BY <1>3, <1>13, <1>14, <1>15

-----------------------------------------------------------------------------
(* What a command does to the database, wherever it stops.                 *)

After(steps) == Kept \union UNION {ContentsOf(steps[i].rows) : i \in DOMAIN steps}

LEMMA SoundContents ==
    ASSUME NEW d, Sound(d)
    PROVE  ContentsOf(d.rows) \subseteq Content
  BY DEF Sound, DbShape, ContentsOf, Row

LEMMA GoesOn ==
    ASSUME NEW steps, Good(db, steps), NEW k \in DOMAIN steps, Goes(steps, k), gone \subseteq Content
    PROVE  /\ Sound(db') /\ Evolves(db, db')
           /\ gone' \subseteq Content /\ Kept \subseteq Kept'
           /\ k = Len(steps) => After(steps) \subseteq Kept'
  <1>1. steps \in Seq(DbShape) /\ Len(steps) \in Nat /\ DOMAIN steps = 1..Len(steps) /\ 1 \in 1..k /\ k \in 1..Len(steps)
    BY DEF Good
  <1>2. db' = steps[k] /\ Sound(db') /\ Evolves(db, db')
    BY DEF Goes, Good
  <1>3. \A i \in 1..k : i \in DOMAIN steps /\ ContentsOf(steps[i].rows) \subseteq Content
    BY <1>1, SoundContents DEF Good
  <1>4. PICK took : took = UNION {ContentsOf(steps[i].rows) : i \in 1..k}
    OBVIOUS
  <1>5. took \subseteq Content /\ ContentsOf(db.rows) \subseteq took
    BY <1>1, <1>3, <1>4 DEF Good
  <1>6. gone' = (gone \union took) \ ContentsOf(db'.rows)
    BY <1>2, <1>4 DEF Goes
  <1>7. gone' \subseteq Content /\ Kept \subseteq Kept'
    BY <1>5, <1>6 DEF Kept
  <1>8. ASSUME k = Len(steps) PROVE After(steps) \subseteq Kept'
    BY <1>1, <1>4, <1>5, <1>6, <1>8 DEF After, Kept
  <1> QED BY <1>2, <1>7, <1>8

-----------------------------------------------------------------------------
(* Recording: the attempts of capture_snapshot.                            *)

SeenRec == [files : Content \union {None}, text : Content \union {None},
            picture : Content \union {None}, count : {None} \union (0..MaxCopies)]
Told(c, K) == c \in K \union Ignored \union {None}

\* An attempt of which nothing but texts and files were tried; W is what
\* the clipboard holds of them.
AttemptOk(a, W) ==
    /\ a = [seen |-> a.seen, before |-> a.before, steps |-> a.steps, done |-> a.done]
    /\ a.seen \in SeenRec /\ a.before \in SeenRec /\ a.done \in BOOLEAN
    /\ a.seen.count = seen.count /\ a.before.count = seen.count
    /\ a.seen.picture = seen.picture /\ a.before.picture = seen.picture
    /\ Good(db, a.steps) /\ PinsStayIn(db, a.steps[Len(a.steps)])
    /\ Told(a.seen.files, After(a.steps)) /\ Told(a.seen.text, After(a.steps))
    /\ Told(a.before.files, Kept) /\ Told(a.before.text, Kept)
    /\ IF a.done THEN W \intersect After(a.steps) # {} ELSE a.steps = <<db>>

LEMMA NoneIsNoContent == None \notin Content
  BY ClipboardAssumption DEF Content, TextsAndFiles, Pictures

LEMMA Marking ==
    ASSUME NEW s \in SeenRec, NEW form \in Forms, NEW c \in Content
    PROVE  LET m == [s EXCEPT ![form] = c]
           IN  /\ m \in SeenRec /\ m.count = s.count
               /\ m.files = IF form = "files" THEN c ELSE s.files
               /\ m.text = IF form = "text" THEN c ELSE s.text
               /\ m.picture = IF form = "picture" THEN c ELSE s.picture
  BY DEF SeenRec, Forms

LEMMA TryOne ==
    ASSUME Sound(db), NEW W, NEW a, AttemptOk(a, W), NEW form \in {"files", "text"}, NEW c \in W \union {None},
           W \subseteq Content, form = "files" => c \notin Ignored \/ c = None
    PROVE  LET b == Try(a, form, c)
           IN  /\ AttemptOk(b, W) /\ After(a.steps) \subseteq After(b.steps)
               /\ ~a.done /\ c \notin Ignored \union {None} => c \in After(b.steps)
  <1>1. PICK b : b = Try(a, form, c)
    OBVIOUS
  <1>2. PICK marks : marks = [a.seen EXCEPT ![form] = c]
    OBVIOUS
  <1>3. CASE a.done \/ c = None
    BY <1>1, <1>3 DEF Try
  <1>4. c # None => /\ marks \in SeenRec /\ marks.count = seen.count /\ marks.picture = seen.picture
                    /\ marks.files = (IF form = "files" THEN c ELSE a.seen.files)
                    /\ marks.text = (IF form = "text" THEN c ELSE a.seen.text)
    BY <1>2, Marking DEF AttemptOk, Forms
  <1>5. CASE ~a.done /\ c # None /\ a.seen[form] = c
    <2>1. b = [a EXCEPT !.done = (form # "text")]
      BY <1>1, <1>5 DEF Try
    <2>2. /\ b.seen = a.seen /\ b.before = a.before /\ b.steps = a.steps /\ b.done = (form # "text")
          /\ b = [seen |-> b.seen, before |-> b.before, steps |-> b.steps, done |-> b.done]
      BY <2>1 DEF AttemptOk
    <2>3. c \in After(a.steps) \union Ignored
      BY <1>5 DEF AttemptOk, Told
    <2>4. IF b.done THEN W \intersect After(b.steps) # {} ELSE b.steps = <<db>>
      BY <1>5, <2>2, <2>3 DEF AttemptOk
    <2>5. AttemptOk(b, W)
      BY <2>2, <2>4 DEF AttemptOk
    <2> QED BY <1>1, <2>2, <2>3, <2>5
  <1>6. CASE ~a.done /\ c # None /\ a.seen[form] # c /\ (c \in Ignored \/ IsLatest(db, c))
    <2>1. b = [a EXCEPT !.seen = marks, !.done = FALSE]
      BY <1>1, <1>2, <1>6 DEF Try
    <2>2. /\ b.seen = marks /\ b.before = a.before /\ b.steps = a.steps /\ b.done = FALSE
          /\ b = [seen |-> b.seen, before |-> b.before, steps |-> b.steps, done |-> b.done]
      BY <2>1 DEF AttemptOk
    <2>3. c \in After(a.steps) \union Ignored
      BY <1>6 DEF IsLatest, Same, ContentsOf, After, Kept
    <2>4. Told(marks.files, After(a.steps)) /\ Told(marks.text, After(a.steps))
      BY <1>4, <1>6, <2>3 DEF AttemptOk, Told
    <2>5. AttemptOk(b, W)
      BY <1>4, <1>6, <2>2, <2>4 DEF AttemptOk
    <2> QED BY <1>1, <2>2, <2>3, <2>5
  <1>7. CASE ~a.done /\ c # None /\ a.seen[form] # c /\ ~(c \in Ignored \/ IsLatest(db, c))
    <2>1. b = [a EXCEPT !.before = a.seen, !.seen = marks, !.steps = AddSteps(db, c), !.done = TRUE]
      BY <1>1, <1>2, <1>7 DEF Try
    <2>2. /\ b.seen = marks /\ b.before = a.seen /\ b.steps = AddSteps(db, c) /\ b.done = TRUE
          /\ b = [seen |-> b.seen, before |-> b.before, steps |-> b.steps, done |-> b.done]
      BY <2>1 DEF AttemptOk
    <2>3. /\ Good(db, b.steps) /\ PinsStayIn(db, b.steps[Len(b.steps)])
          /\ \E k \in DOMAIN b.steps : c \in ContentsOf(b.steps[k].rows)
      BY <1>7, <2>2, AddGood
    <2>4. c \in After(b.steps) /\ Kept \subseteq After(b.steps)
      BY <2>3 DEF After
    <2>5. After(a.steps) = Kept
      <3>1. a.steps = <<db>>
        BY <1>7 DEF AttemptOk
      <3>2. DOMAIN a.steps = {1} /\ a.steps[1] = db
        BY <3>1
      <3> QED BY <3>2 DEF After, Kept
    <2>6. /\ Told(marks.files, After(b.steps)) /\ Told(marks.text, After(b.steps))
          /\ Told(a.seen.files, Kept) /\ Told(a.seen.text, Kept)
      BY <1>4, <1>7, <2>4, <2>5 DEF AttemptOk, Told
    <2>7. AttemptOk(b, W)
      BY <1>4, <1>7, <2>2, <2>3, <2>4, <2>6 DEF AttemptOk
    <2> QED BY <1>1, <2>4, <2>5, <2>7
  <1> QED BY <1>3, <1>5, <1>6, <1>7

\* What is on the clipboard, and what a read of it took.
FilesOf(item) == IF item = None THEN None ELSE Files[item]
TextOf(item) == IF item = None THEN None ELSE Text[item]
WordsOf(item) == {FilesOf(item), TextOf(item), PathsOf(TextOf(item))} \ {None}
Took(s, item, id) ==
    /\ s.files \in {None, FilesOf(item)} /\ s.text = TextOf(item) /\ s.id = id
    /\ s.picture \in {None, PictureOf(item)}
    /\ s.picture # None => id \in Pictures \union (0..MaxCopies)
    /\ s.known => PictureOf(item) # None /\ id \in Kept \intersect DOMAIN disk
    /\ PictureOf(item) # None => s.picture # None \/ s.known

SeenOk ==
    /\ seen \in SeenRec
    /\ Told(seen.files, Kept) /\ Told(seen.text, Kept)
    /\ seen.picture \in {None} \union (Kept \intersect DOMAIN disk)

\* What capture_snapshot makes of it.
CaptureOk(a, s, item, id) ==
    /\ a.seen \in SeenRec /\ a.before \in SeenRec
    /\ a.seen.count = seen.count /\ a.before.count = seen.count
    /\ Good(db, a.steps) /\ PinsStayIn(db, a.steps[Len(a.steps)])
    /\ Told(a.seen.files, After(a.steps)) /\ Told(a.seen.text, After(a.steps))
    /\ Told(a.before.files, Kept) /\ Told(a.before.text, Kept)
    /\ a.before.picture = seen.picture
    /\ a.seen.picture \in {None} \union (After(a.steps) \intersect DOMAIN a.disk)
    /\ a.disk = disk \/ (s.picture # None /\ a.disk = Save(id, s.picture))
    /\ Records(s) => \/ WordsOf(item) \intersect After(a.steps) # {}
                     \/ PictureOf(item) # None /\ id \in After(a.steps) \intersect DOMAIN a.disk

LEMMA ItemContent ==
    ASSUME NEW item \in Items \union {None}
    PROVE  /\ WordsOf(item) \subseteq Content
           /\ PictureOf(item) \in Pictures \union {None}
           /\ FilesOf(item) \notin Ignored \/ FilesOf(item) = None
           /\ PathsOf(TextOf(item)) \notin Ignored \/ PathsOf(TextOf(item)) = None
  <1>1. CASE item = None
    BY <1>1 DEF WordsOf, FilesOf, TextOf, PathsOf, PictureOf
  <1>2. CASE item # None
    <2>1. item \in Items /\ FilesOf(item) = Files[item] /\ TextOf(item) = Text[item] /\ PictureOf(item) = Picture[item]
      BY <1>2 DEF FilesOf, TextOf, PictureOf
    <2>2. PathsOf(TextOf(item)) = IF Text[item] = None THEN None ELSE PathsIn[Text[item]]
      BY <2>1 DEF PathsOf
    <2>3. Files[item] \in TextsAndFiles \union {None} /\ Text[item] \in TextsAndFiles \union {None}
      <3>1. {Files[item], Text[item]} \in {{Files[i], Text[i]} : i \in Items}
        BY <2>1
      <3>2. {Files[item], Text[item]} \subseteq UNION {{Files[i], Text[i]} : i \in Items}
        BY <3>1
      <3> QED BY <3>2 DEF TextsAndFiles
    <2>4. PathsOf(TextOf(item)) \in TextsAndFiles \union {None}
      <3>1. Text[item] # None => item \in {j \in Items : Text[j] # None}
        BY <2>1
      <3>2. Text[item] # None => PathsIn[Text[item]] \in {PathsIn[Text[i]] : i \in {j \in Items : Text[j] # None}}
        BY <3>1
      <3> DEFINE words == UNION {{Files[i], Text[i]} : i \in Items}
                 names == {PathsIn[Text[i]] : i \in {j \in Items : Text[j] # None}}
      <3>3. Text[item] # None => PathsOf(TextOf(item)) \in {PathsIn[Text[i]] : i \in {j \in Items : Text[j] # None}}
        BY <2>2, <3>2
      <3>4. Text[item] = None => PathsOf(TextOf(item)) = None
        BY <2>2
      <3>5. TextsAndFiles = (words \union names) \ {None}
        BY DEF TextsAndFiles
      <3>6. Text[item] # None => PathsOf(TextOf(item)) \in names
        BY <3>3
      <3> HIDE DEF words, names
      <3> QED BY <3>4, <3>5, <3>6
    <2>5. WordsOf(item) \subseteq Content
      BY <2>1, <2>3, <2>4 DEF WordsOf, Content
    <2>6. PictureOf(item) \in Pictures \union {None}
      BY <2>1 DEF Pictures
    <2> QED BY <2>1, <2>2, <2>5, <2>6, ClipboardAssumption
  <1> QED BY <1>1, <1>2

LEMMA Captures ==
    ASSUME Sound(db), SeenOk, NEW s, NEW item \in Items \union {None}, NEW id, Took(s, item, id)
    PROVE  CaptureOk(Capture(s), s, item, id)
  <1>1. PICK a0 : a0 = [seen |-> seen, before |-> seen, steps |-> <<db>>, done |-> FALSE]
    OBVIOUS
  <1>2. PICK files : files = If("files", s.files)
    OBVIOUS
  <1>3. PICK paths : paths = If("text", If("files", PathsOf(s.text)))
    OBVIOUS
  <1>4. PICK text : text = If("text", s.text)
    OBVIOUS
  <1>5. PICK pic : pic = If("picture", IF s.picture = None THEN None ELSE s.id)
    OBVIOUS
  <1>6. PICK a1 : a1 = Try(a0, "files", files)
    OBVIOUS
  <1>7. PICK a2 : a2 = Try(a1, "files", paths)
    OBVIOUS
  <1>8. PICK a3 : a3 = Try(a2, "text", text)
    OBVIOUS
  <1>9. PICK a4 : a4 = Try(a3, "picture", pic)
    OBVIOUS
  <1>10. PICK a : a = Capture(s)
    OBVIOUS
  <1>11. /\ a.seen = a4.seen /\ a.before = a4.before /\ a.steps = a4.steps
         /\ a.disk = IF ~a3.done /\ pic # None /\ pic # a3.seen.picture THEN Save(pic, s.picture) ELSE disk
    BY <1>1, <1>2, <1>3, <1>4, <1>5, <1>6, <1>7, <1>8, <1>9, <1>10 DEF Capture
  <1>12. /\ WordsOf(item) \subseteq Content /\ PictureOf(item) \in Pictures \union {None}
         /\ files \in WordsOf(item) \union {None} /\ paths \in WordsOf(item) \union {None}
         /\ text \in WordsOf(item) \union {None}
         /\ (files \notin Ignored \/ files = None) /\ (paths \notin Ignored \/ paths = None)
    BY <1>2, <1>3, <1>4, ItemContent DEF If, Took, WordsOf
  <1>13. AttemptOk(a0, WordsOf(item))
    <2>1. Good(db, <<db>>) /\ PinsStayIn(db, db) /\ Len(<<db>>) = 1 /\ <<db>>[1] = db
      BY EvolvesToSubset DEF Good, Sound, PinsStayIn, ContentsOf
    <2>2. Kept \subseteq After(<<db>>)
      BY DEF After
    <2> QED BY <1>1, <2>1, <2>2 DEF AttemptOk, SeenOk, Told
  <1>14. /\ AttemptOk(a1, WordsOf(item)) /\ After(a0.steps) \subseteq After(a1.steps)
         /\ ~a0.done /\ files \notin Ignored \union {None} => files \in After(a1.steps)
    BY <1>6, <1>12, <1>13, TryOne
  <1>15. /\ AttemptOk(a2, WordsOf(item)) /\ After(a1.steps) \subseteq After(a2.steps)
         /\ ~a1.done /\ paths \notin Ignored \union {None} => paths \in After(a2.steps)
    BY <1>7, <1>12, <1>14, TryOne
  <1>16. /\ AttemptOk(a3, WordsOf(item)) /\ After(a2.steps) \subseteq After(a3.steps)
         /\ ~a2.done /\ text \notin Ignored \union {None} => text \in After(a3.steps)
    BY <1>8, <1>12, <1>15, TryOne
  <1>17. files \notin Ignored \union {None} => files \in After(a3.steps)
    BY <1>1, <1>14, <1>15, <1>16
  <1>18. a1.done => a2.done
    BY <1>7 DEF Try
  <1>19. a2.done => WordsOf(item) \intersect After(a3.steps) # {}
    BY <1>15, <1>16 DEF AttemptOk
  <1>20. \/ WordsOf(item) \intersect After(a3.steps) # {}
         \/ files = None /\ text \in Ignored \union {None}
    BY <1>12, <1>16, <1>17, <1>19
  <1>21. Kept \subseteq After(a3.steps)
    BY DEF After
  <1>22. pic = (IF If("picture", s.picture) = None THEN None ELSE id)
    BY <1>5 DEF If, Took
  <1>23. pic # None => pic = id /\ id \in Content /\ id \notin Ignored /\ s.picture # None /\ PictureOf(item) # None
    BY <1>22, ClipboardAssumption DEF Took, If, Content
  <1>24. CASE a3.done \/ pic = None
    <2>1. a4 = a3 /\ a.disk = disk
      BY <1>9, <1>11, <1>24 DEF Try
    <2>2. Records(s) => \/ WordsOf(item) \intersect After(a3.steps) # {}
                        \/ PictureOf(item) # None /\ id \in After(a3.steps) \intersect DOMAIN disk
      <3>1. a3.done => WordsOf(item) \intersect After(a3.steps) # {}
        BY <1>16 DEF AttemptOk
      <3>2. Records(s) => files # None \/ text \notin Ignored \union {None} \/ If("picture", s.picture) # None \/ s.known
        BY <1>2, <1>4 DEF Records
      <3>3. s.known => PictureOf(item) # None /\ id \in After(a3.steps) \intersect DOMAIN disk
        BY <1>21 DEF Took
      <3>4. If("picture", s.picture) # None => pic # None
        <4>1. If("picture", s.picture) # None => s.picture # None
          BY DEF If
        <4>2. id \in Pictures \union (0..MaxCopies) => id # None
          BY NoneIsNoContent DEF Content
        <4> QED BY <1>22, <4>1, <4>2 DEF Took
      <3>5. files # None \/ text \notin Ignored \union {None} => WordsOf(item) \intersect After(a3.steps) # {}
        BY <1>20
      <3> QED BY <1>24, <3>1, <3>2, <3>3, <3>4, <3>5
    <2>3. a3.seen.picture \in {None} \union (After(a3.steps) \intersect DOMAIN disk)
      BY <1>16, <1>21 DEF AttemptOk, SeenOk
    <2> QED BY <1>10, <1>11, <1>16, <2>1, <2>2, <2>3 DEF CaptureOk, AttemptOk
  <1>25. CASE ~a3.done /\ pic # None /\ a3.seen.picture = pic
    <2>1. a4 = [a3 EXCEPT !.done = TRUE] /\ a.disk = disk
      BY <1>9, <1>11, <1>25 DEF Try
    <2>2. a4.seen = a3.seen /\ a4.before = a3.before /\ a4.steps = a3.steps
      BY <1>16, <2>1 DEF AttemptOk
    <2>3. a3.seen.picture \in After(a3.steps) \intersect DOMAIN disk
      BY <1>16, <1>21, <1>25 DEF AttemptOk, SeenOk
    <2>4. PictureOf(item) # None /\ id \in After(a3.steps) \intersect DOMAIN disk
      BY <1>23, <1>25, <2>3
    <2> QED BY <1>10, <1>11, <1>16, <2>1, <2>2, <2>3, <2>4 DEF CaptureOk, AttemptOk
  <1>26. CASE ~a3.done /\ pic # None /\ a3.seen.picture # pic
    <2>1. a.disk = Save(id, s.picture) /\ id \in DOMAIN a.disk
      BY <1>11, <1>23, <1>26 DEF Save
    <2>2. After(a3.steps) = Kept
      <3>1. a3.steps = <<db>>
        BY <1>16, <1>26 DEF AttemptOk
      <3>2. DOMAIN a3.steps = {1} /\ a3.steps[1] = db
        BY <3>1
      <3> QED BY <3>2 DEF After, Kept
    <2>3. CASE IsLatest(db, id)
      <3>1. a4 = [a3 EXCEPT !.seen = a3.seen, !.done = TRUE]
        BY <1>9, <1>23, <1>26, <2>3 DEF Try
      <3>2. a4.seen = a3.seen /\ a4.before = a3.before /\ a4.steps = a3.steps
        BY <1>16, <3>1 DEF AttemptOk
      <3>3. id \in Kept
        BY <2>3 DEF IsLatest, Same, ContentsOf, Kept
      <3>4. a3.seen.picture \in {None} \union (After(a3.steps) \intersect DOMAIN a.disk)
        BY <1>16, <2>1, <2>2 DEF AttemptOk, SeenOk, Save
      <3> QED BY <1>10, <1>11, <1>16, <1>23, <1>26, <2>1, <2>2, <3>2, <3>3, <3>4 DEF CaptureOk, AttemptOk
    <2>4. CASE ~IsLatest(db, id)
      <3>1. PICK marks : marks = [a3.seen EXCEPT !["picture"] = id]
        OBVIOUS
      <3>2. a4 = [a3 EXCEPT !.before = a3.seen, !.seen = marks, !.steps = AddSteps(db, id), !.done = TRUE]
        BY <1>9, <1>23, <1>26, <2>4, <3>1 DEF Try
      <3>3. a4.seen = marks /\ a4.before = a3.seen /\ a4.steps = AddSteps(db, id)
        BY <1>16, <3>2 DEF AttemptOk
      <3>4. /\ marks \in SeenRec /\ marks.count = seen.count /\ marks.picture = id
            /\ marks.files = a3.seen.files /\ marks.text = a3.seen.text
        BY <1>16, <1>23, <1>26, <3>1, Marking DEF AttemptOk, Forms
      <3>5. /\ Good(db, a4.steps) /\ PinsStayIn(db, a4.steps[Len(a4.steps)])
            /\ \E k \in DOMAIN a4.steps : id \in ContentsOf(a4.steps[k].rows)
        BY <1>23, <1>26, <3>3, AddGood
      <3>6. id \in After(a4.steps) /\ Kept \subseteq After(a4.steps)
        BY <3>5 DEF After
      <3>7. /\ Told(a3.seen.files, Kept) /\ Told(a3.seen.text, Kept)
            /\ Told(marks.files, After(a4.steps)) /\ Told(marks.text, After(a4.steps))
        BY <1>16, <2>2, <3>4, <3>6 DEF AttemptOk, Told
      <3> QED BY <1>10, <1>11, <1>16, <1>23, <1>26, <2>1, <3>3, <3>4, <3>5, <3>6, <3>7 DEF CaptureOk, AttemptOk
    <2> QED BY <2>3, <2>4
  <1> QED BY <1>24, <1>25, <1>26

-----------------------------------------------------------------------------
(* The inductive invariant.                                                *)

\* The file under the count the clipboard shows can only be of what is on it.
DiskOk ==
    /\ disk = [i \in DOMAIN disk |-> disk[i]]
    /\ DOMAIN disk \subseteq Pictures \union (0..clip.count)
    /\ \A i \in DOMAIN disk : disk[i] \in Pictures \union {None} /\ (i \in Pictures => disk[i] \in {i, None})
    /\ clip.count \in DOMAIN disk => disk[clip.count] \in {PictureOf(clip.item), None}

ClipOk ==
    /\ clip = [count |-> clip.count, item |-> clip.item]
    /\ clip.count \in 0..MaxCopies /\ clip.item \in Items \union {None}

\* What the poll holds was on the clipboard, and is what is on it now if the
\* count has not moved since; or nothing was read.
Names(id, item, n) == PictureOf(item) # None => id \in {n, PictureOf(item)}
ReadOk == \E item \in Items \union {None}, id \in Content \union {None} :
    /\ Took(loop.read, item, id) /\ Names(id, item, loop.count)
    /\ loop.count = clip.count => item \in {clip.item, None}
LoopOk == loop # None =>
    /\ loop = [count |-> loop.count, read |-> loop.read] /\ loop.count \in 0..clip.count
    /\ loop.read # None => ReadOk

Dealt(item) ==
    \/ WordsOf(item) \intersect Kept # {}
    \/ PictureOf(item) # None /\ (Whole => \E c \in Kept \intersect DOMAIN disk : disk[c] = PictureOf(item))
MarkOk == seen.count \in {None} \union (0..clip.count) /\ (Marked => Dealt(clip.item))

TaskRec == [op : {"pin", "delete"}, row : Row, ran : BOOLEAN]
           \union [op : {"config"}, form : Forms, on : BOOLEAN, ran : BOOLEAN]
LoadRec == [offset : Nat, rows : {None} \union SUBSET Row]
PanelRec == [open : BOOLEAN, items : SUBSET Row, len : Nat, more : BOOLEAN,
             load : {None} \union LoadRec, task : {None} \union TaskRec]
IsPanel(p) ==
    /\ p \in PanelRec
    /\ IsFiniteSet(p.items) /\ p.len >= Cardinality(p.items)
    /\ p.load # None /\ p.load.rows # None => IsFiniteSet(p.load.rows)

\* An id that is shown is of the past, and still of the same content.
Known(d, r) == r.id < d.next /\ \A q \in d.rows : r.id = q.id => r.content = q.content
ShownOf(p) == p.items
              \union (IF p.load = None \/ p.load.rows = None THEN {} ELSE p.load.rows)
              \union (IF p.task = None \/ p.task.op = "config" THEN {} ELSE {p.task.row})
PanelOk == IsPanel(panel) /\ \A r \in ShownOf(panel) : r \in Row /\ Known(db, r)

Inv ==
    /\ ClipOk /\ Sound(db) /\ DiskOk /\ config \subseteq Forms /\ gone \subseteq Content
    /\ SeenOk /\ MarkOk /\ LoopOk /\ PanelOk

-----------------------------------------------------------------------------
(* What a recording does to the history and to the files.                  *)

LEMMA InitInv == Init => Inv
  <1> SUFFICES ASSUME Init PROVE Inv
    OBVIOUS
  <1> USE DEF Init
  <1>1. ClipOk /\ DiskOk
    BY ClipboardAssumption DEF ClipOk, DiskOk
  <1>2. Sound(db)
    BY EmptySound
  <1>3. SeenOk /\ LoopOk /\ gone \subseteq Content
    BY DEF SeenOk, SeenRec, Told, Unseen, LoopOk
  <1>4. MarkOk
    BY DEF MarkOk, Marked, Unseen
  <1>5. IsPanel(Closed) /\ ShownOf(Closed) = {}
    BY FS_EmptySet DEF IsPanel, PanelRec, Closed, ShownOf
  <1>6. PanelOk
    BY <1>5 DEF PanelOk
  <1> QED BY <1>1, <1>2, <1>3, <1>4, <1>6 DEF Inv

Grows ==
    /\ Sound(db') /\ Evolves(db, db')
    /\ gone' \subseteq Content /\ Kept \subseteq Kept'

\* The picture of item goes to the file of id, whole or cut off, or nothing does.
Saved(item, id) ==
    \/ disk' = disk
    \/ /\ id \notin DOMAIN disk /\ PictureOf(item) # None /\ id \in Pictures \union (0..MaxCopies)
       /\ \E v \in {PictureOf(item), None} :
             disk' = [i \in DOMAIN disk \union {id} |-> IF i = id THEN v ELSE disk[i]]

LEMMA SnapshotTook ==
    ASSUME Inv, NEW item \in Items \union {None}, NEW id,
           PictureOf(item) # None => id \in Pictures \union (0..MaxCopies)
    PROVE  Took(Snapshot(item, id), item, id)
  <1>1. PICK s : s = Snapshot(item, id)
    OBVIOUS
  <1>2. /\ s.files \in {None, FilesOf(item)} /\ s.text = TextOf(item) /\ s.id = id
        /\ s.picture = (IF id = seen.picture THEN None ELSE PictureOf(item))
        /\ s.known = (PictureOf(item) # None /\ id = seen.picture)
    BY <1>1 DEF Snapshot, FilesOf, TextOf, PictureOf
  <1>3. PictureOf(item) # None => id # None
    BY NoneIsNoContent DEF Content
  <1>4. SeenOk
    BY DEF Inv
  <1>5. s.known => PictureOf(item) # None /\ id \in Kept \intersect DOMAIN disk
    BY <1>2, <1>3, <1>4 DEF SeenOk
  <1> QED BY <1>1, <1>2, <1>5 DEF Took

LEMMA FilesSaved ==
    ASSUME Inv, NEW s, NEW item, NEW id, Took(s, item, id), NEW a, a.disk = disk \/ (s.picture # None /\ a.disk = Save(id, s.picture)),
           \/ disk' = a.disk
           \/ disk' = disk
           \/ disk' = [i \in DOMAIN a.disk |-> IF i \in DOMAIN disk THEN disk[i] ELSE None]
    PROVE  Saved(item, id)
  <1>1. disk = [i \in DOMAIN disk |-> disk[i]]
    BY DEF Inv, DiskOk
  <1>2. CASE a.disk = disk \/ id \in DOMAIN disk
    <2>1. a.disk = disk
      BY <1>2 DEF Save
    <2> QED BY <1>1, <2>1 DEF Saved
  <1>3. CASE a.disk # disk /\ id \notin DOMAIN disk
    <2>1. s.picture = PictureOf(item) /\ s.picture # None /\ id \in Pictures \union (0..MaxCopies)
      BY <1>3 DEF Took
    <2>2. a.disk = [i \in DOMAIN disk \union {id} |-> IF i = id THEN s.picture ELSE disk[i]]
      BY <1>3 DEF Save
    <2>3. CASE disk' = a.disk
      BY <1>3, <2>1, <2>2, <2>3 DEF Saved
    <2>4. CASE disk' = [i \in DOMAIN a.disk |-> IF i \in DOMAIN disk THEN disk[i] ELSE None]
      <3>1. disk' = [i \in DOMAIN disk \union {id} |-> IF i = id THEN None ELSE disk[i]]
        BY <1>3, <2>2, <2>4
      <3> QED BY <1>3, <2>1, <3>1 DEF Saved
    <2>5. CASE disk' = disk
      BY <2>5 DEF Saved
    <2> QED BY <2>3, <2>4, <2>5
  <1> QED BY <1>2, <1>3

LEMMA CutGrows ==
    ASSUME Inv, NEW s, NEW item \in Items \union {None}, NEW id, Took(s, item, id), Cut(Capture(s))
    PROVE  Grows /\ Saved(item, id)
  <1>1. PICK a : a = Capture(s)
    OBVIOUS
  <1>2. CaptureOk(a, s, item, id) /\ Cut(a)
    BY <1>1, Captures DEF Inv
  <1>3. PICK k \in DOMAIN a.steps : Goes(a.steps, k)
    BY <1>2 DEF Cut, Stops
  <1>4. Grows
    BY <1>2, <1>3, GoesOn DEF CaptureOk, Inv, Grows
  <1>5. Saved(item, id)
    BY <1>2, FilesSaved DEF CaptureOk, Cut
  <1> QED BY <1>4, <1>5

LEMMA FailedGrows ==
    ASSUME Inv, NEW s, NEW item \in Items \union {None}, NEW id, Took(s, item, id), Failed(s)
    PROVE  /\ Grows /\ Saved(item, id) /\ skipped' = skipped
           /\ seen'.count = seen.count /\ SeenOk'
  <1>1. PICK a : a = Capture(s)
    OBVIOUS
  <1>2. CaptureOk(a, s, item, id) /\ Cut(Capture(s)) /\ seen' = a.before /\ skipped' = skipped
    BY <1>1, Captures DEF Inv, Failed
  <1>3. Grows /\ Saved(item, id)
    BY <1>2, CutGrows
  <1>4. DOMAIN disk \subseteq DOMAIN disk'
    BY <1>3 DEF Saved
  <1>5. SeenOk'
    BY <1>2, <1>3, <1>4 DEF CaptureOk, SeenOk, Told, Grows, Inv
  <1> QED BY <1>2, <1>3, <1>5 DEF CaptureOk

LEMMA RecordedGrows ==
    ASSUME Inv, NEW s, NEW item \in Items \union {None}, NEW id, Took(s, item, id),
           NEW count \in (0..MaxCopies) \union {None}, Recorded(s, count)
    PROVE  /\ Grows /\ Saved(item, id)
           /\ seen'.count = count /\ SeenOk'
           /\ ~skipped' => \/ WordsOf(item) \intersect Kept' # {}
                           \/ PictureOf(item) # None /\ id \in Kept' \intersect DOMAIN disk'
  <1>1. PICK a : a = Capture(s)
    OBVIOUS
  <1>2. /\ CaptureOk(a, s, item, id) /\ Goes(a.steps, Len(a.steps)) /\ disk' = a.disk
        /\ seen' = [a.seen EXCEPT !.count = count] /\ skipped' = ~Records(s)
    BY <1>1, Captures DEF Inv, Recorded, Runs
  <1>3. Len(a.steps) \in DOMAIN a.steps
    BY <1>2 DEF CaptureOk, Good
  <1>4. Grows /\ After(a.steps) \subseteq Kept'
    BY <1>2, <1>3, GoesOn DEF CaptureOk, Inv, Grows
  <1>5. Saved(item, id)
    BY <1>2, FilesSaved DEF CaptureOk
  <1>6. /\ seen' \in SeenRec /\ seen'.count = count /\ seen'.files = a.seen.files
        /\ seen'.text = a.seen.text /\ seen'.picture = a.seen.picture
    BY <1>2 DEF CaptureOk, SeenRec
  <1>7. SeenOk'
    BY <1>2, <1>4, <1>6 DEF CaptureOk, SeenOk, Told
  <1>8. ~skipped' => \/ WordsOf(item) \intersect Kept' # {}
                     \/ PictureOf(item) # None /\ id \in Kept' \intersect DOMAIN disk'
    BY <1>2, <1>4 DEF CaptureOk
  <1> QED BY <1>4, <1>5, <1>6, <1>7, <1>8

-----------------------------------------------------------------------------
(* What each part of the invariant needs of a step.                        *)

Moves == clip' = clip \/ (clip.count < MaxCopies /\ \E item \in Items : Onto(item))
DiskGrows == DOMAIN disk \subseteq DOMAIN disk' /\ \A i \in DOMAIN disk : disk'[i] = disk[i]

LEMMA ClipStep ==
    ASSUME Inv, Moves
    PROVE  /\ ClipOk' /\ clip.count \in Nat /\ clip'.count \in Nat /\ MaxCopies \in Nat
           /\ clip' = clip \/ clip'.count = clip.count + 1
  <1>1. ClipOk /\ MaxCopies \in Nat
    BY ClipboardAssumption DEF Inv
  <1>2. CASE clip' = clip
    BY <1>1, <1>2 DEF ClipOk
  <1>3. CASE clip.count < MaxCopies /\ \E item \in Items : Onto(item)
    BY <1>1, <1>3 DEF ClipOk, Onto
  <1> QED BY <1>1, <1>2, <1>3 DEF Moves

LEMMA DiskSame ==
    ASSUME Inv, Moves, disk' = disk
    PROVE  DiskOk' /\ DiskGrows
  <1>1. /\ clip.count \in Nat /\ clip'.count \in Nat /\ DiskOk
        /\ clip' = clip \/ clip'.count = clip.count + 1
    BY ClipStep DEF Inv
  <1>2. Pictures \intersect (0..MaxCopies) = {} /\ ClipOk' /\ MaxCopies \in Nat
    BY ClipStep, ClipboardAssumption
  <1>3. CASE clip' = clip
    BY <1>1, <1>3 DEF DiskOk, DiskGrows, PictureOf
  <1>4. CASE clip'.count = clip.count + 1
    <2>1. clip'.count \notin DOMAIN disk
      BY <1>1, <1>2, <1>4 DEF DiskOk, ClipOk
    <2>2. DOMAIN disk \subseteq Pictures \union (0..clip'.count)
      BY <1>1, <1>4 DEF DiskOk
    <2> QED BY <1>1, <2>1, <2>2 DEF DiskOk, DiskGrows
  <1> QED BY <1>1, <1>3, <1>4

LEMMA DiskStep ==
    ASSUME Inv, Moves, NEW item \in Items \union {None}, NEW id, Saved(item, id),
           PictureOf(item) # None => \/ id = PictureOf(item)
                                     \/ id \in 0..clip.count /\ (id = clip.count => item = clip.item)
    PROVE  DiskOk' /\ DiskGrows
  <1>1. CASE disk' = disk
    BY <1>1, DiskSame
  <1>2. CASE disk' # disk
    <2>1. PICK v \in {PictureOf(item), None} :
             disk' = [i \in DOMAIN disk \union {id} |-> IF i = id THEN v ELSE disk[i]]
      BY <1>2 DEF Saved
    <2>2. id \notin DOMAIN disk /\ PictureOf(item) # None /\ id \in Pictures \union (0..MaxCopies)
      BY <1>2 DEF Saved
    <2>3. /\ clip.count \in Nat /\ clip'.count \in Nat /\ DiskOk /\ MaxCopies \in Nat
          /\ clip' = clip \/ clip'.count = clip.count + 1
          /\ ClipOk' /\ PictureOf(item) \in Pictures \union {None}
      BY ClipStep, ItemContent DEF Inv
    <2>4. Pictures \intersect (0..MaxCopies) = {}
      BY ClipboardAssumption
    <2>5. clip'.count \in 0..MaxCopies
      BY <2>3 DEF ClipOk
    <2>6. /\ DOMAIN disk' = DOMAIN disk \union {id} /\ disk'[id] = v
          /\ \A i \in DOMAIN disk : disk'[i] = disk[i]
          /\ disk' = [i \in DOMAIN disk' |-> disk'[i]]
      BY <2>1, <2>2
    <2>7. id \in Pictures \union (0..clip.count) /\ (id \in Pictures => v \in {id, None})
      BY <2>2, <2>3, <2>4, ClipStep DEF ClipOk, Inv
    <2>8. DOMAIN disk' \subseteq Pictures \union (0..clip'.count)
      BY <2>3, <2>6, <2>7 DEF DiskOk
    <2>9. \A i \in DOMAIN disk' : disk'[i] \in Pictures \union {None} /\ (i \in Pictures => disk'[i] \in {i, None})
      BY <2>3, <2>6, <2>7 DEF DiskOk
    <2>10. clip'.count \in DOMAIN disk' => clip' = clip
      BY <2>3, <2>4, <2>5, <2>6, <2>7 DEF DiskOk
    <2>11. clip'.count \in DOMAIN disk' => disk'[clip'.count] \in {PictureOf(clip'.item), None}
      <3>1. SUFFICES ASSUME clip'.count \in DOMAIN disk' PROVE disk'[clip'.count] \in {PictureOf(clip'.item), None}
        OBVIOUS
      <3>2. clip' = clip
        BY <2>10, <3>1
      <3>3. CASE clip.count = id
        <4>1. id # PictureOf(item)
          BY <2>2, <2>3, <2>4, <2>5, <3>2, <3>3
        <4>2. item = clip.item
          BY <2>2, <3>3, <4>1
        <4> QED BY <2>6, <3>2, <3>3, <4>2
      <3>4. CASE clip.count # id
        BY <2>3, <2>6, <3>1, <3>2, <3>4 DEF DiskOk
      <3> QED BY <3>3, <3>4
    <2>12. DiskOk'
      BY <2>6, <2>8, <2>9, <2>11 DEF DiskOk
    <2> QED BY <2>6, <2>12 DEF DiskGrows
  <1> QED BY <1>1, <1>2

LEMMA TookStays ==
    ASSUME NEW s, NEW item, NEW id, Took(s, item, id), Kept \subseteq Kept', DiskGrows
    PROVE  Took(s, item, id)'
  BY DEF Took, DiskGrows

LEMMA SeenStays ==
    ASSUME Inv, seen' = seen, Kept \subseteq Kept', DiskGrows
    PROVE  SeenOk'
  BY DEF Inv, SeenOk, Told, DiskGrows

LEMMA LoopStays ==
    ASSUME Inv, Moves, loop' \in {loop, None}, Kept \subseteq Kept', DiskGrows
    PROVE  LoopOk'
  <1>1. CASE loop' = None
    BY <1>1 DEF LoopOk
  <1>2. CASE loop' = loop /\ loop # None
    <2>1. LoopOk /\ clip.count \in Nat /\ (clip' = clip \/ clip'.count = clip.count + 1)
      BY ClipStep DEF Inv
    <2>2. /\ loop = [count |-> loop.count, read |-> loop.read] /\ loop.count \in 0..clip.count
          /\ loop.read # None => ReadOk
      BY <1>2, <2>1 DEF LoopOk
    <2>3. ASSUME loop.read # None PROVE ReadOk'
      <3>1. PICK item \in Items \union {None}, id \in Content \union {None} :
               /\ Took(loop.read, item, id) /\ Names(id, item, loop.count)
               /\ loop.count = clip.count => item \in {clip.item, None}
        BY <2>2, <2>3 DEF ReadOk
      <3>2. PICK s, n : s = loop.read /\ n = loop.count
        OBVIOUS
      <3>3. Took(s, item, id)'
        BY <3>1, <3>2, TookStays
      <3>4. s = loop'.read /\ n = loop'.count
        BY <1>2, <3>2
      <3>5. n = clip'.count => item \in {clip'.item, None}
        BY <2>1, <2>2, <3>1, <3>2
      <3>6. Names(id, item, n)
        BY <3>1, <3>2
      <3> QED BY <3>3, <3>4, <3>5, <3>6 DEF ReadOk
    <2>4. loop'.count \in 0..clip'.count
      BY <1>2, <2>1, <2>2
    <2> QED BY <1>2, <2>2, <2>3, <2>4 DEF LoopOk
  <1> QED BY <1>1, <1>2

LEMMA DealtStays ==
    ASSUME NEW item, Dealt(item), Kept \subseteq Kept', DiskGrows
    PROVE  Dealt(item)'
  <1>1. Whole' => Whole
    BY DEF Whole, DiskGrows
  <1> QED BY <1>1 DEF Dealt, DiskGrows

LEMMA MarkStays ==
    ASSUME Inv, Moves, Kept \subseteq Kept', DiskGrows, seen'.count = seen.count, skipped' = skipped
    PROVE  MarkOk'
  <1>1. /\ clip.count \in Nat /\ MarkOk /\ (clip' = clip \/ clip'.count = clip.count + 1)
        /\ MaxCopies \in Nat /\ None \notin 0..MaxCopies /\ clip'.count \in 0..MaxCopies
    BY ClipStep, ClipboardAssumption DEF Inv, ClipOk
  <1>2. seen'.count \in {None} \union (0..clip'.count)
    BY <1>1 DEF MarkOk
  <1>3. ASSUME Marked' PROVE clip' = clip /\ Marked
    BY <1>1, <1>3 DEF Marked, MarkOk
  <1>4. PICK item : item = clip.item
    OBVIOUS
  <1>5. Marked' => Dealt(item)'
    BY <1>1, <1>3, <1>4, DealtStays DEF MarkOk
  <1> QED BY <1>2, <1>3, <1>4, <1>5 DEF MarkOk

LEMMA KnownStays ==
    ASSUME Sound(db), Sound(db'), Evolves(db, db'), NEW r \in Row, Known(db, r)
    PROVE  Known(db', r)
  BY DEF Known, Evolves, From, Sound, DbShape, Row

LEMMA PanelStays ==
    ASSUME Inv, Sound(db'), Evolves(db, db'), IsPanel(panel'),
           \A r \in ShownOf(panel') : r \in ShownOf(panel) \/ (r \in db.rows /\ db' = db)
    PROVE  PanelOk'
  <1>1. Sound(db) /\ PanelOk
    BY DEF Inv
  <1>2. ASSUME NEW r \in ShownOf(panel') PROVE r \in Row /\ Known(db', r)
    <2>1. CASE r \in ShownOf(panel)
      BY <1>1, <2>1, KnownStays DEF PanelOk
    <2>2. CASE r \in db.rows /\ db' = db
      BY <1>1, <2>2 DEF Sound, DbShape, InStepOf, Known
    <2> QED BY <2>1, <2>2
  <1> QED BY <1>2 DEF PanelOk

-----------------------------------------------------------------------------
(* The panel's own steps.                                                  *)

LEMMA PanelRefreshed ==
    ASSUME NEW p, IsPanel(p)
    PROVE  IsPanel(Refreshed(p)) /\ ShownOf(Refreshed(p)) \subseteq ShownOf(p) /\ Refreshed(p).task = p.task
  <1>1. PICK u : u = Refreshed(p)
    OBVIOUS
  <1>2. PICK l : l = [offset |-> 0, rows |-> None]
    OBVIOUS
  <1>3. p \in PanelRec /\ l \in LoadRec /\ l.rows = None
    BY <1>2 DEF IsPanel, LoadRec
  <1>4. u = [p EXCEPT !.items = {}, !.len = 0, !.more = FALSE, !.load = l]
    BY <1>1, <1>2 DEF Refreshed
  <1>5. u \in PanelRec /\ u.items = {} /\ u.len = 0 /\ u.load = l /\ u.task = p.task
    BY <1>3, <1>4 DEF PanelRec
  <1>6. IsPanel(u)
    BY <1>3, <1>5, FS_EmptySet DEF IsPanel
  <1>7. ShownOf(u) \subseteq ShownOf(p)
    BY <1>3, <1>5 DEF ShownOf
  <1> QED BY <1>1, <1>5, <1>6, <1>7

LEMMA EmptyPanel ==
    /\ IsPanel(Closed) /\ ShownOf(Closed) = {}
    /\ IsPanel([Closed EXCEPT !.open = TRUE]) /\ ShownOf([Closed EXCEPT !.open = TRUE]) = {}
  <1>1. IsPanel(Closed) /\ ShownOf(Closed) = {}
    BY FS_EmptySet DEF IsPanel, PanelRec, Closed, ShownOf
  <1>2. PICK p : p = [Closed EXCEPT !.open = TRUE]
    OBVIOUS
  <1>3. p = [open |-> TRUE, items |-> {}, len |-> 0, more |-> FALSE, load |-> None, task |-> None]
    BY <1>2 DEF Closed
  <1>4. IsPanel(p) /\ ShownOf(p) = {}
    BY <1>3, FS_EmptySet DEF IsPanel, PanelRec, ShownOf
  <1> QED BY <1>1, <1>2, <1>4

LEMMA PanelSearches ==
    ASSUME Inv, panel.load # None, NEW L \in SUBSET db.rows, IsFiniteSet(L),
           panel' = [panel EXCEPT !.load.rows = L]
    PROVE  IsPanel(panel') /\ ShownOf(panel') \subseteq ShownOf(panel) \union db.rows
  <1>1. PICK u : u = panel'
    OBVIOUS
  <1>2. PICK p : p = panel
    OBVIOUS
  <1>3. IsPanel(p) /\ p.load \in LoadRec /\ L \subseteq Row
    BY <1>2 DEF Inv, PanelOk, IsPanel, PanelRec, Sound, DbShape
  <1>4. PICK l : l = [p.load EXCEPT !.rows = L]
    OBVIOUS
  <1>5. l \in LoadRec /\ l.rows = L
    BY <1>3, <1>4 DEF LoadRec
  <1>6. u = [p EXCEPT !.load = l]
    BY <1>1, <1>2, <1>4
  <1>7. u \in PanelRec /\ u.load = l /\ u.items = p.items /\ u.len = p.len /\ u.task = p.task
    BY <1>3, <1>5, <1>6 DEF PanelRec, IsPanel
  <1>8. IsPanel(u)
    BY <1>3, <1>5, <1>7 DEF IsPanel
  <1>9. ShownOf(u) \subseteq ShownOf(p) \union db.rows
    BY <1>5, <1>7 DEF ShownOf
  <1> QED BY <1>1, <1>2, <1>8, <1>9

LEMMA PanelShows ==
    ASSUME Inv, panel.load # None, panel.load.rows # None, NEW page \in SUBSET panel.load.rows, NEW more \in BOOLEAN,
           panel' = [panel EXCEPT !.items = @ \union page, !.len = @ + Cardinality(page), !.more = more, !.load = None]
    PROVE  IsPanel(panel') /\ ShownOf(panel') \subseteq ShownOf(panel)
  <1>1. PICK u : u = panel'
    OBVIOUS
  <1>2. PICK p : p = panel
    OBVIOUS
  <1>3. PICK n : n = Cardinality(page)
    OBVIOUS
  <1>4. IsPanel(p) /\ p.load \in LoadRec /\ p.load.rows # None
    BY <1>2 DEF Inv, PanelOk, IsPanel, PanelRec
  <1>5. page \subseteq Row /\ IsFiniteSet(page) /\ n \in Nat /\ p.len \in Nat
    BY <1>2, <1>3, <1>4, FS_Subset, FS_CardinalityType DEF LoadRec, IsPanel, PanelRec
  <1>6. /\ IsFiniteSet(p.items \union page) /\ Cardinality(p.items) \in Nat
        /\ p.len + n >= Cardinality(p.items \union page)
    <2>1. IsFiniteSet(p.items) /\ p.len >= Cardinality(p.items) /\ p.len \in Nat
      BY <1>4 DEF IsPanel, PanelRec
    <2>2. /\ IsFiniteSet(p.items \union page)
          /\ Cardinality(p.items \union page) = Cardinality(p.items) + Cardinality(page) - Cardinality(p.items \cap page)
      BY <1>5, <2>1, FS_Union
    <2>3. /\ Cardinality(p.items \cap page) \in Nat /\ Cardinality(p.items) \in Nat
          /\ Cardinality(page) \in Nat
      BY <1>5, <2>1, FS_Intersection, FS_CardinalityType
    <2> QED BY <1>3, <2>1, <2>2, <2>3
  <1>7. u = [p EXCEPT !.items = p.items \union page, !.len = p.len + n, !.more = more, !.load = None]
    BY <1>1, <1>2, <1>3
  <1>8. /\ u \in PanelRec /\ u.items = p.items \union page /\ u.len = p.len + n /\ u.load = None /\ u.task = p.task
    <2>1. p \in PanelRec /\ p.items \union page \in SUBSET Row /\ p.len + n \in Nat
      BY <1>4, <1>5 DEF PanelRec, IsPanel
    <2>2. PICK items, len : items = p.items \union page /\ len = p.len + n
      OBVIOUS
    <2> QED BY <1>7, <2>1, <2>2 DEF PanelRec
  <1>9. IsPanel(u)
    BY <1>6, <1>8 DEF IsPanel
  <1>10. ShownOf(u) \subseteq ShownOf(p)
    BY <1>2, <1>4, <1>8 DEF ShownOf
  <1> QED BY <1>1, <1>2, <1>9, <1>10

LEMMA PanelPrefetches ==
    ASSUME Inv, panel.load = None, panel' = [panel EXCEPT !.load = [offset |-> panel.len, rows |-> None]]
    PROVE  IsPanel(panel') /\ ShownOf(panel') \subseteq ShownOf(panel)
  <1>1. PICK u : u = panel'
    OBVIOUS
  <1>2. PICK p : p = panel
    OBVIOUS
  <1>3. PICK l : l = [offset |-> p.len, rows |-> None]
    OBVIOUS
  <1>4. IsPanel(p) /\ l \in LoadRec /\ l.rows = None
    BY <1>2, <1>3 DEF Inv, PanelOk, IsPanel, PanelRec, LoadRec
  <1>5. u = [p EXCEPT !.load = l]
    BY <1>1, <1>2, <1>3
  <1>6. u \in PanelRec /\ u.items = p.items /\ u.len = p.len /\ u.load = l /\ u.task = p.task
    BY <1>4, <1>5 DEF PanelRec, IsPanel
  <1>7. IsPanel(u) /\ ShownOf(u) \subseteq ShownOf(p)
    BY <1>4, <1>6 DEF IsPanel, ShownOf
  <1> QED BY <1>1, <1>2, <1>7

\* The task of the panel is given, has run, or ends.
LEMMA PanelTask ==
    ASSUME NEW p, IsPanel(p), NEW task \in TaskRec \union {None}, NEW u, u = [p EXCEPT !.task = task]
    PROVE  /\ IsPanel(u)
           /\ ShownOf(u) \subseteq p.items \union (ShownOf(p) \union
                                     (IF task = None \/ task.op = "config" THEN {} ELSE {task.row}))
  <1>1. p \in PanelRec
    BY DEF IsPanel
  <1>2. u \in PanelRec /\ u.items = p.items /\ u.len = p.len /\ u.load = p.load /\ u.task = task
    BY <1>1 DEF PanelRec
  <1> QED BY <1>2 DEF IsPanel, ShownOf

-----------------------------------------------------------------------------
(* The actions.                                                            *)

LEMMA Quiet ==
    ASSUME Inv, UNCHANGED <<db, gone>>
    PROVE  Grows
  <1>1. Evolves(db, db)
    BY EvolvesToSubset DEF Inv
  <1>2. Kept' = Kept
    BY DEF Kept
  <1> QED BY <1>1, <1>2 DEF Grows, Inv

LEMMA PanelUnmoved ==
    ASSUME Inv, panel' = panel, Grows
    PROVE  PanelOk'
  BY PanelStays DEF Inv, PanelOk, Grows

LEMMA CopyInv ==
    ASSUME Inv, Copy
    PROVE  Inv'
  <1> USE DEF Copy
  <1>1. Moves /\ Grows
    BY Quiet DEF Moves
  <1>2. ClipOk' /\ DiskOk' /\ DiskGrows
    BY <1>1, ClipStep, DiskSame
  <1>3. SeenOk' /\ LoopOk' /\ MarkOk' /\ PanelOk'
    BY <1>1, <1>2, SeenStays, LoopStays, MarkStays, PanelUnmoved DEF Grows
  <1> QED BY <1>1, <1>2, <1>3 DEF Inv, Grows

LEMMA PollReadsInv ==
    ASSUME Inv, PollCount \/ PollContent
    PROVE  Inv'
  <1> USE DEF PollCount, PollContent
  <1>1. Moves /\ Grows
    BY Quiet DEF Moves
  <1>2. ClipOk' /\ DiskOk' /\ DiskGrows
    BY <1>1, ClipStep, DiskSame
  <1>3. SeenOk' /\ MarkOk' /\ PanelOk'
    BY <1>1, <1>2, SeenStays, MarkStays, PanelUnmoved DEF Grows
  <1>4. LoopOk'
    <2>0. ClipOk /\ clip.count \in Nat /\ MaxCopies \in Nat
      BY ClipStep, <1>1 DEF Inv
    <2>1. CASE PollCount
      <3>1. loop' = [count |-> clip.count, read |-> None] /\ clip' = clip
        BY <2>1 DEF Count
      <3> QED BY <2>0, <3>1 DEF LoopOk
    <2>2. CASE PollContent
      <3>1. PICK item \in {clip.item, None} : loop' = [loop EXCEPT !.read = InLoop(item)]
        BY <2>2
      <3>2. loop # None /\ loop = [count |-> loop.count, read |-> loop.read] /\ loop.count \in 0..clip.count
        BY <2>2 DEF Inv, LoopOk
      <3>3. PICK n, id : n = loop.count /\ id = IF platform = "macos" THEN n ELSE PictureOf(item)
        OBVIOUS
      <3>4. n \in 0..MaxCopies /\ item \in Items \union {None} /\ PictureOf(item) \in Pictures \union {None}
        BY <2>0, <3>1, <3>2, <3>3, ItemContent DEF ClipOk
      <3>5. id \in {n, PictureOf(item)} /\ id \in Content \union {None} /\ Names(id, item, n)
        BY <3>3, <3>4 DEF Content, Names
      <3>6. PICK s : s = Snapshot(item, id)
        OBVIOUS
      <3>7. Took(s, item, id)
        BY <3>4, <3>5, <3>6, SnapshotTook
      <3>8. loop' = [count |-> n, read |-> s] /\ clip' = clip
        BY <2>2, <3>1, <3>2, <3>3, <3>6 DEF InLoop
      <3>9. Took(s, item, id)'
        BY <1>1, <1>2, <3>7, TookStays DEF Grows
      <3>10. loop'.read = s /\ loop'.count = n
        BY <3>8
      <3>11. ReadOk'
        BY <3>1, <3>4, <3>5, <3>8, <3>9, <3>10 DEF ReadOk
      <3> QED BY <3>2, <3>3, <3>8, <3>10, <3>11 DEF LoopOk
    <2> QED BY <2>1, <2>2
  <1> QED BY <1>1, <1>2, <1>3, <1>4 DEF Inv, Grows

\* What a recording leaves of the mark, when it was told the count at hand.
LEMMA MarkRecorded ==
    ASSUME Inv, Moves, NEW count \in (0..clip.count) \union {None}, seen'.count = count, DiskOk', ClipOk',
           NEW item, NEW id, Names(id, item, count),
           count = clip.count /\ clip' = clip => item \in {clip.item, None},
           PictureOf(item) \in Pictures \union {None},
           ~skipped' => \/ WordsOf(item) \intersect Kept' # {}
                        \/ PictureOf(item) # None /\ id \in Kept' \intersect DOMAIN disk'
    PROVE  MarkOk'
  <1>1. /\ clip.count \in Nat /\ clip'.count \in Nat
        /\ clip' = clip \/ clip'.count = clip.count + 1
    BY ClipStep
  <1>2. seen'.count \in {None} \union (0..clip'.count)
    BY <1>1
  <1>3. ASSUME Marked' PROVE Dealt(clip.item)' /\ clip' = clip
    <2>0. None \notin 0..MaxCopies /\ clip'.count \in 0..MaxCopies
      BY ClipboardAssumption DEF ClipOk
    <2>1. clip' = clip /\ count = clip.count /\ ~skipped'
      BY <1>1, <1>3, <2>0 DEF Marked
    <2>2. item = clip.item /\ (PictureOf(item) # None => id \in {count, PictureOf(item)})
      BY <2>1 DEF Names, WordsOf, FilesOf, TextOf, PathsOf, PictureOf
    <2>3. CASE WordsOf(item) \intersect Kept' # {}
      BY <2>1, <2>2, <2>3 DEF Dealt
    <2>4. CASE PictureOf(item) # None /\ id \in Kept' \intersect DOMAIN disk'
      <3>1. disk'[id] \in {PictureOf(item), None}
        BY <2>1, <2>2, <2>4 DEF DiskOk
      <3>2. Whole' => disk'[id] = PictureOf(item)
        BY <2>4, <3>1 DEF Whole
      <3>3. Whole' => \E c \in Kept' \intersect DOMAIN disk' : disk'[c] = PictureOf(item)
        BY <2>4, <3>2
      <3> QED BY <2>1, <2>2, <2>4, <3>3 DEF Dealt
    <2> QED BY <2>1, <2>3, <2>4
  <1> QED BY <1>2, <1>3 DEF MarkOk

LEMMA PollRecordInv ==
    ASSUME Inv, PollRecord
    PROVE  Inv'
  <1> USE DEF PollRecord
  <1>1. /\ loop # None /\ loop.read # None /\ loop.count \in 0..clip.count /\ ReadOk
        /\ clip.count \in Nat /\ MaxCopies \in Nat /\ clip.count \in 0..MaxCopies /\ Moves
    BY ClipStep DEF Inv, LoopOk, ClipOk, Moves
  <1>2. PICK item \in Items \union {None}, id \in Content \union {None} :
           /\ Took(loop.read, item, id) /\ Names(id, item, loop.count)
           /\ loop.count = clip.count => item \in {clip.item, None}
    BY <1>1 DEF ReadOk
  <1>3. PICK s, n : s = loop.read /\ n = loop.count
    OBVIOUS
  <1>4. /\ n \in 0..MaxCopies /\ n \in 0..clip.count /\ Took(s, item, id) /\ Names(id, item, n)
        /\ n = clip.count => item \in {clip.item, None}
    BY <1>1, <1>2, <1>3
  <1>5. /\ PictureOf(item) \in Pictures \union {None}
        /\ PictureOf(item) # None => \/ id = PictureOf(item)
                                     \/ id \in 0..clip.count /\ (id = clip.count => item = clip.item)
    <2>1. PictureOf(item) # None => id \in {n, PictureOf(item)} /\ item # None
      BY <1>4 DEF Names, PictureOf
    <2> QED BY <1>4, <2>1, ItemContent
  <1>6. CASE IsEmptySnapshot(s) /\ seen' = [seen EXCEPT !.count = n] /\ skipped' = ~s.known
             /\ UNCHANGED <<db, disk, gone, faults>>
    <2>1. Grows /\ ClipOk' /\ DiskOk' /\ DiskGrows
      BY <1>1, <1>6, Quiet, ClipStep, DiskSame
    <2>2. LoopOk' /\ PanelOk'
      BY <1>1, <2>1, LoopStays, PanelUnmoved DEF Grows
    <2>3. SeenOk /\ seen \in SeenRec
      BY DEF Inv, SeenOk
    <2>4. /\ seen' \in SeenRec /\ seen'.files = seen.files /\ seen'.text = seen.text
          /\ seen'.picture = seen.picture /\ seen'.count = n
      BY <1>4, <1>6, <2>3 DEF SeenRec
    <2>5. SeenOk'
      BY <2>1, <2>3, <2>4 DEF SeenOk, Told, Grows, DiskGrows
    <2>6. ~skipped' => PictureOf(item) # None /\ id \in Kept' \intersect DOMAIN disk'
      BY <1>4, <1>6, <2>1 DEF Took, Grows
    <2>7. MarkOk'
      BY <1>1, <1>4, <1>5, <2>1, <2>4, <2>6, MarkRecorded
    <2> QED BY <2>1, <2>2, <2>5, <2>7 DEF Inv, Grows
  <1>7. CASE Recorded(s, n)
    <2>1. /\ Grows /\ Saved(item, id)
          /\ seen'.count = n /\ SeenOk'
          /\ ~skipped' => \/ WordsOf(item) \intersect Kept' # {}
                          \/ PictureOf(item) # None /\ id \in Kept' \intersect DOMAIN disk'
      BY <1>4, <1>7, RecordedGrows
    <2>2. ClipOk' /\ DiskOk' /\ DiskGrows
      BY <1>1, <1>4, <1>5, <2>1, ClipStep, DiskStep
    <2>3. LoopOk' /\ PanelOk'
      BY <1>1, <2>1, <2>2, LoopStays, PanelUnmoved DEF Grows
    <2>4. MarkOk'
      BY <1>1, <1>4, <1>5, <2>1, <2>2, MarkRecorded
    <2> QED BY <2>1, <2>2, <2>3, <2>4 DEF Inv, Grows
  <1>8. CASE Failed(s)
    <2>1. /\ Grows /\ Saved(item, id) /\ skipped' = skipped /\ seen'.count = seen.count /\ SeenOk'
      BY <1>4, <1>8, FailedGrows
    <2>2. ClipOk' /\ DiskOk' /\ DiskGrows
      BY <1>1, <1>4, <1>5, <2>1, ClipStep, DiskStep
    <2>3. LoopOk' /\ PanelOk' /\ MarkOk'
      BY <1>1, <2>1, <2>2, LoopStays, PanelUnmoved, MarkStays DEF Grows
    <2> QED BY <2>1, <2>2, <2>3 DEF Inv, Grows
  <1> QED BY <1>3, <1>6, <1>7, <1>8

\* A read on the UI thread.
LEMMA ScreenTook ==
    ASSUME Inv, NEW item \in Items \union {None}
    PROVE  Took(OnScreen(item), item, PictureOf(item))
  <1>1. OnScreen(item) = Snapshot(item, PictureOf(item))
    BY DEF OnScreen, PictureOf
  <1>2. PictureOf(item) # None => PictureOf(item) \in Pictures \union (0..MaxCopies)
    BY ItemContent
  <1> QED BY <1>1, <1>2, SnapshotTook

LEMMA OpenPanelInv ==
    ASSUME Inv, OpenPanel
    PROVE  Inv'
  <1> USE DEF OpenPanel
  <1>1. IsPanel(panel) /\ clip.count \in Nat /\ clip.count \in 0..MaxCopies /\ clip.item \in Items \union {None}
    BY ClipboardAssumption DEF Inv, PanelOk, ClipOk
  <1>2. IsPanel(panel') /\ ShownOf(panel') \subseteq ShownOf(panel)
    <2>1. PICK p : p = IF panel.open THEN panel ELSE [Closed EXCEPT !.open = TRUE]
      OBVIOUS
    <2>2. IsPanel(p) /\ ShownOf(p) \subseteq ShownOf(panel) /\ panel' = Refreshed(p)
      BY <1>1, <2>1, EmptyPanel
    <2> QED BY <2>2, PanelRefreshed
  <1>3. CASE UNCHANGED <<clip, db, disk, seen, gone, skipped, faults>>
    <2>1. Grows /\ Moves
      BY <1>3, Quiet DEF Moves
    <2>2. ClipOk' /\ DiskOk' /\ DiskGrows
      BY <1>3, <2>1, ClipStep, DiskSame
    <2>3. SeenOk' /\ LoopOk' /\ MarkOk'
      BY <1>3, <2>1, <2>2, SeenStays, LoopStays, MarkStays DEF Grows
    <2>4. PanelOk'
      BY <1>2, <2>1, PanelStays DEF Grows
    <2> QED BY <2>1, <2>2, <2>3, <2>4 DEF Inv, Grows
  <1>4. CASE ~UNCHANGED <<clip, db, disk, seen, gone, skipped, faults>>
    <2>1. PICK late \in {None} \union (IF clip.count < MaxCopies /\ More THEN Items ELSE {}) :
             LET item == IF late = None THEN clip.item ELSE late
             IN  /\ IF late = None THEN UNCHANGED clip ELSE Onto(late)
                 /\ \/ Recorded(OnScreen(item), Count) /\ UNCHANGED faults
                    \/ Unopened /\ Recorded(OnScreen(None), Count)
                    \/ Failed(OnScreen(item))
      BY <1>4 DEF CaptureCurrent
    <2>2. PICK now : now = IF late = None THEN clip.item ELSE late
      OBVIOUS
    <2>0. PICK item \in {now, None} : Recorded(OnScreen(item), Count) \/ Failed(OnScreen(item))
      BY <2>1, <2>2
    <2>3. PICK s, id : s = OnScreen(item) /\ id = PictureOf(item)
      OBVIOUS
    <2>4. item \in Items \union {None} /\ Moves /\ (clip' = clip => item \in {clip.item, None})
      <3>1. late # None => clip.count < MaxCopies /\ late \in Items /\ Onto(late)
        BY <2>1
      <3>2. late # None => clip' # clip
        BY <1>1, <3>1 DEF Onto
      <3>3. late = None => clip' = clip
        BY <2>1
      <3>4. now \in Items \union {None} /\ (clip' = clip => now = clip.item)
        BY <1>1, <2>2, <3>1, <3>2
      <3>5. Moves
        BY <3>1, <3>3 DEF Moves
      <3> QED BY <2>0, <3>4, <3>5
    <2>5. /\ Took(s, item, id) /\ PictureOf(item) \in Pictures \union {None}
          /\ id = PictureOf(item) /\ \A n : Names(id, item, n)
      BY <2>3, <2>4, ScreenTook, ItemContent DEF Names
    <2>6. CASE Recorded(s, Count)
      <3>1. PICK n : n = Count
        OBVIOUS
      <3>2. n \in (0..MaxCopies) \union {None} /\ Recorded(s, n) /\ n \in (0..clip.count) \union {None}
        BY <1>1, <2>6, <3>1 DEF Count
      <3>3. /\ Grows /\ Saved(item, id)
            /\ seen'.count = n /\ SeenOk'
            /\ ~skipped' => \/ WordsOf(item) \intersect Kept' # {}
                            \/ PictureOf(item) # None /\ id \in Kept' \intersect DOMAIN disk'
        BY <2>4, <2>5, <3>2, RecordedGrows
      <3>4. ClipOk' /\ DiskOk' /\ DiskGrows
        BY <2>4, <2>5, <3>3, ClipStep, DiskStep
      <3>5. LoopOk'
        BY <2>4, <3>3, <3>4, LoopStays DEF Grows
      <3>6. MarkOk'
        BY <2>3, <2>4, <2>5, <3>2, <3>3, <3>4, MarkRecorded
      <3>7. PanelOk'
        BY <1>2, <3>3, PanelStays DEF Grows
      <3> QED BY <3>3, <3>4, <3>5, <3>6, <3>7 DEF Inv, Grows
    <2>7. CASE Failed(s)
      <3>1. Grows /\ Saved(item, id) /\ skipped' = skipped /\ seen'.count = seen.count /\ SeenOk'
        BY <2>4, <2>5, <2>7, FailedGrows
      <3>2. ClipOk' /\ DiskOk' /\ DiskGrows
        BY <2>4, <2>5, <3>1, ClipStep, DiskStep
      <3>3. LoopOk' /\ MarkOk'
        BY <2>4, <3>1, <3>2, LoopStays, MarkStays DEF Grows
      <3>4. PanelOk'
        BY <1>2, <3>1, PanelStays DEF Grows
      <3> QED BY <3>1, <3>2, <3>3, <3>4 DEF Inv, Grows
    <2> QED BY <2>0, <2>3, <2>6, <2>7
  <1> QED BY <1>3, <1>4

\* A step of the panel alone.
LEMMA PanelInv ==
    ASSUME Inv, UNCHANGED <<clip, db, disk, config, seen, loop, gone, skipped>>,
           IsPanel(panel'), ShownOf(panel') \subseteq ShownOf(panel) \union db.rows
    PROVE  Inv'
  <1>1. Grows /\ Moves
    BY Quiet DEF Moves
  <1>2. ClipOk' /\ DiskOk' /\ DiskGrows
    BY <1>1, ClipStep, DiskSame
  <1>3. SeenOk' /\ LoopOk' /\ MarkOk'
    BY <1>1, <1>2, SeenStays, LoopStays, MarkStays DEF Grows
  <1>4. PanelOk'
    BY <1>1, PanelStays DEF Grows
  <1> QED BY <1>1, <1>2, <1>3, <1>4 DEF Inv, Grows

LEMMA PanelActionsInv ==
    ASSUME Inv, ClosePanel \/ Search \/ Show \/ Prefetch \/ EndTask
    PROVE  Inv'
  <1>0. IsPanel(panel)
    BY DEF Inv, PanelOk
  <1>1. CASE ClosePanel
    BY <1>1, EmptyPanel, PanelInv DEF ClosePanel
  <1>2. CASE Search
    <2>1. PICK L : L = Listed(db, panel.load.offset, PageSize + 1)
      OBVIOUS
    <2>2. L \in SUBSET db.rows /\ IsFiniteSet(L)
      BY <2>1, FS_Subset DEF Listed, Inv, Sound
    <2> QED BY <1>2, <2>1, <2>2, PanelSearches, PanelInv DEF Search
  <1>3. CASE Show
    <2>1. PICK page : page = {r \in panel.load.rows : Cardinality({q \in panel.load.rows : Before(q, r)}) < PageSize}
      OBVIOUS
    <2>2. PICK more : more = (page # panel.load.rows)
      OBVIOUS
    <2>3. page \in SUBSET panel.load.rows /\ more \in BOOLEAN
      BY <2>1, <2>2
    <2>4. panel' = [panel EXCEPT !.items = @ \union page, !.len = @ + Cardinality(page), !.more = more, !.load = None]
      BY <1>3, <2>1, <2>2 DEF Show
    <2> QED BY <1>3, <2>3, <2>4, PanelShows, PanelInv DEF Show
  <1>4. CASE Prefetch
    BY <1>4, PanelPrefetches, PanelInv DEF Prefetch
  <1>5. CASE EndTask
    <2>1. PICK p : p = IF panel.task.op = "config" THEN panel ELSE Refreshed(panel)
      OBVIOUS
    <2>2. IsPanel(p) /\ ShownOf(p) \subseteq ShownOf(panel) /\ p.items \subseteq ShownOf(panel)
      BY <1>0, <2>1, PanelRefreshed DEF ShownOf
    <2>3. PICK u : u = panel'
      OBVIOUS
    <2>4. u = [p EXCEPT !.task = None]
      BY <1>5, <2>1, <2>3 DEF EndTask
    <2>5. IsPanel(u) /\ ShownOf(u) \subseteq ShownOf(panel)
      BY <2>2, <2>4, PanelTask
    <2> QED BY <1>5, <2>3, <2>5, PanelInv DEF EndTask
  <1> QED BY <1>1, <1>2, <1>3, <1>4, <1>5

LEMMA AskInv ==
    ASSUME Inv, NEW task \in TaskRec, Ask(task), task.op # "config" => task.row \in panel.items
    PROVE  Inv'
  <1>1. PICK u : u = panel'
    OBVIOUS
  <1>2. u = [panel EXCEPT !.task = task] /\ IsPanel(panel)
    BY <1>1 DEF Ask, Inv, PanelOk
  <1>3. IsPanel(u) /\ ShownOf(u) \subseteq panel.items \union (ShownOf(panel) \union
                                     (IF task = None \/ task.op = "config" THEN {} ELSE {task.row}))
    BY <1>2, PanelTask
  <1>4. ShownOf(u) \subseteq ShownOf(panel)
    BY <1>3 DEF ShownOf
  <1> QED BY <1>1, <1>3, <1>4, PanelInv DEF Ask

LEMMA AsksInv ==
    ASSUME Inv, AskAboutRow \/ AskToToggle
    PROVE  Inv'
  <1>1. CASE AskAboutRow
    <2>1. PICK r \in panel.items, op \in {"pin", "delete"} : Ask([op |-> op, row |-> r, ran |-> FALSE])
      BY <1>1 DEF AskAboutRow
    <2>2. op \in {"pin", "delete"}
      BY <2>1
    <2>3. PICK task : task = [op |-> op, row |-> r, ran |-> FALSE]
      OBVIOUS
    <2>4. r \in Row
      BY DEF Inv, PanelOk, IsPanel, PanelRec
    <2>5. task \in TaskRec /\ task.op # "config" /\ task.row = r
      BY <2>2, <2>3, <2>4 DEF TaskRec
    <2> QED BY <2>1, <2>3, <2>5, AskInv
  <1>2. CASE AskToToggle
    <2>1. PICK form \in Toggled : Ask([op |-> "config", form |-> form, on |-> form \notin config, ran |-> FALSE])
      BY <1>2 DEF AskToToggle
    <2>2. PICK task, on : on = (form \notin config) /\ task = [op |-> "config", form |-> form, on |-> on, ran |-> FALSE]
      OBVIOUS
    <2>3. form \in Forms /\ on \in BOOLEAN
      BY <2>2, ClipboardAssumption
    <2>4. task \in TaskRec /\ task.op = "config"
      BY <2>2, <2>3 DEF TaskRec
    <2> QED BY <2>1, <2>2, <2>4, AskInv
  <1> QED BY <1>1, <1>2

LEMMA StepsGood ==
    ASSUME Sound(db), NEW task \in TaskRec
    PROVE  /\ Good(db, StepsOf(task))
           /\ task.op # "config" => PinsStayBut(db, StepsOf(task)[Len(StepsOf(task))], task.row.id)
           /\ task.op = "config" => StepsOf(task) = <<db>>
  <1>1. CASE task.op = "pin"
    BY <1>1, PinGood DEF StepsOf
  <1>2. CASE task.op = "delete"
    BY <1>2, DeleteGood DEF StepsOf
  <1>3. CASE task.op = "config"
    <2>1. StepsOf(task) = <<db>>
      BY <1>3 DEF StepsOf
    <2>2. Evolves(db, db) /\ db \in DbShape
      BY EvolvesToSubset DEF Sound
    <2>3. Good(db, <<db>>)
      BY <2>2 DEF Good
    <2> QED BY <1>3, <2>1, <2>3
  <1>4. task.op \in {"pin", "delete", "config"}
    BY DEF TaskRec
  <1> QED BY <1>1, <1>2, <1>3, <1>4

LEMMA TaskGrows ==
    ASSUME Inv, panel.task # None, Stops(StepsOf(panel.task))
    PROVE  Grows
  <1>1. PICK task : task = panel.task
    OBVIOUS
  <1>2. task \in TaskRec
    BY <1>1 DEF Inv, PanelOk, IsPanel, PanelRec
  <1>3. PICK k \in DOMAIN StepsOf(task) : Goes(StepsOf(task), k)
    BY <1>1 DEF Stops
  <1>4. Good(db, StepsOf(task))
    BY <1>2, StepsGood DEF Inv
  <1>5. gone \subseteq Content
    BY DEF Inv
  <1> QED BY <1>3, <1>4, <1>5, GoesOn DEF Grows

LEMMA RunsStops ==
    ASSUME NEW steps, Good(db, steps), Runs(steps)
    PROVE  Stops(steps)
  <1>1. Len(steps) \in DOMAIN steps
    BY DEF Good
  <1> QED BY <1>1 DEF Runs, Stops

LEMMA RunTaskInv ==
    ASSUME Inv, RunTask
    PROVE  Inv'
  <1> USE DEF RunTask
  <1>1. PICK p, u, task : p = panel /\ u = panel' /\ task = panel.task
    OBVIOUS
  <1>2. task # None /\ task \in TaskRec /\ IsPanel(p) /\ p.task = task
    BY <1>1 DEF Inv, PanelOk, IsPanel, PanelRec
  <1>3. PICK t : t = [task EXCEPT !.ran = TRUE]
    OBVIOUS
  <1>4. /\ t \in TaskRec /\ t.op = task.op
        /\ task.op # "config" => t.row = task.row
    BY <1>2, <1>3 DEF TaskRec
  <1>5. u = [p EXCEPT !.task = t]
    BY <1>1, <1>3 DEF Ran
  <1>6. IsPanel(u) /\ ShownOf(u) \subseteq ShownOf(p)
    <2>1. /\ IsPanel(u)
          /\ ShownOf(u) \subseteq p.items \union (ShownOf(p) \union
                                     (IF t = None \/ t.op = "config" THEN {} ELSE {t.row}))
      BY <1>2, <1>4, <1>5, PanelTask
    <2> QED BY <1>2, <1>4, <2>1 DEF ShownOf
  <1>7. Stops(StepsOf(panel.task))
    <2>1. Good(db, StepsOf(task))
      BY <1>2, StepsGood DEF Inv
    <2> QED BY <1>1, <2>1, RunsStops
  <1>8. Grows /\ Moves
    BY <1>7, TaskGrows DEF Moves
  <1>9. ClipOk' /\ DiskOk' /\ DiskGrows
    BY <1>8, ClipStep, DiskSame
  <1>10. SeenOk' /\ LoopOk' /\ MarkOk'
    BY <1>8, <1>9, SeenStays, LoopStays, MarkStays DEF Grows
  <1>11. PanelOk'
    BY <1>1, <1>6, <1>8, PanelStays DEF Grows
  <1>12. config' \subseteq Forms
    <2>1. task.op = "config" => task.form \in Forms
      BY <1>2 DEF TaskRec
    <2> QED BY <1>1, <2>1 DEF Inv
  <1> QED BY <1>8, <1>9, <1>10, <1>11, <1>12 DEF Inv, Grows

LEMMA CrashInv ==
    ASSUME Inv, Crash
    PROVE  Inv'
  <1> USE DEF Crash
  <1>0. Moves /\ clip.count \in 0..MaxCopies /\ clip.count \in Nat /\ clip.item \in Items \union {None}
    BY ClipboardAssumption DEF Moves, Inv, ClipOk
  <1>1. Grows /\ DiskOk'
    <2>1. CASE UNCHANGED <<db, disk, gone>>
      BY <1>0, <2>1, Quiet, DiskSame
    <2>2. CASE loop # None /\ loop.read # None /\ Cut(Capture(loop.read))
      <3>1. ReadOk /\ loop.count \in 0..clip.count
        BY <2>2 DEF Inv, LoopOk
      <3>2. PICK item \in Items \union {None}, id \in Content \union {None} :
               /\ Took(loop.read, item, id) /\ Names(id, item, loop.count)
               /\ loop.count = clip.count => item \in {clip.item, None}
        BY <3>1 DEF ReadOk
      <3>3. Grows /\ Saved(item, id)
        BY <2>2, <3>2, CutGrows
      <3>4. PictureOf(item) # None => \/ id = PictureOf(item)
                                      \/ id \in 0..clip.count /\ (id = clip.count => item = clip.item)
        <4>1. PictureOf(item) # None => id \in {loop.count, PictureOf(item)} /\ item # None
          BY <3>2 DEF Names, PictureOf
        <4> QED BY <3>1, <3>2, <4>1
      <3> QED BY <1>0, <3>2, <3>3, <3>4, DiskStep
    <2>3. CASE Cut(Capture(OnScreen(clip.item)))
      <3>1. PICK item, id : item = clip.item /\ id = PictureOf(item)
        OBVIOUS
      <3>2. item \in Items \union {None} /\ Took(OnScreen(item), item, id)
        BY <1>0, <3>1, ScreenTook
      <3>3. Grows /\ Saved(item, id)
        BY <2>3, <3>1, <3>2, CutGrows
      <3> QED BY <1>0, <3>1, <3>2, <3>3, DiskStep
    <2>4. CASE panel.task # None /\ UNCHANGED disk /\ Stops(StepsOf(panel.task))
      BY <1>0, <2>4, TaskGrows, DiskSame
    <2> QED BY <2>1, <2>2, <2>3, <2>4
  <1>2. ClipOk'
    BY <1>0, ClipStep
  <1>3. SeenOk' /\ MarkOk' /\ LoopOk'
    <2>1. None \notin 0..MaxCopies
      BY ClipboardAssumption
    <2> QED BY <1>0, <2>1 DEF SeenOk, SeenRec, Told, Unseen, MarkOk, Marked, LoopOk
  <1>4. PanelOk'
    BY EmptyPanel DEF PanelOk
  <1> QED BY <1>1, <1>2, <1>3, <1>4 DEF Inv, Grows

\* The state stays within the invariant, whatever is copied, recorded, asked
\* for, cut short or started again.
THEOREM Invariance == Spec => []Inv
  <1>1. Init => Inv
    BY InitInv
  <1>2. Inv /\ [Next]_vars => Inv'
    <2> SUFFICES ASSUME Inv, [Next]_vars PROVE Inv'
      OBVIOUS
    <2>1. CASE Next
      BY <2>1, CopyInv, PollReadsInv, PollRecordInv, OpenPanelInv, PanelActionsInv, AsksInv, RunTaskInv, CrashInv DEF Next, Poll
    <2>2. CASE UNCHANGED vars
      <3>1. IsPanel(panel') /\ ShownOf(panel') \subseteq ShownOf(panel) \union db.rows
        BY <2>2 DEF Inv, PanelOk, vars
      <3> QED BY <2>2, <3>1, PanelInv DEF vars
    <2> QED BY <2>1, <2>2
  <1> QED BY <1>1, <1>2, PTL DEF Spec

\* (service.rs, data_source.rs, view) Whatever happens, the variables keep
\* their types, and the panel counts at least what it shows.
THEOREM TypeCorrect == Spec => []TypeOK
  <1> DEFINE Built == platform \in Platforms
  <1>2. Init => Built
    BY DEF Init
  <1>3. Built /\ [Next]_vars => Built'
    BY DEF Next, vars
  <1>1. Inv /\ Built => TypeOK
    <2> SUFFICES ASSUME Inv, Built PROVE TypeOK
      OBVIOUS
    <2> USE DEF Inv
    <2>1. clip.count \in 0..MaxCopies /\ clip.item \in Items \union {None} /\ MaxCopies \in Nat
      BY ClipboardAssumption DEF ClipOk
    <2>2. db.rows \subseteq Row /\ db.index \subseteq Nat /\ db.next \in Nat
      BY DEF Sound, DbShape
    <2>3. DOMAIN disk \subseteq Content /\ \A i \in DOMAIN disk : disk[i] \in Pictures \union {None}
      BY <2>1 DEF DiskOk, Content
    <2>4. \A form \in Forms : seen[form] \in Content \union {None}
      BY DEF SeenOk, SeenRec, Forms
    <2>5. panel.items \subseteq Row /\ panel.len >= Cardinality(panel.items)
      BY DEF PanelOk, IsPanel, PanelRec
    <2> QED BY <2>1, <2>2, <2>3, <2>4, <2>5 DEF TypeOK
  <1> HIDE DEF Built
  <1> QED BY <1>1, <1>2, <1>3, Invariance, PTL DEF Spec

\* (data_source.rs: add_item, delete, toggle_pin, prune_history) The table and
\* its full-text index stay in step through every command cut short.
THEOREM TablesAgree == Spec => []InStep
  <1>1. Inv => InStep
    BY DEF Inv, Sound, InStepOf, InStep
  <1> QED BY <1>1, Invariance, PTL

\* (service.rs: capture_snapshot, capture_current_if_changed) What was marked
\* as seen was recorded, whatever failed or crashed in between.
THEOREM SeenKept == Spec => []SeenIsKept
  <1>1. Inv => SeenIsKept
    <2> SUFFICES ASSUME Inv PROVE SeenIsKept
      OBVIOUS
    <2>1. Told(seen.files, Kept) /\ Told(seen.text, Kept)
      BY DEF Inv, SeenOk
    <2>2. Marked => Dealt(clip.item)
      BY DEF Inv, MarkOk
    <2>3. ASSUME Marked
          PROVE  HasIt(clip.item)
      <3>1. clip.item # None /\ Dealt(clip.item)
        BY <2>2, <2>3 DEF Marked
      <3>2. WordsOf(clip.item) \subseteq {Files[clip.item], Text[clip.item], PathsOf(Text[clip.item])}
        BY <3>1 DEF WordsOf, FilesOf, TextOf
      <3>3. PictureOf(clip.item) = Picture[clip.item]
        BY <3>1 DEF PictureOf
      <3> QED BY <3>1, <3>2, <3>3 DEF Dealt, HasIt
    <2> QED BY <2>1, <2>3 DEF SeenIsKept, Told
  <1> QED BY <1>1, Invariance, PTL

\* (view: toggle_selected_pin, delete_selected) The ids the panel shows and
\* works on stand for the items they were loaded for.
THEOREM SameItems == Spec => []SameItem
  <1>1. Inv => SameItem
    BY DEF Inv, PanelOk, ShownOf, Shown, Known, SameItem
  <1> QED BY <1>1, Invariance, PTL

-----------------------------------------------------------------------------
(* What a whole command does to the pinned items.                          *)

FaultCount == faults \in Nat

LEMMA FaultsCounted ==
    ASSUME FaultCount, [Next]_vars
    PROVE  FaultCount'
  <1> USE DEF Fault, FaultCount
  <1>1. CASE OpenPanel
    BY <1>1 DEF OpenPanel, CaptureCurrent, Failed, Unopened
  <1>2. CASE PollRecord
    BY <1>2 DEF PollRecord, Failed
  <1>3. CASE RunTask \/ Crash
    BY <1>3 DEF RunTask, Crash
  <1>4. CASE \/ Copy \/ PollCount \/ PollContent \/ ClosePanel \/ Search \/ Show \/ Prefetch
             \/ AskAboutRow \/ AskToToggle \/ EndTask
    BY <1>4 DEF Copy, PollCount, PollContent, Unopened, ClosePanel, Search, Show, Prefetch,
                AskAboutRow, AskToToggle, Ask, EndTask
  <1>5. CASE UNCHANGED vars
    BY <1>5 DEF vars
  <1> QED BY <1>1, <1>2, <1>3, <1>4, <1>5 DEF Next, Poll

LEMMA PinsUnmoved ==
    ASSUME db' = db
    PROVE  PinsStayIn(db, db')
  BY DEF PinsStayIn, ContentsOf

LEMMA PinsRecorded ==
    ASSUME Inv, NEW s, NEW item \in Items \union {None}, NEW id, Took(s, item, id), NEW count, Recorded(s, count)
    PROVE  PinsStayIn(db, db')
  <1>1. CaptureOk(Capture(s), s, item, id)
    BY Captures DEF Inv
  <1> QED BY <1>1 DEF CaptureOk, Recorded, Runs, Goes

LEMMA PinsStep ==
    ASSUME Inv, faults \in Nat, Next, faults' = faults
    PROVE  \/ PinsStayIn(db, db')
           \/ panel.task # None /\ panel.task.op # "config" /\ PinsStayBut(db, db', panel.task.row.id)
  <1>0. ~Fault
    BY DEF Fault
  <1>1. CASE OpenPanel
    <2>1. CASE db' = db
      BY <2>1, PinsUnmoved
    <2>2. CASE db' # db
      <3>1. PICK late \in {None} \union (IF clip.count < MaxCopies /\ More THEN Items ELSE {}) :
               Recorded(OnScreen(IF late = None THEN clip.item ELSE late), Count)
        BY <1>0, <1>1, <2>2 DEF OpenPanel, CaptureCurrent, Failed, Unopened
      <3>2. PICK item : item = IF late = None THEN clip.item ELSE late
        OBVIOUS
      <3>3. item \in Items \union {None}
        BY <3>2 DEF Inv, ClipOk
      <3>4. Took(OnScreen(item), item, PictureOf(item))
        BY <3>3, ScreenTook
      <3> QED BY <3>1, <3>2, <3>3, <3>4, PinsRecorded
    <2> QED BY <2>1, <2>2
  <1>2. CASE PollRecord
    <2>1. CASE db' = db
      BY <2>1, PinsUnmoved
    <2>2. CASE db' # db
      <3>1. Recorded(loop.read, loop.count) /\ loop # None /\ loop.read # None
        BY <1>0, <1>2, <2>2 DEF PollRecord, Failed
      <3>2. PICK item \in Items \union {None}, id \in Content \union {None} : Took(loop.read, item, id)
        BY <3>1 DEF Inv, LoopOk, ReadOk
      <3> QED BY <3>1, <3>2, PinsRecorded
    <2> QED BY <2>1, <2>2
  <1>3. CASE RunTask
    <2>1. PICK task : task = panel.task
      OBVIOUS
    <2>2. task # None /\ task \in TaskRec /\ Runs(StepsOf(task))
      BY <1>0, <1>3, <2>1 DEF RunTask, Inv, PanelOk, IsPanel, PanelRec
    <2>3. /\ task.op # "config" => PinsStayBut(db, StepsOf(task)[Len(StepsOf(task))], task.row.id)
          /\ task.op = "config" => StepsOf(task) = <<db>>
      BY <2>2, StepsGood DEF Inv
    <2>4. db' = StepsOf(task)[Len(StepsOf(task))]
      BY <2>2 DEF Runs, Goes
    <2>5. CASE task.op = "config"
      <3>1. PICK steps : steps = <<db>>
        OBVIOUS
      <3>2. steps[Len(steps)] = db
        BY <3>1
      <3> QED BY <2>3, <2>4, <2>5, <3>1, <3>2, PinsUnmoved
    <2>6. CASE task.op # "config"
      BY <2>1, <2>2, <2>3, <2>4, <2>6
    <2> QED BY <2>5, <2>6
  <1>4. CASE Crash
    BY <1>0, <1>4 DEF Crash
  <1>5. CASE \/ Copy \/ PollCount \/ PollContent \/ ClosePanel \/ Search \/ Show \/ Prefetch
             \/ AskAboutRow \/ AskToToggle \/ EndTask
    <2>1. db' = db
      BY <1>5 DEF Copy, PollCount, PollContent, ClosePanel, Search, Show, Prefetch,
                  AskAboutRow, AskToToggle, Ask, EndTask
    <2> QED BY <2>1, PinsUnmoved
  <1> QED BY <1>1, <1>2, <1>3, <1>4, <1>5 DEF Next, Poll

\* (data_source.rs: add_item, prune_history, toggle_pin) A pinned item stays,
\* pinned, through every command that runs to its end, but for the one that
\* the user asks to unpin or to delete it.
THEOREM PinsAreSafe == Spec => PinsStay
  <1>1. Init => FaultCount
    BY DEF Init, FaultCount
  <1>2. FaultCount /\ [Next]_vars => FaultCount'
    BY FaultsCounted
  <1>3. Inv /\ FaultCount /\ [Next]_vars => [
           \A r \in Pinned(db) :
             \/ r.content \in ContentsOf(Pinned(db)')
             \/ panel.task # None /\ panel.task.op # "config" /\ panel.task.row.id = r.id
             \/ faults' # faults]_vars
    <2> SUFFICES ASSUME Inv, FaultCount, Next, faults' = faults, NEW r \in Pinned(db)
                 PROVE  \/ r.content \in ContentsOf(Pinned(db)')
                        \/ panel.task # None /\ panel.task.op # "config" /\ panel.task.row.id = r.id
      OBVIOUS
    <2>1. \/ PinsStayIn(db, db')
          \/ panel.task # None /\ panel.task.op # "config" /\ PinsStayBut(db, db', panel.task.row.id)
      BY PinsStep DEF FaultCount
    <2>2. CASE PinsStayIn(db, db')
      BY <2>2 DEF PinsStayIn
    <2>3. CASE panel.task # None /\ panel.task.op # "config" /\ PinsStayBut(db, db', panel.task.row.id)
      BY <2>3 DEF PinsStayBut
    <2> QED BY <2>1, <2>2, <2>3
  <1> QED BY <1>1, <1>2, <1>3, Invariance, PTL DEF Spec, PinsStay
================================================================================

---------------------------- MODULE TextInput_proofs ----------------------------
(***************************************************************************)
(* Proofs about TextInput, for any characters, texts to paste, tab, mask    *)
(* and bounds: the two stacks of an input lead exactly through the          *)
(* documents there were.                                                    *)
(***************************************************************************)
EXTENDS TextInput, FiniteSetTheorems, SequenceTheorems, WellFoundedInduction, TLAPS

-----------------------------------------------------------------------------
(* Induction over a set of natural numbers, from the fact that the finite   *)
(* sets are well-founded under inclusion.                                   *)

LEMMA Induction ==
    ASSUME NEW S, 0 \in S, \A n \in Nat : n \in S => n + 1 \in S
    PROVE  Nat \subseteq S
  <1> SUFFICES ASSUME NEW n \in Nat, n \notin S PROVE FALSE
    OBVIOUS
  <1> DEFINE T == {0..k : k \in Nat \ S}
             R == StrictSubsetOrdering(Nat)
             F == FiniteSubsetsOf(Nat)
  <1>1. IsWellFoundedOn(R, F)
    BY FS_StrictSubsetOrderingWellFounded
  <1>2. T \subseteq F /\ T # {}
    <2>1. \A k \in Nat : 0..k \in SUBSET Nat /\ IsFiniteSet(0..k)
      BY FS_Interval
    <2> QED BY <2>1 DEF FiniteSubsetsOf
  <1>3. PICK x \in T : \A y \in T : <<y, x>> \notin R
    <2> HIDE DEF T, R, F
    <2> QED BY <1>1, <1>2, WFMin
  <1>4. PICK k \in Nat \ S : x = 0..k
    OBVIOUS
  <1>5. k # 0 /\ k - 1 \in Nat \ S
    OBVIOUS
  <1>6. <<0..(k - 1), x>> \in R
    <2>1. /\ 0..(k - 1) \subseteq 0..k /\ k \in 0..k /\ k \notin 0..(k - 1)
          /\ 0..k \subseteq Nat /\ 0..(k - 1) \subseteq Nat
      BY <1>4, <1>5
    <2>2. 0..(k - 1) # 0..k
      BY <2>1
    <2> QED BY <2>1, <2>2, <1>4 DEF StrictSubsetOrdering
  <1>7. 0..(k - 1) \in T
    BY <1>5
  <1> QED BY <1>3, <1>6, <1>7

\* The same up to a bound.
LEMMA InductionTo ==
    ASSUME NEW n \in Nat, NEW S, 0 \in S, \A k \in 0..n : k < n /\ k \in S => k + 1 \in S
    PROVE  0..n \subseteq S
  <1> DEFINE G == S \union {k \in Nat : k > n}
  <1>1. 0 \in G /\ \A k \in Nat : k \in G => k + 1 \in G
    OBVIOUS
  <1> HIDE DEF G
  <1>2. Nat \subseteq G
    BY <1>1, Induction
  <1> QED BY <1>2 DEF G

-----------------------------------------------------------------------------
(* Replacing a range of a text.                                            *)

Splice(t, m, n, new) == SubSeq(t, 1, m) \o new \o SubSeq(t, n + 1, Len(t))

\* Character by character.
IsSplice(g, t, m, n, new) ==
    /\ Len(g) = Len(t) - (n - m) + Len(new)
    /\ \A i \in 1..Len(g) : g[i] = IF i <= m THEN t[i]
                                   ELSE IF i <= m + Len(new) THEN new[i - m]
                                   ELSE t[i - Len(new) + (n - m)]

LEMMA Spliced ==
    ASSUME NEW C, NEW t \in Seq(C), NEW new \in Seq(C), NEW m \in Nat, NEW n \in Nat,
           m <= n, n <= Len(t)
    PROVE  Splice(t, m, n, new) \in Seq(C) /\ IsSplice(Splice(t, m, n, new), t, m, n, new)
  <1> DEFINE a == SubSeq(t, 1, m)
             b == SubSeq(t, n + 1, Len(t))
             h == a \o new
             g == h \o b
  <1>1. a \in Seq(C) /\ Len(a) = m /\ \A i \in 1..m : a[i] = t[i]
    BY SubSeqProperties
  <1>2. b \in Seq(C) /\ Len(b) = Len(t) - n /\ \A i \in 1..(Len(t) - n) : b[i] = t[n + i]
    <2>1. \A i \in (n + 1)..Len(t) : t[i] \in C
      OBVIOUS
    <2>2. /\ b \in Seq(C)
          /\ Len(b) = IF n + 1 <= Len(t) THEN Len(t) - (n + 1) + 1 ELSE 0
          /\ \A i \in 1..(Len(t) - (n + 1) + 1) : b[i] = t[n + 1 + i - 1]
      BY <2>1, SubSeqProperties
    <2> QED BY <2>2
  <1> HIDE DEF a, b
  <1>3. /\ h \in Seq(C) /\ Len(h) = Len(a) + Len(new)
        /\ \A i \in 1..(Len(a) + Len(new)) : h[i] = IF i <= Len(a) THEN a[i] ELSE new[i - Len(a)]
    BY <1>1, ConcatProperties
  <1> HIDE DEF h
  <1>4. /\ g \in Seq(C) /\ Len(g) = Len(h) + Len(b)
        /\ \A i \in 1..(Len(h) + Len(b)) : g[i] = IF i <= Len(h) THEN h[i] ELSE b[i - Len(h)]
    <2>1. h \in Seq(C) /\ b \in Seq(C)
      BY <1>2, <1>3
    <2> QED BY <2>1, ConcatProperties
  <1>5. g = Splice(t, m, n, new)
    BY DEF h, a, b, Splice
  <1> HIDE DEF g
  <1>6. Len(t) \in Nat /\ Len(new) \in Nat /\ Len(h) = m + Len(new)
    BY <1>1, <1>3
  <1>7. Len(g) = Len(t) - (n - m) + Len(new)
    BY <1>2, <1>4, <1>6
  <1>8. ASSUME NEW i \in 1..Len(g)
        PROVE  g[i] = IF i <= m THEN t[i]
                      ELSE IF i <= m + Len(new) THEN new[i - m]
                      ELSE t[i - Len(new) + (n - m)]
    <2>1. CASE i <= m
      <3>1. i \in 1..m /\ i <= Len(h) /\ i \in 1..(Len(a) + Len(new)) /\ i \in 1..(Len(h) + Len(b))
        BY <2>1, <1>1, <1>2, <1>4, <1>6
      <3> QED BY <3>1, <2>1, <1>1, <1>3, <1>4
    <2>2. CASE m < i /\ i <= m + Len(new)
      <3>1. i <= Len(h) /\ i \in 1..(Len(a) + Len(new)) /\ i \in 1..(Len(h) + Len(b)) /\ ~(i <= Len(a))
        BY <2>2, <1>1, <1>2, <1>4, <1>6
      <3> QED BY <3>1, <2>2, <1>1, <1>3, <1>4
    <2>3. CASE i > m + Len(new)
      <3>1. ~(i <= Len(h)) /\ i \in 1..(Len(h) + Len(b)) /\ i - Len(h) \in 1..(Len(t) - n)
        BY <2>3, <1>2, <1>4, <1>6
      <3>2. n + (i - Len(h)) = i - Len(new) + (n - m)
        BY <1>6
      <3>3. g[i] = t[n + (i - Len(h))]
        BY <3>1, <1>2, <1>4
      <3> QED BY <3>2, <3>3, <2>3, <1>6
    <2> QED BY <2>1, <2>2, <2>3, <1>6
  <1> QED BY <1>4, <1>5, <1>7, <1>8 DEF IsSplice

LEMMA Replaced ==
    ASSUME NEW t, NEW r, NEW new
    PROVE  Replace(t, r, new) = Splice(t, r.start, r.end, new)
  BY DEF Replace, Splice

LEMMA Sliced ==
    ASSUME NEW C, NEW t \in Seq(C), NEW m \in Nat, NEW n \in Nat, m <= n, n <= Len(t)
    PROVE  /\ SubSeq(t, m + 1, n) \in Seq(C) /\ Len(SubSeq(t, m + 1, n)) = n - m
           /\ \A i \in 1..(n - m) : SubSeq(t, m + 1, n)[i] = t[m + i]
  <1>1. \A i \in (m + 1)..n : t[i] \in C
    OBVIOUS
  <1>2. /\ SubSeq(t, m + 1, n) \in Seq(C)
        /\ Len(SubSeq(t, m + 1, n)) = IF m + 1 <= n THEN n - (m + 1) + 1 ELSE 0
        /\ \A i \in 1..(n - (m + 1) + 1) : SubSeq(t, m + 1, n)[i] = t[m + 1 + i - 1]
    BY <1>1, SubSeqProperties
  <1> QED BY <1>2

-----------------------------------------------------------------------------
(* A function defined by recursion over its arguments 0..n.                *)

Recurs(X, b, n, F) == \E g \in [0..n -> X] : g[0] = b /\ \A k \in 1..n : g[k] = F[k][g[k - 1]]

LEMMA Recursion ==
    ASSUME NEW X, NEW b \in X, NEW n \in Nat, NEW F \in [1..n -> [X -> X]]
    PROVE  Recurs(X, b, n, F)
  <1> DEFINE Starts(m) == {g \in [0..m -> X] : g[0] = b /\ \A k \in 1..m : g[k] = F[k][g[k - 1]]}
             S == {m \in 0..n : Starts(m) # {}}
  <1>1. 0 \in S
    <2>1. [k \in 0..0 |-> b] \in Starts(0)
      OBVIOUS
    <2> QED BY <2>1
  <1>2. ASSUME NEW m \in 0..n, m < n, m \in S PROVE m + 1 \in S
    <2>1. PICK g \in [0..m -> X] : g[0] = b /\ \A k \in 1..m : g[k] = F[k][g[k - 1]]
      BY <1>2
    <2> DEFINE h == [k \in 0..(m + 1) |-> IF k = m + 1 THEN F[k][g[m]] ELSE g[k]]
    <2>2. F[m + 1] \in [X -> X] /\ g[m] \in X
      BY <1>2
    <2>3. h \in [0..(m + 1) -> X]
      BY <2>2
    <2>4. h[0] = b /\ \A k \in 1..(m + 1) : h[k] = F[k][h[k - 1]]
      BY <2>1
    <2>5. h \in Starts(m + 1)
      BY <2>3, <2>4
    <2>6. m + 1 \in 0..n
      BY <1>2
    <2> HIDE DEF Starts, h
    <2> QED BY <2>5, <2>6
  <1> HIDE DEF S
  <1>3. 0..n \subseteq S
    BY <1>1, <1>2, InductionTo
  <1>4. n \in S
    BY <1>3
  <1> QED BY <1>4 DEF S, Recurs

-----------------------------------------------------------------------------
(* Changes.                                                                *)

\* Two texts with the same characters are the same.
LEMMA SameText ==
    ASSUME NEW C, NEW s \in Seq(C), NEW t \in Seq(C), Len(s) = Len(t),
           \A i \in 1..Len(s) : s[i] = t[i]
    PROVE  s = t
  BY SeqEqual

\* What was cut out, put back.
LEMMA PutBack ==
    ASSUME NEW C, NEW t \in Seq(C), NEW new \in Seq(C), NEW m \in Nat, NEW n \in Nat,
           m <= n, n <= Len(t)
    PROVE  Splice(Splice(t, m, n, new), m, m + Len(new), SubSeq(t, m + 1, n)) = t
  <1> DEFINE old == SubSeq(t, m + 1, n)
             u == Splice(t, m, n, new)
             v == Splice(u, m, m + Len(new), old)
  <1>1. /\ old \in Seq(C) /\ Len(old) = n - m /\ \A i \in 1..(n - m) : old[i] = t[m + i]
    BY Sliced
  <1>2. u \in Seq(C) /\ IsSplice(u, t, m, n, new)
    BY Spliced
  <1> HIDE DEF old, u
  <1>3. Len(t) \in Nat /\ Len(new) \in Nat /\ Len(u) \in Nat /\ m + Len(new) <= Len(u)
    BY <1>2 DEF IsSplice
  <1>4. v \in Seq(C) /\ IsSplice(v, u, m, m + Len(new), old)
    BY <1>1, <1>2, <1>3, Spliced
  <1> HIDE DEF v
  <1>5. Len(v) = Len(t)
    BY <1>1, <1>2, <1>3, <1>4 DEF IsSplice
  <1>6. ASSUME NEW i \in 1..Len(t) PROVE v[i] = t[i]
    <2>0. i \in 1..Len(v)
      BY <1>5
    <2>1. CASE i <= m
      <3>1. i \in 1..Len(u)
        BY <2>1, <1>3
      <3> QED BY <3>1, <2>0, <2>1, <1>2, <1>4 DEF IsSplice
    <2>2. CASE m < i /\ i <= n
      <3>1. ~(i <= m) /\ i <= m + Len(old)
        BY <2>2, <1>1
      <3>2. v[i] = old[i - m]
        BY <3>1, <2>0, <1>3, <1>4 DEF IsSplice
      <3>3. i - m \in 1..(n - m) /\ m + (i - m) = i
        BY <2>2
      <3> QED BY <3>2, <3>3, <1>1
    <2>3. CASE n < i
      <3> DEFINE j == i - (n - m) + Len(new)
      <3>1. ~(i <= m) /\ ~(i <= m + Len(old)) /\ i - Len(old) + ((m + Len(new)) - m) = j
        BY <2>3, <1>1, <1>3
      <3>2. v[i] = u[j]
        <4> HIDE DEF j
        <4> QED BY <3>1, <2>0, <1>4 DEF IsSplice
      <3>3. j \in 1..Len(u) /\ ~(j <= m) /\ ~(j <= m + Len(new)) /\ j - Len(new) + (n - m) = i
        BY <2>3, <1>2, <1>3 DEF IsSplice
      <3> HIDE DEF j
      <3>4. u[j] = t[j - Len(new) + (n - m)]
        BY <3>3, <1>2 DEF IsSplice
      <3> QED BY <3>2, <3>3, <3>4
    <2> QED BY <2>1, <2>2, <2>3
  <1>7. v = t
    BY <1>4, <1>5, <1>6, SameText
  <1> QED BY <1>7 DEF v, u, old

\* A change is one splice and its undo another.
LEMMA TurnsSpliced ==
    ASSUME NEW a, NEW b, NEW c, NEW C, c.start \in Nat, c.old \in Seq(C), c.new \in Seq(C)
    PROVE  Turns(a, c, b) <=>
             /\ c.start + Len(c.old) <= Len(a) /\ c.start + Len(c.new) <= Len(b)
             /\ Splice(a, c.start, c.start + Len(c.old), c.new) = b
             /\ Splice(b, c.start, c.start + Len(c.new), c.old) = a
  <1>1. \A t \in Seq(C) : LET r == Span(c.start, c.start + Len(t))
                          IN  r.start = c.start /\ r.end = c.start + Len(t)
    BY DEF Span
  <1> QED BY <1>1, Replaced DEF Turns

\* An edit of a range turns the text into what it leaves.
LEMMA EditTurns ==
    ASSUME NEW C, NEW t \in Seq(C), NEW new \in Seq(C), NEW m \in Nat, NEW n \in Nat,
           m <= n, n <= Len(t), NEW c, c.start = m, c.old = SubSeq(t, m + 1, n), c.new = new
    PROVE  Turns(t, c, Splice(t, m, n, new))
  <1> DEFINE u == Splice(t, m, n, new)
  <1>1. c.old \in Seq(C) /\ Len(c.old) = n - m
    BY Sliced
  <1>2. u \in Seq(C) /\ IsSplice(u, t, m, n, new)
    BY Spliced
  <1>3. Splice(u, m, m + Len(new), c.old) = t
    BY PutBack
  <1> HIDE DEF u
  <1>4. c.start + Len(c.old) = n /\ c.start + Len(c.new) <= Len(u)
    BY <1>1, <1>2 DEF IsSplice
  <1>5. Splice(t, c.start, c.start + Len(c.old), c.new) = u
    BY <1>4 DEF u
  <1>6. Turns(t, c, u)
    BY <1>1, <1>3, <1>4, <1>5, TurnsSpliced
  <1> QED BY <1>6 DEF u

\* So does a change that replaces the whole text.
LEMMA WholeTurns ==
    ASSUME NEW C, NEW t \in Seq(C), NEW u \in Seq(C), NEW c,
           c.start = 0, c.old = t, c.new = u
    PROVE  Turns(t, c, u)
  <1>1. \A x, y \in Seq(C) : Splice(x, 0, 0 + Len(x), y) = y
    <2> TAKE x, y \in Seq(C)
    <2>1. /\ Splice(x, 0, Len(x), y) \in Seq(C)
          /\ IsSplice(Splice(x, 0, Len(x), y), x, 0, Len(x), y)
      BY Spliced
    <2> DEFINE v == Splice(x, 0, Len(x), y)
    <2> HIDE DEF v
    <2>2. v \in Seq(C) /\ IsSplice(v, x, 0, Len(x), y)
      BY <2>1 DEF v
    <2>3. Len(v) = Len(y) /\ \A i \in 1..Len(v) : v[i] = y[i]
      BY <2>2 DEF IsSplice
    <2>4. v = y
      BY <2>2, <2>3, SameText
    <2> QED BY <2>4 DEF v
  <1>2. c.start + Len(c.old) <= Len(t) /\ c.start + Len(c.new) <= Len(u)
    OBVIOUS
  <1>3. Splice(t, c.start, c.start + Len(c.old), c.new) = u
    BY <1>1
  <1>4. Splice(u, c.start, c.start + Len(c.new), c.old) = t
    BY <1>1
  <1>5. c.start \in Nat /\ c.old \in Seq(C) /\ c.new \in Seq(C)
    OBVIOUS
  <1> QED BY <1>2, <1>3, <1>4, <1>5, TurnsSpliced

\* Writing over what was just written at the front.
LEMMA Over ==
    ASSUME NEW C, NEW a \in Seq(C), NEW y \in Seq(C), NEW z \in Seq(C), NEW k \in Nat, k <= Len(a)
    PROVE  Splice(Splice(a, 0, k, y), 0, Len(y), z) = Splice(a, 0, k, z)
  <1> DEFINE b == Splice(a, 0, k, y)
             u == Splice(b, 0, Len(y), z)
             v == Splice(a, 0, k, z)
  <1>1. b \in Seq(C) /\ IsSplice(b, a, 0, k, y)
    BY Spliced
  <1>2. v \in Seq(C) /\ IsSplice(v, a, 0, k, z)
    BY Spliced
  <1> HIDE DEF b, v
  <1>3. Len(a) \in Nat /\ Len(y) \in Nat /\ Len(z) \in Nat /\ Len(b) \in Nat /\ Len(y) <= Len(b)
    BY <1>1 DEF IsSplice
  <1>4. u \in Seq(C) /\ IsSplice(u, b, 0, Len(y), z)
    BY <1>1, <1>3, Spliced
  <1> HIDE DEF u
  <1>5. Len(u) = Len(v)
    BY <1>1, <1>2, <1>3, <1>4 DEF IsSplice
  <1>6. ASSUME NEW i \in 1..Len(u) PROVE u[i] = v[i]
    <2>1. i \in 1..Len(v)
      BY <1>5
    <2>2. CASE i <= Len(z)
      BY <2>1, <2>2, <1>2, <1>3, <1>4 DEF IsSplice
    <2>3. CASE Len(z) < i
      <3> DEFINE j == i - Len(z) + Len(y)
      <3>1. /\ ~(i <= 0) /\ ~(i <= 0 + Len(z)) /\ i - Len(z) + (Len(y) - 0) = j
            /\ j - Len(y) + (k - 0) = i - Len(z) + (k - 0)
        BY <2>3, <1>3
      <3>2. j \in 1..Len(b) /\ ~(j <= 0) /\ ~(j <= 0 + Len(y))
        BY <2>3, <1>1, <1>3, <1>4 DEF IsSplice
      <3> HIDE DEF j
      <3>3. u[i] = b[j]
        BY <3>1, <1>4 DEF IsSplice
      <3>4. b[j] = a[j - Len(y) + (k - 0)]
        BY <3>2, <1>1 DEF IsSplice
      <3>5. v[i] = a[i - Len(z) + (k - 0)]
        BY <3>1, <2>1, <1>2 DEF IsSplice
      <3> QED BY <3>1, <3>3, <3>4, <3>5
    <2> QED BY <2>2, <2>3, <1>3
  <1>7. u = v
    BY <1>2, <1>4, <1>5, <1>6, SameText
  <1> QED BY <1>7 DEF u, v, b

\* Typing on where the last typing ended.
LEMMA Along ==
    ASSUME NEW C, NEW a \in Seq(C), NEW y \in Seq(C), NEW z \in Seq(C), NEW m \in Nat, m <= Len(a)
    PROVE  Splice(Splice(a, m, m, y), m + Len(y), m + Len(y), z) = Splice(a, m, m, y \o z)
  <1> DEFINE b == Splice(a, m, m, y)
             e == m + Len(y)
             u == Splice(b, e, e, z)
             yz == y \o z
             v == Splice(a, m, m, yz)
  <1>0. /\ yz \in Seq(C) /\ Len(yz) = Len(y) + Len(z)
        /\ \A i \in 1..Len(yz) : yz[i] = IF i <= Len(y) THEN y[i] ELSE z[i - Len(y)]
    <2>1. y \o z \in Seq(C) /\ Len(y \o z) = Len(y) + Len(z)
      BY ConcatProperties
    <2>2. \A i \in 1..(Len(y) + Len(z)) : (y \o z)[i] = IF i <= Len(y) THEN y[i] ELSE z[i - Len(y)]
      BY ConcatProperties
    <2> QED BY <2>1, <2>2
  <1>1. b \in Seq(C) /\ IsSplice(b, a, m, m, y)
    BY Spliced
  <1> HIDE DEF yz
  <1>2. v \in Seq(C) /\ IsSplice(v, a, m, m, yz)
    BY <1>0, Spliced
  <1> HIDE DEF b, v
  <1>3. /\ Len(a) \in Nat /\ Len(y) \in Nat /\ Len(z) \in Nat /\ Len(b) \in Nat
        /\ e \in Nat /\ e <= Len(b) /\ e = m + Len(y)
    BY <1>1 DEF IsSplice
  <1>4. u \in Seq(C) /\ IsSplice(u, b, e, e, z)
    <2> HIDE DEF e
    <2> QED BY <1>1, <1>3, Spliced
  <1> HIDE DEF u
  <1>5. Len(u) = Len(v)
    BY <1>0, <1>1, <1>2, <1>3, <1>4 DEF IsSplice
  <1> HIDE DEF e
  <1>6. ASSUME NEW i \in 1..Len(u) PROVE u[i] = v[i]
    <2>1. i \in 1..Len(v)
      BY <1>5
    <2>2. CASE i <= m
      <3>1. i \in 1..Len(b) /\ i <= e
        BY <2>2, <1>3
      <3> QED BY <3>1, <2>1, <2>2, <1>1, <1>2, <1>4 DEF IsSplice
    <2>3. CASE m < i /\ i <= e
      <3>1. /\ i \in 1..Len(b) /\ ~(i <= m) /\ i <= m + Len(y) /\ i <= m + Len(yz)
            /\ i - m \in 1..Len(yz) /\ i - m <= Len(y)
        <4>1. i \in Nat /\ m \in Nat /\ Len(yz) = Len(y) + Len(z) /\ Len(z) \in Nat
          BY <1>0
        <4>2. e = m + Len(y) /\ e <= Len(b) /\ Len(b) \in Nat /\ Len(y) \in Nat
          BY <1>3
        <4> QED BY <2>3, <4>1, <4>2
      <3>2. u[i] = b[i] /\ b[i] = y[i - m]
        BY <3>1, <2>3, <1>1, <1>4 DEF IsSplice
      <3>3. v[i] = yz[i - m] /\ yz[i - m] = y[i - m]
        BY <3>1, <2>1, <1>0, <1>2 DEF IsSplice
      <3> QED BY <3>2, <3>3
    <2>4. CASE e < i /\ i <= e + Len(z)
      <3>1. /\ ~(i <= e) /\ ~(i <= m) /\ i <= m + Len(yz) /\ i - m \in 1..Len(yz)
            /\ ~(i - m <= Len(y)) /\ (i - m) - Len(y) = i - e
        BY <2>4, <1>0, <1>3
      <3>2. u[i] = z[i - e]
        BY <3>1, <2>4, <1>4 DEF IsSplice
      <3>3. v[i] = yz[i - m] /\ yz[i - m] = z[(i - m) - Len(y)]
        BY <3>1, <2>1, <1>0, <1>2 DEF IsSplice
      <3> QED BY <3>1, <3>2, <3>3
    <2>5. CASE e + Len(z) < i
      <3> DEFINE j == i - Len(z) + (e - e)
      <3>1. /\ ~(i <= e) /\ ~(i <= e + Len(z)) /\ ~(i <= m) /\ ~(i <= m + Len(yz))
            /\ j - Len(y) + (m - m) = i - Len(yz) + (m - m)
        BY <2>5, <1>0, <1>3
      <3>2. j \in 1..Len(b) /\ ~(j <= m) /\ ~(j <= m + Len(y))
        BY <2>5, <1>1, <1>3, <1>4 DEF IsSplice
      <3>3. u[i] = b[j]
        BY <3>1, <1>4 DEF IsSplice
      <3> HIDE DEF j
      <3>4. b[j] = a[j - Len(y) + (m - m)]
        BY <3>2, <1>1 DEF IsSplice
      <3>5. v[i] = a[i - Len(yz) + (m - m)]
        BY <3>1, <2>1, <1>2 DEF IsSplice
      <3> QED BY <3>1, <3>3, <3>4, <3>5
    <2> QED BY <2>2, <2>3, <2>4, <2>5, <1>3
  <1>7. u = v
    BY <1>2, <1>4, <1>5, <1>6, SameText
  <1> QED BY <1>7 DEF u, v, b, e, yz

Changes == [start : Nat, old : Text, new : Text]

\* A change that joins the one before it makes one change of the two.
LEMMA JoinedTurns ==
    ASSUME NEW a \in Text, NEW b \in Text, NEW d \in Text, NEW p \in Changes, NEW c \in Changes,
           Turns(a, p, b), Turns(b, c, d), GoesOn(p, c) \/ Remasks(p, c)
    PROVE  Joined(p, c) \in Changes /\ Turns(a, Joined(p, c), d)
  <1> DEFINE j == Joined(p, c)
  <1> USE DEF Text
  <1>1. /\ p.start \in Nat /\ p.old \in Text /\ p.new \in Text
        /\ c.start \in Nat /\ c.old \in Text /\ c.new \in Text
    BY DEF Changes
  <1>2. /\ p.start + Len(p.old) <= Len(a) /\ p.start + Len(p.new) <= Len(b)
        /\ Splice(a, p.start, p.start + Len(p.old), p.new) = b
        /\ Splice(b, p.start, p.start + Len(p.new), p.old) = a
    BY <1>1, TurnsSpliced
  <1>3. /\ c.start + Len(c.old) <= Len(b) /\ c.start + Len(c.new) <= Len(d)
        /\ Splice(b, c.start, c.start + Len(c.old), c.new) = d
        /\ Splice(d, c.start, c.start + Len(c.new), c.old) = b
    BY <1>1, TurnsSpliced
  <1>4. CASE GoesOn(p, c)
    <2> DEFINE m == p.start
               yz == p.new \o c.new
    <2>1. p.old = <<>> /\ c.old = <<>> /\ c.start = m + Len(p.new) /\ m \in Nat /\ m <= Len(a)
      BY <1>4, <1>1, <1>2 DEF GoesOn
    <2>2. yz \in Text
      BY <1>1, ConcatProperties
    <2>3. j = [p EXCEPT !.new = yz]
      BY <1>4 DEF Joined
    <2>4. j \in Changes /\ j.start = m /\ j.old = <<>> /\ j.new = yz
      <3> HIDE DEF j, yz
      <3> QED BY <2>1, <2>2, <2>3, <1>1 DEF Changes
    <2>5. b = Splice(a, m, m, p.new)
      BY <1>2, <2>1
    <2>6. d = Splice(b, m + Len(p.new), m + Len(p.new), c.new)
      <3>1. c.start + Len(c.old) = m + Len(p.new)
        BY <2>1, <1>1
      <3> QED BY <3>1, <2>1, <1>3
    <2>7. d = Splice(a, m, m, yz)
      <3>1. Splice(Splice(a, m, m, p.new), m + Len(p.new), m + Len(p.new), c.new)
              = Splice(a, m, m, p.new \o c.new)
        <4> DEFINE y == p.new
                   z == c.new
        <4>1. y \in Seq(Char) /\ z \in Seq(Char) /\ a \in Seq(Char) /\ m \in Nat /\ m <= Len(a)
          BY <2>1, <1>1
        <4> HIDE DEF m, y, z
        <4>2. Splice(Splice(a, m, m, y), m + Len(y), m + Len(y), z) = Splice(a, m, m, y \o z)
          BY <4>1, Along
        <4> QED BY <4>2 DEF y, z
      <3> QED BY <3>1, <2>5, <2>6
    <2>8. j.old = SubSeq(a, m + 1, m)
      <3>1. Len(SubSeq(a, m + 1, m)) = 0 /\ SubSeq(a, m + 1, m) \in Seq(Char)
        BY <2>1, Sliced
      <3> QED BY <3>1, <2>4, EmptySeq
    <2> HIDE DEF j, m, yz
    <2>9. Turns(a, j, Splice(a, m, m, yz))
      BY <2>1, <2>2, <2>4, <2>8, EditTurns
    <2> QED BY <2>4, <2>7, <2>9 DEF j
  <1>5. CASE ~GoesOn(p, c)
    <2>1. p.start = 0 /\ c.start = 0 /\ p.new = c.old
      BY <1>5 DEF Remasks
    <2>2. j = [p EXCEPT !.new = c.new]
      BY <1>5 DEF Joined
    <2>3. j \in Changes /\ j.start = 0 /\ j.old = p.old /\ j.new = c.new
      <3> HIDE DEF j
      <3> QED BY <2>1, <2>2, <1>1 DEF Changes
    <2>4. /\ Len(p.old) \in Nat /\ Len(p.old) <= Len(a)
          /\ Len(p.new) \in Nat /\ Len(p.new) <= Len(b)
          /\ Len(c.new) \in Nat /\ Len(c.new) <= Len(d)
      BY <1>1, <1>2, <1>3, <2>1
    <2>5. /\ b = Splice(a, 0, Len(p.old), p.new) /\ a = Splice(b, 0, Len(p.new), p.old)
          /\ d = Splice(b, 0, Len(p.new), c.new) /\ b = Splice(d, 0, Len(c.new), p.new)
      BY <1>1, <1>2, <1>3, <2>1, <2>4
    <2>6. Splice(Splice(a, 0, Len(p.old), p.new), 0, Len(p.new), c.new) = Splice(a, 0, Len(p.old), c.new)
      BY <1>1, <2>4, Over
    <2>7. Splice(Splice(d, 0, Len(c.new), p.new), 0, Len(p.new), p.old) = Splice(d, 0, Len(c.new), p.old)
      BY <1>1, <2>4, Over
    <2>8. Splice(a, 0, Len(p.old), c.new) = d /\ Splice(d, 0, Len(c.new), p.old) = a
      BY <2>5, <2>6, <2>7
    <2> HIDE DEF j
    <2>9. Turns(a, j, d)
      <3>1. j.start + Len(j.old) = Len(p.old) /\ j.start + Len(j.new) = Len(c.new)
        BY <2>3, <2>4
      <3>2. j.start \in Nat /\ j.old \in Seq(Char) /\ j.new \in Seq(Char)
        BY <2>3, <1>1
      <3>3. j.start + Len(j.old) <= Len(a) /\ j.start + Len(j.new) <= Len(d)
        BY <3>1, <2>4
      <3>4. Splice(a, j.start, j.start + Len(j.old), j.new) = d
        BY <3>1, <2>3, <2>8
      <3>5. Splice(d, j.start, j.start + Len(j.new), j.old) = a
        BY <3>1, <2>3, <2>8
      <3> QED BY <3>2, <3>3, <3>4, <3>5, TurnsSpliced
    <2> QED BY <2>3, <2>9 DEF j
  <1> QED BY <1>4, <1>5

-----------------------------------------------------------------------------
(* Stacks of changes that lead from document to document.                  *)

\* Undo's stack: us leads through the documents ps to doc.
Fits(ps, us, doc) ==
    /\ Len(ps) = Len(us)
    /\ \A i \in DOMAIN us : Turns(Append(ps, doc)[i], us[i], Append(ps, doc)[i + 1])

\* Redo's, whose changes lead away from doc.
FitsOn(fs, rs, doc) ==
    /\ Len(fs) = Len(rs)
    /\ \A i \in DOMAIN rs : Turns(Append(fs, doc)[i + 1], rs[i], Append(fs, doc)[i])

LEMMA HistoryIs == HistoryFits <=> interrupted \/ (Fits(past, undo, Document) /\ FitsOn(future, redo, Document))
  BY DEF HistoryFits, Fits, FitsOn

LEMMA Appended ==
    ASSUME NEW C, NEW s \in Seq(C), NEW x \in C
    PROVE  /\ Append(s, x) \in Seq(C) /\ Len(Append(s, x)) = Len(s) + 1
           /\ \A i \in 1..Len(s) : Append(s, x)[i] = s[i]
           /\ Append(s, x)[Len(s) + 1] = x
           /\ Len(s) \in Nat
  BY AppendProperties

LEMMA FrontLast ==
    ASSUME NEW C, NEW s \in Seq(C), s # <<>>
    PROVE  /\ Len(s) \in Nat \ {0}
           /\ Front(s) \in Seq(C) /\ Len(Front(s)) = Len(s) - 1
           /\ \A i \in 1..(Len(s) - 1) : Front(s)[i] = s[i]
           /\ Last(s) \in C /\ Last(s) = s[Len(s)]
           /\ Append(Front(s), Last(s)) = s
  <1>1. Len(s) \in Nat \ {0}
    BY EmptySeq
  <1>2. /\ Front(s) \in Seq(C) /\ Len(Front(s)) = Len(s) - 1
        /\ \A i \in 1..(Len(s) - 1) : Front(s)[i] = s[i]
    <2>1. 0 + 1 = 1 /\ (Len(s) - 1) - 0 = Len(s) - 1 /\ 0 \in Nat /\ Len(s) - 1 \in Nat
      BY <1>1
    <2>2. /\ SubSeq(s, 0 + 1, Len(s) - 1) \in Seq(C) /\ Len(SubSeq(s, 0 + 1, Len(s) - 1)) = (Len(s) - 1) - 0
          /\ \A i \in 1..((Len(s) - 1) - 0) : SubSeq(s, 0 + 1, Len(s) - 1)[i] = s[0 + i]
      BY <1>1, <2>1, Sliced
    <2>3. /\ SubSeq(s, 1, Len(s) - 1) \in Seq(C) /\ Len(SubSeq(s, 1, Len(s) - 1)) = Len(s) - 1
          /\ \A i \in 1..(Len(s) - 1) : SubSeq(s, 1, Len(s) - 1)[i] = s[i]
      BY <2>1, <2>2
    <2> QED BY <2>3 DEF Front
  <1>3. Last(s) \in C /\ Last(s) = s[Len(s)]
    BY <1>1 DEF Last
  <1>4. Append(Front(s), Last(s)) = s
    <2> DEFINE t == Append(Front(s), Last(s))
    <2>1. /\ t \in Seq(C) /\ Len(t) = Len(Front(s)) + 1
          /\ \A i \in 1..Len(Front(s)) : t[i] = Front(s)[i]
          /\ t[Len(Front(s)) + 1] = Last(s)
      BY <1>2, <1>3, Appended
    <2> HIDE DEF t
    <2>2. Len(t) = Len(s) /\ \A i \in 1..Len(t) : t[i] = s[i]
      BY <2>1, <1>1, <1>2, <1>3
    <2>3. t = s
      BY <2>1, <2>2, SameText
    <2> QED BY <2>3 DEF t
  <1> QED BY <1>1, <1>2, <1>3, <1>4

LEMMA FitsPush ==
    ASSUME NEW ps \in Seq(Text), NEW us \in Seq(Changes), NEW a \in Text, NEW b \in Text,
           NEW c \in Changes, Fits(ps, us, a), Turns(a, c, b)
    PROVE  Fits(Append(ps, a), Append(us, c), b)
  <1> DEFINE qs == Append(ps, a)
             vs == Append(us, c)
             n  == Len(us)
  <1>1. /\ qs \in Seq(Text) /\ Len(qs) = n + 1 /\ qs[n + 1] = a /\ n \in Nat /\ Len(ps) = n
        /\ \A i \in 1..n : qs[i] = ps[i]
    BY Appended DEF Fits
  <1>2. vs \in Seq(Changes) /\ Len(vs) = n + 1 /\ vs[n + 1] = c /\ \A i \in 1..n : vs[i] = us[i]
    BY Appended
  <1> HIDE DEF qs, vs
  <1>3. Len(Append(qs, b)) = n + 2 /\ Append(qs, b)[n + 2] = b /\ \A i \in 1..(n + 1) : Append(qs, b)[i] = qs[i]
    BY <1>1, Appended
  <1>4. ASSUME NEW i \in 1..(n + 1) PROVE Turns(Append(qs, b)[i], vs[i], Append(qs, b)[i + 1])
    <2>1. CASE i = n + 1
      BY <2>1, <1>1, <1>2, <1>3
    <2>2. CASE i # n + 1
      <3>1. i \in 1..n /\ i + 1 \in 1..(n + 1)
        BY <2>2, <1>1
      <3>2. i \in DOMAIN us
        BY <3>1
      <3>3. Turns(qs[i], us[i], qs[i + 1])
        BY <3>2 DEF Fits, qs
      <3> QED BY <3>1, <3>3, <1>2, <1>3
    <2> QED BY <2>1, <2>2
  <1>5. DOMAIN vs = 1..(n + 1)
    BY <1>2
  <1>6. Fits(qs, vs, b)
    BY <1>1, <1>2, <1>4, <1>5 DEF Fits
  <1> QED BY <1>6 DEF qs, vs

LEMMA FitsPop ==
    ASSUME NEW ps \in Seq(Text), NEW us \in Seq(Changes), NEW b \in Text,
           Fits(ps, us, b), us # <<>>
    PROVE  /\ ps # <<>> /\ Turns(Last(ps), Last(us), b)
           /\ Fits(Front(ps), Front(us), Last(ps))
  <1> DEFINE n == Len(us)
             as == Append(ps, b)
             qs == Front(ps)
             vs == Front(us)
  <1>1. n \in Nat \ {0} /\ Len(ps) = n /\ ps # <<>>
    <2>1. n \in Nat \ {0}
      BY FrontLast
    <2>2. Len(ps) = n
      BY DEF Fits
    <2> QED BY <2>1, <2>2, EmptySeq
  <1>2. vs \in Seq(Changes) /\ Len(vs) = n - 1 /\ Last(us) = us[n] /\ \A i \in 1..(n - 1) : vs[i] = us[i]
    BY FrontLast
  <1>3. qs \in Seq(Text) /\ Len(qs) = n - 1 /\ Append(qs, Last(ps)) = ps /\ Last(ps) = ps[n]
    BY <1>1, FrontLast
  <1>4. /\ \A i \in 1..n : as[i] = ps[i]
        /\ as[n + 1] = b
    BY <1>1, Appended
  <1>5. \A i \in 1..n : Turns(as[i], us[i], as[i + 1])
    BY DEF Fits
  <1> HIDE DEF as, qs, vs
  <1>6. Turns(Last(ps), Last(us), b)
    <2>1. n \in 1..n
      BY <1>1
    <2> HIDE DEF n
    <2>2. Turns(as[n], us[n], as[n + 1])
      BY <2>1, <1>5
    <2> QED BY <2>1, <2>2, <1>2, <1>3, <1>4
  <1>7. ASSUME NEW i \in 1..(n - 1) PROVE Turns(ps[i], vs[i], ps[i + 1])
    <2>1. i \in 1..n /\ i + 1 \in 1..n
      BY <1>1
    <2> QED BY <2>1, <1>2, <1>4, <1>5
  <1>8. DOMAIN vs = 1..(n - 1)
    BY <1>2
  <1>9. Fits(qs, vs, Last(ps))
    BY <1>2, <1>3, <1>7, <1>8 DEF Fits
  <1> QED BY <1>1, <1>6, <1>9 DEF qs, vs

LEMMA OnPush ==
    ASSUME NEW ps \in Seq(Text), NEW us \in Seq(Changes), NEW a \in Text, NEW b \in Text,
           NEW c \in Changes, FitsOn(ps, us, a), Turns(b, c, a)
    PROVE  FitsOn(Append(ps, a), Append(us, c), b)
  <1> DEFINE qs == Append(ps, a)
             vs == Append(us, c)
             n  == Len(us)
  <1>1. /\ qs \in Seq(Text) /\ Len(qs) = n + 1 /\ qs[n + 1] = a /\ n \in Nat /\ Len(ps) = n
        /\ \A i \in 1..n : qs[i] = ps[i]
    BY Appended DEF FitsOn
  <1>2. vs \in Seq(Changes) /\ Len(vs) = n + 1 /\ vs[n + 1] = c /\ \A i \in 1..n : vs[i] = us[i]
    BY Appended
  <1> HIDE DEF qs, vs
  <1>3. Len(Append(qs, b)) = n + 2 /\ Append(qs, b)[n + 2] = b /\ \A i \in 1..(n + 1) : Append(qs, b)[i] = qs[i]
    BY <1>1, Appended
  <1>4. ASSUME NEW i \in 1..(n + 1) PROVE Turns(Append(qs, b)[i + 1], vs[i], Append(qs, b)[i])
    <2>1. CASE i = n + 1
      BY <2>1, <1>1, <1>2, <1>3
    <2>2. CASE i # n + 1
      <3>1. i \in 1..n /\ i + 1 \in 1..(n + 1)
        BY <2>2, <1>1
      <3>2. i \in DOMAIN us
        BY <3>1
      <3>3. Turns(qs[i + 1], us[i], qs[i])
        BY <3>2 DEF FitsOn, qs
      <3> QED BY <3>1, <3>3, <1>2, <1>3
    <2> QED BY <2>1, <2>2
  <1>5. DOMAIN vs = 1..(n + 1)
    BY <1>2
  <1>6. FitsOn(qs, vs, b)
    BY <1>1, <1>2, <1>4, <1>5 DEF FitsOn
  <1> QED BY <1>6 DEF qs, vs

LEMMA OnPop ==
    ASSUME NEW ps \in Seq(Text), NEW us \in Seq(Changes), NEW b \in Text,
           FitsOn(ps, us, b), us # <<>>
    PROVE  /\ ps # <<>> /\ Turns(b, Last(us), Last(ps))
           /\ FitsOn(Front(ps), Front(us), Last(ps))
  <1> DEFINE n == Len(us)
             as == Append(ps, b)
             qs == Front(ps)
             vs == Front(us)
  <1>1. n \in Nat \ {0} /\ Len(ps) = n /\ ps # <<>>
    <2>1. n \in Nat \ {0}
      BY FrontLast
    <2>2. Len(ps) = n
      BY DEF FitsOn
    <2> QED BY <2>1, <2>2, EmptySeq
  <1>2. vs \in Seq(Changes) /\ Len(vs) = n - 1 /\ Last(us) = us[n] /\ \A i \in 1..(n - 1) : vs[i] = us[i]
    BY FrontLast
  <1>3. qs \in Seq(Text) /\ Len(qs) = n - 1 /\ Append(qs, Last(ps)) = ps /\ Last(ps) = ps[n]
    BY <1>1, FrontLast
  <1>4. /\ \A i \in 1..n : as[i] = ps[i]
        /\ as[n + 1] = b
    BY <1>1, Appended
  <1>5. \A i \in 1..n : Turns(as[i + 1], us[i], as[i])
    BY DEF FitsOn
  <1> HIDE DEF as, qs, vs
  <1>6. Turns(b, Last(us), Last(ps))
    <2>1. n \in 1..n
      BY <1>1
    <2> HIDE DEF n
    <2>2. Turns(as[n + 1], us[n], as[n])
      BY <2>1, <1>5
    <2> QED BY <2>1, <2>2, <1>2, <1>3, <1>4
  <1>7. ASSUME NEW i \in 1..(n - 1) PROVE Turns(ps[i + 1], vs[i], ps[i])
    <2>1. i \in 1..n /\ i + 1 \in 1..n
      BY <1>1
    <2> QED BY <2>1, <1>2, <1>4, <1>5
  <1>8. DOMAIN vs = 1..(n - 1)
    BY <1>2
  <1>9. FitsOn(qs, vs, Last(ps))
    BY <1>2, <1>3, <1>7, <1>8 DEF FitsOn
  <1> QED BY <1>1, <1>6, <1>9 DEF qs, vs

\* Typing that joins the change on top leaves the documents below it.
LEMMA FitsJoin ==
    ASSUME NEW ps \in Seq(Text), NEW us \in Seq(Changes), NEW b \in Text, NEW d \in Text,
           NEW c \in Changes, Fits(ps, us, b), us # <<>>, Turns(b, c, d),
           GoesOn(Last(us), c) \/ Remasks(Last(us), c)
    PROVE  /\ Joined(Last(us), c) \in Changes /\ ps # <<>>
           /\ Fits(ps, Append(Front(us), Joined(Last(us), c)), d)
  <1>1. ps # <<>> /\ Turns(Last(ps), Last(us), b) /\ Fits(Front(ps), Front(us), Last(ps))
    BY FitsPop
  <1>2. Last(ps) \in Text /\ Front(ps) \in Seq(Text) /\ Append(Front(ps), Last(ps)) = ps
    BY <1>1, FrontLast
  <1>3. Last(us) \in Changes /\ Front(us) \in Seq(Changes)
    BY FrontLast
  <1>4. Joined(Last(us), c) \in Changes /\ Turns(Last(ps), Joined(Last(us), c), d)
    BY <1>1, <1>2, <1>3, JoinedTurns
  <1>5. Fits(Append(Front(ps), Last(ps)), Append(Front(us), Joined(Last(us), c)), d)
    BY <1>1, <1>2, <1>3, <1>4, FitsPush
  <1> QED BY <1>1, <1>2, <1>4, <1>5

\* Several changes, one after the other: g are the documents between them.
LEMMA FitsAll ==
    ASSUME NEW ps \in Seq(Text), NEW us \in Seq(Changes), NEW cs \in Seq(Changes),
           NEW g \in [0..Len(cs) -> Text], Fits(ps, us, g[0]),
           \A k \in 1..Len(cs) : Turns(g[k - 1], cs[k], g[k])
    PROVE  Fits(ps \o [k \in DOMAIN cs |-> g[k - 1]], us \o cs, g[Len(cs)])
  <1> DEFINE N == Len(cs)
             n == Len(us)
             ds == [k \in DOMAIN cs |-> g[k - 1]]
             qs == ps \o ds
             vs == us \o cs
             as == Append(qs, g[N])
             bs == Append(ps, g[0])
  <1>1. N \in Nat /\ n \in Nat /\ Len(ps) = n /\ DOMAIN cs = 1..N /\ DOMAIN us = 1..n
    BY DEF Fits
  <1>2. ds \in Seq(Text) /\ Len(ds) = N /\ \A k \in 1..N : ds[k] = g[k - 1]
    <2>1. ASSUME NEW k \in 1..N PROVE g[k - 1] \in Text
      <3>1. k - 1 \in 0..Len(cs)
        BY <1>1
      <3> QED BY <3>1
    <2>2. ds = [k \in 1..N |-> g[k - 1]]
      BY <1>1
    <2> HIDE DEF N
    <2>3. [k \in 1..N |-> g[k - 1]] \in Seq(Text) /\ Len([k \in 1..N |-> g[k - 1]]) = N
      BY <1>1, <2>1, IsASeq
    <2> QED BY <2>2, <2>3
  <1> HIDE DEF ds
  <1>3. /\ qs \in Seq(Text) /\ Len(qs) = n + N
        /\ \A i \in 1..(n + N) : qs[i] = IF i <= n THEN ps[i] ELSE ds[i - n]
    <2>1. qs \in Seq(Text) /\ Len(qs) = Len(ps) + Len(ds)
      BY <1>2, ConcatProperties
    <2>2. \A i \in 1..(Len(ps) + Len(ds)) : qs[i] = IF i <= Len(ps) THEN ps[i] ELSE ds[i - Len(ps)]
      BY <1>2, ConcatProperties
    <2> QED BY <1>1, <1>2, <2>1, <2>2
  <1>4. /\ vs \in Seq(Changes) /\ Len(vs) = n + N
        /\ \A i \in 1..(n + N) : vs[i] = IF i <= n THEN us[i] ELSE cs[i - n]
    <2>1. vs \in Seq(Changes) /\ Len(vs) = Len(us) + Len(cs)
      BY ConcatProperties
    <2>2. \A i \in 1..(Len(us) + Len(cs)) : vs[i] = IF i <= Len(us) THEN us[i] ELSE cs[i - Len(us)]
      BY ConcatProperties
    <2> QED BY <2>1, <2>2
  <1> HIDE DEF qs, vs
  <1>5. g[N] \in Text /\ g[0] \in Text
    BY <1>1
  <1>6. as[n + N + 1] = g[N] /\ \A i \in 1..(n + N) : as[i] = qs[i]
    BY <1>3, <1>5, Appended
  <1>7. bs[n + 1] = g[0] /\ \A i \in 1..n : bs[i] = ps[i]
    BY <1>1, <1>5, Appended
  <1>8. \A i \in 1..n : Turns(bs[i], us[i], bs[i + 1])
    BY <1>1 DEF Fits
  <1> HIDE DEF as, bs, n, N
  <1>9. \A i \in 1..(n + 1) : as[i] = bs[i]
    <2> TAKE i \in 1..(n + 1)
    <2>1. CASE i <= n
      <3>1. i \in 1..n /\ i \in 1..(n + N)
        BY <2>1, <1>1
      <3> QED BY <3>1, <2>1, <1>3, <1>6, <1>7
    <2>2. CASE i = n + 1 /\ N = 0
      <3>1. n + N + 1 = i
        BY <2>2, <1>1
      <3> QED BY <3>1, <2>2, <1>6, <1>7
    <2>3. CASE i = n + 1 /\ N > 0
      <3>1. n + 1 \in 1..(n + N) /\ (n + 1) - n = 1 /\ 1 \in 1..N /\ ~(n + 1 <= n)
        BY <2>3, <1>1
      <3>2. as[n + 1] = ds[1] /\ ds[1] = g[1 - 1]
        BY <3>1, <1>2, <1>3, <1>6
      <3> QED BY <2>3, <3>2, <1>7
    <2>4. i <= n \/ (i = n + 1 /\ N = 0) \/ (i = n + 1 /\ N > 0)
      BY <1>1
    <2> QED BY <2>1, <2>2, <2>3, <2>4
  <1>10. ASSUME NEW k \in 0..N PROVE as[n + k + 1] = g[k]
    <2>1. CASE k = N
      BY <2>1, <1>6
    <2>2. CASE k # N
      <3> DEFINE j == n + k + 1
                 e == k + 1
      <3>1. j \in 1..(n + N) /\ ~(j <= n) /\ j - n = e /\ e \in 1..N /\ e - 1 = k
        BY <2>2, <1>1
      <3> HIDE DEF j, e
      <3>2. as[j] = qs[j] /\ qs[j] = ds[e]
        BY <3>1, <1>3, <1>6
      <3>3. ds[e] = g[k]
        BY <3>1, <1>2
      <3> QED BY <3>2, <3>3 DEF j
    <2> QED BY <2>1, <2>2
  <1>11. ASSUME NEW i \in 1..(n + N) PROVE Turns(as[i], vs[i], as[i + 1])
    <2>1. CASE i <= n
      <3>1. i \in 1..n /\ i \in 1..(n + 1) /\ i + 1 \in 1..(n + 1)
        BY <2>1, <1>1
      <3> QED BY <3>1, <2>1, <1>4, <1>8, <1>9
    <2>2. CASE n < i
      <3> DEFINE k == i - n
      <3>1. /\ k \in 1..N /\ k - 1 \in 0..N /\ k \in 0..N /\ n + (k - 1) + 1 = i /\ n + k + 1 = i + 1
            /\ ~(i <= n)
        BY <2>2, <1>1
      <3>2. vs[i] = cs[k]
        BY <3>1, <1>4
      <3> HIDE DEF k
      <3>3. as[i] = g[k - 1]
        BY <3>1, <1>10
      <3>4. as[i + 1] = g[k]
        BY <3>1, <1>10
      <3>5. Turns(g[k - 1], cs[k], g[k])
        BY <3>1 DEF N
      <3> QED BY <3>2, <3>3, <3>4, <3>5
    <2>3. i <= n \/ n < i
      BY <1>1
    <2> QED BY <2>1, <2>2, <2>3
  <1>12. DOMAIN vs = 1..(n + N) /\ Len(vs) = Len(qs)
    BY <1>3, <1>4
  <1>13. Fits(qs, vs, g[N])
    BY <1>11, <1>12 DEF Fits, as
  <1> QED BY <1>13 DEF qs, vs, ds, N

-----------------------------------------------------------------------------
(* The operators defined by recursion.                                     *)

\* The texts between the changes that one command makes.
LEMMA LinesAre ==
    ASSUME NEW cs, Len(cs) \in Nat
    PROVE  /\ DOMAIN LinesAfter(cs) = 0..Len(cs) /\ LinesAfter(cs)[0] = text
           /\ LinesAfter(cs) = [k \in 0..Len(cs) |-> LinesAfter(cs)[k]]
           /\ \A k \in 1..Len(cs) : LinesAfter(cs)[k] = Applied(LinesAfter(cs)[k - 1], cs[k])
  <1> DEFINE n == Len(cs)
             Is(g, m) == g = [k \in 0..m |-> IF k = 0 THEN text ELSE Applied(g[k - 1], cs[k])]
             S == {m \in 0..n : \E g : Is(g, m)}
  <1>1. 0 \in S
    <2>1. Is([k \in 0..0 |-> text], 0)
      OBVIOUS
    <2> HIDE DEF Is
    <2> QED BY <2>1
  <1>2. ASSUME NEW m \in 0..n, m < n, m \in S PROVE m + 1 \in S
    <2>1. PICK g : Is(g, m)
      BY <1>2
    <2> DEFINE h == [k \in 0..(m + 1) |-> IF k = m + 1 THEN Applied(g[m], cs[m + 1]) ELSE g[k]]
               hh == [k \in 0..(m + 1) |-> IF k = 0 THEN text ELSE Applied(h[k - 1], cs[k])]
    <2>2. ASSUME NEW k \in 0..(m + 1) PROVE h[k] = hh[k]
      <3>1. CASE k = 0
        <4>1. 0 \in 0..m /\ g[0] = text /\ m + 1 # 0
          BY <1>2, <2>1
        <4> QED BY <3>1, <4>1
      <3>2. CASE k \in 1..m
        <4>1. k \in 0..m /\ k # m + 1 /\ k - 1 \in 0..(m + 1) /\ k - 1 # m + 1 /\ k # 0
          BY <3>2
        <4>2. g[k] = Applied(g[k - 1], cs[k])
          BY <2>1, <4>1
        <4>3. h[k] = g[k] /\ h[k - 1] = g[k - 1] /\ hh[k] = Applied(h[k - 1], cs[k])
          BY <4>1
        <4> QED BY <4>2, <4>3
      <3>3. CASE k = m + 1
        <4>1. m \in 0..(m + 1) /\ m # m + 1 /\ (m + 1) - 1 = m /\ m + 1 # 0
          BY <1>2
        <4>2. h[m + 1] = Applied(g[m], cs[m + 1]) /\ h[m] = g[m]
          BY <4>1
        <4>3. hh[m + 1] = Applied(h[(m + 1) - 1], cs[m + 1])
          BY <4>1
        <4> QED BY <3>3, <4>1, <4>2, <4>3
      <3> QED BY <3>1, <3>2, <3>3, <1>2
    <2>3. Is(h, m + 1)
      BY <2>2
    <2> HIDE DEF Is, h
    <2>4. m + 1 \in 0..n
      BY <1>2
    <2> QED BY <2>3, <2>4
  <1> HIDE DEF S
  <1>3. 0..n \subseteq S
    BY <1>1, <1>2, InductionTo
  <1>4. n \in S
    BY <1>3
  <1>5. PICK g : Is(g, n)
    BY <1>4 DEF S
  <1>6. LinesAfter(cs) = CHOOSE h : Is(h, n)
    BY DEF LinesAfter
  <1> HIDE DEF Is
  <1>7. Is(LinesAfter(cs), n)
    BY <1>5, <1>6
  <1> QED BY <1>7 DEF Is

LEMMA Flattened ==
    ASSUME NEW C, NEW s \in Seq(Seq(C))
    PROVE  FlattenSeq(s) \in Seq(C)
  <1>1. CASE Len(s) = 0
    <2>1. s = <<>>
      BY <1>1, EmptySeq
    <2> QED BY <1>1, <2>1 DEF FlattenSeq
  <1>2. CASE Len(s) # 0
    <2> DEFINE n == Len(s)
               F == [k \in 1..n |-> [x \in Seq(C) |-> IF k = 1 THEN s[1] ELSE x \o s[k]]]
               Is(f) == f = [i \in 1..n |-> IF i = 1 THEN s[i] ELSE f[i - 1] \o s[i]]
    <2>1. n \in Nat \ {0} /\ \A k \in 1..n : s[k] \in Seq(C)
      BY <1>2
    <2>2. F \in [1..n -> [Seq(C) -> Seq(C)]]
      <3>1. \A k \in 1..n, x \in Seq(C) : (IF k = 1 THEN s[1] ELSE x \o s[k]) \in Seq(C)
        BY <2>1, ConcatProperties
      <3> QED BY <3>1
    <2>3. <<>> \in Seq(C)
      OBVIOUS
    <2>4. PICK g \in [0..n -> Seq(C)] : g[0] = <<>> /\ \A k \in 1..n : g[k] = F[k][g[k - 1]]
      <3> DEFINE X == Seq(C)
                 b == <<>>
      <3>1. n \in Nat /\ b \in X /\ F \in [1..n -> [X -> X]]
        BY <2>1, <2>2, <2>3
      <3> HIDE DEF F, n, X, b
      <3>2. Recurs(X, b, n, F)
        BY <3>1, Recursion
      <3> QED BY <3>2 DEF Recurs, X, b
    <2> DEFINE f == [k \in 1..n |-> g[k]]
    <2>5. Is(f)
      <3>1. ASSUME NEW k \in 1..n PROVE f[k] = IF k = 1 THEN s[k] ELSE f[k - 1] \o s[k]
        <4>1. g[k] = F[k][g[k - 1]] /\ g[k - 1] \in Seq(C)
          <5>1. k - 1 \in 0..n
            BY <2>1
          <5> HIDE DEF F, n
          <5> QED BY <2>4, <5>1
        <4>2. g[k] = IF k = 1 THEN s[1] ELSE g[k - 1] \o s[k]
          BY <4>1
        <4>3. k # 1 => k - 1 \in 1..n
          OBVIOUS
        <4> QED BY <4>2, <4>3
      <3> QED BY <3>1
    <2> DEFINE h == CHOOSE x : Is(x)
    <2> HIDE DEF f
    <2>6. Is(h)
      <3> HIDE DEF Is
      <3> QED BY <2>5
    <2>7. FlattenSeq(s) = h[n]
      BY <1>2 DEF FlattenSeq
    <2> HIDE DEF h
    <2>8. ASSUME NEW k \in 0..n, k < n, k = 0 \/ h[k] \in Seq(C) PROVE h[k + 1] \in Seq(C)
      <3>1. k + 1 \in 1..n /\ (k + 1) - 1 = k /\ (k + 1 = 1 <=> k = 0)
        BY <2>8, <2>1
      <3>2. h[k + 1] = IF k + 1 = 1 THEN s[k + 1] ELSE h[(k + 1) - 1] \o s[k + 1]
        BY <3>1, <2>6
      <3>3. s[k + 1] \in Seq(C)
        BY <2>1, <3>1
      <3> QED BY <2>8, <3>1, <3>2, <3>3, ConcatProperties
    <2> DEFINE S == {k \in 0..n : k = 0 \/ h[k] \in Seq(C)}
    <2>9. 0..n \subseteq S
      <3> HIDE DEF n
      <3>1. 0 \in S
        BY <2>1
      <3>2. \A k \in 0..n : k < n /\ k \in S => k + 1 \in S
        BY <2>8, <2>1
      <3> HIDE DEF S
      <3> QED BY <2>1, <3>1, <3>2, InductionTo
    <2>10. n \in S
      BY <2>9, <2>1
    <2> QED BY <2>1, <2>7, <2>10
  <1> QED BY <1>1, <1>2

\* The least of some positions is one of them.
LEMMA LeastOne ==
    ASSUME NEW n \in Nat, NEW I \in SUBSET (1..n), I # {}
    PROVE  (CHOOSE x \in I : \A y \in I : x <= y) \in I
  <1> DEFINE S == {k \in Nat : (\E x \in I : x <= k) => \E x \in I : \A y \in I : x <= y}
  <1>1. 0 \in S
    OBVIOUS
  <1>2. ASSUME NEW k \in Nat, k \in S PROVE k + 1 \in S
    <2>1. CASE \E x \in I : x <= k
      BY <1>2, <2>1
    <2>2. CASE ~\E x \in I : x <= k
      BY <2>2
    <2> QED BY <2>1, <2>2
  <1> HIDE DEF S
  <1>3. Nat \subseteq S
    BY <1>1, <1>2, Induction
  <1>4. n \in S
    BY <1>3
  <1>5. \E x \in I : \A y \in I : x <= y
    <2>1. PICK x \in I : x \in 1..n
      OBVIOUS
    <2>2. \E y \in I : y <= n
      BY <2>1
    <2> QED BY <1>4, <2>2 DEF S
  <1> QED BY <1>5

Increasing(s) == \A i, j \in 1..Len(s) : i < j => s[i] < s[j]

LEMMA Ordered ==
    ASSUME NEW S \in SUBSET (0..Len(text)), Len(text) \in Nat
    PROVE  InOrder(S) \in Seq(S) /\ Increasing(InOrder(S))
  <1> DEFINE n == Len(text) + 1
             one(k) == IF k - 1 \in S THEN <<k - 1>> ELSE <<>>
             F == [k \in 1..n |-> [x \in Seq(S) |-> x \o one(k)]]
             Is(f) == f = [k \in 0..n |-> IF k = 0 THEN <<>> ELSE f[k - 1] \o one(k)]
  <1>0. \A x \in S : x \in Nat
    OBVIOUS
  <1>1. n \in Nat /\ <<>> \in Seq(S)
    OBVIOUS
  <1>2. \A k \in 1..n : one(k) \in Seq(S)
    OBVIOUS
  <1>3. F \in [1..n -> [Seq(S) -> Seq(S)]]
    <2> HIDE DEF one
    <2>1. \A k \in 1..n, x \in Seq(S) : x \o one(k) \in Seq(S)
      BY <1>2, ConcatProperties
    <2> QED BY <2>1
  <1>4. PICK g \in [0..n -> Seq(S)] : g[0] = <<>> /\ \A k \in 1..n : g[k] = F[k][g[k - 1]]
    <2> DEFINE X == Seq(S)
               b == <<>>
    <2>1. n \in Nat /\ b \in X /\ F \in [1..n -> [X -> X]]
      BY <1>1, <1>3
    <2> HIDE DEF F, n, X, b
    <2>2. Recurs(X, b, n, F)
      BY <2>1, Recursion
    <2> QED BY <2>2 DEF Recurs, X, b
  <1>5. Is(g)
    <2> HIDE DEF one
    <2>1. ASSUME NEW k \in 0..n PROVE g[k] = IF k = 0 THEN <<>> ELSE g[k - 1] \o one(k)
      <3>1. CASE k = 0
        BY <3>1, <1>4
      <3>2. CASE k # 0
        <4>1. k \in 1..n /\ k - 1 \in 0..n
          BY <3>2, <1>1
        <4>2. g[k] = F[k][g[k - 1]] /\ g[k - 1] \in Seq(S)
          BY <4>1, <1>4
        <4> QED BY <3>2, <4>1, <4>2
      <3> QED BY <3>1, <3>2
    <2> QED BY <2>1, <1>4
  <1> DEFINE h == CHOOSE f : Is(f)
  <1>6. Is(h)
    <2> HIDE DEF Is
    <2> QED BY <1>5
  <1>7. InOrder(S) = h[n]
    BY DEF InOrder
  <1> HIDE DEF h
  <1> DEFINE T == {k \in 0..n : /\ h[k] \in Seq(S) /\ Increasing(h[k])
                                /\ \A i \in 1..Len(h[k]) : h[k][i] < k}
  <1>8. 0 \in T
    <2>1. h[0] = <<>>
      BY <1>1, <1>6
    <2>2. Increasing(<<>>) /\ \A i \in 1..Len(<<>>) : <<>>[i] < 0
      BY DEF Increasing
    <2>3. 0 \in 0..n
      BY <1>1
    <2> QED BY <2>1, <2>2, <2>3, <1>1
  <1>9. ASSUME NEW k \in 0..n, k < n, k \in T PROVE k + 1 \in T
    <2>1. k + 1 \in 1..n /\ (k + 1) - 1 = k /\ k \in Nat
      BY <1>1, <1>9
    <2>2. h[k + 1] = h[k] \o (IF k \in S THEN <<k>> ELSE <<>>)
      <3>1. h[k + 1] = h[(k + 1) - 1] \o one(k + 1)
        <4>1. k + 1 \in 0..n /\ k + 1 # 0
          BY <2>1
        <4> HIDE DEF one, n
        <4> QED BY <4>1, <1>6
      <3>2. one(k + 1) = IF k \in S THEN <<k>> ELSE <<>>
        BY <2>1
      <3> HIDE DEF one
      <3> QED BY <3>1, <3>2, <2>1
    <2>3. h[k] \in Seq(S) /\ Increasing(h[k]) /\ \A i \in 1..Len(h[k]) : h[k][i] < k
      BY <1>9
    <2> DEFINE s == h[k]
               t == h[k + 1]
    <2> HIDE DEF s, t
    <2>4. s \in Seq(S) /\ Increasing(s) /\ (\A i \in 1..Len(s) : s[i] < k) /\ Len(s) \in Nat
      BY <2>3 DEF s
    <2>5. CASE k \in S
      <3>1. t = Append(s, k)
        BY <2>2, <2>4, <2>5, AppendIsConcat DEF s, t
      <3>2. /\ t \in Seq(S) /\ Len(t) = Len(s) + 1 /\ t[Len(s) + 1] = k
            /\ \A i \in 1..Len(s) : t[i] = s[i]
        BY <3>1, <2>4, <2>5, Appended
      <3>3. \A i \in 1..Len(t) : t[i] < k + 1
        <4> TAKE i \in 1..Len(t)
        <4>1. CASE i = Len(s) + 1
          BY <4>1, <3>2
        <4>2. CASE i \in 1..Len(s)
          <5>1. t[i] = s[i] /\ s[i] < k /\ s[i] \in S
            BY <4>2, <3>2, <2>4
          <5>2. s[i] \in Nat
            BY <5>1, <1>0
          <5> QED BY <5>1, <5>2, <2>1
        <4> QED BY <4>1, <4>2, <3>2, <2>4
      <3>4. Increasing(t)
        <4> SUFFICES ASSUME NEW i \in 1..Len(t), NEW j \in 1..Len(t), i < j PROVE t[i] < t[j]
          BY DEF Increasing
        <4>1. i \in 1..Len(s) /\ t[i] = s[i] /\ s[i] < k
          BY <3>2, <2>4
        <4>2. CASE j = Len(s) + 1
          BY <4>1, <4>2, <3>2
        <4>3. CASE j \in 1..Len(s)
          BY <4>1, <4>3, <3>2, <2>4 DEF Increasing
        <4>4. j = Len(s) + 1 \/ j \in 1..Len(s)
          <5>1. j \in 1..(Len(s) + 1)
            BY <3>2
          <5>2. Len(s) \in Nat
            BY <2>4
          <5> HIDE DEF n
          <5> QED BY <5>1, <5>2
        <4> QED BY <4>2, <4>3, <4>4
      <3> QED BY <3>2, <3>3, <3>4, <2>1 DEF t
    <2>6. CASE k \notin S
      <3>1. t = s
        BY <2>2, <2>4, <2>6, ConcatEmptySeq DEF s, t
      <3>2. \A i \in 1..Len(s) : s[i] < k + 1
        <4> TAKE i \in 1..Len(s)
        <4>1. s[i] < k /\ s[i] \in S
          BY <2>4
        <4>2. s[i] \in Nat
          BY <4>1, <1>0
        <4> QED BY <4>1, <4>2, <2>1
      <3> QED BY <3>1, <3>2, <2>1, <2>4 DEF t
    <2> QED BY <2>5, <2>6
  <1>10. 0..n \subseteq T
    <2> HIDE DEF n, T
    <2> QED BY <1>1, <1>8, <1>9, InductionTo
  <1>11. n \in T
    BY <1>10, <1>1
  <1> QED BY <1>7, <1>11

\* A mask makes a text of the characters there are.
LEMMA Masked == ASSUME NEW t \in Text PROVE M!Mask(t) \in Text
  <1> DEFINE X == [out : Text, at : Nat \ {0}, stop : BOOLEAN]
             b == [out |-> <<>>, at |-> 1, stop |-> FALSE]
             n == Len(Tokens)
             skip(at) == M!SelectInSubSeq(t, at, Len(t), LAMBDA c : c \notin Separator)
             stop(m) == [m EXCEPT !.stop = TRUE]
             sep(m, k) == IF m.at \in {1, Len(t) + 1} THEN stop(m)
                          ELSE [m EXCEPT !.out = Append(@, k), !.at = IF t[@] = k THEN @ + 1 ELSE @]
             slot(m, k) == LET i == skip(m.at) IN
                           IF i = 0 THEN stop(m)
                           ELSE [m EXCEPT !.out = IF t[i] \in Takes[k] THEN Append(@, t[i]) ELSE @,
                                          !.at = i + 1]
             step(m, k) == IF m.stop THEN m ELSE IF k \in Separator THEN sep(m, k) ELSE slot(m, k)
             F == [k \in 1..n |-> [m \in X |-> step(m, Tokens[k])]]
             Is(f) == f = [k \in 0..n |-> IF k = 0 THEN b ELSE step(f[k - 1], Tokens[k])]
             h == CHOOSE f : Is(f)
  <1>1. n \in Nat /\ \A k \in 1..n : Tokens[k] \in Separator \union DOMAIN Takes
    BY InputAssumption DEF InputAssumption
  <1>2. b \in X
    <2>1. <<>> \in Text
      BY DEF Text
    <2> QED BY <2>1
  <1>3. \A at \in Nat \ {0} : skip(at) \in 0..Len(t)
    <2> TAKE at \in Nat \ {0}
    <2> DEFINE I == {i \in at..Len(t) : t[i] \notin Separator}
    <2>0. Len(t) \in Nat
      BY DEF Text
    <2>1. skip(at) = IF I # {} THEN M!Min(I) ELSE 0
      BY DEF M!SelectInSubSeq
    <2>2. I \in SUBSET (1..Len(t))
      BY <2>0
    <2> HIDE DEF I, skip
    <2>3. I # {} => M!Min(I) \in I
      BY <2>0, <2>2, LeastOne DEF M!Min
    <2>4. I # {} => M!Min(I) \in 1..Len(t)
      BY <2>2, <2>3
    <2>5. 0 \in 0..Len(t) /\ \A x \in 1..Len(t) : x \in 0..Len(t)
      BY <2>0
    <2> QED BY <2>1, <2>4, <2>5
  <1>4. \A m \in X : stop(m) \in X
    OBVIOUS
  <1>5. \A m \in X, k \in Separator : sep(m, k) \in X
    <2> TAKE m \in X, k \in Separator
    <2>1. k \in Char
      BY DEF Char
    <2>2. Append(m.out, k) \in Text /\ m.at + 1 \in Nat \ {0}
      BY <2>1 DEF Text
    <2> QED BY <2>2, <1>4
  <1>6. \A m \in X, k \in DOMAIN Takes : slot(m, k) \in X
    <2> TAKE m \in X, k \in DOMAIN Takes
    <2> DEFINE i == skip(m.at)
    <2> HIDE DEF skip
    <2>1. i \in 0..Len(t)
      BY <1>3
    <2>2. CASE i # 0
      <3>1. t[i] \in Char /\ i + 1 \in Nat \ {0}
        BY <2>1, <2>2 DEF Text
      <3>2. (IF t[i] \in Takes[k] THEN Append(m.out, t[i]) ELSE m.out) \in Text
        BY <3>1 DEF Text
      <3> QED BY <2>2, <3>1, <3>2
    <2>3. CASE i = 0
      BY <2>3, <1>4
    <2> QED BY <2>2, <2>3
  <1>7. \A m \in X, k \in Separator \union DOMAIN Takes : step(m, k) \in X
    <2> HIDE DEF X, sep, slot
    <2> QED BY <1>5, <1>6
  <1>8. F \in [1..n -> [X -> X]]
    <2> HIDE DEF X, step
    <2> QED BY <1>1, <1>7
  <1>9. PICK g \in [0..n -> X] : g[0] = b /\ \A k \in 1..n : g[k] = F[k][g[k - 1]]
    <2> HIDE DEF F, n, X, b
    <2>1. Recurs(X, b, n, F)
      BY <1>1, <1>2, <1>8, Recursion
    <2> QED BY <2>1 DEF Recurs
  <1>10. Is(g)
    <2> HIDE DEF step, b, X
    <2>1. ASSUME NEW k \in 0..n PROVE g[k] = IF k = 0 THEN b ELSE step(g[k - 1], Tokens[k])
      <3>1. CASE k = 0
        BY <3>1, <1>9
      <3>2. CASE k # 0
        <4>1. k \in 1..n /\ k - 1 \in 0..n
          BY <3>2, <1>1
        <4>2. g[k] = F[k][g[k - 1]] /\ g[k - 1] \in X
          BY <4>1, <1>9
        <4> QED BY <3>2, <4>1, <4>2
      <3> QED BY <3>1, <3>2
    <2> QED BY <2>1, <1>9
  <1>11. M!Mask(t) = h[n].out
    BY DEF M!Mask
  <1>12. Is(h)
    <2> HIDE DEF Is
    <2> QED BY <1>10
  <1> HIDE DEF h, step, b, X
  <1>13. h[0] = b /\ \A k \in 1..n : h[k] = step(h[k - 1], Tokens[k])
    BY <1>1, <1>12
  <1> DEFINE S == {k \in 0..n : h[k] \in X}
  <1>14. 0..n \subseteq S
    <2>1. 0 \in S
      BY <1>1, <1>2, <1>13
    <2>2. ASSUME NEW k \in 0..n, k < n, k \in S PROVE k + 1 \in S
      <3>1. k + 1 \in 1..n /\ (k + 1) - 1 = k /\ h[k] \in X
        BY <2>2, <1>1
      <3>2. h[k + 1] = step(h[k], Tokens[k + 1])
        BY <3>1, <1>13
      <3> QED BY <3>1, <3>2, <1>1, <1>7
    <2> HIDE DEF S, n
    <2> QED BY <2>1, <2>2, <1>1, InductionTo
  <1>15. h[n] \in X
    BY <1>1, <1>14
  <1> QED BY <1>11, <1>15 DEF X

\* So does the mask of a number.
LEMMA NumberMasked == ASSUME NEW t \in Text PROVE M!NumberMask(t) \in Text
  <1> DEFINE X == [out : Text, stop : BOOLEAN]
             b == [out |-> <<>>, stop |-> FALSE]
             n == Len(t)
             keeps(out, c) == c \in Digits \union {Dot} \/ (c \in Signs /\ out = <<>>)
             step(m, c) == IF c = Dot /\ Dot \in M!ToSet(m.out) THEN [m EXCEPT !.stop = TRUE]
                           ELSE IF ~m.stop /\ keeps(m.out, c) THEN [m EXCEPT !.out = Append(@, c)]
                           ELSE m
             F == [k \in 1..n |-> [m \in X |-> step(m, t[k])]]
             Is(f) == f = [k \in 0..n |-> IF k = 0 THEN b ELSE step(f[k - 1], t[k])]
             h == CHOOSE f : Is(f)
  <1>1. n \in Nat /\ \A k \in 1..n : t[k] \in Char
    BY DEF Text
  <1>2. b \in X
    <2>1. <<>> \in Text
      BY DEF Text
    <2> QED BY <2>1
  <1>3. \A m \in X, c \in Char : step(m, c) \in X
    <2> TAKE m \in X, c \in Char
    <2>1. Append(m.out, c) \in Text
      BY DEF Text
    <2>2. [m EXCEPT !.stop = TRUE] \in X /\ [m EXCEPT !.out = Append(@, c)] \in X
      BY <2>1
    <2> HIDE DEF keeps, X
    <2> QED BY <2>2
  <1>4. F \in [1..n -> [X -> X]]
    <2> HIDE DEF X, step
    <2> QED BY <1>1, <1>3
  <1>5. PICK g \in [0..n -> X] : g[0] = b /\ \A k \in 1..n : g[k] = F[k][g[k - 1]]
    <2> HIDE DEF F, n, X, b
    <2>1. Recurs(X, b, n, F)
      <3>1. n \in Nat
        BY <1>1
      <3> QED BY <3>1, <1>2, <1>4, Recursion
    <2> QED BY <2>1 DEF Recurs
  <1>6. Is(g)
    <2> HIDE DEF step, b, X
    <2>1. ASSUME NEW k \in 0..n PROVE g[k] = IF k = 0 THEN b ELSE step(g[k - 1], t[k])
      <3>1. CASE k = 0
        BY <3>1, <1>5
      <3>2. CASE k # 0
        <4>1. k \in 1..n /\ k - 1 \in 0..n
          BY <3>2, <1>1
        <4>2. g[k] = F[k][g[k - 1]] /\ g[k - 1] \in X
          BY <4>1, <1>5
        <4> QED BY <3>2, <4>1, <4>2
      <3> QED BY <3>1, <3>2
    <2> QED BY <2>1, <1>5
  <1>7. M!NumberMask(t) = h[n].out
    BY DEF M!NumberMask
  <1>8. Is(h)
    <2> HIDE DEF Is
    <2> QED BY <1>6
  <1> HIDE DEF h, step, b, X
  <1>9. h[0] = b /\ \A k \in 1..n : h[k] = step(h[k - 1], t[k])
    BY <1>1, <1>8
  <1> DEFINE S == {k \in 0..n : h[k] \in X}
  <1>10. 0..n \subseteq S
    <2>1. 0 \in S
      BY <1>1, <1>2, <1>9
    <2>2. ASSUME NEW k \in 0..n, k < n, k \in S PROVE k + 1 \in S
      <3>1. k + 1 \in 1..n /\ (k + 1) - 1 = k /\ h[k] \in X
        BY <2>2, <1>1
      <3>2. h[k + 1] = step(h[k], t[k + 1])
        BY <3>1, <1>9
      <3> QED BY <3>1, <3>2, <1>1, <1>3
    <2> HIDE DEF S
    <2>3. n \in Nat
      BY <1>1
    <2> HIDE DEF n
    <2> QED BY <2>1, <2>2, <2>3, InductionTo
  <1>11. h[n] \in X
    BY <1>1, <1>10
  <1> QED BY <1>7, <1>11 DEF X

-----------------------------------------------------------------------------
(* What the steps do to the history.                                       *)

LEMMA HistoryNext ==
    HistoryFits' <=> interrupted' \/ (Fits(past', undo', Document') /\ FitsOn(future', redo', Document'))
  BY DEF HistoryFits, Fits, FitsOn

LEMMA NothingFits == \A d : Fits(<<>>, <<>>, d) /\ FitsOn(<<>>, <<>>, d)
  BY DEF Fits, FitsOn

\* The parts of Consistent a proof works with.
LEMMA Parts ==
    ASSUME Consistent
    PROVE  /\ text \in Text /\ Document \in Text /\ mode \in Mode
           /\ undo \in Seq(Changes) /\ redo \in Seq(Changes)
           /\ past \in Seq(Text) /\ future \in Seq(Text)
           /\ original # None => original.text \in Text /\ original.sel \in Place
           /\ marked # None => marked \in Place
           /\ interrupted \/ (Fits(past, undo, Document) /\ FitsOn(future, redo, Document))
           /\ {grouping, locked, interrupted} \subseteq BOOLEAN
  <1>1. TypeOK /\ Composing /\ HistoryFits
    BY DEF Consistent
  <1>2. original # None => original.text \in Text /\ original.sel \in Place
    BY <1>1 DEF TypeOK
  <1> QED BY <1>1, <1>2, HistoryIs DEF TypeOK, Composing, Document, Changes

\* A step of the promise, or none.
Promised == [Promise!Next]_(Promise!vars)

LEMMA Prefixed ==
    ASSUME NEW C, NEW s \in Seq(C), NEW x \in C
    PROVE  Promise!IsPrefix(Append(s, x), Append(s, x))
  <1>1. Len(Append(s, x)) \in Nat
    BY Appended
  <1> QED BY <1>1 DEF Promise!IsPrefix

LEMMA JoinedType == ASSUME NEW p \in Changes, NEW c \in Changes PROVE Joined(p, c) \in Changes
  <1>1. p.new \o c.new \in Text
    BY ConcatProperties DEF Changes, Text
  <1> QED BY <1>1 DEF Joined, Changes

\* One change more, or a change that joins the one on top.
LEMMA Pushed ==
    ASSUME Consistent, NEW doc \in Text, NEW c \in Changes, NEW out \in Text,
           NEW groupable \in BOOLEAN, NEW run \in BOOLEAN, Turns(doc, c, out),
           Settle(out), Push(doc, c, groupable, run), UNCHANGED <<mode, locked>>,
           interrupted => ~interrupted'
    PROVE  Consistent' /\ Promised
  <1>1. /\ text' = out /\ marked' = None /\ original' = None /\ Document' = out
        /\ mode' = mode /\ locked' = locked
    BY DEF Settle, Document
  <1>2. redo' = <<>> /\ future' = <<>>
    BY DEF Push, Record
  <1>3. interrupted' = (interrupted \/ doc # Document) /\ ~interrupted
    BY DEF Push, Record
  <1>4. /\ undo' \in Seq(Changes) /\ grouping' \in BOOLEAN /\ past' \in Seq(Text)
        /\ ~interrupted' => Fits(past', undo', Document')
        /\ Promised
    <2>1. /\ Document \in Text /\ undo \in Seq(Changes) /\ past \in Seq(Text)
          /\ ~interrupted => Fits(past, undo, Document)
      BY Parts
    <2>2. CASE Joins(c, groupable, run)
      <3>1. /\ undo # <<>> /\ (GoesOn(Last(undo), c) \/ Remasks(Last(undo), c))
            /\ undo' = Append(Front(undo), Joined(Last(undo), c)) /\ grouping' = run
            /\ past' = IF interrupted' THEN <<>> ELSE past
        BY <2>2 DEF Push, Joins, Record
      <3>2. undo' \in Seq(Changes)
        <4>1. Last(undo) \in Changes /\ Front(undo) \in Seq(Changes)
          BY <2>1, <3>1, FrontLast
        <4> QED BY <3>1, <4>1, JoinedType, Appended
      <3>3. ~interrupted' => Fits(past', undo', Document') /\ past # <<>>
        BY <1>1, <1>3, <2>1, <3>1, FitsJoin
      <3>4. CASE interrupted'
        BY <3>1, <3>2, <3>4, <1>2 DEF Promised, Promise!Next, Promise!Reset
      <3>5. CASE ~interrupted'
        BY <3>1, <3>2, <3>3, <3>5, <1>2, <2>1 DEF Promised, Promise!Next, Promise!Amend
      <3> QED BY <3>4, <3>5
    <2>3. CASE ~Joins(c, groupable, run)
      <3>1. /\ undo' = Append(undo, c) /\ grouping' = groupable
            /\ past' = IF interrupted' THEN <<>> ELSE Append(past, Document)
        BY <2>3 DEF Push, Record
      <3>2. undo' \in Seq(Changes) /\ Append(past, Document) \in Seq(Text)
        BY <2>1, <3>1, Appended
      <3>3. ~interrupted' => Fits(past', undo', Document')
        BY <1>1, <1>3, <2>1, <3>1, FitsPush
      <3>4. CASE interrupted'
        BY <3>1, <3>2, <3>4, <1>2 DEF Promised, Promise!Next, Promise!Reset
      <3>5. CASE ~interrupted'
        <4>1. Promise!IsPrefix(Append(past, Document), past')
          BY <2>1, <3>1, <3>5, Prefixed
        <4> QED BY <4>1, <3>1, <3>2, <3>3, <3>5, <1>2 DEF Promised, Promise!Next, Promise!Edit
      <3> QED BY <3>4, <3>5
    <2> QED BY <2>2, <2>3
  <1>5. HistoryFits'
    <2>1. FitsOn(future', redo', Document')
      BY <1>2, NothingFits
    <2> QED BY <1>4, <2>1, HistoryNext
  <1>6. TypeOK'
    <2>1. TypeOK
      BY DEF Consistent
    <2>2. redo' \in Seq(Changes) /\ future' \in Seq(Text) /\ interrupted' \in BOOLEAN
      BY <1>2, <1>3, <2>1 DEF TypeOK
    <2> QED BY <1>1, <1>4, <2>1, <2>2 DEF TypeOK, Changes
  <1>7. Composing'
    BY <1>1 DEF Composing
  <1> QED BY <1>4, <1>5, <1>6, <1>7 DEF Consistent

LEMMA Clipped ==
    ASSUME NEW t \in Text, NEW r, r.start \in Nat, r.end \in Nat
    PROVE  /\ Clip(t, r).start \in Nat /\ Clip(t, r).end \in Nat
           /\ Clip(t, r).start <= Clip(t, r).end /\ Clip(t, r).end <= Len(t)
  <1>1. Len(t) \in Nat
    BY DEF Text
  <1> QED BY <1>1 DEF Clip, Span, Least

LEMMA OneLineIs == ASSUME NEW new \in Text PROVE OneLine(new) \in Text
  <1>1. Space \in Char
    BY DEF Char
  <1>2. CASE mode = "editor"
    BY <1>2 DEF OneLine
  <1>3. CASE mode # "editor"
    <2> DEFINE e(i) == IF new[i] = NewLine THEN Space ELSE new[i]
    <2>1. DOMAIN new = 1..Len(new) /\ Len(new) \in Nat
      BY DEF Text
    <2>2. \A i \in 1..Len(new) : e(i) \in Char
      BY <1>1 DEF Text
    <2>3. OneLine(new) = [i \in 1..Len(new) |-> e(i)]
      BY <1>3, <2>1 DEF OneLine
    <2> HIDE DEF e
    <2>4. [i \in 1..Len(new) |-> e(i)] \in Seq(Char)
      BY <2>1, <2>2, IsASeq
    <2> QED BY <2>3, <2>4 DEF Text
  <1> QED BY <1>2, <1>3

\* An edit that the field accepts.
LEMMA Accepted ==
    ASSUME Consistent, NEW doc \in Text, NEW range, range.start \in Nat, range.end \in Nat,
           NEW new \in Text, NEW run \in BOOLEAN, Accept(doc, range, new, run),
           UNCHANGED <<mode, locked>>, interrupted => ~interrupted'
    PROVE  Consistent' /\ Promised
  <1> DEFINE r == Clip(doc, range)
             rep == OneLine(new)
             spl == Replace(doc, r, rep)
             c(out) == IF mode \in {"masked", "number"} THEN [start |-> 0, old |-> doc, new |-> out]
                       ELSE [start |-> r.start, old |-> Slice(doc, r), new |-> rep]
             grp == IsEmpty(r) /\ Len(rep) = 1
  <1>1. PICK out \in Shown(spl) \ {None} : Settle(out) /\ Push(doc, c(out), grp, run)
    BY DEF Accept
  <1>2. r.start \in Nat /\ r.end \in Nat /\ r.start <= r.end /\ r.end <= Len(doc)
    BY Clipped
  <1>3. rep \in Text
    BY OneLineIs
  <1> HIDE DEF r, rep
  <1>4. spl = Splice(doc, r.start, r.end, rep) /\ spl \in Text
    BY <1>2, <1>3, Replaced, Spliced DEF Text
  <1>5. grp \in BOOLEAN
    BY DEF IsEmpty
  <1>6. mode \in {"editor", "line", "masked", "number"}
    BY Parts, InputAssumption DEF InputAssumption
  <1> HIDE DEF grp, spl
  <1>7. CASE mode \in {"masked", "number"}
    <2>1. out \in {M!Mask(spl), M!NumberMask(spl)}
      BY <1>1, <1>7 DEF Shown
    <2>2. out \in Text
      BY <2>1, <1>4, Masked, NumberMasked
    <2> DEFINE d == [start |-> 0, old |-> doc, new |-> out]
    <2>3. d \in Changes /\ d.start = 0 /\ d.old = doc /\ d.new = out
      BY <2>2 DEF Changes
    <2>4. c(out) = d
      BY <1>7
    <2> HIDE DEF c, d
    <2>5. Turns(doc, d, out)
      BY <2>2, <2>3, WholeTurns DEF Text
    <2> QED BY <1>1, <1>5, <2>2, <2>3, <2>4, <2>5, Pushed
  <1>8. CASE mode \notin {"masked", "number"}
    <2>1. out = spl
      BY <1>1, <1>6, <1>8 DEF Shown
    <2> DEFINE d == [start |-> r.start, old |-> Slice(doc, r), new |-> rep]
    <2>2. Slice(doc, r) = SubSeq(doc, r.start + 1, r.end) /\ Slice(doc, r) \in Text
      BY <1>2, Sliced DEF Slice, Text
    <2>3. d \in Changes /\ d.start = r.start /\ d.old = SubSeq(doc, r.start + 1, r.end) /\ d.new = rep
      BY <1>2, <1>3, <2>2 DEF Changes
    <2>4. c(out) = d
      BY <1>8
    <2> HIDE DEF c, d
    <2>5. Turns(doc, d, out)
      BY <1>2, <1>3, <1>4, <2>1, <2>3, EditTurns DEF Text
    <2> QED BY <1>1, <1>4, <1>5, <2>1, <2>3, <2>4, <2>5, Pushed
  <1> QED BY <1>7, <1>8

\* A step that leaves the document and its history alone.
LEMMA Quiet ==
    ASSUME Consistent, UNCHANGED <<undo, redo, record>>, Document' = Document, TypeOK', Composing'
    PROVE  Consistent' /\ Promised
  <1>1. HistoryFits'
    <2>1. interrupted \/ (Fits(past, undo, Document) /\ FitsOn(future, redo, Document))
      BY Parts
    <2> QED BY <2>1, HistoryNext DEF record
  <1>2. Promised
    BY DEF Promised, Promise!vars, record
  <1> QED BY <1>1, <1>2 DEF Consistent

\* An edit of the text there is, accepted or refused.
LEMMA Edited ==
    ASSUME Consistent, NEW range, range.start \in Nat, range.end \in Nat, NEW new \in Text,
           NEW run \in BOOLEAN, Edit(range, new, run), interrupted => ~interrupted'
    PROVE  Consistent' /\ Promised
  <1>1. text \in Text
    BY Parts
  <1>2. UNCHANGED <<mode, locked>>
    BY DEF Edit
  <1>3. CASE Accept(text, range, new, run)
    BY <1>1, <1>2, <1>3, Accepted
  <1>4. CASE grouping' = run /\ UNCHANGED <<text, ime, undo, redo, record>>
    <2>1. TypeOK /\ Composing
      BY DEF Consistent
    <2>2. TypeOK' /\ Composing' /\ Document' = Document
      BY <1>2, <1>4, <2>1 DEF TypeOK, Composing, Document, ime, record
    <2> QED BY <1>4, <2>2, Quiet
  <1> QED BY <1>3, <1>4 DEF Edit

LEMMA RangesAre ==
    ASSUME Consistent
    PROVE  /\ Len(text) \in Nat
           /\ Whole.start = 0 /\ Whole.end = Len(text)
           /\ \A r \in Ranges : r \in Place /\ r.start \in Nat /\ r.end \in Nat /\ r.start <= r.end /\ r.end <= Len(text)
  <1>1. Len(text) \in Nat
    BY Parts DEF Text
  <1> QED BY <1>1 DEF Ranges, Whole, Span, Place

LEMMA SelectionsAre ==
    ASSUME Consistent
    PROVE  \A sel \in Selections : sel \in Place
  <1>1. Len(text) + (IF mode = "editor" THEN 0 ELSE MaxPast) \in Nat
    BY RangesAre, InputAssumption DEF InputAssumption
  <1> QED BY <1>1 DEF Selections, Span, Place

LEMMA TextsAre ==
    ASSUME Consistent
    PROVE  /\ <<>> \in Text /\ <<NewLine>> \in Text /\ Tab \in Text
           /\ \A v \in Pasted[mode] : v \in Text
           /\ \A c \in Typed[mode] : c \in Char /\ <<c>> \in Text
  <1>1. mode \in Mode
    BY Parts
  <1>2. \A c \in Typed[mode] : c \in Char
    BY <1>1 DEF Char
  <1>3. NewLine \in Char
    BY DEF Char
  <1> QED BY <1>1, <1>2, <1>3, InputAssumption DEF InputAssumption, Text

LEMMA FlatText ==
    ASSUME NEW t \in Text, NEW x, NEW v \in Text
    PROVE  FlattenSeq([i \in DOMAIN t |-> IF t[i] = x THEN v ELSE <<t[i]>>]) \in Text
  <1> DEFINE e(i) == IF t[i] = x THEN v ELSE <<t[i]>>
             s == [i \in 1..Len(t) |-> e(i)]
  <1>1. DOMAIN t = 1..Len(t) /\ Len(t) \in Nat
    BY DEF Text
  <1>2. \A i \in 1..Len(t) : e(i) \in Seq(Char)
    BY DEF Text
  <1>3. s \in Seq(Seq(Char))
    <2> HIDE DEF e
    <2> QED BY <1>1, <1>2, IsASeq
  <1>4. s = [i \in DOMAIN t |-> IF t[i] = x THEN v ELSE <<t[i]>>]
    BY <1>1
  <1> HIDE DEF s
  <1> QED BY <1>3, <1>4, Flattened DEF Text

\* The handlers that make one edit.
LEMMA EditSteps ==
    ASSUME Consistent, interrupted => ~interrupted',
           SetValue \/ Paste \/ Cut \/ DeleteChar \/ Enter \/ ReplaceAllMatches \/ Type
    PROVE  Consistent' /\ Promised
  <1>1. grouping \in BOOLEAN /\ text \in Text
    BY Parts
  <1>2. CASE SetValue
    <2>1. PICK v \in Pasted[mode] : Edit(Whole, v, FALSE)
      BY <1>2 DEF SetValue
    <2>2. v \in Text /\ Whole.start \in Nat /\ Whole.end \in Nat
      BY TextsAre, RangesAre
    <2> QED BY <2>1, <2>2, Edited
  <1>3. CASE Paste
    <2>1. PICK r \in Ranges, v \in Pasted[mode] : Edit(r, v, FALSE)
      BY <1>3 DEF Paste
    <2>2. v \in Text /\ r.start \in Nat /\ r.end \in Nat
      BY TextsAre, RangesAre
    <2> QED BY <2>1, <2>2, Edited
  <1>4. CASE Cut \/ DeleteChar
    <2>1. PICK r \in Ranges : Edit(r, <<>>, grouping)
      BY <1>4 DEF Cut, DeleteChar
    <2>2. <<>> \in Text /\ r.start \in Nat /\ r.end \in Nat
      BY TextsAre, RangesAre
    <2> QED BY <1>1, <2>1, <2>2, Edited
  <1>5. CASE Enter
    <2>1. PICK r \in Ranges : Edit(r, <<NewLine>>, grouping)
      BY <1>5 DEF Enter
    <2>2. <<NewLine>> \in Text /\ r.start \in Nat /\ r.end \in Nat
      BY TextsAre, RangesAre
    <2> QED BY <1>1, <2>1, <2>2, Edited
  <1>6. CASE ReplaceAllMatches
    <2>1. PICK x \in Typed[mode], v \in Pasted[mode] :
            Edit(Whole, FlattenSeq([i \in DOMAIN text |-> IF text[i] = x THEN v ELSE <<text[i]>>]), grouping)
      BY <1>6 DEF ReplaceAllMatches
    <2> DEFINE new == FlattenSeq([i \in DOMAIN text |-> IF text[i] = x THEN v ELSE <<text[i]>>])
    <2>2. new \in Text
      BY <1>1, TextsAre, FlatText
    <2>3. Whole.start \in Nat /\ Whole.end \in Nat
      BY RangesAre
    <2>4. Edit(Whole, new, grouping)
      BY <2>1
    <2> HIDE DEF new
    <2> QED BY <1>1, <2>2, <2>3, <2>4, Edited
  <1>7. CASE Type
    <2>1. PICK r \in Ranges, c \in Typed[mode] : Edit(r, <<c>>, grouping)
      BY <1>7 DEF Type
    <2>2. <<c>> \in Text /\ r.start \in Nat /\ r.end \in Nat
      BY TextsAre, RangesAre
    <2> QED BY <1>1, <2>1, <2>2, Edited
  <1> QED BY <1>2, <1>3, <1>4, <1>5, <1>6, <1>7

LEMMA HeadIs ==
    ASSUME NEW C, NEW t \in Seq(C), NEW n \in 0..Len(t)
    PROVE  /\ SubSeq(t, 1, n) \in Seq(C) /\ Len(SubSeq(t, 1, n)) = n
           /\ \A i \in 1..n : SubSeq(t, 1, n)[i] = t[i]
  <1>1. 0 + 1 = 1 /\ n - 0 = n /\ 0 \in Nat /\ n \in Nat /\ \A i \in 1..n : 0 + i = i
    OBVIOUS
  <1>2. /\ SubSeq(t, 0 + 1, n) \in Seq(C) /\ Len(SubSeq(t, 0 + 1, n)) = n - 0
        /\ \A i \in 1..(n - 0) : SubSeq(t, 0 + 1, n)[i] = t[0 + i]
    BY <1>1, Sliced
  <1> QED BY <1>1, <1>2

LEMMA PrefixOf ==
    ASSUME NEW C, NEW s \in Seq(C), NEW x \in C, NEW d \in Seq(C), d # <<>>, d[1] = x
    PROVE  Promise!IsPrefix(Append(s, x), s \o d)
  <1> DEFINE a == Append(s, x)
             b == s \o d
             n == Len(s) + 1
  <1>1. a \in Seq(C) /\ Len(a) = n /\ a[n] = x /\ (\A i \in 1..Len(s) : a[i] = s[i]) /\ Len(s) \in Nat
    BY Appended
  <1>2. Len(d) \in Nat \ {0}
    BY EmptySeq
  <1>3. b \in Seq(C) /\ Len(b) = Len(s) + Len(d)
    BY ConcatProperties
  <1>4. \A i \in 1..(Len(s) + Len(d)) : b[i] = IF i <= Len(s) THEN s[i] ELSE d[i - Len(s)]
    BY ConcatProperties
  <1>5. \A i \in 1..n : a[i] = b[i]
    <2> TAKE i \in 1..n
    <2>1. i \in 1..(Len(s) + Len(d)) /\ (i <= Len(s) \/ (i = n /\ ~(i <= Len(s)) /\ i - Len(s) = 1))
      BY <1>1, <1>2
    <2> HIDE DEF a, b
    <2> QED BY <2>1, <1>1, <1>4
  <1> HIDE DEF a, b
  <1>6. n \in 0..Len(a) /\ n \in 0..Len(b) /\ n <= Len(b)
    BY <1>1, <1>2, <1>3
  <1>7. SubSeq(a, 1, n) = SubSeq(b, 1, n)
    <2> DEFINE u == SubSeq(a, 1, n)
               v == SubSeq(b, 1, n)
    <2> HIDE DEF n
    <2>1. u \in Seq(C) /\ Len(u) = n /\ \A i \in 1..n : u[i] = a[i]
      BY <1>1, <1>6, HeadIs
    <2>2. v \in Seq(C) /\ Len(v) = n /\ \A i \in 1..n : v[i] = b[i]
      BY <1>3, <1>6, HeadIs
    <2> HIDE DEF u, v
    <2>3. u = v
      BY <2>1, <2>2, <1>5, SameText
    <2> QED BY <2>3 DEF u, v
  <1>8. Promise!IsPrefix(a, b)
    BY <1>1, <1>6, <1>7 DEF Promise!IsPrefix
  <1> QED BY <1>8 DEF a, b

\* The changes that one command makes of several lines.
LEMMA LinesEdited ==
    ASSUME Consistent, interrupted => ~interrupted', NEW cs \in Seq(Changes),
           LinesAfter(cs) \in [0..Len(cs) -> Text],
           \A k \in 1..Len(cs) : Turns(LinesAfter(cs)[k - 1], cs[k], LinesAfter(cs)[k]),
           EditLines(cs)
    PROVE  Consistent' /\ Promised
  <1> DEFINE g == LinesAfter(cs)
             n == Len(cs)
             ds == [k \in DOMAIN cs |-> g[k - 1]]
  <1>1. n \in Nat \ {0}
    BY EmptySeq DEF EditLines
  <1>2. g[0] = text
    BY <1>1, LinesAre
  <1>3. ds \in Seq(Text) /\ Len(ds) = n /\ ds[1] = text /\ ds # <<>>
    <2>1. DOMAIN cs = 1..n
      OBVIOUS
    <2>2. \A k \in 1..n : g[k - 1] \in Text
      BY <1>1
    <2> DEFINE e == [k \in 1..n |-> g[k - 1]]
    <2>3. ds = e
      BY <2>1
    <2> HIDE DEF n, g
    <2>4. e \in Seq(Text) /\ Len(e) = n
      BY <1>1, <2>2, IsASeq
    <2>5. 1 \in 1..n /\ 1 - 1 = 0
      BY <1>1
    <2>6. e[1] = text
      BY <1>2, <2>5
    <2> HIDE DEF e
    <2>7. e # <<>>
      BY <1>1, <2>4, EmptySeq
    <2> QED BY <2>3, <2>4, <2>6, <2>7
  <1>4. /\ text' = g[n] /\ marked' = None /\ original' = None /\ mode' = mode /\ locked' = locked
        /\ undo' = undo \o cs /\ redo' = <<>> /\ future' = <<>> /\ grouping' \in BOOLEAN
        /\ Document' = g[n]
        /\ interrupted' = (interrupted \/ text # Document) /\ ~interrupted
        /\ past' = IF interrupted' THEN <<>> ELSE past \o ds
    BY DEF EditLines, Settle, Record, Document
  <1>5. g[n] \in Text
    BY <1>1
  <1>6. /\ undo \in Seq(Changes) /\ past \in Seq(Text) /\ text \in Text
        /\ (Fits(past, undo, Document) /\ FitsOn(future, redo, Document))
    BY <1>4, Parts
  <1>7. undo' \in Seq(Changes) /\ past \o ds \in Seq(Text)
    <2> HIDE DEF ds
    <2>1. undo \o cs \in Seq(Changes)
      BY <1>6, ConcatProperties
    <2>2. past \o ds \in Seq(Text)
      BY <1>3, <1>6, ConcatProperties
    <2> QED BY <1>4, <2>1, <2>2
  <1>8. ~interrupted' => Fits(past', undo', Document')
    <2>1. ASSUME ~interrupted' PROVE Fits(past \o ds, undo \o cs, g[n])
      <3>1. text = Document
        BY <1>4, <2>1
      <3>2. Fits(past, undo, g[0])
        BY <1>2, <1>6, <3>1
      <3>3. g \in [0..Len(cs) -> Text] /\ \A k \in 1..Len(cs) : Turns(g[k - 1], cs[k], g[k])
        OBVIOUS
      <3> HIDE DEF g
      <3> QED BY <1>6, <3>2, <3>3, FitsAll
    <2> QED BY <1>4, <2>1
  <1>9. TypeOK'
    <2>1. TypeOK
      BY DEF Consistent
    <2>2. redo' \in Seq(Changes) /\ future' \in Seq(Text) /\ past' \in Seq(Text) /\ interrupted' \in BOOLEAN
      BY <1>4, <1>7, <2>1 DEF TypeOK
    <2> HIDE DEF g
    <2> QED BY <1>4, <1>5, <1>7, <2>1, <2>2 DEF TypeOK, Changes
  <1>10. HistoryFits'
    <2>1. FitsOn(future', redo', Document')
      BY <1>4, NothingFits
    <2> QED BY <1>8, <2>1, HistoryNext
  <1>11. Composing'
    BY <1>4 DEF Composing
  <1>12. Promised
    <2> HIDE DEF ds
    <2>1. CASE interrupted'
      BY <2>1, <1>4 DEF Promised, Promise!Next, Promise!Reset
    <2>2. CASE ~interrupted'
      <3>1. text = Document
        BY <1>4, <2>2
      <3>2. Promise!IsPrefix(Append(past, text), past \o ds)
        BY <1>3, <1>6, PrefixOf
      <3> QED BY <3>1, <3>2, <2>2, <1>4 DEF Promised, Promise!Next, Promise!Edit
    <2> QED BY <2>1, <2>2
  <1> QED BY <1>9, <1>10, <1>11, <1>12 DEF Consistent

-----------------------------------------------------------------------------
(* Indenting and outdenting several lines.                                 *)

LEMMA Times == ASSUME NEW k \in Nat, NEW w \in Nat PROVE k * w \in Nat /\ (k + 1) * w = k * w + w /\ 0 * w = 0
  OBVIOUS

\* A tab goes before every line: each change fits the text the ones before
\* it left.
LEMMA Inserts ==
    ASSUME text \in Text, Tab \in Text, NEW ps \in Seq(0..Len(text)), NEW cs,
           cs = [k \in DOMAIN ps |-> [start |-> ps[k] + (k - 1) * Len(Tab), old |-> <<>>, new |-> Tab]]
    PROVE  /\ cs \in Seq(Changes)
           /\ LinesAfter(cs) \in [0..Len(cs) -> Text]
           /\ \A k \in 1..Len(cs) : Turns(LinesAfter(cs)[k - 1], cs[k], LinesAfter(cs)[k])
  <1> DEFINE n == Len(ps)
             w == Len(Tab)
             g == LinesAfter(cs)
             Ok(k) == g[k] \in Text /\ Len(g[k]) = Len(text) + k * w
             T(k) == Turns(g[k - 1], cs[k], g[k])
             S == {k \in 0..n : Ok(k)}
  <1>1. n \in Nat /\ w \in Nat /\ Len(text) \in Nat /\ DOMAIN ps = 1..n /\ \A k \in 1..n : ps[k] \in 0..Len(text)
    BY DEF Text
  <1>2. /\ cs \in Seq(Changes) /\ Len(cs) = n
        /\ \A k \in 1..n : /\ cs[k].start = ps[k] + (k - 1) * w /\ cs[k].start \in Nat
                           /\ cs[k].old = <<>> /\ cs[k].new = Tab
    <2> DEFINE c(k) == [start |-> ps[k] + (k - 1) * w, old |-> <<>>, new |-> Tab]
    <2>1. \A k \in 1..n : c(k).start \in Nat /\ c(k) \in Changes
      <3> TAKE k \in 1..n
      <3>1. k - 1 \in Nat
        OBVIOUS
      <3> HIDE DEF w, n
      <3>2. ps[k] + (k - 1) * w \in Nat
        BY <1>1, <3>1, Times
      <3>3. <<>> \in Text
        BY DEF Text
      <3> QED BY <3>2, <3>3 DEF Changes
    <2>2. cs = [k \in 1..n |-> c(k)]
      BY <1>1
    <2>3. \A k \in 1..n : c(k).start = ps[k] + (k - 1) * w /\ c(k).old = <<>> /\ c(k).new = Tab
      OBVIOUS
    <2>4. \A k \in 1..n : c(k) \in Changes
      BY <2>1
    <2> HIDE DEF c, n, w
    <2>5. cs \in Seq(Changes) /\ Len(cs) = n
      <3>1. n \in Nat
        BY <1>1
      <3>2. [k \in 1..n |-> c(k)] \in Seq(Changes)
        BY <2>4, <3>1, IsASeq
      <3>3. Len([k \in 1..n |-> c(k)]) = n
        BY <3>1
      <3> QED BY <2>2, <3>2, <3>3
    <2> QED BY <2>1, <2>2, <2>3, <2>5
  <1>3. g[0] = text /\ \A k \in 1..n : g[k] = Applied(g[k - 1], cs[k])
    BY <1>1, <1>2, LinesAre
  <1>4. g = [k \in 0..n |-> g[k]]
    BY <1>1, <1>2, LinesAre
  <1> HIDE DEF g, n, w
  <1>5. 0 \in S
    BY <1>1, <1>3, Times
  <1>6. ASSUME NEW k \in 0..n, k < n, Ok(k) PROVE Ok(k + 1) /\ T(k + 1)
    <2> DEFINE t == g[k]
               c == cs[k + 1]
               s == ps[k + 1] + k * w
    <2>1. k \in Nat /\ k + 1 \in 1..n /\ (k + 1) - 1 = k
      BY <1>6, <1>1
    <2>2. k * w \in Nat /\ (k + 1) * w = k * w + w
      BY <1>1, <2>1, Times
    <2>3. c.start = s /\ c.old = <<>> /\ c.new = Tab /\ s \in Nat
      BY <1>2, <2>1
    <2>4. s <= Len(t) /\ t \in Text /\ Len(t) = Len(text) + k * w /\ Len(t) \in Nat
      BY <1>1, <1>6, <2>1, <2>2
    <2>5. g[k + 1] = Applied(t, c)
      BY <1>3, <2>1
    <2> HIDE DEF t, c, s
    <2>6. Applied(t, c) = Splice(t, s, s, Tab)
      <3>1. LET r == Span(c.start, c.start + Len(c.old)) IN r.start = s /\ r.end = s
        BY <2>3 DEF Span
      <3> QED BY <2>3, <3>1, Replaced DEF Applied
    <2>7. /\ Splice(t, s, s, Tab) \in Text /\ IsSplice(Splice(t, s, s, Tab), t, s, s, Tab)
      BY <2>3, <2>4, Spliced DEF Text
    <2>8. Len(g[k + 1]) = Len(text) + (k + 1) * w
      <3>1. Len(Splice(t, s, s, Tab)) = Len(t) - (s - s) + w
        BY <2>7 DEF IsSplice, w
      <3> QED BY <3>1, <1>1, <2>2, <2>3, <2>4, <2>5, <2>6
    <2>9. c.old = SubSeq(t, s + 1, s)
      <3>1. Len(SubSeq(t, s + 1, s)) = 0 /\ SubSeq(t, s + 1, s) \in Seq(Char)
        BY <2>3, <2>4, Sliced DEF Text
      <3> QED BY <3>1, <2>3, EmptySeq
    <2>10. Turns(t, c, Splice(t, s, s, Tab))
      BY <2>3, <2>4, <2>9, EditTurns DEF Text
    <2>11. Ok(k + 1)
      BY <2>5, <2>6, <2>7, <2>8
    <2>12. T(k + 1)
      BY <2>1, <2>5, <2>6, <2>10 DEF t, c
    <2> QED BY <2>11, <2>12
  <1>7. 0..n \subseteq S
    <2>1. \A k \in 0..n : k < n /\ k \in S => k + 1 \in S
      <3> TAKE k \in 0..n
      <3> HAVE k < n /\ k \in S
      <3>1. k + 1 \in 0..n
        BY <1>1
      <3> HIDE DEF Ok, T
      <3> QED BY <3>1, <1>6
    <2> HIDE DEF S
    <2> QED BY <1>1, <1>5, <2>1, InductionTo
  <1>8. ASSUME NEW k \in 1..n PROVE T(k)
    <2>1. k - 1 \in 0..n /\ k - 1 < n /\ (k - 1) + 1 = k
      BY <1>1
    <2>2. Ok(k - 1)
      BY <2>1, <1>7
    <2> HIDE DEF Ok, T
    <2> QED BY <2>1, <2>2, <1>6
  <1>9. g \in [0..n -> Text]
    <2>1. \A k \in 0..n : g[k] \in Text
      BY <1>7
    <2>2. g = [k \in 0..n |-> g[k]]
      BY <1>4
    <2> HIDE DEF S
    <2> QED BY <2>1, <2>2
  <1> QED BY <1>2, <1>8, <1>9 DEF g

\* A line that starts with a tab, character by character, and the next line
\* that starts after it starts after the tab.
LEMMA TabIs ==
    ASSUME text \in Text, Tab \in Text, NEW p \in Nat, TabAt(p)
    PROVE  p + Len(Tab) <= Len(text) /\ \A j \in 1..Len(Tab) : text[p + j] = Tab[j]
  <1>1. p + Len(Tab) <= Len(text) /\ SubSeq(text, p + 1, p + Len(Tab)) = Tab
    BY DEF TabAt
  <1>2. Len(Tab) \in Nat
    BY DEF Text
  <1> DEFINE n == p + Len(Tab)
  <1>3. n \in Nat /\ p <= n /\ n <= Len(text) /\ n - p = Len(Tab)
    BY <1>1, <1>2
  <1>4. SubSeq(text, p + 1, n) = Tab
    BY <1>1
  <1> HIDE DEF n
  <1>5. \A i \in 1..(n - p) : SubSeq(text, p + 1, n)[i] = text[p + i]
    BY <1>3, Sliced DEF Text
  <1> QED BY <1>1, <1>3, <1>4, <1>5

LEMMA NextLine ==
    ASSUME text \in Text, Tab \in Text, NewLine \notin ToSet(Tab), NEW p \in Nat, TabAt(p),
           NEW q \in LineStarts, p < q
    PROVE  p + Len(Tab) < q
  <1>1. q \in DOMAIN text /\ text[q] = NewLine /\ q \in Nat
    BY DEF LineStarts, Text
  <1>2. Len(Tab) \in Nat /\ DOMAIN Tab = 1..Len(Tab)
    BY DEF Text
  <1> SUFFICES ASSUME q <= p + Len(Tab) PROVE FALSE
    BY <1>1, <1>2
  <1> DEFINE j == q - p
  <1>3. j \in 1..Len(Tab) /\ p + j = q
    BY <1>1, <1>2
  <1> HIDE DEF j
  <1>4. text[q] = Tab[j]
    BY <1>3, TabIs
  <1>5. Tab[j] \in ToSet(Tab)
    BY <1>2, <1>3 DEF ToSet
  <1> QED BY <1>1, <1>4, <1>5

\* The tab before every line goes.
LEMMA Removes ==
    ASSUME text \in Text, Tab \in Text, NewLine \notin ToSet(Tab),
           NEW ps \in Seq(LineStarts), Increasing(ps), \A k \in 1..Len(ps) : TabAt(ps[k]), NEW cs,
           cs = [k \in DOMAIN ps |-> [start |-> ps[k] - (k - 1) * Len(Tab), old |-> Tab, new |-> <<>>]]
    PROVE  /\ cs \in Seq(Changes)
           /\ LinesAfter(cs) \in [0..Len(cs) -> Text]
           /\ \A k \in 1..Len(cs) : Turns(LinesAfter(cs)[k - 1], cs[k], LinesAfter(cs)[k])
  <1> DEFINE n == Len(ps)
             w == Len(Tab)
             g == LinesAfter(cs)
             \* What is behind the last tab that was removed has moved to the left.
             Rest(k) == \A i \in 1..Len(text) : k = 0 \/ i > ps[k] + w => g[k][i - k * w] = text[i]
             Ok(k) == g[k] \in Text /\ Len(g[k]) = Len(text) - k * w /\ Rest(k)
             T(k) == Turns(g[k - 1], cs[k], g[k])
             S == {k \in 0..n : Ok(k)}
             Low == {k \in 0..n : k = 0 \/ ps[k] >= (k - 1) * w}
  <1>1. /\ n \in Nat /\ w \in Nat /\ Len(text) \in Nat /\ DOMAIN ps = 1..n
        /\ \A k \in 1..n : ps[k] \in LineStarts /\ ps[k] \in Nat
    BY DEF Text, LineStarts
  <1>2. \A k \in 1..n : k + 1 <= n => ps[k] + w < ps[k + 1]
    <2> TAKE k \in 1..n
    <2> HAVE k + 1 <= n
    <2>1. k + 1 \in 1..n /\ k < k + 1
      BY <1>1
    <2>2. ps[k] < ps[k + 1]
      BY <2>1 DEF Increasing
    <2> QED BY <1>1, <2>1, <2>2, NextLine
  <1>3. \A k \in 1..n : ps[k] >= (k - 1) * w
    <2>1. 0 \in Low
      BY <1>1
    <2>2. ASSUME NEW k \in 0..n, k < n, k \in Low PROVE k + 1 \in Low
      <3>1. k \in Nat /\ k + 1 \in 1..n /\ k + 1 \in 0..n /\ (k + 1) - 1 = k /\ k + 1 <= n
        BY <2>2, <1>1
      <3>2. CASE k = 0
        BY <3>1, <3>2, <1>1
      <3>3. CASE k # 0
        <4>1. k \in 1..n /\ k - 1 \in Nat /\ (k - 1) + 1 = k
          BY <3>1, <3>3
        <4>2. ps[k] >= (k - 1) * w /\ ps[k] + w < ps[k + 1]
          BY <2>2, <3>1, <3>3, <4>1, <1>2
        <4> HIDE DEF w, n
        <4>3. k * w = (k - 1) * w + w /\ (k - 1) * w \in Nat
          BY <4>1, <1>1, Times
        <4>4. ps[k + 1] >= k * w
          BY <4>1, <4>2, <4>3, <3>1, <1>1
        <4> QED BY <4>4, <3>1
      <3> QED BY <3>2, <3>3
    <2> HIDE DEF Low
    <2>3. 0..n \subseteq Low
      <3> HIDE DEF n
      <3> QED BY <1>1, <2>1, <2>2, InductionTo
    <2>4. ASSUME NEW k \in 1..n PROVE ps[k] >= (k - 1) * w
      <3>1. k \in 0..n /\ k # 0
        BY <1>1
      <3>2. k \in Low
        BY <2>3, <3>1
      <3> HIDE DEF n, w
      <3> QED BY <3>1, <3>2 DEF Low
    <2> QED BY <2>4
  <1>4. /\ cs \in Seq(Changes) /\ Len(cs) = n
        /\ \A k \in 1..n : /\ cs[k].start = ps[k] - (k - 1) * w /\ cs[k].start \in Nat
                           /\ cs[k].old = Tab /\ cs[k].new = <<>>
    <2> DEFINE c(k) == [start |-> ps[k] - (k - 1) * w, old |-> Tab, new |-> <<>>]
    <2>1. \A k \in 1..n : c(k).start \in Nat /\ c(k) \in Changes
      <3> TAKE k \in 1..n
      <3>1. k - 1 \in Nat
        OBVIOUS
      <3> HIDE DEF w, n
      <3>2. (k - 1) * w \in Nat
        BY <1>1, <3>1, Times
      <3>3. ps[k] - (k - 1) * w \in Nat
        BY <1>1, <1>3, <3>2
      <3>4. <<>> \in Text
        BY DEF Text
      <3> QED BY <3>3, <3>4 DEF Changes
    <2>2. cs = [k \in 1..n |-> c(k)]
      BY <1>1
    <2>3. \A k \in 1..n : c(k).start = ps[k] - (k - 1) * w /\ c(k).old = Tab /\ c(k).new = <<>>
      OBVIOUS
    <2>4. \A k \in 1..n : c(k) \in Changes
      BY <2>1
    <2> HIDE DEF c, n, w
    <2>5. cs \in Seq(Changes) /\ Len(cs) = n
      <3>1. n \in Nat
        BY <1>1
      <3>2. [k \in 1..n |-> c(k)] \in Seq(Changes)
        BY <2>4, <3>1, IsASeq
      <3>3. Len([k \in 1..n |-> c(k)]) = n
        BY <3>1
      <3> QED BY <2>2, <3>2, <3>3
    <2> QED BY <2>1, <2>2, <2>3, <2>5
  <1>5. g[0] = text /\ \A k \in 1..n : g[k] = Applied(g[k - 1], cs[k])
    BY <1>1, <1>4, LinesAre
  <1>6. g = [k \in 0..n |-> g[k]]
    BY <1>1, <1>4, LinesAre
  <1> HIDE DEF g, n, w
  <1>7. 0 \in S
    <2>1. 0 * w = 0 /\ \A i \in 1..Len(text) : i - 0 = i
      BY <1>1, Times
    <2>2. Len(g[0]) = Len(text) - 0 * w
      BY <1>1, <1>5, <2>1
    <2>3. Rest(0)
      <3>1. \A i \in 1..Len(text) : i - 0 * w = i
        BY <2>1
      <3> QED BY <1>5, <3>1
    <2>4. 0 \in 0..n /\ g[0] \in Text
      BY <1>1, <1>5
    <2> HIDE DEF Rest
    <2> QED BY <2>2, <2>3, <2>4
  <1>8. ASSUME NEW k \in 0..n, k < n, Ok(k) PROVE Ok(k + 1) /\ T(k + 1)
    <2> DEFINE t == g[k]
               c == cs[k + 1]
               p == ps[k + 1]
               K == k * w
               s == p - K
               u == Splice(t, s, s + w, <<>>)
    <2>1. k \in Nat /\ k + 1 \in 1..n /\ (k + 1) - 1 = k
      BY <1>8, <1>1
    <2>2. K \in Nat /\ (k + 1) * w = K + w
      BY <1>1, <2>1, Times
    <2>3. c.start = s /\ c.old = Tab /\ c.new = <<>> /\ s \in Nat
      BY <1>4, <2>1
    <2>4. t \in Text /\ Len(t) = Len(text) - K /\ p \in Nat
      BY <1>1, <1>8, <2>1
    <2>5. g[k + 1] = Applied(t, c)
      BY <1>5, <2>1
    <2>6. p + w <= Len(text) /\ \A j \in 1..w : text[p + j] = Tab[j]
      BY <1>1, <2>1, TabIs DEF n, w
    <2>7. k = 0 \/ ps[k] + w < p
      BY <1>1, <1>2, <2>1
    <2>8. \A i \in 1..Len(text) : i > p => t[i - K] = text[i]
      <3> TAKE i \in 1..Len(text)
      <3> HAVE i > p
      <3>1. k = 0 \/ i > ps[k] + w
        <4>1. CASE k # 0
          <5>1. ps[k] \in Nat
            BY <1>1, <2>1, <4>1
          <5> QED BY <5>1, <2>4, <2>7, <4>1, <1>1
        <4> QED BY <4>1
      <3> QED BY <3>1, <1>8
    <2> HIDE DEF t, c, p, K, u
    <2>9. s \in Nat /\ s + w \in Nat /\ s <= s + w /\ s + w <= Len(t) /\ p = s + K
      BY <1>1, <2>2, <2>3, <2>4, <2>6
    <2> HIDE DEF s
    <2>10. SubSeq(t, s + 1, s + w) = Tab
      <3> DEFINE e == s + w
                 v == SubSeq(t, s + 1, e)
      <3>1. e \in Nat /\ e - s = w /\ s <= e /\ e <= Len(t)
        BY <2>9, <1>1
      <3> HIDE DEF e
      <3>2. v \in Seq(Char) /\ Len(v) = e - s /\ \A i \in 1..(e - s) : v[i] = t[s + i]
        BY <3>1, <2>4, <2>9, Sliced DEF Text
      <3> HIDE DEF v
      <3>3. \A j \in 1..w : v[j] = Tab[j]
        <4> TAKE j \in 1..w
        <4>1. p + j \in 1..Len(text) /\ p + j > p /\ (p + j) - K = s + j
          BY <1>1, <2>2, <2>4, <2>6, <2>9
        <4>2. t[s + j] = text[p + j]
          BY <4>1, <2>8
        <4> QED BY <4>2, <3>1, <3>2, <2>6
      <3>4. v = Tab
        BY <3>1, <3>2, <3>3, SameText DEF w, Text
      <3> QED BY <3>4 DEF v, e
    <2>11. Applied(t, c) = u
      <3>1. LET r == Span(c.start, c.start + Len(c.old)) IN r.start = s /\ r.end = s + w
        BY <2>3, <2>9 DEF Span, w
      <3> QED BY <2>3, <3>1, Replaced DEF Applied, u
    <2>12. u \in Text /\ IsSplice(u, t, s, s + w, <<>>)
      <3>1. <<>> \in Seq(Char)
        OBVIOUS
      <3> QED BY <2>4, <2>9, <3>1, Spliced DEF Text, u
    <2>13. Turns(t, c, u)
      <3> DEFINE e == s + w
      <3>1. c.old = SubSeq(t, s + 1, e) /\ u = Splice(t, s, e, <<>>) /\ e \in Nat /\ s <= e /\ e <= Len(t)
        BY <2>3, <2>9, <2>10 DEF u
      <3>2. <<>> \in Seq(Char)
        OBVIOUS
      <3> HIDE DEF e
      <3> QED BY <3>1, <3>2, <2>3, <2>4, <2>9, EditTurns DEF Text
    <2>14. Len(u) = Len(text) - (k + 1) * w
      <3>1. Len(u) = Len(t) - ((s + w) - s) + Len(<<>>)
        BY <2>12 DEF IsSplice
      <3> QED BY <3>1, <1>1, <2>2, <2>4, <2>9
    <2>15. \A i \in 1..Len(text) : i > p + w => u[i - (k + 1) * w] = text[i]
      <3> TAKE i \in 1..Len(text)
      <3> HAVE i > p + w
      <3> DEFINE x == i - (k + 1) * w
      <3>1. /\ x \in 1..Len(u) /\ ~(x <= s) /\ ~(x <= s + Len(<<>>))
            /\ x - Len(<<>>) + ((s + w) - s) = i - K /\ i > p
        BY <1>1, <2>2, <2>4, <2>9, <2>14
      <3> HIDE DEF x
      <3>2. u[x] = t[x - Len(<<>>) + ((s + w) - s)]
        BY <3>1, <2>12 DEF IsSplice
      <3>3. t[i - K] = text[i]
        BY <3>1, <2>8
      <3> QED BY <3>1, <3>2, <3>3 DEF x
    <2>16. Ok(k + 1)
      <3>1. k + 1 # 0
        BY <2>1
      <3> QED BY <3>1, <2>5, <2>11, <2>12, <2>14, <2>15 DEF p
    <2>17. T(k + 1)
      BY <2>1, <2>5, <2>11, <2>13 DEF t, c
    <2> QED BY <2>16, <2>17
  <1>9. 0..n \subseteq S
    <2>1. \A k \in 0..n : k < n /\ k \in S => k + 1 \in S
      <3> TAKE k \in 0..n
      <3> HAVE k < n /\ k \in S
      <3>1. k + 1 \in 0..n
        BY <1>1
      <3> HIDE DEF Ok, T
      <3> QED BY <3>1, <1>8
    <2> HIDE DEF S
    <2> QED BY <1>1, <1>7, <2>1, InductionTo
  <1>10. ASSUME NEW k \in 1..n PROVE T(k)
    <2>1. k - 1 \in 0..n /\ k - 1 < n /\ (k - 1) + 1 = k
      BY <1>1
    <2>2. Ok(k - 1)
      BY <2>1, <1>9
    <2> HIDE DEF Ok, T
    <2> QED BY <2>1, <2>2, <1>8
  <1>11. g \in [0..n -> Text]
    <2>1. \A k \in 0..n : g[k] \in Text
      BY <1>9
    <2> HIDE DEF S
    <2> QED BY <2>1, <1>6
  <1> QED BY <1>4, <1>10, <1>11 DEF g

LEMMA LinesIn ==
    ASSUME Consistent, NEW r
    PROVE  LinesOf(r) \subseteq LineStarts /\ LineStarts \subseteq 0..Len(text) /\ Len(text) \in Nat
  <1>1. text \in Text
    BY Parts
  <1> QED BY <1>1 DEF LinesOf, LineStarts, Text

LEMMA IndentSteps ==
    ASSUME Consistent, interrupted => ~interrupted', Indent \/ Outdent
    PROVE  Consistent' /\ Promised
  <1>1. text \in Text /\ Tab \in Text /\ <<>> \in Text /\ Len(text) \in Nat /\ Len(Tab) \in Nat
    BY Parts, TextsAre DEF Text
  <1>2. CASE Indent
    <2> DEFINE cs(r) == LET ps == InOrder(LinesOf(r))
                        IN  [k \in DOMAIN ps |-> [start |-> ps[k] + (k - 1) * Len(Tab), old |-> <<>>, new |-> Tab]]
    <2>1. PICK r \in Ranges : Edit(r, Tab, FALSE) \/ Edit(Span(0, 0), Tab, FALSE) \/ EditLines(cs(r))
      BY <1>2 DEF Indent
    <2>2. CASE Edit(r, Tab, FALSE)
      <3>1. r.start \in Nat /\ r.end \in Nat
        BY RangesAre
      <3> QED BY <1>1, <2>2, <3>1, Edited
    <2>3. CASE Edit(Span(0, 0), Tab, FALSE)
      <3>1. Span(0, 0).start \in Nat /\ Span(0, 0).end \in Nat
        BY DEF Span
      <3> QED BY <1>1, <2>3, <3>1, Edited
    <2>4. CASE EditLines(cs(r))
      <3> DEFINE ps == InOrder(LinesOf(r))
                 c == cs(r)
      <3>1. ps \in Seq(0..Len(text))
        <4>1. LinesOf(r) \in SUBSET (0..Len(text))
          BY LinesIn
        <4>2. ps \in Seq(LinesOf(r))
          BY <1>1, <4>1, Ordered
        <4> HIDE DEF ps
        <4> QED BY <4>1, <4>2
      <3>2. c = [k \in DOMAIN ps |-> [start |-> ps[k] + (k - 1) * Len(Tab), old |-> <<>>, new |-> Tab]]
        OBVIOUS
      <3>3. EditLines(c)
        BY <2>4
      <3> HIDE DEF ps, c, cs
      <3>4. /\ c \in Seq(Changes) /\ LinesAfter(c) \in [0..Len(c) -> Text]
            /\ \A k \in 1..Len(c) : Turns(LinesAfter(c)[k - 1], c[k], LinesAfter(c)[k])
        BY <1>1, <3>1, <3>2, Inserts
      <3> QED BY <3>3, <3>4, LinesEdited
    <2> QED BY <2>1, <2>2, <2>3, <2>4
  <1>3. CASE Outdent
    <2> DEFINE whole(r, p) == IsEmpty(r) \/ p + Len(Tab) <= r.end
               at(r) == {p \in LinesOf(r) : TabAt(p) /\ whole(r, p)}
               cs(r) == LET ps == InOrder(at(r))
                        IN  [k \in DOMAIN ps |-> [start |-> ps[k] - (k - 1) * Len(Tab), old |-> Tab, new |-> <<>>]]
    <2>1. PICK r \in Ranges : Edit(Span(0, Len(Tab)), <<>>, FALSE) \/ EditLines(cs(r))
      BY <1>3 DEF Outdent
    <2>2. CASE Edit(Span(0, Len(Tab)), <<>>, FALSE)
      <3>1. Span(0, Len(Tab)).start \in Nat /\ Span(0, Len(Tab)).end \in Nat
        BY <1>1 DEF Span
      <3> QED BY <1>1, <2>2, <3>1, Edited
    <2>3. CASE EditLines(cs(r))
      <3> DEFINE A == at(r)
                 ps == InOrder(A)
                 c == cs(r)
      <3>1. A \subseteq LineStarts /\ A \in SUBSET (0..Len(text)) /\ \A p \in A : TabAt(p)
        BY LinesIn
      <3>2. c = [k \in DOMAIN ps |-> [start |-> ps[k] - (k - 1) * Len(Tab), old |-> Tab, new |-> <<>>]]
        OBVIOUS
      <3>3. EditLines(c)
        BY <2>3
      <3> HIDE DEF A, c, cs, at
      <3>4. ps \in Seq(A) /\ Increasing(ps)
        BY <1>1, <3>1, Ordered
      <3> HIDE DEF ps
      <3>5. ps \in Seq(LineStarts) /\ \A k \in 1..Len(ps) : TabAt(ps[k])
        <4>1. \A k \in 1..Len(ps) : ps[k] \in A
          BY <3>4
        <4>2. ps \in Seq(LineStarts)
          BY <3>1, <3>4, SeqMonotonic
        <4> QED BY <3>1, <4>1, <4>2
      <3>6. NewLine \notin ToSet(Tab)
        BY InputAssumption DEF InputAssumption
      <3>7. /\ c \in Seq(Changes) /\ LinesAfter(c) \in [0..Len(c) -> Text]
            /\ \A k \in 1..Len(c) : Turns(LinesAfter(c)[k - 1], c[k], LinesAfter(c)[k])
        BY <1>1, <3>2, <3>4, <3>5, <3>6, Removes
      <3> QED BY <3>3, <3>7, LinesEdited
    <2> QED BY <2>1, <2>2, <2>3
  <1> QED BY <1>2, <1>3

LEMMA ClampedIs ==
    ASSUME Len(text) \in Nat, NEW s \in Nat, NEW n \in Nat
    PROVE  /\ Clamped(s, n).start \in Nat /\ Clamped(s, n).end \in Nat
           /\ Clamped(s, n).start <= Clamped(s, n).end /\ Clamped(s, n).end <= Len(text)
           /\ s + n <= Len(text) => Clamped(s, n).start = s /\ Clamped(s, n).end = s + n
  <1> DEFINE a == Least(s, Len(text))
             b == Least(a + n, Len(text))
  <1>1. a \in Nat /\ a <= Len(text) /\ (s <= Len(text) => a = s)
    BY DEF Least
  <1> HIDE DEF a
  <1>2. b \in Nat /\ b <= Len(text) /\ a <= b /\ (a + n <= Len(text) => b = a + n)
    BY <1>1 DEF Least
  <1>3. Clamped(s, n) = Span(a, b)
    BY DEF Clamped, a
  <1> HIDE DEF b
  <1>4. Span(a, b).start = a /\ Span(a, b).end = b
    BY <1>1, <1>2 DEF Span
  <1>5. s + n <= Len(text) => a = s /\ b = s + n
    BY <1>1, <1>2
  <1> QED BY <1>1, <1>2, <1>3, <1>4, <1>5

\* One step back: the change on top fits the document, and leads to the one
\* below it.
LEMMA UndoStep ==
    ASSUME Consistent, interrupted => ~interrupted', Undo
    PROVE  Consistent' /\ Promised
  <1> DEFINE c == Last(undo)
             rng == Clamped(c.start, Len(c.new))
  <1>1. /\ undo \in Seq(Changes) /\ redo \in Seq(Changes) /\ past \in Seq(Text) /\ future \in Seq(Text)
        /\ text \in Text /\ Document \in Text /\ Len(text) \in Nat
        /\ interrupted \/ (Fits(past, undo, Document) /\ FitsOn(future, redo, Document))
    BY Parts DEF Text
  <1>2. undo # <<>> /\ c \in Changes /\ Front(undo) \in Seq(Changes)
    BY <1>1, FrontLast DEF Undo
  <1>3. c.start \in Nat /\ c.old \in Text /\ c.new \in Text /\ Len(c.new) \in Nat
    BY <1>2 DEF Changes, Text
  <1>4. /\ rng.start \in Nat /\ rng.end \in Nat /\ rng.start <= rng.end /\ rng.end <= Len(text)
        /\ c.start + Len(c.new) <= Len(text) => rng.start = c.start /\ rng.end = c.start + Len(c.new)
    <2> HIDE DEF c
    <2> QED BY <1>1, <1>3, ClampedIs
  <1>5. /\ text' = Splice(text, rng.start, rng.end, c.old) /\ marked' = None /\ original' = None
        /\ undo' = Front(undo) /\ redo' = Append(redo, c) /\ grouping' = FALSE
        /\ mode' = mode /\ locked' = locked
        /\ interrupted' = (interrupted \/ text # Document) /\ ~interrupted
        /\ past' = IF interrupted' THEN <<>> ELSE Front(past)
        /\ future' = IF interrupted' THEN <<>> ELSE Append(future, Document)
    BY Replaced DEF Undo, Swap, Settle, Record
  <1> HIDE DEF c, rng
  <1>6. text' \in Text /\ Document' = text'
    BY <1>1, <1>3, <1>4, <1>5, Spliced DEF Text, Document
  <1>7. redo' \in Seq(Changes) /\ undo' \in Seq(Changes)
    BY <1>1, <1>2, <1>5, Appended
  <1>8. Fits(past, undo, Document) /\ FitsOn(future, redo, Document)
    BY <1>1, <1>5
  <1>9. past # <<>> /\ Turns(Last(past), c, Document) /\ Fits(Front(past), Front(undo), Last(past))
    BY <1>1, <1>2, <1>8, FitsPop DEF c
  <1>10. Front(past) \in Seq(Text) /\ Last(past) \in Text /\ Append(future, Document) \in Seq(Text)
    BY <1>1, <1>9, FrontLast, Appended
  <1>11. ~interrupted' => text' = Last(past)
    <2> HAVE ~interrupted'
    <2>1. text = Document
      BY <1>5
    <2>2. /\ c.start + Len(c.new) <= Len(text)
          /\ Splice(text, c.start, c.start + Len(c.new), c.old) = Last(past)
      BY <1>3, <1>9, <2>1, TurnsSpliced DEF Text
    <2> QED BY <1>4, <1>5, <2>2
  <1>12. HistoryFits'
    <2>1. CASE ~interrupted'
      <3>1. FitsOn(Append(future, Document), Append(redo, c), Last(past))
        BY <1>1, <1>2, <1>8, <1>9, <1>10, OnPush
      <3> QED BY <2>1, <3>1, <1>5, <1>6, <1>9, <1>11, HistoryNext
    <2> QED BY <2>1, HistoryNext
  <1>13. TypeOK'
    <2>1. TypeOK
      BY DEF Consistent
    <2>2. past' \in Seq(Text) /\ future' \in Seq(Text) /\ interrupted' \in BOOLEAN
      BY <1>5, <1>10, <2>1 DEF TypeOK
    <2> QED BY <1>5, <1>6, <1>7, <2>1, <2>2 DEF TypeOK, Changes
  <1>14. Composing'
    BY <1>5 DEF Composing
  <1>15. Promised
    <2>1. CASE interrupted'
      BY <2>1, <1>5 DEF Promised, Promise!Next, Promise!Reset
    <2>2. CASE ~interrupted'
      BY <2>2, <1>5, <1>6, <1>9, <1>11
        DEF Promised, Promise!Next, Promise!Undo, Promise!Last, Promise!Front, Last, Front
    <2> QED BY <2>1, <2>2
  <1> QED BY <1>12, <1>13, <1>14, <1>15 DEF Consistent

\* One step on.
LEMMA RedoStep ==
    ASSUME Consistent, interrupted => ~interrupted', Redo
    PROVE  Consistent' /\ Promised
  <1> DEFINE c == Last(redo)
             rng == Clamped(c.start, Len(c.old))
  <1>1. /\ undo \in Seq(Changes) /\ redo \in Seq(Changes) /\ past \in Seq(Text) /\ future \in Seq(Text)
        /\ text \in Text /\ Document \in Text /\ Len(text) \in Nat
        /\ interrupted \/ (Fits(past, undo, Document) /\ FitsOn(future, redo, Document))
    BY Parts DEF Text
  <1>2. redo # <<>> /\ c \in Changes /\ Front(redo) \in Seq(Changes)
    BY <1>1, FrontLast DEF Redo
  <1>3. c.start \in Nat /\ c.old \in Text /\ c.new \in Text /\ Len(c.old) \in Nat
    BY <1>2 DEF Changes, Text
  <1>4. /\ rng.start \in Nat /\ rng.end \in Nat /\ rng.start <= rng.end /\ rng.end <= Len(text)
        /\ c.start + Len(c.old) <= Len(text) => rng.start = c.start /\ rng.end = c.start + Len(c.old)
    <2> HIDE DEF c
    <2> QED BY <1>1, <1>3, ClampedIs
  <1>5. /\ text' = Splice(text, rng.start, rng.end, c.new) /\ marked' = None /\ original' = None
        /\ redo' = Front(redo) /\ undo' = Append(undo, c) /\ grouping' = FALSE
        /\ mode' = mode /\ locked' = locked
        /\ interrupted' = (interrupted \/ text # Document) /\ ~interrupted
        /\ past' = IF interrupted' THEN <<>> ELSE Append(past, Document)
        /\ future' = IF interrupted' THEN <<>> ELSE Front(future)
    BY Replaced DEF Redo, Swap, Settle, Record
  <1> HIDE DEF c, rng
  <1>6. text' \in Text /\ Document' = text'
    BY <1>1, <1>3, <1>4, <1>5, Spliced DEF Text, Document
  <1>7. redo' \in Seq(Changes) /\ undo' \in Seq(Changes)
    BY <1>1, <1>2, <1>5, Appended
  <1>8. Fits(past, undo, Document) /\ FitsOn(future, redo, Document)
    BY <1>1, <1>5
  <1>9. future # <<>> /\ Turns(Document, c, Last(future)) /\ FitsOn(Front(future), Front(redo), Last(future))
    BY <1>1, <1>2, <1>8, OnPop DEF c
  <1>10. Front(future) \in Seq(Text) /\ Last(future) \in Text /\ Append(past, Document) \in Seq(Text)
    BY <1>1, <1>9, FrontLast, Appended
  <1>11. ~interrupted' => text' = Last(future)
    <2> HAVE ~interrupted'
    <2>1. text = Document
      BY <1>5
    <2>2. /\ c.start + Len(c.old) <= Len(text)
          /\ Splice(text, c.start, c.start + Len(c.old), c.new) = Last(future)
      <3>1. Turns(text, c, Last(future))
        BY <1>9, <2>1
      <3>2. c.start \in Nat /\ c.old \in Seq(Char) /\ c.new \in Seq(Char)
        BY <1>3 DEF Text
      <3> DEFINE u == Last(future)
      <3> HIDE DEF u
      <3>3. Turns(text, c, u)
        BY <3>1 DEF u
      <3>4. c.start + Len(c.old) <= Len(text) /\ Splice(text, c.start, c.start + Len(c.old), c.new) = u
        <4>1. c.start + Len(c.old) <= Len(text)
          BY <3>2, <3>3, TurnsSpliced
        <4>2. Splice(text, c.start, c.start + Len(c.old), c.new) = u
          BY <3>2, <3>3, TurnsSpliced
        <4> QED BY <4>1, <4>2
      <3> QED BY <3>4 DEF u
    <2> QED BY <1>4, <1>5, <2>2
  <1>12. HistoryFits'
    <2>1. CASE ~interrupted'
      <3>1. Fits(Append(past, Document), Append(undo, c), Last(future))
        BY <1>1, <1>2, <1>8, <1>9, <1>10, FitsPush
      <3> QED BY <2>1, <3>1, <1>5, <1>6, <1>9, <1>11, HistoryNext
    <2> QED BY <2>1, HistoryNext
  <1>13. TypeOK'
    <2>1. TypeOK
      BY DEF Consistent
    <2>2. past' \in Seq(Text) /\ future' \in Seq(Text) /\ interrupted' \in BOOLEAN
      BY <1>5, <1>10, <2>1 DEF TypeOK
    <2> QED BY <1>5, <1>6, <1>7, <2>1, <2>2 DEF TypeOK, Changes
  <1>14. Composing'
    BY <1>5 DEF Composing
  <1>15. Promised
    <2>1. CASE interrupted'
      BY <2>1, <1>5 DEF Promised, Promise!Next, Promise!Reset
    <2>2. CASE ~interrupted'
      BY <2>2, <1>5, <1>6, <1>9, <1>11
        DEF Promised, Promise!Next, Promise!Redo, Promise!Last, Promise!Front, Last, Front
    <2> QED BY <2>1, <2>2
  <1> QED BY <1>12, <1>13, <1>14, <1>15 DEF Consistent

\* What is typed or chosen while the input method composes.
LEMMA CommitStep ==
    ASSUME Consistent, interrupted => ~interrupted', Commit
    PROVE  Consistent' /\ Promised
  <1>1. PICK c \in Typed[mode] :
          \/ ~locked /\ Accept(original.text, original.sel, <<c>>, FALSE)
          \/ /\ text' = original.text /\ marked' = None /\ original' = None
             /\ grouping' = FALSE /\ UNCHANGED <<undo, redo, record>>
    BY DEF Commit
  <1>2. original # None /\ UNCHANGED <<mode, locked>>
    BY DEF Commit
  <1>3. original.text \in Text /\ original.sel \in Place
    BY <1>2, Parts
  <1>4. original.sel.start \in Nat /\ original.sel.end \in Nat
    BY <1>3 DEF Place
  <1>5. CASE Accept(original.text, original.sel, <<c>>, FALSE)
    <2>1. <<c>> \in Text
      BY TextsAre
    <2> QED BY <1>2, <1>3, <1>4, <1>5, <2>1, Accepted
  <1>6. CASE /\ text' = original.text /\ marked' = None /\ original' = None
             /\ grouping' = FALSE /\ UNCHANGED <<undo, redo, record>>
    <2>1. Document' = Document
      BY <1>2, <1>6 DEF Document
    <2>2. TypeOK
      BY DEF Consistent
    <2>3. TypeOK'
      BY <1>2, <1>3, <1>6, <2>2 DEF TypeOK, record
    <2>4. Composing'
      BY <1>6 DEF Composing
    <2> QED BY <1>6, <2>1, <2>3, <2>4, Quiet
  <1> QED BY <1>1, <1>5, <1>6

\* The composition changes, or ends without an edit.
LEMMA ComposeStep ==
    ASSUME Consistent, Compose
    PROVE  Consistent' /\ Promised
  <1> DEFINE base(sel) == IF original # None THEN original ELSE [text |-> text, sel |-> sel]
             r(sel) == Clip(text, IF marked # None THEN marked ELSE sel)
  <1>1. PICK sel \in Selections, new \in {<<>>} \union {<<c>> : c \in Typed[mode]} :
          IF new = <<>>
          THEN text' = base(sel).text /\ marked' = None /\ original' = None
          ELSE /\ text' = Replace(text, r(sel), new)
               /\ marked' = Span(r(sel).start, r(sel).start + Len(new)) /\ original' = base(sel)
    BY DEF Compose
  <1>2. UNCHANGED <<mode, history, locked, record>>
    BY DEF Compose
  <1> DEFINE B == base(sel)
             R == r(sel)
  <1>3. text \in Text /\ Len(text) \in Nat /\ new \in Text
    <2>1. new \in Text
      BY TextsAre
    <2>2. text \in Text
      BY Parts
    <2> QED BY <2>1, <2>2 DEF Text
  <1>4. sel \in Place
    BY SelectionsAre
  <1>5. B.text \in Text /\ B.text = Document /\ B \in [text : Text, sel : Place]
    <2>1. CASE original # None
      <3>1. original \in [text : Text, sel : Place]
        BY <2>1 DEF Consistent, TypeOK
      <3> QED BY <2>1, <3>1, Parts DEF Document
    <2>2. CASE original = None
      BY <1>3, <1>4, <2>2 DEF Document
    <2> QED BY <2>1, <2>2
  <1>6. R.start \in Nat /\ R.end \in Nat /\ R.start <= R.end /\ R.end <= Len(text)
    <2> DEFINE m == IF marked # None THEN marked ELSE sel
    <2>1. m.start \in Nat /\ m.end \in Nat
      BY <1>4, Parts DEF Place
    <2> HIDE DEF m
    <2>2. LET q == Clip(text, m) IN q.start \in Nat /\ q.end \in Nat /\ q.start <= q.end /\ q.end <= Len(text)
      BY <1>3, <2>1, Clipped
    <2> QED BY <2>2 DEF m
  <1>7. TypeOK /\ B # None
    BY <1>5, InputAssumption DEF Consistent, InputAssumption
  <1> HIDE DEF base, r
  <1>8. CASE new = <<>>
    <2>1. text' = B.text /\ marked' = None /\ original' = None
      BY <1>1, <1>8
    <2>2. TypeOK' /\ Composing'
      BY <1>2, <1>5, <1>7, <2>1 DEF TypeOK, Composing, history, record
    <2>3. Document' = Document
      BY <1>5, <2>1 DEF Document
    <2> QED BY <1>2, <2>2, <2>3, Quiet DEF history
  <1>9. CASE new # <<>>
    <2>1. /\ text' = Replace(text, R, new) /\ original' = B
          /\ marked' = Span(R.start, R.start + Len(new))
      BY <1>1, <1>9
    <2>2. text' = Splice(text, R.start, R.end, new)
      BY <2>1, Replaced
    <2> DEFINE a == R.start
               e == R.end
    <2>3. a \in Nat /\ e \in Nat /\ a <= e /\ e <= Len(text) /\ text' = Splice(text, a, e, new)
      BY <1>6, <2>2
    <2> HIDE DEF a, e
    <2>4. text' \in Text /\ IsSplice(text', text, a, e, new)
      BY <1>3, <2>3, Spliced DEF Text
    <2>5. Len(new) \in Nat
      BY <1>3 DEF Text
    <2>6. marked' \in Place /\ marked'.end = a + Len(new)
      BY <2>1, <2>3, <2>5 DEF Span, Place, a
    <2>7. marked'.end <= Len(text')
      BY <1>3, <2>3, <2>4, <2>5, <2>6 DEF IsSplice
    <2>8. TypeOK'
      BY <1>2, <1>5, <1>7, <2>1, <2>4, <2>6 DEF TypeOK, history, record
    <2>9. Composing'
      BY <1>5, <1>7, <2>1, <2>7 DEF Composing
    <2>10. Document' = Document
      BY <1>5, <1>7, <2>1 DEF Document
    <2> QED BY <1>2, <2>8, <2>9, <2>10, Quiet DEF history
  <1> QED BY <1>8, <1>9

\* The steps that end a composition, lock the field or leave it to its owner.
LEMMA OtherSteps ==
    ASSUME Consistent, Unmark \/ Escape \/ SetLocked \/ ResetValue \/ UNCHANGED vars
    PROVE  Consistent' /\ Promised
  <1>1. TypeOK /\ Composing
    BY DEF Consistent
  <1>2. CASE Unmark
    <2>1. TypeOK' /\ Composing' /\ Document' = Document /\ UNCHANGED <<undo, redo, record>>
      BY <1>1, <1>2 DEF Unmark, TypeOK, Composing, Document, history, record
    <2> QED BY <2>1, Quiet
  <1>3. CASE Escape
    <2>1. original.text \in Text
      BY <1>3, Parts DEF Escape
    <2>2. TypeOK' /\ Composing' /\ Document' = Document /\ UNCHANGED <<undo, redo, record>>
      BY <1>1, <1>3, <2>1 DEF Escape, TypeOK, Composing, Document, history, record
    <2> QED BY <2>2, Quiet
  <1>4. CASE SetLocked
    <2>1. TypeOK' /\ Composing' /\ Document' = Document /\ UNCHANGED <<undo, redo, record>>
      BY <1>1, <1>4 DEF SetLocked, TypeOK, Composing, Document, ime, history, record
    <2> QED BY <2>1, Quiet
  <1>5. CASE ResetValue
    <2>1. PICK v \in Pasted[mode] : text' = OneLine(v)
      BY <1>5 DEF ResetValue
    <2>2. text' \in Text
      BY <2>1, TextsAre, OneLineIs
    <2>3. TypeOK' /\ Composing'
      <3>1. /\ marked' = None /\ original' = None /\ undo' = <<>> /\ redo' = <<>> /\ grouping' = FALSE
            /\ past' = <<>> /\ future' = <<>> /\ interrupted' = FALSE /\ mode' = mode /\ locked' = locked
        BY <1>5 DEF ResetValue
      <3>2. \A X : <<>> \in Seq(X)
        OBVIOUS
      <3> QED BY <1>1, <2>2, <3>1, <3>2 DEF TypeOK, Composing
    <2>4. HistoryFits'
      BY <1>5, NothingFits, HistoryNext DEF ResetValue
    <2>5. Promised
      BY <1>5 DEF ResetValue, Promised, Promise!Next, Promise!Reset
    <2> QED BY <2>3, <2>4, <2>5 DEF Consistent
  <1>6. CASE UNCHANGED vars
    <2>1. TypeOK' /\ Composing' /\ Document' = Document /\ UNCHANGED <<undo, redo, record>>
      BY <1>1, <1>6 DEF vars, TypeOK, Composing, Document, ime, history, record
    <2> QED BY <2>1, Quiet
  <1> QED BY <1>2, <1>3, <1>4, <1>5, <1>6

-----------------------------------------------------------------------------
(* The theorems.                                                           *)

LEMMA Start == Init => Consistent
  <1> SUFFICES ASSUME Init PROVE Consistent
    OBVIOUS
  <1>1. TypeOK
    <2>1. \A X : <<>> \in Seq(X)
      OBVIOUS
    <2>2. <<>> \in Text
      BY DEF Text
    <2> QED BY <2>1, <2>2 DEF Init, TypeOK
  <1>2. Composing
    BY DEF Init, Composing
  <1>3. HistoryFits
    BY NothingFits, HistoryIs DEF Init
  <1> QED BY <1>1, <1>2, <1>3 DEF Consistent

LEMMA Step == ASSUME Consistent, [Next]_vars PROVE Consistent' /\ Promised
  <1>1. CASE Next
    <2>1. interrupted => ~interrupted'
      BY <1>1 DEF Next, Bounded
    <2> QED BY <1>1, <2>1, EditSteps, IndentSteps, UndoStep, RedoStep, CommitStep, ComposeStep, OtherSteps
          DEF Next
  <1>2. CASE UNCHANGED vars
    BY <1>2, OtherSteps
  <1> QED BY <1>1, <1>2

\* An input, the composition of its input method and its history agree after
\* any keys, menus and calls: every change in the two stacks fits the text
\* it will meet when undo or redo reaches it (History, undo and redo of
\* input/state.rs).
THEOREM HistoryAgrees == Spec => []Consistent
  <1>1. Consistent /\ [Next]_vars => Consistent'
    BY Step
  <1> QED BY <1>1, Start, PTL DEF Spec

\* Undo and redo walk through the documents that were in the field, whatever
\* was typed together, masked, refused or composed in between: the stacks of
\* ranges and texts implement a history of documents.
THEOREM UndoExact == Spec => UndoIsExact
  <1>1. Init => Promise!Init
    BY DEF Init, Promise!Init
  <1>2. Consistent /\ [Next]_vars => [Promise!Next]_(Promise!vars)
    BY Step DEF Promised
  <1> QED BY <1>1, <1>2, HistoryAgrees, PTL DEF Spec, UndoIsExact, Promise!Spec

\* A field that may not be edited keeps its document until its owner resets
\* it: what the input method still sends brings the original back at most
\* (replace_text_in_range, escape and unmark_text of input/state.rs).
THEOREM LockedKeeps == Spec => LockedDocument
  <1>1. ASSUME Next, locked, ~ResetValue PROVE Document' = Document
    <2>1. ASSUME NEW range, NEW new, NEW run, Edit(range, new, run) PROVE FALSE
      BY <1>1, <2>1 DEF Edit
    <2>2. ASSUME NEW cs, EditLines(cs) PROVE FALSE
      BY <1>1, <2>2 DEF EditLines
    <2>3. ~(SetValue \/ Paste \/ Cut \/ DeleteChar \/ Enter \/ ReplaceAllMatches \/ Type)
      BY <2>1 DEF SetValue, Paste, Cut, DeleteChar, Enter, ReplaceAllMatches, Type
    <2>4. ~(Indent \/ Outdent)
      BY <2>1, <2>2 DEF Indent, Outdent
    <2>5. ~(Undo \/ Redo \/ Compose)
      BY <1>1 DEF Undo, Redo, Compose
    <2>6. CASE Commit
      BY <1>1, <2>6 DEF Commit, Document
    <2>7. CASE Unmark \/ Escape \/ SetLocked
      BY <2>7 DEF Unmark, Escape, SetLocked, ime, Document
    <2> QED BY <1>1, <2>3, <2>4, <2>5, <2>6, <2>7 DEF Next
  <1>2. [Next]_vars => [locked /\ ~ResetValue => Document' = Document]_vars
    BY <1>1
  <1> QED BY <1>2, PTL DEF Spec, LockedDocument
================================================================================

------------------------ MODULE AsyncQuadTreeProofs ------------------------
(* Proofs about AsyncQuadTree: its types, that hit objects are neither leaked *)
(* nor freed in use, that the free slots stay exact, that each part is tested *)
(* in one place in its last version, and that a removed part is gone.         *)
EXTENDS AsyncQuadTree, FiniteSetTheorems, FunctionTheorems, SequenceTheorems, TLAPS

-----------------------------------------------------------------------------
(* The invariant, as predicates of the members s, of the collections g made  *)
(* of each part and of the parts P of the table, so that the calls, which    *)
(* are made of several changes of the members, can be followed one change at *)
(* a time.                                                                   *)

\* The tree that the next update ends with: its slots are the free slots'.
Cur(s) == IF s.inProgress THEN s.pendingTree ELSE s.tree

\* The objects in it.
Held(s) == Range(Cur(s)) \ {Null}

\* The free slots are its null entries, each listed once, and it holds no
\* object twice.
SlotsFit(t, slots) ==
  /\ Range(slots) = {i \in DOMAIN t : t[i] = Null}
  /\ IsInjective(slots)
HeldOnce(t) == \A i, j \in DOMAIN t : t[i] = t[j] /\ t[i] # Null => i = j

OnePerPart(l) == \A c, d \in l : c.part = d.part => c = d

\* The dynamic parts are parts of the table, in their last version.
InLastVersion(s, g, P) ==
  \A d \in s.dynamic :
    d.part \in P /\ \E k \in Counts : d.objs = Collected(d.part, g[d.part], k)

OfPart(S, e) == {o \in S : o.part = e}

\* Version n of a part is in the tree to come, in the list of the worker, or
\* neither.
InTree(s, e, n) ==
  ~ IsUpdated(s, e) /\ \E k \in Counts : OfPart(Held(s), e) = Range(Collected(e, n, k))
InUpdate(s, e, n) ==
  /\ OfPart(Held(s), e) = {}
  /\ \E d \in s.updated, k \in Counts : d.part = e /\ d.objs = Collected(e, n, k)
Stored(s, e, n) == InTree(s, e, n) \/ InUpdate(s, e, n)
Nowhere(s, e) == OfPart(Held(s), e) = {} /\ ~ IsUpdated(s, e)

\* A dynamic part is nowhere else, unless an update is under way that has an
\* older version; a static part is stored in its last version.
Place(s, g, P, e) ==
  IF IsDynamic(s, e)
  THEN \/ Nowhere(s, e)
       \/ s.inProgress /\ \E n \in 1 .. g[e] : n # g[e] /\ Stored(s, e, n)
  ELSE IF e \in P THEN Stored(s, e, g[e]) ELSE Nowhere(s, e)

Places(s, g, P) == \A e \in Parts : Place(s, g, P, e)

Allocated(s) == s.allocated = Held(s) \cup ListObjs(s.dynamic) \cup ListObjs(s.updated)

\* While an update is under way the tree has nothing the copy has not.
Copied(s) == s.inProgress => Range(s.tree) \ {Null} \subseteq Range(s.pendingTree)

\* The slots of the tree to come are exact.
Fit(s) == SlotsFit(Cur(s), s.nullSlots) /\ HeldOnce(Cur(s))

Contents(s, g, P) ==
  /\ OnePerPart(s.dynamic)
  /\ OnePerPart(s.updated)
  /\ InLastVersion(s, g, P)
  /\ Allocated(s)
  /\ Copied(s)

Sound(s, g, P) == Fit(s) /\ Contents(s, g, P) /\ Places(s, g, P)

\* An update is with one thread at a time, the worker being at w.
Turns(s, w) ==
  /\ s.waiting + s.ready + (IF w = "moving" THEN 1 ELSE 0) = IF s.inProgress THEN 1 ELSE 0
  /\ ~ s.inProgress => s.updated = {}
  /\ s.ready = 1 => s.updated = {}

Phases ==
  /\ pc \notin {"joining", "closed"} => Turns(q, worker) /\ worker # "ended"
  /\ pc \in {"joining", "closed"} =>
       ~ q.inProgress /\ q.updated = {} /\ q.ready = 0 /\ worker # "moving"
  /\ pc = "closed" => worker = "ended" /\ q.tree = <<>> /\ q.dynamic = {}

\* A part that is removed stays dynamic until it is.
Removing ==
  IF pc = "removing"
  THEN \E e \in present : target = {e} /\ IsDynamic(q, e) /\ ~ IsPending(q, e)
  ELSE target = {}

Inv ==
  /\ TypeOK
  /\ Phases
  /\ Removing
  /\ Fit(q)
  /\ Contents(q, gen, present)
  /\ pc # "closed" => Places(q, gen, present)

-----------------------------------------------------------------------------
(* Sequences of slots.                                                       *)

LEMMA NullApart ==
  /\ Null \notin Obj /\ Null.part \notin Parts
  /\ \A o \in Obj : o.part \in Parts
BY PartsFinite DEF Null, Obj

\* A finite set is listed, each element once.
LEMMA Listing ==
  ASSUME NEW S, IsFiniteSet(S)
  PROVE  /\ SetToSeq(S) \in Seq(S)
         /\ Range(SetToSeq(S)) = S
         /\ IsInjective(SetToSeq(S))
<1> DEFINE n == Cardinality(S)
<1>1. n \in Nat /\ ExistsBijection(1 .. n, S)
  BY FS_CardinalityType
<1>2. PICK f : f \in Bijection(1 .. n, S)
  BY <1>1 DEF ExistsBijection
<1> HIDE DEF n
<1>3. f \in [1 .. n -> S] /\ IsInjective(f)
  BY <1>2 DEF Bijection, Injection, IsInjective
<1> DEFINE g == CHOOSE h \in [1 .. n -> S] : IsInjective(h)
<1>4. g \in [1 .. n -> S] /\ IsInjective(g)
  BY <1>3
<1>5. SetToSeq(S) = g
  BY DEF SetToSeq, n
<1> HIDE DEF g
<1>6. g \in Injection(1 .. n, S)
  BY <1>4 DEF Injection, IsInjective
<1>7. Cardinality(1 .. n) = n
  BY <1>1, FS_Interval
<1>8. g \in Surjection(1 .. n, S)
  BY <1>6, <1>7, FS_Injection DEF n
<1>9. Range(g) = S
  BY <1>4, <1>8 DEF Surjection, Range
<1> QED
  BY <1>1, <1>4, <1>5, <1>9

LEMMA PositionsFinite ==
  ASSUME NEW X, NEW t \in Seq(X), NEW S \in SUBSET DOMAIN t
  PROVE  IsFiniteSet(S)
<1>1. DOMAIN t = 1 .. Len(t) /\ Len(t) \in Nat
  OBVIOUS
<1>2. IsFiniteSet(1 .. Len(t))
  BY <1>1, FS_Interval
<1> QED BY <1>1, <1>2, FS_Subset

\* Two lists without a common element, each without repetition.
LEMMA ConcatOnce ==
  ASSUME NEW X, NEW a \in Seq(X), NEW b \in Seq(X), IsInjective(a), IsInjective(b),
         Range(a) \cap Range(b) = {}
  PROVE  /\ a \o b \in Seq(X) /\ IsInjective(a \o b)
         /\ Range(a \o b) = Range(a) \cup Range(b)
<1> DEFINE m == Len(a)
           k == Len(b)
           c == a \o b
<1>1. /\ m \in Nat /\ k \in Nat /\ c \in Seq(X) /\ Len(c) = m + k
      /\ \A i \in 1 .. m + k : c[i] = IF i <= m THEN a[i] ELSE b[i - m]
  BY ConcatProperties
<1>2. DOMAIN a = 1 .. m /\ DOMAIN b = 1 .. k /\ DOMAIN c = 1 .. m + k
  BY <1>1
<1> HIDE DEF m, k, c
<1>3. \A i \in 1 .. m : i \in 1 .. m + k /\ c[i] = a[i]
  BY <1>1
<1>4. \A j \in 1 .. k : m + j \in 1 .. m + k /\ c[m + j] = b[j]
  BY <1>1
<1>5. \A i \in 1 .. m + k : i \in 1 .. m \/ \E j \in 1 .. k : i = m + j
  <2> SUFFICES ASSUME NEW i \in 1 .. m + k, i \notin 1 .. m
               PROVE  i - m \in 1 .. k /\ i = m + (i - m)
    OBVIOUS
  <2> QED BY <1>1
<1>6. Range(c) = Range(a) \cup Range(b)
  BY <1>2, <1>3, <1>4, <1>5 DEF Range
<1>7. ASSUME NEW x \in 1 .. m + k, NEW y \in 1 .. m + k, c[x] = c[y]
      PROVE  x = y
  <2>1. CASE x \in 1 .. m /\ y \in 1 .. m
    BY <2>1, <1>2, <1>3, <1>7 DEF IsInjective
  <2>2. CASE \E i, j \in 1 .. k : x = m + i /\ y = m + j
    BY <2>2, <1>2, <1>4, <1>7 DEF IsInjective
  <2>3. ASSUME NEW i \in 1 .. m, NEW j \in 1 .. k PROVE c[i] # c[m + j]
    BY <1>2, <1>3, <1>4 DEF Range
  <2> QED BY <1>5, <1>7, <2>1, <2>2, <2>3
<1> QED
  BY <1>1, <1>2, <1>6, <1>7 DEF IsInjective, c

\* What DeleteFromTree does to the slots.
Blanked(t, E) == [i \in DOMAIN t |-> IF i \in Positions(t, E) THEN Null ELSE t[i]]

LEMMA PositionsIn ==
  ASSUME NEW t \in Slots, NEW E \in SUBSET Parts
  PROVE  /\ Positions(t, E) \in SUBSET (DOMAIN t) /\ Positions(t, E) \in SUBSET Nat
         /\ IsFiniteSet(Positions(t, E))
         /\ \A i \in Positions(t, E) : t[i] \in Obj
         /\ ObjectsOf(t, E) = {o \in Range(t) \ {Null} : o.part \in E}
<1>1. t \in Seq(Obj \cup {Null}) /\ DOMAIN t = 1 .. Len(t) /\ Len(t) \in Nat
  BY DEF Slots
<1>2. Positions(t, E) \in SUBSET (DOMAIN t)
  BY DEF Positions
<1>3. IsFiniteSet(Positions(t, E))
  BY <1>1, <1>2, PositionsFinite
<1>4. \A i \in DOMAIN t : t[i] \in Obj \cup {Null}
  BY <1>1
<1>5. \A i \in Positions(t, E) : t[i] \in Obj /\ t[i] # Null
  BY <1>4, NullApart DEF Positions
<1>6. ObjectsOf(t, E) = {o \in Range(t) \ {Null} : o.part \in E}
  BY <1>5 DEF ObjectsOf, Positions, Range
<1> QED
  BY <1>1, <1>2, <1>3, <1>5, <1>6

LEMMA Blanking ==
  ASSUME NEW t \in Slots, NEW slots \in Seq(Nat), NEW E \in SUBSET Parts,
         SlotsFit(t, slots), HeldOnce(t)
  PROVE  /\ Blanked(t, E) \in Slots
         /\ slots \o SetToSeq(Positions(t, E)) \in Seq(Nat)
         /\ SlotsFit(Blanked(t, E), slots \o SetToSeq(Positions(t, E)))
         /\ HeldOnce(Blanked(t, E))
         /\ Range(Blanked(t, E)) \ {Null} = {o \in Range(t) \ {Null} : o.part \notin E}
<1> DEFINE S == Positions(t, E)
           u == Blanked(t, E)
           v == SetToSeq(S)
<1>1. t \in Seq(Obj \cup {Null}) /\ DOMAIN t = 1 .. Len(t) /\ Len(t) \in Nat
  BY DEF Slots
<1>2. S \in SUBSET (DOMAIN t) /\ S \in SUBSET Nat /\ IsFiniteSet(S) /\ \A i \in S : t[i] \in Obj
  BY PositionsIn
<1>3. v \in Seq(Nat) /\ Range(v) = S /\ IsInjective(v)
  <2>1. v \in Seq(S)
    BY <1>2, Listing
  <2>2. v \in Seq(Nat)
    BY <1>2, <2>1
  <2> QED BY <1>2, <2>2, Listing
<1>4. DOMAIN u = DOMAIN t /\ \A i \in DOMAIN t : u[i] = IF i \in S THEN Null ELSE t[i]
  BY DEF Blanked
<1>5. u \in Slots
  BY <1>1, <1>4 DEF Slots, Blanked
<1>6. \A i \in S : t[i] # Null
  BY <1>2, NullApart
<1>7. Range(slots) = {i \in DOMAIN t : t[i] = Null} /\ IsInjective(slots)
  BY DEF SlotsFit
<1> HIDE DEF v, u
<1>8. /\ slots \o v \in Seq(Nat) /\ IsInjective(slots \o v)
      /\ Range(slots \o v) = Range(slots) \cup S
  BY <1>3, <1>6, <1>7, ConcatOnce
<1>9. Range(slots \o v) = {i \in DOMAIN u : u[i] = Null}
  BY <1>2, <1>4, <1>7, <1>8
<1>10. HeldOnce(u)
  BY <1>4 DEF HeldOnce
<1>11. Range(u) \ {Null} = {o \in Range(t) \ {Null} : o.part \notin E}
  <2>1. \A i \in DOMAIN t : i \in S <=> t[i].part \in E
    BY DEF Positions
  <2> QED BY <1>4, <2>1 DEF Range
<1> QED
  BY <1>5, <1>8, <1>9, <1>10, <1>11 DEF SlotsFit, u, v

\* A piece of a list.
LEMMA Piece ==
  ASSUME NEW X, NEW a \in Seq(X), NEW n \in Nat
  PROVE  LET b == SubSeq(a, n + 1, Len(a))
             l == IF n < Len(a) THEN Len(a) - n ELSE 0
         IN  /\ l \in Nat /\ b \in Seq(X) /\ Len(b) = l /\ DOMAIN b = 1 .. l
             /\ \A j \in 1 .. l : n + j \in 1 .. Len(a) /\ b[j] = a[n + j]
<1>1. Len(a) \in Nat
  OBVIOUS
<1>2. CASE n < Len(a)
  BY <1>1, <1>2
<1>3. CASE ~ n < Len(a)
  BY <1>1, <1>3
<1> QED BY <1>2, <1>3

\* What the worker does to the slots when it moves the objects of a part.
LEMMA Placing ==
  ASSUME NEW t \in Slots, NEW slots \in Seq(Nat), NEW objs \in Seq(Obj),
         SlotsFit(t, slots), HeldOnce(t),
         IsInjective(objs), Range(objs) \cap Range(t) = {}
  PROVE  LET c == Placed(t, slots, objs)
             rest == SubSeq(slots, Len(objs) + 1, Len(slots))
         IN  /\ c \in Slots /\ rest \in Seq(Nat)
             /\ SlotsFit(c, rest)
             /\ HeldOnce(c)
             /\ Range(c) \ {Null} = (Range(t) \ {Null}) \cup Range(objs)
<1> DEFINE m == Len(t)
           n == Len(objs)
           p == Len(slots)
           a == [i \in DOMAIN t |->
                  IF \E k \in DOMAIN objs \cap DOMAIN slots : slots[k] = i
                  THEN objs[CHOOSE k \in DOMAIN objs \cap DOMAIN slots : slots[k] = i]
                  ELSE t[i]]
           b == SubSeq(objs, p + 1, n)
           l == IF p < n THEN n - p ELSE 0
           rest == SubSeq(slots, n + 1, p)
           r == IF n < p THEN p - n ELSE 0
           c == a \o b
           At(k) == IF k <= p THEN slots[k] ELSE m + (k - p)
<1>1. /\ t \in Seq(Obj \cup {Null}) /\ DOMAIN t = 1 .. m /\ m \in Nat
      /\ DOMAIN objs = 1 .. n /\ n \in Nat
      /\ DOMAIN slots = 1 .. p /\ p \in Nat
  BY DEF Slots
<1>2. /\ Range(slots) = {i \in DOMAIN t : t[i] = Null}
      /\ \A k, j \in 1 .. p : slots[k] = slots[j] => k = j
  BY <1>1 DEF SlotsFit, IsInjective
<1>3. \A k \in 1 .. p : slots[k] \in 1 .. m /\ t[slots[k]] = Null
  BY <1>1, <1>2 DEF Range
<1>4. /\ \A k \in 1 .. n : objs[k] \in Obj /\ objs[k] # Null
      /\ \A k, j \in 1 .. n : objs[k] = objs[j] => k = j
  BY <1>1, NullApart DEF IsInjective
<1>5. /\ l \in Nat /\ b \in Seq(Obj) /\ Len(b) = l
      /\ \A j \in 1 .. l : p + j \in 1 .. n /\ b[j] = objs[p + j]
  BY <1>1, Piece
<1>6. /\ r \in Nat /\ rest \in Seq(Nat) /\ DOMAIN rest = 1 .. r
      /\ \A j \in 1 .. r : n + j \in 1 .. p /\ rest[j] = slots[n + j]
  BY <1>1, Piece
<1>7. Placed(t, slots, objs) = c
  BY DEF Placed
<1>8. \A k \in 1 .. n : k <= p => a[slots[k]] = objs[k]
  <2> SUFFICES ASSUME NEW k \in 1 .. n, k <= p
               PROVE  a[slots[k]] = objs[k]
    OBVIOUS
  <2>1. k \in DOMAIN objs \cap DOMAIN slots
    BY <1>1
  <2>2. \A j \in DOMAIN objs \cap DOMAIN slots : slots[j] = slots[k] => j = k
    BY <1>1, <1>2, <2>1
  <2>3. (CHOOSE j \in DOMAIN objs \cap DOMAIN slots : slots[j] = slots[k]) = k
    BY <2>1, <2>2
  <2>4. slots[k] \in DOMAIN t
    BY <1>1, <1>3, <2>1
  <2> QED BY <2>1, <2>3, <2>4
<1>9. \A i \in 1 .. m : (\A k \in 1 .. n : k <= p => slots[k] # i) => a[i] = t[i]
  <2> SUFFICES ASSUME NEW i \in 1 .. m, \A k \in 1 .. n : k <= p => slots[k] # i
               PROVE  a[i] = t[i]
    OBVIOUS
  <2>1. ~ \E k \in DOMAIN objs \cap DOMAIN slots : slots[k] = i
    BY <1>1
  <2> QED BY <1>1, <2>1
<1>10. a \in Seq(Obj \cup {Null}) /\ Len(a) = m
  <2>1. \A i \in 1 .. m : a[i] \in Obj \cup {Null}
    <3> TAKE i \in 1 .. m
    <3>1. CASE \E k \in 1 .. n : k <= p /\ slots[k] = i
      BY <3>1, <1>4, <1>8
    <3>2. CASE \A k \in 1 .. n : k <= p => slots[k] # i
      BY <3>2, <1>1, <1>9
    <3> QED BY <3>1, <3>2
  <2>2. a = [i \in 1 .. m |-> a[i]]
    BY <1>1
  <2> HIDE DEF a
  <2> QED BY <1>1, <2>1, <2>2
<1> HIDE DEF a, b, rest
<1>11. /\ c \in Seq(Obj \cup {Null}) /\ Len(c) = m + l
       /\ \A i \in 1 .. m : c[i] = a[i]
       /\ \A j \in 1 .. l : c[m + j] = b[j]
  <2>1. b \in Seq(Obj \cup {Null}) /\ l \in Nat
    <3> HIDE DEF l, m, n, p
    <3> QED BY <1>5
  <2>2. /\ c \in Seq(Obj \cup {Null}) /\ Len(c) = m + l
        /\ \A i \in 1 .. m + l : c[i] = IF i <= m THEN a[i] ELSE b[i - m]
    <3> HIDE DEF l, m
    <3>1. /\ c \in Seq(Obj \cup {Null}) /\ Len(c) = Len(a) + Len(b)
          /\ \A i \in 1 .. Len(a) + Len(b) : c[i] = IF i <= Len(a) THEN a[i] ELSE b[i - Len(a)]
      BY <1>10, <2>1, ConcatProperties
    <3> QED BY <3>1, <1>5, <1>10
  <2>3. \A i \in 1 .. m : i \in 1 .. m + l /\ i <= m
    BY <1>1, <2>1
  <2>4. \A j \in 1 .. l : m + j \in 1 .. m + l /\ ~ (m + j <= m) /\ (m + j) - m = j
    BY <1>1, <2>1
  <2> HIDE DEF c, l, m
  <2> QED BY <2>2, <2>3, <2>4
<1> HIDE DEF c
<1>12. \A k \in 1 .. n : At(k) \in 1 .. m + l /\ c[At(k)] = objs[k]
  <2> TAKE k \in 1 .. n
  <2>1. CASE k <= p
    <3>1. k \in 1 .. p /\ At(k) = slots[k]
      BY <1>1, <2>1
    <3>2. At(k) \in 1 .. m /\ 1 .. m \subseteq 1 .. m + l
      BY <1>1, <1>3, <3>1
    <3> QED BY <2>1, <3>1, <3>2, <1>8, <1>11
  <2>2. CASE ~ k <= p
    <3>1. k - p \in 1 .. l /\ p + (k - p) = k /\ At(k) = m + (k - p)
      BY <1>1, <2>2
    <3>2. m + (k - p) \in 1 .. m + l
      BY <1>1, <3>1
    <3> HIDE DEF At, l, m
    <3> QED BY <3>1, <3>2, <1>5, <1>11
  <2> QED BY <2>1, <2>2
<1>13. \A x \in 1 .. m + l :
         \/ \E k \in 1 .. n : x = At(k)
         \/ x \in 1 .. m /\ c[x] = t[x] /\ \A k \in 1 .. n : k <= p => slots[k] # x
  <2> TAKE x \in 1 .. m + l
  <2>1. CASE x \in 1 .. m
    <3>1. CASE \E k \in 1 .. n : k <= p /\ slots[k] = x
      BY <3>1
    <3>2. CASE \A k \in 1 .. n : k <= p => slots[k] # x
      BY <2>1, <3>2, <1>9, <1>11
    <3> QED BY <3>1, <3>2
  <2>2. CASE x \notin 1 .. m
    <3>1. x - m \in 1 .. l /\ p < n
      BY <1>1, <2>2
    <3>2. p + (x - m) \in 1 .. n /\ ~ (p + (x - m) <= p) /\ x = m + ((p + (x - m)) - p)
      BY <1>1, <3>1
    <3>3. x = At(p + (x - m))
      BY <3>2
    <3> QED BY <3>2, <3>3
  <2> QED BY <2>1, <2>2
<1>14. DOMAIN c = 1 .. m + l /\ c \in Slots
  BY <1>1, <1>11 DEF Slots
<1>15. Range(c) \ {Null} = (Range(t) \ {Null}) \cup Range(objs)
  <2>1. ASSUME NEW x \in 1 .. m + l, c[x] # Null
        PROVE  c[x] \in Range(t) \cup Range(objs)
    <3>1. CASE \E k \in 1 .. n : x = At(k)
      <4>1. PICK k \in 1 .. n : x = At(k)
        BY <3>1
      <4>2. c[x] = objs[k]
        BY <4>1, <1>12
      <4> QED BY <4>2, <1>1 DEF Range
    <3>2. CASE x \in 1 .. m /\ c[x] = t[x]
      BY <3>2, <1>1 DEF Range
    <3> QED BY <3>1, <3>2, <1>13
  <2>2. ASSUME NEW i \in 1 .. m, t[i] # Null
        PROVE  t[i] \in Range(c)
    <3>1. \A k \in 1 .. n : k <= p => slots[k] # i
      BY <1>1, <1>3, <2>2
    <3>2. c[i] = t[i]
      BY <3>1, <1>9, <1>11
    <3>3. i \in 1 .. m + l
      BY <1>1
    <3> QED BY <3>2, <3>3, <1>14 DEF Range
  <2>3. ASSUME NEW k \in 1 .. n
        PROVE  objs[k] \in Range(c) /\ objs[k] # Null
    <3> HIDE DEF At
    <3> QED BY <1>4, <1>12, <1>14 DEF Range
  <2> HIDE DEF m, n, l
  <2> QED BY <1>1, <1>14, <2>1, <2>2, <2>3 DEF Range
<1>16. HeldOnce(c)
  <2> SUFFICES ASSUME NEW x \in 1 .. m + l, NEW y \in 1 .. m + l, c[x] = c[y], c[x] # Null
               PROVE  x = y
    BY <1>14 DEF HeldOnce
  <2>1. \A k \in 1 .. n, i \in 1 .. m : objs[k] # t[i]
    BY <1>1 DEF Range
  <2>2. CASE \E k, j \in 1 .. n : x = At(k) /\ y = At(j)
    <3>1. PICK k \in 1 .. n, j \in 1 .. n : x = At(k) /\ y = At(j)
      BY <2>2
    <3> HIDE DEF At
    <3>2. objs[k] = objs[j]
      BY <3>1, <1>12
    <3> QED BY <3>1, <3>2, <1>4
  <2>3. CASE x \in 1 .. m /\ c[x] = t[x] /\ y \in 1 .. m /\ c[y] = t[y]
    BY <2>3, <1>1 DEF HeldOnce
  <2>4. ASSUME NEW k \in 1 .. n, NEW z \in 1 .. m, c[z] = t[z] PROVE c[At(k)] # c[z]
    BY <2>1, <2>4, <1>12
  <2> HIDE DEF At
  <2> QED BY <1>13, <2>2, <2>3, <2>4
<1>17. SlotsFit(c, rest)
  <2>1. DOMAIN rest = 1 .. r /\ r \in Nat
    BY <1>6
  <2>2. IsInjective(rest)
    <3> SUFFICES ASSUME NEW i \in 1 .. r, NEW j \in 1 .. r, rest[i] = rest[j]
                 PROVE  i = j
      BY <2>1 DEF IsInjective
    <3>1. n + i = n + j
      BY <1>2, <1>6
    <3> QED BY <3>1, <1>1
  <2>3. ASSUME NEW x \in 1 .. m + l, c[x] = Null
        PROVE  \E j \in 1 .. r : rest[j] = x
    <3>1. \A k \in 1 .. n : x # At(k)
      <4> HIDE DEF At
      <4> QED BY <2>3, <1>4, <1>12
    <3>2. x \in 1 .. m /\ t[x] = Null /\ \A k \in 1 .. n : k <= p => slots[k] # x
      <4> HIDE DEF At
      <4> QED BY <3>1, <1>13, <2>3
    <3>3. PICK k \in 1 .. p : slots[k] = x
      BY <3>2, <1>1, <1>2 DEF Range
    <3>4. k \notin 1 .. n
      BY <3>2, <3>3
    <3>5. k - n \in 1 .. r /\ n + (k - n) = k
      BY <3>4, <1>1
    <3> HIDE DEF r
    <3> QED BY <3>3, <3>5, <1>6
  <2>4. ASSUME NEW j \in 1 .. r
        PROVE  rest[j] \in 1 .. m + l /\ c[rest[j]] = Null
    <3> DEFINE x == rest[j]
    <3>1. n + j \in 1 .. p /\ x = slots[n + j]
      BY <1>6
    <3> HIDE DEF x
    <3>2. x \in 1 .. m /\ t[x] = Null /\ x \in 1 .. m + l
      BY <3>1, <1>1, <1>3
    <3>3. \A k \in 1 .. n : k <= p => slots[k] # x
      <4> SUFFICES ASSUME NEW k \in 1 .. n, k <= p, slots[k] = x PROVE FALSE
        OBVIOUS
      <4>1. k \in 1 .. p
        BY <1>1
      <4>2. k = n + j
        BY <4>1, <3>1, <1>2
      <4> QED BY <4>2, <1>1
    <3>4. c[x] = t[x]
      BY <3>2, <3>3, <1>9, <1>11
    <3> QED BY <3>2, <3>4 DEF x
  <2> HIDE DEF m, n, p, r, l, At
  <2>5. Range(rest) = {rest[j] : j \in 1 .. r}
    BY <2>1 DEF Range
  <2>6. {rest[j] : j \in 1 .. r} = {x \in 1 .. m + l : c[x] = Null}
    <3>1. {rest[j] : j \in 1 .. r} \subseteq {x \in 1 .. m + l : c[x] = Null}
      BY <2>4
    <3>2. {x \in 1 .. m + l : c[x] = Null} \subseteq {rest[j] : j \in 1 .. r}
      BY <2>3
    <3> QED BY <3>1, <3>2
  <2> QED BY <1>14, <2>2, <2>5, <2>6 DEF SlotsFit
<1> QED BY <1>6, <1>7, <1>14, <1>15, <1>16, <1>17 DEF rest

\* What the worker does to the slots when the free ones that are left go.
LEMMA Compacting ==
  ASSUME NEW t \in Slots, NEW slots \in Seq(Nat), SlotsFit(t, slots), HeldOnce(t)
  PROVE  LET c == Compacted(t, slots)
         IN  /\ c \in Slots /\ SlotsFit(c, <<>>) /\ HeldOnce(c)
             /\ Range(c) = Range(t) \ {Null}
<1> DEFINE S == {i \in DOMAIN t : t[i] # Null}
           left == SetToSeq(S)
           c == Compacted(t, slots)
<1>1. t \in Seq(Obj \cup {Null}) /\ S \in SUBSET (DOMAIN t) /\ \A i \in DOMAIN t : t[i] \in Obj \cup {Null}
  BY DEF Slots
<1>2. Range(slots) = {i \in DOMAIN t : t[i] = Null}
  BY DEF SlotsFit
<1>3. Range(<<>>) = {} /\ IsInjective(<<>>)
  BY DEF Range, IsInjective
<1>4. CASE slots = <<>>
  <2>1. c = t
    BY <1>4 DEF Compacted
  <2>2. \A i \in DOMAIN t : t[i] # Null
    BY <1>2, <1>3, <1>4
  <2> QED BY <1>4, <2>1, <2>2 DEF Range
<1>5. CASE slots # <<>>
  <2>1. IsFiniteSet(S)
    BY <1>1, PositionsFinite
  <2>2. left \in Seq(S) /\ Range(left) = S /\ IsInjective(left)
    <3> HIDE DEF S
    <3> QED BY <2>1, Listing
  <2>3. c = [k \in DOMAIN left |-> t[left[k]]]
    BY <1>5 DEF Compacted
  <2> HIDE DEF left, c
  <2>4. DOMAIN left = 1 .. Len(left) /\ Len(left) \in Nat /\ \A k \in DOMAIN left : left[k] \in S
    BY <2>2
  <2>5. DOMAIN c = DOMAIN left /\ \A k \in DOMAIN left : c[k] = t[left[k]] /\ c[k] \in Obj /\ c[k] # Null
    BY <1>1, <2>3, <2>4
  <2>6. c \in Slots
    BY <2>3, <2>4, <2>5 DEF Slots
  <2>7. SlotsFit(c, <<>>)
    BY <1>3, <2>5 DEF SlotsFit
  <2>8. HeldOnce(c)
    <3> SUFFICES ASSUME NEW i \in DOMAIN left, NEW j \in DOMAIN left, c[i] = c[j]
                 PROVE  i = j
      BY <2>5 DEF HeldOnce
    <3>1. left[i] \in DOMAIN t /\ left[j] \in DOMAIN t /\ t[left[i]] = t[left[j]] /\ t[left[i]] # Null
      BY <2>4, <2>5
    <3>2. left[i] = left[j]
      BY <3>1 DEF HeldOnce
    <3> QED BY <2>2, <3>2 DEF IsInjective
  <2>9. Range(c) = {t[i] : i \in S}
    BY <2>2, <2>5 DEF Range
  <2> QED BY <2>6, <2>7, <2>8, <2>9 DEF Range, c
<1> QED BY <1>4, <1>5

-----------------------------------------------------------------------------
(* Collections.                                                              *)

LEMMA Collecting ==
  ASSUME NEW e \in Parts, NEW n \in 1 .. MaxGen, NEW k \in Counts
  PROVE  LET objs == Collected(e, n, k)
         IN  /\ objs \in Seq(Obj) /\ IsInjective(objs)
             /\ Range(objs) # {}
             /\ \A o \in Range(objs) : o \in Obj /\ o.part = e /\ o.gen = n
<1> DEFINE objs == Collected(e, n, k)
<1>1. k \in Nat /\ 1 \in 1 .. k
  BY CountsNat
<1>2. objs = [i \in 1 .. k |-> [part |-> e, gen |-> n, n |-> i]]
  BY DEF Collected
<1>3. /\ DOMAIN objs = 1 .. k
      /\ \A i \in 1 .. k : objs[i] = [part |-> e, gen |-> n, n |-> i] /\ objs[i].n = i
  BY <1>2
<1>4. \A i \in 1 .. k : objs[i] \in Obj /\ objs[i].part = e /\ objs[i].gen = n
  BY <1>1, <1>3 DEF Obj
<1>5. objs \in Seq(Obj)
  BY <1>1, <1>2, <1>4
<1>6. IsInjective(objs)
  BY <1>3 DEF IsInjective
<1> HIDE DEF objs
<1>7. objs[1] \in Range(objs) /\ \A o \in Range(objs) : \E i \in 1 .. k : o = objs[i]
  BY <1>1, <1>3 DEF Range
<1> QED BY <1>4, <1>5, <1>6, <1>7 DEF objs

-----------------------------------------------------------------------------
(* Contents and places.                                                      *)

Gens == [Parts -> 1 .. MaxGen]

Entries(l, e) == {d \in l : d.part = e}

\* Where a part is stored depends on its own objects and entries only.
LEMMA PlaceSame ==
  ASSUME NEW s, NEW t, NEW g, NEW h, NEW P, NEW R, NEW e,
         IsDynamic(t, e) <=> IsDynamic(s, e),
         OfPart(Held(t), e) = OfPart(Held(s), e),
         Entries(t.updated, e) = Entries(s.updated, e),
         t.inProgress = s.inProgress \/ ~ IsDynamic(s, e),
         h[e] = g[e], e \in R <=> e \in P
  PROVE  /\ \A n : Stored(t, e, n) <=> Stored(s, e, n)
         /\ Nowhere(t, e) <=> Nowhere(s, e)
         /\ Place(t, h, R, e) <=> Place(s, g, P, e)
<1>1. \A d : d \in t.updated /\ d.part = e <=> d \in s.updated /\ d.part = e
  BY DEF Entries
<1>2. IsUpdated(t, e) <=> IsUpdated(s, e)
  BY <1>1 DEF IsUpdated
<1>3. \A n : Stored(t, e, n) <=> Stored(s, e, n)
  <2> TAKE n
  <2>1. InTree(t, e, n) <=> InTree(s, e, n)
    BY <1>2 DEF InTree
  <2>2. InUpdate(t, e, n) <=> InUpdate(s, e, n)
    BY <1>1 DEF InUpdate
  <2> QED BY <2>1, <2>2 DEF Stored
<1>4. Nowhere(t, e) <=> Nowhere(s, e)
  BY <1>2 DEF Nowhere
<1>5. Place(t, h, R, e) <=> Place(s, g, P, e)
  BY <1>3, <1>4 DEF Place
<1> QED BY <1>3, <1>4, <1>5

LEMMA HeldTypes ==
  ASSUME NEW s \in Members
  PROVE  Held(s) \in SUBSET Obj /\ Cur(s) \in Slots
<1>1. Cur(s) \in Slots
  BY DEF Members, Cur
<1>2. \A i \in DOMAIN Cur(s) : Cur(s)[i] \in Obj \cup {Null}
  BY <1>1 DEF Slots
<1> QED BY <1>1, <1>2 DEF Held, Range

\* What the members hold: the objects of a dynamic part are of its last
\* version, and all others are of another part or of an older version.
LEMMA Apart ==
  ASSUME NEW s \in Members, NEW g \in Gens, NEW P \in SUBSET Parts,
         Contents(s, g, P), Places(s, g, P)
  PROVE  /\ \A d \in s.dynamic : \A o \in Range(d.objs) : o.part = d.part /\ o.gen = g[d.part]
         /\ \A o \in Held(s) : IsDynamic(s, o.part) => o.gen # g[o.part]
         /\ \A d \in s.updated : \A o \in Range(d.objs) :
              o.part = d.part /\ (IsDynamic(s, d.part) => o.gen # g[d.part])
         /\ \A d \in s.updated :
              \E n \in 1 .. g[d.part], k \in Counts :
                d.objs = Collected(d.part, n, k) /\ InUpdate(s, d.part, n)
<1>1. /\ \A d \in s.dynamic \cup s.updated : d \in Entry /\ d.part \in Parts
      /\ \A e \in Parts : g[e] \in 1 .. MaxGen
      /\ \A e \in Parts : 1 .. g[e] \subseteq 1 .. MaxGen
  BY MaxGenNat DEF Members, Entry, Gens
<1>2. \A d \in s.dynamic : \A o \in Range(d.objs) : o.part = d.part /\ o.gen = g[d.part]
  <2> SUFFICES ASSUME NEW d \in s.dynamic
               PROVE  \A o \in Range(d.objs) : o.part = d.part /\ o.gen = g[d.part]
    OBVIOUS
  <2>1. PICK k \in Counts : d.objs = Collected(d.part, g[d.part], k)
    BY DEF Contents, InLastVersion
  <2> QED BY <1>1, <2>1, Collecting
<1>3. \A e \in Parts : IsDynamic(s, e) =>
        Nowhere(s, e) \/ \E n \in 1 .. g[e] : n # g[e] /\ Stored(s, e, n)
  BY DEF Places, Place
<1>4. \A o \in Held(s) : IsDynamic(s, o.part) => o.gen # g[o.part]
  <2> SUFFICES ASSUME NEW o \in Held(s), IsDynamic(s, o.part)
               PROVE  o.gen # g[o.part]
    OBVIOUS
  <2>1. o \in Obj /\ o.part \in Parts
    BY HeldTypes, NullApart
  <2> DEFINE e == o.part
  <2>2. o \in OfPart(Held(s), e)
    BY DEF OfPart
  <2>3. PICK n \in 1 .. g[e] : n # g[e] /\ Stored(s, e, n)
    BY <1>3, <2>1, <2>2 DEF Nowhere
  <2>4. PICK k \in Counts : OfPart(Held(s), e) = Range(Collected(e, n, k))
    BY <2>2, <2>3 DEF Stored, InTree, InUpdate
  <2> HIDE DEF e
  <2>5. o.gen = n
    BY <1>1, <2>1, <2>2, <2>4, Collecting DEF e
  <2> QED BY <2>3, <2>5 DEF e
<1>5. ASSUME NEW d \in s.updated
      PROVE  \E n \in 1 .. g[d.part], k \in Counts :
               /\ d.objs = Collected(d.part, n, k) /\ InUpdate(s, d.part, n)
               /\ IsDynamic(s, d.part) => n # g[d.part]
  <2> DEFINE e == d.part
  <2>1. e \in Parts /\ IsUpdated(s, e)
    BY <1>1 DEF IsUpdated
  <2>2. ~ Nowhere(s, e) /\ Place(s, g, P, e) /\ g[e] \in 1 .. g[e]
    BY <1>1, <2>1 DEF Nowhere, Places
  <2>3. PICK n \in 1 .. g[e] : Stored(s, e, n) /\ (IsDynamic(s, e) => n # g[e])
    BY <2>2 DEF Place
  <2>4. InUpdate(s, e, n)
    BY <2>1, <2>3 DEF Stored, InTree
  <2>5. PICK c \in s.updated, k \in Counts : c.part = e /\ c.objs = Collected(e, n, k)
    BY <2>4 DEF InUpdate
  <2>6. c = d
    BY <2>5 DEF Contents, OnePerPart
  <2> QED BY <2>3, <2>4, <2>5, <2>6
<1>6. \A d \in s.updated : \A o \in Range(d.objs) :
        o.part = d.part /\ (IsDynamic(s, d.part) => o.gen # g[d.part])
  <2> SUFFICES ASSUME NEW d \in s.updated, NEW o \in Range(d.objs)
               PROVE  o.part = d.part /\ (IsDynamic(s, d.part) => o.gen # g[d.part])
    OBVIOUS
  <2>1. PICK n \in 1 .. g[d.part], k \in Counts :
          d.objs = Collected(d.part, n, k) /\ (IsDynamic(s, d.part) => n # g[d.part])
    BY <1>5
  <2>2. d.part \in Parts /\ n \in 1 .. MaxGen
    BY <1>1
  <2>3. o.part = d.part /\ o.gen = n
    BY <2>1, <2>2, Collecting
  <2> QED BY <2>1, <2>3
<1> QED
  <2>1. \A d \in s.updated : \E n \in 1 .. g[d.part], k \in Counts :
          d.objs = Collected(d.part, n, k) /\ InUpdate(s, d.part, n)
    BY <1>5
  <2> QED BY <1>2, <1>4, <1>6, <2>1

-----------------------------------------------------------------------------
(* The changes that the calls are made of.                                   *)

LEMMA ListObjsTypes ==
  ASSUME NEW l \in SUBSET Entry
  PROVE  ListObjs(l) \in SUBSET Obj
<1> SUFFICES ASSUME NEW d \in l PROVE Range(d.objs) \subseteq Obj
  BY DEF ListObjs
<1>1. d.objs \in Seq(Obj)
  BY DEF Entry
<1> QED BY <1>1 DEF Range

\* No object that is deleted from the tree is in a list.
TreeOnly(s, E) ==
  \A o \in ListObjs(s.dynamic) \cup ListObjs(s.updated) : o \in Held(s) => o.part \notin E

\* Objects of parts that no list has are deleted from the tree.
LEMMA Deleting ==
  ASSUME NEW s \in Members, NEW g, NEW P, NEW E \in SUBSET Parts,
         ~ s.inProgress, Fit(s), Contents(s, g, P), TreeOnly(s, E)
  PROVE  LET t == DeleteFromTree(s, E)
         IN  /\ t \in Members /\ Fit(t) /\ Contents(t, g, P)
             /\ \A o : o \in Held(t) <=> o \in Held(s) /\ o.part \notin E
             /\ t.dynamic = s.dynamic /\ t.updated = s.updated
             /\ t.inProgress = s.inProgress
             /\ t.waiting = s.waiting /\ t.ready = s.ready
<1> DEFINE t == DeleteFromTree(s, E)
<1>1. s.tree \in Slots /\ s.nullSlots \in Seq(Nat) /\ s.allocated \in SUBSET Obj
  BY DEF Members
<1>2. Cur(s) = s.tree /\ SlotsFit(s.tree, s.nullSlots) /\ HeldOnce(s.tree)
  BY DEF Cur, Fit
<1>3. t = [s EXCEPT !.tree = Blanked(s.tree, E),
                    !.nullSlots = s.nullSlots \o SetToSeq(Positions(s.tree, E)),
                    !.allocated = s.allocated \ ObjectsOf(s.tree, E)]
  BY DEF DeleteFromTree, Blanked
<1>4. /\ Blanked(s.tree, E) \in Slots
      /\ s.nullSlots \o SetToSeq(Positions(s.tree, E)) \in Seq(Nat)
      /\ SlotsFit(Blanked(s.tree, E), s.nullSlots \o SetToSeq(Positions(s.tree, E)))
      /\ HeldOnce(Blanked(s.tree, E))
      /\ Range(Blanked(s.tree, E)) \ {Null} = {o \in Range(s.tree) \ {Null} : o.part \notin E}
  BY <1>1, <1>2, Blanking
<1>5. s.allocated \ ObjectsOf(s.tree, E) \in SUBSET Obj
  BY <1>1
<1>6. t \in Members
  BY <1>3, <1>4, <1>5 DEF Members
<1>7. /\ t.tree = Blanked(s.tree, E)
      /\ t.nullSlots = s.nullSlots \o SetToSeq(Positions(s.tree, E))
      /\ t.allocated = s.allocated \ ObjectsOf(s.tree, E)
      /\ t.dynamic = s.dynamic /\ t.updated = s.updated /\ t.inProgress = s.inProgress
      /\ t.waiting = s.waiting /\ t.ready = s.ready
  BY <1>3 DEF Members
<1> HIDE DEF t
<1>8. Cur(t) = t.tree
  BY <1>7 DEF Cur
<1>9. Fit(t) /\ Held(t) = {o \in Held(s) : o.part \notin E}
  BY <1>2, <1>4, <1>7, <1>8 DEF Fit, Held
<1>10. Allocated(t)
  <2>1. ObjectsOf(s.tree, E) = {o \in Held(s) : o.part \in E}
    BY <1>1, <1>2, PositionsIn DEF Held
  <2>2. Allocated(s)
    BY DEF Contents
  <2>3. t.allocated = (Held(s) \cup ListObjs(s.dynamic) \cup ListObjs(s.updated))
                        \ {o \in Held(s) : o.part \in E}
    BY <1>7, <2>1, <2>2 DEF Allocated
  <2>4. t.allocated = {o \in Held(s) : o.part \notin E} \cup ListObjs(s.dynamic) \cup ListObjs(s.updated)
    BY <2>3 DEF TreeOnly
  <2> QED BY <1>7, <1>9, <2>4 DEF Allocated
<1>11. Contents(t, g, P)
  BY <1>7, <1>10 DEF Contents, InLastVersion, Copied
<1> QED BY <1>6, <1>7, <1>9, <1>11 DEF t

\* A dynamic part is erased; whatever is said of its versions.
LEMMA Dropping ==
  ASSUME NEW s \in Members, NEW g \in Gens, NEW P \in SUBSET Parts, NEW e \in Parts,
         Fit(s), Contents(s, g, P), Places(s, g, P), IsDynamic(s, e),
         NEW h, NEW R, \A x \in P \ {e} : h[x] = g[x] /\ x \in R
  PROVE  LET t == DropDynamic(s, e)
         IN  /\ t \in Members /\ Fit(t) /\ Contents(t, h, R)
             /\ Cur(t) = Cur(s) /\ Held(t) = Held(s)
             /\ t.dynamic = {d \in s.dynamic : d.part # e} /\ t.updated = s.updated
             /\ t.inProgress = s.inProgress
             /\ t.waiting = s.waiting /\ t.ready = s.ready
<1> DEFINE t == DropDynamic(s, e)
           D == {d \in s.dynamic : d.part # e}
           C == {d \in s.dynamic : d.part = e}
<1>1. /\ t = [s EXCEPT !.dynamic = D, !.allocated = s.allocated \ ListObjs(C)]
      /\ D \in SUBSET Entry /\ s.allocated \ ListObjs(C) \in SUBSET Obj
  BY DEF DropDynamic, Members
<1>2. t \in Members
  BY <1>1 DEF Members
<1>3. /\ t.tree = s.tree /\ t.pendingTree = s.pendingTree /\ t.nullSlots = s.nullSlots
      /\ t.dynamic = D /\ t.updated = s.updated /\ t.inProgress = s.inProgress
      /\ t.allocated = s.allocated \ ListObjs(C)
      /\ t.waiting = s.waiting /\ t.ready = s.ready
  BY <1>1 DEF Members
<1> HIDE DEF t
<1>4. Cur(t) = Cur(s) /\ Held(t) = Held(s) /\ Fit(t)
  BY <1>3 DEF Cur, Held, Fit
<1>5. Allocated(t)
  <2>1. ListObjs(s.dynamic) = ListObjs(D) \cup ListObjs(C)
    BY DEF ListObjs
  <2>2. \A o \in ListObjs(C) : o.part = e /\ o.gen = g[e]
    BY Apart DEF ListObjs
  <2>3. \A o \in ListObjs(D) : o.part # e
    BY Apart DEF ListObjs
  <2>4. \A o \in Held(s) : o.part = e => o.gen # g[e]
    BY Apart
  <2>5. \A o \in ListObjs(s.updated) : o.part = e => o.gen # g[e]
    BY Apart DEF ListObjs
  <2>6. s.allocated = Held(s) \cup ListObjs(s.dynamic) \cup ListObjs(s.updated)
    BY DEF Contents, Allocated
  <2>7. t.allocated = Held(s) \cup ListObjs(D) \cup ListObjs(s.updated)
    <3> HIDE DEF D, C
    <3> QED BY <1>3, <2>1, <2>2, <2>3, <2>4, <2>5, <2>6
  <2> QED BY <1>3, <1>4, <2>7 DEF Allocated
<1>6. InLastVersion(t, h, R)
  <2>1. \A d \in s.dynamic : d.part \in P /\ \E k \in Counts : d.objs = Collected(d.part, g[d.part], k)
    BY DEF Contents, InLastVersion
  <2> QED BY <1>3, <2>1 DEF InLastVersion
<1>7. OnePerPart(t.dynamic) /\ OnePerPart(t.updated) /\ Copied(t)
  BY <1>3 DEF Contents, OnePerPart, Copied
<1> QED BY <1>2, <1>3, <1>4, <1>5, <1>6, <1>7 DEF Contents, t

\* A part is made dynamic, in a new version.
LEMMA Adding ==
  ASSUME NEW s \in Members, NEW g \in Gens, NEW P \in SUBSET Parts, NEW e \in P, NEW k \in Counts,
         Fit(s), Contents(s, g, P), ~ IsDynamic(s, e)
  PROVE  LET t == AddDynamic(s, e, Collected(e, g[e], k))
         IN  /\ t \in Members /\ Fit(t) /\ Contents(t, g, P)
             /\ Cur(t) = Cur(s) /\ Held(t) = Held(s)
             /\ t.updated = s.updated /\ t.inProgress = s.inProgress
             /\ t.waiting = s.waiting /\ t.ready = s.ready
             /\ \A d : d \in t.dynamic <=>
                  d \in s.dynamic \/ d = [part |-> e, pending |-> FALSE, objs |-> Collected(e, g[e], k)]
<1> DEFINE objs == Collected(e, g[e], k)
           c == [part |-> e, pending |-> FALSE, objs |-> objs]
           t == AddDynamic(s, e, objs)
<1>1. objs \in Seq(Obj) /\ e \in Parts /\ Range(objs) \in SUBSET Obj
  <2>1. e \in Parts /\ g[e] \in 1 .. MaxGen
    BY DEF Gens
  <2>2. objs \in Seq(Obj) /\ \A o \in Range(objs) : o \in Obj
    BY <2>1, Collecting
  <2> QED BY <2>1, <2>2
<1> HIDE DEF objs
<1>2. c \in Entry /\ c.part = e /\ c.objs = objs
  BY <1>1 DEF Entry
<1>3. t = [s EXCEPT !.dynamic = s.dynamic \cup {c}, !.allocated = s.allocated \cup Range(objs)]
  BY DEF AddDynamic
<1>4. s.dynamic \cup {c} \in SUBSET Entry /\ s.allocated \cup Range(objs) \in SUBSET Obj
  BY <1>1, <1>2 DEF Members
<1>5. t \in Members
  BY <1>3, <1>4 DEF Members
<1>6. /\ t.tree = s.tree /\ t.pendingTree = s.pendingTree /\ t.nullSlots = s.nullSlots
      /\ t.dynamic = s.dynamic \cup {c} /\ t.updated = s.updated /\ t.inProgress = s.inProgress
      /\ t.allocated = s.allocated \cup Range(objs)
      /\ t.waiting = s.waiting /\ t.ready = s.ready
  BY <1>3 DEF Members
<1> HIDE DEF t, c
<1>7. Cur(t) = Cur(s) /\ Held(t) = Held(s) /\ Fit(t)
  BY <1>6 DEF Cur, Held, Fit
<1>8. Allocated(t)
  <2>1. ListObjs(t.dynamic) = ListObjs(s.dynamic) \cup Range(objs)
    BY <1>2, <1>6 DEF ListObjs
  <2>2. Allocated(s)
    BY DEF Contents
  <2> QED BY <1>6, <1>7, <2>1, <2>2 DEF Allocated
<1>9. InLastVersion(t, g, P)
  BY <1>2, <1>6 DEF InLastVersion, Contents, objs
<1>10. OnePerPart(t.dynamic)
  BY <1>2, <1>6 DEF Contents, OnePerPart, IsDynamic
<1>11. OnePerPart(t.updated) /\ Copied(t)
  BY <1>6 DEF Contents, OnePerPart, Copied
<1> QED BY <1>5, <1>6, <1>7, <1>8, <1>9, <1>10, <1>11 DEF Contents, t, c, objs

-----------------------------------------------------------------------------
(* The calls.                                                                *)

\* The dynamic parts are marked anew, as waiting for their inclusion or not.
Marked(s, D) == [s EXCEPT !.dynamic = D]

SameParts(l, D) ==
  /\ \A d \in l : \E c \in D : c.part = d.part /\ c.objs = d.objs
  /\ \A c \in D : \E d \in l : c.part = d.part /\ c.objs = d.objs

LEMMA Marking ==
  ASSUME NEW s \in Members, NEW g \in Gens, NEW P \in SUBSET Parts, NEW D \in SUBSET Entry,
         SameParts(s.dynamic, D), OnePerPart(D), Sound(s, g, P)
  PROVE  LET t == Marked(s, D)
         IN  /\ t \in Members /\ Sound(t, g, P)
             /\ t.dynamic = D /\ t.updated = s.updated /\ t.inProgress = s.inProgress
             /\ t.waiting = s.waiting /\ t.ready = s.ready
             /\ \A x : IsDynamic(t, x) <=> IsDynamic(s, x)
<1> DEFINE t == Marked(s, D)
<1>1. t = [s EXCEPT !.dynamic = D]
  BY DEF Marked
<1>2. t \in Members
  BY <1>1 DEF Members
<1>3. /\ t.tree = s.tree /\ t.pendingTree = s.pendingTree /\ t.nullSlots = s.nullSlots
      /\ t.dynamic = D /\ t.updated = s.updated /\ t.inProgress = s.inProgress
      /\ t.allocated = s.allocated
      /\ t.waiting = s.waiting /\ t.ready = s.ready
  BY <1>1 DEF Members
<1> HIDE DEF t
<1>4. Cur(t) = Cur(s) /\ Held(t) = Held(s) /\ Fit(t)
  BY <1>3 DEF Cur, Held, Fit, Sound
<1>5. \A x : IsDynamic(t, x) <=> IsDynamic(s, x)
  BY <1>3 DEF IsDynamic, SameParts
<1>6. Contents(t, g, P)
  <2>1. Contents(s, g, P)
    BY DEF Sound
  <2>2. InLastVersion(t, g, P)
    BY <1>3, <2>1 DEF Contents, InLastVersion, SameParts
  <2>3. ListObjs(t.dynamic) = ListObjs(s.dynamic)
    BY <1>3 DEF ListObjs, SameParts
  <2>4. Allocated(t) /\ OnePerPart(t.dynamic) /\ OnePerPart(t.updated) /\ Copied(t)
    BY <1>3, <1>4, <2>1, <2>3 DEF Contents, Allocated, Copied
  <2> QED BY <2>2, <2>4 DEF Contents
<1>7. Places(t, g, P)
  BY <1>3, <1>4, <1>5, PlaceSame DEF Places, Sound
<1> QED BY <1>2, <1>3, <1>4, <1>5, <1>6, <1>7 DEF Sound, t

LEMMA MarkedPending ==
  ASSUME NEW s \in Members, NEW g \in Gens, NEW P \in SUBSET Parts, NEW e \in Parts,
         Sound(s, g, P)
  PROVE  LET t == SetPending(s, e, TRUE)
         IN  /\ t \in Members /\ Sound(t, g, P)
             /\ t.updated = s.updated /\ t.inProgress = s.inProgress
             /\ t.waiting = s.waiting /\ t.ready = s.ready
<1> DEFINE F(d) == IF d.part = e THEN [d EXCEPT !.pending = TRUE] ELSE d
           D == {F(d) : d \in s.dynamic}
           t == Marked(s, D)
<1>1. \A d \in s.dynamic : F(d) \in Entry /\ F(d).part = d.part /\ F(d).objs = d.objs
  BY DEF Members, Entry
<1>2. SetPending(s, e, TRUE) = t
  BY DEF SetPending, Marked
<1> HIDE DEF F
<1>3. D \in SUBSET Entry /\ SameParts(s.dynamic, D)
  BY <1>1 DEF SameParts
<1>4. OnePerPart(D)
  BY <1>1 DEF OnePerPart, Sound, Contents
<1> HIDE DEF D, t
<1>5. /\ t \in Members /\ Sound(t, g, P)
      /\ t.updated = s.updated /\ t.inProgress = s.inProgress
      /\ t.waiting = s.waiting /\ t.ready = s.ready
  BY <1>3, <1>4, Marking DEF t
<1> QED BY <1>2, <1>5

LEMMA MarkedDynamic ==
  ASSUME NEW s \in Members, NEW g \in Gens, NEW P \in SUBSET Parts, NEW e \in Parts,
         Sound(s, g, P), IsDynamic(s, e)
  PROVE  LET t == SetPending(s, e, FALSE)
         IN  /\ t \in Members /\ Sound(t, g, P)
             /\ t.updated = s.updated /\ t.inProgress = s.inProgress
             /\ t.waiting = s.waiting /\ t.ready = s.ready
             /\ IsDynamic(t, e) /\ ~ IsPending(t, e)
<1> DEFINE F(d) == IF d.part = e THEN [d EXCEPT !.pending = FALSE] ELSE d
           D == {F(d) : d \in s.dynamic}
           t == Marked(s, D)
<1>1. \A d \in s.dynamic : /\ F(d) \in Entry /\ F(d).part = d.part /\ F(d).objs = d.objs
                           /\ d.part = e => ~ F(d).pending
  BY DEF Members, Entry
<1>2. SetPending(s, e, FALSE) = t
  BY DEF SetPending, Marked
<1> HIDE DEF F
<1>3. D \in SUBSET Entry /\ SameParts(s.dynamic, D)
  BY <1>1 DEF SameParts
<1>4. OnePerPart(D)
  BY <1>1 DEF OnePerPart, Sound, Contents
<1>5. \A d \in D : d.part = e => ~ d.pending
  BY <1>1
<1> HIDE DEF D, t
<1>6. /\ t \in Members /\ Sound(t, g, P)
      /\ t.dynamic = D /\ t.updated = s.updated /\ t.inProgress = s.inProgress
      /\ t.waiting = s.waiting /\ t.ready = s.ready
      /\ IsDynamic(t, e)
  BY <1>3, <1>4, Marking DEF t
<1>7. ~ IsPending(t, e)
  BY <1>5, <1>6 DEF IsPending
<1> QED BY <1>2, <1>6, <1>7

\* A finished update becomes the tree.
LEMMA Swapping ==
  ASSUME NEW s \in Members, NEW g \in Gens, NEW P \in SUBSET Parts, Sound(s, g, P),
         s.ready = 1, s.inProgress, s.updated = {}
  PROVE  LET t == Swapped(s)
         IN  /\ t \in Members /\ Sound(t, g, P)
             /\ t.dynamic = s.dynamic /\ t.updated = {} /\ t.inProgress = FALSE
             /\ t.waiting = s.waiting /\ t.ready = 0
<1> DEFINE r == Replaced(s)
           E == {d.part : d \in s.dynamic}
           t == Swapped(s)
<1>1. r = [s EXCEPT !.inProgress = FALSE, !.ready = s.ready - 1, !.tree = s.pendingTree]
  BY DEF Replaced
<1>2. s.ready - 1 = 0 /\ s.ready - 1 \in 0 .. 1 /\ s.pendingTree \in Slots
  BY DEF Members
<1>3. r \in Members
  BY <1>1, <1>2 DEF Members
<1>4. /\ r.tree = s.pendingTree /\ r.nullSlots = s.nullSlots
      /\ r.dynamic = s.dynamic /\ r.updated = {} /\ r.inProgress = FALSE
      /\ r.allocated = s.allocated
      /\ r.waiting = s.waiting /\ r.ready = 0
  BY <1>1, <1>2 DEF Members
<1>5. t = DeleteFromTree(r, E)
  BY DEF Swapped
<1> HIDE DEF r, t
<1>6. Cur(r) = Cur(s) /\ Held(r) = Held(s) /\ Fit(r)
  BY <1>4 DEF Cur, Held, Fit, Sound
<1>7. Contents(r, g, P)
  BY <1>4, <1>6 DEF Contents, Allocated, InLastVersion, Copied, Sound
<1>8. E \in SUBSET Parts
  BY DEF Members, Entry
<1>9. TreeOnly(r, E)
  <2>1. Contents(s, g, P) /\ Places(s, g, P)
    BY DEF Sound
  <2>2. \A o \in ListObjs(s.dynamic) : o.gen = g[o.part] /\ IsDynamic(s, o.part)
    BY <2>1, Apart DEF ListObjs, IsDynamic
  <2>3. \A o \in ListObjs(s.dynamic) : o \notin Held(s)
    BY <2>1, <2>2, Apart
  <2>4. ListObjs({}) = {}
    BY DEF ListObjs
  <2> QED BY <1>4, <1>6, <2>3, <2>4 DEF TreeOnly
<1>10. /\ t \in Members /\ Fit(t) /\ Contents(t, g, P)
       /\ \A o : o \in Held(t) <=> o \in Held(r) /\ o.part \notin E
       /\ t.dynamic = r.dynamic /\ t.updated = r.updated
       /\ t.inProgress = r.inProgress
       /\ t.waiting = r.waiting /\ t.ready = r.ready
  <2> DEFINE u == DeleteFromTree(r, E)
  <2>1. ~ r.inProgress
    BY <1>4
  <2> HIDE DEF E
  <2>2. /\ u \in Members /\ Fit(u) /\ Contents(u, g, P)
        /\ \A o : o \in Held(u) <=> o \in Held(r) /\ o.part \notin E
        /\ u.dynamic = r.dynamic /\ u.updated = r.updated
        /\ u.inProgress = r.inProgress
        /\ u.waiting = r.waiting /\ u.ready = r.ready
    BY <1>3, <1>6, <1>7, <1>8, <1>9, <2>1, Deleting
  <2> HIDE DEF u
  <2>3. t = u
    BY <1>5 DEF u
  <2> QED BY <2>2, <2>3
<1>11. Places(t, g, P)
  <2> SUFFICES ASSUME NEW e \in Parts PROVE Place(t, g, P, e)
    BY DEF Places
  <2>1. IsDynamic(t, e) <=> IsDynamic(s, e)
    BY <1>4, <1>10 DEF IsDynamic
  <2>2. e \in E <=> IsDynamic(s, e)
    BY DEF IsDynamic
  <2>3. CASE IsDynamic(s, e)
    <3>1. OfPart(Held(t), e) = {} /\ ~ IsUpdated(t, e)
      BY <1>4, <1>10, <2>2, <2>3 DEF OfPart, IsUpdated
    <3> QED BY <2>1, <2>3, <3>1 DEF Place, Nowhere
  <2>4. CASE ~ IsDynamic(s, e)
    <3>1. OfPart(Held(t), e) = OfPart(Held(s), e)
      BY <1>6, <1>10, <2>2, <2>4 DEF OfPart
    <3>2. Entries(t.updated, e) = Entries(s.updated, e)
      BY <1>4, <1>10
    <3>3. Place(s, g, P, e)
      BY DEF Sound, Places
    <3> QED BY <2>1, <2>4, <3>1, <3>2, <3>3, PlaceSame
  <2> QED BY <2>3, <2>4
<1> QED BY <1>4, <1>10, <1>11 DEF Sound, t

\* The parts that wait for their inclusion are handed over.
LEMMA Starting ==
  ASSUME NEW s \in Members, NEW g \in Gens, NEW P \in SUBSET Parts, Sound(s, g, P),
         ~ s.inProgress, s.updated = {}, s.waiting = 0
  PROVE  LET t == Started(s)
         IN  /\ t \in Members /\ Sound(t, g, P)
             /\ t.ready = s.ready
             /\ \A d \in s.dynamic : ~ d.pending => d \in t.dynamic
             /\ t.dynamic \subseteq s.dynamic
             /\ \/ ~ t.inProgress /\ t.updated = {} /\ t.waiting = 0
                \/ t.inProgress /\ t.waiting = 1
<1> DEFINE D == {d \in s.dynamic : d.pending}
           t == Started(s)
<1>1. CASE D = {}
  <2>1. t = s
    BY <1>1 DEF Started, CannotStart
  <2> QED BY <2>1
<1>2. CASE D # {}
  <2>1. t = [s EXCEPT !.updated = s.updated \cup D, !.dynamic = s.dynamic \ D,
                      !.inProgress = TRUE, !.pendingTree = s.tree, !.waiting = s.waiting + 1]
    BY <1>2 DEF Started, CannotStart
  <2>2. /\ s.updated \cup D \in SUBSET Entry /\ s.dynamic \ D \in SUBSET Entry
        /\ s.tree \in Slots
    BY DEF Members
  <2>3. s.waiting + 1 = 1 /\ s.waiting + 1 \in 0 .. 1
    OBVIOUS
  <2>4. t \in Members
    BY <2>1, <2>2, <2>3 DEF Members
  <2>5. /\ t.tree = s.tree /\ t.pendingTree = s.tree /\ t.nullSlots = s.nullSlots
        /\ t.dynamic = s.dynamic \ D /\ t.updated = D /\ t.inProgress = TRUE
        /\ t.allocated = s.allocated
        /\ t.waiting = 1 /\ t.ready = s.ready
    BY <2>1, <2>3 DEF Members
  <2> HIDE DEF t
  <2>6. Cur(t) = Cur(s) /\ Held(t) = Held(s) /\ Fit(t)
    BY <2>5 DEF Cur, Held, Fit, Sound
  <2>7. Contents(t, g, P)
    <3>1. ListObjs(t.dynamic) \cup ListObjs(t.updated) = ListObjs(s.dynamic) \cup ListObjs(s.updated)
      BY <2>5 DEF ListObjs
    <3>2. Contents(s, g, P)
      BY DEF Sound
    <3>3. Allocated(t)
      BY <2>5, <2>6, <3>1, <3>2 DEF Allocated, Contents
    <3>4. OnePerPart(t.dynamic) /\ OnePerPart(t.updated) /\ InLastVersion(t, g, P)
      BY <2>5, <3>2 DEF OnePerPart, InLastVersion, Contents
    <3>5. Copied(t)
      BY <2>5 DEF Copied
    <3> QED BY <3>3, <3>4, <3>5 DEF Contents
  <2>8. Places(t, g, P)
    <3> SUFFICES ASSUME NEW e \in Parts PROVE Place(t, g, P, e)
      BY DEF Places
    <3>1. Place(s, g, P, e) /\ Contents(s, g, P)
      BY DEF Sound, Places
    <3>2. CASE \E d \in D : d.part = e
      <4>1. PICK d \in D : d.part = e
        BY <3>2
      <4>2. IsDynamic(s, e) /\ Nowhere(s, e)
        BY <4>1, <3>1 DEF IsDynamic, Place
      <4>3. ~ IsDynamic(t, e)
        BY <4>1, <3>1, <2>5 DEF IsDynamic, Contents, OnePerPart
      <4>4. e \in P /\ \E k \in Counts : d.objs = Collected(e, g[e], k)
        BY <4>1, <3>1 DEF Contents, InLastVersion
      <4>5. InUpdate(t, e, g[e])
        <5> HIDE DEF D
        <5> QED BY <4>1, <4>2, <4>4, <2>5, <2>6 DEF InUpdate, Nowhere
      <4> QED BY <4>3, <4>4, <4>5 DEF Place, Stored
    <3>3. CASE \A d \in D : d.part # e
      <4>1. IsDynamic(t, e) <=> IsDynamic(s, e)
        BY <3>3, <2>5 DEF IsDynamic
      <4>2. Entries(t.updated, e) = Entries(s.updated, e)
        BY <3>3, <2>5 DEF Entries
      <4>3. CASE IsDynamic(s, e)
        <5>1. Nowhere(s, e)
          BY <4>3, <3>1 DEF Place
        <5>2. Nowhere(t, e)
          BY <5>1, <3>3, <2>5, <2>6 DEF Nowhere, IsUpdated
        <5> QED BY <4>1, <4>3, <5>2 DEF Place
      <4>4. CASE ~ IsDynamic(s, e)
        BY <4>1, <4>2, <4>4, <2>6, <3>1, PlaceSame
      <4> QED BY <4>3, <4>4
    <3> QED BY <3>2, <3>3
  <2>9. (\A d \in s.dynamic : ~ d.pending => d \in t.dynamic) /\ t.dynamic \subseteq s.dynamic
    BY <2>5
  <2> QED BY <2>4, <2>5, <2>6, <2>7, <2>8, <2>9 DEF Sound, t
<1> QED BY <1>1, <1>2

LEMMA Updating ==
  ASSUME NEW s \in Members, NEW g \in Gens, NEW P \in SUBSET Parts, Sound(s, g, P),
         NEW w, Turns(s, w)
  PROVE  LET t == UpdateAsync(s)
         IN  /\ t \in Members /\ Sound(t, g, P) /\ Turns(t, w)
             /\ \A d \in s.dynamic : ~ d.pending => d \in t.dynamic
             /\ t.dynamic \subseteq s.dynamic
<1> DEFINE r == Swapped(s)
           t == Started(r)
<1>1. UpdateAsync(s) = t
  BY DEF UpdateAsync
<1>2. s.waiting \in 0 .. 1 /\ s.ready \in 0 .. 1 /\ s.inProgress \in BOOLEAN
  BY DEF Members
<1>3. /\ s.ready = 1 => s.inProgress = TRUE /\ s.waiting = 0 /\ w # "moving"
      /\ s.inProgress = FALSE => s.waiting = 0 /\ s.ready = 0 /\ w # "moving"
  BY <1>2 DEF Turns
<1>4. CASE s.ready = 0 /\ s.inProgress = TRUE
  <2>1. r = s /\ t = s
    BY <1>4 DEF Swapped, Started, CannotStart
  <2> QED BY <1>1, <2>1
<1>5. CASE s.ready = 1 \/ s.inProgress = FALSE
  <2>1. /\ r \in Members /\ Sound(r, g, P) /\ r.dynamic = s.dynamic
        /\ r.updated = {} /\ r.inProgress = FALSE /\ r.waiting = 0 /\ r.ready = 0
    <3>1. CASE s.ready = 1
      BY <3>1, <1>3, Swapping DEF Turns
    <3>2. CASE s.ready = 0 /\ s.inProgress = FALSE
      <4>1. r = s
        BY <3>2 DEF Swapped
      <4> QED BY <4>1, <3>2, <1>3 DEF Turns
    <3> HIDE DEF r
    <3>3. s.ready = 0 \/ s.ready = 1
      BY <1>2
    <3> QED BY <3>1, <3>2, <3>3, <1>5
  <2> HIDE DEF r
  <2>2. /\ t \in Members /\ Sound(t, g, P) /\ t.ready = 0
        /\ \A d \in s.dynamic : ~ d.pending => d \in t.dynamic
        /\ t.dynamic \subseteq s.dynamic
        /\ \/ ~ t.inProgress /\ t.updated = {} /\ t.waiting = 0
           \/ t.inProgress /\ t.waiting = 1
    BY <2>1, Starting
  <2>3. w # "moving"
    BY <1>3, <1>5
  <2>4. Turns(t, w)
    BY <2>2, <2>3 DEF Turns
  <2> HIDE DEF t
  <2> QED BY <1>1, <2>2, <2>4
<1>6. s.ready = 0 \/ s.ready = 1
  BY <1>2
<1>7. s.inProgress = TRUE \/ s.inProgress = FALSE
  BY <1>2, Zenon
<1> QED BY <1>4, <1>5, <1>6, <1>7

\* A further version of a part.
LEMMA NextVersion ==
  ASSUME NEW g \in Gens, NEW e \in Parts, g[e] < MaxGen
  PROVE  LET h == [g EXCEPT ![e] = @ + 1]
         IN  /\ h \in Gens /\ h[e] = g[e] + 1
             /\ \A x \in Parts \ {e} : h[x] = g[x]
             /\ \A n \in 1 .. g[e] : n \in 1 .. h[e] /\ n # h[e]
<1> DEFINE h == [g EXCEPT ![e] = @ + 1]
<1>1. g \in [Parts -> 1 .. MaxGen] /\ g[e] \in 1 .. MaxGen /\ MaxGen \in Nat
  BY MaxGenNat DEF Gens
<1>2. g[e] + 1 \in 1 .. MaxGen
  BY <1>1
<1>3. /\ h \in Gens /\ h[e] = g[e] + 1
      /\ \A x \in Parts \ {e} : h[x] = g[x]
  BY <1>1, <1>2 DEF Gens
<1> HIDE DEF h
<1>4. \A n \in 1 .. g[e] : n \in 1 .. h[e] /\ n # h[e]
  BY <1>1, <1>3
<1> QED BY <1>3, <1>4 DEF h

\* What SetDynamic does, and Remove, to a part that is not dynamic.
LEMMA MakingDynamic ==
  ASSUME NEW s \in Members, NEW g \in Gens, NEW P \in SUBSET Parts, NEW e \in P, NEW k \in Counts,
         g[e] < MaxGen, Sound(s, g, P), ~ IsDynamic(s, e), ~ s.inProgress => s.updated = {}
  PROVE  LET t == AddDynamic(Detached(s, e), e, Collected(e, g[e] + 1, k))
             h == [g EXCEPT ![e] = @ + 1]
         IN  /\ t \in Members /\ h \in Gens /\ Sound(t, h, P)
             /\ t.updated = s.updated /\ t.inProgress = s.inProgress
             /\ t.waiting = s.waiting /\ t.ready = s.ready
             /\ IsDynamic(t, e) /\ ~ IsPending(t, e)
<1> DEFINE r == Detached(s, e)
           h == [g EXCEPT ![e] = @ + 1]
           t == AddDynamic(r, e, Collected(e, h[e], k))
<1>1. e \in Parts /\ Contents(s, g, P) /\ Places(s, g, P) /\ Fit(s)
  BY DEF Sound
<1>2. /\ h \in Gens /\ h[e] = g[e] + 1
      /\ \A x \in Parts \ {e} : h[x] = g[x]
      /\ \A n \in 1 .. g[e] : n \in 1 .. h[e] /\ n # h[e]
  BY <1>1, NextVersion
<1>3. g[e] \in 1 .. g[e]
  BY <1>1, MaxGenNat DEF Gens
<1> HIDE DEF h, t
<1>4. /\ r \in Members /\ Fit(r) /\ Contents(r, g, P)
      /\ \A x : x # e => OfPart(Held(r), x) = OfPart(Held(s), x)
      /\ r.dynamic = s.dynamic /\ r.updated = s.updated
      /\ r.inProgress = s.inProgress
      /\ r.waiting = s.waiting /\ r.ready = s.ready
      /\ Nowhere(r, e) \/ (r.inProgress /\ Stored(r, e, g[e]))
  <2>1. CASE MustDefer(s, e)
    <3>1. r = s
      BY <2>1 DEF Detached
    <3>2. s.inProgress
      BY <2>1 DEF MustDefer, IsUpdated
    <3>3. Stored(s, e, g[e])
      BY <1>1 DEF Places, Place
    <3> QED BY <1>1, <3>1, <3>2, <3>3
  <2>2. CASE ~ MustDefer(s, e)
    <3>1. r = DeleteFromTree(s, {e})
      BY <2>2 DEF Detached
    <3>2. ~ s.inProgress /\ s.updated = {}
      BY <2>2 DEF MustDefer
    <3>3. TreeOnly(s, {e})
      <4>1. \A o \in ListObjs(s.dynamic) : o.part # e
        BY <1>1, Apart DEF ListObjs, IsDynamic
      <4>2. ListObjs(s.updated) = {}
        BY <3>2 DEF ListObjs
      <4> QED BY <4>1, <4>2 DEF TreeOnly
    <3>4. /\ r \in Members /\ Fit(r) /\ Contents(r, g, P)
          /\ \A o : o \in Held(r) <=> o \in Held(s) /\ o.part \notin {e}
          /\ r.dynamic = s.dynamic /\ r.updated = s.updated
          /\ r.inProgress = s.inProgress
          /\ r.waiting = s.waiting /\ r.ready = s.ready
      <4> DEFINE u == DeleteFromTree(s, {e})
      <4>1. {e} \in SUBSET Parts
        BY <1>1
      <4>2. /\ u \in Members /\ Fit(u) /\ Contents(u, g, P)
            /\ \A o : o \in Held(u) <=> o \in Held(s) /\ o.part \notin {e}
            /\ u.dynamic = s.dynamic /\ u.updated = s.updated
            /\ u.inProgress = s.inProgress
            /\ u.waiting = s.waiting /\ u.ready = s.ready
        BY <1>1, <3>2, <3>3, <4>1, Deleting
      <4> HIDE DEF u, r
      <4>3. r = u
        BY <3>1 DEF u
      <4> QED BY <4>2, <4>3
    <3> HIDE DEF r
    <3>5. Nowhere(r, e)
      BY <3>2, <3>4 DEF Nowhere, OfPart, IsUpdated
    <3>6. \A x : x # e => OfPart(Held(r), x) = OfPart(Held(s), x)
      BY <3>4 DEF OfPart
    <3> QED BY <3>4, <3>5, <3>6
  <2> QED BY <2>1, <2>2
<1> HIDE DEF r
<1>5. ~ IsDynamic(r, e)
  BY <1>4 DEF IsDynamic
<1>6. Contents(r, h, P)
  <2>1. \A d \in r.dynamic : h[d.part] = g[d.part]
    BY <1>2, <1>4, <1>5 DEF IsDynamic, Members, Entry
  <2> QED BY <2>1, <1>4 DEF Contents, InLastVersion
<1>7. /\ t \in Members /\ Fit(t) /\ Contents(t, h, P)
      /\ Held(t) = Held(r)
      /\ t.updated = r.updated /\ t.inProgress = r.inProgress
      /\ t.waiting = r.waiting /\ t.ready = r.ready
      /\ \A d : d \in t.dynamic <=>
           d \in r.dynamic \/ d = [part |-> e, pending |-> FALSE, objs |-> Collected(e, h[e], k)]
  BY <1>2, <1>4, <1>5, <1>6, Adding DEF t
<1>8. IsDynamic(t, e) /\ ~ IsPending(t, e)
  <2> DEFINE c == [part |-> e, pending |-> FALSE, objs |-> Collected(e, h[e], k)]
  <2>1. c.part = e /\ ~ c.pending
    OBVIOUS
  <2>2. \A d : d \in t.dynamic <=> d \in r.dynamic \/ d = c
    BY <1>7
  <2> HIDE DEF c
  <2>3. IsDynamic(t, e)
    BY <2>1, <2>2 DEF IsDynamic
  <2>4. \A d \in t.dynamic : d.part = e => d = c
    BY <1>5, <2>2 DEF IsDynamic
  <2>5. ~ IsPending(t, e)
    BY <2>1, <2>4 DEF IsPending
  <2> QED BY <2>3, <2>5
<1>9. Places(t, h, P)
  <2> SUFFICES ASSUME NEW x \in Parts PROVE Place(t, h, P, x)
    BY DEF Places
  <2>1. CASE x = e
    <3>1. OfPart(Held(t), e) = OfPart(Held(r), e) /\ Entries(t.updated, e) = Entries(r.updated, e)
      BY <1>7
    <3>2. Nowhere(t, e) \/ (t.inProgress /\ Stored(t, e, g[e]))
      BY <3>1, <1>4, <1>7 DEF Nowhere, IsUpdated, Stored, InTree, InUpdate
    <3> QED BY <2>1, <3>2, <1>2, <1>3, <1>8 DEF Place
  <2>2. CASE x # e
    <3>1. IsDynamic(t, x) <=> IsDynamic(s, x)
      BY <2>2, <1>4, <1>7 DEF IsDynamic
    <3>2. OfPart(Held(t), x) = OfPart(Held(s), x) /\ Entries(t.updated, x) = Entries(s.updated, x)
      BY <2>2, <1>4, <1>7
    <3>3. t.inProgress = s.inProgress /\ h[x] = g[x] /\ Place(s, g, P, x)
      BY <2>2, <1>1, <1>2, <1>4, <1>7 DEF Places
    <3> QED BY <3>1, <3>2, <3>3, PlaceSame
  <2> QED BY <2>1, <2>2
<1> QED BY <1>2, <1>4, <1>7, <1>8, <1>9 DEF Sound, t, h, r

\* What Update does.
LEMMA Recollecting ==
  ASSUME NEW s \in Members, NEW g \in Gens, NEW P \in SUBSET Parts, NEW e \in Parts, NEW k \in Counts,
         g[e] < MaxGen, Sound(s, g, P), IsDynamic(s, e)
  PROVE  LET t == AddDynamic(DropDynamic(s, e), e, Collected(e, g[e] + 1, k))
             h == [g EXCEPT ![e] = @ + 1]
         IN  /\ t \in Members /\ h \in Gens /\ Sound(t, h, P)
             /\ t.updated = s.updated /\ t.inProgress = s.inProgress
             /\ t.waiting = s.waiting /\ t.ready = s.ready
<1> DEFINE r == DropDynamic(s, e)
           h == [g EXCEPT ![e] = @ + 1]
           t == AddDynamic(r, e, Collected(e, h[e], k))
<1>1. /\ Contents(s, g, P) /\ Places(s, g, P) /\ Fit(s)
      /\ e \in P
  BY DEF Sound, Contents, InLastVersion, IsDynamic
<1>2. /\ h \in Gens /\ h[e] = g[e] + 1
      /\ \A x \in Parts \ {e} : h[x] = g[x]
      /\ \A n \in 1 .. g[e] : n \in 1 .. h[e] /\ n # h[e]
  BY NextVersion
<1> HIDE DEF h, t, r
<1>3. \A x \in P \ {e} : h[x] = g[x] /\ x \in P
  BY <1>2
<1>4. /\ r \in Members /\ Fit(r) /\ Contents(r, h, P)
      /\ Held(r) = Held(s)
      /\ r.dynamic = {d \in s.dynamic : d.part # e} /\ r.updated = s.updated
      /\ r.inProgress = s.inProgress
      /\ r.waiting = s.waiting /\ r.ready = s.ready
  BY <1>1, <1>3, Dropping DEF r
<1>5. ~ IsDynamic(r, e)
  BY <1>4 DEF IsDynamic
<1>6. /\ t \in Members /\ Fit(t) /\ Contents(t, h, P)
      /\ Held(t) = Held(r)
      /\ t.updated = r.updated /\ t.inProgress = r.inProgress
      /\ t.waiting = r.waiting /\ t.ready = r.ready
      /\ \A d : d \in t.dynamic <=>
           d \in r.dynamic \/ d = [part |-> e, pending |-> FALSE, objs |-> Collected(e, h[e], k)]
  BY <1>1, <1>2, <1>4, <1>5, Adding DEF t
<1>7. Places(t, h, P)
  <2> SUFFICES ASSUME NEW x \in Parts PROVE Place(t, h, P, x)
    BY DEF Places
  <2>1. Place(s, g, P, x)
    BY <1>1 DEF Places
  <2>2. OfPart(Held(t), x) = OfPart(Held(s), x) /\ Entries(t.updated, x) = Entries(s.updated, x)
        /\ t.inProgress = s.inProgress
    BY <1>4, <1>6
  <2>3. IsDynamic(t, x) <=> IsDynamic(s, x)
    <3>1. CASE x = e
      BY <3>1, <1>6 DEF IsDynamic
    <3>2. CASE x # e
      BY <3>2, <1>4, <1>6 DEF IsDynamic
    <3> QED BY <3>1, <3>2
  <2>4. CASE x = e
    <3>1. (Nowhere(t, e) <=> Nowhere(s, e)) /\ \A n : Stored(t, e, n) <=> Stored(s, e, n)
      BY <2>2, <2>4, <1>4, <1>6 DEF Nowhere, IsUpdated, Stored, InTree, InUpdate
    <3>2. Nowhere(s, e) \/ (s.inProgress /\ \E n \in 1 .. g[e] : Stored(s, e, n))
      BY <2>1, <2>4 DEF Place
    <3> QED BY <2>2, <2>3, <2>4, <3>1, <3>2, <1>2 DEF Place
  <2>5. CASE x # e
    <3>1. h[x] = g[x]
      BY <2>5, <1>2
    <3> QED BY <2>1, <2>2, <2>3, <3>1, PlaceSame
  <2> QED BY <2>4, <2>5
<1> QED BY <1>2, <1>4, <1>6, <1>7 DEF Sound, t, h, r

\* What Remove does when it returns.
LEMMA Erasing ==
  ASSUME NEW s \in Members, NEW g \in Gens, NEW P \in SUBSET Parts, NEW e \in Parts,
         Sound(s, g, P), IsDynamic(s, e), ~ s.inProgress
  PROVE  LET t == DropDynamic(s, e)
         IN  /\ t \in Members /\ Sound(t, g, P \ {e})
             /\ t.updated = s.updated /\ t.inProgress = s.inProgress
             /\ t.waiting = s.waiting /\ t.ready = s.ready
<1> DEFINE t == DropDynamic(s, e)
           R == P \ {e}
<1>1. Contents(s, g, P) /\ Places(s, g, P) /\ Fit(s)
  BY DEF Sound
<1> HIDE DEF t
<1>2. \A x \in P \ {e} : g[x] = g[x] /\ x \in R
  OBVIOUS
<1> HIDE DEF R
<1>3. /\ t \in Members /\ Fit(t) /\ Contents(t, g, R)
      /\ Held(t) = Held(s)
      /\ t.dynamic = {d \in s.dynamic : d.part # e} /\ t.updated = s.updated
      /\ t.inProgress = s.inProgress
      /\ t.waiting = s.waiting /\ t.ready = s.ready
  BY <1>1, <1>2, Dropping DEF t
<1>4. Places(t, g, R)
  <2> SUFFICES ASSUME NEW x \in Parts PROVE Place(t, g, R, x)
    BY DEF Places
  <2>1. Place(s, g, P, x)
    BY <1>1 DEF Places
  <2>2. CASE x = e
    <3>1. Nowhere(s, e)
      BY <2>1, <2>2 DEF Place
    <3>2. Nowhere(t, e)
      BY <3>1, <1>3 DEF Nowhere, IsUpdated
    <3>3. ~ IsDynamic(t, e) /\ e \notin R
      BY <1>3 DEF IsDynamic, R
    <3> QED BY <2>2, <3>2, <3>3 DEF Place
  <2>3. CASE x # e
    <3>1. IsDynamic(t, x) <=> IsDynamic(s, x)
      BY <2>3, <1>3 DEF IsDynamic
    <3>2. x \in R <=> x \in P
      BY <2>3 DEF R
    <3> QED BY <2>1, <3>1, <3>2, <1>3, PlaceSame
  <2> QED BY <2>2, <2>3
<1> QED BY <1>3, <1>4 DEF Sound, t, R

\* What the worker does with a part.
Moved(s, d) ==
  [s EXCEPT !.pendingTree = Placed(@, s.nullSlots, d.objs),
            !.nullSlots = SubSeq(@, Len(d.objs) + 1, Len(@)),
            !.updated = @ \ {d}]

LEMMA Moving ==
  ASSUME NEW s \in Members, NEW g \in Gens, NEW P \in SUBSET Parts, NEW d \in s.updated,
         Sound(s, g, P), s.inProgress
  PROVE  LET t == Moved(s, d)
         IN  /\ t \in Members /\ Sound(t, g, P)
             /\ t.dynamic = s.dynamic /\ t.updated = s.updated \ {d}
             /\ t.inProgress = s.inProgress
             /\ t.waiting = s.waiting /\ t.ready = s.ready
<1> DEFINE t == Moved(s, d)
           e == d.part
           c == Placed(s.pendingTree, s.nullSlots, d.objs)
           rest == SubSeq(s.nullSlots, Len(d.objs) + 1, Len(s.nullSlots))
<1>1. /\ Contents(s, g, P) /\ Places(s, g, P)
      /\ SlotsFit(s.pendingTree, s.nullSlots) /\ HeldOnce(s.pendingTree)
      /\ Cur(s) = s.pendingTree
  BY DEF Sound, Fit, Cur
<1>2. /\ s.pendingTree \in Slots /\ s.nullSlots \in Seq(Nat)
      /\ e \in Parts /\ g[e] \in 1 .. MaxGen /\ 1 .. g[e] \subseteq 1 .. MaxGen
  BY MaxGenNat DEF Members, Entry, Gens
<1>3. PICK n \in 1 .. g[e], k \in Counts : d.objs = Collected(e, n, k) /\ InUpdate(s, e, n)
  BY <1>1, Apart
<1> HIDE DEF e
<1>4. /\ d.objs \in Seq(Obj) /\ IsInjective(d.objs)
      /\ \A o \in Range(d.objs) : o \in Obj /\ o.part = e
  <2>1. n \in 1 .. MaxGen
    BY <1>2
  <2> DEFINE objs == Collected(e, n, k)
  <2>2. objs \in Seq(Obj) /\ IsInjective(objs) /\ \A o \in Range(objs) : o \in Obj /\ o.part = e
    BY <1>2, <2>1, Collecting
  <2> HIDE DEF objs
  <2>3. d.objs = objs
    BY <1>3 DEF objs
  <2> QED BY <2>2, <2>3
<1>5. Range(d.objs) \cap Range(s.pendingTree) = {}
  <2>1. OfPart(Held(s), e) = {}
    BY <1>3 DEF InUpdate
  <2> QED BY <1>1, <1>4, <2>1, NullApart DEF OfPart, Held
<1>6. /\ c \in Slots /\ rest \in Seq(Nat) /\ SlotsFit(c, rest) /\ HeldOnce(c)
      /\ Range(c) \ {Null} = (Range(s.pendingTree) \ {Null}) \cup Range(d.objs)
  <2> DEFINE a == s.pendingTree
             b == s.nullSlots
             objs == d.objs
  <2>1. /\ a \in Slots /\ b \in Seq(Nat) /\ SlotsFit(a, b) /\ HeldOnce(a)
        /\ objs \in Seq(Obj) /\ IsInjective(objs) /\ Range(objs) \cap Range(a) = {}
    BY <1>1, <1>2, <1>4, <1>5
  <2> HIDE DEF a, b, objs
  <2>2. LET v == Placed(a, b, objs)
            w == SubSeq(b, Len(objs) + 1, Len(b))
        IN  /\ v \in Slots /\ w \in Seq(Nat) /\ SlotsFit(v, w) /\ HeldOnce(v)
            /\ Range(v) \ {Null} = (Range(a) \ {Null}) \cup Range(objs)
    BY <2>1, Placing
  <2> QED BY <2>2 DEF a, b, objs
<1>7. t = [s EXCEPT !.pendingTree = c, !.nullSlots = rest, !.updated = s.updated \ {d}]
  BY DEF Moved
<1>8. s.updated \ {d} \in SUBSET Entry
  BY DEF Members
<1> HIDE DEF c, rest
<1>9. t \in Members
  BY <1>6, <1>7, <1>8 DEF Members
<1>10. /\ t.tree = s.tree /\ t.pendingTree = c /\ t.nullSlots = rest
       /\ t.dynamic = s.dynamic /\ t.updated = s.updated \ {d} /\ t.inProgress = s.inProgress
       /\ t.allocated = s.allocated
       /\ t.waiting = s.waiting /\ t.ready = s.ready
  BY <1>7 DEF Members
<1> HIDE DEF t
<1>11. Cur(t) = c /\ Fit(t) /\ Held(t) = Held(s) \cup Range(d.objs)
  BY <1>1, <1>6, <1>10 DEF Cur, Fit, Held
<1>12. Contents(t, g, P)
  <2>1. OnePerPart(t.dynamic) /\ OnePerPart(t.updated) /\ InLastVersion(t, g, P)
    BY <1>1, <1>10 DEF Contents, OnePerPart, InLastVersion
  <2>2. ListObjs(s.updated) = ListObjs(t.updated) \cup Range(d.objs)
    BY <1>10 DEF ListObjs
  <2>3. Allocated(s)
    BY <1>1 DEF Contents
  <2>4. Allocated(t)
    BY <1>10, <1>11, <2>2, <2>3 DEF Allocated
  <2>5. Copied(t)
    <3>1. Range(s.tree) \ {Null} \subseteq Range(s.pendingTree)
      BY <1>1 DEF Contents, Copied
    <3> QED BY <3>1, <1>6, <1>10 DEF Copied
  <2> QED BY <2>1, <2>4, <2>5 DEF Contents
<1>13. Places(t, g, P)
  <2> SUFFICES ASSUME NEW x \in Parts PROVE Place(t, g, P, x)
    BY DEF Places
  <2>1. Place(s, g, P, x)
    BY <1>1 DEF Places
  <2>2. IsDynamic(t, x) <=> IsDynamic(s, x)
    BY <1>10 DEF IsDynamic
  <2>3. CASE x = e
    <3>1. ~ IsUpdated(t, e)
      BY <1>1, <1>10 DEF IsUpdated, Contents, OnePerPart, e
    <3>2. OfPart(Held(t), e) = Range(d.objs)
      BY <1>3, <1>4, <1>11 DEF OfPart, InUpdate
    <3>3. \A v : Stored(s, e, v) => Stored(t, e, v)
      <4> SUFFICES ASSUME NEW v, Stored(s, e, v) PROVE InTree(t, e, v)
        BY DEF Stored
      <4>1. IsUpdated(s, e)
        BY DEF IsUpdated, e
      <4>2. InUpdate(s, e, v)
        BY <4>1 DEF Stored, InTree
      <4>3. \E j \in Counts : d.objs = Collected(e, v, j)
        BY <4>2, <1>1 DEF InUpdate, Contents, OnePerPart, e
      <4> QED BY <3>1, <3>2, <4>3 DEF InTree
    <3>4. ~ Nowhere(s, e)
      BY DEF Nowhere, IsUpdated, e
    <3> QED BY <2>1, <2>2, <2>3, <3>3, <3>4, <1>10 DEF Place
  <2>4. CASE x # e
    <3>1. OfPart(Held(t), x) = OfPart(Held(s), x)
      BY <2>4, <1>4, <1>11 DEF OfPart
    <3>2. Entries(t.updated, x) = Entries(s.updated, x)
      BY <2>4, <1>10 DEF Entries, e
    <3> QED BY <2>1, <2>2, <3>1, <3>2, <1>10, PlaceSame
  <2> QED BY <2>3, <2>4
<1> QED BY <1>9, <1>10, <1>11, <1>12, <1>13 DEF Sound, t

\* What the worker does when it has no part left.
Finished(s) ==
  [s EXCEPT !.pendingTree = Compacted(@, s.nullSlots), !.nullSlots = <<>>, !.ready = @ + 1]

LEMMA Finishing ==
  ASSUME NEW s \in Members, NEW g \in Gens, NEW P \in SUBSET Parts,
         Sound(s, g, P), s.inProgress, s.ready = 0
  PROVE  LET t == Finished(s)
         IN  /\ t \in Members /\ Sound(t, g, P)
             /\ t.dynamic = s.dynamic /\ t.updated = s.updated
             /\ t.inProgress = s.inProgress
             /\ t.waiting = s.waiting /\ t.ready = 1
<1> DEFINE t == Finished(s)
           c == Compacted(s.pendingTree, s.nullSlots)
<1>1. /\ Contents(s, g, P) /\ Places(s, g, P)
      /\ SlotsFit(s.pendingTree, s.nullSlots) /\ HeldOnce(s.pendingTree)
      /\ Cur(s) = s.pendingTree
  BY DEF Sound, Fit, Cur
<1>2. s.pendingTree \in Slots /\ s.nullSlots \in Seq(Nat) /\ <<>> \in Seq(Nat)
  BY DEF Members
<1>3. /\ c \in Slots /\ SlotsFit(c, <<>>) /\ HeldOnce(c)
      /\ Range(c) = Range(s.pendingTree) \ {Null}
  BY <1>1, <1>2, Compacting
<1>4. t = [s EXCEPT !.pendingTree = c, !.nullSlots = <<>>, !.ready = s.ready + 1]
  BY DEF Finished
<1>5. s.ready + 1 = 1 /\ s.ready + 1 \in 0 .. 1
  OBVIOUS
<1> HIDE DEF c
<1>6. t \in Members
  BY <1>2, <1>3, <1>4, <1>5 DEF Members
<1>7. /\ t.tree = s.tree /\ t.pendingTree = c /\ t.nullSlots = <<>>
      /\ t.dynamic = s.dynamic /\ t.updated = s.updated /\ t.inProgress = s.inProgress
      /\ t.allocated = s.allocated
      /\ t.waiting = s.waiting /\ t.ready = 1
  BY <1>4, <1>5 DEF Members
<1> HIDE DEF t
<1>8. Cur(t) = c /\ Fit(t) /\ Held(t) = Held(s)
  BY <1>1, <1>3, <1>7 DEF Cur, Fit, Held
<1>9. Contents(t, g, P)
  BY <1>1, <1>3, <1>7, <1>8 DEF Contents, OnePerPart, InLastVersion, Allocated, Copied
<1>10. Places(t, g, P)
  <2> SUFFICES ASSUME NEW x \in Parts PROVE Place(t, g, P, x)
    BY DEF Places
  <2>1. Place(s, g, P, x)
    BY <1>1 DEF Places
  <2>2. IsDynamic(t, x) <=> IsDynamic(s, x)
    BY <1>7 DEF IsDynamic
  <2> QED BY <2>1, <2>2, <1>7, <1>8, PlaceSame
<1> QED BY <1>6, <1>7, <1>8, <1>9, <1>10 DEF Sound, t

-----------------------------------------------------------------------------
(* The steps.                                                                *)

\* While the structure is used.
LEMMA Here ==
  ASSUME Inv, pc \notin {"joining", "closed"}
  PROVE  /\ q \in Members /\ gen \in Gens /\ present \in SUBSET Parts
         /\ Sound(q, gen, present) /\ Turns(q, worker) /\ worker \in {"waiting", "moving"}
BY DEF Inv, TypeOK, Gens, Sound, Phases

\* What has to be shown of a step after which it still is.
LEMMA There ==
  ASSUME NEW t \in Members, NEW h \in Gens, NEW R \in SUBSET Parts,
         q' = t, gen' = h, present' = R, Sound(t, h, R),
         pc' \in {"idle", "removing", "closing"},
         worker' \in {"waiting", "moving"}, Turns(t, worker'), Removing'
  PROVE  Inv'
<1>1. TypeOK'
  <2>1. target' \in SUBSET Parts
    BY DEF Removing
  <2> QED BY <2>1 DEF TypeOK, Gens
<1>2. Phases'
  BY DEF Phases
<1> QED BY <1>1, <1>2 DEF Inv, Sound

\* Between the calls no part is being removed.
LEMMA Idle ==
  ASSUME Inv, pc = "idle", pc' = pc, target' = target
  PROVE  Removing'
BY DEF Inv, Removing

LEMMA Collection ==
  ASSUME NEW e \in Parts, NEW objs \in Collect(e)
  PROVE  gen[e] < MaxGen /\ \E k \in Counts : objs = Collected(e, gen[e] + 1, k)
BY DEF Collect

LEMMA HitTestKeeps ==
  ASSUME Inv, HitTest
  PROVE  Inv'
<1>1. /\ q \in Members /\ gen \in Gens /\ present \in SUBSET Parts
      /\ Sound(q, gen, present) /\ Turns(q, worker) /\ worker \in {"waiting", "moving"}
  BY Here DEF HitTest
<1>2. PICK t, h, R : t = UpdateAsync(q) /\ h = gen /\ R = present
  OBVIOUS
<1>3. t \in Members /\ Sound(t, gen, present) /\ Turns(t, worker)
  BY <1>1, <1>2, Updating
<1>4. q' = t /\ UNCHANGED <<pc, target, worker, gen, present>> /\ pc = "idle"
  BY <1>2 DEF HitTest
<1>5. Removing'
  BY <1>4, Idle
<1> QED BY <1>1, <1>2, <1>3, <1>4, <1>5, There

LEMMA SetStaticKeeps ==
  ASSUME Inv, NEW e \in Parts, SetStatic(e)
  PROVE  Inv'
<1>1. /\ q \in Members /\ gen \in Gens /\ present \in SUBSET Parts
      /\ Sound(q, gen, present) /\ Turns(q, worker) /\ worker \in {"waiting", "moving"}
  BY Here DEF SetStatic
<1>2. PICK s, t, h, R : s = SetPending(q, e, TRUE) /\ t = UpdateAsync(s) /\ h = gen /\ R = present
  OBVIOUS
<1>3. /\ s \in Members /\ Sound(s, gen, present)
      /\ s.updated = q.updated /\ s.inProgress = q.inProgress
      /\ s.waiting = q.waiting /\ s.ready = q.ready
  <2> DEFINE u == SetPending(q, e, TRUE)
  <2>1. /\ u \in Members /\ Sound(u, gen, present)
        /\ u.updated = q.updated /\ u.inProgress = q.inProgress
        /\ u.waiting = q.waiting /\ u.ready = q.ready
    BY <1>1, MarkedPending
  <2> HIDE DEF u
  <2>2. s = u
    BY <1>2 DEF u
  <2> QED BY <2>1, <2>2
<1>4. Turns(s, worker)
  BY <1>1, <1>3 DEF Turns
<1>5. t \in Members /\ Sound(t, gen, present) /\ Turns(t, worker)
  BY <1>1, <1>2, <1>3, <1>4, Updating
<1>6. q' = t /\ UNCHANGED <<pc, target, worker, gen, present>> /\ pc = "idle"
  BY <1>2 DEF SetStatic
<1>7. Removing'
  BY <1>6, Idle
<1> QED BY <1>1, <1>2, <1>5, <1>6, <1>7, There

\* SetDynamic and Remove make a part dynamic that is not, in a new version.
LEMMA MakeDynamic ==
  ASSUME Inv, NEW e \in present, NEW objs \in Collect(e), ~ IsDynamic(q, e),
         pc \notin {"joining", "closed"},
         q' = AddDynamic(Detached(q, e), e, objs), CollectedOnce(e),
         pc' \in {"idle", "removing"}, UNCHANGED <<worker, present>>,
         IsDynamic(q', e) /\ ~ IsPending(q', e) => Removing'
  PROVE  Inv'
<1>1. /\ q \in Members /\ gen \in Gens /\ present \in SUBSET Parts
      /\ Sound(q, gen, present) /\ Turns(q, worker) /\ worker \in {"waiting", "moving"}
  BY Here
<1>2. PICK k \in Counts : objs = Collected(e, gen[e] + 1, k) /\ gen[e] < MaxGen
  BY <1>1, Collection
<1>3. PICK t, h, R : /\ t = AddDynamic(Detached(q, e), e, objs)
                     /\ h = [gen EXCEPT ![e] = @ + 1] /\ R = present
  OBVIOUS
<1>4. ~ q.inProgress => q.updated = {}
  BY <1>1 DEF Turns
<1>5. /\ t \in Members /\ h \in Gens /\ Sound(t, h, present)
      /\ t.updated = q.updated /\ t.inProgress = q.inProgress
      /\ t.waiting = q.waiting /\ t.ready = q.ready
      /\ IsDynamic(t, e) /\ ~ IsPending(t, e)
  <2> DEFINE u == AddDynamic(Detached(q, e), e, Collected(e, gen[e] + 1, k))
             v == [gen EXCEPT ![e] = @ + 1]
  <2>1. /\ u \in Members /\ v \in Gens /\ Sound(u, v, present)
        /\ u.updated = q.updated /\ u.inProgress = q.inProgress
        /\ u.waiting = q.waiting /\ u.ready = q.ready
        /\ IsDynamic(u, e) /\ ~ IsPending(u, e)
    BY <1>1, <1>2, <1>4, MakingDynamic
  <2> HIDE DEF u, v
  <2>2. t = u /\ h = v
    BY <1>2, <1>3 DEF u, v
  <2> QED BY <2>1, <2>2
<1>6. Turns(t, worker)
  BY <1>1, <1>5 DEF Turns
<1>7. q' = t /\ gen' = h /\ present' = present /\ worker' = worker
  BY <1>3 DEF CollectedOnce
<1>8. Removing'
  BY <1>5, <1>7
<1> QED BY <1>1, <1>3, <1>5, <1>6, <1>7, <1>8, There

\* SetDynamic and Remove take back that a part waits for its inclusion.
LEMMA TakeBack ==
  ASSUME Inv, NEW e \in Parts, IsDynamic(q, e), pc \notin {"joining", "closed"},
         q' = SetPending(q, e, FALSE), gen' = gen,
         pc' \in {"idle", "removing"}, UNCHANGED <<worker, present>>,
         IsDynamic(q', e) /\ ~ IsPending(q', e) => Removing'
  PROVE  Inv'
<1>1. /\ q \in Members /\ gen \in Gens /\ present \in SUBSET Parts
      /\ Sound(q, gen, present) /\ Turns(q, worker) /\ worker \in {"waiting", "moving"}
  BY Here
<1>2. PICK t, h, R : t = SetPending(q, e, FALSE) /\ h = gen /\ R = present
  OBVIOUS
<1>3. /\ t \in Members /\ Sound(t, gen, present)
      /\ t.updated = q.updated /\ t.inProgress = q.inProgress
      /\ t.waiting = q.waiting /\ t.ready = q.ready
      /\ IsDynamic(t, e) /\ ~ IsPending(t, e)
  <2> DEFINE u == SetPending(q, e, FALSE)
  <2>1. /\ u \in Members /\ Sound(u, gen, present)
        /\ u.updated = q.updated /\ u.inProgress = q.inProgress
        /\ u.waiting = q.waiting /\ u.ready = q.ready
        /\ IsDynamic(u, e) /\ ~ IsPending(u, e)
    BY <1>1, MarkedDynamic
  <2> HIDE DEF u
  <2>2. t = u
    BY <1>2 DEF u
  <2> QED BY <2>1, <2>2
<1>4. Turns(t, worker)
  BY <1>1, <1>3 DEF Turns
<1>5. q' = t
  BY <1>2
<1>6. Removing'
  BY <1>3, <1>5
<1> QED BY <1>1, <1>2, <1>3, <1>4, <1>5, <1>6, There

LEMMA SetDynamicKeeps ==
  ASSUME Inv, NEW e \in Parts, SetDynamic(e)
  PROVE  Inv'
<1>1. pc = "idle" /\ e \in present /\ UNCHANGED <<pc, target, worker, present>>
  BY DEF SetDynamic
<1>2. Removing'
  BY <1>1, Idle
<1>3. CASE IsDynamic(q, e)
  <2>1. q' = SetPending(q, e, FALSE) /\ gen' = gen
    BY <1>3 DEF SetDynamic
  <2> QED BY <1>1, <1>2, <1>3, <2>1, TakeBack
<1>4. CASE ~ IsDynamic(q, e)
  <2>1. PICK objs \in Collect(e) : q' = AddDynamic(Detached(q, e), e, objs)
    BY <1>4 DEF SetDynamic
  <2>2. CollectedOnce(e)
    BY <1>4 DEF SetDynamic
  <2> QED BY <1>1, <1>2, <1>4, <2>1, <2>2, MakeDynamic
<1> QED BY <1>3, <1>4

LEMMA RemoveCallKeeps ==
  ASSUME Inv, NEW e \in Parts, RemoveCall(e)
  PROVE  Inv'
<1>1. /\ pc = "idle" /\ e \in present /\ pc' = "removing" /\ target' = {e}
      /\ UNCHANGED <<worker, present>>
  BY DEF RemoveCall
<1>2. IsDynamic(q', e) /\ ~ IsPending(q', e) => Removing'
  BY <1>1 DEF Removing, IsDynamic, IsPending
<1>3. CASE ~ IsDynamic(q, e)
  <2>1. PICK objs \in Collect(e) : q' = AddDynamic(Detached(q, e), e, objs)
    BY <1>3 DEF RemoveCall, IsPending, IsDynamic
  <2>2. CollectedOnce(e)
    BY <1>3 DEF RemoveCall, IsPending, IsDynamic
  <2> QED BY <1>1, <1>2, <1>3, <2>1, <2>2, MakeDynamic
<1>4. CASE IsDynamic(q, e) /\ IsPending(q, e)
  <2>1. q' = SetPending(q, e, FALSE) /\ gen' = gen
    BY <1>4 DEF RemoveCall
  <2> QED BY <1>1, <1>2, <1>4, <2>1, TakeBack
<1>5. CASE IsDynamic(q, e) /\ ~ IsPending(q, e)
  <2>1. q' = q /\ gen' = gen
    BY <1>5 DEF RemoveCall
  <2>2. /\ q \in Members /\ gen \in Gens /\ present \in SUBSET Parts
        /\ Sound(q, gen, present) /\ Turns(q, worker) /\ worker \in {"waiting", "moving"}
    BY <1>1, Here
  <2>3. PICK t, h, R : t = q /\ h = gen /\ R = present
    OBVIOUS
  <2>4. Removing'
    BY <1>2, <1>5, <2>1
  <2> QED BY <1>1, <2>1, <2>2, <2>3, <2>4, There
<1> QED BY <1>3, <1>4, <1>5

LEMMA UpdateKeeps ==
  ASSUME Inv, NEW e \in Parts, Update(e)
  PROVE  Inv'
<1>1. /\ q \in Members /\ gen \in Gens /\ present \in SUBSET Parts
      /\ Sound(q, gen, present) /\ Turns(q, worker) /\ worker \in {"waiting", "moving"}
  BY Here DEF Update
<1>2. PICK objs \in Collect(e) : q' = AddDynamic(DropDynamic(q, e), e, objs)
  BY DEF Update
<1>3. PICK k \in Counts : objs = Collected(e, gen[e] + 1, k) /\ gen[e] < MaxGen
  BY Collection
<1>4. PICK t, h, R : /\ t = AddDynamic(DropDynamic(q, e), e, objs)
                     /\ h = [gen EXCEPT ![e] = @ + 1] /\ R = present
  OBVIOUS
<1>5. IsDynamic(q, e)
  BY DEF Update
<1>6. /\ t \in Members /\ h \in Gens /\ Sound(t, h, present)
      /\ t.updated = q.updated /\ t.inProgress = q.inProgress
      /\ t.waiting = q.waiting /\ t.ready = q.ready
  <2> DEFINE u == AddDynamic(DropDynamic(q, e), e, Collected(e, gen[e] + 1, k))
             v == [gen EXCEPT ![e] = @ + 1]
  <2>1. /\ u \in Members /\ v \in Gens /\ Sound(u, v, present)
        /\ u.updated = q.updated /\ u.inProgress = q.inProgress
        /\ u.waiting = q.waiting /\ u.ready = q.ready
    BY <1>1, <1>3, <1>5, Recollecting
  <2> HIDE DEF u, v
  <2>2. t = u /\ h = v
    BY <1>3, <1>4 DEF u, v
  <2> QED BY <2>1, <2>2
<1>7. Turns(t, worker)
  BY <1>1, <1>6 DEF Turns
<1>8. q' = t /\ gen' = h /\ UNCHANGED <<pc, target, worker, present>> /\ pc = "idle"
  BY <1>2, <1>4 DEF Update, CollectedOnce
<1>9. Removing'
  BY <1>8, Idle
<1> QED BY <1>1, <1>4, <1>6, <1>7, <1>8, <1>9, There

\* A dynamic part that does not wait for its inclusion stays so.
LEMMA StaysDynamic ==
  ASSUME NEW s, NEW t, NEW e, IsDynamic(s, e), ~ IsPending(s, e),
         \A d \in s.dynamic : ~ d.pending => d \in t.dynamic, t.dynamic \subseteq s.dynamic
  PROVE  IsDynamic(t, e) /\ ~ IsPending(t, e)
BY DEF IsDynamic, IsPending

LEMMA AwaitUpdateKeeps ==
  ASSUME Inv, AwaitUpdate
  PROVE  Inv'
<1>1. /\ q \in Members /\ gen \in Gens /\ present \in SUBSET Parts
      /\ Sound(q, gen, present) /\ Turns(q, worker) /\ worker \in {"waiting", "moving"}
  BY Here DEF AwaitUpdate
<1>2. PICK t, h, R : t = UpdateAsync(q) /\ h = gen /\ R = present
  OBVIOUS
<1>3. /\ t \in Members /\ Sound(t, gen, present) /\ Turns(t, worker)
      /\ \A d \in q.dynamic : ~ d.pending => d \in t.dynamic
      /\ t.dynamic \subseteq q.dynamic
  BY <1>1, <1>2, Updating
<1>4. /\ q' = t /\ UNCHANGED <<pc, target, worker, gen, present>>
      /\ pc \in {"removing", "closing"}
  BY <1>2 DEF AwaitUpdate, Awaited
<1>5. Removing'
  <2>1. CASE pc = "removing"
    <3>1. PICK e \in present : target = {e} /\ IsDynamic(q, e) /\ ~ IsPending(q, e)
      BY <2>1 DEF Inv, Removing
    <3>2. IsDynamic(t, e) /\ ~ IsPending(t, e)
      BY <1>3, <3>1, StaysDynamic
    <3> QED BY <2>1, <1>4, <3>1, <3>2 DEF Removing, IsDynamic, IsPending
  <2>2. CASE pc = "closing"
    BY <2>2, <1>4 DEF Inv, Removing
  <2> QED BY <1>4, <2>1, <2>2
<1> QED BY <1>1, <1>2, <1>3, <1>4, <1>5, There

LEMMA RemoveReturnKeeps ==
  ASSUME Inv, NEW e \in target, RemoveReturn(e)
  PROVE  Inv'
<1>1. /\ q \in Members /\ gen \in Gens /\ present \in SUBSET Parts
      /\ Sound(q, gen, present) /\ Turns(q, worker) /\ worker \in {"waiting", "moving"}
  BY Here DEF RemoveReturn
<1>2. /\ pc = "removing" /\ pc' = "idle" /\ target' = {} /\ UNCHANGED <<worker, gen>>
      /\ ~ q.inProgress
  BY DEF RemoveReturn
<1>3. e \in present /\ IsDynamic(q, e) /\ e \in Parts
  BY <1>1, <1>2 DEF Inv, Removing
<1>4. PICK t, h, R : t = DropDynamic(q, e) /\ h = gen /\ R = present \ {e}
  OBVIOUS
<1>5. /\ t \in Members /\ Sound(t, gen, R)
      /\ t.updated = q.updated /\ t.inProgress = q.inProgress
      /\ t.waiting = q.waiting /\ t.ready = q.ready
  BY <1>1, <1>2, <1>3, <1>4, Erasing
<1>6. Turns(t, worker)
  BY <1>1, <1>5 DEF Turns
<1>7. Removing'
  BY <1>2 DEF Removing
<1>8. R \in SUBSET Parts /\ q' = t /\ present' = R
  BY <1>1, <1>4 DEF RemoveReturn
<1> QED BY <1>1, <1>2, <1>4, <1>5, <1>6, <1>7, <1>8, There

LEMMA CloseCallKeeps ==
  ASSUME Inv, CloseCall
  PROVE  Inv'
<1>1. /\ q \in Members /\ gen \in Gens /\ present \in SUBSET Parts
      /\ Sound(q, gen, present) /\ Turns(q, worker) /\ worker \in {"waiting", "moving"}
  BY Here DEF CloseCall
<1>2. /\ pc = "idle" /\ pc' = "closing" /\ UNCHANGED <<q, target, worker, gen, present>>
  BY DEF CloseCall
<1>3. PICK t, h, R : t = q /\ h = gen /\ R = present
  OBVIOUS
<1>4. Removing'
  BY <1>2 DEF Inv, Removing
<1> QED BY <1>1, <1>2, <1>3, <1>4, There

\* The semaphores hold no object.
Waiting(s, n) == [s EXCEPT !.waiting = n]

LEMMA Signalling ==
  ASSUME NEW s \in Members, NEW g \in Gens, NEW P \in SUBSET Parts, NEW n \in 0 .. 1,
         Sound(s, g, P)
  PROVE  LET t == Waiting(s, n)
         IN  /\ t \in Members /\ Sound(t, g, P)
             /\ t.updated = s.updated /\ t.inProgress = s.inProgress
             /\ t.waiting = n /\ t.ready = s.ready
<1> DEFINE t == Waiting(s, n)
<1>1. t \in Members
  BY DEF Members, Waiting
<1>2. /\ t.tree = s.tree /\ t.pendingTree = s.pendingTree /\ t.nullSlots = s.nullSlots
      /\ t.dynamic = s.dynamic /\ t.updated = s.updated /\ t.inProgress = s.inProgress
      /\ t.allocated = s.allocated
      /\ t.waiting = n /\ t.ready = s.ready
  BY DEF Members, Waiting
<1> HIDE DEF t
<1>3. Cur(t) = Cur(s) /\ Held(t) = Held(s) /\ Fit(t)
  BY <1>2 DEF Cur, Held, Fit, Sound
<1>4. Contents(t, g, P)
  BY <1>2, <1>3 DEF Contents, Allocated, InLastVersion, Copied, Sound
<1>5. Places(t, g, P)
  <2> SUFFICES ASSUME NEW x \in Parts PROVE Place(t, g, P, x)
    BY DEF Places
  <2>1. Place(s, g, P, x)
    BY DEF Places, Sound
  <2>2. IsDynamic(t, x) <=> IsDynamic(s, x)
    BY <1>2 DEF IsDynamic
  <2> QED BY <2>1, <2>2, <1>2, <1>3, PlaceSame
<1> QED BY <1>1, <1>2, <1>3, <1>4, <1>5 DEF Sound, t

\* What has to be shown of a step after which the worker is being joined.
LEMMA Leaving ==
  ASSUME NEW t \in Members, NEW h \in Gens, NEW R \in SUBSET Parts,
         q' = t, gen' = h, present' = R, Sound(t, h, R),
         pc' = "joining", target' = {}, worker' \in {"waiting", "ended"},
         ~ t.inProgress, t.updated = {}, t.ready = 0
  PROVE  Inv'
<1>1. TypeOK'
  BY DEF TypeOK, Gens
<1>2. Phases' /\ Removing'
  BY DEF Phases, Removing
<1> QED BY <1>1, <1>2 DEF Inv, Sound

LEMMA CloseWorkerKeeps ==
  ASSUME Inv, CloseWorker
  PROVE  Inv'
<1>1. /\ q \in Members /\ gen \in Gens /\ present \in SUBSET Parts
      /\ Sound(q, gen, present) /\ Turns(q, worker) /\ worker \in {"waiting", "moving"}
  BY Here DEF CloseWorker
<1>2. /\ pc = "closing" /\ pc' = "joining" /\ UNCHANGED <<target, worker, gen, present>>
      /\ ~ q.inProgress
  BY DEF CloseWorker
<1>3. q.waiting = 0 /\ q.ready = 0 /\ worker = "waiting" /\ q.updated = {}
  <2>1. q.waiting \in 0 .. 1 /\ q.ready \in 0 .. 1
    BY <1>1 DEF Members
  <2> QED BY <1>1, <1>2, <2>1 DEF Turns
<1>4. PICK t, h, R : t = Waiting(q, 1) /\ h = gen /\ R = present
  OBVIOUS
<1>5. /\ t \in Members /\ Sound(t, gen, present)
      /\ t.updated = q.updated /\ t.inProgress = q.inProgress /\ t.ready = q.ready
  <2>1. 1 \in 0 .. 1
    OBVIOUS
  <2> QED BY <1>1, <1>4, <2>1, Signalling
<1>6. q' = t
  BY <1>3, <1>4 DEF CloseWorker, Waiting
<1>7. target = {}
  BY <1>2 DEF Inv, Removing
<1> QED BY <1>1, <1>2, <1>3, <1>4, <1>5, <1>6, <1>7, Leaving
LEMMA CloseReturnKeeps ==
  ASSUME Inv, CloseReturn
  PROVE  Inv'
<1> DEFINE A == q.allocated \ (Range(q.tree) \cup ListObjs(q.dynamic))
<1>1. /\ q \in Members /\ pc = "joining" /\ worker = "ended"
      /\ Contents(q, gen, present)
      /\ ~ q.inProgress /\ q.updated = {} /\ q.ready = 0
      /\ target = {}
  BY DEF CloseReturn, Inv, TypeOK, Phases, Removing
<1>2. /\ pc' = "closed" /\ UNCHANGED <<target, worker, gen, present>>
      /\ q' = [q EXCEPT !.allocated = A, !.tree = <<>>, !.dynamic = {}, !.nullSlots = <<>>]
  BY DEF CloseReturn
<1>3. A = {}
  <2>1. ListObjs({}) = {} /\ Cur(q) = q.tree
    BY <1>1 DEF ListObjs, Cur
  <2> QED BY <1>1, <2>1 DEF Contents, Allocated, Held
<1>4. A \in SUBSET Obj /\ <<>> \in Slots /\ <<>> \in Seq(Nat) /\ {} \in SUBSET Entry
  BY <1>3 DEF Slots
<1> HIDE DEF A
<1>5. q' \in Members
  BY <1>1, <1>2, <1>4 DEF Members
<1>6. /\ q'.tree = <<>> /\ q'.nullSlots = <<>> /\ q'.dynamic = {} /\ q'.allocated = {}
      /\ q'.updated = {} /\ q'.inProgress = q.inProgress /\ q'.ready = 0
  BY <1>1, <1>2, <1>3 DEF Members
<1>7. PICK t, h, R : t = q' /\ h = gen' /\ R = present'
  OBVIOUS
<1>8. Cur(t) = <<>> /\ DOMAIN <<>> = {} /\ Range(<<>>) = {} /\ Held(t) = {}
  BY <1>1, <1>6, <1>7 DEF Cur, Held, Range
<1>9. Fit(t)
  <2>1. t.nullSlots = <<>>
    BY <1>6, <1>7
  <2> QED BY <1>8, <2>1 DEF Fit, SlotsFit, HeldOnce, IsInjective
<1>10. Contents(t, h, R)
  <2>1. ListObjs({}) = {}
    BY DEF ListObjs
  <2> QED BY <1>1, <1>6, <1>7, <1>8, <2>1
             DEF Contents, OnePerPart, InLastVersion, Allocated, Copied
<1>11. TypeOK'
  BY <1>1, <1>2, <1>5 DEF Inv, TypeOK
<1>12. Phases'
  BY <1>1, <1>2, <1>6 DEF Phases
<1>13. Removing'
  BY <1>1, <1>2 DEF Removing
<1>14. Fit(q') /\ Contents(q', gen', present')
  BY <1>7, <1>9, <1>10
<1>15. Fit(q)' /\ Contents(q, gen, present)'
  BY <1>14
<1> QED BY <1>2, <1>11, <1>12, <1>13, <1>15 DEF Inv

\* The worker takes up an update, or the order to end.
LEMMA WorkerAcquireKeeps ==
  ASSUME Inv, WorkerAcquire
  PROVE  Inv'
<1>1. /\ q \in Members /\ gen \in Gens /\ present \in SUBSET Parts
      /\ worker = "waiting" /\ pc # "closed" /\ Sound(q, gen, present)
  BY DEF WorkerAcquire, Inv, TypeOK, Gens, Phases, Sound
<1>2. /\ q.waiting > 0 /\ q' = [q EXCEPT !.waiting = q.waiting - 1]
      /\ worker' = IF q.inProgress THEN "moving" ELSE "ended"
      /\ UNCHANGED <<pc, target, gen, present>>
  BY DEF WorkerAcquire
<1>3. q.waiting = 1 /\ q.waiting - 1 = 0 /\ q.ready \in 0 .. 1 /\ 0 \in 0 .. 1
  BY <1>1, <1>2 DEF Members
<1>4. PICK t, h, R : t = Waiting(q, 0) /\ h = gen /\ R = present
  OBVIOUS
<1>5. /\ t \in Members /\ Sound(t, gen, present)
      /\ t.updated = q.updated /\ t.inProgress = q.inProgress
      /\ t.waiting = 0 /\ t.ready = q.ready
  BY <1>1, <1>3, <1>4, Signalling
<1>6. q' = t
  BY <1>2, <1>3, <1>4 DEF Waiting
<1>7. CASE pc = "joining"
  <2>1. ~ q.inProgress /\ q.updated = {} /\ q.ready = 0 /\ target = {}
    BY <1>7 DEF Inv, Phases, Removing
  <2> QED BY <1>1, <1>2, <1>4, <1>5, <1>6, <1>7, <2>1, Leaving
<1>8. CASE pc # "joining"
  <2>1. Turns(q, worker) /\ pc \in {"idle", "removing", "closing"}
    BY <1>1, <1>8 DEF Inv, Phases, TypeOK
  <2>2. q.inProgress /\ q.ready = 0 /\ worker' = "moving"
    BY <1>1, <1>2, <1>3, <2>1 DEF Turns
  <2>3. Turns(t, worker')
    BY <1>5, <2>2 DEF Turns
  <2>4. Removing'
    <3>1. t.dynamic = q.dynamic
      BY <1>1, <1>4 DEF Waiting, Members
    <3> QED BY <3>1, <1>2, <1>6 DEF Inv, Removing, IsDynamic, IsPending
  <2> QED BY <1>1, <1>2, <1>4, <1>5, <1>6, <2>1, <2>2, <2>3, <2>4, There
<1> QED BY <1>7, <1>8

\* The worker at its work.
LEMMA AtWork ==
  ASSUME Inv, worker = "moving"
  PROVE  /\ pc \in {"idle", "removing", "closing"}
         /\ q \in Members /\ gen \in Gens /\ present \in SUBSET Parts
         /\ Sound(q, gen, present) /\ Turns(q, worker)
         /\ q.inProgress /\ q.waiting = 0 /\ q.ready = 0
<1>1. /\ q \in Members /\ gen \in Gens /\ present \in SUBSET Parts
      /\ Sound(q, gen, present) /\ Turns(q, worker) /\ pc \in {"idle", "removing", "closing"}
  BY DEF Inv, TypeOK, Gens, Phases, Sound
<1>2. q.waiting \in 0 .. 1 /\ q.ready \in 0 .. 1
  BY <1>1 DEF Members
<1> QED BY <1>1, <1>2 DEF Turns

LEMMA WorkerMoveKeeps ==
  ASSUME Inv, WorkerMove
  PROVE  Inv'
<1>1. /\ q \in Members /\ gen \in Gens /\ present \in SUBSET Parts
      /\ Sound(q, gen, present) /\ Turns(q, worker)
      /\ q.inProgress /\ q.waiting = 0 /\ q.ready = 0
      /\ pc \in {"idle", "removing", "closing"}
  BY AtWork DEF WorkerMove
<1>2. worker = "moving" /\ UNCHANGED <<pc, target, worker, gen, present>>
  BY DEF WorkerMove
<1>3. PICK d \in q.updated : q' = Moved(q, d)
  BY DEF WorkerMove, Moved
<1>4. PICK t, h, R : t = Moved(q, d) /\ h = gen /\ R = present
  OBVIOUS
<1>5. /\ t \in Members /\ Sound(t, gen, present)
      /\ t.dynamic = q.dynamic /\ t.inProgress = q.inProgress
      /\ t.waiting = q.waiting /\ t.ready = q.ready
  <2>1. t \in Members /\ Sound(t, gen, present)
    BY <1>1, <1>4, Moving
  <2>2. /\ t.dynamic = q.dynamic /\ t.inProgress = q.inProgress
        /\ t.waiting = q.waiting /\ t.ready = q.ready
    BY <1>1, <1>4 DEF Moved, Members
  <2> QED BY <2>1, <2>2
<1>6. Turns(t, worker)
  BY <1>1, <1>2, <1>5 DEF Turns
<1>7. Removing'
  BY <1>2, <1>3, <1>4, <1>5 DEF Inv, Removing, IsDynamic, IsPending
<1> QED BY <1>1, <1>2, <1>3, <1>4, <1>5, <1>6, <1>7, There

LEMMA WorkerReleaseKeeps ==
  ASSUME Inv, WorkerRelease
  PROVE  Inv'
<1>1. /\ q \in Members /\ gen \in Gens /\ present \in SUBSET Parts
      /\ Sound(q, gen, present) /\ Turns(q, worker)
      /\ q.inProgress /\ q.waiting = 0 /\ q.ready = 0
      /\ pc \in {"idle", "removing", "closing"}
  BY AtWork DEF WorkerRelease
<1>2. worker' = "waiting" /\ q.updated = {} /\ UNCHANGED <<pc, target, gen, present>>
  BY DEF WorkerRelease
<1>3. PICK t, h, R : t = Finished(q) /\ h = gen /\ R = present
  OBVIOUS
<1>4. /\ t \in Members /\ Sound(t, gen, present)
      /\ t.dynamic = q.dynamic /\ t.updated = q.updated /\ t.inProgress = q.inProgress
      /\ t.waiting = q.waiting /\ t.ready = 1
  BY <1>1, <1>3, Finishing
<1>5. Turns(t, worker')
  BY <1>1, <1>2, <1>4 DEF Turns
<1>6. q' = t
  BY <1>3 DEF WorkerRelease, Finished
<1>7. Removing'
  BY <1>2, <1>4, <1>6 DEF Inv, Removing, IsDynamic, IsPending
<1> QED BY <1>1, <1>2, <1>3, <1>4, <1>5, <1>6, <1>7, There
LEMMA Ranged ==
  ASSUME NEW X, NEW a \in Seq(X)
  PROVE  IsFiniteSet(Range(a))
<1>1. DOMAIN a = 1 .. Len(a) /\ Len(a) \in Nat
  OBVIOUS
<1>2. a \in [DOMAIN a -> Range(a)] /\ \A y \in Range(a) : \E x \in DOMAIN a : a[x] = y
  BY <1>1 DEF Range
<1>3. a \in Surjection(DOMAIN a, Range(a))
  BY <1>2 DEF Surjection
<1>4. IsFiniteSet(DOMAIN a)
  BY <1>1, FS_Interval
<1> QED BY <1>3, <1>4, FS_Surjection

LEMMA InitInv ==
  ASSUME Init
  PROVE  Inv
<1>1. PICK k \in [Parts -> Counts] :
        LET objs == SetToSeq(UNION {Range(Collected(e, 1, k[e])) : e \in Parts}) IN
        q = [tree |-> objs, pendingTree |-> <<>>, dynamic |-> {},
             updated |-> {}, nullSlots |-> <<>>, inProgress |-> FALSE,
             waiting |-> 0, ready |-> 0, allocated |-> Range(objs)]
  BY DEF Init
<1>2. /\ pc = "idle" /\ target = {} /\ worker = "waiting"
      /\ gen = [e \in Parts |-> 1] /\ present = Parts
  BY DEF Init
<1> DEFINE R(e) == Range(Collected(e, 1, k[e]))
           U == UNION {R(e) : e \in Parts}
           objs == SetToSeq(U)
<1>3. 1 \in 1 .. MaxGen
  BY MaxGenNat
<1>4. ASSUME NEW e \in Parts
      PROVE  IsFiniteSet(R(e)) /\ \A o \in R(e) : o \in Obj /\ o.part = e
  <2> DEFINE c == Collected(e, 1, k[e])
  <2>1. c \in Seq(Obj) /\ \A o \in Range(c) : o \in Obj /\ o.part = e
    BY <1>3, Collecting
  <2> HIDE DEF c
  <2>2. IsFiniteSet(Range(c))
    BY <2>1, Ranged
  <2> QED BY <2>1, <2>2 DEF c
<1>5. q = [tree |-> objs, pendingTree |-> <<>>, dynamic |-> {},
           updated |-> {}, nullSlots |-> <<>>, inProgress |-> FALSE,
           waiting |-> 0, ready |-> 0, allocated |-> Range(objs)]
  BY <1>1
<1> HIDE DEF R
<1>6. IsFiniteSet(U)
  <2> DEFINE f == [e \in Parts |-> R(e)]
             S == {R(e) : e \in Parts}
  <2>1. f \in Surjection(Parts, S)
    BY DEF Surjection
  <2> HIDE DEF f, S
  <2>2. IsFiniteSet(S)
    BY <2>1, PartsFinite, FS_Surjection
  <2>3. \A T \in S : IsFiniteSet(T)
    BY <1>4 DEF S
  <2>4. IsFiniteSet(UNION S)
    BY <2>2, <2>3, FS_UNION
  <2> QED BY <2>4 DEF S
<1>7. \A o : o \in U <=> \E e \in Parts : o \in R(e)
  OBVIOUS
<1> HIDE DEF U
<1>8. objs \in Seq(U) /\ Range(objs) = U /\ IsInjective(objs)
  BY <1>6, Listing
<1> HIDE DEF objs
<1>9. \A o \in U : o \in Obj /\ o # Null
  BY <1>4, <1>7, NullApart
<1>10. objs \in Slots /\ \A i \in DOMAIN objs : objs[i] # Null
  <2>1. objs \in Seq(Obj \cup {Null})
    BY <1>8, <1>9
  <2> QED BY <1>8, <1>9, <2>1 DEF Slots
<1>11. <<>> \in Slots /\ <<>> \in Seq(Nat) /\ Range(objs) \in SUBSET Obj
       /\ DOMAIN <<>> = {} /\ Range(<<>>) = {}
  BY <1>8, <1>9 DEF Slots, Range
<1>12. q \in Members
  BY <1>5, <1>10, <1>11 DEF Members
<1>13. TypeOK
  BY <1>2, <1>3, <1>12 DEF TypeOK
<1>14. /\ q.tree = objs /\ q.dynamic = {} /\ q.updated = {} /\ q.nullSlots = <<>>
       /\ q.inProgress = FALSE /\ q.waiting = 0 /\ q.ready = 0 /\ q.allocated = U
  BY <1>5, <1>8
<1>15. Phases /\ Removing
  BY <1>2, <1>14 DEF Phases, Turns, Removing
<1>16. Cur(q) = objs /\ Held(q) = U
  BY <1>8, <1>9, <1>14 DEF Cur, Held
<1>17. Fit(q)
  <2>1. HeldOnce(objs)
    BY <1>8 DEF HeldOnce, IsInjective
  <2>2. SlotsFit(objs, <<>>)
    BY <1>10, <1>11 DEF SlotsFit, IsInjective
  <2> QED BY <1>14, <1>16, <2>1, <2>2 DEF Fit
<1>18. Contents(q, gen, present)
  <2>1. ListObjs({}) = {}
    BY DEF ListObjs
  <2> QED BY <1>14, <1>16, <2>1 DEF Contents, OnePerPart, InLastVersion, Allocated, Copied
<1>19. Places(q, gen, present)
  <2> SUFFICES ASSUME NEW e \in Parts PROVE Place(q, gen, present, e)
    BY DEF Places
  <2>1. ~ IsDynamic(q, e) /\ ~ IsUpdated(q, e) /\ e \in present /\ gen[e] = 1
    BY <1>2, <1>14 DEF IsDynamic, IsUpdated
  <2>2. OfPart(U, e) = R(e)
    BY <1>4, <1>7 DEF OfPart
  <2>3. k[e] \in Counts /\ OfPart(Held(q), e) = Range(Collected(e, 1, k[e]))
    BY <1>16, <2>2 DEF R
  <2> QED BY <2>1, <2>3 DEF Place, Stored, InTree
<1> QED BY <1>13, <1>15, <1>17, <1>18, <1>19 DEF Inv

LEMMA InvKept ==
  ASSUME Inv, [Next]_vars
  PROVE  Inv'
<1>1. ASSUME UNCHANGED vars PROVE Inv'
  BY <1>1 DEF vars, Inv, TypeOK, Phases, Removing
<1>2. ASSUME NEW e \in Parts, SetDynamic(e) PROVE Inv'
  BY <1>2, SetDynamicKeeps
<1>3. ASSUME NEW e \in Parts, Update(e) PROVE Inv'
  BY <1>3, UpdateKeeps
<1>4. ASSUME NEW e \in Parts, SetStatic(e) PROVE Inv'
  BY <1>4, SetStaticKeeps
<1>5. ASSUME NEW e \in Parts, RemoveCall(e) PROVE Inv'
  BY <1>5, RemoveCallKeeps
<1>6. ASSUME NEW e \in target, RemoveReturn(e) PROVE Inv'
  BY <1>6, RemoveReturnKeeps
<1>7. ASSUME HitTest PROVE Inv'
  BY <1>7, HitTestKeeps
<1>8. ASSUME AwaitUpdate PROVE Inv'
  BY <1>8, AwaitUpdateKeeps
<1>9. ASSUME CloseCall PROVE Inv'
  BY <1>9, CloseCallKeeps
<1>10. ASSUME CloseWorker PROVE Inv'
  BY <1>10, CloseWorkerKeeps
<1>11. ASSUME CloseReturn PROVE Inv'
  BY <1>11, CloseReturnKeeps
<1>12. ASSUME WorkerAcquire PROVE Inv'
  BY <1>12, WorkerAcquireKeeps
<1>13. ASSUME WorkerMove PROVE Inv'
  BY <1>13, WorkerMoveKeeps
<1>14. ASSUME WorkerRelease PROVE Inv'
  BY <1>14, WorkerReleaseKeeps
<1>15. ASSUME Terminated PROVE Inv'
  BY <1>1, <1>15 DEF Terminated
<1> QED BY <1>1, <1>2, <1>3, <1>4, <1>5, <1>6, <1>7, <1>8, <1>9, <1>10, <1>11, <1>12,
           <1>13, <1>14, <1>15 DEF Next, Main, Worker

LEMMA Invariant == Spec => []Inv
<1>1. Init => Inv
  BY InitInv
<1>2. Inv /\ [Next]_vars => Inv'
  BY InvKept
<1> QED BY <1>1, <1>2, PTL DEF Spec

-----------------------------------------------------------------------------
(* The properties.                                                           *)

\* The members keep their types; a binary semaphore is not released twice.
THEOREM TypesKept == Spec => []TypeOK
<1>1. Inv => TypeOK
  BY DEF Inv
<1> QED BY <1>1, Invariant, PTL

\* What is pointed to is in the tree to come or in a list.
LEMMA Used ==
  ASSUME Inv
  PROVE  InUse = Held(q) \cup ListObjs(q.dynamic) \cup ListObjs(q.updated)
<1>1. q \in Members /\ Copied(q)
  BY DEF Inv, TypeOK, Contents
<1>2. Null \notin ListObjs(q.dynamic) /\ Null \notin ListObjs(q.updated)
  <2>1. q.dynamic \in SUBSET Entry /\ q.updated \in SUBSET Entry
    BY <1>1 DEF Members
  <2> QED BY <2>1, ListObjsTypes, NullApart
<1>3. CASE q.inProgress
  <2>1. Held(q) = Range(q.pendingTree) \ {Null}
    BY <1>3 DEF Held, Cur
  <2>2. Range(q.tree) \ {Null} \subseteq Range(q.pendingTree)
    BY <1>1, <1>3 DEF Copied
  <2> QED BY <1>2, <1>3, <2>1, <2>2 DEF InUse
<1>4. CASE ~ q.inProgress
  <2>1. Held(q) = Range(q.tree) \ {Null}
    BY <1>4 DEF Held, Cur
  <2> QED BY <1>2, <1>4, <2>1 DEF InUse
<1> QED BY <1>3, <1>4

\* Whatever is edited, removed or tested while the worker is at its copy, the
\* allocated hit objects are those that a tree in use or a list points to, and
\* an update is with one thread at a time, until the structure is destroyed.
THEOREM NoneLeakedNorDangling == Spec => []ObjectsInUse
<1>1. Inv => ObjectsInUse
  <2> SUFFICES ASSUME Inv PROVE ObjectsInUse
    OBVIOUS
  <2>1. Allocated(q)
    BY DEF Inv, Contents
  <2>2. q.allocated = InUse
    BY <2>1, Used DEF Allocated
  <2>3. HandOver
    BY DEF Inv, Phases, Turns, HandOver
  <2> QED BY <2>2, <2>3 DEF ObjectsInUse
<1> QED BY <1>1, Invariant, PTL

\* The slots that the worker fills are the null entries of the tree, each
\* listed once, after any number of updates: no object is overwritten and no
\* slot is lost.
THEOREM SlotsStayExact == Spec => []SlotsExact
<1>1. Inv => SlotsExact
  BY DEF Inv, Fit, SlotsFit, Cur, SlotsExact
<1> QED BY <1>1, Invariant, PTL

\* Between updates each part of the table is tested in its last version, as
\* dynamic or in the tree and never twice.
THEOREM TestedOnce == Spec => []InOnePlace
<1>1. Inv => InOnePlace
  <2> SUFFICES ASSUME Inv, ~ q.inProgress, pc # "closed", NEW e \in present
               PROVE  LET here == Positions(q.tree, {e}) IN
                      IF IsDynamic(q, e) THEN here = {}
                      ELSE /\ \A i, j \in here : q.tree[i] = q.tree[j] => i = j
                           /\ \E k \in Counts :
                                ObjectsOf(q.tree, {e}) = Range(Collected(e, gen[e], k))
    BY DEF InOnePlace
  <2> DEFINE t == q.tree
             here == Positions(t, {e})
  <2>1. e \in Parts /\ t \in Slots /\ Place(q, gen, present, e)
    BY DEF Inv, TypeOK, Members, Places
  <2>2. Held(q) = Range(t) \ {Null} /\ HeldOnce(t)
    BY DEF Held, Cur, Inv, Fit
  <2>3. ~ IsUpdated(q, e)
    BY DEF Inv, Phases, Turns, IsUpdated
  <2>4. {e} \in SUBSET Parts
    BY <2>1
  <2> HIDE DEF t
  <2>5. /\ here \in SUBSET (DOMAIN t)
        /\ \A i \in here : t[i] \in Obj
        /\ ObjectsOf(t, {e}) = {o \in Range(t) \ {Null} : o.part \in {e}}
    BY <2>1, <2>4, PositionsIn
  <2>6. ObjectsOf(t, {e}) = OfPart(Held(q), e)
    BY <2>2, <2>5 DEF OfPart
  <2>7. CASE IsDynamic(q, e)
    <3>1. ObjectsOf(t, {e}) = {}
      BY <2>1, <2>6, <2>7 DEF Place, Nowhere
    <3>2. here = {}
      BY <3>1 DEF ObjectsOf
    <3> QED BY <2>7, <3>2 DEF t
  <2>8. CASE ~ IsDynamic(q, e)
    <3>1. InTree(q, e, gen[e])
      BY <2>1, <2>3, <2>8 DEF Place, Stored, InUpdate, IsUpdated
    <3>2. \E k \in Counts : ObjectsOf(t, {e}) = Range(Collected(e, gen[e], k))
      BY <2>6, <3>1 DEF InTree
    <3>3. \A i, j \in here : t[i] = t[j] => i = j
      BY <2>2, <2>5, NullApart DEF HeldOnce
    <3> QED BY <2>8, <3>2, <3>3 DEF t
  <2> QED BY <2>7, <2>8
<1> QED BY <1>1, Invariant, PTL

\* Once Remove has returned nothing points to a hit object of the part, that
\* its caller deletes next.
THEOREM RemovedStaysGone == Spec => []RemovedGone
<1>1. Inv => RemovedGone
  <2> SUFFICES ASSUME Inv, NEW e \in Parts, e \notin present, NEW o \in InUse, o.part = e
               PROVE  FALSE
    BY DEF RemovedGone
  <2>1. o \in Held(q) \cup ListObjs(q.dynamic) \cup ListObjs(q.updated)
    BY Used
  <2>2. CASE pc = "closed"
    <3>1. q.tree = <<>> /\ q.dynamic = {} /\ q.updated = {} /\ ~ q.inProgress
      BY <2>2 DEF Inv, Phases
    <3>2. Range(<<>>) = {} /\ ListObjs({}) = {}
      BY DEF Range, ListObjs
    <3> QED BY <2>1, <3>1, <3>2 DEF Held, Cur
  <2>3. CASE pc # "closed"
    <3>1. /\ q \in Members /\ gen \in Gens /\ present \in SUBSET Parts
          /\ Contents(q, gen, present) /\ Places(q, gen, present)
      BY <2>3 DEF Inv, TypeOK, Gens
    <3>2. ~ IsDynamic(q, e)
      BY <3>1 DEF Contents, InLastVersion, IsDynamic
    <3>3. Nowhere(q, e)
      BY <3>1, <3>2 DEF Places, Place
    <3>4. o \notin Held(q)
      BY <3>3 DEF Nowhere, OfPart
    <3>5. o \notin ListObjs(q.dynamic)
      BY <3>1, <3>2, Apart DEF ListObjs, IsDynamic
    <3>6. o \notin ListObjs(q.updated)
      BY <3>1, <3>3, Apart DEF ListObjs, Nowhere, IsUpdated
    <3> QED BY <2>1, <3>4, <3>5, <3>6
  <2> QED BY <2>2, <2>3
<1> QED BY <1>1, Invariant, PTL
=============================================================================

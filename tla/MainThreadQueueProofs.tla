------------------------ MODULE MainThreadQueueProofs ------------------------
(***************************************************************************)
(* Proofs about MainThreadQueue, for any plugins, jobs and delays: what    *)
(* the posting threads and the API thread do to the list of callbacks      *)
(* amounts to a few changes of the list, of the batch that is being run    *)
(* and of what has run, and each of them keeps the parts of the invariant. *)
(***************************************************************************)
EXTENDS MainThreadQueue, FiniteSetTheorems, FunctionTheorems, SequenceTheorems,
        WellFoundedInduction, TLAPS

\* Blocking calls, which are due, stand before the others, which are sorted.
Sorted ==
  /\ \A i \in DOMAIN timers : timers[i].blocking => timers[i].time <= now
  /\ \A i, j \in DOMAIN timers :
       i < j /\ ~ timers[i].blocking =>
         ~ timers[j].blocking /\ timers[i].time <= timers[j].time

\* The list and the batch hold entries that were posted, each job once.
PostedOnce ==
  \A p, q \in DOMAIN posted : posted[p].job = posted[q].job => p = q
Known ==
  /\ \A i \in DOMAIN timers : \E p \in DOMAIN posted : posted[p] = timers[i]
  /\ \A i \in DOMAIN batch : \E p \in DOMAIN posted : posted[p] = batch[i]

Ran(j) == \E i \in DOMAIN ran : ran[i] = j
InBatch(j) == \E i \in DOMAIN batch : batch[i].job = j
Listed(j) == \E i \in DOMAIN timers : timers[i].job = j

\* No job is in two places, and each that was posted is in one.
Apart ==
  /\ \A i, j \in DOMAIN timers : timers[i].job = timers[j].job => i = j
  /\ \A i, j \in DOMAIN batch : batch[i].job = batch[j].job => i = j
  /\ \A i, j \in DOMAIN ran : ran[i] = ran[j] => i = j
  /\ \A i \in DOMAIN timers : ~ InBatch(timers[i].job) /\ ~ Ran(timers[i].job)
  /\ \A i \in DOMAIN batch : ~ Ran(batch[i].job)
Somewhere ==
  \A p \in DOMAIN posted :
    Listed(posted[p].job) \/ InBatch(posted[p].job) \/ Ran(posted[p].job)

\* p is to be run before q, and is before it wherever q is.
Ahead(p, q) ==
  /\ p < q
  /\ posted[p].endpoint = posted[q].endpoint
  /\ ~ posted[p].blocking /\ ~ posted[q].blocking
  /\ posted[p].time <= posted[q].time

RanAfter(j, i) ==
  \A k \in DOMAIN ran : ran[k] = i => \E l \in DOMAIN ran : l < k /\ ran[l] = j
BatchAfter(j, i) ==
  \A k \in DOMAIN batch : batch[k].job = i =>
    Ran(j) \/ \E l \in DOMAIN batch : l < k /\ batch[l].job = j
ListedAfter(j, i) ==
  \A k \in DOMAIN timers : timers[k].job = i =>
    Ran(j) \/ InBatch(j) \/ \E l \in DOMAIN timers : l < k /\ timers[l].job = j

InLine ==
  \A p, q \in DOMAIN posted : Ahead(p, q) =>
    /\ RanAfter(posted[p].job, posted[q].job)
    /\ BatchAfter(posted[p].job, posted[q].job)
    /\ ListedAfter(posted[p].job, posted[q].job)

\* One plugin at a time is being loaded or unloaded, and the API thread is in
\* the function that does so.
Busy(e) == plugin[e] \notin {"loaded", "unloaded"}
Life ==
  /\ \A e \in Endpoints :
       /\ plugin[e] = "loading" => pc = "load"
       /\ plugin[e] \in {"stopped", "flushed"} => pc = "unload"
       /\ plugin[e] = "flushing" => pc = "flush"
  /\ \A e, f \in Endpoints : Busy(e) /\ Busy(f) => e = f

\* No entry is one of a plugin that is flushed or unloaded.
Gone(e) == plugin[e] \in {"flushed", "unloaded"}
NoneLeft ==
  /\ \A i \in DOMAIN timers : ~ Gone(timers[i].endpoint)
  /\ \A i \in DOMAIN batch : ~ Gone(batch[i].endpoint)

Inv == /\ TypeOK /\ Sorted /\ PostedOnce /\ Known /\ Apart /\ Somewhere
       /\ InLine /\ Life /\ NoneLeft

-----------------------------------------------------------------------------
(***************************************************************************)
(* Least elements, and what Kept keeps.                                    *)
(***************************************************************************)

\* A nonempty set of naturals has a least element.
LEMMA LeastExists ==
  ASSUME NEW T \in SUBSET Nat, T # {}
  PROVE  \E x \in T : \A y \in T : x <= y
<1> DEFINE R == OpToRel(<, Nat)
<1>1. IsWellFoundedOn(R, Nat)
  BY NatLessThanWellFounded
<1>2. PICK x \in T : \A y \in T : ~ (<<y, x>> \in R)
  <2> HIDE DEF R
  <2> QED  BY <1>1, WFMin
<1>3. \A y \in T : <<y, x>> \in R <=> y < x
  BY DEF OpToRel
<1> HIDE DEF R
<1>4. \A y \in T : ~ (y < x)
  BY <1>2, <1>3
<1> QED  BY <1>4

\* t is made of those of the first n elements of s whose position is in I, in
\* their order: f tells where each comes from.
Picks(f, t, s, n, I) ==
  /\ f \in [1 .. Len(t) -> {i \in I : i \in 1 .. n}]
  /\ \A k \in 1 .. Len(t) : t[k] = s[f[k]]
  /\ \A k, l \in 1 .. Len(t) : k < l => f[k] < f[l]
  /\ \A i \in 1 .. n : i \in I => \E k \in 1 .. Len(t) : f[k] = i

\* The ranks of a finite set of positions are 1, 2, ..., in the order of the
\* positions.
LEMMA Ranks ==
  ASSUME NEW m \in Nat, NEW J \in SUBSET (1 .. m)
  PROVE  /\ Cardinality(J) \in Nat
         /\ \A i \in J : Rank(J, i) \in 1 .. Cardinality(J)
         /\ \A i, j \in J : i < j => Rank(J, i) < Rank(J, j)
         /\ \A k \in 1 .. Cardinality(J) : \E i \in J : Rank(J, i) = k
<1> DEFINE c == Cardinality(J)
           U(i) == {j \in J : j <= i}
<1>1. IsFiniteSet(J) /\ c \in Nat
  <2>1. IsFiniteSet(1 .. m)
    BY FS_Interval
  <2> QED BY <2>1, FS_Subset, FS_CardinalityType
<1>2. \A i \in J : IsFiniteSet(U(i)) /\ Cardinality(U(i)) \in Nat /\ Cardinality(U(i)) <= c
  <2> TAKE i \in J
  <2>1. U(i) \in SUBSET J
    OBVIOUS
  <2> HIDE DEF U
  <2> QED BY <1>1, <2>1, FS_Subset, FS_CardinalityType
<1>3. \A i \in J : Cardinality(U(i)) # 0
  <2> TAKE i \in J
  <2>1. i \in U(i)
    OBVIOUS
  <2> HIDE DEF U
  <2> QED BY <1>2, <2>1, FS_EmptySet
<1>4. \A i, j \in J : i < j => Cardinality(U(i)) < Cardinality(U(j))
  <2> SUFFICES ASSUME NEW i \in J, NEW j \in J, i < j
               PROVE  Cardinality(U(i)) < Cardinality(U(j))
    OBVIOUS
  <2>1. U(i) \in SUBSET U(j) /\ U(i) # U(j)
    <3>1. j \in U(j) /\ j \notin U(i)
      OBVIOUS
    <3>2. \A x \in J : x <= i => x <= j
      OBVIOUS
    <3> QED BY <3>1, <3>2
  <2> HIDE DEF U
  <2>2. Cardinality(U(i)) <= Cardinality(U(j)) /\ Cardinality(U(i)) # Cardinality(U(j))
    BY <1>2, <2>1, FS_Subset
  <2> QED BY <1>2, <2>2
<1>5. \A i \in J : Rank(J, i) = Cardinality(U(i))
  BY DEF Rank
<1> HIDE DEF U, c
<1>6. \A i \in J : Rank(J, i) \in 1 .. c
  BY <1>1, <1>2, <1>3, <1>5
<1>7. \A i, j \in J : i < j => Rank(J, i) < Rank(J, j)
  BY <1>4, <1>5
<1> DEFINE h == [i \in J |-> Rank(J, i)]
<1>8. \A i, j \in J : Rank(J, i) = Rank(J, j) => i = j
  <2> SUFFICES ASSUME NEW i \in J, NEW j \in J, Rank(J, i) = Rank(J, j), i < j
               PROVE  FALSE
    OBVIOUS
  <2> QED BY <1>1, <1>6, <1>7
<1>9. h \in Injection(J, 1 .. c)
  BY <1>6, <1>8 DEF Injection, IsInjective
<1>10. IsFiniteSet(1 .. c) /\ Cardinality(1 .. c) = c
  BY <1>1, FS_Interval
<1>11. h \in Surjection(J, 1 .. c)
  <2> HIDE DEF h
  <2> QED BY <1>9, <1>10, FS_Injection DEF c
<1>12. \A k \in 1 .. c : \E i \in J : Rank(J, i) = k
  BY <1>11 DEF Surjection
<1> QED BY <1>1, <1>6, <1>7, <1>12 DEF c

\* Kept(s, I) are the elements of s at the positions in I, in their order.
LEMMA KeptProps ==
  ASSUME NEW S, NEW s \in Seq(S), NEW I
  PROVE  /\ Kept(s, I) \in Seq(S)
         /\ \E f : Picks(f, Kept(s, I), s, Len(s), I)
<1> DEFINE m == Len(s)
           J == I \cap DOMAIN s
           c == Cardinality(J)
           f == [k \in 1 .. c |-> CHOOSE i \in J : Rank(J, i) = k]
           t == Kept(s, I)
<1>1. m \in Nat /\ DOMAIN s = 1 .. m /\ J \in SUBSET (1 .. m) /\ \A i \in J : s[i] \in S
  OBVIOUS
<1>2. t = [k \in 1 .. c |-> s[f[k]]]
  BY DEF Kept
<1> HIDE DEF J, t, m
<1>3. /\ c \in Nat
      /\ \A i \in J : Rank(J, i) \in 1 .. c
      /\ \A i, j \in J : i < j => Rank(J, i) < Rank(J, j)
      /\ \A k \in 1 .. c : \E i \in J : Rank(J, i) = k
  BY <1>1, Ranks
<1>4. \A k \in 1 .. c : f[k] \in J /\ Rank(J, f[k]) = k
  BY <1>3
<1>5. f = [k \in 1 .. c |-> f[k]]
  OBVIOUS
<1> HIDE DEF c, f
<1>6. t \in Seq(S) /\ Len(t) = c
  <2>1. \A k \in 1 .. c : s[f[k]] \in S
    BY <1>1, <1>4
  <2> QED BY <1>2, <1>3, <2>1
<1>7. \A i, j \in J : Rank(J, i) < Rank(J, j) => i < j
  <2> SUFFICES ASSUME NEW i \in J, NEW j \in J, Rank(J, i) < Rank(J, j), ~ i < j
               PROVE  FALSE
    OBVIOUS
  <2>1. i = j \/ j < i
    BY <1>1
  <2> QED BY <1>3, <2>1
<1>8. ASSUME NEW k \in 1 .. c, NEW l \in 1 .. c, k < l
      PROVE  f[k] < f[l]
  BY <1>4, <1>7, <1>8
<1>9. ASSUME NEW i \in 1 .. m, i \in I
      PROVE  \E k \in 1 .. c : f[k] = i
  <2>1. i \in J /\ Rank(J, i) \in 1 .. c
    BY <1>1, <1>3, <1>9 DEF J
  <2>2. f[Rank(J, i)] \in J /\ Rank(J, f[Rank(J, i)]) = Rank(J, i)
    BY <1>4, <2>1
  <2>3. \A j \in J : Rank(J, j) = Rank(J, i) => j = i
    <3> SUFFICES ASSUME NEW j \in J, Rank(J, j) = Rank(J, i), i < j \/ j < i
                 PROVE  FALSE
      BY <1>1, <2>1
    <3>1. Rank(J, i) < Rank(J, j) \/ Rank(J, j) < Rank(J, i)
      BY <1>3, <2>1
    <3> QED BY <1>3, <2>1, <3>1
  <2> QED BY <2>1, <2>2, <2>3
<1>10. f \in [1 .. c -> {i \in I : i \in 1 .. m}]
  BY <1>1, <1>4, <1>5 DEF J
<1>11. \A k \in 1 .. c : t[k] = s[f[k]]
  BY <1>2
<1>12. Picks(f, t, s, m, I)
  BY <1>6, <1>8, <1>9, <1>10, <1>11 DEF Picks
<1> QED BY <1>6, <1>12 DEF t, m

\* So its elements are those at the positions in I.
LEMMA KeptElements ==
  ASSUME NEW S, NEW s \in Seq(S), NEW I
  PROVE  /\ Kept(s, I) \in Seq(S)
         /\ \A k \in DOMAIN Kept(s, I) : \E i \in DOMAIN s : i \in I /\ Kept(s, I)[k] = s[i]
         /\ \A i \in DOMAIN s : i \in I => \E k \in DOMAIN Kept(s, I) : Kept(s, I)[k] = s[i]
<1>1. PICK f : Picks(f, Kept(s, I), s, Len(s), I)
  BY KeptProps
<1>2. Kept(s, I) \in Seq(S) /\ DOMAIN Kept(s, I) = 1 .. Len(Kept(s, I))
  BY KeptProps
<1> QED BY <1>1, <1>2 DEF Picks

-----------------------------------------------------------------------------
(***************************************************************************)
(* The operators on the list.                                              *)
(***************************************************************************)

\* t is s with x put after the first n elements.
InsertedAt(s, t, n, x) ==
  /\ n \in 0 .. Len(s)
  /\ t \in Seq(Entry) /\ Len(t) = Len(s) + 1
  /\ \A i \in 1 .. n : t[i] = s[i]
  /\ t[n + 1] = x
  /\ \A i \in n + 1 .. Len(s) : t[i + 1] = s[i]

LEMMA InsertAtProps ==
  ASSUME NEW s \in Seq(Entry), NEW x \in Entry, NEW n \in 0 .. Len(s)
  PROVE  InsertedAt(s, InsertAt(s, n + 1, x), n, x)
<1> DEFINE a == SubSeq(s, 1, n)
           b == SubSeq(s, n + 1, Len(s))
           c == a \o <<x>>
<1>1. /\ a \in Seq(Entry) /\ Len(a) = n
      /\ \A i \in 1 .. n : a[i] = s[i]
  OBVIOUS
<1>2. /\ b \in Seq(Entry) /\ Len(b) = Len(s) - n
      /\ \A i \in 1 .. Len(s) - n : b[i] = s[n + i]
  OBVIOUS
<1>3. InsertAt(s, n + 1, x) = c \o b
  <2>1. (n + 1) - 1 = n
    OBVIOUS
  <2> QED BY <2>1 DEF InsertAt
<1> HIDE DEF a, b
<1>4. /\ c \in Seq(Entry) /\ Len(c) = n + 1
      /\ \A i \in 1 .. n : c[i] = s[i]
      /\ c[n + 1] = x
  BY <1>1
<1> HIDE DEF c
<1>5. c \o b \in Seq(Entry) /\ Len(c \o b) = Len(s) + 1
  <2>1. c \o b \in Seq(Entry) /\ Len(c \o b) = Len(c) + Len(b)
    BY <1>2, <1>4, ConcatProperties
  <2> QED BY <2>1, <1>2, <1>4
<1>6. \A i \in 1 .. n + 1 : (c \o b)[i] = c[i]
  BY <1>2, <1>4
<1>7. \A i \in n + 1 .. Len(s) : (c \o b)[i + 1] = s[i]
  <2> TAKE i \in n + 1 .. Len(s)
  <2>1. (c \o b)[i + 1] = b[i - n]
    BY <1>2, <1>4
  <2>2. b[i - n] = s[n + (i - n)] /\ n + (i - n) = i
    BY <1>2
  <2> QED BY <2>1, <2>2
<1>8. \A i \in 1 .. n : (c \o b)[i] = s[i]
  BY <1>4, <1>6
<1>9. (c \o b)[n + 1] = x
  BY <1>4, <1>6
<1> QED BY <1>3, <1>5, <1>7, <1>8, <1>9 DEF InsertedAt

\* There is a number of elements before the first one that is later than t.
LEMMA FirstLater ==
  ASSUME NEW s \in Seq(Entry), NEW t \in Nat
  PROVE  \E n \in 0 .. Len(s) : /\ \A i \in 1 .. n : s[i].time <= t
                                /\ n < Len(s) => s[n + 1].time > t
<1> DEFINE L == {i \in 1 .. Len(s) : s[i].time > t}
<1>0. \A i \in 1 .. Len(s) : s[i].time \in Nat
  <2>1. \A i \in 1 .. Len(s) : s[i] \in Entry
    OBVIOUS
  <2> QED BY <2>1 DEF Entry
<1>1. CASE L = {}
  <2>1. \A i \in 1 .. Len(s) : s[i].time <= t
    BY <1>0, <1>1
  <2> QED BY <2>1
<1>2. CASE L # {}
  <2>1. L \in SUBSET Nat
    OBVIOUS
  <2>2. PICK m \in L : \A i \in L : m <= i
    <3> HIDE DEF L
    <3> QED BY <1>2, <2>1, LeastExists
  <2>3. \A i \in 1 .. m - 1 : s[i].time <= t
    BY <1>0, <2>2
  <2>4. m - 1 \in 0 .. Len(s) /\ s[(m - 1) + 1].time > t
    BY <2>2
  <2> QED BY <2>3, <2>4
<1> QED BY <1>1, <1>2

\* Insert puts an entry before the first one that is later.
LEMMA InsertProps ==
  ASSUME NEW s \in Seq(Entry), NEW x \in Entry
  PROVE  \E n \in 0 .. Len(s) : /\ InsertedAt(s, Insert(s, x), n, x)
                                /\ \A i \in 1 .. n : s[i].time <= x.time
                                /\ n < Len(s) => s[n + 1].time > x.time
<1> DEFINE N(n) == /\ \A i \in 1 .. n : s[i].time <= x.time
                   /\ n < Len(s) => s[n + 1].time > x.time
           c == CHOOSE n \in 0 .. Len(s) : N(n)
<1>1. \E n \in 0 .. Len(s) : N(n)
  BY FirstLater DEF Entry
<1>2. c \in 0 .. Len(s) /\ N(c)
  <2> HIDE DEF N
  <2> QED BY <1>1
<1>3. Insert(s, x) = InsertAt(s, c + 1, x)
  BY DEF Insert
<1> HIDE DEF c
<1>4. InsertedAt(s, Insert(s, x), c, x)
  BY <1>2, <1>3, InsertAtProps
<1> QED BY <1>2, <1>4

\* The entries that are due, up to the first one that is not.
LEMMA DueLenProps ==
  ASSUME TypeOK
  PROVE  /\ DueLen \in 0 .. Len(timers)
         /\ \A i \in 1 .. DueLen : timers[i].time <= now
<1> DEFINE N(n) == /\ \A i \in 1 .. n : timers[i].time <= now
                   /\ n < Len(timers) => timers[n + 1].time > now
<1>1. \E n \in 0 .. Len(timers) : N(n)
  <2>1. timers \in Seq(Entry) /\ now \in Nat
    BY MaxTimeNat DEF TypeOK
  <2> QED BY <2>1, FirstLater
<1>2. DueLen = CHOOSE n \in 0 .. Len(timers) : N(n)
  BY DEF DueLen
<1>3. DueLen \in 0 .. Len(timers) /\ N(DueLen)
  <2> HIDE DEF N
  <2> QED BY <1>1, <1>2
<1> QED BY <1>3
-----------------------------------------------------------------------------
(***************************************************************************)
(* What the steps do to the list, to the batch and to what has run.        *)
(***************************************************************************)

\* An entry is put into the list: in front, when a worker waits for it, else
\* by its time.
Posts(x, n) ==
  /\ x \in Entry
  /\ x.job \in Unused
  /\ ~ Gone(x.endpoint)
  /\ InsertedAt(timers, timers', n, x)
  /\ x.blocking => n = 0 /\ x.time <= now
  /\ ~ x.blocking => /\ now <= x.time
                     /\ \A i \in 1 .. n : timers[i].time <= x.time
                     /\ n < Len(timers) => timers[n + 1].time > x.time
  /\ posted' = Append(posted, x)
  /\ UNCHANGED <<now, batch, ran>>

\* s is made of elements of timers, in their order.
Part(f, s) ==
  /\ f \in [1 .. Len(s) -> 1 .. Len(timers)]
  /\ \A k \in 1 .. Len(s) : s[k] = timers[f[k]]
  /\ \A k, l \in 1 .. Len(s) : k < l => f[k] < f[l]

\* Entries go from the list to the empty batch: f tells which, g which stay.
\* None stays that is before one of its plugin that goes.
Moves(f, g) ==
  /\ batch = <<>>
  /\ Part(f, batch')
  /\ Part(g, timers')
  /\ \A i \in 1 .. Len(timers) : \/ \E k \in 1 .. Len(batch') : f[k] = i
                                 \/ \E k \in 1 .. Len(timers') : g[k] = i
  /\ \A k \in 1 .. Len(batch'), l \in 1 .. Len(timers') :
       /\ f[k] # g[l]
       /\ g[l] < f[k] => timers[g[l]].endpoint # timers[f[k]].endpoint
  /\ UNCHANGED <<now, posted, ran>>

\* The first job of the batch has run.
Runs ==
  /\ batch # <<>>
  /\ ran' = Append(ran, batch[1].job)
  /\ batch' = Tail(batch)
  /\ UNCHANGED <<now, timers, posted>>

\* A job has run that was never in the list.
Calls(j) ==
  /\ j \in Unused
  /\ ran' = Append(ran, j)
  /\ UNCHANGED <<now, timers, batch, posted>>

\* Nothing moves.
Rests ==
  /\ now <= now'
  /\ UNCHANGED <<timers, batch, posted, ran>>

LEMMA PostAsyncPosts ==
  ASSUME TypeOK, NEW e \in Endpoints, NEW j \in Fresh, NEW d \in Delays,
         PostAsync(e, j, d), ~ Gone(e), UNCHANGED <<now, batch, ran>>
  PROVE  \E x, n : Posts(x, n)
<1> DEFINE x == [job |-> j, endpoint |-> e, time |-> now + d, blocking |-> FALSE]
<1>1. timers \in Seq(Entry) /\ now \in Nat /\ now + d \in Nat /\ now <= now + d
  BY MaxTimeNat, DelaysNat DEF TypeOK
<1>2. j \in Unused /\ j \in Jobs
  BY DEF Fresh, Unused
<1>3. /\ x \in Entry /\ x.job = j /\ x.endpoint = e /\ x.time = now + d
      /\ x.blocking = FALSE
  BY <1>1, <1>2 DEF Entry
<1>4. timers' = Insert(timers, x) /\ posted' = Append(posted, x)
  BY DEF PostAsync
<1> HIDE DEF x
<1>5. PICK n \in 0 .. Len(timers) :
           /\ InsertedAt(timers, Insert(timers, x), n, x)
           /\ \A i \in 1 .. n : timers[i].time <= x.time
           /\ n < Len(timers) => timers[n + 1].time > x.time
  BY <1>1, <1>3, InsertProps
<1>6. Posts(x, n)
  BY <1>1, <1>2, <1>3, <1>4, <1>5 DEF Posts
<1> QED BY <1>6

LEMMA BlockingPosts ==
  ASSUME TypeOK, NEW e \in Endpoints, NEW j \in Fresh, WorkerPostBlocking(e, j)
  PROVE  \E x, n : Posts(x, n)
<1> DEFINE x == [job |-> j, endpoint |-> e, time |-> now, blocking |-> TRUE]
<1>1. timers \in Seq(Entry) /\ now \in Nat
  BY MaxTimeNat DEF TypeOK
<1>2. j \in Unused /\ j \in Jobs
  BY DEF Fresh, Unused
<1>3. /\ x \in Entry /\ x.job = j /\ x.endpoint = e /\ x.time = now
      /\ x.blocking = TRUE
  BY <1>1, <1>2 DEF Entry
<1>4. timers' = <<x>> \o timers /\ posted' = Append(posted, x)
  BY DEF WorkerPostBlocking
<1>5. ~ Gone(e) /\ UNCHANGED <<now, batch, ran>>
  BY DEF WorkerPostBlocking, Gone
<1> HIDE DEF x
<1>6. InsertedAt(timers, <<x>> \o timers, 0, x)
  <2>1. <<x>> \in Seq(Entry) /\ Len(<<x>>) = 1 /\ <<x>>[1] = x
    BY <1>3
  <2> DEFINE u == <<x>>
             t == u \o timers
  <2> HIDE DEF u
  <2>2. /\ t \in Seq(Entry)
        /\ Len(t) = Len(u) + Len(timers)
        /\ \A i \in 1 .. Len(u) + Len(timers) :
             t[i] = IF i <= Len(u) THEN u[i] ELSE timers[i - Len(u)]
    BY <1>1, <2>1, ConcatProperties DEF u
  <2>3. Len(u) = 1 /\ u[1] = x
    BY <2>1 DEF u
  <2>4. t[1] = x /\ \A i \in 1 .. Len(timers) : t[i + 1] = timers[i]
    BY <1>1, <2>2, <2>3
  <2>5. t \in Seq(Entry) /\ Len(t) = Len(timers) + 1
    BY <1>1, <2>2, <2>3
  <2> HIDE DEF t
  <2>6. InsertedAt(timers, t, 0, x)
    BY <1>1, <2>4, <2>5 DEF InsertedAt
  <2> QED BY <2>6 DEF t, u
<1>7. Posts(x, 0)
  BY <1>1, <1>2, <1>3, <1>4, <1>5, <1>6 DEF Posts
<1> QED BY <1>7

LEMMA ProcessMoves ==
  ASSUME TypeOK, ProcessAsyncCallbacks
  PROVE  \E f, g : Moves(f, g)
<1> DEFINE n == DueLen
           m == Len(timers)
           f == [k \in 1 .. n |-> k]
           g == [k \in 1 .. m - n |-> n + k]
<1>1. timers \in Seq(Entry) /\ m \in Nat /\ n \in 0 .. m
  BY DueLenProps DEF TypeOK
<1>2. /\ batch = <<>> /\ UNCHANGED <<now, posted, ran>>
      /\ batch' = SubSeq(timers, 1, n) /\ timers' = SubSeq(timers, n + 1, m)
  BY DEF ProcessAsyncCallbacks, TakeDue, TypeOK
<1> HIDE DEF n
<1>3. Len(batch') = n /\ \A k \in 1 .. n : batch'[k] = timers[k]
  BY <1>1, <1>2
<1>4. Len(timers') = m - n /\ \A k \in 1 .. m - n : timers'[k] = timers[n + k]
  BY <1>1, <1>2
<1> HIDE DEF m
<1>5. Part(f, batch')
  BY <1>1, <1>3 DEF Part, m
<1>6. Part(g, timers')
  BY <1>1, <1>4 DEF Part, m
<1>7. \A i \in 1 .. m : \/ \E k \in 1 .. n : f[k] = i
                        \/ \E k \in 1 .. m - n : g[k] = i
  <2> TAKE i \in 1 .. m
  <2>1. CASE i <= n
    BY <1>1, <2>1
  <2>2. CASE i > n
    <3>1. i - n \in 1 .. m - n /\ g[i - n] = i
      BY <1>1, <2>2
    <3> QED BY <3>1
  <2> QED BY <1>1, <2>1, <2>2
<1>8. \A k \in 1 .. n, l \in 1 .. m - n : f[k] < g[l]
  BY <1>1
<1>9. \A k \in 1 .. n, l \in 1 .. m - n : f[k] # g[l] /\ ~ (g[l] < f[k])
  <2>1. (\A k \in 1 .. n : f[k] \in Nat) /\ (\A l \in 1 .. m - n : g[l] \in Nat)
    BY <1>1
  <2> HIDE DEF f, g
  <2> QED BY <1>8, <2>1
<1> HIDE DEF f, g
<1>10. /\ \A i \in 1 .. Len(timers) : \/ \E k \in 1 .. Len(batch') : f[k] = i
                                      \/ \E k \in 1 .. Len(timers') : g[k] = i
       /\ \A k \in 1 .. Len(batch'), l \in 1 .. Len(timers') :
            f[k] # g[l] /\ ~ (g[l] < f[k])
  BY <1>3, <1>4, <1>7, <1>9 DEF m
<1>11. Moves(f, g)
  BY <1>2, <1>5, <1>6, <1>10 DEF Moves
<1> QED BY <1>11

LEMMA FlushMoves ==
  ASSUME TypeOK, NEW e \in Endpoints, FlushPass(e)
  PROVE  \E f, g : Moves(f, g)
<1>1. timers \in Seq(Entry) /\ Len(timers) \in Nat /\ DOMAIN timers = 1 .. Len(timers)
  BY DEF TypeOK
<1>2. /\ batch = <<>> /\ UNCHANGED <<now, posted, ran>>
      /\ batch' = Kept(timers, Taken(e))
      /\ timers' = Kept(timers, DOMAIN timers \ Taken(e))
  BY DEF FlushPass, EntriesOf, Others
<1>3. PICK f : Picks(f, batch', timers, Len(timers), Taken(e))
  BY <1>1, <1>2, KeptProps
<1>4. PICK g : Picks(g, timers', timers, Len(timers), DOMAIN timers \ Taken(e))
  BY <1>1, <1>2, KeptProps
<1>5. \A i \in 1 .. Len(timers) : i \in Taken(e) <=> timers[i].endpoint = e
  BY <1>1 DEF Taken, FlushTakes
<1>6. Part(f, batch')
  BY <1>3 DEF Picks, Part
<1>7. Part(g, timers')
  BY <1>4 DEF Picks, Part
<1>8. \A i \in 1 .. Len(timers) : \/ \E k \in 1 .. Len(batch') : f[k] = i
                                  \/ \E k \in 1 .. Len(timers') : g[k] = i
  BY <1>1, <1>3, <1>4 DEF Picks
<1>9. \A k \in 1 .. Len(batch'), l \in 1 .. Len(timers') :
        f[k] # g[l] /\ timers[g[l]].endpoint # timers[f[k]].endpoint
  BY <1>3, <1>4, <1>5 DEF Picks
<1> QED BY <1>2, <1>6, <1>7, <1>8, <1>9 DEF Moves

\* A step of the system is one of these.
Changes ==
  \/ \E x, n : Posts(x, n)
  \/ \E f, g : Moves(f, g)
  \/ Runs
  \/ \E j : Calls(j)
  \/ Rests

LEMMA NextChanges ==
  ASSUME TypeOK, NoneLeft, [Next]_vars
  PROVE  Changes
<1>0. now \in Nat /\ now + 1 \in Nat /\ now <= now /\ now <= now + 1
  BY MaxTimeNat DEF TypeOK
<1>1. CASE Tick
  BY <1>0, <1>1 DEF Tick, Changes, Rests
<1>2. CASE ProcessAsyncCallbacks
  BY <1>2, ProcessMoves DEF Changes
<1>3. CASE RunCallback
  BY <1>3 DEF RunCallback, Changes, Runs
<1>4. ASSUME NEW e \in Endpoints,
             LoadReturn(e) \/ FlushPendingCallbacks(e) \/ UnloadReturn(e)
               \/ Load(e) \/ Unload(e) \/ WorkerReturn(e)
      PROVE  Rests
  BY <1>0, <1>4 DEF LoadReturn, FlushPendingCallbacks, UnloadReturn, Load, Unload,
                    WorkerReturn, queue, Rests
<1>5. ASSUME NEW e \in Endpoints, FlushPass(e)
      PROVE  Changes
  BY <1>5, FlushMoves DEF Changes
<1>6. ASSUME NEW e \in Endpoints, NEW j \in Fresh, WorkerPostBlocking(e, j)
      PROVE  Changes
  BY <1>6, BlockingPosts DEF Changes
<1>7. ASSUME NEW e \in Endpoints, NEW j \in Fresh, APICallNow(e, j)
      PROVE  Changes
  <2>1. j \in Unused
    BY DEF Fresh
  <2> QED BY <1>7, <2>1 DEF APICallNow, queue, Calls, Changes
<1>8. ASSUME NEW e \in Endpoints, NEW j \in Fresh, NEW d \in Delays,
             WorkerPost(e, j, d)
      PROVE  Changes
  <2>1. ~ Gone(e) /\ UNCHANGED <<now, batch, ran>> /\ PostAsync(e, j, d)
    BY <1>8 DEF WorkerPost, Gone
  <2> QED BY <2>1, PostAsyncPosts DEF Changes
<1>9. ASSUME NEW e \in Endpoints, NEW j \in Fresh, NEW d \in Delays,
             APIPost(e, j, d)
      PROVE  Changes
  <2>1. ~ Gone(e)
    <3>1. CASE pc \in {"load", "idle", "unload"}
      BY <1>9, <3>1 DEF APIPost, InPlugin, Gone
    <3>2. CASE pc \notin {"load", "idle", "unload"}
      <4>1. batch # <<>> /\ batch[1].endpoint = e
        BY <1>9, <3>2 DEF APIPost, InPlugin
      <4>2. 1 \in DOMAIN batch
        BY <4>1 DEF TypeOK
      <4> QED BY <4>1, <4>2 DEF NoneLeft
    <3> QED BY <3>1, <3>2
  <2>2. UNCHANGED <<now, batch, ran>> /\ PostAsync(e, j, d)
    BY <1>9 DEF APIPost
  <2> QED BY <2>1, <2>2, PostAsyncPosts DEF Changes
<1>10. CASE UNCHANGED vars
  BY <1>0, <1>10 DEF vars, Rests, Changes
<1> QED BY <1>1, <1>2, <1>3, <1>4, <1>5, <1>6, <1>7, <1>8, <1>9, <1>10
        DEF Next, APIStep, Changes
-----------------------------------------------------------------------------
(***************************************************************************)
(* Each part of the invariant is kept.                                     *)
(***************************************************************************)

LEMMA TypeFacts ==
  ASSUME TypeOK
  PROVE  /\ now \in Nat
         /\ Len(timers) \in Nat /\ DOMAIN timers = 1 .. Len(timers)
         /\ Len(batch) \in Nat /\ DOMAIN batch = 1 .. Len(batch)
         /\ Len(posted) \in Nat /\ DOMAIN posted = 1 .. Len(posted)
         /\ Len(ran) \in Nat /\ DOMAIN ran = 1 .. Len(ran)
         /\ \A i \in 1 .. Len(timers) : timers[i] \in Entry /\ timers[i].time \in Nat
         /\ \A i \in 1 .. Len(posted) : posted[i] \in Entry /\ posted[i].time \in Nat
<1>1. /\ now \in Nat /\ timers \in Seq(Entry) /\ batch \in Seq(Entry)
      /\ posted \in Seq(Entry) /\ ran \in Seq(Jobs)
  BY MaxTimeNat DEF TypeOK
<1>2. \A x \in Entry : x.time \in Nat
  BY DEF Entry
<1>3. \A i \in 1 .. Len(timers) : timers[i] \in Entry
  BY <1>1
<1>4. \A i \in 1 .. Len(posted) : posted[i] \in Entry
  BY <1>1
<1>5. /\ Len(timers) \in Nat /\ DOMAIN timers = 1 .. Len(timers)
      /\ Len(batch) \in Nat /\ DOMAIN batch = 1 .. Len(batch)
      /\ Len(posted) \in Nat /\ DOMAIN posted = 1 .. Len(posted)
      /\ Len(ran) \in Nat /\ DOMAIN ran = 1 .. Len(ran)
  BY <1>1
<1> QED BY <1>1, <1>2, <1>3, <1>4, <1>5

\* Where the i-th element is after one was put in after the first n.
Shift(n, i) == IF i <= n THEN i ELSE i + 1

LEMMA InsertedShift ==
  ASSUME NEW s \in Seq(Entry), NEW t, NEW x, NEW n, InsertedAt(s, t, n, x)
  PROVE  /\ n \in 0 .. Len(s) /\ n + 1 \in 1 .. Len(t) /\ t[n + 1] = x
         /\ \A i \in 1 .. Len(s) : /\ Shift(n, i) \in 1 .. Len(t)
                                   /\ t[Shift(n, i)] = s[i]
                                   /\ Shift(n, i) # n + 1
                                   /\ i <= n <=> Shift(n, i) < n + 1
         /\ \A i, j \in 1 .. Len(s) : i < j <=> Shift(n, i) < Shift(n, j)
         /\ \A k \in 1 .. Len(t) : k = n + 1 \/ \E i \in 1 .. Len(s) : k = Shift(n, i)
<1>1. Len(s) \in Nat /\ Len(t) = Len(s) + 1 /\ n \in 0 .. Len(s)
  BY DEF InsertedAt
<1>2. \A i \in 1 .. Len(s) : \/ i \in 1 .. n /\ Shift(n, i) = i
                             \/ i \in n + 1 .. Len(s) /\ Shift(n, i) = i + 1
  BY <1>1 DEF Shift
<1>3. \A i \in 1 .. Len(s) : t[Shift(n, i)] = s[i]
  BY <1>2 DEF InsertedAt
<1>4. \A k \in 1 .. Len(t) : k = n + 1 \/ \E i \in 1 .. Len(s) : k = Shift(n, i)
  <2> TAKE k \in 1 .. Len(t)
  <2>1. CASE k <= n
    <3>1. k \in 1 .. Len(s) /\ Shift(n, k) = k
      BY <1>1, <2>1 DEF Shift
    <3> QED BY <3>1
  <2>2. CASE k > n + 1
    <3>1. k - 1 \in 1 .. Len(s) /\ Shift(n, k - 1) = k
      BY <1>1, <2>2 DEF Shift
    <3> QED BY <3>1
  <2> QED BY <1>1, <2>1, <2>2
<1>5. t[n + 1] = x /\ n + 1 \in 1 .. Len(t)
  BY <1>1 DEF InsertedAt
<1>6. \A i \in 1 .. Len(s) : /\ Shift(n, i) \in 1 .. Len(t) /\ Shift(n, i) # n + 1
                             /\ i <= n <=> Shift(n, i) < n + 1
  BY <1>1, <1>2
<1>7. \A i, j \in 1 .. Len(s) : i < j <=> Shift(n, i) < Shift(n, j)
  BY <1>1, <1>2
<1> QED BY <1>1, <1>3, <1>4, <1>5, <1>6, <1>7

LEMMA SortedKept ==
  ASSUME TypeOK, TypeOK', Sorted, Changes
  PROVE  Sorted'
<1>1. ASSUME NEW x, NEW n, Posts(x, n)
      PROVE  Sorted'
  <2>1. /\ x \in Entry /\ x.time \in Nat /\ x.blocking \in BOOLEAN
        /\ x.blocking => n = 0 /\ x.time <= now
        /\ ~ x.blocking => /\ now <= x.time
                           /\ \A i \in 1 .. n : timers[i].time <= x.time
                           /\ n < Len(timers) => timers[n + 1].time > x.time
        /\ now' = now /\ InsertedAt(timers, timers', n, x)
    BY <1>1 DEF Posts, Entry
  <2>2. /\ n \in 0 .. Len(timers) /\ n + 1 \in 1 .. Len(timers') /\ timers'[n + 1] = x
        /\ \A i \in 1 .. Len(timers) : /\ timers'[Shift(n, i)] = timers[i]
                                       /\ Shift(n, i) # n + 1
                                       /\ i <= n <=> Shift(n, i) < n + 1
        /\ \A i, j \in 1 .. Len(timers) : i < j <=> Shift(n, i) < Shift(n, j)
        /\ \A k \in 1 .. Len(timers') :
             k = n + 1 \/ \E i \in 1 .. Len(timers) : k = Shift(n, i)
    BY <2>1, InsertedShift DEF TypeOK
  <2>3. \A i \in 1 .. Len(timers') : timers'[i].blocking => timers'[i].time <= now
    BY <2>1, <2>2, TypeFacts DEF Sorted
  <2>4. ASSUME NEW i \in 1 .. Len(timers'), NEW j \in 1 .. Len(timers'),
               i < j, ~ timers'[i].blocking
        PROVE  ~ timers'[j].blocking /\ timers'[i].time <= timers'[j].time
    <3>1. CASE i = n + 1
      <4>1. PICK b \in 1 .. Len(timers) : j = Shift(n, b)
        BY <2>2, <2>4, <3>1
      <4>2. n + 1 <= b /\ n + 1 \in 1 .. Len(timers) /\ n < Len(timers)
        BY <2>2, <2>4, <3>1, <4>1, TypeFacts
      <4>3. timers[n + 1].time > x.time /\ now <= x.time
        BY <2>1, <2>2, <2>4, <3>1, <4>2
      <4>4. timers[n + 1].time \in Nat /\ timers[b].time \in Nat /\ now \in Nat
        BY <4>2, TypeFacts
      <4>5. ~ timers[n + 1].blocking
        BY <2>1, <4>2, <4>3, <4>4, TypeFacts DEF Sorted
      <4>6. ~ timers[b].blocking /\ timers[n + 1].time <= timers[b].time
        BY <4>2, <4>4, <4>5, TypeFacts DEF Sorted
      <4>7. timers'[i].time = x.time /\ timers'[j] = timers[b]
        BY <2>2, <3>1, <4>1
      <4> QED BY <2>1, <4>3, <4>4, <4>6, <4>7
    <3>2. CASE j = n + 1
      <4>1. PICK a \in 1 .. Len(timers) : i = Shift(n, a)
        BY <2>2, <2>4, <3>2
      <4>2. a \in 1 .. n /\ timers'[i] = timers[a] /\ timers'[j] = x
        BY <2>2, <2>4, <3>2, <4>1
      <4>3. ~ x.blocking
        BY <2>1, <4>2
      <4> QED BY <2>1, <4>2, <4>3
    <3>3. CASE i # n + 1 /\ j # n + 1
      <4>1. PICK a \in 1 .. Len(timers) : i = Shift(n, a)
        BY <2>2, <3>3
      <4>2. PICK b \in 1 .. Len(timers) : j = Shift(n, b)
        BY <2>2, <3>3
      <4>3. a < b /\ timers'[i] = timers[a] /\ timers'[j] = timers[b]
        BY <2>2, <2>4, <4>1, <4>2
      <4> QED BY <2>4, <4>3, TypeFacts DEF Sorted
    <3> QED BY <3>1, <3>2, <3>3
  <2>5. DOMAIN timers' = 1 .. Len(timers')
    BY DEF TypeOK
  <2> QED BY <2>1, <2>3, <2>4, <2>5 DEF Sorted
<1>2. ASSUME NEW f, NEW g, Moves(f, g)
      PROVE  Sorted'
  <2>1. /\ now' = now
        /\ \A k \in 1 .. Len(timers') : g[k] \in DOMAIN timers /\ timers'[k] = timers[g[k]]
        /\ \A k, l \in 1 .. Len(timers') : k < l => g[k] < g[l]
    BY <1>2, TypeFacts DEF Moves, Part
  <2>2. DOMAIN timers' = 1 .. Len(timers')
    BY DEF TypeOK
  <2> QED BY <2>1, <2>2 DEF Sorted
<1>3. CASE UNCHANGED timers /\ now <= now'
  <2>1. now \in Nat /\ now' \in Nat
    BY MaxTimeNat DEF TypeOK
  <2>2. \A i \in DOMAIN timers : timers[i].time <= now => timers[i].time <= now'
    BY <1>3, <2>1, TypeFacts
  <2> QED BY <1>3, <2>2 DEF Sorted
<1>4. now <= now
  BY TypeFacts
<1> QED BY <1>1, <1>2, <1>3, <1>4 DEF Changes, Runs, Calls, Rests
LEMMA Appended ==
  ASSUME NEW S, NEW s \in Seq(S), NEW x \in S
  PROVE  /\ Append(s, x) \in Seq(S)
         /\ Len(s) \in Nat /\ DOMAIN s = 1 .. Len(s)
         /\ DOMAIN Append(s, x) = 1 .. Len(s) + 1
         /\ \A i \in DOMAIN s : i \in DOMAIN Append(s, x) /\ Append(s, x)[i] = s[i]
         /\ Len(s) + 1 \in DOMAIN Append(s, x) /\ Append(s, x)[Len(s) + 1] = x
         /\ \A i \in DOMAIN Append(s, x) :
              i = Len(s) + 1 \/ (i \in DOMAIN s /\ i < Len(s) + 1)
  OBVIOUS

LEMMA UnusedFacts ==
  ASSUME TypeOK, Known, NEW j \in Unused
  PROVE  /\ j \in Jobs /\ ~ Listed(j) /\ ~ InBatch(j) /\ ~ Ran(j)
         /\ \A p \in DOMAIN posted : posted[p].job # j
<1>1. j \in Jobs /\ ~ Ran(j) /\ \A p \in DOMAIN posted : posted[p].job # j
  BY DEF Unused, JobsOf, Ran
<1>2. ~ Listed(j) /\ ~ InBatch(j)
  BY <1>1 DEF Known, Listed, InBatch
<1> QED BY <1>1, <1>2

LEMMA PostsFacts ==
  ASSUME TypeOK, Known, NEW x, NEW n, Posts(x, n)
  PROVE  /\ x.job \in Unused
         /\ n + 1 \in DOMAIN timers' /\ timers'[n + 1] = x
         /\ \A i \in DOMAIN timers : /\ Shift(n, i) \in DOMAIN timers'
                                     /\ timers'[Shift(n, i)] = timers[i]
                                     /\ i <= n <=> Shift(n, i) < n + 1
         /\ \A i, j \in DOMAIN timers : i < j <=> Shift(n, i) < Shift(n, j)
         /\ \A k \in DOMAIN timers' :
              k = n + 1 \/ \E i \in DOMAIN timers : k = Shift(n, i)
         /\ batch' = batch /\ ran' = ran
         /\ \A p \in DOMAIN posted : p \in DOMAIN posted' /\ posted'[p] = posted[p]
         /\ Len(posted) + 1 \in DOMAIN posted' /\ posted'[Len(posted) + 1] = x
         /\ \A p \in DOMAIN posted' :
              p = Len(posted) + 1 \/ (p \in DOMAIN posted /\ p < Len(posted) + 1)
<1>1. /\ x.job \in Unused /\ x \in Entry /\ posted' = Append(posted, x)
      /\ InsertedAt(timers, timers', n, x) /\ batch' = batch /\ ran' = ran
  BY DEF Posts
<1>2. DOMAIN timers = 1 .. Len(timers) /\ DOMAIN timers' = 1 .. Len(timers')
  BY <1>1 DEF TypeOK, InsertedAt
<1>3. posted \in Seq(Entry) /\ timers \in Seq(Entry)
  BY DEF TypeOK
<1>4. /\ \A p \in DOMAIN posted : p \in DOMAIN posted' /\ posted'[p] = posted[p]
      /\ Len(posted) + 1 \in DOMAIN posted' /\ posted'[Len(posted) + 1] = x
      /\ \A p \in DOMAIN posted' :
           p = Len(posted) + 1 \/ (p \in DOMAIN posted /\ p < Len(posted) + 1)
  BY <1>1, <1>3, Appended
<1>5. /\ n + 1 \in DOMAIN timers' /\ timers'[n + 1] = x
      /\ \A i \in DOMAIN timers : /\ Shift(n, i) \in DOMAIN timers'
                                  /\ timers'[Shift(n, i)] = timers[i]
                                  /\ i <= n <=> Shift(n, i) < n + 1
      /\ \A i, j \in DOMAIN timers : i < j <=> Shift(n, i) < Shift(n, j)
      /\ \A k \in DOMAIN timers' :
           k = n + 1 \/ \E i \in DOMAIN timers : k = Shift(n, i)
  <2>1. /\ n + 1 \in 1 .. Len(timers') /\ timers'[n + 1] = x
        /\ \A i \in 1 .. Len(timers) : /\ Shift(n, i) \in 1 .. Len(timers')
                                       /\ timers'[Shift(n, i)] = timers[i]
                                       /\ Shift(n, i) # n + 1
                                       /\ i <= n <=> Shift(n, i) < n + 1
        /\ \A i, j \in 1 .. Len(timers) : i < j <=> Shift(n, i) < Shift(n, j)
        /\ \A k \in 1 .. Len(timers') :
             k = n + 1 \/ \E i \in 1 .. Len(timers) : k = Shift(n, i)
    BY <1>1, <1>3, InsertedShift
  <2> QED BY <1>2, <2>1
<1> QED BY <1>1, <1>4, <1>5

LEMMA MovesFacts ==
  ASSUME TypeOK, TypeOK', NEW f, NEW g, Moves(f, g)
  PROVE  /\ batch = <<>> /\ DOMAIN batch = {}
         /\ posted' = posted /\ ran' = ran
         /\ \A k \in DOMAIN batch' : f[k] \in DOMAIN timers /\ batch'[k] = timers[f[k]]
         /\ \A k \in DOMAIN timers' : g[k] \in DOMAIN timers /\ timers'[k] = timers[g[k]]
         /\ \A k, l \in DOMAIN batch' : k < l <=> f[k] < f[l]
         /\ \A k, l \in DOMAIN timers' : k < l <=> g[k] < g[l]
         /\ \A i \in DOMAIN timers : \/ \E k \in DOMAIN batch' : f[k] = i
                                     \/ \E k \in DOMAIN timers' : g[k] = i
         /\ \A k \in DOMAIN batch', l \in DOMAIN timers' :
              /\ f[k] # g[l]
              /\ g[l] < f[k] => timers[g[l]].endpoint # timers[f[k]].endpoint
<1>1. /\ DOMAIN timers = 1 .. Len(timers) /\ DOMAIN timers' = 1 .. Len(timers')
      /\ DOMAIN batch' = 1 .. Len(batch') /\ Len(batch') \in Nat /\ Len(timers') \in Nat
      /\ Len(timers) \in Nat
  BY DEF TypeOK
<1>2. \A k, l \in DOMAIN batch' : k < l <=> f[k] < f[l]
  <2>1. \A k, l \in 1 .. Len(batch') : k < l => f[k] < f[l]
    BY DEF Moves, Part
  <2>2. \A k \in 1 .. Len(batch') : f[k] \in 1 .. Len(timers)
    BY DEF Moves, Part
  <2> QED BY <1>1, <2>1, <2>2
<1>3. \A k, l \in DOMAIN timers' : k < l <=> g[k] < g[l]
  <2>1. \A k, l \in 1 .. Len(timers') : k < l => g[k] < g[l]
    BY DEF Moves, Part
  <2>2. \A k \in 1 .. Len(timers') : g[k] \in 1 .. Len(timers)
    BY DEF Moves, Part
  <2> QED BY <1>1, <2>1, <2>2
<1>4. batch = <<>> /\ DOMAIN batch = {}
  BY DEF Moves
<1> QED BY <1>1, <1>2, <1>3, <1>4 DEF Moves, Part

LEMMA RunsFacts ==
  ASSUME TypeOK, Runs
  PROVE  /\ timers' = timers /\ posted' = posted
         /\ 1 \in DOMAIN batch
         /\ \A i \in DOMAIN batch' : i + 1 \in DOMAIN batch /\ batch'[i] = batch[i + 1]
         /\ \A i \in DOMAIN batch : i = 1 \/ (i - 1 \in DOMAIN batch' /\ batch[i] = batch'[i - 1])
         /\ \A i \in DOMAIN ran : i \in DOMAIN ran' /\ ran'[i] = ran[i]
         /\ Len(ran) + 1 \in DOMAIN ran' /\ ran'[Len(ran) + 1] = batch[1].job
         /\ \A i \in DOMAIN ran' :
              i = Len(ran) + 1 \/ (i \in DOMAIN ran /\ i < Len(ran) + 1)
<1>1. /\ batch \in Seq(Entry) /\ batch # <<>> /\ ran \in Seq(Jobs)
      /\ batch' = Tail(batch) /\ ran' = Append(ran, batch[1].job)
  BY DEF TypeOK, Runs
<1>2. /\ 1 \in DOMAIN batch
      /\ DOMAIN batch = 1 .. Len(batch) /\ DOMAIN batch' = 1 .. Len(batch) - 1
      /\ \A i \in DOMAIN batch' : batch'[i] = batch[i + 1]
      /\ Len(batch) \in Nat
  BY <1>1
<1>3. \A i \in DOMAIN batch' : i + 1 \in DOMAIN batch
  BY <1>2
<1>4. \A i \in DOMAIN batch : i = 1 \/ (i - 1 \in DOMAIN batch' /\ (i - 1) + 1 = i)
  BY <1>2
<1>5. batch[1].job \in Jobs
  <2>1. batch[1] \in Entry
    BY <1>1, <1>2
  <2> QED BY <2>1 DEF Entry
<1>6. /\ \A i \in DOMAIN ran : i \in DOMAIN ran' /\ ran'[i] = ran[i]
      /\ Len(ran) + 1 \in DOMAIN ran' /\ ran'[Len(ran) + 1] = batch[1].job
      /\ \A i \in DOMAIN ran' :
           i = Len(ran) + 1 \/ (i \in DOMAIN ran /\ i < Len(ran) + 1)
  BY <1>1, <1>5, Appended
<1>7. timers' = timers /\ posted' = posted
  BY DEF Runs
<1> QED BY <1>2, <1>3, <1>4, <1>6, <1>7

LEMMA CallsFacts ==
  ASSUME TypeOK, Known, NEW j, Calls(j)
  PROVE  /\ timers' = timers /\ batch' = batch /\ posted' = posted
         /\ j \in Unused
         /\ \A i \in DOMAIN ran : i \in DOMAIN ran' /\ ran'[i] = ran[i]
         /\ Len(ran) + 1 \in DOMAIN ran' /\ ran'[Len(ran) + 1] = j
         /\ \A i \in DOMAIN ran' :
              i = Len(ran) + 1 \/ (i \in DOMAIN ran /\ i < Len(ran) + 1)
<1>1. /\ timers' = timers /\ batch' = batch /\ posted' = posted
      /\ j \in Unused /\ ran' = Append(ran, j)
  BY DEF Calls
<1>2. ran \in Seq(Jobs) /\ j \in Jobs
  BY <1>1, UnusedFacts DEF TypeOK
<1> QED BY <1>1, <1>2, Appended

LEMMA KnownKept ==
  ASSUME TypeOK, TypeOK', PostedOnce, Known, Changes
  PROVE  PostedOnce' /\ Known'
<1>1. ASSUME NEW x, NEW n, Posts(x, n)
      PROVE  PostedOnce' /\ Known'
  <2>1. \A p \in DOMAIN posted : posted[p].job # x.job
    BY <1>1, PostsFacts, UnusedFacts
  <2>2. PostedOnce'
    BY <1>1, <2>1, PostsFacts DEF PostedOnce
  <2>3. \A k \in DOMAIN timers' : \E p \in DOMAIN posted' : posted'[p] = timers'[k]
    <3> TAKE k \in DOMAIN timers'
    <3>1. CASE k = n + 1
      BY <1>1, <3>1, PostsFacts
    <3>2. CASE k # n + 1
      <4>1. PICK i \in DOMAIN timers : k = Shift(n, i)
        BY <1>1, <3>2, PostsFacts
      <4>2. timers'[k] = timers[i]
        BY <1>1, <4>1, PostsFacts
      <4>3. PICK p \in DOMAIN posted : posted[p] = timers[i]
        BY DEF Known
      <4> QED BY <1>1, <4>2, <4>3, PostsFacts
    <3> QED BY <3>1, <3>2
  <2>4. \A k \in DOMAIN batch' : \E p \in DOMAIN posted' : posted'[p] = batch'[k]
    BY <1>1, PostsFacts DEF Known
  <2> QED BY <2>2, <2>3, <2>4 DEF Known
<1>2. ASSUME NEW f, NEW g, Moves(f, g)
      PROVE  PostedOnce' /\ Known'
  BY <1>2, MovesFacts DEF PostedOnce, Known
<1>3. CASE Runs
  BY <1>3, RunsFacts DEF PostedOnce, Known
<1>4. CASE UNCHANGED <<timers, batch, posted>>
  BY <1>4 DEF PostedOnce, Known
<1> QED BY <1>1, <1>2, <1>3, <1>4 DEF Changes, Calls, Rests
LEMMA ApartKept ==
  ASSUME TypeOK, TypeOK', Known, Apart, Changes
  PROVE  Apart'
<1>1. ASSUME NEW x, NEW n, Posts(x, n)
      PROVE  Apart'
  <2>1. /\ ~ Listed(x.job) /\ ~ InBatch(x.job) /\ ~ Ran(x.job)
    BY <1>1, PostsFacts, UnusedFacts
  <2>2. ASSUME NEW k \in DOMAIN timers', NEW l \in DOMAIN timers',
               timers'[k].job = timers'[l].job
        PROVE  k = l
    <3>1. k = n + 1 \/ \E i \in DOMAIN timers : k = Shift(n, i) /\ timers'[k] = timers[i]
      BY <1>1, PostsFacts
    <3>2. l = n + 1 \/ \E i \in DOMAIN timers : l = Shift(n, i) /\ timers'[l] = timers[i]
      BY <1>1, PostsFacts
    <3>3. timers'[n + 1].job = x.job
      BY <1>1, PostsFacts
    <3> QED BY <2>1, <2>2, <3>1, <3>2, <3>3 DEF Listed, Apart
  <2>3. ASSUME NEW k \in DOMAIN timers'
        PROVE  ~ InBatch(timers'[k].job) /\ ~ Ran(timers'[k].job)
    <3>1. k = n + 1 \/ \E i \in DOMAIN timers : timers'[k] = timers[i]
      BY <1>1, PostsFacts
    <3> QED BY <1>1, <2>1, <3>1, PostsFacts DEF Apart
  <2>4. batch' = batch /\ ran' = ran
    BY <1>1, PostsFacts
  <2> QED BY <2>2, <2>3, <2>4 DEF Apart, InBatch, Ran
<1>2. ASSUME NEW f, NEW g, Moves(f, g)
      PROVE  Apart'
  <2>1. \A k, l \in DOMAIN batch' : f[k] = f[l] => k = l
    <3>1. DOMAIN batch' \subseteq Nat /\ DOMAIN timers \subseteq Nat
      BY DEF TypeOK
    <3>2. \A k, l \in DOMAIN batch' : k < l \/ l < k \/ k = l
      BY <3>1
    <3>3. \A k \in DOMAIN batch' : f[k] \in Nat
      BY <1>2, <3>1, MovesFacts
    <3>4. \A k, l \in DOMAIN batch' : k < l => f[k] < f[l]
      BY <1>2, MovesFacts
    <3>5. \A k, l \in DOMAIN batch' : k < l => f[k] # f[l]
      BY <3>3, <3>4
    <3> QED BY <3>2, <3>5
  <2>2. \A k, l \in DOMAIN timers' : g[k] = g[l] => k = l
    <3>1. DOMAIN timers' \subseteq Nat /\ DOMAIN timers \subseteq Nat
      BY DEF TypeOK
    <3>2. \A k, l \in DOMAIN timers' : k < l \/ l < k \/ k = l
      BY <3>1
    <3>3. \A k \in DOMAIN timers' : g[k] \in Nat
      BY <1>2, <3>1, MovesFacts
    <3>4. \A k, l \in DOMAIN timers' : k < l => g[k] < g[l]
      BY <1>2, MovesFacts
    <3>5. \A k, l \in DOMAIN timers' : k < l => g[k] # g[l]
      BY <3>3, <3>4
    <3> QED BY <3>2, <3>5
  <2>3. \A k, l \in DOMAIN batch' : batch'[k].job = batch'[l].job => k = l
    BY <1>2, <2>1, MovesFacts DEF Apart
  <2>4. \A k, l \in DOMAIN timers' : timers'[k].job = timers'[l].job => k = l
    BY <1>2, <2>2, MovesFacts DEF Apart
  <2>5. \A k \in DOMAIN batch' : ~ Ran(batch'[k].job)
    BY <1>2, MovesFacts DEF Apart
  <2>6. \A k \in DOMAIN timers' : ~ Ran(timers'[k].job)
    BY <1>2, MovesFacts DEF Apart
  <2>7. \A k \in DOMAIN batch', l \in DOMAIN timers' : batch'[k].job # timers'[l].job
    BY <1>2, MovesFacts DEF Apart
  <2>8. ran' = ran
    BY <1>2, MovesFacts
  <2> QED BY <2>3, <2>4, <2>5, <2>6, <2>7, <2>8 DEF Apart, InBatch, Ran
<1>3. CASE Runs
  <2>1. ~ Ran(batch[1].job)
    BY <1>3, RunsFacts DEF Apart
  <2>2. \A i, j \in DOMAIN ran' : ran'[i] = ran'[j] => i = j
    <3>1. \A i \in DOMAIN ran : ran[i] # batch[1].job
      BY <2>1 DEF Ran
    <3> QED BY <1>3, <3>1, RunsFacts DEF Apart
  <2>3. \A i \in DOMAIN batch' :
          /\ i + 1 \in DOMAIN batch /\ batch'[i] = batch[i + 1] /\ i \in Nat
          /\ batch'[i].job # batch[1].job /\ ~ Ran(batch'[i].job)
    <3> TAKE i \in DOMAIN batch'
    <3>1. i + 1 \in DOMAIN batch /\ batch'[i] = batch[i + 1] /\ i \in Nat
      BY <1>3, RunsFacts DEF TypeOK
    <3>2. i + 1 # 1
      BY <3>1 DEF TypeOK
    <3> QED BY <1>3, <3>1, <3>2, RunsFacts DEF Apart
  <2>4. \A i \in DOMAIN timers : timers[i].job # batch[1].job
    BY <1>3, RunsFacts DEF Apart, InBatch
  <2>5. \A j : j # batch[1].job /\ ~ Ran(j) => ~ \E i \in DOMAIN ran' : ran'[i] = j
    BY <1>3, RunsFacts DEF Ran
  <2>6. \A i, j \in DOMAIN batch' : batch'[i].job = batch'[j].job => i = j
    <3> TAKE i, j \in DOMAIN batch'
    <3>1. batch'[i].job = batch'[j].job => i + 1 = j + 1
      BY <2>3 DEF Apart
    <3> QED BY <2>3, <3>1 DEF TypeOK
  <2>7. timers' = timers
    BY <1>3, RunsFacts
  <2>8. \A i \in DOMAIN timers : ~ \E k \in DOMAIN batch' : batch'[k].job = timers[i].job
    BY <2>3 DEF Apart, InBatch
  <2> QED BY <2>2, <2>3, <2>4, <2>5, <2>6, <2>7, <2>8 DEF Apart, InBatch, Ran
<1>4. ASSUME NEW j, Calls(j)
      PROVE  Apart'
  <2>1. ~ Listed(j) /\ ~ InBatch(j) /\ ~ Ran(j)
    BY <1>4, CallsFacts, UnusedFacts
  <2>2. \A i, k \in DOMAIN ran' : ran'[i] = ran'[k] => i = k
    <3>1. \A i \in DOMAIN ran : ran[i] # j
      BY <2>1 DEF Ran
    <3> QED BY <1>4, <3>1, CallsFacts DEF Apart
  <2>3. \A i : i # j /\ ~ Ran(i) => ~ \E k \in DOMAIN ran' : ran'[k] = i
    BY <1>4, CallsFacts DEF Ran
  <2>4. \A i \in DOMAIN timers : timers[i].job # j
    BY <2>1 DEF Listed
  <2>5. \A i \in DOMAIN batch : batch[i].job # j
    BY <2>1 DEF InBatch
  <2>6. timers' = timers /\ batch' = batch
    BY <1>4, CallsFacts
  <2> QED BY <2>2, <2>3, <2>4, <2>5, <2>6 DEF Apart, InBatch, Ran
<1>5. CASE Rests
  BY <1>5 DEF Rests, Apart, InBatch, Ran
<1> QED BY <1>1, <1>2, <1>3, <1>4, <1>5 DEF Changes

\* What a job of the list, of the batch or of those that have run becomes.
LEMMA GoesOn ==
  ASSUME TypeOK, TypeOK', Known, Changes, NEW j
  PROVE  /\ Ran(j) => Ran(j)'
         /\ InBatch(j) => InBatch(j)' \/ Ran(j)'
         /\ Listed(j) => Listed(j)' \/ InBatch(j)'
<1>1. ASSUME NEW x, NEW n, Posts(x, n)
      PROVE  batch' = batch /\ ran' = ran /\ (Listed(j) => Listed(j)')
  BY <1>1, PostsFacts DEF Listed
<1>2. ASSUME NEW f, NEW g, Moves(f, g)
      PROVE  ~ InBatch(j) /\ ran' = ran /\ (Listed(j) => Listed(j)' \/ InBatch(j)')
  <2>1. ~ InBatch(j) /\ ran' = ran
    BY <1>2, MovesFacts DEF InBatch
  <2>2. ASSUME NEW i \in DOMAIN timers, timers[i].job = j
        PROVE  Listed(j)' \/ InBatch(j)'
    <3>1. CASE \E k \in DOMAIN batch' : f[k] = i
      BY <1>2, <2>2, <3>1, MovesFacts DEF InBatch
    <3>2. CASE \E k \in DOMAIN timers' : g[k] = i
      BY <1>2, <2>2, <3>2, MovesFacts DEF Listed
    <3> QED BY <1>2, <3>1, <3>2, MovesFacts
  <2> QED BY <2>1, <2>2 DEF Listed
<1>3. CASE Runs
  BY <1>3, RunsFacts DEF Ran, InBatch, Listed
<1>4. ASSUME NEW i, Calls(i)
      PROVE  timers' = timers /\ batch' = batch /\ (Ran(j) => Ran(j)')
  BY <1>4, CallsFacts DEF Ran
<1>5. CASE Rests
  BY <1>5 DEF Rests, Ran, InBatch, Listed
<1> QED BY <1>1, <1>2, <1>3, <1>4, <1>5 DEF Changes, Ran, InBatch, Listed

LEMMA SomewhereKept ==
  ASSUME TypeOK, TypeOK', Known, Somewhere, Changes
  PROVE  Somewhere'
<1> DEFINE At(j) == \/ \E i \in DOMAIN timers' : timers'[i].job = j
                    \/ \E i \in DOMAIN batch' : batch'[i].job = j
                    \/ \E i \in DOMAIN ran' : ran'[i] = j
<1>1. \A p \in DOMAIN posted : At(posted[p].job)
  <2>1. ASSUME NEW j, Listed(j) \/ InBatch(j) \/ Ran(j)
        PROVE  At(j)
    <3>1. Listed(j)' \/ InBatch(j)' \/ Ran(j)'
      BY <2>1, GoesOn
    <3> QED BY <3>1 DEF Listed, InBatch, Ran
  <2> QED BY <2>1 DEF Somewhere
<1>2. SUFFICES \A p \in DOMAIN posted' : At(posted'[p].job)
  BY DEF Somewhere, Listed, InBatch, Ran
<1>3. ASSUME NEW x, NEW n, Posts(x, n)
      PROVE  \A p \in DOMAIN posted' : At(posted'[p].job)
  <2>1. \A p \in DOMAIN posted' : posted'[p] = x \/ \E q \in DOMAIN posted : posted'[p] = posted[q]
    BY <1>3, PostsFacts
  <2>2. At(x.job)
    BY <1>3, PostsFacts
  <2> HIDE DEF At
  <2> QED BY <1>1, <2>1, <2>2
<1>4. CASE posted' = posted
  BY <1>1, <1>4
<1> QED BY <1>3, <1>4 DEF Changes, Moves, Runs, Calls, Rests
\* An entry of the list or of the batch is the posted one with its job.
LEMMA SameEntry ==
  ASSUME PostedOnce, Known
  PROVE  \A p \in DOMAIN posted :
           /\ \A i \in DOMAIN timers : timers[i].job = posted[p].job => timers[i] = posted[p]
           /\ \A i \in DOMAIN batch : batch[i].job = posted[p].job => batch[i] = posted[p]
BY DEF PostedOnce, Known

\* a, which is before b, stays before b.
LEMMA AfterKept ==
  ASSUME TypeOK, TypeOK', Known, Changes, NEW a, NEW b, a \notin Unused, b \notin Unused,
         RanAfter(a, b), BatchAfter(a, b), ListedAfter(a, b),
         \A i, j \in DOMAIN timers : timers[i].job = a /\ timers[j].job = b =>
           timers[i].endpoint = timers[j].endpoint
  PROVE  RanAfter(a, b)' /\ BatchAfter(a, b)' /\ ListedAfter(a, b)'
<1> DEFINE After == RanAfter(a, b)' /\ BatchAfter(a, b)' /\ ListedAfter(a, b)'
<1>1. ASSUME NEW x, NEW n, Posts(x, n)
      PROVE  After
  <2>1. x.job # a /\ x.job # b /\ batch' = batch /\ ran' = ran
    BY <1>1, PostsFacts
  <2>2. ASSUME NEW k \in DOMAIN timers', timers'[k].job = b
        PROVE  Ran(a)' \/ InBatch(a)' \/ \E l \in DOMAIN timers' : l < k /\ timers'[l].job = a
    <3>1. PICK i \in DOMAIN timers : k = Shift(n, i) /\ timers'[k] = timers[i]
      BY <1>1, <2>1, <2>2, PostsFacts
    <3>2. Ran(a) \/ InBatch(a) \/ \E l \in DOMAIN timers : l < i /\ timers[l].job = a
      BY <2>2, <3>1 DEF ListedAfter
    <3>3. ASSUME NEW l \in DOMAIN timers, l < i, timers[l].job = a
          PROVE  Shift(n, l) \in DOMAIN timers' /\ Shift(n, l) < k
                 /\ timers'[Shift(n, l)].job = a
      BY <1>1, <3>1, <3>3, PostsFacts
    <3> QED BY <2>1, <3>2, <3>3 DEF Ran, InBatch
  <2> QED BY <2>1, <2>2 DEF RanAfter, BatchAfter, ListedAfter, Ran
<1>2. ASSUME NEW f, NEW g, Moves(f, g)
      PROVE  After
  <2>1. ran' = ran /\ ~ InBatch(a)
    BY <1>2, MovesFacts DEF InBatch
  <2>2. ASSUME NEW k \in DOMAIN batch', batch'[k].job = b
        PROVE  Ran(a)' \/ \E l \in DOMAIN batch' : l < k /\ batch'[l].job = a
    <3>1. f[k] \in DOMAIN timers /\ timers[f[k]].job = b
      BY <1>2, <2>2, MovesFacts
    <3>2. Ran(a) \/ \E l \in DOMAIN timers : l < f[k] /\ timers[l].job = a
      BY <2>1, <3>1 DEF ListedAfter
    <3>3. ASSUME NEW l \in DOMAIN timers, l < f[k], timers[l].job = a
          PROVE  \E m \in DOMAIN batch' : m < k /\ batch'[m].job = a
      <4>1. timers[l].endpoint = timers[f[k]].endpoint
        BY <3>1, <3>3
      <4>2. ~ \E m \in DOMAIN timers' : g[m] = l
        BY <1>2, <3>3, <4>1, MovesFacts
      <4>3. PICK m \in DOMAIN batch' : f[m] = l
        BY <1>2, <4>2, MovesFacts
      <4> QED BY <1>2, <3>3, <4>3, MovesFacts
    <3> QED BY <2>1, <3>2, <3>3 DEF Ran
  <2>3. ASSUME NEW k \in DOMAIN timers', timers'[k].job = b
        PROVE  Ran(a)' \/ InBatch(a)' \/ \E l \in DOMAIN timers' : l < k /\ timers'[l].job = a
    <3>1. g[k] \in DOMAIN timers /\ timers[g[k]].job = b
      BY <1>2, <2>3, MovesFacts
    <3>2. Ran(a) \/ \E l \in DOMAIN timers : l < g[k] /\ timers[l].job = a
      BY <2>1, <3>1 DEF ListedAfter
    <3>3. ASSUME NEW l \in DOMAIN timers, l < g[k], timers[l].job = a
          PROVE  InBatch(a)' \/ \E m \in DOMAIN timers' : m < k /\ timers'[m].job = a
      <4>1. CASE \E m \in DOMAIN batch' : f[m] = l
        BY <1>2, <3>3, <4>1, MovesFacts DEF InBatch
      <4>2. CASE \E m \in DOMAIN timers' : g[m] = l
        BY <1>2, <3>3, <4>2, MovesFacts
      <4> QED BY <1>2, <4>1, <4>2, MovesFacts
    <3> QED BY <2>1, <3>2, <3>3 DEF Ran
  <2> QED BY <2>1, <2>2, <2>3 DEF RanAfter, BatchAfter, ListedAfter
<1>3. CASE Runs
  <2>1. Ran(a) => Ran(a)'
    BY GoesOn
  <2>2. ASSUME NEW k \in DOMAIN ran', ran'[k] = b
        PROVE  \E l \in DOMAIN ran' : l < k /\ ran'[l] = a
    <3>1. CASE k \in DOMAIN ran
      BY <1>3, <2>2, <3>1, RunsFacts DEF RanAfter
    <3>2. CASE k = Len(ran) + 1
      <4>1. 1 \in DOMAIN batch /\ batch[1].job = b
        BY <1>3, <2>2, <3>2, RunsFacts
      <4>2. ~ \E l \in DOMAIN batch : l < 1
        BY DEF TypeOK
      <4>3. PICK l \in DOMAIN ran : ran[l] = a
        BY <4>1, <4>2 DEF BatchAfter, Ran
      <4>4. l < k
        BY <3>2 DEF TypeOK
      <4> QED BY <1>3, <4>3, <4>4, RunsFacts
    <3> QED BY <1>3, <3>1, <3>2, RunsFacts
  <2>3. ASSUME NEW k \in DOMAIN batch', batch'[k].job = b
        PROVE  Ran(a)' \/ \E l \in DOMAIN batch' : l < k /\ batch'[l].job = a
    <3>1. k + 1 \in DOMAIN batch /\ batch[k + 1].job = b
      BY <1>3, <2>3, RunsFacts
    <3>2. Ran(a) \/ \E l \in DOMAIN batch : l < k + 1 /\ batch[l].job = a
      BY <3>1 DEF BatchAfter
    <3>3. ASSUME NEW l \in DOMAIN batch, l < k + 1, batch[l].job = a
          PROVE  Ran(a)' \/ \E m \in DOMAIN batch' : m < k /\ batch'[m].job = a
      <4>1. CASE l = 1
        BY <1>3, <3>3, <4>1, RunsFacts DEF Ran
      <4>2. CASE l - 1 \in DOMAIN batch' /\ batch[l] = batch'[l - 1]
        <5>1. l - 1 < k
          BY <3>3 DEF TypeOK
        <5> QED BY <3>3, <4>2, <5>1
      <4> QED BY <1>3, <4>1, <4>2, RunsFacts
    <3> QED BY <2>1, <3>2, <3>3
  <2>4. ASSUME NEW k \in DOMAIN timers', timers'[k].job = b
        PROVE  Ran(a)' \/ InBatch(a)' \/ \E l \in DOMAIN timers' : l < k /\ timers'[l].job = a
    <3>1. timers' = timers
      BY <1>3, RunsFacts
    <3>2. Ran(a) \/ InBatch(a) \/ \E l \in DOMAIN timers : l < k /\ timers[l].job = a
      BY <2>4, <3>1 DEF ListedAfter
    <3> QED BY <3>1, <3>2, GoesOn
  <2> QED BY <2>2, <2>3, <2>4 DEF RanAfter, BatchAfter, ListedAfter
<1>4. ASSUME NEW j, Calls(j)
      PROVE  After
  <2>1. j # a /\ j # b /\ timers' = timers /\ batch' = batch
    BY <1>4, CallsFacts
  <2>2. Ran(a) => Ran(a)'
    BY GoesOn
  <2>3. RanAfter(a, b)'
    BY <1>4, <2>1, CallsFacts DEF RanAfter
  <2> QED BY <2>1, <2>2, <2>3 DEF BatchAfter, ListedAfter, InBatch
<1>5. CASE Rests
  BY <1>5 DEF Rests, RanAfter, BatchAfter, ListedAfter, Ran, InBatch
<1> QED BY <1>1, <1>2, <1>3, <1>4, <1>5 DEF Changes

\* An entry is put in behind those that are to be run before it.
LEMMA PostedBehind ==
  ASSUME TypeOK, Sorted, PostedOnce, Known, Somewhere, NEW x, NEW n, Posts(x, n),
         NEW p \in DOMAIN posted,
         ~ posted[p].blocking, ~ x.blocking, posted[p].time <= x.time,
         NEW a, a = posted[p].job
  PROVE  /\ RanAfter(a, x.job)' /\ BatchAfter(a, x.job)' /\ ListedAfter(a, x.job)'
<1>1. batch' = batch /\ ran' = ran /\ ~ InBatch(x.job) /\ ~ Ran(x.job) /\ ~ Listed(x.job)
  BY PostsFacts, UnusedFacts
<1>2. ASSUME NEW l \in DOMAIN timers, timers[l].job = a
      PROVE  Shift(n, l) < n + 1
  <2>1. timers[l] = posted[p]
    BY <1>2, SameEntry
  <2>2. ASSUME ~ (l <= n)
        PROVE  FALSE
    <3>1. n \in 0 .. Len(timers) /\ n + 1 \in DOMAIN timers /\ n + 1 <= l /\ n < Len(timers)
      BY <2>2, TypeFacts DEF Posts, InsertedAt
    <3>2. timers[n + 1].time > x.time /\ now <= x.time
      BY <3>1 DEF Posts
    <3>3. timers[n + 1].time \in Nat /\ timers[l].time \in Nat /\ x.time \in Nat /\ now \in Nat
      BY <3>1, TypeFacts DEF Posts, Entry
    <3>4. ~ timers[n + 1].blocking
      BY <3>1, <3>2, <3>3 DEF Sorted
    <3>5. timers[n + 1].time <= timers[l].time
      BY <3>1, <3>3, <3>4, TypeFacts DEF Sorted
    <3> QED BY <2>1, <3>2, <3>3, <3>5
  <2> QED BY <2>2, PostsFacts
<1>3. Listed(a) \/ InBatch(a) \/ Ran(a)
  BY DEF Somewhere
<1>4. ASSUME NEW k \in DOMAIN timers', timers'[k].job = x.job
      PROVE  Ran(a) \/ InBatch(a) \/ \E l \in DOMAIN timers' : l < k /\ timers'[l].job = a
  <2>1. k = n + 1
    BY <1>1, <1>4, PostsFacts DEF Listed
  <2> QED BY <1>2, <1>3, <2>1, PostsFacts DEF Listed
<1>5. ListedAfter(a, x.job)'
  BY <1>1, <1>4 DEF ListedAfter, Ran, InBatch
<1> QED BY <1>1, <1>5 DEF RanAfter, BatchAfter, Ran, InBatch

LEMMA InLineKept ==
  ASSUME TypeOK, TypeOK', Sorted, PostedOnce, Known, Somewhere, InLine, Changes
  PROVE  InLine'
<1> DEFINE After(a, b) == RanAfter(a, b)' /\ BatchAfter(a, b)' /\ ListedAfter(a, b)'
<1>1. ASSUME NEW p \in DOMAIN posted, NEW q \in DOMAIN posted, Ahead(p, q),
             NEW a, a = posted[p].job, NEW b, b = posted[q].job
      PROVE  After(a, b)
  <2>1. a \notin Unused /\ b \notin Unused
    BY <1>1 DEF Unused, JobsOf
  <2>2. RanAfter(a, b) /\ BatchAfter(a, b) /\ ListedAfter(a, b)
    BY <1>1 DEF InLine
  <2>3. \A i, j \in DOMAIN timers : timers[i].job = a /\ timers[j].job = b =>
          timers[i].endpoint = timers[j].endpoint
    BY <1>1, SameEntry DEF Ahead
  <2> QED BY <2>1, <2>2, <2>3, AfterKept
<1>2. SUFFICES ASSUME NEW p \in DOMAIN posted', NEW q \in DOMAIN posted', Ahead(p, q)',
                      NEW a, a = posted'[p].job, NEW b, b = posted'[q].job
               PROVE  After(a, b)
  BY DEF InLine, RanAfter, BatchAfter, ListedAfter, Ran, InBatch
<1>3. CASE posted' = posted
  BY <1>1, <1>2, <1>3 DEF Ahead
<1>4. ASSUME NEW x, NEW n, Posts(x, n)
      PROVE  After(a, b)
  <2>1. p < q /\ p \in Nat /\ q \in Nat
    BY <1>2 DEF Ahead, TypeOK
  <2>2. p \in DOMAIN posted /\ posted'[p] = posted[p]
    <3>1. Len(posted) \in Nat
      BY TypeFacts
    <3>2. q = Len(posted) + 1 \/ q < Len(posted) + 1
      BY <1>4, PostsFacts
    <3>3. p # Len(posted) + 1
      BY <2>1, <3>1, <3>2
    <3> QED BY <1>4, <3>3, PostsFacts
  <2>3. CASE q \in DOMAIN posted
    <3>1. posted'[q] = posted[q]
      BY <1>4, <2>3, PostsFacts
    <3>2. Ahead(p, q)
      BY <1>2, <2>2, <3>1 DEF Ahead
    <3> QED BY <1>1, <1>2, <2>2, <2>3, <3>1, <3>2
  <2>4. CASE q \notin DOMAIN posted
    <3>1. posted'[q] = x
      BY <1>4, <2>4, PostsFacts
    <3>2. ~ posted[p].blocking /\ ~ x.blocking /\ posted[p].time <= x.time
      BY <1>2, <2>2, <3>1 DEF Ahead
    <3> QED BY <1>2, <1>4, <2>2, <3>1, <3>2, PostedBehind
  <2> QED BY <2>3, <2>4
<1> QED BY <1>3, <1>4 DEF Changes, Moves, Runs, Calls, Rests
-----------------------------------------------------------------------------
(***************************************************************************)
(* The life of the plugins.                                                *)
(***************************************************************************)

LEMMA LifeKept ==
  ASSUME TypeOK, Life, [Next]_vars
  PROVE  Life'
<1> USE DEF Life, Busy
<1>0. plugin \in [Endpoints -> {"unloaded", "loading", "loaded",
                                "stopped", "flushing", "flushed"}]
  BY DEF TypeOK
<1>1. \A e \in Endpoints : pc \notin {"load", "unload", "flush"} => ~ Busy(e)
  BY <1>0
<1>2. CASE UNCHANGED <<pc, plugin>>
  BY <1>2
<1>3. CASE ProcessAsyncCallbacks
  BY <1>0, <1>1, <1>3 DEF ProcessAsyncCallbacks
<1>4. CASE RunCallback
  <2>1. plugin' = plugin /\ (pc' = pc \/ pc = "process")
    BY <1>4 DEF RunCallback, AfterCallback
  <2> QED BY <1>1, <2>1
<1>5. ASSUME NEW e \in Endpoints, Load(e)
      PROVE  Life'
  BY <1>0, <1>1, <1>5 DEF Load
<1>6. ASSUME NEW e \in Endpoints, LoadReturn(e)
      PROVE  Life'
  BY <1>0, <1>6 DEF LoadReturn
<1>7. ASSUME NEW e \in Endpoints, Unload(e)
      PROVE  Life'
  BY <1>0, <1>1, <1>7 DEF Unload
<1>8. ASSUME NEW e \in Endpoints, FlushPendingCallbacks(e)
      PROVE  Life'
  BY <1>0, <1>8 DEF FlushPendingCallbacks
<1>9. ASSUME NEW e \in Endpoints, FlushPass(e)
      PROVE  Life'
  BY <1>0, <1>9 DEF FlushPass
<1>10. ASSUME NEW e \in Endpoints, UnloadReturn(e)
       PROVE  Life'
  BY <1>0, <1>10 DEF UnloadReturn
<1> QED BY <1>2, <1>3, <1>4, <1>5, <1>6, <1>7, <1>8, <1>9, <1>10
        DEF Next, APIStep, Tick, WorkerReturn, WorkerPostBlocking, WorkerPost,
            APIPost, APICallNow, queue, vars

\* The list and the batch keep their types, and what has run and was posted.
LEMMA ListTypes ==
  ASSUME TypeOK, Life, [Next]_vars
  PROVE  /\ timers' \in Seq(Entry) /\ batch' \in Seq(Entry)
         /\ posted' \in Seq(Entry) /\ ran' \in Seq(Jobs)
<1>1. /\ timers \in Seq(Entry) /\ batch \in Seq(Entry)
      /\ posted \in Seq(Entry) /\ ran \in Seq(Jobs) /\ now \in Nat
  BY MaxTimeNat DEF TypeOK
<1>2. CASE UNCHANGED <<timers, batch, posted, ran>>
  BY <1>1, <1>2
<1>3. CASE ProcessAsyncCallbacks
  <2>1. batch' = SubSeq(timers, 1, DueLen) /\ DueLen \in 0 .. Len(timers)
    BY <1>3, DueLenProps DEF ProcessAsyncCallbacks, TakeDue
  <2>2. /\ timers' = SubSeq(timers, DueLen + 1, Len(timers))
        /\ posted' = posted /\ ran' = ran
    BY <1>3 DEF ProcessAsyncCallbacks
  <2>3. batch' \in Seq(Entry)
    BY <1>1, <2>1
  <2>4. timers' \in Seq(Entry)
    BY <1>1, <2>1, <2>2
  <2> QED BY <1>1, <2>2, <2>3, <2>4
<1>4. CASE RunCallback
  <2>1. batch # <<>> /\ UNCHANGED <<timers, posted>>
    BY <1>4 DEF RunCallback
  <2>2. batch[1] \in Entry
    BY <1>1, <2>1
  <2>3. batch[1].job \in Jobs
    BY <2>2 DEF Entry
  <2>4. batch' = Tail(batch) /\ ran' = Append(ran, batch[1].job)
    BY <1>4 DEF RunCallback
  <2> QED BY <1>1, <2>1, <2>3, <2>4
<1>5. ASSUME NEW e \in Endpoints, FlushPass(e)
      PROVE  timers' \in Seq(Entry) /\ batch' \in Seq(Entry) /\ UNCHANGED <<posted, ran>>
  BY <1>1, <1>5, KeptProps DEF FlushPass, EntriesOf, Others
<1>6. ASSUME NEW x, NEW n, Posts(x, n)
      PROVE  /\ timers' \in Seq(Entry) /\ posted' \in Seq(Entry) /\ UNCHANGED <<batch, ran>>
  BY <1>1, <1>6 DEF Posts, InsertedAt
<1>7. ASSUME NEW j \in Jobs, ran' = Append(ran, j)
      PROVE  ran' \in Seq(Jobs)
  BY <1>1, <1>7
<1>8. ASSUME NEW e \in Endpoints, NEW j \in Fresh
      PROVE  /\ WorkerPostBlocking(e, j) => \E x, n : Posts(x, n)
             /\ APICallNow(e, j) => ran' \in Seq(Jobs) /\ UNCHANGED <<timers, batch, posted>>
  <2>1. j \in Jobs
    BY DEF Fresh, Unused
  <2> QED BY <1>7, <2>1, BlockingPosts DEF APICallNow, queue
<1>9. ASSUME NEW e \in Endpoints, NEW j \in Fresh, NEW d \in Delays,
             WorkerPost(e, j, d) \/ APIPost(e, j, d)
      PROVE  timers' \in Seq(Entry) /\ posted' \in Seq(Entry) /\ UNCHANGED <<batch, ran>>
  <2> DEFINE x == [job |-> j, endpoint |-> e, time |-> now + d, blocking |-> FALSE]
  <2>1. /\ timers' = Insert(timers, x) /\ posted' = Append(posted, x)
        /\ UNCHANGED <<batch, ran>>
    BY <1>9 DEF WorkerPost, APIPost, PostAsync
  <2>2. now + d \in Nat /\ j \in Jobs
    BY <1>1, DelaysNat DEF Fresh, Unused
  <2>3. x \in Entry
    BY <2>2 DEF Entry
  <2> HIDE DEF x
  <2>4. \E n : InsertedAt(timers, timers', n, x)
    BY <1>1, <2>1, <2>3, InsertProps
  <2> QED BY <1>1, <2>1, <2>3, <2>4 DEF InsertedAt
<1> QED BY <1>1, <1>2, <1>3, <1>4, <1>5, <1>6, <1>8, <1>9
        DEF Next, APIStep, Tick, WorkerReturn, Load, LoadReturn, Unload,
            FlushPendingCallbacks, UnloadReturn, queue, vars

LEMMA TypesKeptStep ==
  ASSUME TypeOK, Life, [Next]_vars
  PROVE  TypeOK'
<1> DEFINE Stages == {"unloaded", "loading", "loaded", "stopped", "flushing", "flushed"}
           Rest == /\ now' \in 0 .. MaxTime
                   /\ pc' \in {"idle", "load", "unload", "process", "flush"}
                   /\ plugin' \in [Endpoints -> Stages]
                   /\ waiting' \in [Endpoints -> Jobs \cup {NoJob}]
                   /\ pc' = "process" => batch' # <<>>
                   /\ pc' \in {"idle", "load", "unload"} => batch' = <<>>
<1>1. SUFFICES Rest
  BY ListTypes DEF TypeOK
<1>2. /\ now \in 0 .. MaxTime /\ batch \in Seq(Entry)
      /\ pc \in {"idle", "load", "unload", "process", "flush"}
      /\ plugin \in [Endpoints -> Stages]
      /\ waiting \in [Endpoints -> Jobs \cup {NoJob}]
      /\ pc = "process" => batch # <<>>
      /\ pc \in {"idle", "load", "unload"} => batch = <<>>
  BY DEF TypeOK
<1>3. CASE Tick
  BY <1>2, <1>3, MaxTimeNat DEF Tick
<1>4. CASE ProcessAsyncCallbacks
  <2>1. batch' # <<>>
    <3>1. /\ DueLen > 0 /\ batch' = SubSeq(timers, 1, DueLen) /\ timers \in Seq(Entry)
          /\ DueLen \in 0 .. Len(timers)
      BY <1>4, DueLenProps DEF ProcessAsyncCallbacks, TakeDue, TypeOK
    <3>2. Len(batch') = DueLen
      BY <3>1
    <3> QED BY <3>1, <3>2
  <2> QED BY <1>2, <1>4, <2>1 DEF ProcessAsyncCallbacks
<1>5. CASE RunCallback
  <2>1. pc \in {"process", "flush"} /\ batch # <<>> /\ batch' = Tail(batch)
    BY <1>2, <1>5 DEF RunCallback
  <2>2. (Len(batch) = 1 => batch' = <<>>) /\ (Len(batch) # 1 => batch' # <<>>)
    <3>1. batch' \in Seq(Entry) /\ Len(batch') = Len(batch) - 1 /\ Len(batch) \in Nat
      BY <1>2, <2>1
    <3>2. Len(batch') = 0 <=> batch' = <<>>
      BY <3>1, EmptySeq
    <3> QED BY <3>1, <3>2
  <2> QED BY <1>2, <1>5, <2>1, <2>2 DEF RunCallback, AfterCallback
<1>6. ASSUME NEW e \in Endpoints
      PROVE  Load(e) \/ LoadReturn(e) \/ Unload(e) \/ WorkerReturn(e) => Rest
  BY <1>2 DEF Load, LoadReturn, Unload, WorkerReturn, queue, Life
<1>7. ASSUME NEW e \in Endpoints
      PROVE  FlushPendingCallbacks(e) \/ UnloadReturn(e) => Rest
  BY <1>2 DEF FlushPendingCallbacks, UnloadReturn, Life
<1>8. ASSUME NEW e \in Endpoints, FlushPass(e)
      PROVE  Rest
  <2>1. pc = "flush" /\ UNCHANGED <<now, waiting>> /\ batch' = EntriesOf(e)
    BY <1>8 DEF FlushPass, Life
  <2>2. CASE Flushed(e)
    BY <1>2, <1>8, <2>1, <2>2 DEF FlushPass, Flushed
  <2>3. CASE ~ Flushed(e)
    BY <1>2, <1>8, <2>1, <2>3 DEF FlushPass
  <2> QED BY <2>2, <2>3
<1>9. ASSUME NEW e \in Endpoints, NEW j \in Fresh
      PROVE  WorkerPostBlocking(e, j) \/ APICallNow(e, j) => Rest
  <2>1. j \in Jobs
    BY DEF Fresh, Unused
  <2> QED BY <1>2, <2>1 DEF WorkerPostBlocking, APICallNow, queue
<1>10. ASSUME NEW e \in Endpoints, NEW j \in Fresh, NEW d \in Delays,
              WorkerPost(e, j, d) \/ APIPost(e, j, d)
       PROVE  Rest
  BY <1>2, <1>10 DEF WorkerPost, APIPost
<1>11. CASE UNCHANGED vars
  BY <1>2, <1>11 DEF vars
<1> QED BY <1>3, <1>4, <1>5, <1>6, <1>7, <1>8, <1>9, <1>10, <1>11 DEF Next, APIStep

LEMMA NoneLeftKept ==
  ASSUME TypeOK, TypeOK', Known, Life, NoneLeft, [Next]_vars
  PROVE  NoneLeft'
<1>1. Changes
  BY NextChanges
<1>2. ASSUME NEW i \in DOMAIN timers'
      PROVE  ~ Gone(timers'[i].endpoint)
  <2>1. ASSUME NEW x, NEW n, Posts(x, n)
        PROVE  ~ Gone(timers'[i].endpoint)
    <3>1. timers'[i] = x \/ \E k \in DOMAIN timers : timers'[i] = timers[k]
      BY <2>1, PostsFacts
    <3> QED BY <2>1, <3>1 DEF Posts, NoneLeft
  <2>2. ASSUME NEW f, NEW g, Moves(f, g)
        PROVE  ~ Gone(timers'[i].endpoint)
    BY <2>2, MovesFacts DEF NoneLeft
  <2>3. CASE timers' = timers
    BY <2>3 DEF NoneLeft
  <2> QED BY <1>1, <2>1, <2>2, <2>3 DEF Changes, Runs, Calls, Rests
<1>3. ASSUME NEW i \in DOMAIN batch'
      PROVE  ~ Gone(batch'[i].endpoint)
  <2>1. ASSUME NEW f, NEW g, Moves(f, g)
        PROVE  ~ Gone(batch'[i].endpoint)
    BY <2>1, MovesFacts DEF NoneLeft
  <2>2. CASE Runs
    BY <2>2, RunsFacts DEF NoneLeft
  <2>3. CASE batch' = batch
    BY <2>3 DEF NoneLeft
  <2> QED BY <1>1, <2>1, <2>2, <2>3 DEF Changes, Posts, Calls, Rests
<1>4. ASSUME NEW e \in Endpoints, FlushPass(e), Flushed(e)
      PROVE  NoneLeft'
  <2>1. timers \in Seq(Entry) /\ DOMAIN plugin = Endpoints
    BY DEF TypeOK
  <2>2. /\ plugin' = [plugin EXCEPT ![e] = "flushed"]
        /\ batch' = <<>> /\ timers' = Kept(timers, DOMAIN timers \ Taken(e))
    BY <1>4 DEF FlushPass, Flushed, Others
  <2>3. \A i \in DOMAIN timers' : timers'[i].endpoint # e
    BY <2>1, <2>2, KeptElements DEF Taken, FlushTakes
  <2>4. \A i \in DOMAIN timers' : plugin'[timers'[i].endpoint] \notin {"flushed", "unloaded"}
    <3> TAKE i \in DOMAIN timers'
    <3>1. timers'[i] \in Entry
      BY DEF TypeOK
    <3>2. plugin'[timers'[i].endpoint] = plugin[timers'[i].endpoint]
      BY <2>1, <2>2, <2>3, <3>1 DEF Entry
    <3> QED BY <1>2, <3>2 DEF Gone
  <2>5. DOMAIN batch' = {}
    BY <2>2
  <2> QED BY <2>4, <2>5 DEF NoneLeft, Gone
<1>5. ASSUME \A e \in Endpoints : Gone(e)' => Gone(e)
      PROVE  NoneLeft'
  <2>1. /\ \A i \in DOMAIN timers' : timers'[i] \in Entry
        /\ \A i \in DOMAIN batch' : batch'[i] \in Entry
    BY DEF TypeOK
  <2>2. \A x \in Entry : x.endpoint \in Endpoints
    BY DEF Entry
  <2> QED BY <1>2, <1>3, <1>5, <2>1, <2>2 DEF NoneLeft, Gone
<1>6. DOMAIN plugin = Endpoints
  BY DEF TypeOK
<1>7. ASSUME NEW e \in Endpoints
      PROVE  /\ Load(e) \/ LoadReturn(e) \/ Unload(e) \/ UnloadReturn(e)
                  \/ FlushPendingCallbacks(e)
                  => \A f \in Endpoints : Gone(f)' => Gone(f)
             /\ FlushPass(e) /\ ~ Flushed(e) => plugin' = plugin
  BY <1>6 DEF Load, LoadReturn, Unload, UnloadReturn, FlushPendingCallbacks, FlushPass,
              Gone
<1>8. CASE plugin' = plugin
  BY <1>5, <1>8 DEF Gone
<1> QED BY <1>4, <1>5, <1>7, <1>8
        DEF Next, APIStep, Tick, ProcessAsyncCallbacks, RunCallback, WorkerReturn,
            WorkerPostBlocking, WorkerPost, APIPost, APICallNow, queue, vars

-----------------------------------------------------------------------------
(***************************************************************************)
(* The invariant, and what it says of every behaviour.                     *)
(***************************************************************************)

LEMMA InitInv == Init => Inv
BY MaxTimeNat DEF Init, Inv, TypeOK, Sorted, PostedOnce, Known, Apart, Somewhere,
                  InLine, Life, Busy, NoneLeft

LEMMA NextInv == Inv /\ [Next]_vars => Inv'
<1> SUFFICES ASSUME Inv, [Next]_vars PROVE Inv'
  OBVIOUS
<1>1. TypeOK'
  BY TypesKeptStep DEF Inv
<1>2. Changes
  BY NextChanges DEF Inv
<1>3. Sorted' /\ PostedOnce' /\ Known'
  BY <1>1, <1>2, SortedKept, KnownKept DEF Inv
<1>4. Apart' /\ Somewhere' /\ InLine'
  BY <1>1, <1>2, ApartKept, SomewhereKept, InLineKept DEF Inv
<1>5. Life' /\ NoneLeft'
  BY <1>1, LifeKept, NoneLeftKept DEF Inv
<1> QED BY <1>1, <1>3, <1>4, <1>5 DEF Inv

LEMMA Invariance == Spec => []Inv
BY InitInv, NextInv, PTL DEF Spec

\* The variables keep their types.
THEOREM TypesKept == Spec => []TypeOK
<1>1. Inv => TypeOK
  BY DEF Inv
<1> QED BY <1>1, Invariance, PTL

\* The scan of ProcessAsyncCallbacks, which stops at the first entry whose
\* time has not come, misses no due one.
THEOREM NoDueMissed == Spec => []DueFirst
<1>1. Inv => DueFirst
  <2> SUFFICES ASSUME Inv, NEW i \in DOMAIN timers, NEW j \in DOMAIN timers,
                      i < j, timers[j].time <= now
               PROVE  timers[i].time <= now
    BY DEF DueFirst
  <2>1. timers[i].time \in Nat /\ timers[j].time \in Nat /\ now \in Nat
    BY TypeFacts DEF Inv
  <2> QED BY <2>1 DEF Inv, Sorted
<1> QED BY <1>1, Invariance, PTL

\* Entries are neither lost nor called twice, on their way from the list to
\* the batch and out of it.
THEOREM NoneLostNorTwice == Spec => []Conserved
<1>1. Inv => Conserved
  <2> SUFFICES ASSUME Inv, NEW p \in DOMAIN posted, NEW j, j = posted[p].job
               PROVE  \E x \in Places(j) : Places(j) = {x}
    BY DEF Conserved
  <2>1. \A x \in Places(j) :
          \/ \E i \in DOMAIN timers : timers[i].job = j /\ x = <<"timers", i>>
          \/ \E i \in DOMAIN batch : batch[i].job = j /\ x = <<"batch", i>>
          \/ \E i \in DOMAIN ran : ran[i] = j /\ x = <<"ran", i>>
    BY DEF Places
  <2>2. \A x, y \in Places(j) : x = y
    BY <2>1 DEF Inv, Apart, InBatch, Ran
  <2>3. \E x : x \in Places(j)
    <3>1. CASE Listed(j)
      <4>1. PICK i \in DOMAIN timers : timers[i].job = j
        BY <3>1 DEF Listed
      <4>2. <<"timers", i>> \in Places(j)
        BY <4>1 DEF Places
      <4> QED BY <4>2
    <3>2. CASE InBatch(j)
      <4>1. PICK i \in DOMAIN batch : batch[i].job = j
        BY <3>2 DEF InBatch
      <4>2. <<"batch", i>> \in Places(j)
        BY <4>1 DEF Places
      <4> QED BY <4>2
    <3>3. CASE Ran(j)
      <4>1. PICK i \in DOMAIN ran : ran[i] = j
        BY <3>3 DEF Ran
      <4>2. <<"ran", i>> \in Places(j)
        BY <4>1 DEF Places
      <4> QED BY <4>2
    <3> QED BY <3>1, <3>2, <3>3 DEF Inv, Somewhere
  <2> QED BY <2>2, <2>3
<1> QED BY <1>1, Invariance, PTL

\* The delayed callbacks of an endpoint run in the order of their times, those
\* of one time in the order they were posted.
THEOREM RunInOrder == Spec => []InPostedOrder
<1>1. Inv => InPostedOrder
  <2> SUFFICES ASSUME Inv, NEW p \in DOMAIN posted, NEW q \in DOMAIN posted, Ahead(p, q),
                      NEW k \in DOMAIN ran, ran[k] = posted[q].job
               PROVE  \E i \in 1 .. k - 1 : RunsAt(posted[p].job, i)
    BY DEF InPostedOrder, Ahead, RunsAt
  <2>1. PICK l \in DOMAIN ran : l < k /\ ran[l] = posted[p].job
    BY DEF Inv, InLine, RanAfter
  <2>2. l \in 1 .. k - 1
    BY <2>1, TypeFacts DEF Inv
  <2> QED BY <2>1, <2>2 DEF RunsAt
<1> QED BY <1>1, Invariance, PTL

\* No callback of a plugin is left to be called once its flush has returned.
THEOREM NothingLeft == Spec => []NoneAfterFlush
<1>1. Inv => NoneAfterFlush
  <2> SUFFICES ASSUME Inv, NEW e \in Endpoints, Gone(e),
                      NEW i \in DOMAIN (timers \o batch)
               PROVE  (timers \o batch)[i].endpoint # e
    BY DEF NoneAfterFlush, Gone
  <2>1. timers \in Seq(Entry) /\ batch \in Seq(Entry)
    BY DEF Inv, TypeOK
  <2> DEFINE t == timers \o batch
  <2>2. /\ t \in Seq(Entry) /\ Len(t) = Len(timers) + Len(batch)
        /\ \A k \in 1 .. Len(timers) + Len(batch) :
             t[k] = IF k <= Len(timers) THEN timers[k] ELSE batch[k - Len(timers)]
    BY <2>1, ConcatProperties
  <2>3. i \in 1 .. Len(timers) + Len(batch)
    BY <2>2
  <2>4. CASE i <= Len(timers)
    <3>1. i \in DOMAIN timers /\ t[i] = timers[i]
      BY <2>1, <2>2, <2>3, <2>4
    <3> QED BY <3>1 DEF Inv, NoneLeft
  <2>5. CASE ~ (i <= Len(timers))
    <3>1. i - Len(timers) \in DOMAIN batch /\ t[i] = batch[i - Len(timers)]
      BY <2>1, <2>2, <2>3, <2>5
    <3> QED BY <3>1 DEF Inv, NoneLeft
  <2> QED BY <2>4, <2>5
<1> QED BY <1>1, Invariance, PTL
=============================================================================

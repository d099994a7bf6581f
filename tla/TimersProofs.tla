----------------------------- MODULE TimersProofs -----------------------------
(***************************************************************************)
(* Proofs about Timers, for any parts, balls, intervals and bounds: what   *)
(* scripts, the live editor and the passes do to the list of timers is     *)
(* seen on the list that the pass under way will leave, Coming.            *)
(***************************************************************************)
EXTENDS Timers, FiniteSetTheorems, FunctionTheorems, SequenceTheorems,
        WellFoundedInduction, TLAPS

\* The list with the changes made that wait for the end of the pass.
Coming == IF stage = "clear" THEN vht ELSE Applied(vht, changed)

Once(s) == \A i, j \in DOMAIN s : s[i] = s[j] => i = j

Exact == \A t \in Timers \ edited : Listed(Coming, t) <=> Stays(t)

Walk ==
  /\ pass = "idle" => stage = "walk"
  /\ firing # {} => Deferring
  /\ firing # {} /\ beyond = <<>> => at \in DOMAIN vht /\ firing = {vht[at]}

\* What the render thread added too late is about timers that are gone.
Gone(t) == t \in Parts /\ (t \in alive => deletion[t] = "free")
Leftover ==
  pass = "idle" => \A i \in DOMAIN changed : changed[i].timer \in edited /\ Gone(changed[i].timer)
Marked ==
  pass = "idle" \/ stage = "clear" => \A t \in Timers : deletion[t] = "note" => t \in edited

\* A timer is there while it is deleted, and enabled until it is taken off.
Going ==
  \A t \in Timers :
    /\ deletion[t] # "none" => t \in Parts /\ t \in alive
    /\ deletion[t] \notin {"none", "free"} /\ t \notin edited => enabled[t]

Ticks(t) == t \in alive /\ deletion[t] = "none" /\ Listed(Coming, t) /\ interval[t] > 0

Within == \A t \in Timers : Ticks(t) => nextfire[t] <= now + interval[t]

\* The pass has yet to come to t, or its handler is running and did not set
\* the time.
Ahead(t) ==
  \E i \in DOMAIN vht :
    /\ vht[i] = t
    /\ at <= i
    /\ at = i /\ firing # {} => nextfire[t] = cur

Served ==
  pass = "timer" /\ beyond = <<>> =>
    \A t \in Timers : Ticks(t) => now < nextfire[t] \/ (Deferring /\ Ahead(t))

Inv ==
  /\ TypeOK /\ Once(vht) /\ Exact /\ Walk
  /\ Leftover /\ Marked /\ Going /\ Within /\ Served

-----------------------------------------------------------------------------
(* Induction over 0 .. m, and what Kept keeps.                               *)

\* A nonempty set of naturals has a least element.
LEMMA LeastExists ==
  ASSUME NEW T \in SUBSET Nat, T # {}
  PROVE  \E x \in T : \A y \in T : x <= y
<1> DEFINE R == OpToRel(<, Nat)
<1>1. IsWellFoundedOn(R, Nat)
  BY NatLessThanWellFounded
<1>2. PICK x \in T : \A y \in T : ~ (<<y, x>> \in R)
  <2> HIDE DEF R
  <2> QED  BY <1>1, WFMin
<1>3. \A y \in T : <<y, x>> \in R <=> y < x
  BY DEF OpToRel
<1> HIDE DEF R
<1>4. \A y \in T : ~ (y < x)
  BY <1>2, <1>3
<1> QED  BY <1>4

\* Induction over 0 .. m, with a set in place of a predicate.
LEMMA UpTo ==
  ASSUME NEW m \in Nat, NEW U, 0 \in U,
         \A n \in 1 .. m : n - 1 \in U => n \in U
  PROVE  \A n \in 0 .. m : n \in U
<1> DEFINE T == {n \in 0 .. m : n \notin U}
<1> SUFFICES ASSUME T # {} PROVE FALSE
  OBVIOUS
<1>1. PICK n \in T : \A x \in T : n <= x
  <2>1. T \in SUBSET Nat
    OBVIOUS
  <2> HIDE DEF T
  <2> QED BY <2>1, LeastExists
<1>2. n \in 1 .. m /\ n - 1 \in 0 .. m /\ n - 1 \notin T
  BY <1>1
<1> QED BY <1>2

\* t is made of those of the first n elements of s whose position is in I, in
\* their order: f tells where each comes from.
Picks(f, t, s, n, I) ==
  /\ f \in [1 .. Len(t) -> {i \in I : i \in 1 .. n}]
  /\ \A k \in 1 .. Len(t) : t[k] = s[f[k]]
  /\ \A k, l \in 1 .. Len(t) : k < l => f[k] < f[l]
  /\ \A i \in 1 .. n : i \in I => \E k \in 1 .. Len(t) : f[k] = i

\* The ranks of a finite set of positions are 1, 2, ..., in the order of the
\* positions.
LEMMA Ranks ==
  ASSUME NEW m \in Nat, NEW J \in SUBSET (1 .. m)
  PROVE  /\ Cardinality(J) \in Nat
         /\ \A i \in J : Rank(J, i) \in 1 .. Cardinality(J)
         /\ \A i, j \in J : i < j => Rank(J, i) < Rank(J, j)
         /\ \A k \in 1 .. Cardinality(J) : \E i \in J : Rank(J, i) = k
<1> DEFINE c == Cardinality(J)
           U(i) == {j \in J : j <= i}
<1>1. IsFiniteSet(J) /\ c \in Nat
  <2>1. IsFiniteSet(1 .. m)
    BY FS_Interval
  <2> QED BY <2>1, FS_Subset, FS_CardinalityType
<1>2. \A i \in J : IsFiniteSet(U(i)) /\ Cardinality(U(i)) \in Nat /\ Cardinality(U(i)) <= c
  <2> TAKE i \in J
  <2>1. U(i) \in SUBSET J
    OBVIOUS
  <2> HIDE DEF U
  <2> QED BY <1>1, <2>1, FS_Subset, FS_CardinalityType
<1>3. \A i \in J : Cardinality(U(i)) # 0
  <2> TAKE i \in J
  <2>1. i \in U(i)
    OBVIOUS
  <2> HIDE DEF U
  <2> QED BY <1>2, <2>1, FS_EmptySet
<1>4. \A i, j \in J : i < j => Cardinality(U(i)) < Cardinality(U(j))
  <2> SUFFICES ASSUME NEW i \in J, NEW j \in J, i < j
               PROVE  Cardinality(U(i)) < Cardinality(U(j))
    OBVIOUS
  <2>1. U(i) \in SUBSET U(j) /\ U(i) # U(j)
    <3>1. j \in U(j) /\ j \notin U(i)
      OBVIOUS
    <3>2. \A x \in J : x <= i => x <= j
      OBVIOUS
    <3> QED BY <3>1, <3>2
  <2> HIDE DEF U
  <2>2. Cardinality(U(i)) <= Cardinality(U(j)) /\ Cardinality(U(i)) # Cardinality(U(j))
    BY <1>2, <2>1, FS_Subset
  <2> QED BY <1>2, <2>2
<1>5. \A i \in J : Rank(J, i) = Cardinality(U(i))
  BY DEF Rank
<1> HIDE DEF U, c
<1>6. \A i \in J : Rank(J, i) \in 1 .. c
  BY <1>1, <1>2, <1>3, <1>5
<1>7. \A i, j \in J : i < j => Rank(J, i) < Rank(J, j)
  BY <1>4, <1>5
<1> DEFINE h == [i \in J |-> Rank(J, i)]
<1>8. \A i, j \in J : Rank(J, i) = Rank(J, j) => i = j
  <2> SUFFICES ASSUME NEW i \in J, NEW j \in J, Rank(J, i) = Rank(J, j), i < j
               PROVE  FALSE
    OBVIOUS
  <2> QED BY <1>1, <1>6, <1>7
<1>9. h \in Injection(J, 1 .. c)
  BY <1>6, <1>8 DEF Injection, IsInjective
<1>10. IsFiniteSet(1 .. c) /\ Cardinality(1 .. c) = c
  BY <1>1, FS_Interval
<1>11. h \in Surjection(J, 1 .. c)
  <2> HIDE DEF h
  <2> QED BY <1>9, <1>10, FS_Injection DEF c
<1>12. \A k \in 1 .. c : \E i \in J : Rank(J, i) = k
  BY <1>11 DEF Surjection
<1> QED BY <1>1, <1>6, <1>7, <1>12 DEF c

\* Kept(s, I) are the elements of s at the positions in I, in their order.
LEMMA KeptProps ==
  ASSUME NEW S, NEW s \in Seq(S), NEW I
  PROVE  /\ Kept(s, I) \in Seq(S)
         /\ \E f : Picks(f, Kept(s, I), s, Len(s), I)
<1> DEFINE m == Len(s)
           J == I \cap DOMAIN s
           c == Cardinality(J)
           f == [k \in 1 .. c |-> CHOOSE i \in J : Rank(J, i) = k]
           t == Kept(s, I)
<1>1. m \in Nat /\ DOMAIN s = 1 .. m /\ J \in SUBSET (1 .. m) /\ \A i \in J : s[i] \in S
  OBVIOUS
<1>2. t = [k \in 1 .. c |-> s[f[k]]]
  BY DEF Kept
<1> HIDE DEF J, t, m
<1>3. /\ c \in Nat
      /\ \A i \in J : Rank(J, i) \in 1 .. c
      /\ \A i, j \in J : i < j => Rank(J, i) < Rank(J, j)
      /\ \A k \in 1 .. c : \E i \in J : Rank(J, i) = k
  BY <1>1, Ranks
<1>4. \A k \in 1 .. c : f[k] \in J /\ Rank(J, f[k]) = k
  BY <1>3
<1>5. f = [k \in 1 .. c |-> f[k]]
  OBVIOUS
<1> HIDE DEF c, f
<1>6. t \in Seq(S) /\ Len(t) = c
  <2>1. \A k \in 1 .. c : s[f[k]] \in S
    BY <1>1, <1>4
  <2> QED BY <1>2, <1>3, <2>1
<1>7. \A i, j \in J : Rank(J, i) < Rank(J, j) => i < j
  <2> SUFFICES ASSUME NEW i \in J, NEW j \in J, Rank(J, i) < Rank(J, j), ~ i < j
               PROVE  FALSE
    OBVIOUS
  <2>1. i = j \/ j < i
    BY <1>1
  <2> QED BY <1>3, <2>1
<1>8. ASSUME NEW k \in 1 .. c, NEW l \in 1 .. c, k < l
      PROVE  f[k] < f[l]
  BY <1>4, <1>7, <1>8
<1>9. ASSUME NEW i \in 1 .. m, i \in I
      PROVE  \E k \in 1 .. c : f[k] = i
  <2>1. i \in J /\ Rank(J, i) \in 1 .. c
    BY <1>1, <1>3, <1>9 DEF J
  <2>2. f[Rank(J, i)] \in J /\ Rank(J, f[Rank(J, i)]) = Rank(J, i)
    BY <1>4, <2>1
  <2>3. \A j \in J : Rank(J, j) = Rank(J, i) => j = i
    <3> SUFFICES ASSUME NEW j \in J, Rank(J, j) = Rank(J, i), i < j \/ j < i
                 PROVE  FALSE
      BY <1>1, <2>1
    <3>1. Rank(J, i) < Rank(J, j) \/ Rank(J, j) < Rank(J, i)
      BY <1>3, <2>1
    <3> QED BY <1>3, <2>1, <3>1
  <2> QED BY <2>1, <2>2, <2>3
<1>10. f \in [1 .. c -> {i \in I : i \in 1 .. m}]
  BY <1>1, <1>4, <1>5 DEF J
<1>11. \A k \in 1 .. c : t[k] = s[f[k]]
  BY <1>2
<1>12. Picks(f, t, s, m, I)
  BY <1>6, <1>8, <1>9, <1>10, <1>11 DEF Picks
<1> QED BY <1>6, <1>12 DEF t, m

\* So its elements are those at the positions in I.
LEMMA KeptElements ==
  ASSUME NEW S, NEW s \in Seq(S), NEW I
  PROVE  /\ Kept(s, I) \in Seq(S)
         /\ \A k \in DOMAIN Kept(s, I) : \E i \in DOMAIN s : i \in I /\ Kept(s, I)[k] = s[i]
         /\ \A i \in DOMAIN s : i \in I => \E k \in DOMAIN Kept(s, I) : Kept(s, I)[k] = s[i]
<1>1. PICK f : Picks(f, Kept(s, I), s, Len(s), I)
  BY KeptProps
<1>2. Kept(s, I) \in Seq(S) /\ DOMAIN Kept(s, I) = 1 .. Len(Kept(s, I))
  BY KeptProps
<1> QED BY <1>1, <1>2 DEF Picks

-----------------------------------------------------------------------------
(* The changes of a pass.                                                    *)

AppliedUpTo(g, s, cs, m) ==
  g = [n \in 0 .. m |-> IF n = 0 THEN s ELSE Apply(g[n - 1], cs[n])]

\* There is a function that satisfies the recursive equation.
LEMMA AppliedExists ==
  ASSUME NEW s, NEW cs, NEW m \in Nat
  PROVE  \E g : AppliedUpTo(g, s, cs, m)
<1> DEFINE U == {n \in 0 .. m : \E g : AppliedUpTo(g, s, cs, n)}
<1>1. 0 \in U
  <2>1. AppliedUpTo([n \in 0 .. 0 |-> s], s, cs, 0)
    BY DEF AppliedUpTo
  <2> QED BY <2>1
<1>2. ASSUME NEW n \in 1 .. m, n - 1 \in U
      PROVE  n \in U
  <2>1. PICK g : AppliedUpTo(g, s, cs, n - 1)
    BY <1>2
  <2> DEFINE h == [i \in 0 .. n |-> IF i = n THEN Apply(g[n - 1], cs[n]) ELSE g[i]]
  <2>2. h[n] = Apply(g[n - 1], cs[n]) /\ \A i \in 0 .. n - 1 : h[i] = g[i]
    OBVIOUS
  <2>3. \A i \in 0 .. n - 1 : g[i] = IF i = 0 THEN s ELSE Apply(g[i - 1], cs[i])
    BY <2>1 DEF AppliedUpTo
  <2>4. h = [i \in 0 .. n |-> h[i]]
    OBVIOUS
  <2> HIDE DEF h
  <2>5. \A i \in 0 .. n : h[i] = IF i = 0 THEN s ELSE Apply(h[i - 1], cs[i])
    <3> TAKE i \in 0 .. n
    <3>1. CASE i = n
      BY <3>1, <2>2
    <3>2. CASE i \in 0 .. n - 1
      <4>1. i = 0 \/ i - 1 \in 0 .. n - 1
        BY <3>2
      <4> QED BY <3>2, <4>1, <2>2, <2>3
    <3> QED BY <3>1, <3>2
  <2>6. AppliedUpTo(h, s, cs, n)
    BY <2>4, <2>5 DEF AppliedUpTo
  <2> QED BY <2>6
<1> HIDE DEF U
<1>3. m \in U
  BY <1>1, <1>2, UpTo
<1> QED BY <1>3 DEF U

\* Such a function's last value is Applied.
LEMMA AppliedIs ==
  ASSUME NEW s, NEW cs, Len(cs) \in Nat
  PROVE  \E g : AppliedUpTo(g, s, cs, Len(cs)) /\ Applied(s, cs) = g[Len(cs)]
<1> DEFINE g == CHOOSE g : AppliedUpTo(g, s, cs, Len(cs))
<1>1. AppliedUpTo(g, s, cs, Len(cs))
  BY AppliedExists
<1>2. Applied(s, cs) = g[Len(cs)]
  BY DEF Applied, AppliedUpTo
<1> QED BY <1>1, <1>2

\* Two such functions agree.
LEMMA AppliedAgree ==
  ASSUME NEW s, NEW cs, NEW ds, NEW m \in Nat, NEW k \in Nat, m <= k,
         NEW g, NEW h, AppliedUpTo(g, s, cs, m), AppliedUpTo(h, s, ds, k),
         \A n \in 1 .. m : cs[n] = ds[n]
  PROVE  g[m] = h[m]
<1> DEFINE U == {n \in 0 .. m : g[n] = h[n]}
<1>1. 0 \in U
  BY DEF AppliedUpTo
<1>2. ASSUME NEW n \in 1 .. m, n - 1 \in U
      PROVE  n \in U
  <2>1. g[n] = Apply(g[n - 1], cs[n])
    BY DEF AppliedUpTo
  <2>2. h[n] = Apply(h[n - 1], ds[n])
    BY DEF AppliedUpTo
  <2> QED BY <1>2, <2>1, <2>2
<1> HIDE DEF U
<1>3. m \in U
  BY <1>1, <1>2, UpTo
<1> QED BY <1>3 DEF U

LEMMA AppliedNone ==
  ASSUME NEW s
  PROVE  Applied(s, <<>>) = s
<1>1. PICK g : AppliedUpTo(g, s, <<>>, 0) /\ Applied(s, <<>>) = g[0]
  BY AppliedIs
<1> QED BY <1>1 DEF AppliedUpTo

LEMMA AppliedOneMore ==
  ASSUME NEW s, NEW C, NEW cs \in Seq(C), NEW c \in C
  PROVE  Applied(s, Append(cs, c)) = Apply(Applied(s, cs), c)
<1> DEFINE m == Len(cs)
           ds == Append(cs, c)
<1>1. /\ m \in Nat /\ Len(ds) = m + 1 /\ ds[m + 1] = c
      /\ \A n \in 1 .. m : cs[n] = ds[n]
  OBVIOUS
<1> HIDE DEF m, ds
<1>2. PICK g : AppliedUpTo(g, s, cs, m) /\ Applied(s, cs) = g[m]
  BY <1>1, AppliedIs DEF m
<1>3. PICK h : AppliedUpTo(h, s, ds, m + 1) /\ Applied(s, ds) = h[m + 1]
  <2>1. Len(ds) \in Nat
    BY <1>1
  <2> QED BY <1>1, <2>1, AppliedIs
<1>4. g[m] = h[m]
  BY <1>1, <1>2, <1>3, AppliedAgree
<1>5. h[m + 1] = Apply(h[m], ds[m + 1])
  BY <1>1, <1>3 DEF AppliedUpTo
<1> QED BY <1>1, <1>2, <1>3, <1>4, <1>5 DEF ds

-----------------------------------------------------------------------------
(* One change of the list.                                                   *)

LEMMA ErasedProps ==
  ASSUME NEW s \in Seq(Timers), NEW t
  PROVE  /\ Erased(s, t) \in Seq(Timers)
         /\ \A u : Listed(Erased(s, t), u) <=> Listed(s, u) /\ u # t
<1>1. /\ Erased(s, t) \in Seq(Timers)
      /\ \A k \in DOMAIN Erased(s, t) : \E i \in DOMAIN s : s[i] # t /\ Erased(s, t)[k] = s[i]
      /\ \A i \in DOMAIN s : s[i] # t => \E k \in DOMAIN Erased(s, t) : Erased(s, t)[k] = s[i]
  <2> DEFINE I == {i \in DOMAIN s : s[i] # t}
  <2>1. \A i \in DOMAIN s : i \in I <=> s[i] # t
    OBVIOUS
  <2>2. Erased(s, t) = Kept(s, I)
    BY DEF Erased
  <2> HIDE DEF I
  <2> QED BY <2>1, <2>2, KeptElements
<1> QED BY <1>1 DEF Listed

\* What is left of a list with no timer twice has none twice.
LEMMA KeptOnce ==
  ASSUME NEW S, NEW s \in Seq(S), NEW I, Once(s)
  PROVE  Once(Kept(s, I))
<1>1. PICK f : Picks(f, Kept(s, I), s, Len(s), I)
  BY KeptProps
<1> DEFINE k == Kept(s, I)
<1>2. k \in Seq(S) /\ DOMAIN k = 1 .. Len(k) /\ Len(k) \in Nat /\ DOMAIN s = 1 .. Len(s)
  BY KeptProps
<1> HIDE DEF k
<1>3. \A i, j \in 1 .. Len(k) : i < j => f[i] < f[j]
  BY <1>1 DEF Picks, k
<1>4. \A i \in 1 .. Len(k) : f[i] \in 1 .. Len(s) /\ k[i] = s[f[i]]
  BY <1>1 DEF Picks, k
<1>5. ASSUME NEW i \in 1 .. Len(k), NEW j \in 1 .. Len(k), k[i] = k[j]
      PROVE  i = j
  <2>1. f[i] = f[j]
    BY <1>2, <1>4, <1>5 DEF Once
  <2>2. f[i] \in Int /\ ~ (i < j) /\ ~ (j < i)
    BY <2>1, <1>3, <1>4
  <2> QED BY <2>2, <1>2
<1> QED BY <1>5, <1>2 DEF Once, k

LEMMA AppendProps ==
  ASSUME NEW S, NEW s \in Seq(S), NEW t \in S
  PROVE  /\ Append(s, t) \in Seq(S)
         /\ \A u : Listed(Append(s, t), u) <=> Listed(s, u) \/ u = t
         /\ Once(s) /\ ~ Listed(s, t) => Once(Append(s, t))
<1> DEFINE r == Append(s, t)
<1>1. /\ r \in Seq(S) /\ Len(s) \in Nat /\ DOMAIN s = 1 .. Len(s)
      /\ DOMAIN r = 1 .. Len(s) + 1
      /\ r[Len(s) + 1] = t /\ \A i \in 1 .. Len(s) : r[i] = s[i]
  OBVIOUS
<1> HIDE DEF r
<1>2. \A i \in DOMAIN r : i \in DOMAIN s \/ i = Len(s) + 1
  BY <1>1
<1>3. \A i \in DOMAIN s : i \in DOMAIN r /\ r[i] = s[i]
  BY <1>1
<1>4. Len(s) + 1 \in DOMAIN r
  BY <1>1
<1>5. \A u : Listed(r, u) <=> Listed(s, u) \/ u = t
  BY <1>1, <1>2, <1>3, <1>4 DEF Listed
<1>6. Once(s) /\ ~ Listed(s, t) => Once(r)
  BY <1>1, <1>2, <1>3 DEF Listed, Once
<1> QED BY <1>1, <1>5, <1>6 DEF r

LEMMA ApplyProps ==
  ASSUME NEW s \in Seq(Timers), NEW c \in Change
  PROVE  /\ Apply(s, c) \in Seq(Timers)
         /\ \A u : Listed(Apply(s, c), u) <=> IF u = c.timer THEN c.enabled ELSE Listed(s, u)
         /\ Once(s) => Once(Apply(s, c))
<1>1. c.timer \in Timers /\ c.enabled \in BOOLEAN
  BY DEF Change
<1>2. CASE c.enabled /\ Listed(s, c.timer)
  BY <1>2 DEF Apply, Added
<1>3. CASE c.enabled /\ ~ Listed(s, c.timer)
  BY <1>1, <1>3, AppendProps DEF Apply, Added
<1>4. CASE ~ c.enabled
  <2>1. Apply(s, c) = Erased(s, c.timer)
    BY <1>4 DEF Apply
  <2>2. Once(s) => Once(Erased(s, c.timer))
    BY KeptOnce DEF Erased
  <2> QED BY <1>4, <2>1, <2>2, ErasedProps
<1> QED BY <1>2, <1>3, <1>4

\* The changes keep the list's type, and no timer comes to be listed twice.
LEMMA AppliedType ==
  ASSUME NEW s \in Seq(Timers), NEW cs \in Seq(Change)
  PROVE  Applied(s, cs) \in Seq(Timers) /\ (Once(s) => Once(Applied(s, cs)))
<1> DEFINE m == Len(cs)
<1>1. m \in Nat /\ \A n \in 1 .. m : cs[n] \in Change
  OBVIOUS
<1>2. PICK g : AppliedUpTo(g, s, cs, m) /\ Applied(s, cs) = g[m]
  BY <1>1, AppliedIs
<1> DEFINE U == {n \in 0 .. m : g[n] \in Seq(Timers) /\ (Once(s) => Once(g[n]))}
<1> HIDE DEF m
<1>3. 0 \in U
  BY <1>1, <1>2 DEF AppliedUpTo
<1>4. ASSUME NEW n \in 1 .. m, n - 1 \in U
      PROVE  n \in U
  <2>1. g[n] = Apply(g[n - 1], cs[n])
    BY <1>1, <1>2 DEF AppliedUpTo
  <2>2. g[n - 1] \in Seq(Timers) /\ cs[n] \in Change /\ (Once(s) => Once(g[n - 1]))
    BY <1>1, <1>4
  <2>3. g[n] \in Seq(Timers) /\ (Once(s) => Once(g[n]))
    BY <2>1, <2>2, ApplyProps
  <2> QED BY <2>3, <1>1
<1> HIDE DEF U
<1>5. m \in Nat
  BY <1>1
<1>6. m \in U
  <2>1. 0 \in U /\ \A n \in 1 .. m : n - 1 \in U => n \in U
    BY <1>3, <1>4
  <2>2. \A n \in 0 .. m : n \in U
    BY <1>5, <2>1, UpTo
  <2> QED BY <1>5, <2>2
<1> QED BY <1>2, <1>6 DEF U

\* Whether a timer is listed in the end depends on whether it was, and on the
\* changes.
LEMMA AppliedSame ==
  ASSUME NEW s \in Seq(Timers), NEW r \in Seq(Timers), NEW cs \in Seq(Change), NEW u,
         Listed(s, u) <=> Listed(r, u)
  PROVE  Listed(Applied(s, cs), u) <=> Listed(Applied(r, cs), u)
<1> DEFINE m == Len(cs)
<1>1. m \in Nat /\ \A n \in 1 .. m : cs[n] \in Change
  OBVIOUS
<1>2. PICK g : AppliedUpTo(g, s, cs, m) /\ Applied(s, cs) = g[m]
  BY <1>1, AppliedIs
<1>3. PICK h : AppliedUpTo(h, r, cs, m) /\ Applied(r, cs) = h[m]
  BY <1>1, AppliedIs
<1> DEFINE U == {n \in 0 .. m : /\ g[n] \in Seq(Timers) /\ h[n] \in Seq(Timers)
                                /\ Listed(g[n], u) <=> Listed(h[n], u)}
<1> HIDE DEF m
<1>4. 0 \in U
  BY <1>1, <1>2, <1>3 DEF AppliedUpTo
<1>5. ASSUME NEW n \in 1 .. m, n - 1 \in U
      PROVE  n \in U
  <2>1. g[n] = Apply(g[n - 1], cs[n]) /\ h[n] = Apply(h[n - 1], cs[n])
    BY <1>1, <1>2, <1>3 DEF AppliedUpTo
  <2>2. /\ g[n - 1] \in Seq(Timers) /\ h[n - 1] \in Seq(Timers) /\ cs[n] \in Change
        /\ Listed(g[n - 1], u) <=> Listed(h[n - 1], u)
    BY <1>1, <1>5
  <2>3. PICK c \in Change : c = cs[n]
    BY <2>2
  <2>4. PICK k \in Seq(Timers) : k = g[n - 1]
    BY <2>2
  <2>5. PICK l \in Seq(Timers) : l = h[n - 1]
    BY <2>2
  <2>6. Apply(k, c) \in Seq(Timers) /\ (Listed(Apply(k, c), u) <=> IF u = c.timer THEN c.enabled ELSE Listed(k, u))
    BY ApplyProps
  <2>7. Apply(l, c) \in Seq(Timers) /\ (Listed(Apply(l, c), u) <=> IF u = c.timer THEN c.enabled ELSE Listed(l, u))
    BY ApplyProps
  <2>8. g[n] = Apply(k, c) /\ h[n] = Apply(l, c) /\ (Listed(k, u) <=> Listed(l, u))
    BY <2>1, <2>2, <2>3, <2>4, <2>5
  <2>9. Listed(Apply(k, c), u) <=> Listed(Apply(l, c), u)
    BY <2>6, <2>7, <2>8
  <2> QED BY <2>6, <2>7, <2>8, <2>9, <1>1
<1> HIDE DEF U
<1>6. m \in U
  <2>1. 0 \in U /\ \A n \in 1 .. m : n - 1 \in U => n \in U
    BY <1>4, <1>5
  <2>2. m \in Nat
    BY <1>1
  <2>3. \A n \in 0 .. m : n \in U
    BY <2>1, <2>2, UpTo
  <2> QED BY <2>2, <2>3
<1> QED BY <1>2, <1>3, <1>6 DEF U

\* The changes of other timers do not matter.
LEMMA AppliedOther ==
  ASSUME NEW s \in Seq(Timers), NEW cs \in Seq(Change), NEW u,
         \A i \in DOMAIN cs : cs[i].timer # u
  PROVE  Listed(Applied(s, cs), u) <=> Listed(s, u)
<1> DEFINE m == Len(cs)
<1>1. m \in Nat /\ \A n \in 1 .. m : cs[n] \in Change /\ cs[n].timer # u
  OBVIOUS
<1>2. PICK g : AppliedUpTo(g, s, cs, m) /\ Applied(s, cs) = g[m]
  BY <1>1, AppliedIs
<1> DEFINE U == {n \in 0 .. m : g[n] \in Seq(Timers) /\ (Listed(g[n], u) <=> Listed(s, u))}
<1> HIDE DEF m
<1>3. 0 \in U
  BY <1>1, <1>2 DEF AppliedUpTo
<1>4. ASSUME NEW n \in 1 .. m, n - 1 \in U
      PROVE  n \in U
  <2>1. g[n] = Apply(g[n - 1], cs[n])
    BY <1>1, <1>2 DEF AppliedUpTo
  <2>2. g[n - 1] \in Seq(Timers) /\ cs[n] \in Change /\ (Listed(g[n - 1], u) <=> Listed(s, u))
    BY <1>1, <1>4
  <2>3. PICK c \in Change : c = cs[n] /\ c.timer # u
    BY <1>1, <2>2
  <2>4. PICK k \in Seq(Timers) : k = g[n - 1] /\ (Listed(k, u) <=> Listed(s, u))
    BY <2>2
  <2>5. Apply(k, c) \in Seq(Timers) /\ (Listed(Apply(k, c), u) <=> Listed(k, u))
    BY <2>3, ApplyProps
  <2>6. g[n] = Apply(k, c)
    BY <2>1, <2>3, <2>4
  <2> QED BY <2>4, <2>5, <2>6, <1>1
<1> HIDE DEF U
<1>5. m \in U
  <2>1. 0 \in U /\ \A n \in 1 .. m : n - 1 \in U => n \in U
    BY <1>3, <1>4
  <2>2. m \in Nat
    BY <1>1
  <2>3. \A n \in 0 .. m : n \in U
    BY <2>1, <2>2, UpTo
  <2> QED BY <2>2, <2>3
<1> QED BY <1>2, <1>5 DEF U

-----------------------------------------------------------------------------
(* The times.                                                                *)

LEMMA EffectiveProps ==
  ASSUME NEW i \in Intervals
  PROVE  /\ Effective(i) \in Int
         /\ Effective(i) > 0 => MaxTime + Effective(i) < Modulus
<1>1. i \in Int /\ MaxTime \in Nat /\ Modulus \in Nat /\ MaxTime + i + 2 < Modulus
  BY IntervalsInt, BoundsNat, WideEnough
<1> QED BY <1>1 DEF Effective

LEMMA Remainder ==
  ASSUME NEW a \in Int, NEW m \in Nat \ {0}
  PROVE  /\ a % m \in 0 .. m - 1
         /\ 0 <= a /\ a < m => a % m = a
  OBVIOUS

\* A time that is due is moved past the clock, by an interval at most.
LEMMA CatchUpBounds ==
  ASSUME NEW n \in Nat, NEW f \in Nat, NEW i \in Nat \ {0}, f <= n
  PROVE  LET c == f + i * ((n - f) \div i + 1)
         IN  c \in Nat /\ n < c /\ c <= n + i
<1> DEFINE d == n - f
           q == d \div i
<1>1. d \in Nat
  OBVIOUS
<1>2. q \in Int /\ i * q <= d /\ d < i * q + i
  OBVIOUS
<1>3. i * (q + 1) = i * q + i
  BY <1>2
<1>4. n = f + d
  OBVIOUS
<1> HIDE DEF q, d
<1>5. i * q \in Int
  BY <1>2
<1>6. f + (i * q + i) \in Nat /\ n < f + (i * q + i) /\ f + (i * q + i) <= n + i
  BY <1>1, <1>2, <1>4, <1>5
<1> QED BY <1>3, <1>6 DEF q, d

-----------------------------------------------------------------------------
(* The list at the start.                                                    *)

\* Each sequence of SetToSeqs(S) lists the elements of S, each once.
LEMMA StartingList ==
  ASSUME NEW S, IsFiniteSet(S), NEW s \in SetToSeqs(S)
  PROVE  /\ s \in Seq(S)
         /\ Once(s)
         /\ \A t : Listed(s, t) <=> t \in S
<1> DEFINE n == Cardinality(S)
           D == 1 .. n
<1>1. n \in Nat
  BY FS_CardinalityType
<1>2. s \in [D -> S] /\ \A i, j \in D : i # j => s[i] # s[j]
  BY DEF SetToSeqs
<1>3. IsFiniteSet(D) /\ Cardinality(D) = n
  BY <1>1, FS_Interval
<1> HIDE DEF n
<1>4. s \in Injection(D, S)
  BY <1>2, Fun_IsInj
<1>5. s \in Surjection(D, S)
  BY <1>3, <1>4, FS_Injection DEF n
<1>6. \A t \in S : \E i \in D : s[i] = t
  BY <1>5 DEF Surjection
<1>7. s \in Seq(S) /\ DOMAIN s = D
  BY <1>1, <1>2
<1> QED BY <1>2, <1>6, <1>7 DEF Listed, Once

-----------------------------------------------------------------------------
(* The initial states.                                                       *)

LEMMA IntervalType ==
  ASSUME interval \in [Timers -> {Effective(i) : i \in Intervals}], NEW t \in Timers
  PROVE  /\ interval[t] \in Int
         /\ interval[t] > 0 => MaxTime + interval[t] < Modulus
<1>1. PICK i \in Intervals : interval[t] = Effective(i)
  OBVIOUS
<1> QED BY <1>1, EffectiveProps

LEMMA Initially == Init => Inv
<1> SUFFICES ASSUME Init PROVE Inv
  OBVIOUS
<1>1. /\ IsFiniteSet({t \in Parts : enabled[t]})
      /\ vht \in SetToSeqs({t \in Parts : enabled[t]})
  <2>1. {t \in Parts : enabled[t]} \in SUBSET Parts
    OBVIOUS
  <2>2. IsFiniteSet({t \in Parts : enabled[t]})
    BY <2>1, PartsFinite, FS_Subset
  <2> QED BY <2>2 DEF Init
<1>2. /\ vht \in Seq({t \in Parts : enabled[t]})
      /\ Once(vht)
      /\ \A t : Listed(vht, t) <=> t \in {p \in Parts : enabled[p]}
  <2>1. PICK S : S = {t \in Parts : enabled[t]}
    OBVIOUS
  <2> QED BY <1>1, <2>1, StartingList
<1>3. vht \in Seq(Timers)
  <2>1. {t \in Parts : enabled[t]} \subseteq Timers
    BY DEF Timers
  <2> QED BY <1>2, <2>1
<1>4. Coming = vht
  <2>1. changed = <<>>
    BY DEF Init
  <2> QED BY <2>1, AppliedNone DEF Coming
<1>5. interval \in [Timers -> {Effective(i) : i \in Intervals}]
  BY DEF Init
<1>6. \A t \in Timers :
        /\ nextfire[t] = interval[t] % Modulus
        /\ nextfire[t] \in 0 .. Modulus - 1
        /\ interval[t] > 0 => nextfire[t] = interval[t]
  <2> TAKE t \in Timers
  <2>1. nextfire[t] = interval[t] % Modulus
    BY DEF Init
  <2>2. Modulus \in Nat \ {0} /\ MaxTime \in Nat
    BY BoundsNat
  <2>3. interval[t] \in Int /\ (interval[t] > 0 => MaxTime + interval[t] < Modulus)
    BY <1>5, IntervalType
  <2>4. interval[t] > 0 => 0 <= interval[t] /\ interval[t] < Modulus
    BY <2>2, <2>3
  <2> QED BY <2>1, <2>2, <2>3, <2>4, Remainder
<1>7. TypeOK
  <2>1. nextfire \in [Timers -> 0 .. Modulus - 1]
    BY <1>6 DEF Init
  <2>2. 0 \in 0 .. MaxTime /\ 0 \in 0 .. Modulus - 1
    BY BoundsNat
  <2>3. now \in 0 .. MaxTime /\ cur \in 0 .. Modulus - 1
    BY <2>2 DEF Init
  <2>4. enabled \in [Timers -> BOOLEAN]
    BY DEF Init
  <2>5. alive \subseteq Timers /\ dying \subseteq alive \cap Balls /\ edited \subseteq Timers
    BY DEF Init, Timers
  <2>6. changed \in Seq(Change)
    BY DEF Init
  <2>7. /\ pass \in {"idle", "timer", "frame", "sync"} /\ stage \in {"walk", "apply", "clear"}
        /\ at \in Nat \ {0} /\ beyond \in Seq(Timers) /\ firing \subseteq Timers
        /\ deletion \in [Timers -> {"none", "look", "note", "erase", "free"}]
    BY DEF Init
  <2> QED BY <1>3, <1>5, <2>1, <2>3, <2>4, <2>5, <2>6, <2>7 DEF TypeOK
<1>8. Exact
  <2>1. \A t \in Timers : enabled[t] <=> t \in Parts /\ enabled[t]
    BY DEF Init, Timers
  <2>2. \A t \in Timers : Stays(t) <=> t \in Parts /\ enabled[t]
    BY DEF Init, Stays
  <2> QED BY <1>2, <1>4, <2>2 DEF Exact
<1>9. Within
  <2>1. now = 0
    BY DEF Init
  <2>2. \A t \in Timers : interval[t] \in Int
    BY <1>5, IntervalType
  <2> QED BY <1>6, <2>1, <2>2 DEF Within, Ticks
<1>10. Served
  <2>1. at = 1 /\ firing = {} /\ Deferring
    BY DEF Init, Deferring
  <2>2. \A i \in DOMAIN vht : 1 <= i
    BY <1>3
  <2> QED BY <1>4, <2>1, <2>2 DEF Served, Ticks, Ahead, Listed
<1>11. Walk /\ Leftover /\ Marked /\ Going
  BY DEF Walk, Leftover, Marked, Going, Init, Deferring
<1> QED BY <1>2, <1>7, <1>8, <1>9, <1>10, <1>11 DEF Inv

-----------------------------------------------------------------------------
(* The list to come.                                                         *)

LEMMA NextTimeProps ==
  ASSUME now \in 0 .. MaxTime, NEW d \in Int, d > 0 => MaxTime + d < Modulus
  PROVE  /\ NextTime(d) \in 0 .. Modulus - 1
         /\ d > 0 => NextTime(d) = now + d
<1>1. Modulus \in Nat \ {0} /\ MaxTime \in Nat /\ now \in Nat /\ now <= MaxTime
  BY BoundsNat
<1>2. now + d \in Int /\ (d > 0 => 0 <= now + d /\ now + d < Modulus)
  BY <1>1
<1> QED BY <1>1, <1>2, Remainder DEF NextTime

LEMMA DeferredTimeType ==
  ASSUME TypeOK
  PROVE  DeferredTime \in 0 .. Modulus - 1
<1>1. Modulus \in Nat \ {0} /\ now + Modulus - 1 \in Int
  BY BoundsNat DEF TypeOK
<1> QED BY <1>1, Remainder DEF DeferredTime

LEMMA ComingType ==
  ASSUME TypeOK
  PROVE  Coming \in Seq(Timers)
BY AppliedType DEF Coming, TypeOK

LEMMA SameComing ==
  ASSUME UNCHANGED <<vht, changed, stage>>
  PROVE  Coming' = Coming
BY DEF Coming

\* Between the passes, a timer that is not gone is listed when it is to be.
LEMMA IdleListed ==
  ASSUME TypeOK, Walk, Leftover, pass = "idle", NEW t \in Timers, t \notin edited \/ ~ Gone(t)
  PROVE  /\ \A i \in DOMAIN changed : changed[i].timer # t
         /\ Listed(Coming, t) <=> Listed(vht, t)
<1>1. \A i \in DOMAIN changed : changed[i].timer # t
  BY DEF Leftover
<1>2. vht \in Seq(Timers) /\ changed \in Seq(Change) /\ stage = "walk"
  BY DEF TypeOK, Walk
<1>3. Listed(Applied(vht, changed), t) <=> Listed(vht, t)
  BY <1>1, <1>2, AppliedOther
<1> QED BY <1>1, <1>2, <1>3 DEF Coming

\* One that is added to the changes is a change of the list to come.
LEMMA OneMoreChange ==
  ASSUME TypeOK, stage # "clear", stage' # "clear", vht' = vht, NEW c \in Change,
         changed' = Append(changed, c)
  PROVE  /\ changed' \in Seq(Change)
         /\ \A u : Listed(Coming, u)' <=> IF u = c.timer THEN c.enabled ELSE Listed(Coming, u)
<1>1. vht \in Seq(Timers) /\ changed \in Seq(Change) /\ Coming \in Seq(Timers)
  BY ComingType DEF TypeOK
<1>2. PICK k : k = Coming
  OBVIOUS
<1>3. PICK l : l = Coming'
  OBVIOUS
<1>4. l = Apply(k, c)
  BY <1>1, <1>2, <1>3, AppliedOneMore DEF Coming
<1>5. \A u : Listed(l, u) <=> IF u = c.timer THEN c.enabled ELSE Listed(k, u)
  BY <1>1, <1>2, <1>4, ApplyProps
<1> QED BY <1>1, <1>2, <1>3, <1>5

\* Timers whose place in the list is left alone are to be listed as before.
LEMMA ComingOfOthers ==
  ASSUME TypeOK, vht' \in Seq(Timers), UNCHANGED <<changed, stage>>, NEW u,
         Listed(vht', u) <=> Listed(vht, u)
  PROVE  Listed(Coming, u)' <=> Listed(Coming, u)
<1>1. vht \in Seq(Timers) /\ changed \in Seq(Change)
  BY DEF TypeOK
<1>2. PICK r : r = vht'
  OBVIOUS
<1>3. Listed(Applied(r, changed), u) <=> Listed(Applied(vht, changed), u)
  BY <1>1, <1>2, AppliedSame
<1>4. Coming' = IF stage = "clear" THEN r ELSE Applied(r, changed)
  BY <1>2 DEF Coming
<1>5. CASE stage = "clear"
  BY <1>2, <1>4, <1>5 DEF Coming
<1>6. CASE stage # "clear"
  <2>1. PICK k : k = Coming
    OBVIOUS
  <2>2. PICK l : l = Coming'
    OBVIOUS
  <2>3. k = Applied(vht, changed) /\ l = Applied(r, changed)
    BY <1>4, <1>6, <2>1, <2>2 DEF Coming
  <2> QED BY <1>3, <2>1, <2>2, <2>3
<1> QED BY <1>5, <1>6

\* A timer that no change waits for is to be listed if it is.
LEMMA ComingOfIt ==
  ASSUME TypeOK, vht' \in Seq(Timers), UNCHANGED <<changed, stage>>, NEW u,
         stage # "clear" => \A i \in DOMAIN changed : changed[i].timer # u
  PROVE  Listed(Coming, u)' <=> Listed(vht', u)
<1>1. changed \in Seq(Change)
  BY DEF TypeOK
<1>2. PICK r : r = vht'
  OBVIOUS
<1>3. stage # "clear" => (Listed(Applied(r, changed), u) <=> Listed(r, u))
  BY <1>1, <1>2, AppliedOther
<1>4. PICK l : l = Coming'
  OBVIOUS
<1>5. l = IF stage = "clear" THEN r ELSE Applied(r, changed)
  BY <1>2, <1>4 DEF Coming
<1> QED BY <1>2, <1>3, <1>4, <1>5

-----------------------------------------------------------------------------
(* The steps that change one timer.                                          *)

\* A change asked for is a change of the list to come.
LEMMA ChangeKeeps ==
  ASSUME TypeOK, Once(vht), Walk, NEW t \in Timers, NEW b \in BOOLEAN,
         ScriptRuns, TimerStateChange(t, b), UNCHANGED <<interval, stage>>
  PROVE  /\ vht' \in Seq(Timers) /\ changed' \in Seq(Change) /\ Once(vht')
         /\ \A u \in Timers : u # t => (Listed(Coming, u)' <=> Listed(Coming, u))
         /\ Deferring => vht' = vht /\ (Listed(Coming, t)' <=> b)
         /\ ~ Deferring => changed' = changed /\ (Listed(vht', t) <=> b)
         /\ nextfire' \in [Timers -> 0 .. Modulus - 1]
         /\ \A u \in Timers : u # t => nextfire'[u] = nextfire[u]
         /\ b => nextfire'[t] = NextTime(interval[t])
<1> DEFINE c == [timer |-> t, enabled |-> b]
<1>1. c \in Change /\ c.timer = t /\ c.enabled = b
  BY DEF Change
<1>2. vht \in Seq(Timers) /\ changed \in Seq(Change) /\ stage = "walk" /\ stage' = "walk"
  BY DEF TypeOK, ScriptRuns, Walk, Deferring
<1>3. /\ nextfire' \in [Timers -> 0 .. Modulus - 1]
      /\ \A u \in Timers : u # t => nextfire'[u] = nextfire[u]
      /\ b => nextfire'[t] = NextTime(interval[t])
  <2>1. now \in 0 .. MaxTime
    BY DEF TypeOK
  <2>2. interval[t] \in Int /\ (interval[t] > 0 => MaxTime + interval[t] < Modulus)
    BY IntervalType DEF TypeOK
  <2>3. NextTime(interval[t]) \in 0 .. Modulus - 1
    BY <2>1, <2>2, NextTimeProps
  <2>4. nextfire \in [Timers -> 0 .. Modulus - 1]
    BY DEF TypeOK
  <2> DEFINE v == IF b THEN NextTime(interval[t])
                  ELSE IF Deferring THEN DeferredTime ELSE nextfire[t]
  <2>5. v \in 0 .. Modulus - 1 /\ (b => v = NextTime(interval[t]))
    BY <2>3, <2>4, DeferredTimeType
  <2>6. nextfire' = [nextfire EXCEPT ![t] = v]
    BY DEF TimerStateChange
  <2> HIDE DEF v
  <2> QED BY <2>4, <2>5, <2>6
<1>4. CASE Deferring
  <2>1. changed' = Append(changed, c) /\ vht' = vht
    BY <1>4 DEF TimerStateChange
  <2> HIDE DEF c
  <2>2. /\ changed' \in Seq(Change)
        /\ \A u : Listed(Coming, u)' <=> IF u = t THEN b ELSE Listed(Coming, u)
    BY <1>1, <1>2, <2>1, OneMoreChange
  <2> QED BY <1>2, <1>3, <1>4, <2>1, <2>2
<1>5. CASE ~ Deferring
  <2>1. /\ Listed(vht, t) = ~ b
        /\ vht' = IF b THEN Append(vht, t) ELSE Erased(vht, t)
        /\ changed' = changed
    BY <1>5 DEF TimerStateChange
  <2>2. PICK r : r = vht'
    OBVIOUS
  <2>3. r = Apply(vht, c)
    <3>1. CASE b
      <4>1. ~ Listed(vht, t)
        BY <2>1, <3>1
      <4> QED BY <1>1, <2>1, <2>2, <3>1, <4>1 DEF Apply, Added
    <3>2. CASE ~ b
      BY <1>1, <2>1, <2>2, <3>2 DEF Apply
    <3> QED BY <3>1, <3>2
  <2>4. /\ r \in Seq(Timers) /\ Once(r)
        /\ \A u : Listed(r, u) <=> IF u = t THEN b ELSE Listed(vht, u)
    BY <1>1, <1>2, <2>3, ApplyProps
  <2>5. /\ vht' \in Seq(Timers) /\ Once(vht')
        /\ \A u : Listed(vht', u) <=> IF u = t THEN b ELSE Listed(vht, u)
    BY <2>2, <2>4
  <2>6. UNCHANGED <<changed, stage>>
    BY <2>1
  <2>7. \A u \in Timers : u # t => (Listed(Coming, u)' <=> Listed(Coming, u))
    BY <2>5, <2>6, ComingOfOthers
  <2> QED BY <1>2, <1>3, <1>5, <2>1, <2>5, <2>7
<1> QED BY <1>4, <1>5

OthersKept(t) ==
  \A u \in Timers : u # t =>
    /\ Ticks(u)' => Ticks(u)
    /\ interval'[u] = interval[u]
    /\ nextfire'[u] = nextfire[u]

\* A timer that is set counts from now on.
LEMMA OneTimer ==
  ASSUME Within, Served, NEW t \in Timers, UNCHANGED <<now, walk>>,
         Deferring => vht' = vht, OthersKept(t),
         Ticks(t)' => now < nextfire'[t] /\ nextfire'[t] <= now + interval'[t]
  PROVE  Within' /\ Served'
<1>1. ASSUME NEW u \in Timers, Ticks(u)'
      PROVE  /\ nextfire'[u] <= now' + interval'[u]
             /\ pass' = "timer" /\ beyond' = <<>> =>
                  now' < nextfire'[u] \/ (Deferring' /\ Ahead(u)')
  <2>1. CASE u = t
    BY <1>1, <2>1
  <2>2. CASE u # t
    <3>1. Ticks(u) /\ nextfire'[u] = nextfire[u] /\ interval'[u] = interval[u]
      BY <1>1, <2>2 DEF OthersKept
    <3>2. nextfire'[u] <= now' + interval'[u]
      BY <3>1 DEF Within
    <3>3. ASSUME pass = "timer", beyond = <<>>
          PROVE  now < nextfire[u] \/ (Deferring' /\ Ahead(u)')
      <4>1. now < nextfire[u] \/ (Deferring /\ Ahead(u))
        BY <3>1, <3>3 DEF Served
      <4>2. ASSUME Deferring, Ahead(u) PROVE Deferring' /\ Ahead(u)'
        <5>1. vht' = vht /\ at' = at /\ firing' = firing /\ cur' = cur
          BY <4>2 DEF walk
        <5> QED BY <3>1, <4>2, <5>1 DEF Ahead, Deferring, walk
      <4> QED BY <4>1, <4>2
    <3> QED BY <3>1, <3>2, <3>3 DEF walk
  <2> QED BY <2>1, <2>2
<1> QED BY <1>1 DEF Within, Served

LEMMA PutTimerEnabledKeeps ==
  ASSUME Inv, NEW t \in Timers, NEW b \in BOOLEAN, PutTimerEnabled(t, b)
  PROVE  Inv'
<1>1. /\ TypeOK /\ Once(vht) /\ Exact /\ Walk /\ Leftover /\ Marked /\ Going /\ Within /\ Served
      /\ ScriptRuns /\ TimerStateChange(t, b) /\ t \in alive
      /\ enabled' = [enabled EXCEPT ![t] = b] /\ edited' = edited \cup Meets(t)
      /\ UNCHANGED <<now, interval, life, walk, deletion>>
  BY DEF Inv, PutTimerEnabled
<1>2. UNCHANGED <<interval, stage, pass, alive, dying, deletion>>
  BY <1>1 DEF walk, life
<1>3. /\ vht' \in Seq(Timers) /\ changed' \in Seq(Change) /\ Once(vht')
      /\ \A u \in Timers : u # t => (Listed(Coming, u)' <=> Listed(Coming, u))
      /\ Deferring => vht' = vht /\ (Listed(Coming, t)' <=> b)
      /\ ~ Deferring => changed' = changed /\ (Listed(vht', t) <=> b)
      /\ nextfire' \in [Timers -> 0 .. Modulus - 1]
      /\ \A u \in Timers : u # t => nextfire'[u] = nextfire[u]
      /\ b => nextfire'[t] = NextTime(interval[t])
  BY <1>1, <1>2, ChangeKeeps
\* Nothing waits for a timer between the passes if it is not being deleted.
<1>4. deletion[t] = "none" => (Listed(Coming, t)' <=> b)
  <2> SUFFICES ASSUME deletion[t] = "none", ~ Deferring PROVE Listed(Coming, t)' <=> b
    BY <1>3
  <2>1. pass = "idle"
    BY <1>1 DEF ScriptRuns, Walk
  <2>2. ~ Gone(t)
    BY <1>1 DEF Gone
  <2>3. \A i \in DOMAIN changed : changed[i].timer # t
    BY <1>1, <2>1, <2>2, IdleListed
  <2>4. UNCHANGED <<changed, stage>>
    BY <1>2, <1>3
  <2> QED BY <1>1, <1>3, <2>3, <2>4, ComingOfIt
<1>5. edited' \subseteq Timers /\ edited \subseteq edited' /\ (t \notin edited' => deletion[t] = "none")
  BY <1>1 DEF Meets, TypeOK
<1>6. /\ enabled' \in [Timers -> BOOLEAN]
      /\ enabled'[t] = b /\ \A u \in Timers : u # t => enabled'[u] = enabled[u]
  BY <1>1 DEF TypeOK
<1>7. TypeOK'
  BY <1>1, <1>3, <1>5, <1>6 DEF TypeOK, life, walk
<1>8. Exact'
  BY <1>1, <1>2, <1>3, <1>4, <1>5, <1>6 DEF Exact, Stays
<1>9. Walk' /\ Leftover' /\ Marked' /\ Going'
  <2>1. Walk'
    BY <1>1, <1>3 DEF Walk, walk, Deferring
  <2>2. Leftover'
    BY <1>1, <1>2, <1>3, <1>5 DEF Leftover, Gone, Deferring
  <2>3. Marked'
    BY <1>1, <1>2, <1>5 DEF Marked
  <2>4. Going'
    BY <1>1, <1>2, <1>5, <1>6 DEF Going
  <2> QED BY <2>1, <2>2, <2>3, <2>4
<1>10. Within' /\ Served'
  <2>1. OthersKept(t)
    BY <1>1, <1>2, <1>3 DEF OthersKept, Ticks
  <2>2. ASSUME Ticks(t)' PROVE now < nextfire'[t] /\ nextfire'[t] <= now + interval'[t]
    <3>1. b /\ interval'[t] = interval[t] /\ interval[t] > 0
      BY <1>1, <1>2, <1>4, <2>2 DEF Ticks
    <3>2. interval[t] \in Int /\ (interval[t] > 0 => MaxTime + interval[t] < Modulus)
      BY <1>1, IntervalType DEF TypeOK
    <3>3. now \in 0 .. MaxTime /\ now \in Nat
      BY <1>1, BoundsNat DEF TypeOK
    <3>4. nextfire'[t] = now + interval[t]
      BY <1>3, <3>1, <3>2, <3>3, NextTimeProps
    <3> QED BY <3>1, <3>2, <3>3, <3>4
  <2> QED BY <1>1, <1>3, <2>1, <2>2, OneTimer
<1> QED BY <1>3, <1>7, <1>8, <1>9, <1>10 DEF Inv

\* A timer's new interval counts from now on.
LEMMA NewInterval ==
  ASSUME TypeOK, Within, Served, NEW t \in Timers, NEW i \in Intervals,
         interval' = [interval EXCEPT ![t] = Effective(i)],
         nextfire' = [nextfire EXCEPT ![t] = NextTime(Effective(i))],
         \A u \in Timers : u # t /\ u \in alive' => u \in alive,
         UNCHANGED <<now, vht, changed, walk, deletion>>
  PROVE  /\ interval' \in [Timers -> {Effective(j) : j \in Intervals}]
         /\ nextfire' \in [Timers -> 0 .. Modulus - 1]
         /\ Within' /\ Served'
<1> DEFINE d == Effective(i)
<1>1. d \in Int /\ (d > 0 => MaxTime + d < Modulus)
  BY EffectiveProps
<1>2. now \in 0 .. MaxTime /\ now \in Nat
  BY BoundsNat DEF TypeOK
<1>3. d \in {Effective(j) : j \in Intervals}
  OBVIOUS
<1> HIDE DEF d
<1>4. NextTime(d) \in 0 .. Modulus - 1 /\ (d > 0 => NextTime(d) = now + d)
  BY <1>1, <1>2, NextTimeProps
<1>5. /\ interval \in [Timers -> {Effective(j) : j \in Intervals}]
      /\ nextfire \in [Timers -> 0 .. Modulus - 1]
  BY DEF TypeOK
<1>6. interval' = [interval EXCEPT ![t] = d] /\ nextfire' = [nextfire EXCEPT ![t] = NextTime(d)]
  BY DEF d
<1>7. /\ interval' \in [Timers -> {Effective(j) : j \in Intervals}]
      /\ nextfire' \in [Timers -> 0 .. Modulus - 1]
  BY <1>3, <1>4, <1>5, <1>6
<1>8. /\ interval'[t] = d /\ nextfire'[t] = NextTime(d)
      /\ \A u \in Timers : u # t => interval'[u] = interval[u] /\ nextfire'[u] = nextfire[u]
  BY <1>5, <1>6
<1>9. OthersKept(t)
  <2>1. Coming' = Coming
    BY SameComing DEF walk
  <2> QED BY <1>8, <2>1 DEF OthersKept, Ticks
<1>10. Ticks(t)' => now < nextfire'[t] /\ nextfire'[t] <= now + interval'[t]
  BY <1>1, <1>2, <1>4, <1>8 DEF Ticks
<1>11. Within' /\ Served'
  BY <1>9, <1>10, OneTimer
<1> QED BY <1>7, <1>11

LEMMA PutTimerIntervalKeeps ==
  ASSUME Inv, NEW t \in Timers, NEW i \in Intervals, PutTimerInterval(t, i)
  PROVE  Inv'
<1>1. /\ TypeOK /\ Once(vht) /\ Exact /\ Walk /\ Leftover /\ Marked /\ Going /\ Within /\ Served
      /\ interval' = [interval EXCEPT ![t] = Effective(i)]
      /\ nextfire' = [nextfire EXCEPT ![t] = NextTime(Effective(i))]
      /\ UNCHANGED <<now, enabled, life, vht, changed, walk, deletion, edited>>
  BY DEF Inv, PutTimerInterval
<1>2. Coming' = Coming
  BY <1>1, SameComing DEF walk
<1>3. /\ interval' \in [Timers -> {Effective(j) : j \in Intervals}]
      /\ nextfire' \in [Timers -> 0 .. Modulus - 1]
      /\ Within' /\ Served'
  BY <1>1, NewInterval DEF life
<1>4. TypeOK'
  BY <1>1, <1>3 DEF TypeOK, life, walk
<1>5. Exact' /\ Walk' /\ Leftover' /\ Marked' /\ Going'
  BY <1>1, <1>2 DEF Exact, Stays, Walk, Leftover, Gone, Marked, Going, Deferring, life, walk
<1> QED BY <1>1, <1>3, <1>4, <1>5 DEF Inv

LEMMA CreateBallKeeps ==
  ASSUME Inv, NEW b \in Balls, NEW i \in Intervals, CreateBall(b, i)
  PROVE  Inv'
<1>1. /\ TypeOK /\ Once(vht) /\ Exact /\ Walk /\ Leftover /\ Marked /\ Going /\ Within /\ Served
      /\ b \notin alive /\ alive' = alive \cup {b}
      /\ enabled' = [enabled EXCEPT ![b] = FALSE]
      /\ interval' = [interval EXCEPT ![b] = Effective(i)]
      /\ nextfire' = [nextfire EXCEPT ![b] = NextTime(Effective(i))]
      /\ UNCHANGED <<now, dying, vht, changed, walk, deletion, edited>>
  BY DEF Inv, CreateBall
<1>2. Coming' = Coming /\ b \in Timers /\ b \notin Parts
  BY <1>1, SameComing, BallsNew DEF Timers, walk
<1>3. /\ interval' \in [Timers -> {Effective(j) : j \in Intervals}]
      /\ nextfire' \in [Timers -> 0 .. Modulus - 1]
      /\ Within' /\ Served'
  BY <1>1, <1>2, NewInterval
<1>4. /\ enabled' \in [Timers -> BOOLEAN]
      /\ ~ enabled'[b] /\ \A t \in Timers : t # b => enabled'[t] = enabled[t]
  BY <1>1, <1>2 DEF TypeOK
<1>5. TypeOK'
  BY <1>1, <1>2, <1>3, <1>4 DEF TypeOK, walk
<1>6. Exact'
  BY <1>1, <1>2, <1>4 DEF Exact, Stays
<1>7. Walk' /\ Leftover' /\ Marked' /\ Going'
  <2>1. Walk' /\ Marked'
    BY <1>1 DEF Walk, Marked, Deferring, walk
  <2>2. Leftover'
    BY <1>1, <1>2 DEF Leftover, Gone, walk
  <2>3. Going'
    BY <1>1, <1>2, <1>4 DEF Going
  <2> QED BY <2>1, <2>2, <2>3
<1> QED BY <1>1, <1>3, <1>5, <1>6, <1>7 DEF Inv

LEMMA DestroyBallKeeps ==
  ASSUME Inv, NEW b \in Balls, DestroyBall(b)
  PROVE  Inv'
<1>1. /\ TypeOK /\ Once(vht) /\ Exact /\ Walk /\ Leftover /\ Marked /\ Going /\ Within /\ Served
      /\ b \in alive /\ dying' = dying \cup {b}
      /\ UNCHANGED <<now, enabled, clock, alive, vht, changed, walk, deletion, edited>>
  BY DEF Inv, DestroyBall
<1>2. Coming' = Coming
  BY <1>1, SameComing DEF walk
<1>3. TypeOK'
  BY <1>1 DEF TypeOK, clock, walk
<1>4. Exact' /\ Walk' /\ Leftover' /\ Marked' /\ Going'
  BY <1>1, <1>2 DEF Exact, Stays, Walk, Leftover, Gone, Marked, Going, Deferring, walk
<1>5. Within' /\ Served'
  BY <1>1, <1>2 DEF Within, Served, Ticks, Ahead, Deferring, clock, walk
<1> QED BY <1>1, <1>3, <1>4, <1>5 DEF Inv

LEMMA EditEnabledKeeps ==
  ASSUME Inv, NEW t \in Timers, EditEnabled(t)
  PROVE  Inv'
<1>1. /\ TypeOK /\ Once(vht) /\ Exact /\ Walk /\ Leftover /\ Marked /\ Going /\ Within /\ Served
      /\ enabled' = [enabled EXCEPT ![t] = ~ @] /\ edited' = edited \cup {t}
      /\ UNCHANGED <<now, clock, life, vht, changed, walk, deletion>>
  BY DEF Inv, EditEnabled
<1>2. Coming' = Coming
  BY <1>1, SameComing DEF walk
<1>3. enabled' \in [Timers -> BOOLEAN] /\ \A u \in Timers : u # t => enabled'[u] = enabled[u]
  BY <1>1 DEF TypeOK
<1>4. TypeOK'
  BY <1>1, <1>3 DEF TypeOK, clock, life, walk
<1>5. Exact'
  BY <1>1, <1>2, <1>3 DEF Exact, Stays, life
<1>6. Walk' /\ Leftover' /\ Marked' /\ Going'
  BY <1>1, <1>3 DEF Walk, Leftover, Gone, Marked, Going, Deferring, life, walk
<1>7. Within' /\ Served'
  BY <1>1, <1>2 DEF Within, Served, Ticks, Ahead, Deferring, clock, life, walk
<1> QED BY <1>1, <1>4, <1>5, <1>6, <1>7 DEF Inv

-----------------------------------------------------------------------------
(* The render thread's steps.                                                *)

LEMMA DeleteBeginsKeeps ==
  ASSUME Inv, NEW t \in Timers, DeleteBegins(t)
  PROVE  Inv'
<1>1. /\ TypeOK /\ Once(vht) /\ Exact /\ Walk /\ Leftover /\ Marked /\ Going /\ Within /\ Served
      /\ t \in alive /\ t \in Parts /\ deletion[t] = "none"
      /\ deletion' = [deletion EXCEPT ![t] = IF enabled[t] THEN "look" ELSE "free"]
      /\ UNCHANGED <<now, enabled, clock, life, vht, changed, walk, edited>>
  BY DEF Inv, DeleteBegins, Goes
<1>2. Coming' = Coming
  BY <1>1, SameComing DEF walk
<1>3. /\ deletion' \in [Timers -> {"none", "look", "note", "erase", "free"}]
      /\ deletion'[t] = IF enabled[t] THEN "look" ELSE "free"
      /\ \A u \in Timers : u # t => deletion'[u] = deletion[u]
  BY <1>1 DEF TypeOK
<1>4. TypeOK'
  BY <1>1, <1>3 DEF TypeOK, clock, life, walk
<1>5. Exact'
  BY <1>1, <1>2, <1>3 DEF Exact, Stays, life
<1>6. Walk' /\ Leftover' /\ Marked' /\ Going'
  <2>1. Walk' /\ Marked'
    BY <1>1, <1>3 DEF Walk, Marked, Deferring, walk
  <2>2. ASSUME NEW u, Gone(u) PROVE Gone(u)'
    BY <1>1, <1>3, <2>2 DEF Gone, life, Timers
  <2>3. Leftover'
    BY <1>1, <2>2 DEF Leftover, walk
  <2>4. Going'
    BY <1>1, <1>3 DEF Going, life
  <2> QED BY <2>1, <2>3, <2>4
<1>7. Within' /\ Served'
  <2>1. \A u \in Timers : Ticks(u)' => Ticks(u)
    BY <1>1, <1>2, <1>3 DEF Ticks, clock, life
  <2> QED BY <1>1, <2>1 DEF Within, Served, Ahead, Deferring, clock, walk
<1> QED BY <1>1, <1>4, <1>5, <1>6, <1>7 DEF Inv

LEMMA DeleteLooksKeeps ==
  ASSUME Inv, NEW t \in Timers, DeleteLooks(t)
  PROVE  Inv'
<1>1. /\ TypeOK /\ Once(vht) /\ Exact /\ Walk /\ Leftover /\ Marked /\ Going /\ Within /\ Served
      /\ deletion[t] = "look"
      /\ deletion' = [deletion EXCEPT ![t] = IF Deferring THEN "note" ELSE "erase"]
      /\ nextfire' = IF Deferring THEN [nextfire EXCEPT ![t] = DeferredTime] ELSE nextfire
      /\ UNCHANGED <<now, enabled, interval, life, vht, changed, walk, edited>>
  BY DEF Inv, DeleteLooks, Goes
<1>2. Coming' = Coming
  BY <1>1, SameComing DEF walk
<1>3. /\ deletion' \in [Timers -> {"none", "look", "note", "erase", "free"}]
      /\ deletion'[t] = IF Deferring THEN "note" ELSE "erase"
      /\ \A u \in Timers : u # t => deletion'[u] = deletion[u]
  BY <1>1 DEF TypeOK
<1>4. /\ nextfire' \in [Timers -> 0 .. Modulus - 1]
      /\ \A u \in Timers : u # t => nextfire'[u] = nextfire[u]
  BY <1>1, DeferredTimeType DEF TypeOK
<1>5. TypeOK'
  BY <1>1, <1>3, <1>4 DEF TypeOK, life, walk
<1>6. Exact'
  BY <1>1, <1>2, <1>3 DEF Exact, Stays, life
<1>7. Walk' /\ Leftover' /\ Marked' /\ Going'
  <2>1. Walk'
    BY <1>1 DEF Walk, Deferring, walk
  <2>2. Marked'
    BY <1>1, <1>3 DEF Marked, Deferring, walk
  <2>3. Leftover'
    <3>1. ASSUME NEW u, Gone(u) PROVE Gone(u)'
      BY <1>1, <1>3, <3>1 DEF Gone, life, Timers, Going
    <3> QED BY <1>1, <3>1 DEF Leftover, walk
  <2>4. Going'
    BY <1>1, <1>3 DEF Going, life
  <2> QED BY <2>1, <2>2, <2>3, <2>4
<1>8. Within' /\ Served'
  <2>1. OthersKept(t) /\ ~ Ticks(t)'
    BY <1>1, <1>2, <1>3, <1>4 DEF OthersKept, Ticks, life
  <2> QED BY <1>1, <2>1, OneTimer
<1> QED BY <1>1, <1>5, <1>6, <1>7, <1>8 DEF Inv

\* The timer is taken off the list, or is going to be.
LEMMA TakenOff ==
  ASSUME Inv, NEW t \in Timers, deletion[t] # "none",
         deletion' = [deletion EXCEPT ![t] = "free"],
         \A u \in Timers : u # t => (Listed(Coming, u)' <=> Listed(Coming, u)),
         t \notin edited' => ~ Listed(Coming, t)',
         edited \subseteq edited', edited' \subseteq edited \cup {t},
         UNCHANGED <<now, enabled, clock, life>>
  PROVE  /\ deletion' \in [Timers -> {"none", "look", "note", "erase", "free"}]
         /\ edited' \subseteq Timers
         /\ Exact' /\ Going' /\ Within' /\ OthersKept(t) /\ ~ Ticks(t)'
         /\ Gone(t)' /\ \A u : Gone(u) => Gone(u)'
         /\ \A u \in Timers : deletion'[u] = "note" => deletion[u] = "note"
<1>1. TypeOK /\ Exact /\ Going /\ Within
  BY DEF Inv
<1>2. /\ deletion' \in [Timers -> {"none", "look", "note", "erase", "free"}]
      /\ deletion'[t] = "free" /\ \A u \in Timers : u # t => deletion'[u] = deletion[u]
  BY <1>1 DEF TypeOK
<1>3. t \in Parts /\ t \in alive /\ UNCHANGED <<alive, nextfire, interval>>
  BY <1>1 DEF Going, life, clock
<1>4. edited' \subseteq Timers
  BY <1>1 DEF TypeOK
<1>5. Exact'
  BY <1>1, <1>2, <1>3 DEF Exact, Stays
<1>6. Going'
  BY <1>1, <1>2, <1>3 DEF Going
<1>7. OthersKept(t) /\ ~ Ticks(t)'
  BY <1>2, <1>3 DEF OthersKept, Ticks
<1>8. Within'
  BY <1>1, <1>3, <1>7 DEF Within, OthersKept
<1>9. Gone(t)' /\ \A u : Gone(u) => Gone(u)'
  BY <1>2, <1>3 DEF Gone, Timers
<1> QED BY <1>2, <1>4, <1>5, <1>6, <1>7, <1>8, <1>9

LEMMA DeleteNotesKeeps ==
  ASSUME Inv, NEW t \in Timers, DeleteNotes(t)
  PROVE  Inv'
<1> DEFINE c == [timer |-> t, enabled |-> FALSE]
<1>1. /\ TypeOK /\ Once(vht) /\ Walk /\ Leftover /\ Marked /\ Within /\ Served
      /\ deletion[t] = "note" /\ deletion' = [deletion EXCEPT ![t] = "free"]
      /\ changed' = Append(changed, c)
      /\ UNCHANGED <<now, enabled, clock, life, vht, walk, edited>>
  BY DEF Inv, DeleteNotes, Goes
<1>2. c \in Change /\ c.timer = t /\ c.enabled = FALSE
  BY DEF Change
<1> HIDE DEF c
<1>3. changed \in Seq(Change) /\ changed' \in Seq(Change) /\ UNCHANGED <<vht, stage, pass>>
  BY <1>1, <1>2 DEF TypeOK, walk
<1>4. /\ \A u \in Timers : u # t => (Listed(Coming, u)' <=> Listed(Coming, u))
      /\ t \notin edited' => ~ Listed(Coming, t)'
  <2>1. CASE stage = "clear"
    <3>1. Coming' = Coming
      BY <1>3, <2>1 DEF Coming
    <3>2. t \in edited'
      BY <1>1, <2>1 DEF Marked
    <3> QED BY <3>1, <3>2
  <2>2. CASE stage # "clear"
    <3>1. \A u : Listed(Coming, u)' <=> IF u = c.timer THEN c.enabled ELSE Listed(Coming, u)
      BY <1>1, <1>2, <1>3, <2>2, OneMoreChange
    <3> QED BY <1>2, <3>1
  <2> QED BY <2>1, <2>2
<1>5. edited' = edited /\ deletion[t] # "none"
  BY <1>1
<1>6. /\ deletion' \in [Timers -> {"none", "look", "note", "erase", "free"}]
      /\ Exact' /\ Going' /\ Within' /\ OthersKept(t) /\ ~ Ticks(t)'
      /\ Gone(t)' /\ \A u : Gone(u) => Gone(u)'
      /\ \A u \in Timers : deletion'[u] = "note" => deletion[u] = "note"
  BY <1>1, <1>4, <1>5, TakenOff
<1>7. TypeOK'
  BY <1>1, <1>3, <1>6 DEF TypeOK, clock, life, walk
<1>8. Walk' /\ Marked'
  BY <1>1, <1>6 DEF Walk, Marked, Deferring, walk
<1>9. Leftover'
  <2> SUFFICES ASSUME pass = "idle", NEW i \in DOMAIN changed'
               PROVE  (changed[i].timer \in edited /\ Gone(changed[i].timer))'
    BY <1>1, <1>3 DEF Leftover
  <2>1. t \in edited
    BY <1>1 DEF Marked
  <2>2. (i \in DOMAIN changed /\ changed'[i] = changed[i]) \/ changed'[i] = c
    BY <1>1, <1>3
  <2>3. \A j \in DOMAIN changed : changed[j].timer \in edited /\ Gone(changed[j].timer)
    BY <1>1 DEF Leftover
  <2>4. PICK u : u = changed'[i].timer
    OBVIOUS
  <2>5. u = t \/ (u \in edited /\ Gone(u))
    BY <1>2, <2>2, <2>3, <2>4
  <2>6. u \in edited /\ Gone(u)'
    BY <1>6, <2>1, <2>5
  <2> QED BY <1>5, <2>4, <2>6 DEF Gone
<1>10. Served'
  BY <1>1, <1>3, <1>6, OneTimer
<1> QED BY <1>1, <1>6, <1>7, <1>8, <1>9, <1>10 DEF Inv

LEMMA DeleteErasesKeeps ==
  ASSUME Inv, NEW t \in Timers, DeleteErases(t)
  PROVE  Inv'
<1>1. /\ TypeOK /\ Once(vht) /\ Walk /\ Leftover /\ Marked /\ Within /\ Served
      /\ deletion[t] = "erase" /\ deletion' = [deletion EXCEPT ![t] = "free"]
      /\ Listed(vht, t) /\ vht' = Erased(vht, t)
      /\ beyond' = IF Deferring THEN <<Last(vht)>> ELSE beyond
      /\ edited' = IF Waits(t) THEN edited \cup {t} ELSE edited
      /\ UNCHANGED <<now, enabled, clock, life, changed, pass, stage, at, firing, cur>>
  BY DEF Inv, DeleteErases, Goes
<1>2. vht \in Seq(Timers)
  BY <1>1 DEF TypeOK
<1>3. /\ vht' \in Seq(Timers) /\ Once(vht')
      /\ \A u : Listed(vht', u) <=> Listed(vht, u) /\ u # t
  <2>1. PICK r : r = vht'
    OBVIOUS
  <2>2. r \in Seq(Timers) /\ \A u : Listed(r, u) <=> Listed(vht, u) /\ u # t
    BY <1>1, <1>2, <2>1, ErasedProps
  <2>3. Once(r)
    BY <1>1, <1>2, <2>1, KeptOnce DEF Erased
  <2> QED BY <2>1, <2>2, <2>3
<1>4. beyond' \in Seq(Timers)
  <2>1. vht # <<>>
    BY <1>1 DEF Listed
  <2>2. Last(vht) \in Timers
    BY <1>2, <2>1 DEF Last
  <2> QED BY <1>1, <2>2 DEF TypeOK
<1>5. UNCHANGED <<changed, stage>>
  BY <1>1
<1>6. /\ \A u \in Timers : u # t => (Listed(Coming, u)' <=> Listed(Coming, u))
      /\ t \notin edited' => ~ Listed(Coming, t)'
  <2>1. \A u \in Timers : u # t => (Listed(Coming, u)' <=> Listed(Coming, u))
    BY <1>1, <1>3, <1>5, ComingOfOthers
  <2>2. ASSUME t \notin edited' PROVE ~ Listed(Coming, t)'
    <3>1. stage # "clear" => \A i \in DOMAIN changed : changed[i].timer # t
      BY <1>1, <2>2 DEF Waits
    <3> QED BY <1>1, <1>3, <1>5, <3>1, ComingOfIt
  <2> QED BY <2>1, <2>2
<1>7. edited \subseteq edited' /\ edited' \subseteq edited \cup {t} /\ deletion[t] # "none"
  BY <1>1
<1>8. /\ deletion' \in [Timers -> {"none", "look", "note", "erase", "free"}]
      /\ edited' \subseteq Timers
      /\ Exact' /\ Going' /\ Within' /\ OthersKept(t) /\ ~ Ticks(t)'
      /\ Gone(t)' /\ \A u : Gone(u) => Gone(u)'
      /\ \A u \in Timers : deletion'[u] = "note" => deletion[u] = "note"
  BY <1>1, <1>6, <1>7, TakenOff
<1>9. TypeOK'
  BY <1>1, <1>3, <1>4, <1>8 DEF TypeOK, clock, life
<1>10. Walk'
  BY <1>1 DEF Walk, Deferring
<1>11. Leftover' /\ Marked'
  BY <1>1, <1>7, <1>8 DEF Leftover, Marked
<1>12. Served'
  <2> SUFFICES ASSUME pass = "timer", beyond' = <<>>, NEW u \in Timers, Ticks(u)'
               PROVE  now < nextfire[u]
    BY <1>1 DEF Served, clock
  <2>1. ~ Deferring /\ beyond = <<>>
    BY <1>1
  <2>2. Ticks(u)
    BY <1>8 DEF OthersKept
  <2> QED BY <1>1, <2>1, <2>2 DEF Served
<1> QED BY <1>3, <1>8, <1>9, <1>10, <1>11, <1>12 DEF Inv

LEMMA DeleteFreesKeeps ==
  ASSUME Inv, NEW t \in Timers, DeleteFrees(t)
  PROVE  Inv'
<1>1. /\ TypeOK /\ Once(vht) /\ Exact /\ Walk /\ Leftover /\ Marked /\ Going /\ Within /\ Served
      /\ deletion[t] = "free" /\ deletion' = [deletion EXCEPT ![t] = "none"]
      /\ alive' = alive \ {t}
      /\ UNCHANGED <<now, enabled, clock, dying, vht, changed, walk, edited>>
  BY DEF Inv, DeleteFrees, Goes
<1>2. Coming' = Coming
  BY <1>1, SameComing DEF walk
<1>3. /\ deletion' \in [Timers -> {"none", "look", "note", "erase", "free"}]
      /\ deletion'[t] = "none" /\ \A u \in Timers : u # t => deletion'[u] = deletion[u]
  BY <1>1 DEF TypeOK
<1>4. t \in Parts /\ t \notin Balls
  BY <1>1, BallsNew DEF Going
<1>5. TypeOK'
  <2>1. dying' \subseteq alive' \cap Balls /\ alive' \subseteq Timers
    BY <1>1, <1>4 DEF TypeOK
  <2> QED BY <1>1, <1>3, <2>1 DEF TypeOK, clock, walk
<1>6. Exact'
  BY <1>1, <1>2, <1>3 DEF Exact, Stays
<1>7. Walk' /\ Leftover' /\ Marked' /\ Going'
  <2>1. Walk' /\ Marked'
    BY <1>1, <1>3 DEF Walk, Marked, Deferring, walk
  <2>2. ASSUME NEW u, Gone(u) PROVE Gone(u)'
    BY <1>1, <1>3, <2>2 DEF Gone, Timers
  <2>3. Leftover'
    BY <1>1, <2>2 DEF Leftover, walk
  <2>4. Going'
    BY <1>1, <1>3 DEF Going
  <2> QED BY <2>1, <2>3, <2>4
<1>8. Within' /\ Served'
  <2>1. \A u \in Timers : Ticks(u)' => Ticks(u)
    BY <1>1, <1>2, <1>3 DEF Ticks, clock
  <2> QED BY <1>1, <2>1 DEF Within, Served, Ahead, Deferring, clock, walk
<1> QED BY <1>1, <1>5, <1>6, <1>7, <1>8 DEF Inv

LEMMA EndOfFrameDeleteKeeps ==
  ASSUME Inv, NEW t \in Timers, EndOfFrameDelete(t)
  PROVE  Inv'
BY DeleteBeginsKeeps, DeleteLooksKeeps, DeleteNotesKeeps, DeleteErasesKeeps, DeleteFreesKeeps
   DEF EndOfFrameDelete

-----------------------------------------------------------------------------
(* The passes.                                                               *)

LEMMA BeginKeeps ==
  ASSUME Inv, NEW mode \in {"timer", "frame", "sync"}, pass = "idle", Begin(mode),
         now' \in 0 .. MaxTime, now <= now',
         UNCHANGED <<enabled, clock, life, vht, changed, deletion, edited>>
  PROVE  Inv'
<1>1. /\ TypeOK /\ Once(vht) /\ Exact /\ Walk /\ Leftover /\ Marked /\ Going /\ Within
      /\ pass' = mode /\ at' = 1 /\ beyond' = <<>>
      /\ stage' = stage /\ firing' = firing /\ cur' = cur
      /\ nextfire' = nextfire /\ interval' = interval /\ alive' = alive /\ dying' = dying
  BY DEF Inv, Begin, clock, life
<1>2. Coming' = Coming
  BY <1>1, SameComing
<1>3. firing = {} /\ stage = "walk" /\ pass' # "idle"
  BY <1>1 DEF Walk, Deferring
<1>4. TypeOK'
  BY <1>1 DEF TypeOK
<1>5. Exact'
  BY <1>1, <1>2 DEF Exact, Stays
<1>6. Walk' /\ Leftover' /\ Marked' /\ Going'
  BY <1>1, <1>3 DEF Walk, Leftover, Marked, Going
<1>7. \A t \in Timers : Ticks(t)' <=> Ticks(t)
  BY <1>1, <1>2 DEF Ticks
<1>8. Within'
  <2>1. now \in Int /\ now' \in Int
    BY <1>1, BoundsNat DEF TypeOK
  <2> SUFFICES ASSUME NEW t \in Timers, Ticks(t)
               PROVE  nextfire'[t] <= now' + interval'[t]
    BY <1>7 DEF Within
  <2>2. interval[t] \in Int /\ nextfire[t] \in Int
    BY <1>1, BoundsNat, IntervalType DEF TypeOK
  <2>3. nextfire[t] <= now + interval[t]
    BY <1>1 DEF Within
  <2> QED BY <1>1, <2>1, <2>2, <2>3
<1>9. Served'
  <2> SUFFICES ASSUME NEW t \in Timers, Ticks(t)
               PROVE  Deferring' /\ Ahead(t)'
    BY <1>7 DEF Served
  <2>1. ~ Gone(t) /\ Listed(Coming, t)
    BY DEF Gone, Ticks
  <2>2. Listed(vht, t)
    BY <1>1, <2>1, IdleListed
  <2>3. PICK i \in DOMAIN vht : vht[i] = t
    BY <2>2 DEF Listed
  <2>4. 1 <= i
    BY <1>1 DEF TypeOK
  <2> QED BY <1>1, <1>3, <2>3, <2>4 DEF Ahead, Deferring
<1> QED BY <1>1, <1>4, <1>5, <1>6, <1>8, <1>9 DEF Inv

LEMMA PhysicsStepKeeps ==
  ASSUME Inv, PhysicsStep
  PROVE  Inv'
<1>1. /\ TypeOK /\ Once(vht) /\ Exact /\ Walk /\ Leftover /\ Marked /\ Going /\ Within
      /\ pass = "idle" /\ now < MaxTime /\ now' = now + 1
      /\ Begin("timer") \/ UNCHANGED walk
      /\ UNCHANGED <<enabled, clock, life, vht, changed, deletion, edited>>
  BY DEF Inv, PhysicsStep
<1>2. now \in Nat /\ now' \in 0 .. MaxTime /\ now <= now'
  BY <1>1, BoundsNat DEF TypeOK
<1>3. CASE Begin("timer")
  BY <1>1, <1>2, <1>3, BeginKeeps
<1>4. CASE UNCHANGED walk
  <2>1. Coming' = Coming
    BY <1>1, <1>4, SameComing DEF walk
  <2>2. TypeOK'
    BY <1>1, <1>2, <1>4 DEF TypeOK, clock, life, walk
  <2>3. Exact' /\ Walk' /\ Leftover' /\ Marked' /\ Going'
    BY <1>1, <1>4, <2>1 DEF Exact, Stays, Walk, Leftover, Gone, Marked, Going, Deferring, life, walk
  <2>4. Within'
    <3> SUFFICES ASSUME NEW t \in Timers, Ticks(t)'
                 PROVE  nextfire'[t] <= now' + interval'[t]
      BY DEF Within
    <3>1. interval[t] \in Int /\ nextfire[t] \in Int
      BY <1>1, BoundsNat, IntervalType DEF TypeOK
    <3>2. nextfire[t] <= now + interval[t]
      BY <1>1, <2>1 DEF Within, Ticks, clock, life
    <3> QED BY <1>1, <1>2, <3>1, <3>2 DEF clock
  <2>5. Served'
    BY <1>1, <1>4 DEF Served, walk
  <2> QED BY <1>1, <2>2, <2>3, <2>4, <2>5 DEF Inv
<1> QED BY <1>1, <1>3, <1>4

LEMMA FireTimersKeeps ==
  ASSUME Inv, NEW mode \in {"frame", "sync"}, FireTimers(mode)
  PROVE  Inv'
<1>1. /\ pass = "idle" /\ Begin(mode) /\ now' = now
      /\ UNCHANGED <<enabled, clock, life, vht, changed, deletion, edited>>
  BY DEF FireTimers
<1>2. now' \in 0 .. MaxTime /\ now <= now'
  BY <1>1, BoundsNat DEF Inv, TypeOK
<1> QED BY <1>1, <1>2, BeginKeeps

\* A pass goes over the list, unless the render thread shortened it.
LEMMA WalkedProps ==
  ASSUME TypeOK
  PROVE  Walked \in Seq(Timers) /\ (beyond = <<>> => Walked = vht)
BY ConcatProperties, ConcatEmptySeq DEF Walked, TypeOK

LEMMA VisitKeeps ==
  ASSUME Inv, Visit
  PROVE  Inv'
<1> DEFINE w == Walked[at]
<1>1. /\ TypeOK /\ Once(vht) /\ Exact /\ Walk /\ Leftover /\ Marked /\ Going /\ Within /\ Served
      /\ pass # "idle" /\ stage = "walk" /\ firing = {} /\ at <= Len(Walked)
      /\ UNCHANGED <<now, enabled, clock, life, vht, changed, pass, stage, beyond, deletion, edited>>
      /\ IF Due(w) THEN firing' = {w} /\ cur' = nextfire[w] /\ at' = at
                   ELSE at' = at + 1 /\ firing' = firing /\ cur' = cur
  BY DEF Inv, Visit, Deferring
<1>2. Coming' = Coming
  BY <1>1, SameComing
<1>3. at \in Nat \ {0} /\ at \in DOMAIN Walked /\ w \in Timers /\ (beyond = <<>> => Walked = vht)
  <2>1. Walked \in Seq(Timers) /\ (beyond = <<>> => Walked = vht)
    BY <1>1, WalkedProps
  <2>2. at \in Nat \ {0}
    BY <1>1 DEF TypeOK
  <2> QED BY <1>1, <2>1, <2>2
<1>4. /\ nextfire' = nextfire /\ interval' = interval
      /\ alive' = alive /\ dying' = dying /\ Deferring /\ Deferring'
  BY <1>1 DEF clock, life, Deferring
<1>5. beyond = <<>> => at \in DOMAIN vht /\ w = vht[at]
  BY <1>3
<1> HIDE DEF w
<1>6. Exact' /\ Within' /\ Leftover' /\ Marked' /\ Going'
  BY <1>1, <1>2, <1>4 DEF Exact, Stays, Within, Ticks, Leftover, Marked, Going
<1>7. \A t \in Timers : Ticks(t)' <=> Ticks(t)
  BY <1>1, <1>2, <1>4 DEF Ticks
<1>8. CASE Due(w)
  <2>1. firing' = {w} /\ cur' = nextfire[w] /\ at' = at
    BY <1>1, <1>8
  <2>2. cur' \in 0 .. Modulus - 1 /\ firing' \subseteq Timers
    BY <1>1, <1>3, <2>1 DEF TypeOK
  <2>3. TypeOK'
    BY <1>1, <1>4, <2>1, <2>2 DEF TypeOK
  <2>4. Walk'
    BY <1>1, <1>4, <1>5, <2>1 DEF Walk
  <2>5. Served'
    <3> SUFFICES ASSUME pass = "timer", beyond = <<>>, NEW t \in Timers, Ticks(t)
                 PROVE  now < nextfire[t] \/ Ahead(t)'
      BY <1>1, <1>4, <1>7 DEF Served
    <3>1. now < nextfire[t] \/ Ahead(t)
      BY <1>1 DEF Served
    <3> QED BY <1>1, <1>4, <1>5, <2>1, <3>1 DEF Ahead
  <2> QED BY <1>1, <1>6, <2>3, <2>4, <2>5 DEF Inv
<1>9. CASE ~ Due(w)
  <2>1. firing' = firing /\ cur' = cur /\ at' = at + 1
    BY <1>1, <1>9
  <2>2. at' \in Nat \ {0}
    BY <1>3, <2>1
  <2>3. TypeOK'
    BY <1>1, <1>4, <2>1, <2>2 DEF TypeOK
  <2>4. Walk'
    BY <1>1, <2>1 DEF Walk
  <2>5. Served'
    <3> SUFFICES ASSUME pass = "timer", beyond = <<>>, NEW t \in Timers, Ticks(t)
                 PROVE  now < nextfire[t] \/ Ahead(t)'
      BY <1>1, <1>4, <1>7 DEF Served
    <3>1. now < nextfire[t] \/ Ahead(t)
      BY <1>1 DEF Served
    <3>2. ASSUME Ahead(t) PROVE now < nextfire[t] \/ Ahead(t)'
      <4>1. PICK i \in DOMAIN vht : vht[i] = t /\ at <= i
        BY <3>2 DEF Ahead
      <4>2. i \in Nat
        BY <1>1 DEF TypeOK
      <4>3. CASE at < i
        <5>1. at' <= i
          BY <1>3, <2>1, <4>2, <4>3
        <5> QED BY <1>1, <2>1, <4>1, <5>1 DEF Ahead
      <4>4. CASE at = i
        <5>1. ~ (nextfire[t] <= now)
          <6>1. w = t /\ interval[t] > 0
            BY <1>5, <4>1, <4>4 DEF Ticks
          <6>2. interval[t] \in Int
            BY <1>1, IntervalType DEF TypeOK
          <6>3. Due(t) <=> interval[t] >= 0 /\ nextfire[t] <= now
            BY DEF Due
          <6> QED BY <1>9, <6>1, <6>2, <6>3
        <5>2. nextfire[t] \in Nat /\ now \in Nat
          BY <1>1, BoundsNat DEF TypeOK
        <5> QED BY <5>1, <5>2
      <4> QED BY <1>3, <4>1, <4>2, <4>3, <4>4
    <3> QED BY <3>1, <3>2
  <2> QED BY <1>1, <1>6, <2>3, <2>4, <2>5 DEF Inv
<1> QED BY <1>8, <1>9

LEMMA HandlerReturnKeeps ==
  ASSUME Inv, NEW h \in Timers, HandlerReturn(h)
  PROVE  Inv'
<1>1. /\ TypeOK /\ Once(vht) /\ Exact /\ Walk /\ Leftover /\ Marked /\ Going /\ Within /\ Served
      /\ h \in firing /\ firing' = {} /\ cur' = 0 /\ at' = at + 1
      /\ UNCHANGED <<now, enabled, interval, life, vht, changed, pass, stage, beyond, deletion, edited>>
      /\ nextfire' = IF pass = "timer" /\ cur = nextfire[h] /\ interval[h] > 0
                     THEN [nextfire EXCEPT ![h] = CatchUp(@, interval[h])]
                     ELSE nextfire
  BY DEF Inv, HandlerReturn
<1>2. Coming' = Coming
  BY <1>1, SameComing
<1>3. /\ at \in Nat \ {0} /\ Deferring /\ Deferring'
      /\ beyond = <<>> => at \in DOMAIN vht /\ h = vht[at]
  BY <1>1 DEF TypeOK, Walk, Deferring
<1>4. /\ Modulus \in Nat \ {0} /\ MaxTime \in Nat /\ now \in Nat /\ now <= MaxTime
      /\ \A t \in Timers : nextfire[t] \in Nat /\ nextfire[t] < Modulus
      /\ nextfire \in [Timers -> 0 .. Modulus - 1]
  BY <1>1, BoundsNat DEF TypeOK
<1>5. \A t \in Timers : interval[t] \in Int /\ (interval[t] > 0 => MaxTime + interval[t] < Modulus)
  BY <1>1, IntervalType DEF TypeOK
\* What the handler's timer has now.
<1>6. /\ nextfire' \in [Timers -> 0 .. Modulus - 1]
      /\ \A t \in Timers : nextfire'[t] = nextfire[t] \/
           (interval[t] > 0 /\ now < nextfire'[t] /\ nextfire'[t] <= now + interval[t])
      /\ pass = "timer" /\ cur = nextfire[h] /\ interval[h] > 0 => now < nextfire'[h]
  <2>1. CASE pass = "timer" /\ cur = nextfire[h] /\ interval[h] > 0
    <3> DEFINE c == CatchUp(nextfire[h], interval[h])
    <3>1. c \in Nat /\ now < c /\ (c <= now + interval[h] \/ c = nextfire[h])
      <4>1. CASE nextfire[h] <= now
        <5>1. interval[h] \in Nat \ {0}
          BY <1>3, <1>5, <2>1
        <5>2. PICK n \in Nat : n = now
          BY <1>4
        <5>3. PICK f \in Nat : f = nextfire[h]
          BY <1>3, <1>4
        <5>4. PICK i \in Nat \ {0} : i = interval[h]
          BY <5>1
        <5>5. LET d == f + i * ((n - f) \div i + 1)
              IN  d \in Nat /\ n < d /\ d <= n + i
          BY <4>1, <5>2, <5>3, CatchUpBounds
        <5> QED BY <4>1, <5>2, <5>3, <5>4, <5>5 DEF CatchUp
      <4>2. CASE ~ (nextfire[h] <= now)
        BY <1>3, <1>4, <4>2 DEF CatchUp
      <4> QED BY <4>1, <4>2
    <3>2. nextfire' = [nextfire EXCEPT ![h] = c]
      BY <1>1, <2>1
    <3> HIDE DEF c
    <3>3. c \in 0 .. Modulus - 1
      BY <1>3, <1>4, <1>5, <2>1, <3>1
    <3>4. /\ nextfire' \in [Timers -> 0 .. Modulus - 1] /\ nextfire'[h] = c
          /\ \A t \in Timers : t # h => nextfire'[t] = nextfire[t]
      BY <1>3, <1>4, <3>2, <3>3
    <3>5. \A t \in Timers : nextfire'[t] = nextfire[t] \/
            (interval[t] > 0 /\ now < nextfire'[t] /\ nextfire'[t] <= now + interval[t])
      <4> TAKE t \in Timers
      <4>1. CASE t = h
        BY <2>1, <3>1, <3>4, <4>1
      <4> QED BY <3>4, <4>1
    <3> QED BY <3>1, <3>4, <3>5
  <2>2. CASE ~ (pass = "timer" /\ cur = nextfire[h] /\ interval[h] > 0)
    <3>1. nextfire' = nextfire
      BY <1>1, <2>2
    <3> QED BY <1>4, <2>2, <3>1
  <2> QED BY <2>1, <2>2
<1>7. TypeOK'
  <2>1. at' \in Nat \ {0} /\ cur' \in 0 .. Modulus - 1
    BY <1>1, <1>3, <1>4
  <2>2. firing' \subseteq Timers
    BY <1>1
  <2> QED BY <1>1, <1>6, <2>1, <2>2 DEF TypeOK, life
<1>8. Exact' /\ Walk' /\ Leftover' /\ Marked' /\ Going'
  BY <1>1, <1>2, <1>3 DEF Exact, Stays, Walk, Leftover, Gone, Marked, Going, life
<1>9. \A t \in Timers : Ticks(t)' <=> Ticks(t)
  BY <1>1, <1>2 DEF Ticks, life
<1>10. Within'
  <2> SUFFICES ASSUME NEW t \in Timers, Ticks(t)
               PROVE  nextfire'[t] <= now + interval[t]
    BY <1>1, <1>9 DEF Within
  <2>1. nextfire[t] <= now + interval[t]
    BY <1>1 DEF Within
  <2> QED BY <1>6, <2>1
<1>11. Served'
  <2> SUFFICES ASSUME pass = "timer", beyond = <<>>, NEW t \in Timers, Ticks(t)
               PROVE  now < nextfire'[t] \/ Ahead(t)'
    BY <1>1, <1>3, <1>9 DEF Served
  <2>1. now < nextfire[t] \/ Ahead(t)
    BY <1>1 DEF Served
  <2>2. CASE now < nextfire[t]
    BY <1>6, <2>2
  <2>3. CASE Ahead(t)
    <3>1. PICK i \in DOMAIN vht : vht[i] = t /\ at <= i /\ (at = i => nextfire[t] = cur)
      BY <1>1, <2>3 DEF Ahead
    <3>2. i \in Nat
      BY <1>1 DEF TypeOK
    <3>3. CASE at < i
      <4>1. at' <= i /\ firing' = {} /\ vht' = vht
        BY <1>1, <1>3, <3>2, <3>3
      <4> QED BY <3>1, <4>1 DEF Ahead
    <3>4. CASE at = i
      <4>1. t = h /\ interval[t] > 0 /\ cur = nextfire[h]
        BY <1>3, <3>1, <3>4 DEF Ticks
      <4> QED BY <1>6, <4>1
    <3> QED BY <1>3, <3>1, <3>2, <3>3, <3>4
  <2> QED BY <2>1, <2>2, <2>3
<1> QED BY <1>1, <1>7, <1>8, <1>10, <1>11 DEF Inv

LEMMA EndDeferringKeeps ==
  ASSUME Inv, EndDeferring
  PROVE  Inv'
<1>1. /\ TypeOK /\ Once(vht) /\ Exact /\ Walk /\ Leftover /\ Marked /\ Going /\ Within /\ Served
      /\ pass # "idle" /\ stage = "walk" /\ stage' = "apply" /\ firing = {} /\ at > Len(Walked)
      /\ UNCHANGED <<now, enabled, clock, life, vht, changed, pass, at, beyond, firing, cur, deletion, edited>>
  BY DEF Inv, EndDeferring, Deferring
<1>2. Coming' = Coming
  BY <1>1 DEF Coming
<1>3. TypeOK'
  BY <1>1 DEF TypeOK, clock, life
<1>4. Exact' /\ Walk' /\ Leftover' /\ Marked' /\ Going' /\ Within'
  BY <1>1, <1>2 DEF Exact, Stays, Walk, Leftover, Marked, Going, Within, Ticks, clock, life
<1>5. Served'
  <2> SUFFICES ASSUME pass = "timer", beyond = <<>>, NEW t \in Timers, Ticks(t)
               PROVE  now < nextfire[t]
    BY <1>1, <1>2 DEF Served, Ticks, clock, life
  <2>1. now < nextfire[t] \/ Ahead(t)
    BY <1>1 DEF Served
  <2>2. ~ Ahead(t)
    <3>1. at > Len(vht) /\ at \in Nat /\ \A i \in DOMAIN vht : i \in Nat /\ i <= Len(vht)
      BY <1>1, WalkedProps DEF TypeOK
    <3>2. \A i \in DOMAIN vht : ~ (at <= i)
      BY <1>1, <3>1 DEF TypeOK
    <3> QED BY <3>2 DEF Ahead
  <2> QED BY <2>1, <2>2
<1> QED BY <1>1, <1>3, <1>4, <1>5 DEF Inv

LEMMA ApplyChangesKeeps ==
  ASSUME Inv, ApplyChanges
  PROVE  Inv'
<1>1. /\ TypeOK /\ Once(vht) /\ Exact /\ Walk /\ Going /\ Within /\ Served
      /\ stage = "apply" /\ stage' = "clear" /\ vht' = Applied(vht, changed)
      /\ edited' = edited \cup {t \in Timers : deletion[t] = "note"}
      /\ UNCHANGED <<now, enabled, clock, life, changed, pass, at, beyond, firing, cur, deletion>>
  BY DEF Inv, ApplyChanges
<1>2. pass # "idle" /\ ~ Deferring /\ firing = {}
  BY <1>1 DEF Walk, Deferring
<1>3. Coming' = Coming
  BY <1>1 DEF Coming
<1>4. vht' \in Seq(Timers) /\ Once(vht')
  <2>1. vht \in Seq(Timers) /\ changed \in Seq(Change)
    BY <1>1 DEF TypeOK
  <2>2. PICK r : r = Applied(vht, changed)
    OBVIOUS
  <2>3. r \in Seq(Timers) /\ Once(r)
    BY <1>1, <2>1, <2>2, AppliedType
  <2> QED BY <1>1, <2>2, <2>3
<1>5. TypeOK'
  BY <1>1, <1>4 DEF TypeOK, clock, life
<1>6. Exact' /\ Walk' /\ Leftover' /\ Marked' /\ Going' /\ Within'
  BY <1>1, <1>2, <1>3 DEF Exact, Stays, Walk, Leftover, Marked, Going, Within, Ticks, clock, life
<1>7. Served'
  BY <1>1, <1>2, <1>3 DEF Served, Ticks, clock, life
<1> QED BY <1>4, <1>5, <1>6, <1>7 DEF Inv

LEMMA EndPassKeeps ==
  ASSUME Inv, EndPass
  PROVE  Inv'
<1>1. /\ TypeOK /\ Once(vht) /\ Exact /\ Walk /\ Marked /\ Going /\ Within
      /\ stage = "clear" /\ stage' = "walk" /\ changed' = <<>> /\ pass' = "idle"
      /\ UNCHANGED <<now, enabled, clock, life, vht, at, beyond, firing, cur, deletion, edited>>
  BY DEF Inv, EndPass
<1>2. Coming' = Coming
  BY <1>1, AppliedNone DEF Coming
<1>3. firing = {}
  BY <1>1 DEF Walk, Deferring
<1>4. TypeOK'
  BY <1>1 DEF TypeOK, clock, life
<1>5. Exact' /\ Walk' /\ Leftover' /\ Marked' /\ Going' /\ Within' /\ Served'
  BY <1>1, <1>2, <1>3
     DEF Exact, Stays, Walk, Leftover, Marked, Going, Within, Served, Ticks, clock, life
<1> QED BY <1>1, <1>4, <1>5 DEF Inv

LEMMA FinishFrameKeeps ==
  ASSUME Inv, FinishFrame
  PROVE  Inv'
<1>1. /\ TypeOK /\ Once(vht) /\ Exact /\ Walk /\ Leftover /\ Marked /\ Going /\ Within
      /\ pass = "idle" /\ alive' = alive \ dying /\ dying' = {}
      /\ vht' = Kept(vht, {i \in DOMAIN vht : ~ Released(vht[i])})
      /\ UNCHANGED <<now, enabled, clock, changed, walk, deletion, edited>>
  BY DEF Inv, FinishFrame
<1>2. vht \in Seq(Timers) /\ UNCHANGED <<pass, stage, changed>> /\ stage = "walk"
  BY <1>1 DEF Walk, TypeOK, walk
<1>3. /\ vht' \in Seq(Timers) /\ Once(vht')
      /\ \A t : Listed(vht', t) <=> Listed(vht, t) /\ ~ Released(t)
  <2>1. PICK s : s = vht
    OBVIOUS
  <2>2. PICK I : I = {i \in DOMAIN vht : ~ Released(vht[i])}
    OBVIOUS
  <2>3. PICK k : k = vht'
    OBVIOUS
  <2>4. s \in Seq(Timers) /\ Once(s) /\ k = Kept(s, I)
    BY <1>1, <1>2, <2>1, <2>2, <2>3
  <2>5. k \in Seq(Timers) /\ Once(k)
    BY <2>4, KeptElements, KeptOnce
  <2>6. /\ \A j \in DOMAIN k : \E i \in DOMAIN s : i \in I /\ k[j] = s[i]
        /\ \A i \in DOMAIN s : i \in I => \E j \in DOMAIN k : k[j] = s[i]
    BY <2>4, KeptElements
  <2>7. \A i \in DOMAIN s : i \in I <=> ~ Released(s[i])
    BY <2>1, <2>2
  <2>8. \A t : Listed(k, t) <=> Listed(s, t) /\ ~ Released(t)
    BY <2>6, <2>7 DEF Listed
  <2> QED BY <2>1, <2>3, <2>5, <2>8
\* No change waits for a timer that is not gone.
<1>4. ASSUME NEW t \in Timers, t \notin edited \/ ~ Gone(t)
      PROVE  /\ Listed(Coming, t) <=> Listed(vht, t)
             /\ Listed(Coming, t)' <=> Listed(vht, t) /\ ~ Released(t)
  <2>1. /\ \A i \in DOMAIN changed : changed[i].timer # t
        /\ Listed(Coming, t) <=> Listed(vht, t)
    BY <1>1, <1>4, IdleListed
  <2>2. Listed(Coming, t)' <=> Listed(vht', t)
    BY <1>1, <1>2, <1>3, <2>1, ComingOfIt
  <2> QED BY <1>3, <2>1, <2>2
<1>5. TypeOK'
  BY <1>1, <1>3 DEF TypeOK, clock, walk
<1>6. Exact'
  BY <1>1, <1>4 DEF Exact, Stays, Released
<1>7. Walk' /\ Leftover' /\ Marked' /\ Going'
  <2>1. Walk' /\ Marked'
    BY <1>1 DEF Walk, Marked, Deferring, walk
  <2>2. Leftover'
    BY <1>1 DEF Leftover, Gone, walk
  <2>3. \A t \in Parts : t \notin dying
    BY <1>1, BallsNew DEF TypeOK
  <2>4. Going'
    BY <1>1, <2>3 DEF Going
  <2> QED BY <2>1, <2>2, <2>4
<1>8. Within'
  <2> SUFFICES ASSUME NEW t \in Timers, Ticks(t)' PROVE nextfire[t] <= now + interval[t]
    BY <1>1 DEF Within, clock
  <2>1. ~ Gone(t) /\ t \in alive /\ deletion[t] = "none" /\ interval[t] > 0
    BY <1>1 DEF Gone, Ticks, clock
  <2>2. Listed(Coming, t)
    BY <1>4, <2>1 DEF Ticks
  <2> QED BY <1>1, <2>1, <2>2 DEF Within, Ticks
<1>9. Served'
  BY <1>1 DEF Served, walk
<1> QED BY <1>3, <1>5, <1>6, <1>7, <1>8, <1>9 DEF Inv

LEMMA StutterKeeps ==
  ASSUME Inv, UNCHANGED vars
  PROVE  Inv'
<1>1. /\ UNCHANGED <<now, enabled, nextfire, interval, alive, dying, vht, changed>>
      /\ UNCHANGED <<pass, stage, at, beyond, firing, cur, deletion, edited>>
  BY DEF vars, clock, life, walk
<1>2. Coming' = Coming
  BY <1>1, SameComing
<1>3. TypeOK' /\ Once(vht)'
  BY <1>1 DEF Inv, TypeOK, Once
<1>4. Exact' /\ Walk' /\ Leftover' /\ Marked' /\ Going'
  BY <1>1, <1>2 DEF Inv, Exact, Stays, Walk, Leftover, Gone, Marked, Going, Deferring
<1>5. Within' /\ Served'
  BY <1>1, <1>2 DEF Inv, Within, Served, Ticks, Ahead, Deferring
<1> QED BY <1>3, <1>4, <1>5 DEF Inv

\* Inv holds at the start and every step keeps it.
LEMMA Invariance == Spec => []Inv
<1>1. Init => Inv
  BY Initially
<1>2. Inv /\ [Next]_vars => Inv'
  <2> SUFFICES ASSUME Inv, [Next]_vars PROVE Inv'
    OBVIOUS
  <2>1. CASE PhysicsStep
    BY <2>1, PhysicsStepKeeps
  <2>2. CASE \E mode \in {"frame", "sync"} : FireTimers(mode)
    BY <2>2, FireTimersKeeps
  <2>3. CASE Visit
    BY <2>3, VisitKeeps
  <2>4. CASE \E t \in Timers : HandlerReturn(t)
    BY <2>4, HandlerReturnKeeps
  <2>5. CASE EndDeferring \/ ApplyChanges \/ EndPass
    BY <2>5, EndDeferringKeeps, ApplyChangesKeeps, EndPassKeeps
  <2>6. CASE FinishFrame
    BY <2>6, FinishFrameKeeps
  <2>7. CASE \E t \in Timers, b \in BOOLEAN : PutTimerEnabled(t, b)
    BY <2>7, PutTimerEnabledKeeps
  <2>8. CASE \E t \in Timers, i \in Intervals : PutTimerInterval(t, i)
    BY <2>8, PutTimerIntervalKeeps
  <2>9. CASE \E t \in Timers : EditEnabled(t)
    BY <2>9, EditEnabledKeeps
  <2>10. CASE \E t \in Timers : EndOfFrameDelete(t)
    BY <2>10, EndOfFrameDeleteKeeps
  <2>11. CASE \E b \in Balls, i \in Intervals : CreateBall(b, i)
    BY <2>11, CreateBallKeeps
  <2>12. CASE \E b \in Balls : DestroyBall(b)
    BY <2>12, DestroyBallKeeps
  <2>13. CASE UNCHANGED vars
    BY <2>13, StutterKeeps
  <2> QED BY <2>1, <2>2, <2>3, <2>4, <2>5, <2>6, <2>7, <2>8, <2>9, <2>10, <2>11, <2>12, <2>13
          DEF Next
<1> QED BY <1>1, <1>2, PTL DEF Spec

-----------------------------------------------------------------------------
(* The theorems.                                                             *)

\* All variables keep their types: fire times stay within the clock's width,
\* the list and the changes hold timers, and the balls that wait for their
\* release are alive.
THEOREM TypesKept == Spec => []TypeOK
<1>1. Inv => TypeOK
  BY DEF Inv
<1> QED BY <1>1, Invariance, PTL

\* Between the passes the list is that of the enabled timers, each once: in
\* Inv this is said of the list to come, which says the same of a timer that
\* no late change of the render thread is left for.
THEOREM ListStaysExact == Spec => []ListExact
<1>1. Inv => ListExact
  <2> SUFFICES ASSUME Inv, pass = "idle",  NEW t \in Timers \ edited
               PROVE  /\ Listed(vht, t) <=> Stays(t)
                      /\ \A i, j \in DOMAIN vht : vht[i] = t /\ vht[j] = t => i = j
    BY DEF ListExact
  <2>1. Listed(Coming, t) <=> Listed(vht, t)
    BY IdleListed DEF Inv
  <2>2. Listed(Coming, t) <=> Stays(t)
    BY DEF Inv, Exact
  <2>3. \A i, j \in DOMAIN vht : vht[i] = vht[j] => i = j
    BY DEF Inv, Once
  <2> QED BY <2>1, <2>2, <2>3
<1> QED BY <1>1, Invariance, PTL

\* A pass of a physics step leaves no timer due and none later than its
\* interval: a pass ends when it has come past every timer of the list, and
\* those that handlers enabled meanwhile count from now on.
THEOREM FireOnTime == Spec => OnTime
<1> DEFINE Timely ==
      (pass = "timer" /\ pass' = "idle" /\ beyond = <<>>) =>
        \A t \in alive : (Listed(vht', t) /\ deletion[t] = "none" /\ interval'[t] > 0) =>
          /\ now' < nextfire'[t]
          /\ nextfire'[t] <= now' + interval'[t]
<1>1. Inv /\ [Next]_vars => [Timely]_vars
  <2> SUFFICES ASSUME Inv, Next, pass = "timer", pass' = "idle", beyond = <<>>,
                      NEW t \in alive, Listed(vht', t), deletion[t] = "none", interval'[t] > 0
               PROVE  now' < nextfire'[t] /\ nextfire'[t] <= now' + interval'[t]
    OBVIOUS
  <2>1. EndPass
    BY DEF Next, PhysicsStep, FireTimers, Visit, HandlerReturn, EndDeferring, ApplyChanges,
           FinishFrame, PutTimerEnabled, PutTimerInterval, EditEnabled, EndOfFrameDelete,
           DeleteBegins, DeleteLooks, DeleteNotes, DeleteErases, DeleteFrees,
           CreateBall, DestroyBall, walk
  <2>2. /\ stage = "clear" /\ vht' = vht /\ now' = now
        /\ nextfire' = nextfire /\ interval' = interval
    BY <2>1 DEF EndPass, clock
  <2>3. t \in Timers /\ Ticks(t) /\ ~ Deferring
    BY <2>2 DEF Ticks, Coming, Deferring, Inv, TypeOK
  <2> QED BY <2>2, <2>3 DEF Inv, Within, Served
<1>2. Spec => [][Timely]_vars
  BY <1>1, Invariance, PTL DEF Spec
<1> QED BY <1>2 DEF OnTime
=============================================================================

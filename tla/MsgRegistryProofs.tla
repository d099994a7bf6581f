-------------------------- MODULE MsgRegistryProofs --------------------------
(* Proofs about MsgRegistry: its invariants hold for any finite set of       *)
(* clients and any names and callbacks, and it implements MsgBus.            *)
EXTENDS MsgRegistry, FiniteSetTheorems, SequenceTheorems, WellFoundedInduction, TLAPS

-----------------------------------------------------------------------------
(* Least and greatest elements: the operators CHOOSE the first or the last  *)
(* position of the table with some property.                                 *)

\* A nonempty set of naturals has a least element.
LEMMA LeastExists ==
  ASSUME NEW T \in SUBSET Nat, T # {}
  PROVE  \E x \in T : \A y \in T : x <= y
<1> DEFINE R == OpToRel(<, Nat)
<1>1. IsWellFoundedOn(R, Nat)
  BY NatLessThanWellFounded
<1>2. PICK x \in T : \A y \in T : ~ (<<y, x>> \in R)
  <2> HIDE DEF R
  <2> QED  BY <1>1, WFMin
<1>3. \A y \in T : <<y, x>> \in R <=> y < x
  BY DEF OpToRel
<1> HIDE DEF R
<1>4. \A y \in T : ~ (y < x)
  BY <1>2, <1>3
<1> QED  BY <1>4

\* A nonempty set of naturals with an upper bound has a greatest element.
LEMMA GreatestExists ==
  ASSUME NEW b \in Nat, NEW T \in SUBSET (0 .. b), T # {}
  PROVE  \E x \in T : \A y \in T : y <= x
<1> DEFINE U == {b - t : t \in T}
<1>1. U \in SUBSET Nat /\ U # {}
  <2>1. \A t \in T : t \in 0 .. b /\ b - t \in Nat
    OBVIOUS
  <2> QED  BY <2>1
<1>2. PICK u \in U : \A v \in U : u <= v
  BY <1>1, LeastExists
<1>3. PICK x \in T : u = b - x
  OBVIOUS
<1>4. \A y \in T : b - x <= b - y
  BY <1>2, <1>3
<1> QED  BY <1>4

-----------------------------------------------------------------------------
(* The operators on the table.                                               *)

\* Replacing an entry leaves the others and the length alone.
LEMMA ExceptEntry ==
  ASSUME NEW m \in Seq(MsgEntry), NEW i \in DOMAIN m, NEW e \in MsgEntry
  PROVE  /\ i \in Nat \ {0}
         /\ [m EXCEPT ![i] = e] \in Seq(MsgEntry)
         /\ DOMAIN [m EXCEPT ![i] = e] = DOMAIN m
         /\ Len([m EXCEPT ![i] = e]) = Len(m)
         /\ [m EXCEPT ![i] = e][i] = e
         /\ \A j \in DOMAIN m : j # i => [m EXCEPT ![i] = e][j] = m[j]
<1>1. i \in 1 .. Len(m)
  OBVIOUS
<1>2. /\ [m EXCEPT ![i] = e] \in Seq(MsgEntry)
      /\ Len([m EXCEPT ![i] = e]) = Len(m)
  BY <1>1, ExceptSeq
<1> QED  BY <1>1, <1>2

\* FreeMsg returns the first free entry, or 0 when every entry is live.
LEMMA FreeMsgProps ==
  ASSUME NEW m \in Seq(MsgEntry)
  PROVE  /\ FreeMsg(m) \in Nat
         /\ FreeMsg(m) # 0 => FreeMsg(m) \in DOMAIN m /\ IsFree(m, FreeMsg(m))
         /\ FreeMsg(m) = 0 => \A i \in DOMAIN m : ~ IsFree(m, i)
<1> DEFINE F == {i \in DOMAIN m : IsFree(m, i)}
<1>1. DOMAIN m \subseteq Nat \ {0}
  OBVIOUS
<1>2. CASE F = {}
  BY <1>2 DEF FreeMsg
<1>3. CASE F # {}
  <2>1. PICK i \in F : \A j \in F : i <= j
    BY <1>1, <1>3, LeastExists
  <2>2. \A j \in 1 .. i - 1 : ~ IsFree(m, j)
    BY <1>1, <2>1
  <2>3. /\ FreeMsg(m) \in DOMAIN m
        /\ IsFree(m, FreeMsg(m))
    BY <2>1, <2>2 DEF FreeMsg
  <2> QED  BY <1>1, <2>3
<1> QED  BY <1>2, <1>3

\* LiveLen returns the position of the last live entry, 0 when there is none.
LEMMA LiveLenProps ==
  ASSUME NEW m \in Seq(MsgEntry)
  PROVE  /\ LiveLen(m) \in 0 .. Len(m)
         /\ LiveLen(m) # 0 => ~ IsFree(m, LiveLen(m))
         /\ \A j \in LiveLen(m) + 1 .. Len(m) : IsFree(m, j)
<1> DEFINE L == {i \in DOMAIN m : ~ IsFree(m, i)}
<1>1. DOMAIN m = 1 .. Len(m) /\ Len(m) \in Nat
  OBVIOUS
<1>2. CASE L = {}
  BY <1>1, <1>2 DEF LiveLen
<1>3. CASE L # {}
  <2>0. L \in SUBSET (0 .. Len(m))
    BY <1>1
  <2>1. PICK i \in L : \A j \in L : j <= i
    <3> HIDE DEF L
    <3> QED  BY <1>1, <1>3, <2>0, GreatestExists
  <2>2. \A j \in i + 1 .. Len(m) : IsFree(m, j)
    BY <1>1, <2>1
  <2>3. /\ LiveLen(m) \in DOMAIN m
        /\ ~ IsFree(m, LiveLen(m))
        /\ \A j \in LiveLen(m) + 1 .. Len(m) : IsFree(m, j)
    BY <2>1, <2>2 DEF LiveLen
  <2> QED  BY <1>1, <2>3
<1> QED  BY <1>2, <1>3

\* PopFree keeps every live entry where it is and leaves a live last entry.
LEMMA PopFreeProps ==
  ASSUME NEW m \in Seq(MsgEntry)
  PROVE  /\ PopFree(m) \in Seq(MsgEntry)
         /\ DOMAIN PopFree(m) \subseteq DOMAIN m
         /\ \A i \in DOMAIN PopFree(m) : PopFree(m)[i] = m[i]
         /\ \A i \in DOMAIN m : ~ IsFree(m, i) => i \in DOMAIN PopFree(m)
         /\ PopFree(m) # <<>> => ~ IsFree(PopFree(m), Len(PopFree(m)))
<1> DEFINE k == LiveLen(m)
<1>1. /\ k \in 0 .. Len(m)
      /\ k # 0 => ~ IsFree(m, k)
      /\ \A j \in k + 1 .. Len(m) : IsFree(m, j)
  BY LiveLenProps
<1> HIDE DEF k
<1>2. PopFree(m) = SubSeq(m, 1, k)
  BY DEF PopFree, k
<1>3. /\ SubSeq(m, 1, k) \in Seq(MsgEntry)
      /\ Len(SubSeq(m, 1, k)) = k
      /\ \A i \in 1 .. k : SubSeq(m, 1, k)[i] = m[i]
  BY <1>1
<1>4. \A i \in DOMAIN m : ~ IsFree(m, i) => i \in 1 .. k
  BY <1>1
<1> QED  BY <1>1, <1>2, <1>3, <1>4 DEF IsFree

\* FirstOf is 0 exactly when the client has no subscription in the list.
LEMMA FirstOfProps ==
  ASSUME NEW subs \in Seq(Sub), NEW t
  PROVE  /\ FirstOf(subs, t) = 0 <=> \A i \in DOMAIN subs : subs[i][1] # t
         /\ FirstOf(subs, t) # 0 => FirstOf(subs, t) \in DOMAIN subs
<1> DEFINE F == {i \in DOMAIN subs : subs[i][1] = t}
<1>1. DOMAIN subs \subseteq Nat \ {0}
  OBVIOUS
<1>2. CASE F = {}
  BY <1>2 DEF FirstOf
<1>3. CASE F # {}
  <2>1. PICK i \in F : \A j \in F : i <= j
    BY <1>1, <1>3, LeastExists
  <2>2. \A j \in 1 .. i - 1 : subs[j][1] # t
    <3> SUFFICES ASSUME NEW j \in 1 .. i - 1, subs[j][1] = t PROVE FALSE
      OBVIOUS
    <3>1. i \in 1 .. Len(subs) /\ Len(subs) \in Nat
      BY <2>1
    <3>2. j \in F /\ j < i /\ j \in Nat
      BY <3>1
    <3> QED  BY <1>1, <2>1, <3>2
  <2>3. FirstOf(subs, t) \in DOMAIN subs
    BY <2>1, <2>2 DEF FirstOf
  <2> QED  BY <1>1, <1>3, <2>3
<1> QED  BY <1>2, <1>3

\* An appended list has the list's elements and the new one.
LEMMA AppendElements ==
  ASSUME NEW S, NEW s \in Seq(S), NEW x \in S
  PROVE  /\ Append(s, x) \in Seq(S)
         /\ \A k \in DOMAIN Append(s, x) :
              Append(s, x)[k] = x \/ \E j \in DOMAIN s : Append(s, x)[k] = s[j]
<1> DEFINE l == Append(s, x)
<1>1. /\ l \in Seq(S)
      /\ Len(l) = Len(s) + 1
      /\ \A k \in 1 .. Len(s) : l[k] = s[k]
      /\ l[Len(s) + 1] = x
  BY AppendProperties
<1> HIDE DEF l
<1>2. DOMAIN s = 1 .. Len(s) /\ Len(s) \in Nat /\ DOMAIN l = 1 .. Len(s) + 1
  BY <1>1
<1>3. \A k \in DOMAIN l : k \in DOMAIN s \/ k = Len(s) + 1
  BY <1>2
<1>4. \A k \in DOMAIN s : l[k] = s[k]
  BY <1>1, <1>2
<1> QED  BY <1>1, <1>3, <1>4 DEF l

\* Removing a position leaves a list whose elements were in the list.
LEMMA RemoveAtProps ==
  ASSUME NEW S, NEW s \in Seq(S), NEW i \in DOMAIN s
  PROVE  /\ RemoveAt(s, i) \in Seq(S)
         /\ \A k \in DOMAIN RemoveAt(s, i) : \E j \in DOMAIN s : RemoveAt(s, i)[k] = s[j]
<1> DEFINE n == Len(s)
           a == SubSeq(s, 1, i - 1)
           b == SubSeq(s, i + 1, n)
<1>1. i \in 1 .. n /\ n \in Nat
  OBVIOUS
<1>2. /\ a \in Seq(S)
      /\ Len(a) = i - 1
      /\ \A k \in 1 .. i - 1 : a[k] = s[k]
  BY <1>1, SubSeqProperties
<1>3. /\ b \in Seq(S)
      /\ Len(b) = n - i
      /\ \A k \in 1 .. n - i : b[k] = s[i + k]
  <2>1. \A k \in 1 .. n - i : (i + 1) + k - 1 = i + k
    BY <1>1
  <2> QED  BY <1>1, <2>1, SubSeqProperties
<1>4. RemoveAt(s, i) = a \o b
  BY DEF RemoveAt
<1> HIDE DEF a, b, n
<1>5. /\ a \o b \in Seq(S)
      /\ Len(a \o b) = Len(a) + Len(b)
      /\ \A k \in 1 .. Len(a) + Len(b) :
           (a \o b)[k] = IF k <= Len(a) THEN a[k] ELSE b[k - Len(a)]
  BY <1>2, <1>3, ConcatProperties
<1>6. Len(a) + Len(b) = n - 1
  BY <1>1, <1>2, <1>3
<1>7. DOMAIN (a \o b) = 1 .. n - 1 /\ DOMAIN s = 1 .. n
  BY <1>5, <1>6 DEF n
<1>8. ASSUME NEW k \in 1 .. n - 1
      PROVE  \E j \in 1 .. n : (a \o b)[k] = s[j]
  <2>1. CASE k <= i - 1
    <3>1. (a \o b)[k] = a[k] /\ k \in 1 .. i - 1 /\ k \in 1 .. n
      BY <1>1, <1>2, <1>5, <1>6, <2>1
    <3> QED  BY <1>2, <3>1
  <2>2. CASE ~ (k <= i - 1)
    <3>1. k - (i - 1) \in 1 .. n - i /\ i + (k - (i - 1)) \in 1 .. n
      BY <1>1, <2>2
    <3>2. (a \o b)[k] = b[k - (i - 1)]
      BY <1>2, <1>5, <1>6, <2>2
    <3> QED  BY <1>3, <3>1, <3>2
  <2> QED  BY <2>1, <2>2
<1> QED  BY <1>4, <1>5, <1>7, <1>8

-----------------------------------------------------------------------------
(* The inductive invariant.  Each conjunct needs the others: an entry is     *)
(* recycled only when its count is 0, so the counts must be exact for ids to *)
(* stay valid; a recycled entry must have no other entry's name for ids to   *)
(* denote one name; and a count is exact only as long as ids stay apart.     *)

Inv == /\ TypeOK
       /\ NamesUnique
       /\ IdDenotesName
       /\ RefCounted
       /\ SubscribersHold
       /\ TableTrimmed

\* An entry's holders are finitely many, and one more or one less holder
\* changes their number by one.
LEMMA HoldersCount ==
  ASSUME NEW S \in SUBSET Holders
  PROVE  /\ Cardinality(S) \in Nat
         /\ Cardinality(S) = 0 <=> S = {}
         /\ \A h : h \notin S => Cardinality(S \cup {h}) = Cardinality(S) + 1
         /\ \A h : h \in S => Cardinality(S \ {h}) = Cardinality(S) - 1
<1>1. IsFiniteSet(S)
  BY HoldersFinite, FS_Subset
<1> QED
  BY <1>1, FS_CardinalityType, FS_EmptySet, FS_AddElement, FS_RemoveElement

\* The empty table satisfies the invariant.
LEMMA InitInv == Init => Inv
<1> SUFFICES ASSUME Init PROVE Inv
  OBVIOUS
<1> USE DEF Init
<1>1. TypeOK
  BY DEF TypeOK, NoId
<1>2. NamesUnique /\ RefCounted /\ SubscribersHold /\ TableTrimmed
  BY DEF NamesUnique, RefCounted, SubscribersHold, TableTrimmed
<1>3. IdDenotesName
  BY DEF IdDenotesName
<1> QED  BY <1>1, <1>2, <1>3 DEF Inv

\* What every GetMsgID amounts to: entry id, which now has the name n, gains
\* the holder h and one reference; every other entry is what it was.
GivesEntry(h, n, id) ==
  /\ msgs' \in Seq(MsgEntry)
  /\ DOMAIN msgs \subseteq DOMAIN msgs'
  /\ DOMAIN msgs' = DOMAIN msgs \cup {id}
  /\ id \in Nat \ {NoId}
  /\ Give(h, n, id)
  /\ \A i \in DOMAIN msgs : i # id => msgs'[i] = msgs[i]
  /\ msgs'[id].name = n
  /\ \/ /\ id \in DOMAIN msgs
        /\ msgs[id].name = n
        /\ msgs'[id].refCount = msgs[id].refCount + 1
        /\ msgs'[id].callbacks = msgs[id].callbacks
     \/ /\ id \in DOMAIN msgs => IsFree(msgs, id)
        /\ msgs'[id] = NewEntry(n)
        /\ \A i \in DOMAIN msgs : i # id => msgs[i].name # n

LEMMA GetGives ==
  ASSUME TypeOK, NEW h \in Holders, NEW n \in Names, GetMsgID(h, n)
  PROVE  \E id : GivesEntry(h, n, id)
<1>1. msgs \in Seq(MsgEntry)
  BY DEF TypeOK
<1>2. NewEntry(n) \in MsgEntry
  BY DEF NewEntry, MsgEntry
<1>3. CASE GetKnownId(h, n)
  <2>1. PICK i \in Matches(msgs, n) : /\ msgs' = [msgs EXCEPT ![i].refCount = @ + 1]
                                      /\ Give(h, n, i)
    BY <1>3 DEF GetKnownId
  <2>2. i \in DOMAIN msgs /\ msgs[i].name = n
    BY DEF Matches
  <2> DEFINE e == [msgs[i] EXCEPT !.refCount = @ + 1]
  <2>3. /\ msgs[i] \in MsgEntry
        /\ e \in MsgEntry
        /\ e.name = n
        /\ e.refCount = msgs[i].refCount + 1
        /\ e.callbacks = msgs[i].callbacks
    <3>1. msgs[i] \in MsgEntry
      BY <1>1, <2>2
    <3> QED  BY <2>2, <3>1 DEF MsgEntry
  <2>4. msgs' = [msgs EXCEPT ![i] = e]
    BY <2>1
  <2> HIDE DEF e
  <2>6. /\ i \in Nat \ {NoId}
        /\ msgs' \in Seq(MsgEntry)
        /\ DOMAIN msgs' = DOMAIN msgs \cup {i}
        /\ msgs'[i] = e
        /\ \A j \in DOMAIN msgs : j # i => msgs'[j] = msgs[j]
    <3>1. /\ i \in Nat \ {0}
          /\ msgs' \in Seq(MsgEntry)
          /\ DOMAIN msgs' = DOMAIN msgs
          /\ msgs'[i] = e
          /\ \A j \in DOMAIN msgs : j # i => msgs'[j] = msgs[j]
      BY <1>1, <2>2, <2>3, <2>4, ExceptEntry
    <3> QED  BY <2>2, <3>1 DEF NoId
  <2>7. GivesEntry(h, n, i)
    BY <2>1, <2>2, <2>3, <2>6 DEF GivesEntry
  <2> QED  BY <2>7
<1>4. CASE RecycleId(h, n)
  <2> DEFINE i == FreeMsg(msgs)
  <2>1. /\ i \in DOMAIN msgs
        /\ IsFree(msgs, i)
    BY <1>1, <1>4, FreeMsgProps DEF RecycleId
  <2>2. \A j \in DOMAIN msgs : j # i => msgs[j].name # n
    BY <1>4 DEF RecycleId, Matches
  <2>3. /\ msgs' = [msgs EXCEPT ![i] = NewEntry(n)]
        /\ Give(h, n, i)
    BY <1>4 DEF RecycleId
  <2> HIDE DEF i
  <2>4. /\ i \in Nat \ {NoId}
        /\ msgs' \in Seq(MsgEntry)
        /\ DOMAIN msgs' = DOMAIN msgs \cup {i}
        /\ \A j \in DOMAIN msgs : j # i => msgs'[j] = msgs[j]
        /\ msgs'[i] = NewEntry(n)
    BY <1>1, <1>2, <2>1, <2>3, ExceptEntry DEF NoId
  <2>5. msgs'[i].name = n
    BY <2>4 DEF NewEntry
  <2>6. GivesEntry(h, n, i)
    BY <2>1, <2>2, <2>3, <2>4, <2>5 DEF GivesEntry
  <2> QED  BY <2>6
<1>5. CASE GrowTable(h, n)
  <2>1. \A j \in DOMAIN msgs : msgs[j].name # n
    BY <1>5 DEF GrowTable, Matches
  <2>2. /\ msgs' = Append(msgs, NewEntry(n))
        /\ Give(h, n, Len(msgs) + 1)
    BY <1>5 DEF GrowTable
  <2> DEFINE i == Len(msgs) + 1
  <2>3. /\ i \in Nat \ {NoId}
        /\ i \notin DOMAIN msgs
        /\ msgs' \in Seq(MsgEntry)
        /\ DOMAIN msgs' = DOMAIN msgs \cup {i}
        /\ \A j \in DOMAIN msgs : j # i => msgs'[j] = msgs[j]
        /\ msgs'[i] = NewEntry(n)
    BY <1>1, <1>2, <2>2 DEF NoId
  <2>4. msgs'[i].name = n
    BY <2>3 DEF NewEntry
  <2> HIDE DEF i
  <2>5. GivesEntry(h, n, i)
    BY <2>1, <2>2, <2>3, <2>4 DEF GivesEntry, i
  <2> QED  BY <2>5
<1> QED  BY <1>3, <1>4, <1>5 DEF GetMsgID

\* A step that gives a client an entry preserves the invariant.
LEMMA GivesInv ==
  ASSUME Inv, NEW h \in Holders, NEW n \in Names, held[h][n] = NoId,
         NEW id, GivesEntry(h, n, id), UNCHANGED delivered
  PROVE  Inv'
<1> USE DEF Inv
<1>1. /\ held' \in [Holders -> [Names -> Nat]]
      /\ held'[h][n] = id
      /\ \A g \in Holders, k \in Names : g # h \/ k # n => held'[g][k] = held[g][k]
  BY DEF TypeOK, GivesEntry, Give
<1>2. TypeOK'
  BY <1>1 DEF TypeOK, GivesEntry
<1>3. \A i \in DOMAIN msgs : i # id => /\ msgs'[i] = msgs[i]
                                       /\ msgs[i].name # n
  BY DEF GivesEntry, NamesUnique
<1>4. DOMAIN msgs' = DOMAIN msgs \cup {id} /\ msgs'[id].name = n
  BY DEF GivesEntry
<1>5. NamesUnique'
  BY <1>3, <1>4 DEF NamesUnique
<1>6. \A g \in Holders : held[g][n] # NoId => /\ held[g][n] = id
                                              /\ msgs[id].name = n
                                              /\ id \in DOMAIN msgs
                                              /\ ~ IsFree(msgs, id)
  BY <1>3 DEF IdDenotesName
<1>7. id # NoId /\ msgs'[id].refCount \in Nat \ {0}
  <2>1. msgs'[id] \in MsgEntry
    <3>1. msgs' \in Seq(MsgEntry) /\ id \in DOMAIN msgs'
      BY <1>4 DEF GivesEntry
    <3> QED  BY <3>1
  <2>2. CASE /\ id \in DOMAIN msgs
             /\ msgs'[id].refCount = msgs[id].refCount + 1
    <3>1. msgs[id] \in MsgEntry
      BY <2>2 DEF TypeOK
    <3> QED  BY <2>2, <3>1 DEF MsgEntry, GivesEntry
  <2>3. CASE msgs'[id] = NewEntry(n)
    BY <2>3 DEF NewEntry, GivesEntry
  <2> QED  BY <2>2, <2>3 DEF GivesEntry
<1>8. IdDenotesName'
  <2> SUFFICES ASSUME NEW g \in Holders, NEW k \in Names, held'[g][k] # NoId
               PROVE  /\ held'[g][k] \in DOMAIN msgs'
                      /\ ~ IsFree(msgs', held'[g][k])
                      /\ msgs'[held'[g][k]].name = k
    BY DEF IdDenotesName
  <2>1. CASE g = h /\ k = n
    BY <1>1, <1>4, <1>7, <2>1 DEF IsFree
  <2>2. CASE ~ (g = h /\ k = n)
    <3>1. /\ held'[g][k] = held[g][k]
          /\ held[g][k] \in DOMAIN msgs
          /\ ~ IsFree(msgs, held[g][k])
          /\ msgs[held[g][k]].name = k
      BY <1>1, <2>2 DEF IdDenotesName
    <3>2. CASE held[g][k] # id
      BY <1>3, <1>4, <3>1, <3>2 DEF IsFree
    <3>3. CASE held[g][k] = id
      BY <1>4, <1>7, <3>1, <3>3 DEF IsFree, GivesEntry
    <3> QED  BY <3>2, <3>3
  <2> QED  BY <2>1, <2>2
<1>9. RefCounted'
  <2> SUFFICES ASSUME NEW i \in DOMAIN msgs'
               PROVE  msgs'[i].refCount = Cardinality(HoldersOf(i)')
    BY DEF RefCounted
  <2>1. CASE i # id
    <3>1. HoldersOf(i)' = HoldersOf(i)
      <4>1. msgs \in Seq(MsgEntry) /\ i \in DOMAIN msgs /\ msgs[i] \in MsgEntry
        BY <1>4, <2>1 DEF TypeOK
      <4>2. msgs[i].name \in Names /\ msgs[i].name # n /\ msgs'[i] = msgs[i]
        BY <1>3, <2>1, <4>1 DEF MsgEntry
      <4>3. \A g \in Holders : held'[g][msgs[i].name] = held[g][msgs[i].name]
        BY <1>1, <4>2
      <4> QED  BY <4>2, <4>3 DEF HoldersOf
    <3> QED  BY <1>3, <1>4, <2>1, <3>1 DEF RefCounted
  <2>2. CASE i = id
    <3> DEFINE S == {g \in Holders : held[g][n] = id}
    <3>1. HoldersOf(id)' = S \cup {h}
      BY <1>1, <1>4 DEF HoldersOf
    <3>2. h \notin S
      BY <1>7
    <3>3. Cardinality(S \cup {h}) = Cardinality(S) + 1
      BY <3>2, HoldersCount
    <3>4. CASE /\ id \in DOMAIN msgs
               /\ msgs[id].name = n
               /\ msgs'[id].refCount = msgs[id].refCount + 1
      <4>1. S = HoldersOf(id)
        BY <3>4 DEF HoldersOf
      <4> QED  BY <2>2, <3>1, <3>3, <3>4, <4>1 DEF RefCounted
    <3>5. CASE /\ id \in DOMAIN msgs => IsFree(msgs, id)
               /\ msgs'[id] = NewEntry(n)
      <4>1. S = {}
        BY <1>6, <1>7, <3>5
      <4>2. Cardinality(S) = 0
        BY <4>1, HoldersCount
      <4> QED  BY <2>2, <3>1, <3>3, <3>5, <4>2 DEF NewEntry
    <3> QED  BY <3>4, <3>5 DEF GivesEntry
  <2> QED  BY <2>1, <2>2
<1>10. SubscribersHold'
  <2> SUFFICES ASSUME NEW i \in DOMAIN msgs', NEW k \in DOMAIN msgs'[i].callbacks
               PROVE  held'[msgs'[i].callbacks[k][1]][msgs'[i].name] = i
    BY DEF SubscribersHold
  <2>1. /\ i \in DOMAIN msgs
        /\ msgs'[i].callbacks = msgs[i].callbacks
        /\ msgs'[i].name = msgs[i].name
    <3>1. CASE i # id
      BY <1>3, <1>4, <3>1
    <3>2. CASE i = id /\ msgs'[id] = NewEntry(n)
      BY <3>2 DEF NewEntry
    <3>3. CASE i = id /\ msgs'[id] # NewEntry(n)
      BY <3>3 DEF GivesEntry
    <3> QED  BY <3>1, <3>2, <3>3
  <2>2. held[msgs[i].callbacks[k][1]][msgs[i].name] = i
    BY <2>1 DEF SubscribersHold
  <2>3. /\ msgs[i].callbacks[k][1] \in Holders
        /\ msgs[i].name \in Names
        /\ i # NoId
    <3>1. msgs \in Seq(MsgEntry) /\ msgs[i] \in MsgEntry
      BY <2>1 DEF TypeOK
    <3>2. /\ msgs[i].callbacks \in Seq(Sub)
          /\ msgs[i].name \in Names
      BY <3>1 DEF MsgEntry
    <3>3. msgs[i].callbacks[k] \in Sub
      BY <2>1, <3>2
    <3> QED  BY <2>1, <3>1, <3>2, <3>3 DEF Sub, NoId
  <2> QED  BY <1>1, <2>1, <2>2, <2>3
<1>11. TableTrimmed'
  <2>1. msgs' \in Seq(MsgEntry) /\ msgs \in Seq(MsgEntry)
    BY DEF TypeOK, GivesEntry
  <2>2. CASE Len(msgs') = id
    BY <1>7, <2>2 DEF TableTrimmed, IsFree
  <2>3. CASE Len(msgs') # id /\ msgs' # <<>>
    <3>0. /\ 1 .. Len(msgs') = (1 .. Len(msgs)) \cup {id}
          /\ Len(msgs) \in Nat
          /\ Len(msgs') \in Nat \ {0}
      <4>1. /\ DOMAIN msgs = 1 .. Len(msgs)
            /\ DOMAIN msgs' = 1 .. Len(msgs')
            /\ Len(msgs) \in Nat
            /\ Len(msgs') \in Nat \ {0}
        BY <2>1, <2>3, LenProperties, EmptySeq
      <4> QED  BY <1>4, <4>1
    <3>1. Len(msgs') \in DOMAIN msgs
      BY <2>1, <2>3, <3>0
    <3>2. Len(msgs) = Len(msgs')
      <4>1. Len(msgs) >= Len(msgs')
        BY <2>1, <3>1
      <4>2. Len(msgs) \in 1 .. Len(msgs')
        BY <3>0, <4>1
      <4> QED  BY <3>0, <4>1, <4>2
    <3> QED  BY <1>3, <2>1, <2>3, <3>1, <3>2 DEF TableTrimmed, IsFree
  <2> QED  BY <2>2, <2>3 DEF TableTrimmed
<1> QED  BY <1>2, <1>5, <1>8, <1>9, <1>10, <1>11

\* A step that changes one list, and leaves in it only clients that hold the
\* entry's id, preserves the invariant.
LEMMA ListInv ==
  ASSUME Inv, NEW id \in DOMAIN msgs, NEW l \in Seq(Sub),
         msgs' = [msgs EXCEPT ![id].callbacks = l], UNCHANGED <<held, delivered>>,
         \A k \in DOMAIN l : held[l[k][1]][msgs[id].name] = id
  PROVE  Inv'
<1> USE DEF Inv
<1> DEFINE e == [msgs[id] EXCEPT !.callbacks = l]
<1>1. /\ msgs \in Seq(MsgEntry)
      /\ msgs[id] \in MsgEntry
  BY DEF TypeOK
<1>2. /\ e \in MsgEntry
      /\ e.callbacks = l
      /\ e.name = msgs[id].name
      /\ e.refCount = msgs[id].refCount
  BY <1>1 DEF MsgEntry
<1>3. msgs' = [msgs EXCEPT ![id] = e]
  OBVIOUS
<1> HIDE DEF e
<1>4. /\ msgs' \in Seq(MsgEntry)
      /\ DOMAIN msgs' = DOMAIN msgs
      /\ Len(msgs') = Len(msgs)
      /\ msgs'[id] = e
      /\ \A i \in DOMAIN msgs : i # id => msgs'[i] = msgs[i]
  BY <1>1, <1>2, <1>3, ExceptEntry
<1>5. \A i \in DOMAIN msgs : /\ msgs'[i].name = msgs[i].name
                             /\ msgs'[i].refCount = msgs[i].refCount
  BY <1>2, <1>4
<1>6. TypeOK'
  BY <1>4 DEF TypeOK
<1>7. NamesUnique'
  BY <1>4, <1>5 DEF NamesUnique
<1>8. IdDenotesName'
  BY <1>4, <1>5 DEF IdDenotesName, IsFree
<1>9. RefCounted'
  <2>1. \A i \in DOMAIN msgs : HoldersOf(i)' = HoldersOf(i)
    BY <1>5 DEF HoldersOf
  <2> QED  BY <1>4, <1>5, <2>1 DEF RefCounted
<1>10. SubscribersHold'
  BY <1>2, <1>4, <1>5 DEF SubscribersHold
<1>11. TableTrimmed'
  <2>1. msgs # <<>> /\ Len(msgs) \in DOMAIN msgs
    BY <1>1, LenProperties, EmptySeq
  <2> QED  BY <1>4, <1>5, <2>1 DEF TableTrimmed, IsFree
<1> QED  BY <1>6, <1>7, <1>8, <1>9, <1>10, <1>11

LEMMA SubscribeInv ==
  ASSUME Inv, NEW h \in Holders, NEW n \in Names, NEW cb \in Callbacks,
         SubscribeMsg(h, n, cb)
  PROVE  Inv'
<1>0. PICK id : id = held[h][n]
  OBVIOUS
<1> DEFINE l == Append(msgs[id].callbacks, <<h, cb>>)
<1>1. /\ id \in DOMAIN msgs
      /\ msgs[id].name = n
  BY <1>0 DEF SubscribeMsg, Inv, IdDenotesName
<1>2. msgs \in Seq(MsgEntry) /\ msgs[id] \in MsgEntry
  BY <1>1 DEF Inv, TypeOK
<1>3. msgs[id].callbacks \in Seq(Sub)
  BY <1>2 DEF MsgEntry
<1>4. /\ l \in Seq(Sub)
      /\ \A k \in DOMAIN l : l[k] = <<h, cb>> \/ \E j \in DOMAIN msgs[id].callbacks :
                                                  l[k] = msgs[id].callbacks[j]
  <2>1. <<h, cb>> \in Sub
    BY DEF Sub
  <2> QED  BY <1>3, <2>1, AppendElements
<1>5. \A k \in DOMAIN l : held[l[k][1]][msgs[id].name] = id
  <2> HIDE DEF l
  <2>1. \A j \in DOMAIN msgs[id].callbacks : held[msgs[id].callbacks[j][1]][n] = id
    BY <1>1 DEF Inv, SubscribersHold
  <2> QED  BY <1>0, <1>1, <1>4, <2>1
<1>6. msgs' = [msgs EXCEPT ![id].callbacks = l] /\ UNCHANGED <<held, delivered>>
  BY <1>0 DEF SubscribeMsg
<1> HIDE DEF l
<1> QED  BY <1>1, <1>4, <1>5, <1>6, ListInv

LEMMA UnsubscribeInv ==
  ASSUME Inv, NEW h \in Holders, NEW n \in Names, NEW cb \in Callbacks,
         UnsubscribeMsg(h, n, cb)
  PROVE  Inv'
<1>0. PICK id : id = held[h][n]
  OBVIOUS
<1>1. /\ id \in DOMAIN msgs
      /\ msgs[id].name = n
  BY <1>0 DEF UnsubscribeMsg, Inv, IdDenotesName
<1>2. msgs \in Seq(MsgEntry) /\ msgs[id] \in MsgEntry
  BY <1>1 DEF Inv, TypeOK
<1>3. msgs[id].callbacks \in Seq(Sub)
  BY <1>2 DEF MsgEntry
<1>4. PICK i \in DOMAIN msgs[id].callbacks :
             msgs' = [msgs EXCEPT ![id].callbacks = RemoveAt(@, i)]
  BY <1>0 DEF UnsubscribeMsg
<1> DEFINE l == RemoveAt(msgs[id].callbacks, i)
<1>5. /\ l \in Seq(Sub)
      /\ \A k \in DOMAIN l : \E j \in DOMAIN msgs[id].callbacks :
                              l[k] = msgs[id].callbacks[j]
  BY <1>3, RemoveAtProps
<1>6. msgs' = [msgs EXCEPT ![id].callbacks = l] /\ UNCHANGED <<held, delivered>>
  BY <1>0, <1>4 DEF UnsubscribeMsg
<1> HIDE DEF l
<1>7. \A k \in DOMAIN l : held[l[k][1]][msgs[id].name] = id
  <2>1. \A j \in DOMAIN msgs[id].callbacks : held[msgs[id].callbacks[j][1]][n] = id
    BY <1>1 DEF Inv, SubscribersHold
  <2> QED  BY <1>1, <1>5, <2>1
<1> QED  BY <1>1, <1>5, <1>6, <1>7, ListInv

\* Releasing an id preserves the invariant.
LEMMA ReleaseInv ==
  ASSUME Inv, NEW h \in Holders, NEW n \in Names, ReleaseMsgID(h, n)
  PROVE  Inv'
<1> USE DEF Inv
<1>0. PICK id : id = held[h][n]
  OBVIOUS
<1> DEFINE one == [msgs EXCEPT ![id].refCount = @ - 1]
           e   == [msgs[id] EXCEPT !.refCount = @ - 1]
<1>1. /\ id \in DOMAIN msgs
      /\ msgs[id].name = n
      /\ msgs \in Seq(MsgEntry)
      /\ msgs[id] \in MsgEntry
  BY <1>0 DEF ReleaseMsgID, IdDenotesName, TypeOK
<1>2. /\ id # NoId
      /\ held' = [held EXCEPT ![h][n] = NoId]
      /\ msgs' = IF IsFree(one, id) THEN PopFree(one) ELSE one
      /\ delivered' = delivered
      /\ FirstOf(msgs[id].callbacks, h) = 0
  BY <1>0 DEF ReleaseMsgID, Give
<1>3. /\ held' \in [Holders -> [Names -> Nat]]
      /\ held'[h][n] = NoId
      /\ \A g \in Holders, k \in Names : g # h \/ k # n => held'[g][k] = held[g][k]
  BY <1>2 DEF TypeOK, NoId
\* The counts: what is left of the entry's holders is one less.
<1>4. /\ HoldersOf(id) \in SUBSET Holders
      /\ h \in HoldersOf(id)
      /\ msgs[id].refCount = Cardinality(HoldersOf(id))
      /\ Cardinality(HoldersOf(id)) \in Nat \ {0}
      /\ Cardinality(HoldersOf(id) \ {h}) = msgs[id].refCount - 1
  <2>1. HoldersOf(id) \in SUBSET Holders /\ h \in HoldersOf(id)
    BY <1>0, <1>1 DEF HoldersOf
  <2>2. msgs[id].refCount = Cardinality(HoldersOf(id))
    BY <1>1 DEF RefCounted
  <2> QED  BY <2>1, <2>2, HoldersCount
<1>5. /\ e \in MsgEntry
      /\ e.name = n
      /\ e.callbacks = msgs[id].callbacks
      /\ e.refCount = msgs[id].refCount - 1
  BY <1>1, <1>4 DEF MsgEntry
<1>6. one = [msgs EXCEPT ![id] = e]
  OBVIOUS
<1> HIDE DEF e, one
<1>7. /\ one \in Seq(MsgEntry)
      /\ DOMAIN one = DOMAIN msgs
      /\ Len(one) = Len(msgs)
      /\ one[id] = e
      /\ \A i \in DOMAIN msgs : i # id => one[i] = msgs[i]
  BY <1>1, <1>5, <1>6, ExceptEntry
\* What popping leaves: a part of the table with every live entry in it.
<1>8. /\ msgs' \in Seq(MsgEntry)
      /\ \A i \in DOMAIN msgs' : i \in DOMAIN msgs /\ msgs'[i] = one[i]
      /\ \A i \in DOMAIN msgs : ~ IsFree(one, i) => i \in DOMAIN msgs'
  <2>1. CASE IsFree(one, id)
    <3>1. msgs' = PopFree(one)
      BY <1>2, <2>1
    <3> QED  BY <1>7, <3>1, PopFreeProps
  <2>2. CASE ~ IsFree(one, id)
    BY <1>2, <1>7, <2>2
  <2> QED  BY <2>1, <2>2
<1>9. \A i \in DOMAIN msgs' : /\ msgs'[i].name = msgs[i].name
                              /\ msgs'[i].callbacks = msgs[i].callbacks
                              /\ i # id => msgs'[i] = msgs[i]
  BY <1>1, <1>5, <1>7, <1>8
<1>10. TypeOK'
  BY <1>2, <1>3, <1>8 DEF TypeOK
<1>11. NamesUnique'
  BY <1>8, <1>9 DEF NamesUnique
<1>12. IdDenotesName'
  <2> SUFFICES ASSUME NEW g \in Holders, NEW k \in Names, held'[g][k] # NoId
               PROVE  /\ held'[g][k] \in DOMAIN msgs'
                      /\ ~ IsFree(msgs', held'[g][k])
                      /\ msgs'[held'[g][k]].name = k
    BY DEF IdDenotesName
  <2> DEFINE j == held[g][k]
  <2>1. /\ ~ (g = h /\ k = n)
        /\ held'[g][k] = j
    BY <1>3
  <2>2. /\ j \in DOMAIN msgs
        /\ ~ IsFree(msgs, j)
        /\ msgs[j].name = k
    BY <2>1 DEF IdDenotesName
  <2>3. ~ IsFree(one, j)
    <3>1. CASE j # id
      BY <1>7, <2>2, <3>1 DEF IsFree
    <3>2. CASE j = id
      <4>1. g \in HoldersOf(id) \ {h}
        BY <1>1, <2>1, <2>2, <3>2 DEF HoldersOf
      <4>2. Cardinality(HoldersOf(id) \ {h}) # 0
        BY <1>4, <4>1, HoldersCount
      <4> QED  BY <1>4, <1>5, <1>7, <3>2, <4>2 DEF IsFree
    <3> QED  BY <3>1, <3>2
  <2>4. j \in DOMAIN msgs'
    BY <1>8, <2>2, <2>3
  <2>5. ~ IsFree(msgs', j) /\ msgs'[j].name = k
    BY <1>8, <1>9, <2>2, <2>3, <2>4 DEF IsFree
  <2> QED  BY <2>1, <2>4, <2>5
<1>13. RefCounted'
  <2> SUFFICES ASSUME NEW i \in DOMAIN msgs'
               PROVE  msgs'[i].refCount = Cardinality(HoldersOf(i)')
    BY DEF RefCounted
  <2>1. i \in DOMAIN msgs /\ msgs'[i].name = msgs[i].name
    BY <1>8, <1>9
  <2>2. msgs[i].name \in Names
    <3>1. msgs[i] \in MsgEntry
      BY <1>1, <2>1
    <3> QED  BY <3>1 DEF MsgEntry
  <2>3. CASE i = id
    <3>1. HoldersOf(id)' = HoldersOf(id) \ {h}
      <4>1. msgs'[id].name = n
        BY <1>1, <2>1, <2>3
      <4>2. \A g \in Holders : g # h => held'[g][n] = held[g][n]
        BY <1>3
      <4> QED  BY <1>1, <1>2, <1>3, <4>1, <4>2 DEF HoldersOf
    <3> QED  BY <1>4, <1>5, <1>7, <1>8, <2>3, <3>1
  <2>4. CASE i # id
    <3>1. msgs[i].name # n
      BY <1>1, <2>1, <2>4 DEF NamesUnique
    <3>2. \A g \in Holders : held'[g][msgs[i].name] = held[g][msgs[i].name]
      BY <1>3, <2>2, <3>1
    <3>3. HoldersOf(i)' = HoldersOf(i)
      BY <2>1, <3>2 DEF HoldersOf
    <3> QED  BY <1>9, <2>1, <2>4, <3>3 DEF RefCounted
  <2> QED  BY <2>3, <2>4
<1>14. SubscribersHold'
  <2> SUFFICES ASSUME NEW i \in DOMAIN msgs', NEW k \in DOMAIN msgs'[i].callbacks
               PROVE  held'[msgs'[i].callbacks[k][1]][msgs'[i].name] = i
    BY DEF SubscribersHold
  <2> DEFINE x == msgs[i].callbacks[k][1]
  <2>1. /\ i \in DOMAIN msgs
        /\ msgs'[i].name = msgs[i].name
        /\ msgs'[i].callbacks = msgs[i].callbacks
        /\ k \in DOMAIN msgs[i].callbacks
        /\ held[x][msgs[i].name] = i
    BY <1>8, <1>9 DEF SubscribersHold
  <2>2. /\ msgs[i].name \in Names
        /\ msgs[i].callbacks \in Seq(Sub)
        /\ x \in Holders
    <3>1. msgs[i] \in MsgEntry
      BY <1>1, <2>1
    <3>2. msgs[i].name \in Names /\ msgs[i].callbacks \in Seq(Sub)
      BY <3>1 DEF MsgEntry
    <3>3. msgs[i].callbacks[k] \in Sub
      BY <2>1, <3>2
    <3> QED  BY <3>2, <3>3 DEF Sub
  <2>3. ~ (x = h /\ msgs[i].name = n)
    <3> SUFFICES ASSUME x = h, msgs[i].name = n PROVE FALSE
      OBVIOUS
    <3>1. i = id
      BY <1>0, <2>1
    <3> QED  BY <1>2, <2>1, <2>2, <3>1, FirstOfProps
  <2> HIDE DEF x
  <2>4. held'[x][msgs[i].name] = i
    BY <1>3, <2>1, <2>2, <2>3
  <2> QED  BY <2>1, <2>4 DEF x
<1>15. TableTrimmed'
  <2>1. CASE IsFree(one, id)
    BY <1>2, <1>7, <2>1, PopFreeProps DEF TableTrimmed
  <2>2. CASE ~ IsFree(one, id)
    <3>1. msgs' = one
      BY <1>2, <2>2
    <3>2. Len(msgs) \in DOMAIN msgs /\ msgs # <<>>
      BY <1>1, LenProperties, EmptySeq
    <3> QED  BY <1>7, <2>2, <3>1, <3>2 DEF TableTrimmed, IsFree
  <2> QED  BY <2>1, <2>2
<1> QED  BY <1>10, <1>11, <1>12, <1>13, <1>14, <1>15

\* Sending changes nothing but the record of what it reached.
\* The table's invariant does not depend on what was delivered.
LEMMA DeliveredInv ==
  ASSUME Inv, UNCHANGED <<msgs, held>>,
         delivered' \in [name : Names \cup {"none"}, to : Seq(Sub)]
  PROVE  Inv'
<1>1. TypeOK'
  BY DEF Inv, TypeOK
<1>2. /\ NamesUnique'
      /\ IdDenotesName'
      /\ RefCounted'
      /\ SubscribersHold'
      /\ TableTrimmed'
  BY DEF Inv, NamesUnique, IdDenotesName, RefCounted, HoldersOf,
         SubscribersHold, TableTrimmed, IsFree
<1> QED  BY <1>1, <1>2 DEF Inv

LEMMA DeliverInv ==
  ASSUME Inv, NEW h \in Holders, NEW n \in Names,
         BroadcastMsg(h, n) \/ \E t \in Holders : SendMsg(h, n, t)
  PROVE  Inv'
<1>0. PICK id : id = held[h][n]
  OBVIOUS
<1>1. UNCHANGED <<msgs, held>> /\ id \in DOMAIN msgs
  BY <1>0 DEF BroadcastMsg, SendMsg, Inv, IdDenotesName
<1>2. msgs \in Seq(MsgEntry) /\ msgs[id] \in MsgEntry
  BY <1>1 DEF Inv, TypeOK
<1>3. msgs[id].callbacks \in Seq(Sub)
  BY <1>2 DEF MsgEntry
<1>4. delivered' \in [name : Names \cup {"none"}, to : Seq(Sub)]
  <2>1. CASE BroadcastMsg(h, n)
    BY <1>0, <1>3, <2>1 DEF BroadcastMsg
  <2>2. CASE \E t \in Holders : SendMsg(h, n, t)
    <3>1. PICK t \in Holders : SendMsg(h, n, t)
      BY <2>2
    <3> DEFINE i == FirstOf(msgs[id].callbacks, t)
               to == IF i = 0 THEN <<>> ELSE <<msgs[id].callbacks[i]>>
    <3>2. delivered' = [name |-> n, to |-> to]
      BY <1>0, <3>1 DEF SendMsg
    <3>3. to \in Seq(Sub)
      <4>1. i # 0 => msgs[id].callbacks[i] \in Sub
        BY <1>3, FirstOfProps
      <4> QED  BY <4>1
    <3> QED  BY <3>2, <3>3
  <2> QED  BY <2>1, <2>2
<1> QED  BY <1>1, <1>4, DeliveredInv

LEMMA NextInv == Inv /\ [Next]_vars => Inv'
<1> SUFFICES ASSUME Inv, [Next]_vars PROVE Inv'
  OBVIOUS
<1>1. ASSUME NEW h \in Holders, NEW n \in Names, GetMsgID(h, n)
      PROVE  Inv'
  <2>1. PICK id : GivesEntry(h, n, id)
    BY <1>1, GetGives DEF Inv
  <2> QED  BY <1>1, <2>1, GivesInv DEF GetMsgID
<1>2. ASSUME NEW h \in Holders, NEW n \in Names, ReleaseMsgID(h, n)
      PROVE  Inv'
  BY <1>2, ReleaseInv
<1>3. ASSUME NEW h \in Holders, NEW n \in Names, NEW cb \in Callbacks,
             SubscribeMsg(h, n, cb)
      PROVE  Inv'
  BY <1>3, SubscribeInv
<1>4. ASSUME NEW h \in Holders, NEW n \in Names, NEW cb \in Callbacks,
             UnsubscribeMsg(h, n, cb)
      PROVE  Inv'
  BY <1>4, UnsubscribeInv
<1>5. ASSUME NEW h \in Holders, NEW n \in Names,
             BroadcastMsg(h, n) \/ \E t \in Holders : SendMsg(h, n, t)
      PROVE  Inv'
  BY <1>5, DeliverInv
<1>6. CASE UNCHANGED vars
  BY <1>6 DEF vars, Inv, TypeOK, NamesUnique, IdDenotesName, RefCounted, HoldersOf,
              SubscribersHold, TableTrimmed, IsFree
<1> QED  BY <1>1, <1>2, <1>3, <1>4, <1>5, <1>6 DEF Next

\* The conjunction of the invariants of the table holds in every reachable
\* state, for any clients, names and callbacks.
THEOREM Invariance == Spec => []Inv
<1>1. Init => Inv
  BY InitInv
<1>2. Inv /\ [Next]_vars => Inv'
  BY NextInv
<1> QED  BY <1>1, <1>2, PTL DEF Spec

\* No two entries, live or free, have the same name: GetMsgID's scan finds a
\* message's entry if it has one (MsgPluginManager.cpp:120-147).
THEOREM NamesStayUnique == Spec => []NamesUnique
<1>1. Inv => NamesUnique
  BY DEF Inv
<1> QED  BY <1>1, Invariance, PTL

\* A message id that a client has not released (MsgPluginManager.cpp:120-147,
\* 208-222) is live and denotes the name it was obtained for.
THEOREM IdsStayValid == Spec => []IdDenotesName
<1>1. Inv => IdDenotesName
  BY DEF Inv
<1> QED  BY <1>1, Invariance, PTL

\* The reference count of an entry is the number of clients that hold it.
THEOREM CountsExact == Spec => []RefCounted
<1>1. Inv => RefCounted
  BY DEF Inv
<1> QED  BY <1>1, Invariance, PTL

\* A free entry has no subscriber, and every subscriber holds the id.
THEOREM NoStraySubscriber == Spec => []SubscribersHold
<1>1. Inv => SubscribersHold
  BY DEF Inv
<1> QED  BY <1>1, Invariance, PTL

-----------------------------------------------------------------------------
(* The table implements the bus.                                             *)

\* A free entry's list is empty: a subscriber would hold the entry's id, and
\* an id that is held is live.
LEMMA FreeIsEmpty ==
  ASSUME Inv, NEW i \in DOMAIN msgs, IsFree(msgs, i)
  PROVE  msgs[i].callbacks = <<>>
<1> USE DEF Inv
<1>1. msgs \in Seq(MsgEntry) /\ msgs[i] \in MsgEntry /\ i # NoId
  BY DEF TypeOK, NoId
<1>2. msgs[i].callbacks \in Seq(Sub) /\ msgs[i].name \in Names
  BY <1>1 DEF MsgEntry
<1>3. SUFFICES ASSUME msgs[i].callbacks # <<>> PROVE FALSE
  OBVIOUS
<1>4. 1 \in DOMAIN msgs[i].callbacks /\ msgs[i].callbacks[1] \in Sub
  BY <1>2, <1>3, EmptySeq, LenProperties
<1>5. /\ msgs[i].callbacks[1][1] \in Holders
      /\ held[msgs[i].callbacks[1][1]][msgs[i].name] = i
  BY <1>4 DEF Sub, SubscribersHold
<1> QED  BY <1>1, <1>2, <1>5 DEF IdDenotesName

\* The subscribers of a name are the list of the one entry with that name.
SubscribersFound ==
  \A k \in Names : /\ EntryOf(k) = {} => BusSubscribers[k] = <<>>
                   /\ \A i \in EntryOf(k) : BusSubscribers[k] = msgs[i].callbacks

LEMMA SubscribersOf == Inv => SubscribersFound
<1> SUFFICES ASSUME Inv, NEW k \in Names
             PROVE  /\ EntryOf(k) = {} => BusSubscribers[k] = <<>>
                    /\ \A i \in EntryOf(k) : BusSubscribers[k] = msgs[i].callbacks
  BY DEF SubscribersFound
<1>1. \A i, j \in EntryOf(k) : i = j
  BY DEF Inv, NamesUnique, EntryOf
<1>2. ASSUME NEW i \in EntryOf(k)
      PROVE  (CHOOSE j \in EntryOf(k) : TRUE) = i
  BY <1>1
<1> QED  BY <1>2 DEF BusSubscribers

LEMMA SubscribersOfNext == Inv' => SubscribersFound'
BY SubscribersOf, PTL

\* The initial table is the initial bus.
LEMMA InitBus == Init => Bus!Init
<1> SUFFICES ASSUME Init PROVE Bus!Init
  OBVIOUS
<1>1. BusAcquired = [h \in Holders |-> {}]
  BY DEF Init, BusAcquired
<1>2. \A n \in Names : EntryOf(n) = {}
  BY DEF Init, EntryOf
<1>3. BusSubscribers = [n \in Names |-> <<>>]
  BY <1>2 DEF BusSubscribers
<1> QED  BY <1>1, <1>3 DEF Init, Bus!Init, Bus!Nothing

\* If a step leaves every nonempty list where its name finds it, and adds
\* only empty ones, the bus's subscribers do not change.
LEMMA SameSubscribers ==
  ASSUME Inv, Inv',
         \A i \in DOMAIN msgs : \/ msgs[i].callbacks = <<>>
                                \/ /\ i \in DOMAIN msgs'
                                   /\ msgs'[i].name = msgs[i].name
                                   /\ msgs'[i].callbacks = msgs[i].callbacks,
         \A i \in DOMAIN msgs' : \/ msgs'[i].callbacks = <<>>
                                 \/ /\ i \in DOMAIN msgs
                                    /\ msgs'[i].name = msgs[i].name
                                    /\ msgs'[i].callbacks = msgs[i].callbacks
  PROVE  BusSubscribers' = BusSubscribers
<1>0. SubscribersFound /\ SubscribersFound'
  BY SubscribersOf, SubscribersOfNext
<1>1. SUFFICES ASSUME NEW k \in Names
               PROVE  BusSubscribers'[k] = BusSubscribers[k]
  BY DEF BusSubscribers
<1>2. CASE \E i \in EntryOf(k) : msgs[i].callbacks # <<>>
  <2>1. PICK i \in EntryOf(k) : msgs[i].callbacks # <<>>
    BY <1>2
  <2>2. i \in EntryOf(k)' /\ msgs'[i].callbacks = msgs[i].callbacks
    BY <2>1 DEF EntryOf
  <2> QED  BY <1>0, <2>1, <2>2 DEF SubscribersFound
<1>3. CASE \E i \in EntryOf(k)' : msgs'[i].callbacks # <<>>
  <2>1. PICK i \in EntryOf(k)' : msgs'[i].callbacks # <<>>
    BY <1>3
  <2>2. i \in EntryOf(k) /\ msgs'[i].callbacks = msgs[i].callbacks
    BY <2>1 DEF EntryOf
  <2> QED  BY <1>0, <2>1, <2>2 DEF SubscribersFound
<1>4. CASE /\ \A i \in EntryOf(k) : msgs[i].callbacks = <<>>
           /\ \A i \in EntryOf(k)' : msgs'[i].callbacks = <<>>
  <2>1. BusSubscribers[k] = <<>>
    BY <1>0, <1>4 DEF SubscribersFound
  <2>2. BusSubscribers'[k] = <<>>
    BY <1>0, <1>4 DEF SubscribersFound
  <2> QED  BY <2>1, <2>2
<1> QED  BY <1>2, <1>3, <1>4

\* What a client's subscriptions look like to the bus: the list of its id.
LEMMA HeldSubscribers ==
  ASSUME Inv, NEW h \in Holders, NEW n \in Names, held[h][n] # NoId
  PROVE  /\ held[h][n] \in EntryOf(n)
         /\ BusSubscribers[n] = msgs[held[h][n]].callbacks
         /\ n \in BusAcquired[h]
<1>1. held[h][n] \in EntryOf(n)
  BY DEF Inv, IdDenotesName, EntryOf
<1> QED  BY <1>1, SubscribersOf DEF SubscribersFound, BusAcquired

\* Giving or taking an id is acquiring or releasing the name.
LEMMA AcquiredNext ==
  ASSUME TypeOK, NEW h \in Holders, NEW n \in Names, NEW id,
         held' = [held EXCEPT ![h][n] = id]
  PROVE  /\ id # NoId => BusAcquired' = [BusAcquired EXCEPT ![h] = @ \cup {n}]
         /\ id = NoId => BusAcquired' = [BusAcquired EXCEPT ![h] = @ \ {n}]
<1>1. /\ \A g \in Holders : g # h => held'[g] = held[g]
      /\ \A k \in Names : held'[h][k] = IF k = n THEN id ELSE held[h][k]
  BY DEF TypeOK
<1>2. \A g \in Holders : g # h => BusAcquired'[g] = BusAcquired[g]
  BY <1>1 DEF BusAcquired
<1>3. CASE id # NoId
  <2>1. BusAcquired'[h] = BusAcquired[h] \cup {n}
    BY <1>1, <1>3 DEF BusAcquired
  <2> QED  BY <1>2, <1>3, <2>1 DEF BusAcquired
<1>4. CASE id = NoId
  <2>1. BusAcquired'[h] = BusAcquired[h] \ {n}
    BY <1>1, <1>4 DEF BusAcquired
  <2> QED  BY <1>2, <1>4, <2>1 DEF BusAcquired
<1> QED  BY <1>3, <1>4

LEMMA GetRefines ==
  ASSUME Inv, Inv', NEW h \in Holders, NEW n \in Names, GetMsgID(h, n)
  PROVE  Bus!Acquire(h, n)
<1>1. held[h][n] = NoId /\ delivered' = delivered
  BY DEF GetMsgID
<1>2. PICK id : GivesEntry(h, n, id)
  BY GetGives DEF Inv
<1>3. held' = [held EXCEPT ![h][n] = id] /\ id # NoId
  BY <1>2 DEF GivesEntry, Give
<1>4. n \notin BusAcquired[h]
  BY <1>1 DEF BusAcquired
<1>5. BusAcquired' = [BusAcquired EXCEPT ![h] = @ \cup {n}]
  BY <1>3, AcquiredNext DEF Inv
<1>6. BusSubscribers' = BusSubscribers
  <2>1. CASE /\ id \in DOMAIN msgs
             /\ msgs[id].name = n
             /\ msgs'[id].callbacks = msgs[id].callbacks
    BY <1>2, <2>1, SameSubscribers DEF GivesEntry
  <2>2. CASE /\ id \in DOMAIN msgs => IsFree(msgs, id)
             /\ msgs'[id] = NewEntry(n)
    <3>1. msgs'[id].callbacks = <<>>
      BY <2>2 DEF NewEntry
    <3>2. id \in DOMAIN msgs => msgs[id].callbacks = <<>>
      BY <2>2, FreeIsEmpty
    <3> QED  BY <1>2, <3>1, <3>2, SameSubscribers DEF GivesEntry
  <2> QED  BY <1>2, <2>1, <2>2 DEF GivesEntry
<1> QED  BY <1>1, <1>4, <1>5, <1>6 DEF Bus!Acquire

\* FirstOf is the same operator in both modules.
LEMMA SameFirstOf == \A subs, t : Bus!FirstOf(subs, t) = FirstOf(subs, t)
BY DEF FirstOf, Bus!FirstOf

LEMMA ReleaseRefines ==
  ASSUME Inv, Inv', NEW h \in Holders, NEW n \in Names, ReleaseMsgID(h, n)
  PROVE  Bus!Release(h, n)
<1>0. PICK id : id = held[h][n]
  OBVIOUS
<1> DEFINE one == [msgs EXCEPT ![id].refCount = @ - 1]
           e   == [msgs[id] EXCEPT !.refCount = @ - 1]
<1>1. /\ id # NoId
      /\ FirstOf(msgs[id].callbacks, h) = 0
      /\ msgs' = IF IsFree(one, id) THEN PopFree(one) ELSE one
      /\ held' = [held EXCEPT ![h][n] = NoId]
      /\ delivered' = delivered
  BY <1>0 DEF ReleaseMsgID, Give
<1>2. /\ id \in DOMAIN msgs
      /\ msgs \in Seq(MsgEntry)
      /\ msgs[id] \in MsgEntry
      /\ msgs[id].refCount \in Nat \ {0}
  <2>1. /\ id \in DOMAIN msgs
        /\ msgs \in Seq(MsgEntry)
        /\ msgs[id] \in MsgEntry
        /\ ~ IsFree(msgs, id)
    BY <1>0, <1>1 DEF Inv, IdDenotesName, TypeOK
  <2> QED  BY <2>1 DEF MsgEntry, IsFree
<1>3. /\ e \in MsgEntry
      /\ e.name = msgs[id].name
      /\ e.callbacks = msgs[id].callbacks
  <2>1. msgs[id] \in MsgEntry /\ msgs[id].refCount - 1 \in Nat
    BY <1>2
  <2> QED  BY <2>1 DEF MsgEntry
<1>4. one = [msgs EXCEPT ![id] = e]
  OBVIOUS
<1> HIDE DEF e, one
<1>5. /\ one \in Seq(MsgEntry)
      /\ DOMAIN one = DOMAIN msgs
      /\ \A i \in DOMAIN msgs : one[i].name = msgs[i].name
      /\ \A i \in DOMAIN msgs : one[i].callbacks = msgs[i].callbacks
      /\ \A i \in DOMAIN msgs : i # id => one[i] = msgs[i]
  BY <1>2, <1>3, <1>4, ExceptEntry
<1>6. /\ \A i \in DOMAIN msgs' : i \in DOMAIN msgs /\ msgs'[i] = one[i]
      /\ \A i \in DOMAIN msgs : ~ IsFree(one, i) => i \in DOMAIN msgs'
  BY <1>1, <1>5, PopFreeProps
\* An entry that is free after the release has an empty list.
<1>7. \A i \in DOMAIN msgs : IsFree(one, i) => msgs[i].callbacks = <<>>
  <2> SUFFICES ASSUME NEW i \in DOMAIN msgs, IsFree(one, i)
               PROVE  msgs[i].callbacks = <<>>
    OBVIOUS
  <2>1. CASE i # id
    BY <1>5, <2>1, FreeIsEmpty DEF IsFree
  <2>2. CASE i = id
    <3>1. one[id].refCount = 0 /\ one[id] = e
      BY <1>2, <1>3, <1>4, <2>2, ExceptEntry DEF IsFree
    <3>2. msgs[id].refCount = 1
      BY <1>2, <3>1 DEF e, MsgEntry
    <3>3. HoldersOf(id) = {h}
      <4>1. Cardinality(HoldersOf(id)) = 1 /\ IsFiniteSet(HoldersOf(id))
        BY <1>2, <3>2, HoldersFinite, FS_Subset DEF Inv, RefCounted, HoldersOf
      <4>2. h \in HoldersOf(id)
        BY <1>0, <1>1 DEF Inv, IdDenotesName, HoldersOf
      <4> QED  BY <4>1, <4>2, FS_Singleton
    <3>4. /\ msgs[id].callbacks \in Seq(Sub)
          /\ \A k \in DOMAIN msgs[id].callbacks : msgs[id].callbacks[k] \in Sub
      BY <1>2 DEF MsgEntry
    <3>5. \A k \in DOMAIN msgs[id].callbacks : msgs[id].callbacks[k][1] = h
      BY <1>2, <3>3, <3>4 DEF Inv, SubscribersHold, HoldersOf, Sub
    <3>6. DOMAIN msgs[id].callbacks = {}
      BY <1>1, <3>4, <3>5, FirstOfProps
    <3>7. msgs[id].callbacks # <<>> => 1 \in DOMAIN msgs[id].callbacks
      BY <3>4, LenProperties, EmptySeq
    <3> QED  BY <2>2, <3>6, <3>7
  <2> QED  BY <2>1, <2>2
<1>8. BusSubscribers' = BusSubscribers
  BY <1>5, <1>6, <1>7, SameSubscribers
<1>9. BusAcquired' = [BusAcquired EXCEPT ![h] = @ \ {n}]
  BY <1>1, AcquiredNext DEF Inv
<1>10. n \in BusAcquired[h] /\ Bus!FirstOf(BusSubscribers[n], h) = 0
  BY <1>0, <1>1, HeldSubscribers, SameFirstOf
<1> QED  BY <1>1, <1>8, <1>9, <1>10 DEF Bus!Release

\* A step that changes the list of one entry changes the subscribers of one
\* name in the same way.
LEMMA ListRefines ==
  ASSUME Inv, Inv', NEW n \in Names, NEW id \in EntryOf(n), NEW l,
         msgs' = [msgs EXCEPT ![id].callbacks = l]
  PROVE  BusSubscribers' = [BusSubscribers EXCEPT ![n] = l]
<1>0. SubscribersFound /\ SubscribersFound'
  BY SubscribersOf, SubscribersOfNext
<1> DEFINE e == [msgs[id] EXCEPT !.callbacks = l]
<1>1. /\ msgs \in Seq(MsgEntry)
      /\ id \in DOMAIN msgs
      /\ msgs[id] \in MsgEntry
      /\ msgs[id].name = n
  BY DEF Inv, TypeOK, EntryOf
<1>2. e.name = n /\ e.callbacks = l
  BY <1>1 DEF MsgEntry
<1>3. msgs' = [msgs EXCEPT ![id] = e]
  OBVIOUS
<1> HIDE DEF e
<1>4. /\ DOMAIN msgs' = DOMAIN msgs
      /\ msgs'[id] = e
      /\ \A i \in DOMAIN msgs : i # id => msgs'[i] = msgs[i]
  BY <1>1, <1>3
<1>5. \A k \in Names : EntryOf(k)' = EntryOf(k)
  BY <1>1, <1>2, <1>4 DEF EntryOf
<1>6. ASSUME NEW k \in Names
      PROVE  BusSubscribers'[k] = IF k = n THEN l ELSE BusSubscribers[k]
  <2>1. CASE k = n
    BY <1>0, <1>2, <1>4, <1>5, <2>1 DEF SubscribersFound
  <2>2. CASE k # n /\ EntryOf(k) = {}
    BY <1>0, <1>5, <2>2 DEF SubscribersFound
  <2>3. CASE k # n /\ EntryOf(k) # {}
    <3>1. PICK i \in EntryOf(k) : TRUE
      BY <2>3
    <3>2. i # id /\ i \in EntryOf(k)' /\ msgs'[i] = msgs[i]
      BY <1>1, <1>4, <1>5, <2>3, <3>1 DEF EntryOf
    <3> QED  BY <1>0, <2>3, <3>1, <3>2 DEF SubscribersFound
  <2> QED  BY <2>1, <2>2, <2>3
<1> QED  BY <1>6 DEF BusSubscribers

LEMMA SubscribeRefines ==
  ASSUME Inv, Inv', NEW h \in Holders, NEW n \in Names, NEW cb \in Callbacks,
         SubscribeMsg(h, n, cb)
  PROVE  Bus!Subscribe(h, n, cb)
<1>0. PICK id : id = held[h][n]
  OBVIOUS
<1>1. /\ id # NoId
      /\ \A i \in DOMAIN msgs[id].callbacks : msgs[id].callbacks[i] # <<h, cb>>
      /\ msgs' = [msgs EXCEPT ![id].callbacks = Append(msgs[id].callbacks, <<h, cb>>)]
      /\ held' = held
      /\ delivered' = delivered
  BY <1>0 DEF SubscribeMsg
<1>2. /\ id \in EntryOf(n)
      /\ BusSubscribers[n] = msgs[id].callbacks
      /\ n \in BusAcquired[h]
  BY <1>0, <1>1, HeldSubscribers
<1>3. BusSubscribers' = [BusSubscribers EXCEPT ![n] = Append(@, <<h, cb>>)]
  BY <1>1, <1>2, ListRefines
<1>4. BusAcquired' = BusAcquired
  BY <1>1 DEF BusAcquired
<1> QED  BY <1>1, <1>2, <1>3, <1>4 DEF Bus!Subscribe

LEMMA UnsubscribeRefines ==
  ASSUME Inv, Inv', NEW h \in Holders, NEW n \in Names, NEW cb \in Callbacks,
         UnsubscribeMsg(h, n, cb)
  PROVE  Bus!Unsubscribe(h, n, cb)
<1>0. PICK id : id = held[h][n]
  OBVIOUS
<1>1. PICK i \in DOMAIN msgs[id].callbacks :
             /\ msgs[id].callbacks[i] = <<h, cb>>
             /\ msgs' = [msgs EXCEPT ![id].callbacks = RemoveAt(msgs[id].callbacks, i)]
  BY <1>0 DEF UnsubscribeMsg
<1>2. id # NoId /\ held' = held /\ delivered' = delivered
  BY <1>0 DEF UnsubscribeMsg
<1>3. id \in EntryOf(n) /\ BusSubscribers[n] = msgs[id].callbacks
  BY <1>0, <1>2, HeldSubscribers
<1>4. BusSubscribers' = [BusSubscribers EXCEPT ![n] = Bus!RemoveAt(@, i)]
  BY <1>1, <1>3, ListRefines DEF RemoveAt, Bus!RemoveAt
<1>5. BusAcquired' = BusAcquired
  BY <1>2 DEF BusAcquired
<1> QED  BY <1>1, <1>2, <1>3, <1>4, <1>5 DEF Bus!Unsubscribe

LEMMA DeliverRefines ==
  ASSUME Inv, NEW h \in Holders, NEW n \in Names
  PROVE  /\ BroadcastMsg(h, n) => Bus!Broadcast(h, n)
         /\ \A t \in Holders : SendMsg(h, n, t) => Bus!Send(h, n, t)
<1>1. CASE held[h][n] = NoId
  BY <1>1 DEF BroadcastMsg, SendMsg
<1>2. CASE held[h][n] # NoId
  <2>1. BusSubscribers[n] = msgs[held[h][n]].callbacks /\ n \in BusAcquired[h]
    BY <1>2, HeldSubscribers
  <2>2. UNCHANGED <<msgs, held>> => UNCHANGED <<BusAcquired, BusSubscribers>>
    BY DEF BusAcquired, BusSubscribers, EntryOf
  <2>3. BroadcastMsg(h, n) => Bus!Broadcast(h, n)
    BY <2>1, <2>2 DEF BroadcastMsg, Bus!Broadcast
  <2>4. \A t \in Holders : SendMsg(h, n, t) => Bus!Send(h, n, t)
    BY <2>1, <2>2, SameFirstOf DEF SendMsg, Bus!Send, Bus!SentTo
  <2> QED  BY <2>3, <2>4
<1> QED  BY <1>1, <1>2

LEMMA NextRefines == Inv /\ Inv' /\ [Next]_vars => [Bus!Next]_(Bus!vars)
<1> SUFFICES ASSUME Inv, Inv', [Next]_vars PROVE [Bus!Next]_(Bus!vars)
  OBVIOUS
<1>1. CASE UNCHANGED vars
  BY <1>1 DEF vars, Bus!vars, BusAcquired, BusSubscribers, EntryOf
<1>2. CASE Next
  BY <1>2, GetRefines, ReleaseRefines, SubscribeRefines, UnsubscribeRefines,
     DeliverRefines DEF Next, Bus!Next
<1> QED  BY <1>1, <1>2

\* The message table implements the bus for any clients, names and callbacks:
\* whatever ids are recycled, a message reaches exactly the subscribers of
\* its name, in subscription order.
THEOREM Implements == Spec => BusSpec
<1>1. Init => Bus!Init
  BY InitBus
<1>2. Inv /\ Inv' /\ [Next]_vars => [Bus!Next]_(Bus!vars)
  BY NextRefines
<1> QED  BY <1>1, <1>2, Invariance, PTL DEF Spec, BusSpec, Bus!Spec
=============================================================================

-------------------------- MODULE DisplayChainProofs --------------------------
(***************************************************************************)
(* Proofs about DisplayChain: whatever the worker and the output do, and   *)
(* whatever display sizes, games and frames there are, the main thread's   *)
(* handlers keep the worker's data while it runs, and leave both plugins   *)
(* with displays that exist.                                               *)
(*                                                                         *)
(* What the main thread still has to do is a number of announcements, then *)
(* the rest of one handler.  Each step of a handler finds the state its    *)
(* predecessor left, since the announcements in between leave it alone.    *)
(***************************************************************************)
EXTENDS DisplayChain, SequenceTheorems, TLAPS

(***************************************************************************)
(* The announcements: a display is found, then selected.                   *)
(***************************************************************************)
Announcing == {"selectDisplay", "findOutput", "selectOutput"}

Paired(a) ==
  \A i \in DOMAIN a :
    /\ a[i] = "findOutput" => i + 1 \in DOMAIN a /\ a[i + 1] = "selectOutput"
    /\ a[i] = "selectOutput" => i = 1 \/ a[i - 1] = "findOutput"
Has(a, step) == \E i \in DOMAIN a : a[i] = step

(***************************************************************************)
(* The handlers: the steps that follow each other, and what the next one   *)
(* finds.                                                                  *)
(***************************************************************************)
Follows == {<<"clearRunning", "joinWorker">>, <<"joinWorker", "dispose">>,
            <<"dispose", "forgetDisplay">>, <<"forgetDisplay", "load">>,
            <<"forgetDisplay", "unsubscribe">>, <<"unsubscribe", "flush">>,
            <<"stopOutput", "joinOutput">>}
Steps == {"gameStart", "clearRunning", "joinWorker", "dispose", "forgetDisplay",
          "load", "launch", "unsubscribe", "flush", "stopOutput", "joinOutput"}

Handler(r) ==
  /\ r \in Seq(Steps)
  /\ \A i \in DOMAIN r : i + 1 \in DOMAIN r => <<r[i], r[i + 1]>> \in Follows

Ready(step) ==
  /\ step \notin {"flush", "stopOutput", "joinOutput"} => present
  /\ step \in {"dispose", "forgetDisplay", "load", "launch", "unsubscribe", "flush"} =>
       worker = "none"
  /\ step \in {"forgetDisplay", "load", "unsubscribe", "flush"} => colorizer = 0
  /\ step = "launch" => colorizer # 0

(***************************************************************************)
(* What is, or is about to be, the case of the plugins' selections.        *)
(***************************************************************************)
Current(x) ==
  /\ x.kind = "plain" => x.size = source
  /\ x.kind = "color" => colorizer # 0
  /\ x = NoSource => source = NoDisplay

OutputUpdated(a) ==
  Has(a, "findOutput") \/
    IF a # <<>> /\ a[1] = "selectOutput" THEN Current(found) ELSE Current(selected)

\* The state that Watched reads is as visible as the variables.
USE DEF Watched

DisplayUpdated(a) == colorizer # 0 => dmdId = Watched \/ Has(a, "selectDisplay")

(***************************************************************************)
(* The invariant.                                                          *)
(***************************************************************************)
Split(a, r) ==
  /\ todo = a \o r
  /\ a \in Seq(Announcing) /\ Paired(a)
  /\ Handler(r) /\ (r # <<>> => Ready(r[1]))
  /\ OutputUpdated(a) /\ DisplayUpdated(a)

Counts == games \in Nat /\ posted \in Nat

\* The worker runs while its game's data is loaded, and the plugin is.
WorkerHeld ==
  /\ worker \notin {"none", "ended"} => colorizer # 0
  /\ worker = "animate" => state.nr # 0
  /\ colorizer # 0 => present
  /\ present \in BOOLEAN

Inv == Counts /\ WorkerHeld /\ \E a, r : Split(a, r)
-----------------------------------------------------------------------------
(***************************************************************************)
(* Sequences of steps.                                                     *)
(***************************************************************************)

\* A sequence of announcements that does not begin within one.
Opens(a) == Paired(a) /\ (a # <<>> => a[1] # "selectOutput")

LEMMA TailFacts ==
  ASSUME NEW S, NEW s \in Seq(S), s # <<>>
  PROVE  /\ Len(s) \in Nat \ {0} /\ DOMAIN s = 1 .. Len(s) /\ Head(s) = s[1]
         /\ Tail(s) \in Seq(S) /\ Len(Tail(s)) = Len(s) - 1
         /\ DOMAIN Tail(s) = 1 .. Len(s) - 1
         /\ \A i \in 1 .. Len(s) - 1 : Tail(s)[i] = s[i + 1]
OBVIOUS

LEMMA JoinFacts ==
  ASSUME NEW S, NEW a \in Seq(S), NEW r \in Seq(S)
  PROVE  /\ a = <<>> => a \o r = r
         /\ a # <<>> => /\ a \o r # <<>> /\ Head(a \o r) = a[1]
                        /\ Tail(a \o r) = Tail(a) \o r
<1>1. a = <<>> => a \o r = r
  BY ConcatEmptySeq
<1>2. ASSUME a # <<>>
      PROVE  /\ a \o r # <<>> /\ Head(a \o r) = a[1] /\ Tail(a \o r) = Tail(a) \o r
  <2>1. /\ a \o r \in Seq(S) /\ Len(a \o r) = Len(a) + Len(r)
        /\ \A i \in 1 .. Len(a) + Len(r) :
             (a \o r)[i] = IF i <= Len(a) THEN a[i] ELSE r[i - Len(a)]
    BY ConcatProperties
  <2>2. Len(a) \in Nat \ {0} /\ Len(r) \in Nat
    BY <1>2
  <2> DEFINE t == a \o r
             u == Tail(a) \o r
  <2>3. /\ Tail(a) \in Seq(S) /\ Len(Tail(a)) = Len(a) - 1
        /\ \A i \in 1 .. Len(a) - 1 : Tail(a)[i] = a[i + 1]
    BY <1>2, <2>2
  <2>4. /\ u \in Seq(S) /\ Len(u) = (Len(a) - 1) + Len(r)
        /\ \A i \in 1 .. (Len(a) - 1) + Len(r) :
             u[i] = IF i <= Len(a) - 1 THEN Tail(a)[i] ELSE r[i - (Len(a) - 1)]
    BY <2>3, ConcatProperties
  <2>5. t # <<>> /\ Head(t) = a[1]
    BY <2>1, <2>2
  <2>6. /\ Tail(t) \in Seq(S) /\ Len(Tail(t)) = Len(t) - 1
        /\ \A i \in 1 .. Len(t) - 1 : Tail(t)[i] = t[i + 1]
    BY <2>1, <2>2, <2>5
  <2> HIDE DEF t, u
  <2>7. \A i \in 1 .. (Len(a) - 1) + Len(r) : Tail(t)[i] = u[i]
    <3> TAKE i \in 1 .. (Len(a) - 1) + Len(r)
    <3>1. i + 1 \in 1 .. Len(a) + Len(r) /\ i \in 1 .. Len(t) - 1
      BY <2>1, <2>2 DEF t
    <3>2. Tail(t)[i] = t[i + 1]
      BY <2>6, <3>1
    <3>3. CASE i <= Len(a) - 1
      <4>1. t[i + 1] = a[i + 1] /\ u[i] = a[i + 1]
        BY <2>1, <2>2, <2>3, <2>4, <3>1, <3>3 DEF t
      <4> QED BY <3>2, <4>1
    <3>4. CASE ~ (i <= Len(a) - 1)
      <4>1. /\ t[i + 1] = r[(i + 1) - Len(a)] /\ u[i] = r[i - (Len(a) - 1)]
            /\ (i + 1) - Len(a) = i - (Len(a) - 1)
        BY <2>1, <2>2, <2>4, <3>1, <3>4 DEF t
      <4> QED BY <3>2, <4>1
    <3> QED BY <3>3, <3>4
  <2>8. Tail(t) = u
    <3>1. Len(Tail(t)) = (Len(a) - 1) + Len(r)
      BY <2>1, <2>2, <2>6 DEF t
    <3>2. Len(Tail(t)) = Len(u)
      BY <2>4, <3>1
    <3>3. \A i \in 1 .. Len(Tail(t)) : Tail(t)[i] = u[i]
      BY <2>7, <3>1
    <3> QED BY <2>4, <2>6, <3>2, <3>3, SeqEqual
  <2> QED BY <2>5, <2>8 DEF t, u
<1> QED BY <1>1, <1>2

LEMMA PairedTail ==
  ASSUME NEW a \in Seq(Announcing), a # <<>>, Paired(a)
  PROVE  /\ Tail(a) \in Seq(Announcing) /\ Paired(Tail(a))
         /\ a[1] = "findOutput" => Tail(a) # <<>> /\ Tail(a)[1] = "selectOutput"
         /\ a[1] # "findOutput" => Opens(Tail(a))
         /\ \A step : Has(a, step) <=> a[1] = step \/ Has(Tail(a), step)
<1> DEFINE t == Tail(a)
           k == Len(a)
<1>1. /\ k \in Nat \ {0} /\ DOMAIN a = 1 .. k
      /\ t \in Seq(Announcing) /\ Len(t) = k - 1 /\ DOMAIN t = 1 .. k - 1
  BY TailFacts
<1>2. \A i \in 1 .. k - 1 : t[i] = a[i + 1]
  BY TailFacts
<1> HIDE DEF t, k
<1>3. ASSUME NEW i \in 1 .. k - 1, t[i] = "findOutput"
      PROVE  i + 1 \in 1 .. k - 1 /\ t[i + 1] = "selectOutput"
  <2>1. i + 1 \in 1 .. k
    BY <1>1
  <2>2. a[i + 1] = "findOutput"
    BY <1>2, <1>3
  <2>3. (i + 1) + 1 \in 1 .. k /\ a[(i + 1) + 1] = "selectOutput"
    BY <1>1, <2>1, <2>2 DEF Paired
  <2>4. i + 1 \in 1 .. k - 1
    BY <1>1, <2>3
  <2> QED BY <1>2, <2>3, <2>4
<1>4. ASSUME NEW i \in 1 .. k - 1, t[i] = "selectOutput", i # 1
      PROVE  t[i - 1] = "findOutput"
  <2>1. /\ i + 1 \in 1 .. k /\ i + 1 # 1 /\ (i + 1) - 1 = i
        /\ i - 1 \in 1 .. k - 1 /\ (i - 1) + 1 = i
    BY <1>1, <1>4
  <2>2. a[i + 1] = "selectOutput"
    BY <1>2, <1>4
  <2>3. a[i] = "findOutput"
    BY <1>1, <2>1, <2>2 DEF Paired
  <2>4. t[i - 1] = a[(i - 1) + 1]
    BY <1>2, <2>1
  <2> QED BY <2>1, <2>3, <2>4
<1>5. Paired(t)
  BY <1>1, <1>3, <1>4 DEF Paired
<1>6. t # <<>> => 2 \in 1 .. k /\ 1 \in 1 .. k - 1 /\ t[1] = a[2]
  <2>1. k = 1 => t = <<>>
    BY <1>1
  <2>2. k # 1 => 2 \in 1 .. k /\ 1 \in 1 .. k - 1 /\ 1 + 1 = 2
    BY <1>1
  <2> QED BY <1>2, <2>1, <2>2
<1>7. ASSUME a[1] = "findOutput"
      PROVE  t # <<>> /\ t[1] = "selectOutput"
  <2>1. 1 \in DOMAIN a /\ 1 + 1 = 2
    BY <1>1
  <2>2. 2 \in DOMAIN a /\ a[2] = "selectOutput"
    BY <1>7, <2>1 DEF Paired
  <2>3. k # 1
    BY <1>1, <2>2
  <2>4. t # <<>>
    BY <1>1, <2>3
  <2> QED BY <1>6, <2>2, <2>4
<1>8. a[1] # "findOutput" => Opens(t)
  <2> SUFFICES ASSUME a[1] # "findOutput", t # <<>>, t[1] = "selectOutput" PROVE FALSE
    BY <1>5 DEF Opens
  <2>1. 2 \in 1 .. k /\ a[2] = "selectOutput"
    BY <1>6
  <2>2. \A i \in 1 .. k : i = 2 => i = 1 \/ a[i - 1] = "findOutput"
    BY <1>1, <2>1 DEF Paired
  <2>3. \A i \in 1 .. k : \A j \in 1 .. k : i = 2 /\ j = 1 => a[j] = "findOutput"
    BY <2>2
  <2>4. 1 \in 1 .. k
    BY <1>1
  <2> QED BY <2>1, <2>3, <2>4
<1>9. ASSUME NEW step
      PROVE  Has(a, step) <=> a[1] = step \/ Has(t, step)
  <2>1. \A i \in 1 .. k : i # 1 => i - 1 \in 1 .. k - 1 /\ (i - 1) + 1 = i
    BY <1>1
  <2>2. ASSUME NEW i \in 1 .. k, i # 1
        PROVE  i - 1 \in 1 .. k - 1 /\ t[i - 1] = a[i]
    BY <1>2, <2>1, <2>2
  <2>3. Has(a, step) => a[1] = step \/ Has(t, step)
    BY <1>1, <2>2 DEF Has
  <2>4. 1 \in 1 .. k /\ \A i \in 1 .. k - 1 : i + 1 \in 1 .. k
    BY <1>1
  <2>5. a[1] = step \/ Has(t, step) => Has(a, step)
    BY <1>1, <1>2, <2>4 DEF Has
  <2> QED BY <2>3, <2>5
<1> QED BY <1>1, <1>5, <1>7, <1>8, <1>9 DEF t

\* The sequences of two and of three.
LEMMA Tuples ==
  ASSUME NEW x, NEW y, NEW z
  PROVE  /\ <<>> \o <<y, z>> = <<y, z>> /\ <<y, z>> \o <<>> = <<y, z>>
         /\ <<x>> \o <<y, z>> = <<x, y, z>> /\ <<y, z>> \o <<x>> = <<y, z, x>>
<1> DEFINE S == {x, y, z}
           p == <<x>>
           q == <<y, z>>
<1>1. p \in Seq(S) /\ Len(p) = 1 /\ p[1] = x
  OBVIOUS
<1>2. q \in Seq(S) /\ Len(q) = 2 /\ q[1] = y /\ q[2] = z
  OBVIOUS
<1>3. <<x, y, z>> \in Seq(S) /\ <<y, z, x>> \in Seq(S)
  OBVIOUS
<1> HIDE DEF S, p, q
<1>4. <<>> \o q = q /\ q \o <<>> = q
  BY <1>2, ConcatEmptySeq
<1>5. p \o q = <<x, y, z>>
  <2>1. /\ p \o q \in Seq(S) /\ Len(p \o q) = 3
        /\ (p \o q)[1] = x /\ (p \o q)[2] = y /\ (p \o q)[3] = z
    BY <1>1, <1>2, ConcatProperties
  <2> DEFINE t == p \o q
             u == <<x, y, z>>
  <2>2. u \in Seq(S) /\ Len(u) = 3 /\ u[1] = x /\ u[2] = y /\ u[3] = z
    BY <1>3
  <2> HIDE DEF t, u
  <2>3. \A i \in 1 .. Len(t) : t[i] = u[i]
    BY <2>1, <2>2 DEF t
  <2>4. t = u
    BY <2>1, <2>2, <2>3, SeqEqual DEF t
  <2> QED BY <2>4 DEF t, u
<1>6. q \o p = <<y, z, x>>
  <2>1. /\ q \o p \in Seq(S) /\ Len(q \o p) = 3
        /\ (q \o p)[1] = y /\ (q \o p)[2] = z /\ (q \o p)[3] = x
    BY <1>1, <1>2, ConcatProperties
  <2> DEFINE t == q \o p
             u == <<y, z, x>>
  <2>2. u \in Seq(S) /\ Len(u) = 3 /\ u[1] = y /\ u[2] = z /\ u[3] = x
    BY <1>3
  <2> HIDE DEF t, u
  <2>3. \A i \in 1 .. Len(t) : t[i] = u[i]
    BY <2>1, <2>2 DEF t
  <2>4. t = u
    BY <2>1, <2>2, <2>3, SeqEqual DEF t
  <2> QED BY <2>4 DEF t, u
<1> QED BY <1>4, <1>5, <1>6 DEF p, q

LEMMA Pair ==
  ASSUME NEW y, NEW z
  PROVE  <<y>> \o <<z>> = <<y, z>>
<1> DEFINE S == {y, z}
           p == <<y>>
           q == <<z>>
           t == p \o q
           u == <<y, z>>
<1>1. p \in Seq(S) /\ Len(p) = 1 /\ p[1] = y /\ q \in Seq(S) /\ Len(q) = 1 /\ q[1] = z
  OBVIOUS
<1>2. u \in Seq(S) /\ Len(u) = 2 /\ u[1] = y /\ u[2] = z
  OBVIOUS
<1> HIDE DEF S, p, q, u
<1>3. t \in Seq(S) /\ Len(t) = 2 /\ t[1] = y /\ t[2] = z
  <2>1. /\ t \in Seq(S) /\ Len(t) = Len(p) + Len(q)
        /\ \A i \in 1 .. Len(p) + Len(q) :
             t[i] = IF i <= Len(p) THEN p[i] ELSE q[i - Len(p)]
    BY <1>1, ConcatProperties
  <2> HIDE DEF t
  <2> QED BY <1>1, <2>1
<1> HIDE DEF t
<1>4. \A i \in 1 .. Len(t) : t[i] = u[i]
  BY <1>2, <1>3
<1>5. t = u
  BY <1>2, <1>3, <1>4, SeqEqual
<1> QED BY <1>5 DEF t, u, p, q

\* An announcement, whatever the order of the subscribers is.
LEMMA AnnounceProps ==
  ASSUME present \in BOOLEAN
  PROVE  /\ Announce \in Seq(Announcing) /\ Opens(Announce) /\ Has(Announce, "findOutput")
         /\ present => Has(Announce, "selectDisplay")
         /\ Len(Announce) \in {2, 3}
         /\ Announce[Len(Announce)] # "findOutput"
<1>1. CASE present /\ ColorFirst
  <2> DEFINE s == <<"selectDisplay", "findOutput", "selectOutput">>
  <2>1. Announce = s
    BY <1>1, Tuples DEF Announce
  <2>2. s \in Seq(Announcing) /\ Len(s) = 3 /\ DOMAIN s = {1, 2, 3}
    BY DEF Announcing
  <2>3. s[1] = "selectDisplay" /\ s[2] = "findOutput" /\ s[3] = "selectOutput"
    OBVIOUS
  <2> HIDE DEF s
  <2>4. Paired(s)
    BY <2>2, <2>3 DEF Paired
  <2> QED BY <2>1, <2>2, <2>3, <2>4 DEF Opens, Has
<1>2. CASE present /\ ~ ColorFirst
  <2> DEFINE s == <<"findOutput", "selectOutput", "selectDisplay">>
  <2>1. Announce = s
    BY <1>2, Tuples DEF Announce
  <2>2. s \in Seq(Announcing) /\ Len(s) = 3 /\ DOMAIN s = {1, 2, 3}
    BY DEF Announcing
  <2>3. s[1] = "findOutput" /\ s[2] = "selectOutput" /\ s[3] = "selectDisplay"
    OBVIOUS
  <2> HIDE DEF s
  <2>4. Paired(s)
    BY <2>2, <2>3 DEF Paired
  <2> QED BY <2>1, <2>2, <2>3, <2>4 DEF Opens, Has
<1>3. CASE ~ present
  <2> DEFINE s == <<"findOutput", "selectOutput">>
  <2>1. Announce = s
    BY <1>3, ColorFirstBool, Tuples DEF Announce
  <2>2. s \in Seq(Announcing) /\ Len(s) = 2 /\ DOMAIN s = {1, 2}
    BY DEF Announcing
  <2>3. s[1] = "findOutput" /\ s[2] = "selectOutput"
    OBVIOUS
  <2> HIDE DEF s
  <2>4. Paired(s)
    BY <2>2, <2>3 DEF Paired
  <2> QED BY <1>3, <2>1, <2>2, <2>3, <2>4 DEF Opens, Has
<1> QED BY <1>1, <1>2, <1>3, ColorFirstBool

\* All the announcements that wait, one after the other.
LEMMA RunAllProps ==
  ASSUME present \in BOOLEAN, posted \in Nat
  PROVE  /\ RunAll \in Seq(Announcing) /\ Opens(RunAll)
         /\ RunAll = <<>> \/ Has(RunAll, "findOutput")
<1> DEFINE m == Len(Announce)
           n == posted * m
           At(i) == 1 + ((i - 1) % m)
<1>1. /\ Announce \in Seq(Announcing) /\ Paired(Announce) /\ Announce[1] # "selectOutput"
      /\ Has(Announce, "findOutput") /\ m \in {2, 3}
      /\ DOMAIN Announce = 1 .. m /\ Announce[m] # "findOutput"
  BY AnnounceProps DEF Opens
<1>2. RunAll = [i \in 1 .. n |-> Announce[At(i)]]
  BY DEF RunAll
<1>3. n \in Nat /\ (n # 0 => n >= m)
  <2>1. CASE m = 2
    BY <2>1
  <2>2. CASE m = 3
    BY <2>2
  <2> QED BY <1>1, <2>1, <2>2
<1>4. \A i \in 1 .. n : At(i) \in 1 .. m
  <2>1. CASE m = 2
    BY <2>1, <1>3
  <2>2. CASE m = 3
    BY <2>2, <1>3
  <2> QED BY <1>1, <2>1, <2>2
<1>5. \A i \in 1 .. n : At(i) # m => i + 1 \in 1 .. n /\ At(i + 1) = At(i) + 1
  <2>1. CASE m = 2
    BY <2>1
  <2>2. CASE m = 3
    BY <2>2
  <2> QED BY <1>1, <2>1, <2>2
<1>6. \A i \in 1 .. n : At(i) # 1 => i - 1 \in 1 .. n /\ At(i - 1) = At(i) - 1
  <2>1. CASE m = 2
    BY <2>1, <1>3
  <2>2. CASE m = 3
    BY <2>2, <1>3
  <2> QED BY <1>1, <2>1, <2>2
<1>7. \A i \in 1 .. m : n # 0 => i \in 1 .. n /\ At(i) = i
  <2>1. CASE m = 2
    BY <2>1, <1>3
  <2>2. CASE m = 3
    BY <2>2, <1>3
  <2> QED BY <1>1, <2>1, <2>2
<1> HIDE DEF m, n, At
<1>8. RunAll \in Seq(Announcing) /\ DOMAIN RunAll = 1 .. n
  <2>1. \A i \in 1 .. n : Announce[At(i)] \in Announcing
    BY <1>1, <1>4
  <2> QED BY <1>2, <1>3, <2>1, IsASeq
<1>9. \A i \in 1 .. n : RunAll[i] = Announce[At(i)]
  BY <1>2
<1>10. ASSUME NEW i \in 1 .. n, RunAll[i] = "findOutput"
       PROVE  i + 1 \in 1 .. n /\ RunAll[i + 1] = "selectOutput"
  <2>1. At(i) \in DOMAIN Announce /\ Announce[At(i)] = "findOutput" /\ At(i) # m
    BY <1>1, <1>4, <1>9, <1>10
  <2>2. Announce[At(i) + 1] = "selectOutput"
    BY <1>1, <2>1 DEF Paired
  <2> QED BY <1>5, <1>9, <2>1, <2>2
<1>11. ASSUME NEW i \in 1 .. n, RunAll[i] = "selectOutput"
       PROVE  At(i) # 1 /\ RunAll[i - 1] = "findOutput"
  <2>1. At(i) \in DOMAIN Announce /\ Announce[At(i)] = "selectOutput" /\ At(i) # 1
    BY <1>1, <1>4, <1>9, <1>11
  <2>2. Announce[At(i) - 1] = "findOutput"
    BY <1>1, <2>1 DEF Paired
  <2> QED BY <1>6, <1>9, <2>1, <2>2
<1>12. Opens(RunAll)
  <2>1. Paired(RunAll)
    BY <1>8, <1>10, <1>11 DEF Paired
  <2>2. RunAll # <<>> => RunAll[1] # "selectOutput"
    <3> SUFFICES ASSUME n # 0 PROVE RunAll[1] # "selectOutput"
      BY <1>3, <1>8
    <3>1. 1 \in 1 .. m
      BY <1>1
    <3>2. 1 \in 1 .. n /\ At(1) = 1
      BY <1>7, <3>1
    <3> QED BY <1>1, <1>9, <3>2
  <2> QED BY <2>1, <2>2 DEF Opens
<1>13. n # 0 => Has(RunAll, "findOutput")
  <2> SUFFICES ASSUME n # 0 PROVE Has(RunAll, "findOutput")
    OBVIOUS
  <2>1. PICK i \in 1 .. m : Announce[i] = "findOutput"
    BY <1>1 DEF Has
  <2>2. i \in 1 .. n /\ RunAll[i] = "findOutput"
    BY <1>7, <1>9, <2>1
  <2> QED BY <1>8, <2>2 DEF Has
<1>14. n = 0 => RunAll = <<>>
  BY <1>2, <1>8, EmptySeq
<1> QED BY <1>8, <1>12, <1>13, <1>14
-----------------------------------------------------------------------------
(***************************************************************************)
(* Handlers.                                                               *)
(***************************************************************************)
LEMMA HandlerTail ==
  ASSUME NEW r, Handler(r), r # <<>>
  PROVE  /\ Tail(r) \in Seq(Steps) /\ Handler(Tail(r)) /\ r[1] \in Steps
         /\ Tail(r) # <<>> => <<r[1], Tail(r)[1]>> \in Follows
<1> DEFINE t == Tail(r)
           k == Len(r)
<1>1. r \in Seq(Steps)
  BY DEF Handler
<1>2. /\ k \in Nat \ {0} /\ DOMAIN r = 1 .. k
      /\ t \in Seq(Steps) /\ Len(t) = k - 1 /\ DOMAIN t = 1 .. k - 1
      /\ \A i \in 1 .. k - 1 : t[i] = r[i + 1]
  BY <1>1, TailFacts
<1>3. r[1] \in Steps
  BY <1>1, <1>2
<1> HIDE DEF t, k
<1>4. \A i \in 1 .. k : i + 1 \in 1 .. k => <<r[i], r[i + 1]>> \in Follows
  BY <1>2 DEF Handler
<1>5. ASSUME NEW i \in 1 .. k - 1, i + 1 \in 1 .. k - 1
      PROVE  <<t[i], t[i + 1]>> \in Follows
  <2>1. i + 1 \in 1 .. k /\ (i + 1) + 1 \in 1 .. k
    BY <1>2, <1>5
  <2>2. t[i] = r[i + 1] /\ t[i + 1] = r[(i + 1) + 1]
    BY <1>2, <1>5
  <2> QED BY <1>4, <2>1, <2>2
<1>6. Handler(t)
  BY <1>2, <1>5 DEF Handler
<1>7. t # <<>> => <<r[1], t[1]>> \in Follows
  <2> SUFFICES ASSUME t # <<>> PROVE <<r[1], t[1]>> \in Follows
    OBVIOUS
  <2>1. k # 1
    BY <1>2
  <2>2. 1 \in 1 .. k /\ 1 + 1 \in 1 .. k /\ 1 \in 1 .. k - 1
    BY <1>2, <2>1
  <2>3. t[1] = r[1 + 1]
    BY <1>2, <2>2
  <2> QED BY <1>4, <2>2, <2>3
<1> QED BY <1>2, <1>3, <1>6, <1>7 DEF t

LEMMA HandlerJoin ==
  ASSUME NEW p, NEW q, Handler(p), Handler(q), p # <<>>, q # <<>>,
         <<p[Len(p)], q[1]>> \in Follows
  PROVE  Handler(p \o q) /\ p \o q # <<>> /\ (p \o q)[1] = p[1]
<1> DEFINE t == p \o q
           k == Len(p)
           n == Len(q)
<1>1. p \in Seq(Steps) /\ q \in Seq(Steps)
  BY DEF Handler
<1>2. k \in Nat \ {0} /\ n \in Nat \ {0} /\ DOMAIN p = 1 .. k /\ DOMAIN q = 1 .. n
  BY <1>1
<1>3. /\ t \in Seq(Steps) /\ Len(t) = k + n
      /\ \A i \in 1 .. k + n : t[i] = IF i <= k THEN p[i] ELSE q[i - k]
  BY <1>1, ConcatProperties
<1>4. DOMAIN t = 1 .. k + n
  BY <1>3
<1> HIDE DEF t, k, n
<1>5. ASSUME NEW i \in 1 .. k + n, i + 1 \in 1 .. k + n
      PROVE  <<t[i], t[i + 1]>> \in Follows
  <2>1. CASE i + 1 <= k
    <3>1. i \in 1 .. k /\ i + 1 \in 1 .. k /\ t[i] = p[i] /\ t[i + 1] = p[i + 1]
      BY <1>2, <1>3, <1>5, <2>1
    <3> QED BY <1>2, <3>1 DEF Handler
  <2>2. CASE i = k
    <3>1. t[i] = p[k] /\ t[i + 1] = q[1]
      BY <1>2, <1>3, <1>5, <2>2
    <3> QED BY <3>1 DEF k
  <2>3. CASE i > k
    <3>1. /\ i - k \in 1 .. n /\ (i - k) + 1 \in 1 .. n
          /\ (i + 1) - k = (i - k) + 1 /\ ~ (i <= k) /\ ~ (i + 1 <= k)
      BY <1>2, <1>5, <2>3
    <3>2. t[i] = q[i - k] /\ t[i + 1] = q[(i - k) + 1]
      BY <1>3, <1>5, <3>1
    <3> QED BY <1>2, <3>1, <3>2 DEF Handler
  <2>4. i + 1 <= k \/ i = k \/ i > k
    BY <1>2
  <2> QED BY <2>1, <2>2, <2>3, <2>4
<1>6. Handler(t)
  BY <1>3, <1>4, <1>5 DEF Handler
<1>7. t # <<>> /\ t[1] = p[1]
  BY <1>2, <1>3
<1> QED BY <1>6, <1>7 DEF t

\* The handlers as they begin.
LEMMA Handlers ==
  /\ Handler(<<>>)
  /\ \A s \in Steps : Handler(<<s>>) /\ <<s>> # <<>> /\ <<s>>[1] = s
  /\ \A s, u \in Steps : <<s, u>> \in Follows => Handler(<<s, u>>)
  /\ Handler(StopColorization) /\ StopColorization # <<>>
  /\ StopColorization[1] = "clearRunning"
  /\ Handler(StartSteps) /\ StartSteps # <<>> /\ StartSteps[1] = "clearRunning"
  /\ \A end \in {StopColorization \o <<"unsubscribe", "flush">>} :
       Handler(end) /\ end # <<>> /\ end[1] = "clearRunning"
<1>1. Handler(<<>>)
  BY DEF Handler
<1>2. ASSUME NEW s \in Steps
      PROVE  Handler(<<s>>) /\ <<s>> # <<>> /\ <<s>>[1] = s
  <2> DEFINE t == <<s>>
  <2>1. t \in Seq(Steps) /\ DOMAIN t = {1} /\ t[1] = s /\ t # <<>>
    OBVIOUS
  <2> HIDE DEF t
  <2>2. Handler(t)
    BY <2>1 DEF Handler
  <2> QED BY <2>1, <2>2 DEF t
<1>3. ASSUME NEW s \in Steps, NEW u \in Steps, <<s, u>> \in Follows
      PROVE  Handler(<<s, u>>)
  <2> DEFINE t == <<s, u>>
  <2>1. t \in Seq(Steps) /\ DOMAIN t = {1, 2} /\ t[1] = s /\ t[2] = u
    OBVIOUS
  <2> HIDE DEF t
  <2>2. ASSUME NEW i \in {1, 2}, i + 1 \in {1, 2}
        PROVE  <<t[i], t[i + 1]>> \in Follows
    <3>1. i = 1 /\ i + 1 = 2
      BY <2>2
    <3> QED BY <1>3, <2>1, <3>1
  <2>3. Handler(t)
    BY <2>1, <2>2 DEF Handler
  <2> QED BY <2>3 DEF t
<1>4. /\ Handler(StopColorization) /\ StopColorization # <<>>
      /\ StopColorization[1] = "clearRunning"
      /\ StopColorization[Len(StopColorization)] = "forgetDisplay"
  <2> DEFINE t == StopColorization
  <2>1. /\ t \in Seq(Steps) /\ DOMAIN t = {1, 2, 3, 4} /\ Len(t) = 4 /\ t # <<>>
        /\ t[1] = "clearRunning" /\ t[2] = "joinWorker"
        /\ t[3] = "dispose" /\ t[4] = "forgetDisplay"
    BY DEF StopColorization, Steps
  <2> HIDE DEF t
  <2>2. <<t[1], t[2]>> \in Follows /\ <<t[2], t[3]>> \in Follows /\ <<t[3], t[4]>> \in Follows
    BY <2>1 DEF Follows
  <2>3. ASSUME NEW i \in {1, 2, 3, 4}, i + 1 \in {1, 2, 3, 4}
        PROVE  <<t[i], t[i + 1]>> \in Follows
    <3>1. i \in {1, 2, 3}
      BY <2>3
    <3>2. i = 1 => i + 1 = 2
      OBVIOUS
    <3>3. i = 2 => i + 1 = 3
      OBVIOUS
    <3>4. i = 3 => i + 1 = 4
      OBVIOUS
    <3> QED BY <2>2, <3>1, <3>2, <3>3, <3>4
  <2>4. Handler(t)
    BY <2>1, <2>3 DEF Handler
  <2> QED BY <2>1, <2>4 DEF t
<1>5. Handler(StartSteps) /\ StartSteps # <<>> /\ StartSteps[1] = "clearRunning"
  <2>1. "load" \in Steps /\ <<"forgetDisplay", "load">> \in Follows
    BY DEF Steps, Follows
  <2>2. Handler(<<"load">>) /\ <<"load">> # <<>> /\ <<"load">>[1] = "load"
    BY <1>2, <2>1
  <2> QED BY <1>4, <2>1, <2>2, HandlerJoin DEF StartSteps
<1>6. ASSUME NEW end \in {StopColorization \o <<"unsubscribe", "flush">>}
      PROVE  Handler(end) /\ end # <<>> /\ end[1] = "clearRunning"
  <2> DEFINE t == <<"unsubscribe", "flush">>
  <2>1. /\ "unsubscribe" \in Steps /\ "flush" \in Steps
        /\ <<"unsubscribe", "flush">> \in Follows
        /\ <<"forgetDisplay", "unsubscribe">> \in Follows
    BY DEF Steps, Follows
  <2>2. Handler(t) /\ t # <<>> /\ t[1] = "unsubscribe"
    BY <1>3, <2>1
  <2> HIDE DEF t
  <2>3. /\ Handler(StopColorization \o t) /\ StopColorization \o t # <<>>
        /\ (StopColorization \o t)[1] = "clearRunning"
    BY <1>4, <2>1, <2>2, HandlerJoin
  <2> QED BY <2>3 DEF t
<1> QED BY <1>1, <1>2, <1>3, <1>4, <1>5, <1>6
-----------------------------------------------------------------------------
(***************************************************************************)
(* What the main thread finds.                                             *)
(***************************************************************************)
LEMMA Apart == Steps \cap Announcing = {}
BY DEF Steps, Announcing

\* With a step of a handler ahead, nothing is left to be announced.
LEMMA HandlerStep ==
  ASSUME NEW a, NEW r, Split(a, r), NEW s \in Steps, AtStep(s)
  PROVE  /\ Tail(todo) = Tail(r) /\ Handler(Tail(r))
         /\ Tail(r) # <<>> => <<s, Tail(r)[1]>> \in Follows
         /\ Ready(s) /\ Current(selected) /\ (colorizer # 0 => dmdId = Watched)
<1>1. a \in Seq(Announcing) /\ r \in Seq(Steps)
  BY DEF Split, Handler
<1>2. a \in Seq(Announcing \cup Steps) /\ r \in Seq(Announcing \cup Steps)
  BY <1>1
<1>3. a = <<>>
  <2> SUFFICES ASSUME a # <<>> PROVE FALSE
    OBVIOUS
  <2>1. a[1] = s
    BY <1>2, JoinFacts DEF Split, AtStep
  <2>2. a[1] \in Announcing
    BY <1>1, TailFacts
  <2> QED BY <2>1, <2>2, Apart
<1>4. todo = r
  BY <1>2, <1>3, JoinFacts DEF Split
<1>5. r # <<>> /\ r[1] = s
  BY <1>1, <1>4, TailFacts DEF AtStep
<1>6. /\ Handler(Tail(r))
      /\ Tail(r) # <<>> => <<s, Tail(r)[1]>> \in Follows
  BY <1>5, HandlerTail DEF Split
<1>7. \A step : ~ Has(<<>>, step)
  BY DEF Has
<1>8. Current(selected) /\ (colorizer # 0 => dmdId = Watched)
  BY <1>3, <1>7 DEF Split, OutputUpdated, DisplayUpdated
<1> QED BY <1>4, <1>5, <1>6, <1>8 DEF Split

\* With nothing left, the selections are what they should be.
LEMMA NothingToDo ==
  ASSUME NEW a, NEW r, Split(a, r), Idle
  PROVE  Current(selected) /\ (colorizer # 0 => dmdId = Watched)
<1>1. a \in Seq(Announcing \cup Steps) /\ r \in Seq(Announcing \cup Steps)
  BY DEF Split, Handler
<1>2. a = <<>>
  BY <1>1, JoinFacts DEF Split, Idle
<1>3. \A step : ~ Has(<<>>, step)
  BY DEF Has
<1> QED BY <1>2, <1>3 DEF Split, OutputUpdated, DisplayUpdated

\* An announcement goes on as it began.
LEMMA AnnouncingStep ==
  ASSUME NEW a, NEW r, Split(a, r), NEW s \in Announcing, AtStep(s)
  PROVE  /\ a # <<>> /\ a[1] = s /\ Tail(todo) = Tail(a) \o r
         /\ Tail(a) \in Seq(Announcing) /\ Paired(Tail(a))
         /\ s = "findOutput" => Tail(a) # <<>> /\ Tail(a)[1] = "selectOutput"
         /\ s # "findOutput" => Opens(Tail(a))
         /\ \A step : Has(a, step) <=> s = step \/ Has(Tail(a), step)
<1>1. a \in Seq(Announcing) /\ r \in Seq(Steps)
  BY DEF Split, Handler
<1>2. a \in Seq(Announcing \cup Steps) /\ r \in Seq(Announcing \cup Steps)
  BY <1>1
<1>3. a # <<>>
  <2> SUFFICES ASSUME a = <<>> PROVE FALSE
    OBVIOUS
  <2>1. todo = r
    BY <1>2, JoinFacts DEF Split
  <2>2. r # <<>> /\ r[1] = s /\ r[1] \in Steps
    BY <1>1, <2>1, TailFacts DEF AtStep
  <2> QED BY <2>2, Apart
<1>4. a[1] = s /\ Tail(todo) = Tail(a) \o r
  BY <1>2, <1>3, JoinFacts DEF Split, AtStep
<1>5. Paired(a)
  BY DEF Split
<1> QED BY <1>1, <1>3, <1>4, <1>5, PairedTail

(***************************************************************************)
(* What they leave.                                                        *)
(***************************************************************************)

\* The announcements b, then the rest q of a handler, are what is left.
LEMMA Announced ==
  ASSUME NEW b \in Seq(Announcing), NEW q, Opens(b), Handler(q), todo' = b \o q,
         q # <<>> => Ready(q[1])',
         Has(b, "findOutput") \/ Current(selected)',
         colorizer' # 0 => dmdId' = Watched' \/ Has(b, "selectDisplay")
  PROVE  Split(b, q)'
<1>1. Paired(b) /\ (b # <<>> => b[1] # "selectOutput")
  BY DEF Opens
<1> QED BY <1>1 DEF Split, OutputUpdated, DisplayUpdated

\* The rest q of a handler is what is left.
LEMMA Continued ==
  ASSUME NEW q, Handler(q), todo' = q, q # <<>> => Ready(q[1])', Current(selected)',
         colorizer' # 0 => dmdId' = Watched'
  PROVE  Split(<<>>, q)'
<1>1. <<>> \in Seq(Announcing) /\ Opens(<<>>)
  BY DEF Opens, Paired
<1>2. q \in Seq(Steps)
  BY DEF Handler
<1>3. todo' = <<>> \o q
  BY <1>2, ConcatEmptySeq
<1> QED BY <1>1, <1>3, Announced

\* The threads leave it alone.
LEMMA Undisturbed ==
  ASSUME NEW a, NEW r, Split(a, r), worker = "none" => worker' = "none",
         UNCHANGED <<todo, colorizer, present, source, suits, dmdId, selected, found>>
  PROVE  Split(a, r)'
<1>1. \A step : Ready(step) => Ready(step)'
  BY DEF Ready
<1> QED BY <1>1 DEF Split, OutputUpdated, DisplayUpdated, Current
-----------------------------------------------------------------------------
(***************************************************************************)
(* The invariant is kept by the threads, by what happens to the main       *)
(* thread, and by its own steps.                                           *)
(***************************************************************************)
LEMMA ThreadsKeep ==
  ASSUME Inv, WorkerThread \/ OutputThread
  PROVE  Inv'
<1>1. UNCHANGED <<todo, colorizer, present, source, suits, dmdId, selected, found, games>>
  <2>1. CASE WorkerThread
    BY <2>1 DEF WorkerThread, ColorizeThread, CheckRunning, LockSource, NoFrame, SameFrame,
                Animate, NewFrame, Colorize, UpdateState, EndWorker, frameVars, outputVars,
                chainVars
  <2>2. CASE OutputThread
    BY <2>2 DEF OutputThread, CheckOutput, LockOutput, GetFrame, ShowFrame, EndOutput,
                colorVars, chainVars
  <2> QED BY <2>1, <2>2
<1>2. /\ worker = "none" => worker' = "none"
      /\ worker' \notin {"none", "ended"} => worker \notin {"none", "ended"}
      /\ worker' = "animate" => state'.nr # 0
      /\ posted' \in Nat
  <2>1. CASE OutputThread
    BY <2>1 DEF Inv, Counts, WorkerHeld, OutputThread, colorVars
  <2>2. CASE UpdateState
    BY <2>2 DEF Inv, Counts, UpdateState, WorkerGoes, Announcement
  <2>3. CASE CheckRunning \/ LockSource \/ NoFrame
    BY <2>3 DEF Inv, Counts, CheckRunning, LockSource, NoFrame, WorkerGoes, frameVars
  <2>4. CASE SameFrame
    BY <2>4 DEF Inv, Counts, SameFrame, WorkerGoes, frameVars
  <2>5. CASE Animate \/ NewFrame \/ Colorize \/ EndWorker
    BY <2>5 DEF Inv, Counts, Animate, NewFrame, Colorize, EndWorker, WorkerGoes, frameVars
  <2> QED BY <2>1, <2>2, <2>3, <2>4, <2>5 DEF WorkerThread, ColorizeThread
<1>3. Counts' /\ WorkerHeld'
  BY <1>1, <1>2 DEF Inv, Counts, WorkerHeld
<1>4. PICK a, r : Split(a, r)
  BY DEF Inv
<1>5. Split(a, r)'
  BY <1>1, <1>2, <1>4, Undisturbed
<1> QED BY <1>3, <1>5 DEF Inv

LEMMA EventsKeep ==
  ASSUME Inv, Events \/ ProcessCallbacks
  PROVE  Inv'
<1>1. Idle /\ UNCHANGED <<worker, colorizer, dmdId, state, selected, present, games>>
  BY DEF Events, ProcessCallbacks, TakeCallbacks, StartGame, EndGame, EndTable, ChangeSource,
         UnloadColor, Event, colorVars, outputVars, chainVars, frameVars
<1>2. Counts' /\ WorkerHeld'
  <2>1. posted' \in Nat
    BY DEF Inv, Counts, Events, ProcessCallbacks, TakeCallbacks, StartGame, EndGame, EndTable,
           ChangeSource, UnloadColor, Event, colorVars
  <2> QED BY <1>1, <2>1 DEF Inv, Counts, WorkerHeld
<1>3. PICK a, r : Split(a, r)
  BY DEF Inv
<1>4. Current(selected) /\ (colorizer # 0 => dmdId = Watched)
  BY <1>1, <1>3, NothingToDo
<1>5. present \in BOOLEAN /\ posted \in Nat /\ (colorizer # 0 => present)
  BY DEF Inv, Counts, WorkerHeld
<1>6. CASE /\ UNCHANGED <<source, suits>>
           /\ \E q : todo' = q /\ Handler(q) /\ (q # <<>> => Ready(q[1])')
  <2>1. Current(selected)' /\ (colorizer' # 0 => dmdId' = Watched')
    BY <1>1, <1>4, <1>6 DEF Current
  <2>2. PICK q : todo' = q /\ Handler(q) /\ (q # <<>> => Ready(q[1])')
    BY <1>6
  <2>3. Split(<<>>, q)'
    BY <2>1, <2>2, Continued
  <2> QED BY <1>2, <2>3 DEF Inv
<1>7. CASE \E b : /\ todo' = b /\ b \in Seq(Announcing) /\ Opens(b)
                  /\ Has(b, "findOutput") \/ (Current(selected) /\ UNCHANGED <<source, suits>>)
                  /\ colorizer # 0 => (dmdId = Watched /\ UNCHANGED <<source, suits>>) \/ Has(b, "selectDisplay")
  <2>1. PICK b : /\ todo' = b /\ b \in Seq(Announcing) /\ Opens(b)
                 /\ Has(b, "findOutput") \/ (Current(selected) /\ UNCHANGED <<source, suits>>)
                 /\ colorizer # 0 =>
                      (dmdId = Watched /\ UNCHANGED <<source, suits>>) \/ Has(b, "selectDisplay")
    BY <1>7
  <2>2. Handler(<<>>) /\ todo' = b \o <<>>
    BY <2>1, ConcatEmptySeq, Handlers
  <2>3. Has(b, "findOutput") \/ Current(selected)'
    BY <1>1, <2>1 DEF Current
  <2>4. colorizer' # 0 => dmdId' = Watched' \/ Has(b, "selectDisplay")
    BY <1>1, <2>1
  <2> QED BY <1>2, <2>1, <2>2, <2>3, <2>4, Announced DEF Inv
<1>8. CASE StartGame
  <2>1. present /\ todo' = <<"gameStart">> /\ UNCHANGED <<source, suits>>
    BY <1>8 DEF StartGame, Event, chainVars
  <2>2. Handler(<<"gameStart">>) /\ Ready("gameStart")' /\ <<"gameStart">>[1] = "gameStart"
    BY <1>1, <2>1, Handlers DEF Ready, Steps
  <2> QED BY <1>6, <2>1, <2>2
<1>9. present => Ready("clearRunning")'
  BY <1>1 DEF Ready
<1>10. CASE EndGame
  <2>1. present /\ todo' = StopColorization /\ UNCHANGED <<source, suits>>
    BY <1>10 DEF EndGame, Event, chainVars
  <2> QED BY <1>6, <1>9, <2>1, Handlers
<1>11. CASE EndTable
  <2>1. todo' = <<"stopOutput", "joinOutput">> /\ UNCHANGED <<source, suits>>
    BY <1>11 DEF EndTable, Event, chainVars
  <2>2. /\ Handler(<<"stopOutput", "joinOutput">>) /\ Ready("stopOutput")'
    BY Handlers DEF Ready, Steps, Follows
  <2>3. <<"stopOutput", "joinOutput">>[1] = "stopOutput"
    OBVIOUS
  <2> QED BY <1>6, <2>1, <2>2, <2>3
<1>12. CASE UnloadColor
  <2> DEFINE q == StopColorization \o <<"unsubscribe", "flush">>
  <2>1. present /\ todo' = q /\ UNCHANGED <<source, suits>>
    BY <1>12 DEF UnloadColor, Event, chainVars
  <2>2. Handler(q) /\ q # <<>> /\ q[1] = "clearRunning"
    BY Handlers
  <2> HIDE DEF q
  <2> QED BY <1>6, <1>9, <2>1, <2>2
<1>13. CASE ChangeSource
  <2>1. todo' = Announce
    BY <1>13 DEF ChangeSource, Event
  <2> QED BY <1>5, <1>7, <2>1, AnnounceProps
<1>14. CASE ProcessCallbacks
  <2>1. todo' = RunAll /\ UNCHANGED <<source, suits>>
    BY <1>14 DEF ProcessCallbacks, TakeCallbacks, chainVars
  <2> QED BY <1>4, <1>5, <1>7, <2>1, RunAllProps
<1> QED BY <1>8, <1>10, <1>11, <1>12, <1>13, <1>14 DEF Events

\* A handler goes on with its next step.
Leads(s) == \A step : <<s, step>> \in Follows => Ready(step)'

LEMMA PassedOn ==
  ASSUME NEW a, NEW r, Split(a, r), NEW s \in Steps, AtStep(s), Pass,
         UNCHANGED <<source, suits, selected, colorizer>>, colorizer # 0 => UNCHANGED dmdId,
         Leads(s)
  PROVE  \E q : Split(<<>>, q)'
<1>1. Handler(Tail(r)) /\ Tail(todo) = Tail(r)
  BY HandlerStep
<1>2. Tail(r) # <<>> => <<s, Tail(r)[1]>> \in Follows
  BY HandlerStep
<1>3. Current(selected)
  BY HandlerStep
<1>4. colorizer # 0 => dmdId = Watched
  BY HandlerStep
<1>5. PICK q : q = Tail(r)
  OBVIOUS
<1>6. todo' = q /\ Handler(q) /\ (q # <<>> => Ready(q[1])')
  BY <1>1, <1>2, <1>5 DEF Pass, Leads
<1>7. Current(selected)' /\ (colorizer' # 0 => dmdId' = Watched')
  BY <1>3, <1>4 DEF Current
<1>8. Split(<<>>, q)'
  BY <1>6, <1>7, Continued
<1> QED BY <1>8

\* The last step of a handler begins another, or announcements.
LEMMA LastStep ==
  ASSUME NEW a, NEW r, Split(a, r), NEW s \in {"gameStart", "load", "launch", "flush"}, AtStep(s)
  PROVE  Tail(todo) = <<>>
<1>1. s \in Steps /\ \A step : <<s, step>> \notin Follows
  BY DEF Steps, Follows
<1> QED BY <1>1, HandlerStep

LEMMA ColorStepsKeep ==
  ASSUME Inv, NEW a, NEW r, Split(a, r), UNCHANGED <<outputVars, chainVars>>,
         ClearRunning \/ JoinWorker \/ Dispose(Announce) \/ ForgetDisplay
  PROVE  Inv'
<1>1. UNCHANGED <<source, suits, selected, present>> /\ present \in BOOLEAN
  BY DEF outputVars, chainVars, Inv, WorkerHeld
<1>2. CASE ClearRunning
  <2>1. AtStep("clearRunning") /\ Pass /\ UNCHANGED <<worker, dmdId, frameVars, posted, games>>
    BY <1>2 DEF ClearRunning
  <2>2. "clearRunning" \in Steps /\ (present => Ready("joinWorker")')
    BY <1>1 DEF Steps, Ready
  <2>3. Ready("clearRunning") => present
    BY DEF Ready
  <2>4. \A step : <<"clearRunning", step>> \in Follows => step = "joinWorker"
    BY DEF Follows
  <2>5. \E q : Split(<<>>, q)'
    BY <1>1, <2>1, <2>2, <2>3, <2>4, HandlerStep, PassedOn DEF frameVars, Leads
  <2> QED BY <1>1, <2>1, <2>5 DEF Inv, Counts, WorkerHeld, frameVars
<1>3. CASE JoinWorker
  <2>1. /\ AtStep("joinWorker") /\ Pass /\ worker' = "none"
        /\ UNCHANGED <<dmdId, frameVars, posted, games>>
    BY <1>3 DEF JoinWorker
  <2>2. "joinWorker" \in Steps /\ (present => Ready("dispose")')
    BY <1>1, <2>1 DEF Steps, Ready
  <2>3. \A step : <<"joinWorker", step>> \in Follows => step = "dispose"
    BY DEF Follows
  <2>4. present
    BY <2>1, <2>2, HandlerStep DEF Ready
  <2>5. \E q : Split(<<>>, q)'
    BY <1>1, <2>1, <2>2, <2>3, <2>4, PassedOn DEF frameVars, Leads
  <2> QED BY <1>1, <2>1, <2>5 DEF Inv, Counts, WorkerHeld, frameVars
<1>4. CASE Dispose(Announce)
  <2>1. AtStep("dispose") /\ "dispose" \in Steps /\ UNCHANGED <<worker, dmdId, posted, games>>
    BY <1>4 DEF Dispose, Steps
  <2>2. present /\ worker = "none"
    BY <2>1, HandlerStep DEF Ready
  <2>3. colorizer' = 0 /\ (present /\ worker = "none" => Ready("forgetDisplay")')
    BY <1>1, <1>4, <2>1 DEF Dispose, Ready
  <2>4. \A step : <<"dispose", step>> \in Follows => step = "forgetDisplay"
    BY DEF Follows
  <2>5. Counts' /\ WorkerHeld'
    BY <1>1, <2>1, <2>2, <2>3 DEF Inv, Counts, WorkerHeld
  <2>6. CASE colorizer = 0
    <3>1. Pass /\ UNCHANGED colorizer
      BY <1>4, <2>6 DEF Dispose
    <3>2. \E q : Split(<<>>, q)'
      BY <1>1, <2>1, <2>2, <2>3, <2>4, <3>1, PassedOn DEF Leads
    <3> QED BY <2>5, <3>2 DEF Inv
  <2>7. CASE colorizer # 0
    <3>1. todo' = Announce \o Tail(r) /\ Handler(Tail(r))
      BY <1>4, <2>1, <2>7, HandlerStep DEF Dispose, PassInto
    <3>2. Tail(r) # <<>> => Ready(Tail(r)[1])'
      BY <2>1, <2>2, <2>3, <2>4, HandlerStep
    <3>3. PICK b, q : b = Announce /\ q = Tail(r)
      OBVIOUS
    <3>4. b \in Seq(Announcing) /\ Opens(b) /\ Has(b, "findOutput")
      BY <1>1, <3>3, AnnounceProps
    <3>5. todo' = b \o q /\ Handler(q) /\ (q # <<>> => Ready(q[1])')
      BY <3>1, <3>2, <3>3
    <3>6. Split(b, q)'
      BY <2>3, <3>4, <3>5, Announced
    <3> QED BY <2>5, <3>6 DEF Inv
  <2> QED BY <2>6, <2>7
<1>5. CASE ForgetDisplay
  <2>1. /\ AtStep("forgetDisplay") /\ "forgetDisplay" \in Steps /\ Pass
        /\ UNCHANGED <<worker, frameVars, posted, games>>
    BY <1>5 DEF ForgetDisplay, Steps
  <2>2. present /\ worker = "none" /\ colorizer = 0
    BY <2>1, HandlerStep DEF Ready
  <2>3. \A step : <<"forgetDisplay", step>> \in Follows => step \in {"load", "unsubscribe"}
    BY DEF Follows
  <2>4. Ready("load")' /\ Ready("unsubscribe")'
    BY <1>1, <2>1, <2>2 DEF Ready, frameVars
  <2>5. \E q : Split(<<>>, q)'
    BY <1>1, <2>1, <2>2, <2>3, <2>4, PassedOn DEF frameVars, Leads
  <2> QED BY <1>1, <2>1, <2>5 DEF Inv, Counts, WorkerHeld, frameVars
<1> QED BY <1>2, <1>3, <1>4, <1>5

LEMMA GameStepsKeep ==
  ASSUME Inv, NEW a, NEW r, Split(a, r), UNCHANGED <<outputVars, chainVars>>,
         GameStart \/ Load \/ Launch
  PROVE  Inv'
<1>1. UNCHANGED <<source, suits, selected, present>> /\ present \in BOOLEAN
  BY DEF outputVars, chainVars, Inv, WorkerHeld
<1>2. CASE GameStart
  <2>1. AtStep("gameStart") /\ "gameStart" \in Steps /\ UNCHANGED colorVars
    BY <1>2 DEF GameStart, Steps
  <2>2. present
    BY <2>1, HandlerStep DEF Ready
  <2>3. Current(selected)
    BY <2>1, HandlerStep
  <2>4. colorizer # 0 => dmdId = Watched
    BY <2>1, HandlerStep
  <2>5. Counts' /\ WorkerHeld'
    BY <1>1, <2>1 DEF Inv, Counts, WorkerHeld, colorVars
  <2>6. Tail(todo) = <<>>
    BY <2>1, LastStep
  <2>7. PICK q : q = todo'
    OBVIOUS
  <2>8. Handler(q) /\ (q # <<>> => q[1] = "clearRunning")
    <3>1. Handler(<<>>) /\ Handler(StartSteps) /\ StartSteps[1] = "clearRunning"
      BY Handlers
    <3>2. StartSteps \o <<>> = StartSteps
      BY <3>1, ConcatEmptySeq DEF Handler
    <3> QED BY <1>2, <2>6, <2>7, <3>1, <3>2 DEF GameStart, Pass, PassInto
  <2>9. Ready("clearRunning")'
    BY <1>1, <2>2 DEF Ready
  <2>10. Current(selected)' /\ (colorizer' # 0 => dmdId' = Watched')
    BY <1>1, <2>1, <2>3, <2>4 DEF Current, colorVars
  <2>11. Split(<<>>, q)'
    BY <2>7, <2>8, <2>9, <2>10, Continued
  <2> QED BY <2>5, <2>11 DEF Inv
<1>3. CASE Load
  <2>1. /\ AtStep("load") /\ "load" \in Steps /\ games' = games + 1
        /\ UNCHANGED <<worker, dmdId, state, posted>>
    BY <1>3 DEF Load, Steps
  <2>2. present /\ worker = "none" /\ colorizer = 0
    BY <2>1, HandlerStep DEF Ready
  <2>3. Counts' /\ WorkerHeld'
    BY <1>1, <2>1, <2>2 DEF Inv, Counts, WorkerHeld
  <2>4. CASE Pass /\ UNCHANGED colorizer
    <3>1. Leads("load")
      BY DEF Leads, Follows
    <3>2. \E q : Split(<<>>, q)'
      BY <1>1, <2>1, <2>4, <3>1, PassedOn
    <3> QED BY <2>3, <3>2 DEF Inv
  <2>5. CASE PassInto(<<"selectDisplay", "launch">>) /\ colorizer' = games + 1
    <3> DEFINE b == <<"selectDisplay">>
               q == <<"launch">>
    <3>1. b \in Seq(Announcing) /\ DOMAIN b = {1} /\ b[1] = "selectDisplay"
      BY DEF Announcing
    <3>2. Handler(q) /\ q[1] = "launch"
      BY Handlers DEF Steps
    <3>3. todo' = b \o q
      <4>1. Tail(todo) = <<>>
        BY <2>1, LastStep
      <4>2. <<"selectDisplay", "launch">> \o <<>> = <<"selectDisplay", "launch">>
        BY Tuples
      <4>3. b \o q = <<"selectDisplay", "launch">>
        BY Pair
      <4> QED BY <2>5, <4>1, <4>2, <4>3 DEF PassInto
    <3> HIDE DEF b, q
    <3>4. Opens(b) /\ Has(b, "selectDisplay")
      BY <3>1 DEF Opens, Paired, Has
    <3>5. colorizer' # 0
      BY <2>5 DEF Inv, Counts
    <3>6. Ready("launch")'
      BY <1>1, <2>1, <2>2, <3>5 DEF Ready
    <3>7. Current(selected)'
      <4>1. Current(selected)
        BY <2>1, HandlerStep
      <4> QED BY <1>1, <3>5, <4>1 DEF Current
    <3>8. Split(b, q)'
      BY <3>1, <3>2, <3>3, <3>4, <3>6, <3>7, Announced
    <3> QED BY <2>3, <3>8 DEF Inv
  <2> QED BY <1>3, <2>4, <2>5 DEF Load
<1>4. CASE Launch
  <2>1. /\ AtStep("launch") /\ "launch" \in Steps /\ Pass /\ worker' = "check"
        /\ UNCHANGED <<dmdId, frameVars, posted, games>>
    BY <1>4 DEF Launch, Steps
  <2>2. colorizer # 0
    BY <2>1, HandlerStep DEF Ready
  <2>3. Leads("launch")
    BY DEF Leads, Follows
  <2>4. \E q : Split(<<>>, q)'
    BY <1>1, <2>1, <2>3, PassedOn DEF frameVars
  <2> QED BY <1>1, <2>1, <2>2, <2>4 DEF Inv, Counts, WorkerHeld, frameVars
<1> QED BY <1>2, <1>3, <1>4

LEMMA SelectDisplayKeeps ==
  ASSUME Inv, NEW a, NEW r, Split(a, r), UNCHANGED <<outputVars, chainVars>>,
         SelectDisplay(source, suits)
  PROVE  Inv'
<1>1. /\ AtStep("selectDisplay") /\ "selectDisplay" \in Announcing /\ todo' = Tail(todo)
      /\ UNCHANGED <<worker, frameVars, posted, games, source, suits, selected, present>>
      /\ colorizer # 0 => dmdId' = Watched
  BY DEF SelectDisplay, Selected, Pass, Announcing, outputVars, chainVars
<1>2. PICK b : b = Tail(a)
  OBVIOUS
<1>3. /\ a # <<>> /\ a[1] = "selectDisplay" /\ todo' = b \o r
      /\ b \in Seq(Announcing) /\ Opens(b)
      /\ Has(a, "findOutput") => Has(b, "findOutput")
  BY <1>1, <1>2, AnnouncingStep
<1>4. Has(b, "findOutput") \/ Current(selected)
  BY <1>3 DEF Split, OutputUpdated
<1>5. Has(b, "findOutput") \/ Current(selected)'
  BY <1>1, <1>4 DEF Current, frameVars
<1>6. Handler(r) /\ (r # <<>> => Ready(r[1])')
  BY <1>1 DEF Split, Ready, frameVars
<1>7. Split(b, r)'
  BY <1>1, <1>3, <1>5, <1>6, Announced DEF frameVars
<1> QED BY <1>1, <1>7 DEF Inv, Counts, WorkerHeld, frameVars

LEMMA OutputStepsKeep ==
  ASSUME Inv, NEW a, NEW r, Split(a, r), UNCHANGED <<colorVars, chainVars>>,
         (\E best \in Best : FindOutput(best)) \/ SelectOutput \/ StopOutput \/ JoinOutput
  PROVE  Inv'
<1>1. UNCHANGED <<worker, colorizer, dmdId, state, posted, games, source, suits, present>>
  BY DEF colorVars, chainVars
<1>2. Counts' /\ WorkerHeld'
  BY <1>1 DEF Inv, Counts, WorkerHeld
<1>3. Handler(r) /\ (r # <<>> => Ready(r[1])')
  BY <1>1 DEF Split, Ready
<1>4. PICK b : b = Tail(a)
  OBVIOUS
<1>5. CASE \E best \in Best : FindOutput(best)
  <2> PICK best \in Best : FindOutput(best)
    BY <1>5
  <2>1. /\ AtStep("findOutput") /\ "findOutput" \in Announcing /\ todo' = Tail(todo)
        /\ found' = best
    BY DEF FindOutput, Pass, Announcing
  <2>2. /\ todo' = b \o r /\ b \in Seq(Announcing) /\ Paired(b)
        /\ b # <<>> /\ b[1] = "selectOutput"
        /\ Has(a, "selectDisplay") => Has(b, "selectDisplay")
    BY <1>4, <2>1, AnnouncingStep
  <2>3. Current(best)
    BY DEF Current, Best, Offered, NoSource
  <2>4. Current(found)'
    BY <1>1, <2>1, <2>3 DEF Current
  <2>5. colorizer' # 0 => dmdId' = Watched' \/ Has(b, "selectDisplay")
    BY <1>1, <2>2 DEF Split, DisplayUpdated
  <2>6. Split(b, r)'
    BY <1>3, <2>2, <2>4, <2>5 DEF Split, OutputUpdated, DisplayUpdated
  <2> QED BY <1>2, <2>6 DEF Inv
<1>6. CASE SelectOutput
  <2>1. /\ AtStep("selectOutput") /\ "selectOutput" \in Announcing /\ todo' = Tail(todo)
        /\ selected' = found
    BY <1>6 DEF SelectOutput, Pass, Announcing
  <2>2. /\ a # <<>> /\ a[1] = "selectOutput" /\ todo' = b \o r
        /\ b \in Seq(Announcing) /\ Opens(b)
        /\ Has(a, "findOutput") => Has(b, "findOutput")
        /\ Has(a, "selectDisplay") => Has(b, "selectDisplay")
    BY <1>4, <2>1, AnnouncingStep
  <2>3. Has(b, "findOutput") \/ Current(found)
    BY <2>2 DEF Split, OutputUpdated
  <2>4. Has(b, "findOutput") \/ Current(selected)'
    BY <1>1, <2>1, <2>3 DEF Current
  <2>5. colorizer' # 0 => dmdId' = Watched' \/ Has(b, "selectDisplay")
    BY <1>1, <2>2 DEF Split, DisplayUpdated
  <2>6. Split(b, r)'
    BY <1>3, <2>2, <2>4, <2>5, Announced
  <2> QED BY <1>2, <2>6 DEF Inv
<1>7. CASE StopOutput
  <2>1. /\ AtStep("stopOutput") /\ "stopOutput" \in Steps /\ Pass
        /\ UNCHANGED selected
    BY <1>7 DEF StopOutput, Steps
  <2>2. Leads("stopOutput")
    BY DEF Leads, Follows, Ready
  <2>3. \E q : Split(<<>>, q)'
    BY <1>1, <2>1, <2>2, PassedOn
  <2> QED BY <1>2, <2>3 DEF Inv
<1>8. CASE JoinOutput
  <2>1. /\ AtStep("joinOutput") /\ "joinOutput" \in Steps /\ Pass
        /\ UNCHANGED selected
    BY <1>8 DEF JoinOutput, Steps
  <2>2. Leads("joinOutput")
    BY DEF Leads, Follows
  <2>3. \E q : Split(<<>>, q)'
    BY <1>1, <2>1, <2>2, PassedOn
  <2> QED BY <1>2, <2>3 DEF Inv
<1> QED BY <1>5, <1>6, <1>7, <1>8

LEMMA UnloadStepsKeep ==
  ASSUME Inv, NEW a, NEW r, Split(a, r), Unsubscribe \/ Flush
  PROVE  Inv'
<1>1. UNCHANGED <<worker, colorizer, dmdId, state, games, source, suits, selected>>
  BY DEF Unsubscribe, Flush, TakeCallbacks, colorVars, frameVars, outputVars, chainVars
<1>2. CASE Unsubscribe
  <2>1. /\ AtStep("unsubscribe") /\ "unsubscribe" \in Steps /\ Pass
        /\ present' = FALSE /\ UNCHANGED posted
    BY <1>2 DEF Unsubscribe, Steps, colorVars
  <2>2. worker = "none" /\ colorizer = 0
    BY <2>1, HandlerStep DEF Ready
  <2>3. \A step : <<"unsubscribe", step>> \in Follows => step = "flush"
    BY DEF Follows
  <2>4. Ready("flush")'
    BY <1>1, <2>2 DEF Ready
  <2>5. \E q : Split(<<>>, q)'
    BY <1>1, <2>1, <2>3, <2>4, PassedOn DEF Leads
  <2> QED BY <1>1, <2>1, <2>2, <2>5 DEF Inv, Counts, WorkerHeld
<1>3. CASE Flush
  <2>1. /\ AtStep("flush") /\ "flush" \in Steps /\ todo' = RunAll \o Tail(todo)
        /\ posted' = 0 /\ UNCHANGED present
    BY <1>3 DEF Flush, PassInto, TakeCallbacks, Steps, chainVars
  <2>2. Counts' /\ WorkerHeld'
    BY <1>1, <2>1 DEF Inv, Counts, WorkerHeld
  <2>3. colorizer = 0 /\ Current(selected)
    BY <2>1, HandlerStep DEF Ready
  <2>4. PICK b : b = RunAll
    OBVIOUS
  <2>5. b \in Seq(Announcing) /\ Opens(b)
    BY <2>4, RunAllProps DEF Inv, Counts, WorkerHeld
  <2>6. todo' = b \o <<>> /\ Handler(<<>>)
    BY <2>1, <2>4, LastStep, Handlers
  <2>7. Current(selected)' /\ (colorizer' # 0 => dmdId' = Watched')
    BY <1>1, <2>3 DEF Current
  <2>8. Split(b, <<>>)'
    BY <2>5, <2>6, <2>7, Announced
  <2> QED BY <2>2, <2>8 DEF Inv
<1> QED BY <1>2, <1>3
-----------------------------------------------------------------------------
LEMMA Invariance == Spec => []Inv
<1>1. Init => Inv
  <2> SUFFICES ASSUME Init PROVE Inv
    OBVIOUS
  <2>1. Counts /\ WorkerHeld
    BY DEF Init, ColorInit, Counts, WorkerHeld
  <2>2. todo = <<>> \o <<>> /\ <<>> \in Seq(Announcing) /\ Handler(<<>>)
    BY Handlers DEF Init
  <2>3. Paired(<<>>) /\ \A step : ~ Has(<<>>, step)
    BY DEF Paired, Has
  <2>4. Current(selected) /\ colorizer = 0
    BY DEF Init, ColorInit, OutputInit, Current, NoSource
  <2>5. Split(<<>>, <<>>)
    BY <2>2, <2>3, <2>4 DEF Split, OutputUpdated, DisplayUpdated
  <2> QED BY <2>1, <2>5 DEF Inv
<1>2. Inv /\ [Next]_vars => Inv'
  <2> SUFFICES ASSUME Inv, [Next]_vars PROVE Inv'
    OBVIOUS
  <2>1. PICK a, r : Split(a, r)
    BY DEF Inv
  <2>2. CASE UNCHANGED vars
    <3>1. UNCHANGED <<todo, colorizer, present, source, suits, dmdId, selected, found,
                      worker, state, posted, games>>
      BY <2>2 DEF vars, colorVars, outputVars, chainVars
    <3>2. Split(a, r)'
      BY <2>1, <3>1, Undisturbed
    <3> QED BY <3>1, <3>2 DEF Inv, Counts, WorkerHeld
  <2>3. CASE Events \/ ProcessCallbacks
    BY <2>3, EventsKeep
  <2>4. CASE WorkerThread \/ OutputThread
    BY <2>4, ThreadsKeep
  <2>5. CASE MainThread
    BY <2>1, <2>5, ColorStepsKeep, GameStepsKeep, SelectDisplayKeeps, OutputStepsKeep,
       UnloadStepsKeep DEF MainThread
  <2> QED BY <2>2, <2>3, <2>4, <2>5 DEF Next
<1> QED BY <1>1, <1>2, PTL DEF Spec

(***************************************************************************)
(* The worker uses the library and the state only while they exist: the    *)
(* main thread disposes of them after it joined the worker, and starts a   *)
(* worker after it loaded the library.                                     *)
(***************************************************************************)
THEOREM WorkerHasItsData == Spec => []ColorizerHeld
<1>1. Inv => ColorizerHeld
  BY DEF Inv, WorkerHeld, ColorizerHeld
<1> QED BY <1>1, Invariance, PTL

(***************************************************************************)
(* A worker is started where there is none, joined or never started, also  *)
(* when the one before ended by itself.                                    *)
(***************************************************************************)
THEOREM LaunchedAfterJoin == Spec => []JoinedBeforeLaunch
<1>1. Inv => JoinedBeforeLaunch
  <2> SUFFICES ASSUME Inv, AtStep("launch") PROVE worker = "none"
    BY DEF JoinedBeforeLaunch
  <2>1. PICK a, r : Split(a, r)
    BY DEF Inv
  <2>2. Ready("launch")
    BY <2>1, HandlerStep DEF Steps
  <2> QED BY <2>2 DEF Ready
<1> QED BY <1>1, Invariance, PTL

(***************************************************************************)
(* With its handlers done, the main thread left the worker at the          *)
(* controller's display, and the output at a display that exists.          *)
(***************************************************************************)
THEOREM SelectionsExist == Spec => []SelectionsCurrent
<1>1. Inv => SelectionsCurrent
  <2> SUFFICES ASSUME Inv, Idle
               PROVE  Current(selected) /\ (colorizer # 0 => dmdId = Watched)
    BY DEF SelectionsCurrent, Current
  <2>1. PICK a, r : Split(a, r)
    BY DEF Inv
  <2> QED BY <2>1, NothingToDo
<1> QED BY <1>1, Invariance, PTL
=============================================================================

--------------------------- MODULE MainThreadQueue ---------------------------
(* The deferred callbacks of MsgPluginManager (MsgPluginManager.cpp:247-331): *)
(* any thread posts a callback with RunOnMainThread; the API thread runs the  *)
(* due ones in ProcessAsyncCallbacks, once per frame, and all of a plugin's   *)
(* in FlushPendingCallbacks, when the plugin unloads.  Both move entries from *)
(* the list to a local one under the mutex and call them after they unlocked. *)
(*                                                                            *)
(* A job is one call of RunOnMainThread.  Each endpoint has a worker thread,  *)
(* that a plugin stops and joins before it flushes, as MsgPlugin.h:63 asks    *)
(* (serum.cpp:296-310 and 411-426).  The steady clock counts ticks, and       *)
(* MaxTime bounds it.                                                         *)
EXTENDS Naturals, Sequences, SequencesExt, Subsequences

CONSTANTS Endpoints,  \* plugins that post callbacks
          Jobs,       \* the numbers of the calls of RunOnMainThread
          NoJob,      \* stands for no job
          Delays,     \* the delays callbacks are posted with, in ticks
          Blocking,   \* may workers call with a negative delay?
          MaxTime     \* bound of the clock

ASSUME DelaysNat == Delays \subseteq Nat
ASSUME BlockingBool == Blocking \in BOOLEAN
ASSUME MaxTimeNat == MaxTime \in Nat
ASSUME JobsNat == Jobs \subseteq Nat
ASSUME NoJobApart == NoJob \notin Jobs

VARIABLES now,      \* steady_clock::now()
          timers,   \* m_timers
          pc,       \* what the API thread is in
          plugin,   \* how far each plugin is in its life
          batch,    \* the local list of the function the API thread is in
          waiting,  \* the job whose end a worker waits for, else NoJob
          posted,   \* history: the entries in the order they were inserted
          ran       \* history: the jobs in the order they were run

queue == <<now, timers, pc, plugin, batch>>
vars == <<now, timers, pc, plugin, batch, waiting, posted, ran>>

Entry == [job : Jobs, endpoint : Endpoints, time : Nat, blocking : BOOLEAN]

JobsOf(s) == {s[i].job : i \in DOMAIN s}

\* The number of the next call: calls are told apart by their order only.
Unused == Jobs \ (JobsOf(posted) \cup {ran[i] : i \in DOMAIN ran})
Fresh == {j \in Unused : \A k \in Unused : j <= k}

-----------------------------------------------------------------------------
(* The list.                                                                  *)

SlipInsert(s, e) == Append(s, e)
SlipInsertLower(s, e) ==
  LET n == Len(Kept(s, {i \in DOMAIN s : s[i].time < e.time}))
  IN  InsertAt(s, n + 1, e)

\* Before the first entry whose time is later than that of e.
Insert(s, e) ==
  LET n == CHOOSE n \in 0 .. Len(s) :
             /\ \A i \in 1 .. n : s[i].time <= e.time
             /\ n < Len(s) => s[n + 1].time > e.time
  IN  InsertAt(s, n + 1, e)

\* How many entries ProcessAsyncCallbacks takes: it stops at the first one
\* whose time has not come.
DueLen == CHOOSE n \in 0 .. Len(timers) :
            /\ \A i \in 1 .. n : timers[i].time <= now
            /\ n < Len(timers) => timers[n + 1].time > now

SlipFlushTakes(e, x) == x.endpoint = e /\ x.time <= now
FlushTakes(e, x) == x.endpoint = e

Taken(e) == {i \in DOMAIN timers : FlushTakes(e, timers[i])}
EntriesOf(e) == Kept(timers, Taken(e))
SlipOthers(e) ==
  Kept(timers, {i \in DOMAIN timers \ Taken(e) : timers[i].time > now})
Others(e) == Kept(timers, DOMAIN timers \ Taken(e))

-----------------------------------------------------------------------------
Init == /\ now = 0
        /\ timers = <<>>
        /\ pc = "idle"
        /\ plugin = [e \in Endpoints |-> "unloaded"]
        /\ batch = <<>>
        /\ waiting = [e \in Endpoints |-> NoJob]
        /\ posted = <<>>
        /\ ran = <<>>

Tick == /\ now < MaxTime
        /\ now' = now + 1
        /\ UNCHANGED <<timers, pc, plugin, batch, waiting, posted, ran>>

\* A delay of zero or more: inserted by its time, the caller goes on.
PostAsync(e, j, d) ==
  LET entry == [job |-> j, endpoint |-> e, time |-> now + d, blocking |-> FALSE]
  IN  /\ now + d <= MaxTime
      /\ timers' = Insert(timers, entry)
      /\ posted' = Append(posted, entry)

WorkerPost(e, j, d) ==
  /\ plugin[e] = "loaded"
  /\ waiting[e] = NoJob
  /\ PostAsync(e, j, d)
  /\ UNCHANGED <<now, pc, plugin, batch, waiting, ran>>

\* A negative delay on a worker: put in front of the list, whatever is there,
\* then wait until the list is seen empty.
WorkerPostBlocking(e, j) ==
  LET entry == [job |-> j, endpoint |-> e, time |-> now, blocking |-> TRUE]
  IN  /\ Blocking
      /\ plugin[e] = "loaded"
      /\ waiting[e] = NoJob
      /\ timers' = <<entry>> \o timers
      /\ posted' = Append(posted, entry)
      /\ waiting' = [waiting EXCEPT ![e] = j]
      /\ UNCHANGED <<now, pc, plugin, batch, ran>>

WorkerReturn(e) ==
  /\ waiting[e] # NoJob
  /\ timers = <<>>
  /\ waiting' = [waiting EXCEPT ![e] = NoJob]
  /\ UNCHANGED <<queue, posted, ran>>

\* On the API thread the code of a plugin runs in its load function, in its
\* message handlers, in its unload function (as long as it submits, before
\* the flush) and in the callback under way, the head of the batch.
InPlugin(e) ==
  CASE pc = "load" -> plugin[e] = "loading"
    [] pc = "idle" -> plugin[e] = "loaded"
    [] pc = "unload" -> plugin[e] = "stopped"
    [] OTHER -> batch # <<>> /\ batch[1].endpoint = e

APIPost(e, j, d) ==
  /\ InPlugin(e)
  /\ d > 0
  /\ PostAsync(e, j, d)
  /\ UNCHANGED <<now, pc, plugin, batch, waiting, ran>>

\* No delay on the API thread: called at once.
APICallNow(e, j) ==
  /\ InPlugin(e)
  /\ ran' = Append(ran, j)
  /\ UNCHANGED <<queue, waiting, posted>>

TakeDue == SubSeq(timers, 1, DueLen)

ProcessAsyncCallbacks ==
  /\ pc = "idle"
  /\ DueLen > 0
  /\ pc' = "process"
  /\ batch' = TakeDue
  /\ timers' = SubSeq(timers, DueLen + 1, Len(timers))
  /\ UNCHANGED <<now, plugin, waiting, posted, ran>>

\* ProcessAsyncCallbacks returns after the last callback of its batch,
\* FlushPendingCallbacks looks at the list again.
AfterCallback == IF pc = "process" /\ Len(batch) = 1 THEN "idle" ELSE pc

\* The callback at the head of the batch ends.
RunCallback ==
  /\ batch # <<>>
  /\ ran' = Append(ran, batch[1].job)
  /\ batch' = Tail(batch)
  /\ pc' = AfterCallback
  /\ UNCHANGED <<now, timers, plugin, waiting, posted>>

\* The host loads a plugin: it runs its load function, then is loaded.
Load(e) ==
  /\ pc = "idle"
  /\ plugin[e] = "unloaded"
  /\ pc' = "load"
  /\ plugin' = [plugin EXCEPT ![e] = "loading"]
  /\ UNCHANGED <<now, timers, batch, waiting, posted, ran>>

LoadReturn(e) ==
  /\ plugin[e] = "loading"
  /\ pc' = "idle"
  /\ plugin' = [plugin EXCEPT ![e] = "loaded"]
  /\ UNCHANGED <<now, timers, batch, waiting, posted, ran>>

\* The host calls a plugin's unload function, that stops and joins its worker
\* (a worker that waits does not let it go on).
Unload(e) ==
  /\ pc = "idle"
  /\ plugin[e] = "loaded"
  /\ waiting[e] = NoJob
  /\ pc' = "unload"
  /\ plugin' = [plugin EXCEPT ![e] = "stopped"]
  /\ UNCHANGED <<now, timers, batch, waiting, posted, ran>>

FlushPendingCallbacks(e) ==
  /\ plugin[e] = "stopped"
  /\ pc' = "flush"
  /\ plugin' = [plugin EXCEPT ![e] = "flushing"]
  /\ UNCHANGED <<now, timers, batch, waiting, posted, ran>>

SlipFlushed(e) == FALSE

\* A pass that finds no entry of the endpoint is the last one.
Flushed(e) == EntriesOf(e) = <<>>

\* One turn of the loop of FlushPendingCallbacks.
FlushPass(e) ==
  /\ plugin[e] = "flushing"
  /\ batch = <<>>
  /\ batch' = EntriesOf(e)
  /\ timers' = Others(e)
  /\ IF Flushed(e)
     THEN pc' = "unload" /\ plugin' = [plugin EXCEPT ![e] = "flushed"]
     ELSE UNCHANGED <<pc, plugin>>
  /\ UNCHANGED <<now, waiting, posted, ran>>

UnloadReturn(e) ==
  /\ plugin[e] = "flushed"
  /\ pc = "unload"
  /\ pc' = "idle"
  /\ plugin' = [plugin EXCEPT ![e] = "unloaded"]
  /\ UNCHANGED <<now, timers, batch, waiting, posted, ran>>

\* What the function under way on the API thread does next.
APIStep ==
  \/ RunCallback
  \/ \E e \in Endpoints : \/ LoadReturn(e)
                          \/ FlushPendingCallbacks(e)
                          \/ FlushPass(e)
                          \/ UnloadReturn(e)

Next ==
  \/ Tick
  \/ ProcessAsyncCallbacks
  \/ APIStep
  \/ \E e \in Endpoints :
       \/ Load(e)
       \/ Unload(e)
       \/ WorkerReturn(e)
       \/ \E j \in Fresh :
            \/ WorkerPostBlocking(e, j)
            \/ APICallNow(e, j)
            \/ \E d \in Delays : WorkerPost(e, j, d) \/ APIPost(e, j, d)

Spec == Init /\ [][Next]_vars

-----------------------------------------------------------------------------
\* The clock goes on; the host calls ProcessAsyncCallbacks every frame
\* (player.cpp:1527, 1727), whatever plugins the user unloads and loads in
\* between (hence strong fairness), and what it calls returns.
Fairness == /\ WF_vars(Tick)
            /\ SF_vars(ProcessAsyncCallbacks)
            /\ WF_vars(APIStep)

LiveSpec == Spec /\ Fairness

-----------------------------------------------------------------------------
(* What the callers of RunOnMainThread rely on.                               *)

\* The variables keep their types.
TypeOK == /\ now \in 0 .. MaxTime
          /\ timers \in Seq(Entry)
          /\ batch \in Seq(Entry)
          /\ pc \in {"idle", "load", "unload", "process", "flush"}
          /\ plugin \in [Endpoints -> {"unloaded", "loading", "loaded",
                                       "stopped", "flushing", "flushed"}]
          /\ waiting \in [Endpoints -> Jobs \cup {NoJob}]
          /\ posted \in Seq(Entry)
          /\ ran \in Seq(Jobs)
          /\ pc = "process" => batch # <<>>
          /\ pc \in {"idle", "load", "unload"} => batch = <<>>

\* No due entry stands behind one whose time has not come: the scan of
\* ProcessAsyncCallbacks, which stops at the first such entry, misses none,
\* though blocking calls put theirs in front whatever the list holds.
DueFirst ==
  \A i, j \in DOMAIN timers :
    i < j /\ timers[j].time <= now => timers[i].time <= now

\* Where a job is: in the list, in the batch or among those that have run.
Places(j) ==
  {<<"timers", i>> : i \in {i \in DOMAIN timers : timers[i].job = j}} \cup
  {<<"batch", i>> : i \in {i \in DOMAIN batch : batch[i].job = j}} \cup
  {<<"ran", i>> : i \in {i \in DOMAIN ran : ran[i] = j}}

\* Every posted job is in one place: entries are neither lost nor called
\* twice when they move from the list to the batch and are called from there.
Conserved ==
  \A p \in DOMAIN posted : \E x \in Places(posted[p].job) : Places(posted[p].job) = {x}

RunsAt(j, i) == i \in DOMAIN ran /\ ran[i] = j

\* Callbacks an endpoint posts with a delay run in the order of their times,
\* and those of one time in the order they were posted, flushed or not.
InPostedOrder ==
  \A p, q \in DOMAIN posted :
    /\ p < q
    /\ posted[p].endpoint = posted[q].endpoint
    /\ ~ posted[p].blocking /\ ~ posted[q].blocking
    /\ posted[p].time <= posted[q].time
    => \A k \in DOMAIN ran : RunsAt(posted[q].job, k) =>
         \E i \in 1 .. k - 1 : RunsAt(posted[p].job, i)

\* Once FlushPendingCallbacks returned to a plugin that unloads, no callback
\* of the plugin is left to be called, not even those that the flushed ones
\* posted: its code may be unlinked.
NoneAfterFlush ==
  \A e \in Endpoints :
    plugin[e] \in {"flushed", "unloaded"} =>
      \A i \in DOMAIN (timers \o batch) : (timers \o batch)[i].endpoint # e

\* A posted callback is run in the end.
PostedRuns ==
  \A j \in Jobs : j \in JobsOf(posted) ~> \E i \in DOMAIN ran : ran[i] = j
=============================================================================

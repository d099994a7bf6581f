-------------------------- MODULE PluginUnloadProofs --------------------------
(***************************************************************************)
(* Proofs about PluginUnload.  The message table and the callback queue    *)
(* keep their own invariants, proved in MsgRegistryProofs and              *)
(* MainThreadQueueProofs, when they are put together, since each step of   *)
(* the system is a step, or none, of each.                                 *)
(***************************************************************************)
EXTENDS PluginUnload, FiniteSetTheorems, SequenceTheorems, TLAPS

RegP == INSTANCE MsgRegistryProofs WITH Holders <- Endpoints \cup {Host},
                                        Callbacks <- {"onMsg"}
QueueP == INSTANCE MainThreadQueueProofs WITH Blocking <- FALSE, Delays <- {0},
                                              MaxTime <- 0

-----------------------------------------------------------------------------
(***************************************************************************)
(* RegP and QueueP have the definitions of Reg and Queue.                  *)
(***************************************************************************)

LEMMA SameRegistry ==
  /\ Reg!Init <=> RegP!Init
  /\ \A h, n : /\ Reg!GetMsgID(h, n) <=> RegP!GetMsgID(h, n)
               /\ Reg!ReleaseMsgID(h, n) <=> RegP!ReleaseMsgID(h, n)
               /\ Reg!BroadcastMsg(h, n) <=> RegP!BroadcastMsg(h, n)
               /\ \A cb : /\ Reg!SubscribeMsg(h, n, cb) <=> RegP!SubscribeMsg(h, n, cb)
                          /\ Reg!UnsubscribeMsg(h, n, cb) <=> RegP!UnsubscribeMsg(h, n, cb)
  /\ Reg!NoId = 0 /\ RegP!NoId = 0
<1>1. \A h, n : Reg!GetMsgID(h, n) <=> RegP!GetMsgID(h, n)
  BY DEF Reg!GetMsgID, Reg!GetKnownId, Reg!RecycleId, Reg!GrowTable, Reg!Matches,
         Reg!FreeMsg, Reg!IsFree, Reg!Give, Reg!NewEntry, Reg!NoId,
         RegP!GetMsgID, RegP!GetKnownId, RegP!RecycleId, RegP!GrowTable, RegP!Matches,
         RegP!FreeMsg, RegP!IsFree, RegP!Give, RegP!NewEntry, RegP!NoId
<1>2. \A h, n : Reg!ReleaseMsgID(h, n) <=> RegP!ReleaseMsgID(h, n)
  BY DEF Reg!ReleaseMsgID, Reg!FirstOf, Reg!PopFree, Reg!LiveLen, Reg!IsFree, Reg!Give,
         Reg!NoId,
         RegP!ReleaseMsgID, RegP!FirstOf, RegP!PopFree, RegP!LiveLen, RegP!IsFree, RegP!Give,
         RegP!NoId
<1>3. \A h, n : Reg!BroadcastMsg(h, n) <=> RegP!BroadcastMsg(h, n)
  BY DEF Reg!BroadcastMsg, Reg!NoId, RegP!BroadcastMsg, RegP!NoId
<1>4. \A h, n, cb : Reg!SubscribeMsg(h, n, cb) <=> RegP!SubscribeMsg(h, n, cb)
  BY DEF Reg!SubscribeMsg, Reg!NoId, RegP!SubscribeMsg, RegP!NoId
<1>5. \A h, n, cb : Reg!UnsubscribeMsg(h, n, cb) <=> RegP!UnsubscribeMsg(h, n, cb)
  BY DEF Reg!UnsubscribeMsg, Reg!NoId, Reg!RemoveAt,
         RegP!UnsubscribeMsg, RegP!NoId, RegP!RemoveAt
<1>6. Reg!Init <=> RegP!Init
  BY DEF Reg!Init, Reg!NoId, RegP!Init, RegP!NoId
<1> QED BY <1>1, <1>2, <1>3, <1>4, <1>5, <1>6 DEF Reg!NoId, RegP!NoId

LEMMA SameQueue ==
  /\ Queue!Init <=> QueueP!Init
  /\ Queue!Fresh = QueueP!Fresh
  /\ Queue!ProcessAsyncCallbacks <=> QueueP!ProcessAsyncCallbacks
  /\ Queue!RunCallback <=> QueueP!RunCallback
  /\ \A e : /\ Queue!Load(e) <=> QueueP!Load(e)
            /\ Queue!LoadReturn(e) <=> QueueP!LoadReturn(e)
            /\ Queue!Unload(e) <=> QueueP!Unload(e)
            /\ Queue!FlushPendingCallbacks(e) <=> QueueP!FlushPendingCallbacks(e)
            /\ Queue!FlushPass(e) <=> QueueP!FlushPass(e)
            /\ Queue!UnloadReturn(e) <=> QueueP!UnloadReturn(e)
            /\ \A j : /\ Queue!APICallNow(e, j) <=> QueueP!APICallNow(e, j)
                      /\ \A d : Queue!WorkerPost(e, j, d) <=> QueueP!WorkerPost(e, j, d)
<1>1. Queue!Init <=> QueueP!Init
  BY DEF Queue!Init, QueueP!Init
<1>2. Queue!Fresh = QueueP!Fresh
  BY DEF Queue!Fresh, Queue!Unused, Queue!JobsOf, QueueP!Fresh, QueueP!Unused, QueueP!JobsOf
<1>3. Queue!ProcessAsyncCallbacks <=> QueueP!ProcessAsyncCallbacks
  BY DEF Queue!ProcessAsyncCallbacks, Queue!TakeDue, Queue!DueLen,
         QueueP!ProcessAsyncCallbacks, QueueP!TakeDue, QueueP!DueLen
<1>4. Queue!RunCallback <=> QueueP!RunCallback
  BY DEF Queue!RunCallback, Queue!AfterCallback, QueueP!RunCallback, QueueP!AfterCallback
<1>5. \A e : /\ Queue!Load(e) <=> QueueP!Load(e)
             /\ Queue!LoadReturn(e) <=> QueueP!LoadReturn(e)
             /\ Queue!Unload(e) <=> QueueP!Unload(e)
             /\ Queue!FlushPendingCallbacks(e) <=> QueueP!FlushPendingCallbacks(e)
             /\ Queue!UnloadReturn(e) <=> QueueP!UnloadReturn(e)
  BY DEF Queue!Load, Queue!LoadReturn, Queue!Unload, Queue!FlushPendingCallbacks,
         Queue!UnloadReturn,
         QueueP!Load, QueueP!LoadReturn, QueueP!Unload, QueueP!FlushPendingCallbacks,
         QueueP!UnloadReturn
<1>6. \A e : Queue!FlushPass(e) <=> QueueP!FlushPass(e)
  <2>1. \A s, I : Queue!Kept(s, I) = QueueP!Kept(s, I)
    BY DEF Queue!Kept, Queue!Rank, Queue!Cardinality,
           QueueP!Kept, QueueP!Rank, QueueP!Cardinality
  <2>2. \A e : Queue!Taken(e) = QueueP!Taken(e)
    BY DEF Queue!Taken, Queue!FlushTakes, QueueP!Taken, QueueP!FlushTakes
  <2> QED
    BY <2>1, <2>2 DEF Queue!FlushPass, Queue!Flushed, Queue!EntriesOf, Queue!Others,
                      QueueP!FlushPass, QueueP!Flushed, QueueP!EntriesOf, QueueP!Others
<1>7. \A e, j : Queue!APICallNow(e, j) <=> QueueP!APICallNow(e, j)
  BY DEF Queue!APICallNow, Queue!InPlugin, Queue!queue,
         QueueP!APICallNow, QueueP!InPlugin, QueueP!queue
<1>8. \A e, j, d : Queue!WorkerPost(e, j, d) <=> QueueP!WorkerPost(e, j, d)
  BY DEF Queue!WorkerPost, Queue!PostAsync, Queue!Insert, Queue!InsertAt,
         QueueP!WorkerPost, QueueP!PostAsync, QueueP!Insert, QueueP!InsertAt
<1> QED BY <1>1, <1>2, <1>3, <1>4, <1>5, <1>6, <1>7, <1>8
LEMMA Assumed ==
  /\ RegP!IsFiniteSet(Endpoints \cup {Host})
  /\ {0} \subseteq Nat /\ FALSE \in BOOLEAN /\ 0 \in Nat
  /\ Jobs \subseteq Nat /\ NoJob \notin Jobs
<1>1. IsFiniteSet(Endpoints \cup {Host})
  BY EndpointsFinite, FS_AddElement
<1>2. RegP!IsFiniteSet(Endpoints \cup {Host})
  BY <1>1 DEF RegP!IsFiniteSet, IsFiniteSet
<1> QED BY <1>2, JobsNat, NoJobApart

-----------------------------------------------------------------------------
(***************************************************************************)
(* The invariant.                                                          *)
(***************************************************************************)

\* What a plugin holds is what its variables say; they go on saying so once
\* it released.
IdsHeld ==
  /\ ids \in [Endpoints -> [Names -> Nat]]
  /\ \A e \in Endpoints, n \in Names : held[e][n] # 0 => ids[e][n] = held[e][n]

\* A plugin that is loaded holds its messages, one that flushes first also
\* until it is flushed.
Active == {"loaded", "stopped", "flushing"}
Keeps(e) == plugin[e] = "loaded" \/ (e \in FlushFirst /\ plugin[e] \in Active)
Holding == \A e \in Endpoints : Keeps(e) => \A n \in Names : held[e][n] # 0

\* Only such plugins have callbacks that are still to be called.
Pending ==
  /\ \A i \in DOMAIN timers : plugin[timers[i].endpoint] \in Active
  /\ \A i \in DOMAIN batch : plugin[batch[i].endpoint] \in Active

Inv == RegP!Inv /\ QueueP!Inv /\ IdsHeld /\ Holding /\ Pending

LEMMA InitInv == Init => Inv
<1> SUFFICES ASSUME Init PROVE Inv
  OBVIOUS
<1>1. RegP!Inv
  BY Assumed, SameRegistry, RegP!InitInv DEF Init
<1>2. QueueP!Inv
  BY Assumed, SameQueue, QueueP!InitInv DEF Init
<1>3. /\ held = [h \in Endpoints \cup {Host} |-> [n \in Names |-> 0]]
      /\ ids = [e \in Endpoints |-> [n \in Names |-> 0]]
      /\ timers = <<>> /\ batch = <<>>
      /\ plugin = [e \in Endpoints |-> "unloaded"]
  BY DEF Init, Reg!Init, Reg!NoId, Queue!Init
<1>4. IdsHeld /\ Holding /\ Pending
  BY <1>3 DEF IdsHeld, Holding, Keeps, Active, Pending
<1> QED BY <1>1, <1>2, <1>4 DEF Inv

\* Each step is one of the queue, or leaves it alone.
LEMMA QueueNext == [Next]_vars => [QueueP!Next]_(QueueP!vars)
<1> SUFFICES ASSUME [Next]_vars PROVE QueueP!Next \/ UNCHANGED QueueP!vars
  OBVIOUS
<1> USE SameQueue
<1>1. CASE ProcessAsyncCallbacks
  BY <1>1 DEF ProcessAsyncCallbacks, QueueP!Next
<1>2. CASE RunCallback
  BY <1>2 DEF RunCallback, QueueP!Next, QueueP!APIStep
<1>3. ASSUME NEW e \in Endpoints, Load(e) \/ Unload(e)
      PROVE  QueueP!Next
  BY <1>3 DEF Load, Unload, QueueP!Next
<1>4. ASSUME NEW e \in Endpoints,
             LoadReturn(e) \/ UnloadReturn(e) \/ FlushPendingCallbacks(e) \/ FlushPass(e)
      PROVE  QueueP!Next
  BY <1>4 DEF LoadReturn, UnloadReturn, FlushPendingCallbacks, FlushPass,
              QueueP!Next, QueueP!APIStep
<1>5. ASSUME NEW e \in Endpoints, NEW j \in Queue!Fresh, APICallNow(e, j) \/ Post(e, j)
      PROVE  QueueP!Next
  BY <1>5 DEF APICallNow, Post, QueueP!Next
<1>6. CASE UNCHANGED queueVars
  BY <1>6 DEF queueVars, QueueP!vars
<1> QED BY <1>1, <1>2, <1>3, <1>4, <1>5, <1>6
        DEF Next, HostCall, PluginAcquire, PluginRelease, vars

\* A broadcast leaves the table alone, whatever id it is given.
LEMMA BroadcastKeeps ==
  ASSUME RegP!Inv, NEW id, BroadcastId(id)
  PROVE  RegP!Inv'
<1>1. UNCHANGED <<msgs, held>>
  BY DEF BroadcastId
<1>2. delivered' \in [name : Names \cup {"none"},
                      to : Seq((Endpoints \cup {Host}) \X {"onMsg"})]
  <2>1. CASE id \in DOMAIN msgs
    <3>1. msgs[id] \in RegP!MsgEntry
      BY <2>1 DEF RegP!Inv, RegP!TypeOK
    <3>2. delivered' = [name |-> msgs[id].name, to |-> msgs[id].callbacks]
      BY <2>1 DEF BroadcastId
    <3> QED BY <3>1, <3>2 DEF RegP!MsgEntry, RegP!Sub
  <2>2. CASE id \notin DOMAIN msgs
    BY <2>2 DEF BroadcastId, RegP!Inv, RegP!TypeOK, RegP!Sub
  <2> QED BY <2>1, <2>2
<1> QED BY <1>1, <1>2, Assumed, RegP!DeliveredInv DEF RegP!Sub

\* Each step is one of the table, or leaves it alone, or is a broadcast.
LEMMA RegistryKept ==
  ASSUME RegP!Inv, [Next]_vars
  PROVE  RegP!Inv'
<1> USE SameRegistry
<1>1. CASE [RegP!Next]_(RegP!vars)
  BY <1>1, Assumed, RegP!NextInv
<1>2. CASE HostCall
  <2>1. RegP!Next
    BY <1>2 DEF HostCall, RegP!Next
  <2> QED BY <1>1, <2>1
<1>3. ASSUME NEW e \in Endpoints, NEW n \in Names, PluginAcquire(e, n) \/ PluginRelease(e, n)
      PROVE  RegP!Inv'
  <2>1. RegP!Next
    BY <1>3 DEF PluginAcquire, PluginRelease, RegP!Next
  <2> QED BY <1>1, <2>1
<1>4. CASE UNCHANGED regVars
  <2>1. UNCHANGED RegP!vars
    BY <1>4 DEF regVars, RegP!vars
  <2> QED BY <1>1, <2>1
<1>5. CASE RunCallback
  BY <1>5, BroadcastKeeps DEF RunCallback
<1>6. ASSUME NEW e \in Endpoints, NEW j, APICallNow(e, j)
      PROVE  RegP!Inv'
  BY <1>6, BroadcastKeeps DEF APICallNow
<1> QED BY <1>2, <1>3, <1>4, <1>5, <1>6
        DEF Next, ProcessAsyncCallbacks, Load, Unload, LoadReturn, UnloadReturn,
            FlushPendingCallbacks, FlushPass, Post, vars
\* What the calls do to the ids that are held.
LEMMA HeldSteps ==
  ASSUME NEW h, NEW n
  PROVE  /\ Reg!GetMsgID(h, n) =>
              \E id : held' = [held EXCEPT ![h][n] = id]
         /\ Reg!ReleaseMsgID(h, n) => held' = [held EXCEPT ![h][n] = 0]
         /\ \A cb : Reg!SubscribeMsg(h, n, cb) \/ Reg!UnsubscribeMsg(h, n, cb)
                      => held' = held
<1>1. Reg!GetMsgID(h, n) => \E id : Reg!Give(h, n, id)
  BY DEF Reg!GetMsgID, Reg!GetKnownId, Reg!RecycleId, Reg!GrowTable
<1>2. Reg!GetMsgID(h, n) => \E id : held' = [held EXCEPT ![h][n] = id]
  BY <1>1 DEF Reg!Give
<1>3. Reg!ReleaseMsgID(h, n) => held' = [held EXCEPT ![h][n] = 0]
  BY DEF Reg!ReleaseMsgID, Reg!Give, Reg!NoId
<1>4. \A cb : Reg!SubscribeMsg(h, n, cb) \/ Reg!UnsubscribeMsg(h, n, cb) => held' = held
  BY DEF Reg!SubscribeMsg, Reg!UnsubscribeMsg
<1> QED BY <1>2, <1>3, <1>4

LEMMA HoldingKept ==
  ASSUME RegP!Inv, RegP!Inv', QueueP!Inv, IdsHeld, Holding, [Next]_vars
  PROVE  IdsHeld' /\ Holding'
<1>1. /\ held \in [Endpoints \cup {Host} -> [Names -> Nat]]
      /\ held' \in [Endpoints \cup {Host} -> [Names -> Nat]]
      /\ ids \in [Endpoints -> [Names -> Nat]]
      /\ DOMAIN plugin = Endpoints
      /\ Host \notin Endpoints
  BY HostApart DEF RegP!Inv, RegP!TypeOK, QueueP!Inv, QueueP!TypeOK, IdsHeld
<1>2. ASSUME held' = held, ids' = ids,
             \A e \in Endpoints : Keeps(e)' => Keeps(e) \/ Holds(e)
      PROVE  IdsHeld' /\ Holding'
  BY <1>2 DEF IdsHeld, Holding, Holds, Reg!NoId
<1>3. CASE HostCall
  <2>1. ids' = ids /\ plugin' = plugin
    BY <1>3 DEF HostCall, queueVars
  <2>2. PICK n \in Names : \/ Reg!GetMsgID(Host, n)
                           \/ Reg!SubscribeMsg(Host, n, "onMsg")
                           \/ Reg!UnsubscribeMsg(Host, n, "onMsg")
                           \/ Reg!ReleaseMsgID(Host, n)
    BY <1>3 DEF HostCall
  <2>3. held' = held \/ \E id : held' = [held EXCEPT ![Host][n] = id]
    BY <2>2, HeldSteps
  <2>4. \A e \in Endpoints : held'[e] = held[e]
    BY <1>1, <2>3
  <2> QED BY <2>1, <2>4 DEF IdsHeld, Holding, Keeps
<1>4. ASSUME NEW e \in Endpoints, NEW n \in Names, PluginAcquire(e, n)
      PROVE  IdsHeld' /\ Holding'
  <2>1. PICK id : held' = [held EXCEPT ![e][n] = id]
    BY <1>4, HeldSteps DEF PluginAcquire
  <2>2. /\ plugin' = plugin /\ plugin[e] = "loading"
        /\ ids' = [ids EXCEPT ![e][n] = held'[e][n]]
    BY <1>4 DEF PluginAcquire, queueVars
  <2>3. held'[e][n] \in Nat
    BY <1>1
  <2>4. ids' \in [Endpoints -> [Names -> Nat]] /\ ids'[e][n] = held'[e][n]
    BY <1>1, <2>2, <2>3
  <2>5. \A f \in Endpoints, m \in Names :
          f # e \/ m # n => ids'[f][m] = ids[f][m] /\ held'[f][m] = held[f][m]
    BY <1>1, <2>1, <2>2
  <2>6. IdsHeld'
    BY <2>4, <2>5 DEF IdsHeld
  <2>7. Holding'
    BY <2>2, <2>5 DEF Holding, Keeps, Active
  <2> QED BY <2>6, <2>7
<1>5. ASSUME NEW e \in Endpoints, NEW n \in Names, PluginRelease(e, n)
      PROVE  IdsHeld' /\ Holding'
  <2>1. held' = [held EXCEPT ![e][n] = 0]
    BY <1>5, HeldSteps DEF PluginRelease
  <2>2. plugin' = plugin /\ ids' = ids /\ ~ Keeps(e)
    BY <1>5 DEF PluginRelease, queueVars, Releasing, ReleasesFirst, Keeps, Active
  <2>3. \A f \in Endpoints, m \in Names :
          held'[f][m] = held[f][m] \/ (f = e /\ held'[f][m] = 0)
    BY <1>1, <2>1
  <2>4. IdsHeld'
    BY <1>1, <2>2, <2>3 DEF IdsHeld
  <2>5. Holding'
    BY <2>2, <2>3 DEF Holding, Keeps
  <2> QED BY <2>4, <2>5
<1>6. CASE UNCHANGED <<held, ids, plugin>>
  BY <1>2, <1>6 DEF Keeps
<1>7. ASSUME NEW e \in Endpoints,
             Load(e) \/ LoadReturn(e) \/ Unload(e) \/ UnloadReturn(e)
               \/ FlushPendingCallbacks(e) \/ FlushPass(e)
      PROVE  IdsHeld' /\ Holding'
  <2>1. held' = held /\ ids' = ids
    BY <1>7 DEF Load, LoadReturn, Unload, UnloadReturn, FlushPendingCallbacks, FlushPass,
                regVars
  <2>2. \A f \in Endpoints : Keeps(f)' => Keeps(f) \/ Holds(f)
    <3>1. ASSUME LoadReturn(e)
          PROVE  Holds(e) /\ plugin' = [plugin EXCEPT ![e] = "loaded"]
      BY <3>1 DEF LoadReturn, Queue!LoadReturn
    <3>2. ASSUME Load(e) \/ UnloadReturn(e) \/ FlushPass(e)
          PROVE  \A f \in Endpoints : plugin'[f] = plugin[f] \/ plugin'[f] \notin Active
      BY <1>1, <3>2 DEF Load, Queue!Load, UnloadReturn, Queue!UnloadReturn,
                        FlushPass, Queue!FlushPass, Active
    <3>3. ASSUME Unload(e) \/ FlushPendingCallbacks(e)
          PROVE  /\ plugin[e] \in {"loaded", "stopped"}
                 /\ \E s \in {"stopped", "flushing"} :
                      /\ plugin' = [plugin EXCEPT ![e] = s]
                      /\ s = "stopped" => plugin[e] = "loaded"
      BY <3>3 DEF Unload, Queue!Unload, FlushPendingCallbacks, Queue!FlushPendingCallbacks
    <3>4. CASE LoadReturn(e)
      BY <1>1, <3>1, <3>4 DEF Keeps
    <3>5. CASE Load(e) \/ UnloadReturn(e) \/ FlushPass(e)
      BY <3>2, <3>5 DEF Keeps, Active
    <3>6. CASE Unload(e) \/ FlushPendingCallbacks(e)
      BY <1>1, <3>3, <3>6 DEF Keeps, Active
    <3> QED BY <1>7, <3>4, <3>5, <3>6
  <2> QED BY <1>2, <2>1, <2>2
<1>8. ASSUME NEW e \in Endpoints, NEW j, APICallNow(e, j) \/ Post(e, j)
      PROVE  UNCHANGED <<held, ids, plugin>>
  BY <1>8 DEF APICallNow, BroadcastId, Queue!APICallNow, Queue!queue,
              Post, Queue!WorkerPost, regVars
<1> QED BY <1>3, <1>4, <1>5, <1>6, <1>7, <1>8
        DEF Next, ProcessAsyncCallbacks, Queue!ProcessAsyncCallbacks, RunCallback,
            Queue!RunCallback, BroadcastId, vars, regVars, queueVars

LEMMA PendingKept ==
  ASSUME QueueP!Inv, QueueP!Inv', Pending, [Next]_vars
  PROVE  Pending'
<1> USE SameQueue
<1>1. /\ timers \in Seq(QueueP!Entry) /\ batch \in Seq(QueueP!Entry)
      /\ timers' \in Seq(QueueP!Entry) /\ batch' \in Seq(QueueP!Entry)
      /\ QueueP!TypeOK /\ QueueP!TypeOK'
      /\ DOMAIN plugin = Endpoints
  BY DEF QueueP!Inv, QueueP!TypeOK
<1> DEFINE Old(x) == \/ \E i \in DOMAIN timers : x = timers[i]
                     \/ \E i \in DOMAIN batch : x = batch[i]
<1>2. \A x : Old(x) => plugin[x.endpoint] \in Active
  BY DEF Pending
<1>3. ASSUME plugin' = plugin,
             \A i \in DOMAIN timers' : Old(timers'[i]),
             \A i \in DOMAIN batch' : Old(batch'[i])
      PROVE  Pending'
  <2> HIDE DEF Old
  <2> QED BY <1>2, <1>3 DEF Pending
<1>4. CASE UNCHANGED <<timers, batch, plugin>>
  BY <1>4 DEF Pending
<1>5. CASE ProcessAsyncCallbacks
  <2>1. QueueP!ProcessAsyncCallbacks /\ plugin' = plugin
    BY <1>5 DEF ProcessAsyncCallbacks, Queue!ProcessAsyncCallbacks
  <2>2. PICK f, g : QueueP!Moves(f, g)
    BY <1>1, <2>1, Assumed, QueueP!ProcessMoves
  <2>3. /\ \A k \in DOMAIN batch' : \E i \in DOMAIN timers : batch'[k] = timers[i]
        /\ \A k \in DOMAIN timers' : \E i \in DOMAIN timers : timers'[k] = timers[i]
    BY <1>1, <2>2, Assumed, QueueP!MovesFacts
  <2> QED BY <1>3, <2>1, <2>3
<1>6. CASE RunCallback
  <2>1. batch # <<>> /\ timers' = timers /\ batch' = Tail(batch) /\ plugin' = plugin
    BY <1>6 DEF RunCallback, Queue!RunCallback
  <2>2. \A k \in DOMAIN batch' : k + 1 \in DOMAIN batch /\ batch'[k] = batch[k + 1]
    BY <1>1, <2>1
  <2> QED BY <1>3, <2>1, <2>2
<1>7. ASSUME NEW e \in Endpoints, FlushPass(e)
      PROVE  Pending'
  <2>1. QueueP!FlushPass(e) /\ plugin[e] = "flushing"
    BY <1>7 DEF FlushPass, Queue!FlushPass
  <2>2. PICK f, g : QueueP!Moves(f, g)
    BY <1>1, <2>1, Assumed, QueueP!FlushMoves
  <2>3. /\ \A k \in DOMAIN batch' : \E i \in DOMAIN timers : batch'[k] = timers[i]
        /\ \A k \in DOMAIN timers' : \E i \in DOMAIN timers : timers'[k] = timers[i]
    BY <1>1, <2>2, Assumed, QueueP!MovesFacts
  <2>4. CASE plugin' = plugin
    BY <1>3, <2>3, <2>4
  <2>5. CASE plugin' # plugin
    <3>1. /\ plugin' = [plugin EXCEPT ![e] = "flushed"] /\ batch' = <<>>
          /\ timers' = QueueP!Kept(timers, DOMAIN timers \ QueueP!Taken(e))
      BY <2>1, <2>5 DEF QueueP!FlushPass, QueueP!Flushed, QueueP!Others
    <3>2. \A k \in DOMAIN timers' : timers'[k].endpoint # e
      BY <1>1, <3>1, Assumed, QueueP!KeptElements DEF QueueP!Taken, QueueP!FlushTakes
    <3>3. \A k \in DOMAIN timers' : timers'[k].endpoint \in Endpoints
      <4>1. \A k \in DOMAIN timers' : timers'[k] \in QueueP!Entry
        BY <1>1
      <4> QED BY <4>1 DEF QueueP!Entry
    <3>4. \A k \in DOMAIN timers' : plugin'[timers'[k].endpoint] \in Active
      BY <1>1, <1>2, <2>3, <3>1, <3>2, <3>3
    <3>5. DOMAIN batch' = {}
      BY <3>1
    <3> QED BY <3>4, <3>5 DEF Pending, Active
  <2> QED BY <2>4, <2>5
<1>8. ASSUME NEW e \in Endpoints, NEW j \in Queue!Fresh, Post(e, j)
      PROVE  Pending'
  <2>1. QueueP!WorkerPost(e, j, 0)
    BY <1>8 DEF Post
  <2> DEFINE x == [job |-> j, endpoint |-> e, time |-> now + 0, blocking |-> FALSE]
  <2>2. /\ plugin[e] = "loaded" /\ plugin' = plugin /\ batch' = batch
        /\ timers' = QueueP!Insert(timers, x)
    BY <2>1 DEF QueueP!WorkerPost, QueueP!PostAsync
  <2>3. now + 0 \in Nat /\ j \in Jobs
    BY <1>1 DEF QueueP!TypeOK, QueueP!Fresh, QueueP!Unused
  <2>4. x \in QueueP!Entry /\ x.endpoint = e
    BY <2>3 DEF QueueP!Entry
  <2> HIDE DEF x
  <2>5. PICK n : QueueP!InsertedAt(timers, timers', n, x)
    BY <1>1, <2>2, <2>4, Assumed, QueueP!InsertProps
  <2>6. \A k \in 1 .. Len(timers') :
          timers'[k] = x \/ \E i \in 1 .. Len(timers) : timers'[k] = timers[i]
    <3>1. PICK s : s = timers
      OBVIOUS
    <3>2. PICK t : t = timers'
      OBVIOUS
    <3>3. Len(s) \in Nat
      BY <1>1, <3>1
    <3>4. /\ n \in 0 .. Len(s) /\ Len(t) = Len(s) + 1 /\ t[n + 1] = x
          /\ \A i \in 1 .. n : t[i] = s[i]
          /\ \A i \in n + 1 .. Len(s) : t[i + 1] = s[i]
      BY <2>5, <3>1, <3>2 DEF QueueP!InsertedAt
    <3>5. ASSUME NEW k \in 1 .. Len(t)
          PROVE  t[k] = x \/ \E i \in 1 .. Len(s) : t[k] = s[i]
      <4>1. CASE k \in 1 .. n
        <5>1. k \in 1 .. Len(s) /\ t[k] = s[k]
          BY <3>3, <3>4, <4>1
        <5> QED BY <5>1
      <4>2. CASE k = n + 1
        BY <3>4, <4>2
      <4>3. CASE k \in n + 2 .. Len(t)
        <5>1. k - 1 \in n + 1 .. Len(s) /\ k - 1 \in 1 .. Len(s) /\ (k - 1) + 1 = k
          BY <3>3, <3>4, <4>3
        <5>2. t[(k - 1) + 1] = s[k - 1]
          BY <3>4, <5>1
        <5> QED BY <5>1, <5>2
      <4> QED BY <3>3, <3>4, <4>1, <4>2, <4>3
    <3> QED BY <3>1, <3>2, <3>5
  <2>7. \A k \in DOMAIN timers' : timers'[k] = x \/ Old(timers'[k])
    BY <1>1, <2>6
  <2>8. \A k \in DOMAIN batch' : Old(batch'[k])
    BY <2>2
  <2> HIDE DEF Old
  <2> QED BY <1>2, <2>2, <2>4, <2>7, <2>8 DEF Pending, Active
<1>9. ASSUME NEW e \in Endpoints,
             Load(e) \/ LoadReturn(e) \/ Unload(e) \/ FlushPendingCallbacks(e)
               \/ UnloadReturn(e)
      PROVE  Pending'
  <2>1. UNCHANGED <<timers, batch>>
    BY <1>9 DEF Load, Queue!Load, LoadReturn, Queue!LoadReturn, Unload, Queue!Unload,
                FlushPendingCallbacks, Queue!FlushPendingCallbacks,
                UnloadReturn, Queue!UnloadReturn
  <2>2. \A f \in Endpoints : plugin[f] \in Active => plugin'[f] \in Active
    BY <1>1, <1>9
       DEF Load, Queue!Load, LoadReturn, Queue!LoadReturn, Unload, Queue!Unload,
           FlushPendingCallbacks, Queue!FlushPendingCallbacks,
           UnloadReturn, Queue!UnloadReturn, Active
  <2>3. /\ \A i \in DOMAIN timers : timers[i] \in QueueP!Entry
        /\ \A i \in DOMAIN batch : batch[i] \in QueueP!Entry
    BY <1>1
  <2>4. \A x \in QueueP!Entry : x.endpoint \in Endpoints
    BY DEF QueueP!Entry
  <2> QED BY <2>1, <2>2, <2>3, <2>4 DEF Pending, Active
<1>10. ASSUME NEW e \in Endpoints, NEW j, APICallNow(e, j)
       PROVE  UNCHANGED <<timers, batch, plugin>>
  BY <1>10 DEF APICallNow, Queue!APICallNow, Queue!queue
<1> QED BY <1>4, <1>5, <1>6, <1>7, <1>8, <1>9, <1>10
        DEF Next, HostCall, PluginAcquire, PluginRelease, vars, queueVars

LEMMA NextInv == Inv /\ [Next]_vars => Inv'
<1> SUFFICES ASSUME Inv, [Next]_vars PROVE Inv'
  OBVIOUS
<1>1. QueueP!Inv'
  BY QueueNext, Assumed, QueueP!NextInv DEF Inv
<1>2. RegP!Inv'
  BY RegistryKept DEF Inv
<1>3. IdsHeld' /\ Holding' /\ Pending'
  BY <1>1, <1>2, HoldingKept, PendingKept DEF Inv
<1> QED BY <1>1, <1>2, <1>3 DEF Inv

LEMMA Invariance == Spec => []Inv
BY InitInv, NextInv, PTL DEF Spec

-----------------------------------------------------------------------------
(***************************************************************************)
(* What it says of the callbacks' broadcasts.                              *)
(***************************************************************************)

\* An id that is held stands for its message.
LEMMA HeldLive ==
  ASSUME Inv, NEW e \in Endpoints, NEW n \in Names, held[e][n] # 0
  PROVE  /\ ids[e][n] = held[e][n]
         /\ ids[e][n] \in DOMAIN msgs
         /\ msgs[ids[e][n]].refCount > 0
         /\ msgs[ids[e][n]].name = n
<1>1. ids[e][n] = held[e][n]
  BY DEF Inv, IdsHeld
<1> DEFINE id == ids[e][n]
<1>2. id \in DOMAIN msgs /\ msgs[id].refCount # 0 /\ msgs[id].name = n
  BY <1>1 DEF Inv, RegP!Inv, RegP!IdDenotesName, RegP!IsFree, RegP!NoId
<1>3. msgs[id] \in RegP!MsgEntry
  BY <1>2 DEF Inv, RegP!Inv, RegP!TypeOK
<1>4. msgs[id].refCount \in Nat
  BY <1>3 DEF RegP!MsgEntry
<1> QED BY <1>1, <1>2, <1>4

\* A plugin whose callback is under way holds its messages, if it flushes
\* before it releases.
LEMMA RunningHolds ==
  ASSUME Inv, batch # <<>>, NEW e, e = batch[1].endpoint, e \in FlushFirst
  PROVE  e \in Endpoints /\ \A n \in Names : held[e][n] # 0
<1>1. batch \in Seq(QueueP!Entry)
  BY DEF Inv, QueueP!Inv, QueueP!TypeOK
<1>2. 1 \in DOMAIN batch
  BY <1>1
<1>3. plugin[e] \in Active
  BY <1>2 DEF Inv, Pending
<1> QED BY <1>3, FlushFirstPlugins DEF Inv, Holding, Keeps

\* The callbacks of a plugin that flushes first broadcast ids that are live
\* and stand for its messages, even if others release first.
FlushFirstIdsLive ==
  batch # <<>> /\ batch[1].endpoint \in FlushFirst =>
    \A n \in Names : LET id == ids[batch[1].endpoint][n] IN
      /\ id \in DOMAIN msgs
      /\ msgs[id].refCount > 0
      /\ msgs[id].name = n

THEOREM FlushFirstIsSafe == Spec => []FlushFirstIdsLive
<1>1. Inv => FlushFirstIdsLive
  <2> SUFFICES ASSUME Inv, batch # <<>>, NEW e, e = batch[1].endpoint, e \in FlushFirst,
                      NEW n \in Names
               PROVE  /\ ids[e][n] \in DOMAIN msgs
                      /\ msgs[ids[e][n]].refCount > 0
                      /\ msgs[ids[e][n]].name = n
    BY DEF FlushFirstIdsLive
  <2> QED BY RunningHolds, HeldLive
<1> QED BY <1>1, Invariance, PTL

\* When all flush first, as AltSoundPlugin.cpp:268-305 does, the assertions of
\* BroadcastMsg (MsgPluginManager.cpp:184-185) hold for every callback.
THEOREM AllFlushFirst ==
  ASSUME FlushFirst = Endpoints
  PROVE  Spec => []CallbackIdsLive
<1>1. Inv => CallbackIdsLive
  <2> SUFFICES ASSUME Inv, batch # <<>>, NEW e, e = batch[1].endpoint, NEW n \in Names
               PROVE  /\ ids[e][n] \in DOMAIN msgs
                      /\ msgs[ids[e][n]].refCount > 0
                      /\ msgs[ids[e][n]].name = n
    BY DEF CallbackIdsLive
  <2>1. batch \in Seq(QueueP!Entry)
    BY DEF Inv, QueueP!Inv, QueueP!TypeOK
  <2>2. batch[1] \in QueueP!Entry
    BY <2>1
  <2>3. e \in FlushFirst
    BY <2>2 DEF QueueP!Entry
  <2> QED BY <2>3, RunningHolds, HeldLive
<1> QED BY <1>1, Invariance, PTL

\* Then the plugins and the host, together with the queue, make the message
\* table go through steps of its own specification only.
THEOREM UsesRegistryWell ==
  ASSUME FlushFirst = Endpoints
  PROVE  Spec => RegistryUsedWell
<1>1. ASSUME Inv, NEW e \in Endpoints, NEW n \in Names, held[e][n] # 0,
             BroadcastId(ids[e][n])
      PROVE  Reg!Next
  <2>1. /\ ids[e][n] = held[e][n] /\ ids[e][n] \in DOMAIN msgs
        /\ msgs[ids[e][n]].name = n
    BY <1>1, HeldLive
  <2>2. Reg!BroadcastMsg(e, n)
    BY <1>1, <2>1 DEF BroadcastId, Reg!BroadcastMsg, Reg!NoId
  <2> QED BY <2>2 DEF Reg!Next
<1>2. Inv /\ [Next]_vars => [Reg!Next]_(Reg!vars)
  <2> SUFFICES ASSUME Inv, [Next]_vars PROVE Reg!Next \/ UNCHANGED Reg!vars
    OBVIOUS
  <2>1. CASE HostCall
    BY <2>1 DEF HostCall, Reg!Next
  <2>2. ASSUME NEW e \in Endpoints, NEW n \in Names, PluginAcquire(e, n) \/ PluginRelease(e, n)
        PROVE  Reg!Next
    BY <2>2 DEF PluginAcquire, PluginRelease, Reg!Next
  <2>3. CASE UNCHANGED regVars
    BY <2>3 DEF regVars, Reg!vars
  <2>4. CASE RunCallback
    <3>1. batch # <<>>
      BY <2>4 DEF RunCallback
    <3>2. batch \in Seq(QueueP!Entry)
      BY DEF Inv, QueueP!Inv, QueueP!TypeOK
    <3>3. batch[1] \in QueueP!Entry
      BY <3>1, <3>2
    <3>4. PICK e : e = batch[1].endpoint
      OBVIOUS
    <3>5. e \in Endpoints /\ \A n \in Names : held[e][n] # 0
      BY <3>1, <3>3, <3>4, RunningHolds DEF QueueP!Entry
    <3> QED BY <1>1, <2>4, <3>4, <3>5 DEF RunCallback
  <2>5. ASSUME NEW e \in Endpoints, NEW j, APICallNow(e, j)
        PROVE  Reg!Next
    BY <1>1, <2>5 DEF APICallNow, Holds, Reg!NoId
  <2> QED BY <2>1, <2>2, <2>3, <2>4, <2>5
          DEF Next, ProcessAsyncCallbacks, Load, Unload, LoadReturn, UnloadReturn,
              FlushPendingCallbacks, FlushPass, Post, vars
<1>3. Init => Reg!Init
  BY DEF Init
<1> QED BY <1>2, <1>3, Invariance, PTL DEF Spec, RegistryUsedWell, Reg!Spec
=============================================================================

----------------------------- MODULE PluginUnload -----------------------------
(* The message table and the callback queue of MsgPluginManager put together  *)
(* by the plugins that use both: their worker threads post callbacks that     *)
(* broadcast, on the API thread, messages whose ids the plugin acquired when  *)
(* it loaded and releases when it unloads.  Plugins of FlushFirst flush their *)
(* callbacks before they release (AltSoundPlugin.cpp:268-305), the others     *)
(* after (PinMAMEPlugin.cpp:523-549, serum.cpp:411-426).  The host holds and  *)
(* subscribes to these messages while it plays (player.cpp:773-783).  The     *)
(* plugins post without delay, so the clock may stand still here.             *)
EXTENDS Naturals, Sequences, FiniteSets

CONSTANTS Names,       \* the messages the plugins' callbacks broadcast
          Host,        \* the host's endpoint
          Endpoints, FlushFirst, Jobs, NoJob

ASSUME FlushFirstPlugins == FlushFirst \subseteq Endpoints
ASSUME HostApart == Host \notin Endpoints
ASSUME EndpointsFinite == IsFiniteSet(Endpoints)
ASSUME JobsNat == Jobs \subseteq Nat
ASSUME NoJobApart == NoJob \notin Jobs

VARIABLES msgs, held, delivered,                                \* MsgRegistry
          now, timers, pc, plugin, batch, waiting, posted, ran, \* MainThreadQueue
          ids   \* [Endpoints -> [Names -> Nat]]: the variables, like
                \*   onAudioUpdateId, that callbacks read an id from

Reg == INSTANCE MsgRegistry WITH Holders <- Endpoints \cup {Host},
                                 Callbacks <- {"onMsg"}
Queue == INSTANCE MainThreadQueue WITH Blocking <- FALSE, Delays <- {0},
                                       MaxTime <- 0

regVars == <<msgs, held, delivered>>
queueVars == <<now, timers, pc, plugin, batch, waiting, posted, ran>>
vars == <<regVars, queueVars, ids>>

Init == /\ Reg!Init
        /\ Queue!Init
        /\ ids = [e \in Endpoints |-> [n \in Names |-> Reg!NoId]]

Holds(e) == \A n \in Names : held[e][n] # Reg!NoId
HoldsNone(e) == \A n \in Names : held[e][n] = Reg!NoId

-----------------------------------------------------------------------------
(* The host's calls, between the others.                                      *)

HostCall ==
  /\ pc = "idle"
  /\ \E n \in Names : \/ Reg!GetMsgID(Host, n)
                      \/ Reg!SubscribeMsg(Host, n, "onMsg")
                      \/ Reg!UnsubscribeMsg(Host, n, "onMsg")
                      \/ Reg!ReleaseMsgID(Host, n)
  /\ UNCHANGED <<queueVars, ids>>

-----------------------------------------------------------------------------
(* The plugins' load and unload functions.                                    *)

Load(e) == Queue!Load(e) /\ UNCHANGED <<regVars, ids>>

PluginAcquire(e, n) ==
  /\ plugin[e] = "loading"
  /\ Reg!GetMsgID(e, n)
  /\ ids' = [ids EXCEPT ![e][n] = held'[e][n]]
  /\ UNCHANGED queueVars

LoadReturn(e) ==
  /\ Holds(e)
  /\ Queue!LoadReturn(e)
  /\ UNCHANGED <<regVars, ids>>

Unload(e) == Queue!Unload(e) /\ UNCHANGED <<regVars, ids>>

SlipReleasesFirst(e) == TRUE

\* Does the plugin's unload function release its ids before its call of
\* FlushPendingCallbacks?
ReleasesFirst(e) == e \notin FlushFirst

Releasing(e) == plugin[e] = IF ReleasesFirst(e) THEN "stopped" ELSE "flushed"

PluginRelease(e, n) ==
  /\ Releasing(e)
  /\ Reg!ReleaseMsgID(e, n)
  /\ UNCHANGED <<queueVars, ids>>

FlushPendingCallbacks(e) ==
  /\ ReleasesFirst(e) => HoldsNone(e)
  /\ Queue!FlushPendingCallbacks(e)
  /\ UNCHANGED <<regVars, ids>>

FlushPass(e) == Queue!FlushPass(e) /\ UNCHANGED <<regVars, ids>>

UnloadReturn(e) ==
  /\ HoldsNone(e)
  /\ Queue!UnloadReturn(e)
  /\ UNCHANGED <<regVars, ids>>

-----------------------------------------------------------------------------
(* The callbacks.                                                             *)

Post(e, j) == Queue!WorkerPost(e, j, 0) /\ UNCHANGED <<regVars, ids>>

\* BroadcastMsg with what the plugin's variable holds.  Where its assertion
\* fails it reads another message's entry, or past the table.
BroadcastId(id) ==
  /\ delivered' = IF id \in DOMAIN msgs
                  THEN [name |-> msgs[id].name, to |-> msgs[id].callbacks]
                  ELSE delivered
  /\ UNCHANGED <<msgs, held, ids>>

RunCallback ==
  /\ batch # <<>>
  /\ \E n \in Names : BroadcastId(ids[batch[1].endpoint][n])
  /\ Queue!RunCallback

APICallNow(e, j) ==
  /\ Holds(e)
  /\ Queue!APICallNow(e, j)
  /\ \E n \in Names : BroadcastId(ids[e][n])

ProcessAsyncCallbacks ==
  Queue!ProcessAsyncCallbacks /\ UNCHANGED <<regVars, ids>>

Next ==
  \/ HostCall
  \/ ProcessAsyncCallbacks
  \/ RunCallback
  \/ \E e \in Endpoints :
       \/ Load(e) \/ LoadReturn(e)
       \/ Unload(e) \/ UnloadReturn(e)
       \/ FlushPendingCallbacks(e) \/ FlushPass(e)
       \/ \E n \in Names : PluginAcquire(e, n) \/ PluginRelease(e, n)
       \/ \E j \in Queue!Fresh : APICallNow(e, j) \/ Post(e, j)

Spec == Init /\ [][Next]_vars

-----------------------------------------------------------------------------
(* What the order of a plugin's unload is about.                              *)

\* The assertions of BroadcastMsg (MsgPluginManager.cpp:184-185) hold for the
\* callback under way, and the id its plugin keeps still stands for the
\* message it was acquired for: no other message's subscribers are called.
CallbackIdsLive ==
  batch # <<>> =>
    \A n \in Names : LET id == ids[batch[1].endpoint][n] IN
      /\ id \in DOMAIN msgs
      /\ msgs[id].refCount > 0
      /\ msgs[id].name = n

\* The plugins and the host use the message table as its contract has it:
\* each broadcast through a kept id is one of a client that holds it.
RegistryUsedWell == Reg!Spec
=============================================================================

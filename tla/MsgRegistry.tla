----------------------------- MODULE MsgRegistry -----------------------------
(* The message table of MsgPluginManager (MsgPluginManager.cpp:120-222):     *)
(* message ids are positions in a vector of entries, shared by every client  *)
(* that asked for the same name, counted, left in place while free and       *)
(* recycled for the next unknown name, and popped when they end the vector.  *)
(* Every call runs to its end on the API thread, so each is one action; what *)
(* a handler may do while a broadcast is under way is MsgDispatch's subject. *)
(*                                                                           *)
(* Ids start at 1 here and at 0 in the code.  Names stands for the           *)
(* (namespace, name) pairs up to letter case, as the code compares them.     *)
(*                                                                           *)
(* Here and in the other modules a definition named Slip... is a plausible   *)
(* programming slip in the definition that follows it.  No specification     *)
(* uses it: put in place of that definition, it breaks a property.           *)
EXTENDS Naturals, Sequences, FiniteSets, SequencesExt

CONSTANTS Names,      \* message names up to letter case
          Holders,    \* clients: the host and the plugins
          Callbacks   \* the callback functions a client may register

ASSUME HoldersFinite == IsFiniteSet(Holders)

NoId == 0

VARIABLES msgs,      \* m_msgs: the vector of MsgEntry
          held,      \* [Holders -> [Names -> Nat]]: the id a client was
                     \*   given for a name and has not released, else NoId
          delivered  \* what the last BroadcastMsg or SendMsg reached

vars == <<msgs, held, delivered>>

Sub == Holders \X Callbacks
MsgEntry == [refCount : Nat, name : Names, callbacks : Seq(Sub)]
SlipNewEntry(n) == [refCount |-> 0, name |-> n, callbacks |-> <<>>]
NewEntry(n) == [refCount |-> 1, name |-> n, callbacks |-> <<>>]

-----------------------------------------------------------------------------
(* The table's operations.                                                   *)

IsFree(m, i) == m[i].refCount = 0

\* The entry GetMsgID would recycle: the first free one, 0 if there is none.
FreeMsg(m) ==
  IF \E i \in DOMAIN m : IsFree(m, i)
  THEN CHOOSE i \in DOMAIN m : /\ IsFree(m, i)
                               /\ \A j \in 1 .. i - 1 : ~ IsFree(m, j)
  ELSE 0

SlipMatchesFrom2(m, n) == {i \in DOMAIN m : i # 1 /\ m[i].name = n}

\* The positions whose name the scan compares with n and finds equal.  The
\* first free entry is set aside without a look at its name; a later free
\* entry is compared like the others.
Matches(m, n) == {i \in DOMAIN m : i # FreeMsg(m) /\ m[i].name = n}

\* The table's length once its trailing free entries are popped.
LiveLen(m) ==
  IF \E i \in DOMAIN m : ~ IsFree(m, i)
  THEN CHOOSE i \in DOMAIN m : /\ ~ IsFree(m, i)
                               /\ \A j \in i + 1 .. Len(m) : IsFree(m, j)
  ELSE 0

SlipPopCompact(m) == SelectSeq(m, LAMBDA e : e.refCount # 0)
PopFree(m) == SubSeq(m, 1, LiveLen(m))

-----------------------------------------------------------------------------
Init == /\ msgs = <<>>
        /\ held = [h \in Holders |-> [n \in Names |-> NoId]]
        /\ delivered = [name |-> "none", to |-> <<>>]

Give(h, n, id) == held' = [held EXCEPT ![h][n] = id]

\* The name is in the table, live or free: one more reference to its entry.
GetKnownId(h, n) ==
  \E i \in Matches(msgs, n) :
    /\ \A j \in Matches(msgs, n) : i <= j
    /\ msgs' = [msgs EXCEPT ![i].refCount = @ + 1]
    /\ Give(h, n, i)

\* The name is new: the first free entry takes it, with an empty list.
RecycleId(h, n) ==
  /\ Matches(msgs, n) = {}
  /\ FreeMsg(msgs) # 0
  /\ msgs' = [msgs EXCEPT ![FreeMsg(msgs)] = NewEntry(n)]
  /\ Give(h, n, FreeMsg(msgs))

\* The name is new and no entry is free: the vector grows.
GrowTable(h, n) ==
  /\ Matches(msgs, n) = {}
  /\ FreeMsg(msgs) = 0
  /\ msgs' = Append(msgs, NewEntry(n))
  /\ Give(h, n, Len(msgs) + 1)

\* A client keeps one reference per name (a second one is a second client).
GetMsgID(h, n) ==
  /\ held[h][n] = NoId
  /\ GetKnownId(h, n) \/ RecycleId(h, n) \/ GrowTable(h, n)
  /\ UNCHANGED delivered

SubscribeMsg(h, n, cb) ==
  LET id == held[h][n] IN
  /\ id # NoId
  /\ \A i \in DOMAIN msgs[id].callbacks : msgs[id].callbacks[i] # <<h, cb>>
  /\ msgs' = [msgs EXCEPT ![id].callbacks = Append(@, <<h, cb>>)]
  /\ UNCHANGED <<held, delivered>>

\* A client unsubscribes what it subscribed, while it still holds the id.
UnsubscribeMsg(h, n, cb) ==
  LET id == held[h][n] IN
  /\ id # NoId
  /\ \E i \in DOMAIN msgs[id].callbacks :
       /\ msgs[id].callbacks[i] = <<h, cb>>
       /\ msgs' = [msgs EXCEPT ![id].callbacks = RemoveAt(@, i)]
  /\ UNCHANGED <<held, delivered>>

BroadcastMsg(h, n) ==
  LET id == held[h][n] IN
  /\ id # NoId
  /\ delivered' = [name |-> n, to |-> msgs[id].callbacks]
  /\ UNCHANGED <<msgs, held>>

\* The position of the first subscription of endpoint t, 0 if there is none.
FirstOf(subs, t) ==
  IF \E i \in DOMAIN subs : subs[i][1] = t
  THEN CHOOSE i \in DOMAIN subs : /\ subs[i][1] = t
                                  /\ \A j \in 1 .. i - 1 : subs[j][1] # t
  ELSE 0

SendMsg(h, n, t) ==
  LET id == held[h][n]
      i  == FirstOf(msgs[id].callbacks, t)
  IN  /\ id # NoId
      /\ delivered' = [name |-> n,
                       to |-> IF i = 0 THEN <<>> ELSE <<msgs[id].callbacks[i]>>]
      /\ UNCHANGED <<msgs, held>>

\* A client that lets go of a name has removed its own subscriptions before,
\* as MsgPlugin.h:60-62 requires of it.
ReleaseMsgID(h, n) ==
  LET id  == held[h][n]
      one == [msgs EXCEPT ![id].refCount = @ - 1]
  IN  /\ id # NoId
      /\ FirstOf(msgs[id].callbacks, h) = 0
      /\ msgs' = IF IsFree(one, id) THEN PopFree(one) ELSE one
      /\ Give(h, n, NoId)
      /\ UNCHANGED delivered

Next == \E h \in Holders, n \in Names :
          \/ GetMsgID(h, n)
          \/ ReleaseMsgID(h, n)
          \/ \E cb \in Callbacks : SubscribeMsg(h, n, cb)
                                   \/ UnsubscribeMsg(h, n, cb)
          \/ BroadcastMsg(h, n)
          \/ \E t \in Holders : SendMsg(h, n, t)

Spec == Init /\ [][Next]_vars

-----------------------------------------------------------------------------
(* What the table must guarantee its clients.                                *)

\* The variables keep their types.
TypeOK == /\ msgs \in Seq(MsgEntry)
          /\ held \in [Holders -> [Names -> Nat]]
          /\ delivered \in [name : Names \cup {"none"}, to : Seq(Sub)]

\* No two entries, live or free, have the same name.  Two live ones would
\* split the subscribers of a message in two groups that do not hear each
\* other; a free one with a live one's name would shadow it in the scan.
NamesUnique ==
  \A i, j \in DOMAIN msgs : msgs[i].name = msgs[j].name => i = j

\* An id a client has not released is a live entry and still denotes the
\* name the client asked for, whatever the others released and acquired
\* since: the assertions on msgId at the head of every call hold.
IdDenotesName ==
  \A h \in Holders, n \in Names :
    LET id == held[h][n] IN
    id # NoId => /\ id \in DOMAIN msgs
                 /\ ~ IsFree(msgs, id)
                 /\ msgs[id].name = n

HoldersOf(i) == {h \in Holders : held[h][msgs[i].name] = i}

\* The reference count of an entry is the number of clients that hold its
\* id: a message is freed by its last client and no sooner.
RefCounted ==
  \A i \in DOMAIN msgs : msgs[i].refCount = Cardinality(HoldersOf(i))

\* A subscription belongs to a client that holds the id.  So a free entry has
\* no callback (the assertion of ReleaseMsgID), and an entry that the scan
\* takes back into use without clearing its list brings none back.
SubscribersHold ==
  \A i \in DOMAIN msgs : \A k \in DOMAIN msgs[i].callbacks :
    held[msgs[i].callbacks[k][1]][msgs[i].name] = i

\* The table ends with a live entry, so it is empty once every client
\* released what it held (the leak check of the destructor, lines 76-82).
TableTrimmed == msgs # <<>> => ~ IsFree(msgs, Len(msgs))

\* The table implements the bus: what a broadcast or a send reaches is what
\* was subscribed under the sender's name, in subscription order.
BusAcquired == [h \in Holders |-> {n \in Names : held[h][n] # NoId}]
EntryOf(n) == {i \in DOMAIN msgs : msgs[i].name = n}
BusSubscribers == [n \in Names |-> IF EntryOf(n) = {} THEN <<>>
                                    ELSE msgs[CHOOSE i \in EntryOf(n) : TRUE].callbacks]
Bus == INSTANCE MsgBus WITH acquired <- BusAcquired,
                            subscribers <- BusSubscribers
BusSpec == Bus!Spec
=============================================================================

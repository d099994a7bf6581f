------------------------------- MODULE MsgBus -------------------------------
(* What the plugin message API promises (MsgPlugin.h:26-66): messages have   *)
(* names, a client that asked for a name may subscribe to it and send it,    *)
(* and a message reaches exactly the subscribers of its name, in the order   *)
(* of their subscriptions.  Nothing here knows of message ids or of their    *)
(* recycling: MsgRegistry, the table the host keeps, implements this.        *)
EXTENDS Naturals, Sequences, SequencesExt

CONSTANTS Names,       \* message names, a (namespace, name) pair each
          Holders,     \* clients of the API: the host and the plugins
          Callbacks    \* the callback functions a client may register

VARIABLES acquired,    \* [Holders -> SUBSET Names]: names a client asked for
          subscribers, \* [Names -> Seq(Sub)]: subscriptions, oldest first
          delivered    \* what the last broadcast or send reached

vars == <<acquired, subscribers, delivered>>

Sub == Holders \X Callbacks
Nothing == [name |-> "none", to |-> <<>>]

\* The position of the first subscription of client t, 0 if there is none.
FirstOf(subs, t) ==
  IF \E i \in DOMAIN subs : subs[i][1] = t
  THEN CHOOSE i \in DOMAIN subs : /\ subs[i][1] = t
                                  /\ \A j \in 1 .. i - 1 : subs[j][1] # t
  ELSE 0

SentTo(subs, t) == LET i == FirstOf(subs, t)
                   IN  IF i = 0 THEN <<>> ELSE <<subs[i]>>

Init == /\ acquired = [h \in Holders |-> {}]
        /\ subscribers = [n \in Names |-> <<>>]
        /\ delivered = Nothing

Acquire(h, n) ==
  /\ n \notin acquired[h]
  /\ acquired' = [acquired EXCEPT ![h] = @ \cup {n}]
  /\ UNCHANGED <<subscribers, delivered>>

\* A client gives a name up once it has no subscription of it left.
Release(h, n) ==
  /\ n \in acquired[h]
  /\ FirstOf(subscribers[n], h) = 0
  /\ acquired' = [acquired EXCEPT ![h] = @ \ {n}]
  /\ UNCHANGED <<subscribers, delivered>>

Subscribe(h, n, cb) ==
  /\ n \in acquired[h]
  /\ \A i \in DOMAIN subscribers[n] : subscribers[n][i] # <<h, cb>>
  /\ subscribers' = [subscribers EXCEPT ![n] = Append(@, <<h, cb>>)]
  /\ UNCHANGED <<acquired, delivered>>

Unsubscribe(h, n, cb) ==
  \E i \in DOMAIN subscribers[n] :
    /\ subscribers[n][i] = <<h, cb>>
    /\ subscribers' = [subscribers EXCEPT ![n] = RemoveAt(@, i)]
    /\ UNCHANGED <<acquired, delivered>>

Broadcast(h, n) ==
  /\ n \in acquired[h]
  /\ delivered' = [name |-> n, to |-> subscribers[n]]
  /\ UNCHANGED <<acquired, subscribers>>

Send(h, n, t) ==
  /\ n \in acquired[h]
  /\ delivered' = [name |-> n, to |-> SentTo(subscribers[n], t)]
  /\ UNCHANGED <<acquired, subscribers>>

Next == \E h \in Holders, n \in Names :
          \/ Acquire(h, n)
          \/ Release(h, n)
          \/ \E cb \in Callbacks : Subscribe(h, n, cb) \/ Unsubscribe(h, n, cb)
          \/ Broadcast(h, n)
          \/ \E t \in Holders : Send(h, n, t)

Spec == Init /\ [][Next]_vars
=============================================================================

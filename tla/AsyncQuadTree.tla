---------------------------- MODULE AsyncQuadTree ----------------------------
(* The editor's picking structure, AsyncDynamicQuadTree                       *)
(* (physics/AsyncDynamicQuadTree.cpp): the hit objects of the parts are in a  *)
(* static tree; a part that is edited is made dynamic, its hit objects are    *)
(* made anew and tested one by one; when it is static again a worker thread   *)
(* puts them into a copy of the tree, that the main thread swaps with the     *)
(* tree when it next looks.  The calls of the main thread (editor) and the    *)
(* steps of the worker interleave; two semaphores hand the work over.         *)
(*                                                                            *)
(* A hit object is a pointer: the part it belongs to, the collection of the   *)
(* part it comes from and its number there.  Where it lies in space, and the  *)
(* nodes of the tree above the list of hit objects, are left out.  The lists  *)
(* of parts are sets: std::partition leaves their order open, and the worker  *)
(* takes up the parts in any order.  Slots that are freed together are listed *)
(* in any one order.                                                          *)
EXTENDS Naturals, Sequences, FiniteSets, SequencesExt

CONSTANTS Parts,
          Counts,   \* how many hit objects a collection may give
          MaxGen    \* bound: collections of one part

ASSUME PartsFinite == IsFiniteSet(Parts) /\ "null" \notin Parts
ASSUME CountsNat == Counts \subseteq Nat \ {0}
ASSUME MaxGenNat == MaxGen \in Nat \ {0}

Obj == [part : Parts, gen : 1 .. MaxGen, n : Nat]
Null == [part |-> "null"]

VARIABLES q,       \* the members of the object, shared by both threads
          pc,      \* what the main thread is in
          target,  \* the part the main thread removes, in a set
          worker,  \* m_quadtreeUpdateThread
          gen,     \* [Parts -> Nat]: collections made of each part
          present  \* the parts of the table

vars == <<q, pc, target, worker, gen, present>>

\* The objects of a collection.
Collected(e, g, k) == [i \in 1 .. k |-> [part |-> e, gen |-> g, n |-> i]]

\* The positions of the hit objects of a set of parts, and the objects.
Positions(t, E) == {i \in DOMAIN t : t[i].part \in E}
ObjectsOf(t, E) == {t[i] : i \in Positions(t, E)}

IsDynamic(s, e) == \E d \in s.dynamic : d.part = e
IsUpdated(s, e) == \E d \in s.updated : d.part = e
IsPending(s, e) == \E d \in s.dynamic : d.part = e /\ d.pending
IsStatic(s, e) == IsDynamic(s, e) => IsPending(s, e)

-----------------------------------------------------------------------------
(* What the calls do to the members.                                          *)

\* Delete the tree's objects of some parts; their slots are left null.
DeleteFromTree(s, E) ==
  [s EXCEPT !.tree = [i \in DOMAIN @ |-> IF i \in Positions(@, E) THEN Null ELSE @[i]],
            !.nullSlots = @ \o SetToSeq(Positions(s.tree, E)),
            !.allocated = @ \ ObjectsOf(s.tree, E)]

SetPending(s, e, b) ==
  [s EXCEPT !.dynamic = {IF d.part = e THEN [d EXCEPT !.pending = b] ELSE d : d \in @}]

Replaced(s) == [s EXCEPT !.inProgress = FALSE, !.ready = @ - 1,
                         !.tree = s.pendingTree]

SlipSwapped(s) == IF s.ready = 0 THEN s ELSE Replaced(s)

\* UpdateAsync, first half: a finished update becomes the tree, without the
\* parts that were made dynamic while it was under way.
Swapped(s) ==
  IF s.ready = 0 THEN s
  ELSE DeleteFromTree(Replaced(s), {d.part : d \in s.dynamic})

CannotStart(s, pend) == s.inProgress \/ pend = {}

\* UpdateAsync, second half: the dynamic parts that wait for their inclusion
\* are handed over to the worker, with a copy of the tree.
Started(s) ==
  LET pend == {d \in s.dynamic : d.pending} IN
  IF CannotStart(s, pend) THEN s
  ELSE [s EXCEPT !.updated = @ \cup pend,
                 !.dynamic = @ \ pend,
                 !.inProgress = TRUE,
                 !.pendingTree = s.tree,
                 !.waiting = @ + 1]

UpdateAsync(s) == Started(Swapped(s))

SlipMustDefer(s, e) == IsUpdated(s, e)

\* While an update is under way the worker shares the tree's objects.
MustDefer(s, e) == IsUpdated(s, e) \/ s.inProgress

Detached(s, e) == IF MustDefer(s, e) THEN s ELSE DeleteFromTree(s, {e})

AddDynamic(s, e, objs) ==
  [s EXCEPT !.dynamic = @ \cup {[part |-> e, pending |-> FALSE, objs |-> objs]},
            !.allocated = @ \cup Range(objs)]

ListObjs(l) == UNION {Range(d.objs) : d \in l}

\* Erase a part from the dynamic list, with its objects.
DropDynamic(s, e) ==
  [s EXCEPT !.dynamic = {d \in @ : d.part # e},
            !.allocated = @ \ ListObjs({d \in s.dynamic : d.part = e})]

-----------------------------------------------------------------------------
(* The main thread.                                                           *)

\* The constructor collects all parts into the tree.
Init ==
  \E k \in [Parts -> Counts] :
    LET objs == SetToSeq(UNION {Range(Collected(e, 1, k[e])) : e \in Parts}) IN
    /\ q = [tree |-> objs, pendingTree |-> <<>>, dynamic |-> {},
            updated |-> {}, nullSlots |-> <<>>, inProgress |-> FALSE,
            waiting |-> 0, ready |-> 0, allocated |-> Range(objs)]
    /\ pc = "idle"
    /\ target = {}
    /\ worker = "waiting"
    /\ gen = [e \in Parts |-> 1]
    /\ present = Parts

\* What a new collection of a part's hit objects may yield.
Collect(e) ==
  {Collected(e, gen[e] + 1, k) : k \in {c \in Counts : gen[e] < MaxGen}}

CollectedOnce(e) == gen' = [gen EXCEPT ![e] = @ + 1]

SetDynamic(e) ==
  /\ pc = "idle"
  /\ e \in present
  /\ IsStatic(q, e)
  /\ IF IsDynamic(q, e)
     THEN q' = SetPending(q, e, FALSE) /\ UNCHANGED gen
     ELSE /\ \E objs \in Collect(e) : q' = AddDynamic(Detached(q, e), e, objs)
          /\ CollectedOnce(e)
  /\ UNCHANGED <<pc, target, worker, present>>

\* The part has changed: its objects are collected again, then the former
\* ones deleted.
Update(e) ==
  /\ pc = "idle"
  /\ IsDynamic(q, e) /\ ~ IsPending(q, e)
  /\ \E objs \in Collect(e) : q' = AddDynamic(DropDynamic(q, e), e, objs)
  /\ CollectedOnce(e)
  /\ UNCHANGED <<pc, target, worker, present>>

SetStatic(e) ==
  /\ pc = "idle"
  /\ ~ IsStatic(q, e)
  /\ q' = UpdateAsync(SetPending(q, e, TRUE))
  /\ UNCHANGED <<pc, target, worker, gen, present>>

\* HitTestBall and HitTestXRay look for a finished update first.
HitTest ==
  /\ pc = "idle"
  /\ UpdateAsync(q) # q
  /\ q' = UpdateAsync(q)
  /\ UNCHANGED <<pc, target, worker, gen, present>>

\* Remove makes the part dynamic, then waits for the worker.
RemoveCall(e) ==
  /\ pc = "idle"
  /\ e \in present
  /\ pc' = "removing"
  /\ target' = {e}
  /\ CASE ~ IsDynamic(q, e) ->
            /\ \E objs \in Collect(e) : q' = AddDynamic(Detached(q, e), e, objs)
            /\ CollectedOnce(e)
       [] IsPending(q, e) -> q' = SetPending(q, e, FALSE) /\ UNCHANGED gen
       [] OTHER -> UNCHANGED <<q, gen>>
  /\ UNCHANGED <<worker, present>>

SlipAwaited(s) == Started(s)
Awaited(s) == UpdateAsync(s)

\* Remove and the destructor, while an update is in progress: acquire and
\* release the semaphore, then UpdateAsync, which may start the next update.
AwaitUpdate ==
  /\ pc \in {"removing", "closing"}
  /\ q.inProgress
  /\ q.ready > 0
  /\ q' = Awaited(q)
  /\ UNCHANGED <<pc, target, worker, gen, present>>

RemoveReturn(e) ==
  /\ pc = "removing"
  /\ ~ q.inProgress
  /\ q' = DropDynamic(q, e)
  /\ pc' = "idle"
  /\ target' = {}
  /\ present' = present \ {e}
  /\ UNCHANGED <<worker, gen>>

CloseCall ==
  /\ pc = "idle"
  /\ pc' = "closing"
  /\ UNCHANGED <<q, target, worker, gen, present>>

\* The worker is released, to find that there is nothing to do.
CloseWorker ==
  /\ pc = "closing"
  /\ ~ q.inProgress
  /\ q' = [q EXCEPT !.waiting = @ + 1]
  /\ pc' = "joining"
  /\ UNCHANGED <<target, worker, gen, present>>

\* Once the worker is joined, the dynamic parts and the tree are deleted.
CloseReturn ==
  /\ pc = "joining"
  /\ worker = "ended"
  /\ q' = [q EXCEPT !.allocated =
             @ \ (Range(q.tree) \cup ListObjs(q.dynamic)),
                    !.tree = <<>>, !.dynamic = {}, !.nullSlots = <<>>]
  /\ pc' = "closed"
  /\ UNCHANGED <<target, worker, gen, present>>

-----------------------------------------------------------------------------
(* The worker, UpdateQuadtreeThread.                                          *)

WorkerAcquire ==
  /\ worker = "waiting"
  /\ q.waiting > 0
  /\ q' = [q EXCEPT !.waiting = @ - 1]
  /\ worker' = IF q.inProgress THEN "moving" ELSE "ended"
  /\ UNCHANGED <<pc, target, gen, present>>

\* The objects go to the null slots as far as there are some, then to the end.
Placed(t, slots, objs) ==
  [i \in DOMAIN t |->
     IF \E k \in DOMAIN objs \cap DOMAIN slots : slots[k] = i
     THEN objs[CHOOSE k \in DOMAIN objs \cap DOMAIN slots : slots[k] = i]
     ELSE t[i]] \o SubSeq(objs, Len(slots) + 1, Len(objs))

\* The objects of one part move to the copy of the tree.
WorkerMove ==
  /\ worker = "moving"
  /\ \E d \in q.updated :
       q' = [q EXCEPT !.pendingTree = Placed(@, q.nullSlots, d.objs),
                      !.nullSlots = SubSeq(@, Len(d.objs) + 1, Len(@)),
                      !.updated = @ \ {d}]
  /\ UNCHANGED <<pc, target, worker, gen, present>>

SlipCompacted(t, slots) == t

\* The null slots that are left are removed.
Compacted(t, slots) ==
  IF slots = <<>> THEN t
  ELSE LET left == SetToSeq({i \in DOMAIN t : t[i] # Null}) IN [k \in DOMAIN left |-> t[left[k]]]

WorkerRelease ==
  /\ worker = "moving"
  /\ q.updated = {}
  /\ q' = [q EXCEPT !.pendingTree = Compacted(@, q.nullSlots),
                    !.nullSlots = <<>>,
                    !.ready = @ + 1]
  /\ worker' = "waiting"
  /\ UNCHANGED <<pc, target, gen, present>>

-----------------------------------------------------------------------------
Terminated == pc = "closed" /\ UNCHANGED vars

Main == \/ \E e \in Parts : SetDynamic(e) \/ Update(e) \/ SetStatic(e)
                            \/ RemoveCall(e)
        \/ \E e \in target : RemoveReturn(e)
        \/ HitTest \/ AwaitUpdate
        \/ CloseCall \/ CloseWorker \/ CloseReturn

Worker == WorkerAcquire \/ WorkerMove \/ WorkerRelease

Next == Main \/ Worker \/ Terminated

Spec == Init /\ [][Next]_vars

\* The worker is scheduled, and so is the main thread once a wait of its own
\* can end.  The editor need not call anything.
Fairness == /\ WF_vars(Worker)
            /\ WF_vars(AwaitUpdate \/ CloseWorker \/ CloseReturn
                       \/ \E e \in target : RemoveReturn(e))

LiveSpec == Spec /\ Fairness

-----------------------------------------------------------------------------
(* What the editor and the heap rely on.                                      *)

Slots == Seq(Obj \cup {Null})
Entry == [part : Parts, pending : BOOLEAN, objs : Seq(Obj)]

Members ==
  [tree : Slots, pendingTree : Slots, dynamic : SUBSET Entry, updated : SUBSET Entry,
   nullSlots : Seq(Nat), inProgress : BOOLEAN, waiting : 0 .. 1, ready : 0 .. 1,
   allocated : SUBSET Obj]

\* The variables keep their types; a binary semaphore is not released twice.
TypeOK ==
  /\ q \in Members
  /\ pc \in {"idle", "removing", "closing", "joining", "closed"}
  /\ target \in SUBSET Parts
  /\ worker \in {"waiting", "moving", "ended"}
  /\ gen \in [Parts -> 1 .. MaxGen]
  /\ present \in SUBSET Parts

InUse == (Range(q.tree) \cup ListObjs(q.dynamic) \cup ListObjs(q.updated)
          \cup IF q.inProgress THEN Range(q.pendingTree) ELSE {}) \ {Null}

\* An update is under way if and only if it waits for the worker, is being
\* worked on or is ready: both threads are never at the copy at once.
HandOver ==
  pc \notin {"joining", "closed"} =>
    q.waiting + q.ready + (IF worker = "moving" THEN 1 ELSE 0)
      = IF q.inProgress THEN 1 ELSE 0

\* Every hit object that a list or a tree in use points to is allocated, and
\* every allocated one is pointed to: none is deleted while the worker or a
\* hit test may follow a pointer to it, none is leaked, not even when the
\* structure is destroyed.  The lists are read and changed without a lock: an
\* update is with one thread at a time.
ObjectsInUse == q.allocated = InUse /\ HandOver

\* Between updates the free slots are the null entries of the tree, each
\* listed once: an update that fills a slot overwrites no object.
SlotsExact ==
  ~ q.inProgress =>
    /\ Range(q.nullSlots) = {i \in DOMAIN q.tree : q.tree[i] = Null}
    /\ IsInjective(q.nullSlots)

\* Between updates a part is tested in one place and in its last version:
\* as dynamic and not in the tree, or with each object of its last collection
\* once in the tree, whatever was changed while updates were under way.
InOnePlace ==
  ~ q.inProgress /\ pc # "closed" =>
    \A e \in present :
      LET here == Positions(q.tree, {e}) IN
      IF IsDynamic(q, e) THEN here = {}
      ELSE /\ \A i, j \in here : q.tree[i] = q.tree[j] => i = j
           /\ \E k \in Counts : ObjectsOf(q.tree, {e}) = Range(Collected(e, gen[e], k))

\* A part whose removal returned, and that is deleted next, is in no list and
\* no tree that is still used.
RemovedGone ==
  \A e \in Parts \ present : \A o \in InUse : o.part # e

\* A call that waits for the worker returns.
WaitsEnd ==
  pc \in {"removing", "closing", "joining"} ~> pc \in {"idle", "closed"}
=============================================================================

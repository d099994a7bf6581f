------------------------------ MODULE MainSteps ------------------------------
(***************************************************************************)
(* What the main thread, which runs every plugin handler, still has to do: *)
(* a handler is a sequence of named steps, and a handler that broadcasts a *)
(* message puts the steps of its subscribers before its own remaining      *)
(* ones.  A step that waits (for a mutex, for a thread to end) keeps the   *)
(* others waiting.                                                         *)
(***************************************************************************)
EXTENDS Integers, Sequences

VARIABLE
  todo       \* the steps to be taken, first one first

Idle == todo = <<>>
AtStep(step) == todo # <<>> /\ Head(todo) = step
Pass == todo' = Tail(todo)
PassInto(steps) == todo' = steps \o Tail(todo)
=============================================================================

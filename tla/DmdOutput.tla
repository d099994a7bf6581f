------------------------------ MODULE DmdOutput ------------------------------
(***************************************************************************)
(* The DMDUtil plugin: a thread of its own shows the frames of the display *)
(* the main thread selected, a colorized one rather than a plain one.      *)
(***************************************************************************)
EXTENDS MainSteps

VARIABLES
  running,      \* isRunning
  output,       \* updateThread: "none" when it is not joinable
  outputMutex,  \* the plugin's sourceMutex
  found,        \* newDmdId of the running onDmdSrcChanged
  selected,     \* selectedDmdId: kind, size, plane
  frame         \* what GetRenderFrame returned: kind, number of the state, size

outputVars == <<running, output, outputMutex, found, selected, frame>>

NoSource == [kind |-> "none", size |-> 0, plane |-> 0]
NullFrame == [kind |-> "none", nr |-> 0, size |-> 0]

OutputInit ==
  /\ running = FALSE /\ output = "none" /\ outputMutex = "none"
  /\ found = NoSource /\ selected = NoSource /\ frame = NullFrame

(***************************************************************************)
(* UpdateThread.                                                           *)
(***************************************************************************)
OutputGoes(from, to) == output = from /\ output' = to

\* The loop's condition is read without the mutex.
CheckOutput ==
  /\ OutputGoes("check", IF running /\ selected # NoSource THEN "lock" ELSE "end")
  /\ UNCHANGED <<todo, running, outputMutex, found, selected, frame>>

LockOutput ==
  /\ OutputGoes("lock", "get")
  /\ outputMutex = "none"
  /\ outputMutex' = "output"
  /\ UNCHANGED <<todo, running, found, selected, frame>>

\* GetRenderFrame of the selected display.  A display that is gone since the
\* loop's condition was read has none to call: the program crashes.
GetFrame(returned) ==
  /\ OutputGoes("get", IF selected = NoSource THEN "crashed" ELSE "show")
  /\ frame' = returned
  /\ UNCHANGED <<todo, running, outputMutex, found, selected>>

\* A frame with the number of the last one is not shown again.  What a frame
\* that is gone shows is not defined.
ShowFrame ==
  /\ OutputGoes("show", "check")
  /\ outputMutex' = "none"
  /\ frame' = NullFrame
  /\ UNCHANGED <<todo, running, found, selected>>

EndOutput ==
  /\ OutputGoes("end", "ended")
  /\ running' = FALSE
  /\ UNCHANGED <<todo, outputMutex, found, selected, frame>>

(***************************************************************************)
(* The main thread's steps.                                                *)
(***************************************************************************)
\* onDmdSrcChanged: choose among the displays, then select under the mutex.
FindOutput(best) ==
  /\ AtStep("findOutput") /\ Pass
  /\ found' = best
  /\ UNCHANGED <<running, output, outputMutex, selected, frame>>

\* The thread is only started when none was before, ended or not.
SelectOutput ==
  /\ AtStep("selectOutput") /\ Pass
  /\ outputMutex = "none"
  /\ selected' = found
  /\ found' = NoSource
  /\ running' = IF found = NoSource THEN running ELSE TRUE
  /\ output' = IF found # NoSource /\ output = "none" THEN "check" ELSE output
  /\ UNCHANGED <<outputMutex, frame>>

\* onGameEnd.
StopOutput ==
  /\ AtStep("stopOutput") /\ Pass
  /\ running' = FALSE
  /\ UNCHANGED <<output, outputMutex, found, selected, frame>>

JoinOutput ==
  /\ AtStep("joinOutput") /\ Pass
  /\ output \in {"none", "ended"}
  /\ output' = "none"
  /\ UNCHANGED <<running, outputMutex, found, selected, frame>>
=============================================================================

----------------------------- MODULE DisplayChain -----------------------------
(***************************************************************************)
(* From a controller's display to the screen: a colorization plugin that   *)
(* offers a colorized display in place of the controller's, and the        *)
(* DMDUtil plugin that shows the better of the two, with a thread each.    *)
(* The main thread runs their handlers.                                    *)
(***************************************************************************)
EXTENDS ColorizeWorker, DmdOutput

CONSTANTS
  Displays,     \* sizes of the controller's displays
  ColorFirst,   \* the colorization plugin subscribed before DMDUtil
  MaxGames,     \* bound: games started
  MaxChanges    \* bound: changes of the controller's display

ASSUME DisplaysArePositive == Displays \subseteq Nat \ {0}
ASSUME ColorFirstBool == ColorFirst \in BOOLEAN

VARIABLES
  source,       \* the controller's display: its size, or NoDisplay
  suits,        \* it is one that can be colorized: it identifies frames, and is wide
  changes,      \* changes of it
  present       \* the colorization plugin is loaded

chainVars == <<source, suits, changes, present>>
vars == <<todo, colorVars, outputVars, chainVars>>

Init ==
  /\ todo = <<>> /\ ColorInit /\ OutputInit
  /\ source = NoDisplay /\ suits = FALSE /\ changes = 0 /\ present = TRUE

\* What a broadcast of OnDisplaysChanged makes the main thread do.
Announce ==
  LET color == IF present THEN <<"selectDisplay">> ELSE <<>>
      shown == <<"findOutput", "selectOutput">>
  IN  IF ColorFirst THEN color \o shown ELSE shown \o color

\* The displays DMDUtil prefers: the wider of two colorized ones is any of them.
Best ==
  IF Offered # {} THEN [kind : {"color"}, size : {state.size}, plane : Offered]
  ELSE IF source # NoDisplay THEN {[kind |-> "plain", size |-> source, plane |-> 0]}
  ELSE {NoSource}

\* The frame it gets from the one it selected: null, nr 0, when the state has
\* none for the plane.
Rendered ==
  IF selected.kind = "color"
  THEN [kind |-> "color", size |-> state.size,
        nr |-> IF selected.plane \in state.planes THEN state.nr ELSE 0]
  ELSE [kind |-> selected.kind, nr |-> 0, size |-> selected.size]

Crashed == output = "crashed"

(***************************************************************************)
(* What happens to the main thread when it has nothing left to do.         *)
(***************************************************************************)
Event(steps) == Idle /\ todo' = steps /\ UNCHANGED <<colorVars, outputVars>>

StartGame == present /\ games < MaxGames /\ Event(<<"gameStart">>) /\ UNCHANGED chainVars
EndGame == present /\ Event(StopColorization) /\ UNCHANGED chainVars
EndTable == Event(<<"stopOutput", "joinOutput">>) /\ UNCHANGED chainVars

ChangeSource ==
  /\ changes < MaxChanges
  /\ source' \in Displays \cup {NoDisplay} /\ suits' \in BOOLEAN
  /\ source' = NoDisplay => ~suits'
  /\ <<source', suits'>> # <<source, suits>>
  /\ changes' = changes + 1
  /\ Event(Announce)
  /\ UNCHANGED present

UnloadColor ==
  /\ present
  /\ Event(StopColorization \o <<"unsubscribe", "flush">>)
  /\ UNCHANGED chainVars

\* Every callback that waits announces the displays.
RunAll ==
  [i \in 1 .. posted * Len(Announce) |-> Announce[1 + ((i - 1) % Len(Announce))]]
TakeCallbacks ==
  /\ posted' = 0
  /\ UNCHANGED <<isRunning, worker, sourceMutex, dmdId, frameVars, games, outputVars, chainVars>>

ProcessCallbacks ==
  /\ Idle /\ posted # 0
  /\ todo' = RunAll
  /\ TakeCallbacks

(***************************************************************************)
(* Steps of its own.                                                       *)
(***************************************************************************)
Unsubscribe ==
  /\ AtStep("unsubscribe") /\ Pass
  /\ present' = FALSE
  /\ UNCHANGED <<colorVars, outputVars, source, suits, changes>>

Flush ==
  /\ AtStep("flush")
  /\ PassInto(RunAll)
  /\ TakeCallbacks

MainThread ==
  \/ /\ \/ ClearRunning \/ JoinWorker \/ Dispose(Announce) \/ ForgetDisplay
        \/ SelectDisplay(source, suits) \/ GameStart \/ Load \/ Launch
     /\ UNCHANGED <<outputVars, chainVars>>
  \/ /\ (\E best \in Best : FindOutput(best)) \/ SelectOutput \/ StopOutput \/ JoinOutput
     /\ UNCHANGED <<colorVars, chainVars>>
  \/ Unsubscribe \/ Flush

OutputThread ==
  /\ CheckOutput \/ LockOutput \/ GetFrame(Rendered) \/ ShowFrame \/ EndOutput
  /\ UNCHANGED <<colorVars, chainVars>>

WorkerThread == ColorizeThread /\ UNCHANGED <<outputVars, chainVars>>

Events == StartGame \/ EndGame \/ EndTable \/ ChangeSource \/ UnloadColor

Next == ~Crashed /\ (Events \/ ProcessCallbacks \/ MainThread \/ WorkerThread \/ OutputThread)

(***************************************************************************)
(* The threads run and get the mutexes they wait for (the worker and the   *)
(* output sleep without them in every round); the main thread runs its     *)
(* steps and looks for callbacks in every frame.  Nothing is assumed of    *)
(* games, displays and frames.                                             *)
(***************************************************************************)
Spec ==
  /\ Init /\ [][Next]_vars
  /\ SF_vars(~Crashed /\ MainThread) /\ SF_vars(~Crashed /\ ProcessCallbacks)
  /\ SF_vars(~Crashed /\ WorkerThread) /\ SF_vars(~Crashed /\ OutputThread)

-----------------------------------------------------------------------------
(***************************************************************************)
(* The worker uses the library while its data is loaded, and the state     *)
(* while it is allocated, however the main thread stops, starts and        *)
(* unloads around it.                                                      *)
(***************************************************************************)
ColorizerHeld ==
  /\ worker \in {"colorize", "update", "animate"} => colorizer # 0
  /\ worker = "animate" => state.nr # 0

(***************************************************************************)
(* A worker is never started over one that has not been joined, which      *)
(* would end the program, also when it ended by itself before.             *)
(***************************************************************************)
JoinedBeforeLaunch == AtStep("launch") => worker = "none"

(***************************************************************************)
(* When the handlers are done, both plugins look at displays that exist:   *)
(* the worker at the controller's, if that one can be colorized, the       *)
(* output at the controller's or at a colorized one whose plugin still is  *)
(* at work.                                                                *)
(***************************************************************************)
Watched == IF suits THEN source ELSE NoDisplay
SelectionsCurrent ==
  Idle =>
    /\ colorizer # 0 => dmdId = Watched
    /\ selected.kind = "plain" => selected.size = source
    /\ selected.kind = "color" => colorizer # 0
    /\ selected = NoSource => source = NoDisplay

(***************************************************************************)
(* The main thread always gets to the end of its handlers: it is not left  *)
(* waiting for a mutex or for a thread to end.                             *)
(***************************************************************************)
HandlersEnd == ~Idle ~> (Idle \/ Crashed)

(***************************************************************************)
(* A colorized display that had a frame when it was allocated is shown in  *)
(* the end, at its size, where colorization subscribed first: the device   *)
(* gets a frame of it, unless it is not offered any more, the table ended  *)
(* or the output's thread ended by itself.  The latter shows nothing until *)
(* the next table: a thread that ended is not started again.               *)
(***************************************************************************)
Shown ==
  /\ output = "show" /\ frame.kind = "color" /\ frame.nr = state.nr
  /\ selected.kind = "color" /\ selected.size = state.size
OutputGone ==
  output \in {"end", "ended"} \/ (output = "none" /\ Idle /\ posted = 0) \/ Crashed

(***************************************************************************)
(* ControllerPlugin.h says of GetRenderFrame: Thread safe.  Returned value *)
(* is not null, owned by the source.  What is shown is a frame that        *)
(* exists, and has the size that was announced.                            *)
(***************************************************************************)
FramesUsable ==
  (output = "show" /\ frame.kind = "color") =>
    frame.nr # 0 /\ frame.nr = state.nr /\ frame.size = selected.size
=============================================================================

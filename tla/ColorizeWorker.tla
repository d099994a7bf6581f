---------------------------- MODULE ColorizeWorker ----------------------------
(***************************************************************************)
(* The colorization plugins Serum and VNI: a worker thread identifies the  *)
(* frames of a display and colorizes them, while the main thread starts    *)
(* and stops it with the games and tells it which display to look at.  The *)
(* plugins are the same but for the library, and for the triggers Serum    *)
(* sends, which are left out.  The size of a colorized frame is that of    *)
(* the display (Serum) or of the identified frame (VNI): any size may come *)
(* with any frame.  It has a frame to show from its allocation on (VNI,    *)
(* Serum 1), or frames of 32 and 64 lines that come with the frames and    *)
(* animations that have them (Serum 2).                                    *)
(***************************************************************************)
EXTENDS MainSteps

CONSTANTS
  Sizes,        \* sizes of colorized frames
  Planes,       \* resIds of a colorized display: 1 for Serum 2's of 64 lines, else 0
  MaxFrames     \* bound: frames that are identified

NoDisplay == 0
ASSUME SizesArePositive == Sizes \subseteq Nat \ {0}

VARIABLES
  isRunning,    \* the flag the worker looks at, and clears when it ends
  worker,       \* colorizeThread: "none" when it is not joinable
  sourceMutex,  \* "none" or "worker"; the main thread holds it within a step
  dmdId,        \* the display that is looked at: its size, or NoDisplay
  colorizer,    \* pSerum, pVni: the game it was loaded for, 0 when disposed
  colorized,    \* frames the libraries identified
  state,        \* the colorized frame: its nr, 0 for the null pointer, its size,
                \* the planes that have a frame, and did any when it was new?
  made,         \* states allocated
  posted,       \* callbacks that wait for the main thread, to announce displays
  games         \* games started

colorVars == <<isRunning, worker, sourceMutex, dmdId, colorizer, colorized,
               state, made, posted, games>>
frameVars == <<colorizer, colorized, state, made>>

NoState == [nr |-> 0, size |-> 0, planes |-> {}, early |-> FALSE]

ColorInit ==
  /\ isRunning = FALSE /\ worker = "none"
  /\ sourceMutex = "none"
  /\ dmdId = NoDisplay /\ colorizer = 0 /\ colorized = 0
  /\ state = NoState /\ made = 0 /\ posted = 0 /\ games = 0

(***************************************************************************)
(* The worker.                                                             *)
(***************************************************************************)
WorkerGoes(from, to) == worker = from /\ worker' = to

CheckRunning ==
  /\ WorkerGoes("check", IF isRunning THEN "lock" ELSE "end")
  /\ UNCHANGED <<todo, isRunning, sourceMutex, dmdId, frameVars, posted, games>>

\* After a sleep.  Without a display the lock is given back at once.
LockSource ==
  /\ sourceMutex = "none"
  /\ WorkerGoes("lock", IF dmdId = NoDisplay THEN "check" ELSE "look")
  /\ sourceMutex' = IF dmdId = NoDisplay THEN "none" ELSE "worker"
  /\ UNCHANGED <<todo, isRunning, dmdId, frameVars, posted, games>>

\* The display has no frame any more: the worker gives up.
NoFrame ==
  /\ WorkerGoes("look", "end")
  /\ sourceMutex' = "none"
  /\ UNCHANGED <<todo, isRunning, dmdId, frameVars, posted, games>>

\* The frame seen before: an animation may go on.
SameFrame ==
  /\ \/ WorkerGoes("look", "check") /\ sourceMutex' = "none"
     \/ state.nr # 0 /\ WorkerGoes("look", "animate") /\ UNCHANGED sourceMutex
  /\ UNCHANGED <<todo, isRunning, dmdId, frameVars, posted, games>>

\* Serum_Rotate.  The state is changed without stateMutex.
Animate ==
  /\ WorkerGoes("animate", "check")
  /\ \E got \in SUBSET Planes : state' = [state EXCEPT !.planes = @ \cup got]
  /\ sourceMutex' = "none"
  /\ UNCHANGED <<todo, isRunning, dmdId, colorizer, colorized, made, posted, games>>

NewFrame ==
  /\ WorkerGoes("look", "colorize")
  /\ colorized < MaxFrames
  /\ UNCHANGED <<todo, isRunning, sourceMutex, dmdId, frameVars, posted, games>>

\* Serum_Colorize, Vni_Colorize: the frame may be unknown.
Colorize ==
  /\ \/ WorkerGoes("colorize", "check") /\ sourceMutex' = "none" /\ UNCHANGED colorized
     \/ WorkerGoes("colorize", "update") /\ colorized' = colorized + 1 /\ UNCHANGED sourceMutex
  /\ UNCHANGED <<todo, isRunning, dmdId, colorizer, state, made, posted, games>>

\* The state is allocated with the first frame, and anew for another size.
Outdated(size) == state.nr = 0 \/ state.size # size

Announcement(size) == IF Outdated(size) THEN 1 ELSE 0

\* stateMutex is held by no one for longer than a step.
UpdateState ==
  /\ WorkerGoes("update", "check")
  /\ \E size \in Sizes, got \in SUBSET Planes :
       /\ state' = IF Outdated(size)
                   THEN [nr |-> made + 1, size |-> size, planes |-> got, early |-> got # {}]
                   ELSE [state EXCEPT !.planes = @ \cup got]
       /\ made' = IF Outdated(size) THEN made + 1 ELSE made
       /\ posted' = posted + Announcement(size)
  /\ sourceMutex' = "none"
  /\ UNCHANGED <<todo, isRunning, dmdId, colorizer, colorized, games>>

EndWorker ==
  /\ WorkerGoes("end", "ended")
  /\ isRunning' = FALSE
  /\ UNCHANGED <<todo, sourceMutex, dmdId, frameVars, posted, games>>

ColorizeThread ==
  \/ CheckRunning \/ LockSource \/ NoFrame \/ SameFrame \/ Animate \/ NewFrame
  \/ Colorize \/ UpdateState \/ EndWorker

(***************************************************************************)
(* The main thread's steps.                                                *)
(***************************************************************************)
SlipStillRunning == <<"joinWorker", "dispose", "forgetDisplay">>
SlipNoJoin == <<"clearRunning", "dispose", "forgetDisplay">>
StopColorization == <<"clearRunning", "joinWorker", "dispose", "forgetDisplay">>

ClearRunning ==
  /\ AtStep("clearRunning") /\ Pass
  /\ isRunning' = FALSE
  /\ UNCHANGED <<worker, sourceMutex, dmdId, frameVars, posted, games>>

JoinWorker ==
  /\ AtStep("joinWorker") /\ Pass
  /\ worker \in {"none", "ended"}
  /\ worker' = "none"
  /\ UNCHANGED <<isRunning, sourceMutex, dmdId, frameVars, posted, games>>

\* announce: the steps of OnDisplaysChanged's subscribers.
Dispose(announce) ==
  /\ AtStep("dispose")
  /\ IF colorizer = 0 THEN Pass /\ UNCHANGED <<state, colorizer>>
     ELSE PassInto(announce) /\ state' = NoState /\ colorizer' = 0
  /\ UNCHANGED <<isRunning, worker, sourceMutex, dmdId, colorized, made, posted, games>>

ForgetDisplay ==
  /\ AtStep("forgetDisplay") /\ Pass
  /\ dmdId' = NoDisplay
  /\ UNCHANGED <<isRunning, worker, sourceMutex, frameVars, posted, games>>

\* OnDmdSrcChanged, under sourceMutex: a display whose frames can be identified
\* and that is 128 wide at least.
SlipKeepsDisplay(display, suits) == IF suits THEN display ELSE dmdId
Selected(display, suits) == IF suits THEN display ELSE NoDisplay

SelectDisplay(display, suits) ==
  /\ AtStep("selectDisplay") /\ Pass
  /\ colorizer # 0 => sourceMutex = "none"
  /\ dmdId' = IF colorizer = 0 THEN dmdId ELSE Selected(display, suits)
  /\ UNCHANGED <<isRunning, worker, sourceMutex, frameVars, posted, games>>

\* OnControllerGameStart, ignored while the worker runs.
SlipStartOver == <<"load">>
StartSteps == StopColorization \o <<"load">>

GameStart ==
  /\ AtStep("gameStart")
  /\ IF isRunning THEN Pass ELSE PassInto(StartSteps)
  /\ UNCHANGED colorVars

\* A game may have no colorization, or one that cannot be loaded.
Load ==
  /\ AtStep("load")
  /\ games' = games + 1
  /\ \/ Pass /\ UNCHANGED colorizer
     \/ PassInto(<<"selectDisplay", "launch">>) /\ colorizer' = games + 1
  /\ UNCHANGED <<isRunning, worker, sourceMutex, dmdId, colorized, state, made, posted>>

Launch ==
  /\ AtStep("launch") /\ Pass
  /\ isRunning' = TRUE
  /\ worker' = "check"
  /\ UNCHANGED <<sourceMutex, dmdId, frameVars, posted, games>>

\* What the plugin offers to those who ask for displays: the planes that have a
\* frame.  Those that get their first one later are not announced.
Offered == IF colorizer # 0 /\ state.nr # 0 /\ dmdId # NoDisplay THEN state.planes ELSE {}
=============================================================================

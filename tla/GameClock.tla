------------------------------ MODULE GameClock ------------------------------
(***************************************************************************)
(* The clock of the simulation: UpdatePhysics takes steps of a fixed       *)
(* length until the simulated time is within a step of the real one, lets  *)
(* the whole game slip when it cannot keep up, and shifts it in time when  *)
(* it is paused.  Builds with BGFX: the update is not tied to the frames,  *)
(* and the play state changes between updates.  Times are in microseconds. *)
(***************************************************************************)
EXTENDS PlayState

CONSTANTS
  StepTime,      \* PHYSICS_STEPTIME
  HungAfter,     \* an update that takes longer is given up
  MaxLoops,      \* m_physicsMaxLoops, steps in a frame, 0 when not limited
  Word,          \* number of values of a 64 bit word
  Lossy,         \* times that lose a microsecond in m_time_sec and back
  MaxTime,       \* bound: real time
  MaxPresses     \* bound: uses of the editor's step button

ASSUME Lengths == StepTime \in Nat \ {0} /\ HungAfter \in Nat /\ MaxLoops \in Nat
ASSUME LossyTimes == Lossy \subseteq Nat \ {0}
ASSUME Bounds == Word \in Nat /\ MaxTime \in Nat /\ MaxPresses \in Nat

VARIABLES
  now,                   \* usec()
  startTime,             \* m_startTime_usec
  curPhysicsFrameTime,
  nextPhysicsFrameTime,
  target,                \* initial_time_usec of the running or last update
  updating,              \* UpdatePhysics runs
  timeSec,               \* m_time_sec, in microseconds
  physicsTime,           \* m_time_msec, not rounded
  iterations,            \* m_phys_iterations
  step,                  \* m_step
  presses                \* uses of the step button

gameVars == <<startTime, curPhysicsFrameTime, nextPhysicsFrameTime>>
timeVars == <<timeSec, physicsTime>>
vars == <<playVars, now, gameVars, target, updating, timeVars, iterations, step, presses>>

Init ==
  /\ PlayInit
  /\ now = 0 /\ startTime = 0
  /\ curPhysicsFrameTime = 0 /\ nextPhysicsFrameTime = StepTime
  /\ target = 0 /\ updating = FALSE
  /\ timeSec = 0 /\ physicsTime = 0 /\ iterations = 0
  /\ step = FALSE /\ presses = 0

\* Time passes, also while an update runs.
Elapse ==
  /\ now < MaxTime
  /\ now' = now + 1
  /\ UNCHANGED <<playVars, gameVars, target, updating, timeVars, iterations, step, presses>>

(***************************************************************************)
(* UpdatePhysics.                                                          *)
(***************************************************************************)
Unsigned(n) == IF n < 0 THEN n + Word ELSE n
ElapsedGame == Unsigned(curPhysicsFrameTime - startTime)

\* m_time_sec holds n microseconds as the double nearest to n / 10^6.  Its
\* product with 10^6 may be less than n, and is cut off.
Truncated(n) == IF n \in Lossy THEN n - 1 ELSE n

\* The time spent in a pause is taken out of the game.
TimeShift ==
  LET shiftFrom == startTime + Truncated(timeSec)
  IN  IF (~IsPlaying \/ noTimeCorrect) /\ now > shiftFrom THEN now - shiftFrom ELSE 0

SlipUnshifted == nextPhysicsFrameTime
ShiftedNext == nextPhysicsFrameTime + TimeShift

StartUpdate ==
  /\ ~updating
  /\ updating' = TRUE
  /\ target' = now
  /\ startTime' = startTime + TimeShift
  /\ nextPhysicsFrameTime' = ShiftedNext
  /\ curPhysicsFrameTime' = curPhysicsFrameTime + TimeShift - (IF step THEN StepTime ELSE 0)
  /\ noTimeCorrect' = (noTimeCorrect /\ TimeShift = 0)
  /\ step' = FALSE
  /\ UNCHANGED <<playing, focused, pauses, musicPaused, now, timeVars, iterations, presses>>

CannotKeepUp ==
  \/ now - target > HungAfter
  \/ MaxLoops # 0 /\ iterations' > MaxLoops

SlipImprecise == ElapsedGame
PreciseTime == IF timeSec > ElapsedGame THEN timeSec ELSE ElapsedGame

\* The game slips: the steps that are missing are left out.
SlipNoResync == nextPhysicsFrameTime
AfterSlip == target + StepTime

PhysicsStep ==
  /\ updating /\ nextPhysicsFrameTime < target
  /\ timeSec' = PreciseTime
  /\ physicsTime' = ElapsedGame
  /\ iterations' = iterations + 1
  /\ UNCHANGED <<playVars, now, startTime, target, updating, step, presses>>
  /\ \/ /\ CannotKeepUp
        /\ curPhysicsFrameTime' = target
        /\ nextPhysicsFrameTime' = AfterSlip
     \/ /\ ~CannotKeepUp
        /\ curPhysicsFrameTime' = nextPhysicsFrameTime
        /\ nextPhysicsFrameTime' = nextPhysicsFrameTime + StepTime

EndUpdate ==
  /\ updating /\ nextPhysicsFrameTime >= target
  /\ updating' = FALSE
  /\ timeSec' = target - startTime
  /\ UNCHANGED <<playVars, now, gameVars, target, physicsTime, iterations, step, presses>>

(***************************************************************************)
(* Between updates.                                                        *)
(***************************************************************************)
NewFrame ==
  /\ ~updating /\ iterations # 0
  /\ iterations' = 0
  /\ UNCHANGED <<playVars, now, gameVars, target, updating, timeVars, step, presses>>

Asked ==
  /\ ~updating
  /\ \E isPlaying \in BOOLEAN : SetPlayState(isPlaying)
  /\ UNCHANGED <<now, gameVars, target, updating, timeVars, iterations, step, presses>>

FocusMoves ==
  /\ ~updating
  /\ FocusChanges
  /\ UNCHANGED <<now, gameVars, target, updating, timeVars, iterations, step, presses>>

\* The editor's button, which is there while the game is paused.
PressStep ==
  /\ ~updating /\ ~IsPlaying /\ presses < MaxPresses
  /\ step' = TRUE
  /\ presses' = presses + 1
  /\ UNCHANGED <<playVars, now, gameVars, target, updating, timeVars, iterations>>

Next ==
  \/ Elapse
  \/ StartUpdate \/ PhysicsStep \/ EndUpdate
  \/ NewFrame \/ Asked \/ FocusMoves \/ PressStep

Spec == Init /\ [][Next]_vars

-----------------------------------------------------------------------------
(***************************************************************************)
(* What UpdatePhysics asserts at its end, as far as it is so, whatever it  *)
(* shifted and skipped: the simulated time is within a step of the time it *)
(* was called for.  It is ahead of it only while the game's time is in a   *)
(* run of times that the conversion from seconds loses: pauses take it     *)
(* down such a run, and no further.  As long as the step button is not     *)
(* used, every step has the fixed length that UpdateNudge asserts.         *)
(***************************************************************************)
InStep ==
  /\ curPhysicsFrameTime < nextPhysicsFrameTime
  /\ presses = 0 => nextPhysicsFrameTime - curPhysicsFrameTime = StepTime
  /\ (target - startTime + 1) .. (curPhysicsFrameTime - startTime) \subseteq Lossy
  /\ ~updating => target <= nextPhysicsFrameTime

(***************************************************************************)
(* The second assertion as it stands, m_curPhysicsFrameTime <=             *)
(* initial_time_usec: it fails when a pause loses a microsecond after the  *)
(* game slipped, or several (MCGameClockAssert.cfg).                       *)
(***************************************************************************)
NotAhead == ~updating => curPhysicsFrameTime <= target

(***************************************************************************)
(* The times scripts, timers and plugins see never go back, neither within *)
(* an update nor over pauses, but for the microsecond the conversion may   *)
(* lose, as long as the step button is not used.                           *)
(***************************************************************************)
TimeForward ==
  [][presses = 0 => timeSec' >= Truncated(timeSec) /\ physicsTime' >= physicsTime]_vars

(***************************************************************************)
(* While the game is paused no step is taken and its time stands still,    *)
(* but for the microsecond that each update may lose.                      *)
(***************************************************************************)
PausedStill ==
  [][~IsPlaying => /\ timeSec' \in {timeSec, Truncated(timeSec)}
                   /\ physicsTime' = physicsTime /\ iterations' <= iterations]_vars

(***************************************************************************)
(* The music is paused when, and only when, the player is asked to pause:  *)
(* the pauses that are counted are neither lost nor left over.             *)
(***************************************************************************)
MusicMatches == musicPaused = ~playing /\ (pauses = 0) = playing

(***************************************************************************)
(* player.h says of OnFocusChanged: On focus lost, pause player.           *)
(***************************************************************************)
FocusLostPauses == ~focused => musicPaused
=============================================================================

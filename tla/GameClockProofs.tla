--------------------------- MODULE GameClockProofs ---------------------------
(***************************************************************************)
(* Proofs about GameClock, for every step length, limit and bound, and     *)
(* whichever times the conversion of the game's time loses.                *)
(***************************************************************************)
EXTENDS GameClock, TLAPS

PlayTypes ==
  /\ playing \in BOOLEAN /\ focused \in BOOLEAN
  /\ musicPaused \in BOOLEAN /\ noTimeCorrect \in BOOLEAN
  /\ pauses \in Nat

ClockTypes ==
  /\ now \in Nat /\ target \in Nat /\ updating \in BOOLEAN
  /\ startTime \in Nat /\ curPhysicsFrameTime \in Int /\ nextPhysicsFrameTime \in Int
  /\ timeSec \in Int /\ physicsTime \in Int /\ iterations \in Nat
  /\ step \in BOOLEAN /\ presses \in Nat

\* The music is paused at most once.
OnePause == pauses = IF playing THEN 0 ELSE 1

\* What holds whether the step button was used or not.
Between ==
  /\ curPhysicsFrameTime < nextPhysicsFrameTime
  /\ startTime <= target /\ target <= now
  /\ ~updating => target = startTime + timeSec /\ target <= nextPhysicsFrameTime

\* The clock is ahead of the update by lost microseconds only.
Ahead == (target - startTime + 1) .. (curPhysicsFrameTime - startTime) \subseteq Lossy

\* An update of a paused game has nothing to do.
NothingToDo ==
  updating /\ ~IsPlaying =>
    /\ nextPhysicsFrameTime >= target
    /\ target = startTime + Truncated(timeSec)

\* As long as the step button is not used.
Regular ==
  presses = 0 =>
    /\ ~step
    /\ nextPhysicsFrameTime = curPhysicsFrameTime + StepTime
    /\ startTime <= curPhysicsFrameTime
    /\ physicsTime <= curPhysicsFrameTime - startTime
    /\ startTime + Truncated(timeSec) <= target

ClockInv == ClockTypes /\ Between /\ Ahead /\ NothingToDo /\ Regular
PlayInv == PlayTypes /\ OnePause /\ MusicMatches
Inv == PlayInv /\ ClockInv

-----------------------------------------------------------------------------
(***************************************************************************)
(* The play state, its pauses and the music.                               *)
(***************************************************************************)

\* A request to play or pause keeps the count of pauses and the music in step
\* with what was asked for (SetPlayState).
LEMMA AskedKeepsPlay ==
  ASSUME PlayInv, NEW isPlaying \in BOOLEAN, SetPlayState(isPlaying)
  PROVE  PlayInv'
<1> USE DEF PlayInv, PlayTypes, OnePause, MusicMatches
<1>1. CASE Applies(IsPlaying, isPlaying /\ focused)
  <2>1. focused
    BY <1>1 DEF Applies, IsPlaying
  <2>2. isPlaying = ~playing
    BY <1>1, <2>1 DEF Applies, IsPlaying
  <2>3. ApplyPlayingState(isPlaying /\ focused) /\ playing' = isPlaying /\ focused' = focused
    BY <1>1 DEF SetPlayState
  <2>4. CASE isPlaying
    <3>1. ~playing /\ pauses = 1
      BY <2>2, <2>4
    <3>2. UnpauseMusic /\ noTimeCorrect' = (noTimeCorrect \/ TRUE)
      BY <2>1, <2>3, <2>4 DEF ApplyPlayingState
    <3>3. pauses' = 0
      BY <3>1, <3>2 DEF UnpauseMusic
    <3>4. musicPaused' = FALSE
      BY <3>1, <3>2 DEF UnpauseMusic
    <3>5. playing' = TRUE /\ focused' \in BOOLEAN /\ noTimeCorrect' \in BOOLEAN
      BY <2>1, <2>3, <2>4, <3>2
    <3> QED BY <3>3, <3>4, <3>5
  <2>5. CASE ~isPlaying
    <3>1. playing /\ pauses = 0
      BY <2>2, <2>5
    <3>2. PauseMusic /\ noTimeCorrect' = noTimeCorrect
      BY <2>3, <2>5 DEF ApplyPlayingState
    <3>3. pauses' = 1
      BY <3>1, <3>2 DEF PauseMusic
    <3>4. musicPaused' = TRUE
      BY <3>1, <3>2 DEF PauseMusic
    <3>5. playing' = FALSE /\ focused' \in BOOLEAN /\ noTimeCorrect' \in BOOLEAN
      BY <2>1, <2>3, <2>5, <3>2
    <3>6. musicPaused' = ~playing'
      BY <3>4, <3>5, Zenon
    <3>7. ~(pauses' = 0)
      BY <3>3
    <3>8. (pauses' = 0) = playing'
      BY <3>5, <3>7, Zenon
    <3> QED BY <3>3, <3>4, <3>5, <3>6, <3>8
  <2> QED BY <2>4, <2>5
<1>2. CASE ~Applies(IsPlaying, isPlaying /\ focused)
  BY <1>2 DEF SetPlayState, playVars
<1> QED BY <1>1, <1>2

\* A change of the focus touches neither the music nor the pauses.
LEMMA FocusKeepsPlay ==
  ASSUME PlayInv, FocusChanges
  PROVE  PlayInv' /\ UNCHANGED <<playing, pauses, musicPaused, noTimeCorrect>>
BY DEF PlayInv, PlayTypes, OnePause, MusicMatches, FocusChanges

\* The play state's invariant is inductive.
LEMMA PlayStep ==
  ASSUME PlayInv, ClockTypes, [Next]_vars
  PROVE  PlayInv'
<1>1. CASE Asked
  BY <1>1, AskedKeepsPlay DEF Asked
<1>2. CASE FocusMoves
  BY <1>2, FocusKeepsPlay DEF FocusMoves
<1>3. CASE StartUpdate
  BY <1>3 DEF StartUpdate, PlayInv, PlayTypes, OnePause, MusicMatches
<1>4. CASE Elapse \/ PhysicsStep \/ EndUpdate \/ NewFrame \/ PressStep \/ UNCHANGED vars
  <2>1. UNCHANGED playVars
    BY <1>4 DEF Elapse, PhysicsStep, EndUpdate, NewFrame, PressStep, vars
  <2> QED BY <2>1 DEF playVars, PlayInv, PlayTypes, OnePause, MusicMatches
<1> QED BY <1>1, <1>2, <1>3, <1>4 DEF Next

-----------------------------------------------------------------------------
(***************************************************************************)
(* The clock.                                                              *)
(***************************************************************************)

\* What the conversion from seconds makes of a time.
LEMMA TruncatedProps ==
  ASSUME NEW n \in Int
  PROVE  /\ Truncated(n) \in Int /\ n - 1 <= Truncated(n) /\ Truncated(n) <= n
         /\ Truncated(n) # n => n \in Lossy
         /\ n \in Nat => Truncated(n) \in Nat
BY LossyTimes DEF Truncated

\* The shift takes the game to the time of the update, or leaves it there.
LEMMA ShiftToNow ==
  ASSUME ClockInv, ~updating
  PROVE  /\ TimeShift \in Nat
         /\ TimeShift = 0 \/ startTime + Truncated(timeSec) + TimeShift = now
         /\ ~IsPlaying => startTime + Truncated(timeSec) + TimeShift = now
<1>1. /\ startTime + timeSec = target /\ target <= now /\ startTime <= target
      /\ startTime \in Nat /\ target \in Nat /\ now \in Nat /\ timeSec \in Int
  BY DEF ClockInv, ClockTypes, Between
<1>2. /\ Truncated(timeSec) \in {timeSec, timeSec - 1} /\ Truncated(timeSec) >= 0
      /\ Truncated(timeSec) \in Int
  BY <1>1, LossyTimes DEF Truncated
<1>3. startTime + Truncated(timeSec) <= now /\ startTime + Truncated(timeSec) \in Nat
  BY <1>1, <1>2
<1> QED BY <1>1, <1>2, <1>3 DEF TimeShift

\* The time since the start does not wrap while the step button is not used.
LEMMA NoWrap ==
  ASSUME ClockInv, presses = 0
  PROVE  ElapsedGame = curPhysicsFrameTime - startTime
BY DEF ClockInv, ClockTypes, Regular, ElapsedGame, Unsigned

\* The time since the start is a number, wrapped or not.
LEMMA ElapsedType ==
  ASSUME ClockInv
  PROVE  ElapsedGame \in Int
BY Bounds DEF ClockInv, ClockTypes, ElapsedGame, Unsigned

\* The beginning of an update: shift and step button.
LEMMA StartKeepsClock ==
  ASSUME ClockInv, StartUpdate
  PROVE  ClockInv'
<1> DEFINE shiftFrom == startTime + Truncated(timeSec)
<1>1. /\ ~updating /\ updating' = TRUE /\ target' = now
      /\ TimeShift \in Nat
      /\ TimeShift = 0 \/ shiftFrom + TimeShift = now
      /\ ~IsPlaying => shiftFrom + TimeShift = now
  BY ShiftToNow DEF StartUpdate
<1>2. IsPlaying' = IsPlaying
  BY DEF StartUpdate, IsPlaying
<1>3. /\ startTime' = startTime + TimeShift
      /\ nextPhysicsFrameTime' = nextPhysicsFrameTime + TimeShift
      /\ curPhysicsFrameTime' = curPhysicsFrameTime + TimeShift - (IF step THEN StepTime ELSE 0)
      /\ step' = FALSE
      /\ UNCHANGED <<now, timeSec, physicsTime, iterations, presses>>
  BY DEF StartUpdate, ShiftedNext, timeVars
<1>4. /\ startTime \in Nat /\ target \in Nat /\ now \in Nat /\ timeSec \in Int
      /\ curPhysicsFrameTime \in Int /\ nextPhysicsFrameTime \in Int
      /\ target = startTime + timeSec /\ target <= now /\ startTime <= target
      /\ target <= nextPhysicsFrameTime
  BY <1>1 DEF ClockInv, ClockTypes, Between
<1>5. /\ Truncated(timeSec) \in Nat /\ timeSec - 1 <= Truncated(timeSec) /\ Truncated(timeSec) <= timeSec
      /\ Truncated(timeSec) # timeSec => timeSec \in Lossy
  BY <1>4, TruncatedProps
<1> HIDE DEF shiftFrom
<1>6. shiftFrom = startTime + Truncated(timeSec) /\ shiftFrom \in Nat
  BY <1>4, <1>5 DEF shiftFrom
<1>7. ClockTypes'
  <2>1. startTime' \in Nat /\ nextPhysicsFrameTime' \in Int /\ curPhysicsFrameTime' \in Int
    BY <1>1, <1>3, <1>4, Lengths
  <2>2. updating' \in BOOLEAN /\ step' \in BOOLEAN
    BY <1>1, <1>3
  <2> QED BY <2>1, <2>2, <1>1, <1>3 DEF ClockInv, ClockTypes
<1>8. Between'
  BY <1>1, <1>3, <1>4, <1>5, <1>6, Lengths DEF ClockInv, Between
<1>9. Ahead'
  <2> SUFFICES ASSUME NEW n \in (target - startTime + 1 - timeSec + Truncated(timeSec))
                                .. (curPhysicsFrameTime - startTime)
               PROVE  n \in Lossy
    <3>1. curPhysicsFrameTime' - startTime' <= curPhysicsFrameTime - startTime
      BY <1>1, <1>3, <1>4, Lengths
    <3>2. target' - startTime' >= Truncated(timeSec)
      BY <1>1, <1>3, <1>4, <1>5, <1>6
    <3>3. /\ curPhysicsFrameTime' - startTime' \in Int /\ target' - startTime' \in Int
          /\ target - startTime = timeSec
      BY <1>1, <1>3, <1>4, Lengths
    <3> QED BY <3>1, <3>2, <3>3, <1>4, <1>5 DEF Ahead
  <2>1. n \in Int /\ Truncated(timeSec) < n /\ n <= curPhysicsFrameTime - startTime
    BY <1>4, <1>5
  <2>2. CASE n = timeSec
    BY <2>1, <2>2, <1>5
  <2>3. CASE n # timeSec
    <3>1. n \in (target - startTime + 1) .. (curPhysicsFrameTime - startTime)
      BY <2>1, <2>3, <1>4, <1>5
    <3> QED BY <3>1 DEF ClockInv, Ahead
  <2> QED BY <2>2, <2>3
<1>10. NothingToDo'
  BY <1>1, <1>2, <1>3, <1>4, <1>5, <1>6, Lengths DEF NothingToDo
<1>11. Regular'
  BY <1>1, <1>3, <1>4, <1>5, <1>6, Lengths DEF ClockInv, ClockTypes, Regular
<1> QED BY <1>7, <1>8, <1>9, <1>10, <1>11 DEF ClockInv

\* A step of the physics, taken or left out.
LEMMA StepKeepsClock ==
  ASSUME ClockInv, PhysicsStep
  PROVE  ClockInv'
<1>1. ElapsedGame \in Int /\ (presses = 0 => ElapsedGame = curPhysicsFrameTime - startTime)
  BY ElapsedType, NoWrap
<1>2. IsPlaying
  BY DEF PhysicsStep, ClockInv, ClockTypes, NothingToDo
<1>3. IsPlaying' = IsPlaying
  BY DEF PhysicsStep, playVars, IsPlaying
<1>4. \/ curPhysicsFrameTime' = target /\ nextPhysicsFrameTime' = target + StepTime
      \/ /\ curPhysicsFrameTime' = nextPhysicsFrameTime
         /\ nextPhysicsFrameTime' = nextPhysicsFrameTime + StepTime
  BY DEF PhysicsStep, AfterSlip
<1>5. ClockTypes'
  BY <1>1, <1>4, Lengths DEF ClockInv, ClockTypes, PhysicsStep, PreciseTime
<1>6. /\ updating /\ nextPhysicsFrameTime < target
      /\ timeSec' = (IF timeSec > ElapsedGame THEN timeSec ELSE ElapsedGame)
      /\ physicsTime' = ElapsedGame
      /\ UNCHANGED <<now, startTime, target, updating, step, presses>>
  BY DEF PhysicsStep, PreciseTime
<1>7. /\ startTime \in Nat /\ target \in Nat /\ timeSec \in Int
      /\ curPhysicsFrameTime \in Int /\ nextPhysicsFrameTime \in Int
      /\ curPhysicsFrameTime < nextPhysicsFrameTime
  BY DEF ClockInv, ClockTypes, Between
<1>8. Between'
  BY <1>4, <1>6, <1>7, Lengths DEF ClockInv, Between
<1>9. Ahead'
  <2>1. curPhysicsFrameTime' <= target'
    BY <1>4, <1>6, <1>7
  <2>2. (target' - startTime' + 1) .. (curPhysicsFrameTime' - startTime') = {}
    BY <2>1, <1>4, <1>6, <1>7
  <2> QED BY <2>2 DEF Ahead
<1>10. NothingToDo'
  BY <1>2, <1>3 DEF NothingToDo
<1>11. Regular'
  <2> SUFFICES ASSUME presses = 0 PROVE Regular'
    BY <1>6 DEF Regular
  <2>1. /\ ~step /\ nextPhysicsFrameTime = curPhysicsFrameTime + StepTime
        /\ startTime <= curPhysicsFrameTime
        /\ startTime + Truncated(timeSec) <= target
    BY DEF ClockInv, Regular
  <2>2. startTime + Truncated(timeSec') <= target
    <3>1. CASE timeSec > ElapsedGame
      BY <3>1, <2>1, <1>6
    <3>2. CASE ~(timeSec > ElapsedGame)
      <4>1. timeSec' = curPhysicsFrameTime - startTime
        BY <3>2, <1>1, <1>6
      <4>2. timeSec' \in Int
        BY <4>1, <1>7
      <4>3. Truncated(timeSec') \in Int /\ Truncated(timeSec') <= timeSec'
        BY <4>2, TruncatedProps
      <4> QED BY <4>1, <4>2, <4>3, <1>6, <1>7
    <3> QED BY <3>1, <3>2
  <2>3. physicsTime' <= curPhysicsFrameTime' - startTime'
    BY <1>1, <1>4, <1>6, <1>7
  <2>4. nextPhysicsFrameTime' = curPhysicsFrameTime' + StepTime /\ startTime' <= curPhysicsFrameTime'
    BY <2>1, <1>4, <1>6, <1>7, Lengths DEF ClockInv, Between
  <2> QED BY <2>1, <2>2, <2>3, <2>4, <1>6 DEF Regular
<1> QED BY <1>5, <1>8, <1>9, <1>10, <1>11 DEF ClockInv

\* The end of an update.
LEMMA EndKeepsClock ==
  ASSUME ClockInv, EndUpdate
  PROVE  ClockInv'
<1>1. /\ updating /\ updating' = FALSE /\ nextPhysicsFrameTime >= target
      /\ timeSec' = target - startTime
      /\ UNCHANGED <<now, startTime, curPhysicsFrameTime, nextPhysicsFrameTime, target,
                     physicsTime, iterations, step, presses>>
  BY DEF EndUpdate, gameVars
<1>2. ClockTypes'
  <2>1. timeSec' \in Int
    BY <1>1 DEF ClockInv, ClockTypes
  <2>2. updating' \in BOOLEAN
    BY <1>1
  <2> QED BY <1>1, <2>1, <2>2 DEF ClockInv, ClockTypes
<1>3. Between'
  BY <1>1 DEF ClockInv, ClockTypes, Between
<1>4. NothingToDo'
  BY <1>1 DEF NothingToDo
<1>5. Ahead'
  BY <1>1 DEF ClockInv, Ahead
<1>6. Regular'
  <2>1. timeSec' \in Int /\ startTime \in Nat /\ target \in Nat /\ target = startTime + timeSec'
    BY <1>1 DEF ClockInv, ClockTypes
  <2>2. startTime + Truncated(timeSec') <= target
    BY <2>1, TruncatedProps
  <2> QED BY <1>1, <2>2 DEF ClockInv, Regular
<1> QED BY <1>2, <1>3, <1>4, <1>5, <1>6 DEF ClockInv

\* What happens between two updates, and the passing of time.
LEMMA OthersKeepClock ==
  ASSUME ClockInv, Elapse \/ NewFrame \/ Asked \/ FocusMoves \/ PressStep \/ UNCHANGED vars
  PROVE  ClockInv'
<1> USE DEF ClockInv, ClockTypes, Between, Ahead, NothingToDo, Regular, Truncated, gameVars, timeVars
<1>1. CASE Elapse
  <2>1. IsPlaying' = IsPlaying
    BY <1>1 DEF Elapse, playVars, IsPlaying
  <2> QED BY <1>1, <2>1 DEF Elapse
<1>2. CASE NewFrame
  BY <1>2 DEF NewFrame
<1>3. CASE Asked
  BY <1>3 DEF Asked
<1>4. CASE FocusMoves
  BY <1>4 DEF FocusMoves
<1>5. CASE PressStep
  BY <1>5 DEF PressStep
<1>6. CASE UNCHANGED vars
  <2>1. IsPlaying' = IsPlaying
    BY <1>6 DEF vars, playVars, IsPlaying
  <2> QED BY <1>6, <2>1 DEF vars
<1> QED BY <1>1, <1>2, <1>3, <1>4, <1>5, <1>6

\* The invariant holds from the start and is kept by every step.
THEOREM Invariance == Spec => []Inv
<1>1. Init => Inv
  <2> SUFFICES ASSUME Init PROVE Inv
    OBVIOUS
  <2>1. PlayTypes /\ OnePause
    BY DEF Init, PlayInit, PlayTypes, OnePause
  <2>2. (pauses = 0) = playing
    BY DEF Init, PlayInit
  <2>3. musicPaused = ~playing
    BY Zenon DEF Init, PlayInit
  <2>4. ClockInv
    <3>1. NothingToDo
      BY DEF Init, NothingToDo
    <3>2. ClockTypes
      <4>1. updating \in BOOLEAN /\ step \in BOOLEAN
        BY DEF Init
      <4>2. /\ now \in Nat /\ target \in Nat /\ startTime \in Nat /\ curPhysicsFrameTime \in Int
            /\ nextPhysicsFrameTime \in Int /\ timeSec \in Int /\ physicsTime \in Int
            /\ iterations \in Nat /\ presses \in Nat
        BY Lengths DEF Init
      <4> QED BY <4>1, <4>2 DEF ClockTypes
    <3>3. Between /\ Ahead
      BY Lengths DEF Init, Between, Ahead
    <3>4. Regular
      BY Lengths, LossyTimes DEF Init, Regular, Truncated
    <3> QED BY <3>1, <3>2, <3>3, <3>4 DEF ClockInv
  <2> QED BY <2>1, <2>2, <2>3, <2>4 DEF Inv, PlayInv, MusicMatches
<1>2. Inv /\ [Next]_vars => Inv'
  <2> SUFFICES ASSUME Inv, [Next]_vars PROVE Inv'
    OBVIOUS
  <2>1. PlayInv /\ ClockInv /\ ClockTypes
    BY DEF Inv, ClockInv
  <2>2. PlayInv'
    BY <2>1, PlayStep
  <2>3. ClockInv'
    BY <2>1, StartKeepsClock, StepKeepsClock, EndKeepsClock, OthersKeepClock DEF Next
  <2> QED BY <2>2, <2>3 DEF Inv
<1> QED BY <1>1, <1>2, PTL DEF Spec

-----------------------------------------------------------------------------
(***************************************************************************)
(* Whatever was shifted, slipped or asked for, the simulated time is       *)
(* within a step of the time of the update, and ahead of it only in a run  *)
(* of times that the conversion loses (the assertions at the end of        *)
(* UpdatePhysics, as far as they hold).                                    *)
(***************************************************************************)
THEOREM ClockInStep == Spec => []InStep
<1>1. Inv => InStep
  BY Lengths DEF Inv, ClockInv, ClockTypes, Between, Ahead, Regular, InStep
<1> QED BY <1>1, Invariance, PTL

(***************************************************************************)
(* The music is paused exactly when the player was asked to pause.         *)
(***************************************************************************)
THEOREM MusicFollows == Spec => []MusicMatches
<1>1. Inv => MusicMatches
  BY DEF Inv, PlayInv
<1> QED BY <1>1, Invariance, PTL

(***************************************************************************)
(* The times scripts and timers see never go back by more than the         *)
(* microsecond the conversion loses.                                       *)
(***************************************************************************)
THEOREM TimeNeverBack == Spec => TimeForward
<1>1. Inv /\ [Next]_vars =>
        (presses = 0 => timeSec' >= Truncated(timeSec) /\ physicsTime' >= physicsTime)
  <2> SUFFICES ASSUME Inv, [Next]_vars, presses = 0
               PROVE  timeSec' >= Truncated(timeSec) /\ physicsTime' >= physicsTime
    OBVIOUS
  <2>1. timeSec \in Int /\ Truncated(timeSec) \in Int /\ Truncated(timeSec) <= timeSec
    BY TruncatedProps DEF Inv, ClockInv, ClockTypes
  <2>2. CASE PhysicsStep
    <3>1. ElapsedGame = curPhysicsFrameTime - startTime
      BY NoWrap DEF Inv
    <3>2. ElapsedGame \in Int /\ physicsTime <= ElapsedGame
      BY <3>1 DEF Inv, ClockInv, ClockTypes, Regular
    <3>3. timeSec' = PreciseTime /\ physicsTime' = ElapsedGame
      BY <2>2 DEF PhysicsStep
    <3> QED BY <2>1, <3>2, <3>3 DEF PreciseTime, Inv, ClockInv, ClockTypes
  <2>3. CASE EndUpdate
    BY <2>1, <2>3 DEF EndUpdate, Inv, ClockInv, ClockTypes, Regular
  <2>4. CASE ~(PhysicsStep \/ EndUpdate)
    <3>1. UNCHANGED timeVars
      BY <2>4 DEF Next, Elapse, StartUpdate, NewFrame, Asked, FocusMoves, PressStep, vars
    <3> QED BY <2>1, <3>1 DEF timeVars, Inv, ClockInv, ClockTypes
  <2> QED BY <2>2, <2>3, <2>4
<1> QED BY <1>1, Invariance, PTL DEF Spec, TimeForward

(***************************************************************************)
(* The time of a paused game stands still, but for the microsecond that an *)
(* update may lose.                                                        *)
(***************************************************************************)
THEOREM TimeStandsStill == Spec => PausedStill
<1>1. Inv /\ [Next]_vars =>
        (~IsPlaying => /\ timeSec' \in {timeSec, Truncated(timeSec)}
                       /\ physicsTime' = physicsTime /\ iterations' <= iterations)
  <2> SUFFICES ASSUME Inv, [Next]_vars, ~IsPlaying
               PROVE  /\ timeSec' \in {timeSec, Truncated(timeSec)}
                      /\ physicsTime' = physicsTime /\ iterations' <= iterations
    OBVIOUS
  <2> USE DEF Inv, ClockInv, ClockTypes
  <2>1. CASE PhysicsStep
    BY <2>1 DEF PhysicsStep, NothingToDo
  <2>2. CASE EndUpdate
    <3>1. target = startTime + Truncated(timeSec) /\ Truncated(timeSec) \in Int
      BY <2>2, TruncatedProps DEF EndUpdate, NothingToDo
    <3>2. timeSec' = target - startTime /\ physicsTime' = physicsTime /\ iterations' = iterations
      BY <2>2 DEF EndUpdate
    <3> QED BY <3>1, <3>2
  <2>3. CASE NewFrame
    BY <2>3 DEF NewFrame, timeVars
  <2>4. CASE ~(PhysicsStep \/ EndUpdate \/ NewFrame)
    BY <2>4 DEF Next, Elapse, StartUpdate, Asked, FocusMoves, PressStep, vars, timeVars
  <2> QED BY <2>1, <2>2, <2>3, <2>4
<1> QED BY <1>1, Invariance, PTL DEF Spec, PausedStill
=============================================================================

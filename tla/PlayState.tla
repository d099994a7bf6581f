------------------------------ MODULE PlayState ------------------------------
(***************************************************************************)
(* Whether the game is played: what the player asked for, the focus of the *)
(* playfield window, and the music, which is paused with a count.  The     *)
(* game is one that is played, neither edited nor captured.                *)
(***************************************************************************)
EXTENDS Integers

VARIABLES
  playing,       \* m_playing
  focused,       \* the playfield window has the keyboard focus
  pauses,        \* m_pauseMusicRefCount
  musicPaused,   \* the audio player was told to pause the music last
  noTimeCorrect  \* m_noTimeCorrect

playVars == <<playing, focused, pauses, musicPaused, noTimeCorrect>>

PlayInit ==
  /\ playing = TRUE /\ focused = TRUE
  /\ pauses = 0 /\ musicPaused = FALSE /\ noTimeCorrect = FALSE

IsPlaying == playing /\ focused

PauseMusic ==
  /\ pauses' = pauses + 1
  /\ musicPaused' = (musicPaused \/ pauses = 0)

UnpauseMusic ==
  /\ pauses' = IF pauses = 0 THEN 0 ELSE pauses - 1
  /\ musicPaused' = (musicPaused /\ pauses # 1)

ApplyPlayingState(play) ==
  /\ IF play THEN UnpauseMusic ELSE PauseMusic
  /\ noTimeCorrect' = (noTimeCorrect \/ play)

SlipApplies(was, will) == was # will \/ ~will
Applies(was, will) == was # will

SetPlayState(isPlaying) ==
  /\ UNCHANGED focused
  /\ LET willPlay == isPlaying /\ focused
     IN  IF Applies(IsPlaying, willPlay)
         THEN ApplyPlayingState(willPlay) /\ playing' = isPlaying
         ELSE UNCHANGED playVars

\* OnFocusChanged.  By the time the message is read the window has gained or
\* lost the focus already, and both sides look at the window.
FocusChanges ==
  /\ focused' = ~focused
  /\ UNCHANGED playing
  /\ LET wasPlaying == playing /\ focused'
         willPlay == playing /\ focused'
     IN  IF wasPlaying # willPlay
         THEN ApplyPlayingState(willPlay)
         ELSE UNCHANGED <<pauses, musicPaused, noTimeCorrect>>
=============================================================================

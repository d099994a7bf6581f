-------------------------------- MODULE Timers --------------------------------
(* The script timers of a playing table: the player's list m_vht of enabled   *)
(* timers, the passes over it (Player::FireTimers), and the changes the       *)
(* handlers ask for meanwhile, which wait in m_changed_vht until the end of   *)
(* the pass (player.cpp:1198-1262, hittimer.cpp, ieditable.cpp:135-208).      *)
(* All of it is done by the logic thread, but for the parts that the live     *)
(* editor deletes: the render thread takes their timers off the list and      *)
(* frees them, without a lock.  An operation on a vector is one step here.    *)
(*                                                                            *)
(* A pass of mode 0 ("timer") runs in every physics step, of one millisecond  *)
(* each (PhysicsEngine.cpp:596 and 669), one of mode -1 ("frame") when a      *)
(* frame is prepared, one of mode -2 ("sync") when the game logic was         *)
(* updated.  The clock and the fire times are unsigned and wrap at Modulus.   *)
(* Script code runs in the timers' handlers and, between the passes, in those *)
(* of all other events.                                                       *)
EXTENDS Integers, Sequences, SequencesExt, Subsequences

CONSTANTS Parts,       \* the table's parts when the game starts
          Balls,       \* the balls that scripts may create
          Intervals,   \* the values scripts give TimerInterval
          MaxTime,     \* bound of the clock
          MaxChanges,  \* bound of the changes in a pass
          Modulus,     \* 2^32 in the code
          MaySkip,     \* may a physics step leave out its pass?
          LiveEdit,    \* does the live editor change parts while they play?
          LiveDelete   \* does it delete parts?

Timers == Parts \cup Balls

ASSUME IntervalsInt == Intervals \subseteq Int
ASSUME PartsFinite == IsFiniteSet(Parts)
ASSUME BallsNew == Parts \cap Balls = {}
ASSUME BoundsNat == MaxTime \in Nat /\ MaxChanges \in Nat /\ Modulus \in Nat \ {0}
ASSUME WideEnough == \A i \in Intervals : MaxTime + i + 2 < Modulus
ASSUME FlagsBool == {MaySkip, LiveEdit, LiveDelete} \subseteq BOOLEAN

VARIABLES now,       \* m_time_msec
          enabled,   \* each part's m_timerEnabled
          interval,  \* each timer's m_interval
          nextfire,  \* each timer's m_nextfire
          alive,     \* the timers that are allocated
          dying,     \* the balls of m_vballDelete
          vht,       \* m_vht
          changed,   \* m_changed_vht
          pass,      \* the pass under way, else "idle"
          stage,     \* of the pass: "walk", "apply", "clear"; "walk" when idle
          at,        \* the place of the pass in m_vht
          beyond,    \* the element behind m_vht's end that the pass will come to
          firing,    \* the timer whose handler is running, if any
          cur,       \* the curnextfire of its Update
          deletion,  \* the render thread's next step with each timer it deletes
          edited     \* history: the timers that the live editor switched, or whose
                     \* deletion met the end of a pass or another change of them

clock == <<nextfire, interval>>
life == <<alive, dying>>
walk == <<pass, stage, at, beyond, firing, cur>>
vars == <<now, enabled, clock, life, vht, changed, walk, deletion, edited>>

Change == [timer : Timers, enabled : BOOLEAN]

-----------------------------------------------------------------------------
(* One timer.                                                                 *)

Effective(i) == IF i >= 0 THEN (IF i = 0 THEN 1 ELSE i)
                          ELSE (IF i < -2 THEN -2 ELSE i)

\* SetInterval: the next time counts from now on.
NextTime(i) == (now + i) % Modulus

\* Defer: now + 0xFFFFFFFF.
DeferredTime == (now + Modulus - 1) % Modulus

SlipCatchUp(nf, i) == nf + i

\* What repeated addition of the interval makes of a time that is due.
CatchUp(nf, i) == IF nf <= now THEN nf + i * ((now - nf) \div i + 1) ELSE nf

Due(t) == CASE pass = "timer" -> interval[t] >= 0 /\ nextfire[t] <= now
            [] pass = "frame" -> interval[t] = -1
            [] pass = "sync"  -> interval[t] = -2

-----------------------------------------------------------------------------
(* The list.                                                                  *)

Listed(s, t) == \E i \in DOMAIN s : s[i] = t

Added(s, t) == IF Listed(s, t) THEN s ELSE Append(s, t)

Erased(s, t) == Kept(s, {i \in DOMAIN s : s[i] # t})

Apply(s, c) == IF c.enabled THEN Added(s, c.timer) ELSE Erased(s, c.timer)

SlipApplied(s, cs) == FoldRight(LAMBDA c, r : Apply(r, c), cs, s)

\* The changes of a pass, in the order they were asked for.
Applied(s, cs) ==
  LET applied[n \in 0 .. Len(cs)] ==
        IF n = 0 THEN s ELSE Apply(applied[n - 1], cs[n])
  IN  applied[Len(cs)]

\* m_deferTimerChanges.
Deferring == pass # "idle" /\ stage = "walk"

\* TimerStateChange.  Its assertions ask that the list does not show the
\* change already: without them a timer is listed twice, or none is erased.
TimerStateChange(t, b) ==
  /\ nextfire' = [nextfire EXCEPT ![t] = IF b THEN NextTime(interval[t])
                                          ELSE IF Deferring THEN DeferredTime
                                          ELSE @]
  /\ IF Deferring
     THEN /\ Len(changed) < MaxChanges
          /\ changed' = Append(changed, [timer |-> t, enabled |-> b])
          /\ UNCHANGED vht
     ELSE /\ Listed(vht, t) = ~ b
          /\ vht' = IF b THEN Append(vht, t) ELSE Erased(vht, t)
          /\ UNCHANGED changed

-----------------------------------------------------------------------------
(* The first physics step's pass: what the scripts did when the table was     *)
(* initialised shows in the intervals and in which timers are enabled.        *)

Init ==
  /\ now = 0
  /\ alive = Parts
  /\ dying = {}
  /\ enabled \in {e \in [Timers -> BOOLEAN] : \A b \in Balls : ~ e[b]}
  /\ interval \in [Timers -> {Effective(i) : i \in Intervals}]
  /\ nextfire = [t \in Timers |-> interval[t] % Modulus]
  /\ vht \in SetToSeqs({t \in Parts : enabled[t]})
  /\ changed = <<>>
  /\ pass = "timer" /\ stage = "walk"
  /\ at = 1 /\ beyond = <<>>
  /\ firing = {}
  /\ cur = 0
  /\ deletion = [t \in Timers |-> "none"]
  /\ edited = {}

Begin(mode) ==
  /\ pass' = mode /\ at' = 1 /\ beyond' = <<>>
  /\ UNCHANGED <<stage, firing, cur>>

PhysicsStep ==
  /\ pass = "idle"
  /\ now < MaxTime
  /\ now' = now + 1
  /\ \/ Begin("timer")
     \/ MaySkip /\ UNCHANGED walk
  /\ UNCHANGED <<enabled, clock, life, vht, changed, deletion, edited>>

\* FireTimers(-1) and FireTimers(-2).
FireTimers(mode) ==
  /\ pass = "idle"
  /\ Begin(mode)
  /\ UNCHANGED <<now, enabled, clock, life, vht, changed, deletion, edited>>

\* What the pass goes over: it does not look at m_vht's end again.
Walked == vht \o beyond

\* The pass comes to its next timer: it calls the handler of one that is due,
\* else goes on.
Visit ==
  /\ Deferring
  /\ firing = {}
  /\ at <= Len(Walked)
  /\ IF Due(Walked[at])
     THEN /\ firing' = {Walked[at]}
          /\ cur' = nextfire[Walked[at]]
          /\ UNCHANGED at
     ELSE /\ at' = at + 1
          /\ UNCHANGED <<firing, cur>>
  /\ UNCHANGED <<now, enabled, clock, life, vht, changed, pass, stage, beyond, deletion, edited>>

\* The handler returns: Update moves the time on unless the handler did.
HandlerReturn(t) ==
  /\ t \in firing
  /\ firing' = {}
  /\ cur' = 0
  /\ at' = at + 1
  /\ nextfire' = IF pass = "timer" /\ cur = nextfire[t] /\ interval[t] > 0
                 THEN [nextfire EXCEPT ![t] = CatchUp(@, interval[t])]
                 ELSE nextfire
  /\ UNCHANGED <<now, enabled, interval, life, vht, changed, pass, stage, beyond, deletion, edited>>

\* The pass is over the list.
EndDeferring ==
  /\ Deferring
  /\ firing = {}
  /\ at > Len(Walked)
  /\ stage' = "apply"
  /\ UNCHANGED <<now, enabled, clock, life, vht, changed, pass, at, beyond, firing, cur, deletion, edited>>

\* A removal that the render thread is about to add is not made.
ApplyChanges ==
  /\ stage = "apply"
  /\ vht' = Applied(vht, changed)
  /\ stage' = "clear"
  /\ edited' = edited \cup {t \in Timers : deletion[t] = "note"}
  /\ UNCHANGED <<now, enabled, clock, life, changed, pass, at, beyond, firing, cur, deletion>>

\* What was added since is lost.
EndPass ==
  /\ stage = "clear"
  /\ changed' = <<>>
  /\ pass' = "idle" /\ stage' = "walk"
  /\ UNCHANGED <<now, enabled, clock, life, vht, at, beyond, firing, cur, deletion, edited>>

-----------------------------------------------------------------------------
(* What script code does.                                                     *)

ScriptRuns == pass = "idle" \/ firing # {}

\* A timer is switched while the render thread deletes it.
Meets(t) == IF deletion[t] # "none" THEN {t} ELSE {}

PutTimerEnabled(t, b) ==
  /\ ScriptRuns
  /\ t \in alive
  /\ enabled[t] # b
  /\ TimerStateChange(t, b)
  /\ enabled' = [enabled EXCEPT ![t] = b]
  /\ edited' = edited \cup Meets(t)
  /\ UNCHANGED <<now, interval, life, walk, deletion>>

PutTimerInterval(t, i) ==
  /\ ScriptRuns
  /\ t \in alive
  /\ interval' = [interval EXCEPT ![t] = Effective(i)]
  /\ nextfire' = [nextfire EXCEPT ![t] = NextTime(Effective(i))]
  /\ UNCHANGED <<now, enabled, life, vht, changed, walk, deletion, edited>>

\* A new ball's timer is disabled, with the default interval.
CreateBall(b, i) ==
  /\ ScriptRuns
  /\ b \notin alive
  /\ alive' = alive \cup {b}
  /\ enabled' = [enabled EXCEPT ![b] = FALSE]
  /\ interval' = [interval EXCEPT ![b] = Effective(i)]
  /\ nextfire' = [nextfire EXCEPT ![b] = NextTime(Effective(i))]
  /\ UNCHANGED <<now, dying, vht, changed, walk, deletion, edited>>

DestroyBall(b) ==
  /\ ScriptRuns
  /\ b \in alive \ dying
  /\ dying' = dying \cup {b}
  /\ UNCHANGED <<now, enabled, clock, alive, vht, changed, walk, deletion, edited>>

Released(t) == t \in dying /\ enabled[t]

\* FinishFrame: TimerRelease takes the timers of the destroyed balls off the
\* list, if they are enabled, and frees them all.
FinishFrame ==
  /\ pass = "idle"
  /\ dying # {}
  /\ vht' = Kept(vht, {i \in DOMAIN vht : ~ Released(vht[i])})
  /\ alive' = alive \ dying
  /\ dying' = {}
  /\ UNCHANGED <<now, enabled, clock, changed, walk, deletion, edited>>

-----------------------------------------------------------------------------
(* The live editor, which runs with the user interface between the passes.    *)

\* The property pane writes the part's member and calls nothing.
EditEnabled(t) ==
  /\ LiveEdit
  /\ pass = "idle"
  /\ t \in alive
  /\ enabled' = [enabled EXCEPT ![t] = ~ @]
  /\ edited' = edited \cup {t}
  /\ UNCHANGED <<now, clock, life, vht, changed, walk, deletion>>

-----------------------------------------------------------------------------
(* DeleteSelection leaves the release of the part to a command that the       *)
(* render thread runs at the end of a frame, wherever the logic thread is:    *)
(* TimerStateChange in its steps, then the timer is freed.                    *)

Goes(t, from, to) == deletion[t] = from /\ deletion' = [deletion EXCEPT ![t] = to]

\* The flag of the part is read.
DeleteBegins(t) ==
  /\ LiveDelete
  /\ t \in alive \cap Parts
  /\ \A u \in Timers : deletion[u] = "none"
  /\ Goes(t, "none", IF enabled[t] THEN "look" ELSE "free")
  /\ UNCHANGED <<now, enabled, clock, life, vht, changed, walk, edited>>

\* m_deferTimerChanges is read.
DeleteLooks(t) ==
  /\ Goes(t, "look", IF Deferring THEN "note" ELSE "erase")
  /\ nextfire' = IF Deferring THEN [nextfire EXCEPT ![t] = DeferredTime] ELSE nextfire
  /\ UNCHANGED <<now, enabled, interval, life, vht, changed, walk, edited>>

DeleteNotes(t) ==
  /\ Goes(t, "note", "free")
  /\ Len(changed) < MaxChanges
  /\ changed' = Append(changed, [timer |-> t, enabled |-> FALSE])
  /\ UNCHANGED <<now, enabled, clock, life, vht, walk, edited>>

\* Does a change of t wait?
Waits(t) == stage # "clear" /\ \E i \in DOMAIN changed : changed[i].timer = t

\* A pass that began meanwhile finds its list shifted by one, and behind the
\* end what was the last element.
DeleteErases(t) ==
  /\ Goes(t, "erase", "free")
  /\ Listed(vht, t)
  /\ vht' = Erased(vht, t)
  /\ beyond' = IF Deferring THEN <<Last(vht)>> ELSE beyond
  /\ edited' = IF Waits(t) THEN edited \cup {t} ELSE edited
  /\ UNCHANGED <<now, enabled, clock, life, changed, pass, stage, at, firing, cur>>

DeleteFrees(t) ==
  /\ Goes(t, "free", "none")
  /\ alive' = alive \ {t}
  /\ UNCHANGED <<now, enabled, clock, dying, vht, changed, walk, edited>>

EndOfFrameDelete(t) ==
  \/ DeleteBegins(t) \/ DeleteLooks(t) \/ DeleteNotes(t) \/ DeleteErases(t)
  \/ DeleteFrees(t)

Next ==
  \/ PhysicsStep
  \/ \E mode \in {"frame", "sync"} : FireTimers(mode)
  \/ Visit \/ EndDeferring \/ ApplyChanges \/ EndPass
  \/ FinishFrame
  \/ \E t \in Timers : \/ \E b \in BOOLEAN : PutTimerEnabled(t, b)
                       \/ \E i \in Intervals : PutTimerInterval(t, i)
                       \/ HandlerReturn(t)
                       \/ EditEnabled(t)
                       \/ EndOfFrameDelete(t)
  \/ \E b \in Balls : \/ \E i \in Intervals : CreateBall(b, i)
                      \/ DestroyBall(b)

Spec == Init /\ [][Next]_vars

-----------------------------------------------------------------------------
(* What the timers promise.                                                   *)

TypeOK ==
  /\ now \in 0 .. MaxTime
  /\ enabled \in [Timers -> BOOLEAN]
  /\ interval \in [Timers -> {Effective(i) : i \in Intervals}]
  /\ nextfire \in [Timers -> 0 .. Modulus - 1]
  /\ alive \subseteq Timers /\ dying \subseteq alive \cap Balls
  /\ vht \in Seq(Timers) /\ changed \in Seq(Change)
  /\ pass \in {"idle", "timer", "frame", "sync"}
  /\ stage \in {"walk", "apply", "clear"}
  /\ at \in Nat \ {0} /\ beyond \in Seq(Timers) /\ firing \subseteq Timers
  /\ deletion \in [Timers -> {"none", "look", "note", "erase", "free"}]
  /\ cur \in 0 .. Modulus - 1
  /\ edited \subseteq Timers

\* Between the passes the list holds each enabled timer of a living part
\* once and no other: no change that a handler asked for during a pass was
\* lost, undone by an older one or made twice (player.cpp:1221-1236), and the
\* assertions of TimerStateChange (player.cpp:1254 and 1261) hold.  This is
\* so for the timers that the live editor did not switch, and for a part that
\* it deletes unless the deletion meets the end of a pass that it had taken to
\* go on, or another change of the timer.
Stays(t) == t \in alive /\ enabled[t] /\ deletion[t] # "free"
ListExact ==
  pass = "idle" => \A t \in Timers \ edited :
                      /\ Listed(vht, t) <=> Stays(t)
                      /\ \A i, j \in DOMAIN vht : vht[i] = t /\ vht[j] = t => i = j

\* Between the passes the list holds no freed timer (ieditable.cpp:15: "If
\* TimerRelease was not called, then player will hold an invalid reference").
NoFreedTimerListed ==
  pass = "idle" => \A t \in Timers : Listed(vht, t) => t \in alive

\* A pass calls no freed timer (the same comment).
NoFreedTimerVisited ==
  Deferring /\ at <= Len(Walked) => Walked[at] \in alive

\* When the pass of a physics step ends, no timer on a fixed interval is left
\* due, and each is due again within its interval, whatever the handlers
\* disabled, enabled or set anew, and however many passes were left out
\* (hittimer.cpp:27-41).  A pass whose list the render thread shortened may
\* leave one out.
OnTime ==
  [][(pass = "timer" /\ pass' = "idle" /\ beyond = <<>>) =>
       \A t \in alive : (Listed(vht', t) /\ deletion[t] = "none" /\ interval'[t] > 0) =>
          /\ now' < nextfire'[t]
          /\ nextfire'[t] <= now' + interval'[t]]_vars

\* A timer that a handler disabled does not fire any more in the pass:
\* "Fakes the disabling of the timer, until it will be catched by the cleanup
\* via m_changed_vht" (hittimer.cpp:23).
DisabledNotDue ==
  (pass = "timer" /\ Deferring /\ firing = {} /\ at <= Len(Walked)) =>
     (Due(Walked[at]) => enabled[Walked[at]])

\* The list shows the timers that are enabled, so that TimerStateChange is
\* called for a change of state only (player.cpp:1254 and 1261: "As this must
\* be a state change, so the timer may not be missing as it was enabled").
ChangesAreChanges ==
  pass = "idle" => \A t \in alive : Listed(vht, t) <=> enabled[t]
=============================================================================

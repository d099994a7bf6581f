--------------------------- MODULE RenderPassSort ---------------------------
(***************************************************************************)
(* The passes of one render frame: how calls on the render device build    *)
(* them (RenderDevice::SetRenderTarget and its companions) and how         *)
(* RenderFrame::Execute orders, merges and splits them before the GPU runs *)
(* their commands.  A pass is a position in m_passes, 0 stands for the     *)
(* null pointer.  Calls (see RenderCalls) come from the constant Frames.   *)
(***************************************************************************)
EXTENDS Integers, Sequences, SequencesExt, FiniteSetsExt

CONSTANTS
  Targets,      \* render targets
  BackBuffers,  \* those that belong to an output window
  Frames        \* bound: for each frame, the sequences of calls that may be submitted

ASSUME BackBuffersAreTargets == BackBuffers \subseteq Targets

VARIABLES
  calls,     \* what remains to be called for this frame
  passes,    \* m_passes
  pool,      \* m_passPool
  lastPass,  \* m_lastRenderPass of each target
  current,   \* m_currentPass
  phase,     \* what Execute is doing
  sorted,    \* sortedPasses of the running SortPasses
  waiting,   \* waitingPasses
  at,        \* iterator of the merging and splitting loops
  outer,     \* sorted list around a nested SortPasses: before and after it
  executed,  \* the commands the GPU got for this frame, in order
  frames     \* frames begun

vars == <<calls, passes, pool, lastPass, current, phase, sorted, waiting, at,
          outer, executed, frames>>

(***************************************************************************)
(* A pass.  The last three fields are history: the passes whose output it  *)
(* was declared to sample, the pass that began the content of its target,  *)
(* and how many commands it was given.                                     *)
(***************************************************************************)
NewPass == [rt |-> CHOOSE rt \in Targets : TRUE, mergeable |-> TRUE, commands |-> <<>>,
            deps |-> <<>>, placed |-> FALSE, refs |-> {}, reads |-> {}, content |-> 0,
            drew |-> 0]

SlipStillPlaced(stale, rt) ==
  [stale EXCEPT !.rt = rt, !.mergeable = TRUE, !.commands = <<>>, !.deps = <<>>,
                !.refs = {}, !.reads = {}, !.content = 0, !.drew = 0]
Reset(stale, rt) ==
  [stale EXCEPT !.rt = rt, !.mergeable = TRUE, !.commands = <<>>, !.deps = <<>>,
                !.placed = FALSE, !.refs = {}, !.reads = {}, !.content = 0, !.drew = 0]

AddPass(rt) == IF pool = <<>> THEN [NewPass EXCEPT !.rt = rt] ELSE Reset(Last(pool), rt)
PoolLeft == IF pool = <<>> THEN pool ELSE Front(pool)

AddPrecursor(deps, p) == IF Contains(deps, p) THEN deps ELSE Append(deps, p)
AddPrecursors(deps, ps) == FoldLeft(AddPrecursor, deps, ps)

Init ==
  /\ calls \in Frames[1]
  /\ passes = <<>> /\ pool = <<>> /\ lastPass = [rt \in Targets |-> 0] /\ current = 0
  /\ phase = "submit" /\ sorted = <<>> /\ waiting = <<>> /\ at = 1
  /\ outer = <<>> /\ executed = <<>> /\ frames = 1

(***************************************************************************)
(* Building the frame.                                                     *)
(***************************************************************************)
Call(op) == phase = "submit" /\ calls # <<>> /\ Head(calls).op = op /\ calls' = Tail(calls)

\* Passes that keep what is on their target share a content with the last.
ContentOf(rt, keep) == IF keep /\ lastPass[rt] # 0 THEN passes[lastPass[rt]].content ELSE Len(passes) + 1

Begin(rt, keep, pass) ==
  /\ passes' = Append(passes, [pass EXCEPT !.content = ContentOf(rt, keep)])
  /\ pool' = PoolLeft
  /\ current' = Len(passes) + 1
  /\ lastPass' = [lastPass EXCEPT ![rt] = Len(passes) + 1]

Sorting == <<phase, sorted, waiting, at, outer, executed, frames>>

\* SetRenderTarget: goes on with the current pass if it may.
SameTarget(c) == current # 0 /\ c.keep /\ ~c.force /\ passes[current].rt = c.rt

KeptDeps(rt) ==
  IF lastPass[rt] = 0 THEN <<>>
  ELSE AddPrecursor(AddPrecursors(<<>>, passes[lastPass[rt]].deps), lastPass[rt])

SetRenderTarget ==
  /\ Call("target")
  /\ LET c == Head(calls)
     IN  IF SameTarget(c) THEN UNCHANGED <<passes, pool, current, lastPass>>
         ELSE Begin(c.rt, c.keep, [AddPass(c.rt) EXCEPT
                !.mergeable = ~c.force,
                !.deps = IF c.keep THEN KeptDeps(c.rt) ELSE <<>>])
  /\ UNCHANGED Sorting

SetNoTarget ==
  /\ Call("none")
  /\ current' = 0
  /\ UNCHANGED <<passes, pool, lastPass, Sorting>>

\* RenderScreenSpaceTransparency: back to the target that was copied, with
\* the copied pass as the only precursor.
ResumeTarget ==
  /\ Call("resume")
  /\ LET rt == Head(calls).rt
     IN  Begin(rt, TRUE, [AddPass(rt) EXCEPT !.deps = <<lastPass[rt]>>])
  /\ UNCHANGED Sorting

\* What is sampled is what the last pass with commands left there.
SameContent(p, q) == passes[p].content = passes[q].content
Sampled(d) ==
  LET drawn == {p \in 1..d : SameContent(p, d) /\ passes[p].commands # <<>>}
  IN  IF drawn = {} THEN {} ELSE {[pass |-> Max(drawn), depth |-> Head(calls).depth]}

AddRenderTargetDependency ==
  /\ Call("reads")
  /\ LET d == lastPass[Head(calls).rt]
     IN  passes' = IF current = 0 \/ d = 0 THEN passes
                   ELSE [passes EXCEPT ![current].deps = AddPrecursor(@, d),
                                       ![current].reads = @ \cup Sampled(d)]
  /\ UNCHANGED <<pool, lastPass, current, Sorting>>

\* A command, with the pass it must come after, if any
\* (AddRenderTargetDependencyOnNextRenderCommand).  No two commands of a
\* pass are equal: nr counts them.
Command(c) == [of |-> current, layer |-> c.layer, flat |-> c.flat, nr |-> Len(passes[current].commands) + 1,
               after |-> IF c.after = {} THEN 0 ELSE lastPass[CHOOSE rt \in c.after : TRUE]]

SubmitCommand ==
  /\ Call("submit")
  /\ passes' = [passes EXCEPT ![current].commands = Append(@, Command(Head(calls))),
                              ![current].drew = @ + 1]
  /\ UNCHANGED <<pool, lastPass, current, Sorting>>

\* A clear of colour and depth makes what the pass drew before needless.
SubmitClear ==
  /\ Call("clear")
  /\ passes' = [passes EXCEPT ![current].commands =
                  <<[of |-> current, layer |-> 0, flat |-> FALSE, nr |-> 1, after |-> 0]>>,
                              ![current].drew = 1]
  /\ UNCHANGED <<pool, lastPass, current, Sorting>>

ClearCommands ==
  /\ Call("drop")
  /\ passes' = [passes EXCEPT ![current].commands = <<>>, ![current].drew = 0]
  /\ UNCHANGED <<pool, lastPass, current, Sorting>>

(***************************************************************************)
(* Execute: the output passes become precursors of the last pass, which    *)
(* the sort starts from.                                                   *)
(***************************************************************************)
OutputPasses == SelectSeq([p \in 1..Len(passes) - 1 |-> p],
                          LAMBDA p : passes[p].rt \in BackBuffers)

StartExecute ==
  /\ phase = "submit" /\ calls = <<>>
  /\ LET final == Len(passes)
         deps == AddPrecursors(passes[final].deps, OutputPasses)
     IN  /\ passes' = [passes EXCEPT ![final].deps = deps]
         /\ sorted' = <<final>>
         /\ waiting' = deps
  /\ lastPass' = [rt \in Targets |-> 0]
  /\ current' = 0
  /\ phase' = "sort"
  /\ UNCHANGED <<calls, pool, at, outer, executed, frames>>

(***************************************************************************)
(* SortPasses: one waiting pass at a time.                                 *)
(***************************************************************************)
DependsOn(p, q) == Contains(passes[p].deps, q)

SlipLastConsumer(p) == Max({i \in DOMAIN sorted : DependsOn(sorted[i], p)})
FirstConsumer(p) == Min({i \in DOMAIN sorted : DependsOn(sorted[i], p)})

\* Moving back from the first consumer over i is not possible: p needs that
\* pass, or what p overwrites is still needed there.
SlipNoReference(i, p) == DependsOn(p, sorted[i])
Blocks(i, p) == DependsOn(p, sorted[i]) \/ passes[p].rt \in passes[sorted[i]].refs

SameRT(i, p) == passes[sorted[i]].rt = passes[p].rt

\* Where p is put: before the last pass on its target that can be reached
\* from the first consumer, or else before the first consumer.
Place(p) ==
  LET first == FirstConsumer(p)
      stops == {i \in 1..first - 1 : Blocks(i, p) \/ SameRT(i, p)}
  IN  IF stops = {} \/ Blocks(Max(stops), p) THEN first ELSE Max(stops)

\* The passes of s from p to its last consumer expect the target of p.
Expecting(s, i) ==
  LET last == Max({i} \cup {j \in i..Len(s) : DependsOn(s[j], s[i])})
  IN  {s[j] : j \in i + 1..last}

SortNext ==
  /\ phase = "sort" /\ waiting # <<>>
  /\ LET p == Last(waiting)
         i == Place(p)
         s == InsertAt(sorted, i, p)
         expecting == Expecting(s, i)
     IN  IF passes[p].placed
         THEN waiting' = Front(waiting) /\ UNCHANGED <<sorted, passes>>
         ELSE /\ waiting' = Front(waiting) \o passes[p].deps
              /\ sorted' = s
              /\ passes' = [q \in DOMAIN passes |->
                   IF q = p
                   THEN [passes[q] EXCEPT !.placed = TRUE, !.refs = @ \cup passes[sorted[i]].refs]
                   ELSE IF q \in expecting
                   THEN [passes[q] EXCEPT !.refs = @ \cup {passes[p].rt}]
                   ELSE passes[q]]
  /\ UNCHANGED <<calls, pool, lastPass, current, phase, at, outer, executed, frames>>

EndSort ==
  /\ phase = "sort" /\ waiting = <<>>
  /\ phase' = "merge" /\ at' = 1
  /\ UNCHANGED <<calls, passes, pool, lastPass, current, sorted, waiting, outer, executed, frames>>

\* The end of SortPasses: a pass is merged with the next one on its target.
SlipAlways(i) == i < Len(sorted) /\ passes[sorted[i]].rt = passes[sorted[i + 1]].rt
Mergeable(i) ==
  /\ i < Len(sorted)
  /\ passes[sorted[i + 1]].mergeable
  /\ passes[sorted[i]].rt = passes[sorted[i + 1]].rt

MergeNext ==
  /\ phase = "merge" /\ at <= Len(sorted)
  /\ IF Mergeable(at)
     THEN /\ passes' = [passes EXCEPT
                 ![sorted[at + 1]].commands = passes[sorted[at]].commands \o @,
                 ![sorted[at]].commands = <<>>]
          /\ sorted' = RemoveAt(sorted, at)
          /\ at' = at
     ELSE at' = at + 1 /\ UNCHANGED <<passes, sorted>>
  /\ UNCHANGED <<calls, pool, lastPass, current, phase, waiting, outer, executed, frames>>

\* A nested sort gives its passes to the list it was started for.
EndMerge ==
  /\ phase = "merge" /\ at > Len(sorted)
  /\ phase' = "split"
  /\ IF outer = <<>> THEN at' = 1 /\ UNCHANGED <<sorted, outer>>
     ELSE /\ sorted' = outer[1] \o sorted \o outer[2]
          /\ at' = Len(outer[1]) + Len(sorted) + 1
          /\ outer' = <<>>
  /\ UNCHANGED <<calls, passes, pool, lastPass, current, waiting, executed, frames>>

(***************************************************************************)
(* SortCommands (stable; clears and copies first), and the split before a  *)
(* command that needs a pass executed just before it.                      *)
(***************************************************************************)
Layers(cmds) == {c.layer : c \in ToSet(cmds)}

SortCommands(cmds) ==
  FlattenSeq([k \in 1..Cardinality(Layers(cmds)) |->
    LET layer == SetToSortSeq(Layers(cmds), <)[k]
    IN  SelectSeq(cmds, LAMBDA c : c.layer = layer)])

NeedsSplit(c) == c.after # 0 /\ ~passes[c.after].placed

SplitNext ==
  /\ phase = "split" /\ at <= Len(sorted)
  /\ LET p == sorted[at]
         cmds == SortCommands(passes[p].commands)
         cuts == {k \in DOMAIN cmds : NeedsSplit(cmds[k])}
     IN  IF cuts = {}
         THEN /\ passes' = [passes EXCEPT ![p].commands = cmds]
              /\ at' = at + 1
              /\ UNCHANGED <<pool, phase, sorted, waiting, outer>>
         ELSE LET k == Min(cuts)
                  dep == cmds[k].after
                  split == Len(passes) + 1
              IN  /\ passes' = Append(
                       [passes EXCEPT ![p].commands = SubSeq(cmds, k, Len(cmds)),
                                      ![dep].placed = TRUE],
                       [AddPass(passes[p].rt) EXCEPT !.commands = SubSeq(cmds, 1, k - 1)])
                  /\ pool' = PoolLeft
                  /\ outer' = <<Append(SubSeq(sorted, 1, at - 1), split),
                                SubSeq(sorted, at, Len(sorted))>>
                  /\ sorted' = <<dep>>
                  /\ waiting' = passes[dep].deps
                  /\ phase' = "sort"
                  /\ UNCHANGED at
  /\ UNCHANGED <<calls, lastPass, current, executed, frames>>

\* Passes are executed in order, then recycled with their commands.
ExecutePasses ==
  /\ phase = "split" /\ at > Len(sorted)
  /\ executed' = FlattenSeq([i \in DOMAIN sorted |-> passes[sorted[i]].commands])
  /\ phase' = "execute"
  /\ UNCHANGED <<calls, passes, pool, lastPass, current, sorted, waiting, at, outer, frames>>

Recycled == [p \in DOMAIN passes |-> [passes[p] EXCEPT !.commands = <<>>]]

Recycle ==
  /\ phase = "execute"
  /\ frames < Len(Frames)
  /\ pool' = pool \o Recycled
  /\ passes' = <<>> /\ executed' = <<>>
  /\ calls' \in Frames[frames + 1]
  /\ phase' = "submit" /\ sorted' = <<>> /\ at' = 1
  /\ frames' = frames + 1
  /\ UNCHANGED <<lastPass, current, waiting, outer>>

Next ==
  \/ SetRenderTarget \/ SetNoTarget \/ ResumeTarget \/ AddRenderTargetDependency
  \/ SubmitCommand \/ SubmitClear \/ ClearCommands
  \/ StartExecute \/ SortNext \/ EndSort \/ MergeNext \/ EndMerge
  \/ SplitNext \/ ExecutePasses \/ Recycle

Spec == Init /\ [][Next]_vars

-----------------------------------------------------------------------------
(***************************************************************************)
(* What the frame must come to.                                            *)
(***************************************************************************)
\* The pass that last drew to rt before the k-th command.
LastWriter(rt, k) ==
  LET ks == {j \in 1..k - 1 : passes[executed[j].of].rt = rt}
  IN  IF ks = {} THEN 0 ELSE executed[Max(ks)].of

HasContentOf(p, q) == p # 0 /\ SameContent(p, q)

\* The k-th command finds the target of d.pass as it was after all commands
\* of that content for which Before holds, and no others; commands that
\* leave the depths alone make no difference to one that reads these.
Finds(k, d, Before(_)) ==
  /\ HasContentOf(LastWriter(passes[d.pass].rt, k), d.pass)
  /\ \A j \in DOMAIN executed :
       SameContent(executed[j].of, d.pass) /\ ~(d.depth /\ executed[j].flat) => (j < k <=> Before(j))

\* It copies the target of d.pass for the m-th command, which draws upon it.
CopiesFor(m, k, d) ==
  LET c == executed[m]
  IN  /\ c.after # 0 /\ passes[c.after].rt = passes[executed[k].of].rt
      /\ SameContent(c.of, d.pass)

(***************************************************************************)
(* While SortPasses builds its list, every pass comes after those it       *)
(* depends on, and none is in it twice.                                    *)
(***************************************************************************)
PrecursorsFirst ==
  phase = "sort" =>
    \A i, j \in DOMAIN sorted :
      i < j => sorted[i] # sorted[j] /\ ~DependsOn(sorted[i], sorted[j])

(***************************************************************************)
(* What a pass samples is what it was given when the frame was built: its  *)
(* commands find in the target what had been drawn at the call that        *)
(* declared the dependency, all of it and nothing later, although targets  *)
(* are reused within the frame and passes are moved, merged and split.     *)
(* A copy made for a command has all that is drawn before that command     *)
(* instead, and the command finds the copy.                                *)
(***************************************************************************)
InputsKept ==
  phase = "execute" =>
    \A k \in DOMAIN executed :
      LET c == executed[k]
      IN  /\ \A d \in passes[c.of].reads :
               \/ Finds(k, d, LAMBDA j : executed[j].of <= d.pass)
               \/ \E m \in DOMAIN executed :
                    CopiesFor(m, k, d) /\ Finds(k, d, LAMBDA j : j < m)
          /\ c.after # 0 => LastWriter(passes[c.after].rt, k) = c.after

(***************************************************************************)
(* A pass that goes on with the content of its target finds it: between    *)
(* two passes of one content nothing else is drawn to the target, and the  *)
(* commands of a pass that must not be merged are not mixed with those     *)
(* that were submitted before it.                                          *)
(***************************************************************************)
ContentKept ==
  phase = "execute" =>
    \A j, k \in DOMAIN executed :
      LET p == executed[j].of
          q == executed[k].of
      IN  (j < k /\ SameContent(p, q)) =>
            /\ HasContentOf(LastWriter(passes[q].rt, k), q)
            /\ p > q => passes[p].mergeable

(***************************************************************************)
(* Every command that contributes to an output is executed, once: those of *)
(* the last pass, of all passes on output windows, and of what they sample *)
(* or draw upon, directly or not.                                          *)
(***************************************************************************)
Contributes[p \in DOMAIN passes] ==
  \/ p = Last(sorted)
  \/ passes[p].rt \in BackBuffers /\ passes[p].drew > 0
  \/ \E q \in p + 1..Len(passes) :
       Contributes[q] /\ (SameContent(p, q) \/ \E d \in passes[q].reads : d.pass = p)
  \/ \E k \in DOMAIN executed : executed[k].after = p

NothingLost ==
  phase = "execute" =>
    /\ \A j, k \in DOMAIN executed :
         j # k => <<executed[j].of, executed[j].nr>> # <<executed[k].of, executed[k].nr>>
    /\ \A p \in DOMAIN passes :
         Contributes[p] =>
           Cardinality({k \in DOMAIN executed : executed[k].of = p}) = passes[p].drew
=============================================================================

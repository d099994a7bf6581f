----------------------------- MODULE RenderCalls -----------------------------
(***************************************************************************)
(* The calls on the render device that build a frame, as records.          *)
(***************************************************************************)
\* SetRenderTarget(rt, useRTContent, forceNewPass), and with the null pointer.
Target(rt, keep, force) == [op |-> "target", rt |-> rt, keep |-> keep, force |-> force]
NoTarget == [op |-> "none"]

\* Back to the target that was copied, with its last pass as only precursor.
Resume(rt) == [op |-> "resume", rt |-> rt]

\* AddRenderTargetDependency(rt, needDepth): what is drawn next samples the
\* colours of rt, or its depths.
Reads(rt) == [op |-> "reads", rt |-> rt, depth |-> FALSE]
ReadsDepth(rt) == [op |-> "reads", rt |-> rt, depth |-> TRUE]

\* A command.  layer is where it is sorted in its pass: 0 for clears and
\* copies, then opaque parts and transparent ones from back to front.  The
\* second form leaves the depths of the target alone.  The third form needs
\* the last pass on rt executed just before it.
Submit(layer) == [op |-> "submit", layer |-> layer, flat |-> FALSE, after |-> {}]
Overlay == [op |-> "submit", layer |-> 1, flat |-> TRUE, after |-> {}]
SubmitAfter(layer, rt) == [op |-> "submit", layer |-> layer, flat |-> FALSE, after |-> {rt}]

\* Clears of the whole target, and taking back what was submitted.
ClearAll == [op |-> "clear"]
DropCommands == [op |-> "drop"]
=============================================================================

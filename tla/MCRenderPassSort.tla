--------------------------- MODULE MCRenderPassSort ---------------------------
(***************************************************************************)
(* RenderPassSort on the frames that Renderer submits.  The parts of the   *)
(* scene vary with a fixed post processing, and the post processing with a *)
(* fixed scene.                                                            *)
(***************************************************************************)
EXTENDS RenderPassSort, RendererFrame

CONSTANT BloomBehindEmbedded  \* windows embedded in a frame with bloom

Item(mirrors, refracts, layer) == [mirrors |-> mirrors, refracts |-> refracts, layer |-> layer]
Parts == {Item(FALSE, FALSE, 1), Item(TRUE, FALSE, 1), Item(FALSE, TRUE, 2),
          Item(TRUE, TRUE, 3), Item(FALSE, FALSE, 3)}

Plain == [start |-> "static", msaa |-> FALSE, store |-> FALSE, lights |-> TRUE,
          probe |-> "dynamic", rough |-> FALSE, items |-> <<Item(FALSE, FALSE, 1)>>,
          ssr |-> FALSE, ao |-> FALSE, bloom |-> TRUE, ancillary |-> "off", filled |-> TRUE,
          motion |-> FALSE, aa |-> "off", sharpen |-> FALSE, upscale |-> FALSE,
          stereo |-> "off"]

\* A multisampled scene cannot start from the static parts in BGFX builds.
Scenes ==
  {[Plain EXCEPT !.start = w.start, !.msaa = w.msaa, !.lights = w.lights, !.probe = w.probe,
                 !.rough = w.rough, !.items = items, !.bloom = w.bloom] :
     w \in [start : {"static", "msaa", "clear"}, msaa : BOOLEAN, lights : BOOLEAN,
            probe : {"none", "balls", "dynamic"}, rough : BOOLEAN, bloom : BOOLEAN],
     items \in UNION {[1..n -> Parts] : n \in 0..2}}

SceneFrames == {RenderFrame(o) : o \in {s \in Scenes : s.start = "msaa" => s.msaa}}

PostSettings ==
  [ssr : BOOLEAN, ao : BOOLEAN, bloom : BOOLEAN, ancillary : {"off", "embedded", "window"},
   filled : BOOLEAN, motion : BOOLEAN, aa : {"off", "one", "dlaa", "smaa"},
   sharpen : BOOLEAN, upscale : BOOLEAN, stereo : {"off", "tv", "defocus"}]

Sensible(w) ==
  /\ w.stereo # "off" => ~w.motion /\ w.ancillary # "embedded"
  /\ w.filled \/ w.ancillary = "window"
  /\ w.ancillary = "embedded" => w.bloom = BloomBehindEmbedded

PostFrames ==
  {RenderFrame([Plain EXCEPT !.ssr = w.ssr, !.ao = w.ao, !.bloom = w.bloom,
                             !.ancillary = w.ancillary, !.filled = w.filled,
                             !.motion = w.motion, !.aa = w.aa, !.sharpen = w.sharpen,
                             !.upscale = w.upscale, !.stereo = w.stereo]) :
     w \in {v \in PostSettings : Sensible(v)}}

\* The frame after the static parts were rendered; the mirror may be hidden.
StoreFrames == {RenderFrame([Plain EXCEPT !.store = TRUE, !.items = <<item>>]) : item \in Parts}

FirstFrames == SceneFrames \cup PostFrames \cup StoreFrames \cup PrerenderFrames

\* A second frame finds the passes of the first in the pool.
NextFrames == {RenderFrame([Plain EXCEPT !.items = <<Item(TRUE, TRUE, 3)>>, !.msaa = TRUE])}

MCFrames == <<FirstFrames, NextFrames>>
=============================================================================

---------------------------- MODULE RendererFrame ----------------------------
(***************************************************************************)
(* What Renderer submits for a frame: the calls on the render device, in   *)
(* order, for a table and settings o.  These are the inputs of             *)
(* RenderPassSort.  Shaders, states and geometry are left out: what counts *)
(* is which target is drawn to, and which are read.  The fields of o are   *)
(* described where they are used.                                          *)
(***************************************************************************)
EXTENDS RenderCalls, Integers, Sequences

Outputs == {"out", "window"}
RenderTargets ==
  {"back", "previous", "msaa", "staticPre", "msaaPre", "accum", "bloom", "bloomTmp",
   "probe", "probeBlur", "probeStatic", "copy", "copyBlur", "ao1", "ao2", "ssr", "motion",
   "post1", "post2"} \cup Outputs

\* A sequence of calls that is made only in some settings.
When(condition, s) == IF condition THEN s ELSE <<>>

\* The target of the scene: the multisampled one, if any (o.msaa).
MainTarget(o) == IF o.msaa THEN "msaa" ELSE "back"

\* A blit is a copy command that depends on its source.
Blit(source) == <<Reads(source), Submit(0)>>

\* Two passes, then back to the target drawn to before.
GaussianBlur(source, tmp, dest, initial) ==
  <<Target(tmp, FALSE, FALSE), Reads(source), Submit(1),
    Target(dest, FALSE, FALSE), Reads(tmp), Submit(1),
    Target(initial, TRUE, FALSE)>>

(***************************************************************************)
(* The scene.  o.lights: some light shines through parts; o.probe: what    *)
(* the reflection probe shows; o.rough: probes are blurred; o.items: the   *)
(* parts in the order they are rendered, some of which mirror or refract.  *)
(***************************************************************************)
\* Bulb lights are collected in the bloom buffer, on which the target that
\* was left depends afterwards.
BulbLightBuffer(o, initial) ==
  <<Target("bloom", FALSE, FALSE), ClearAll, Target("bloom", TRUE, TRUE)>>
  \o When(o.lights, <<Submit(1)>> \o GaussianBlur("bloom", "bloomTmp", "bloom", "bloom"))
  \o <<Target(initial, TRUE, FALSE)>>
  \o When(o.lights, <<Reads("bloom")>>)

DoRenderReflectionProbe(o) ==
  When(o.start # "static" /\ o.probe # "none", <<Submit(1)>>)
  \o When(o.probe = "dynamic", BulbLightBuffer(o, "probe"))
  \o <<Submit(1)>>

RenderReflectionProbe(o, initial) ==
  <<Target("probe", TRUE, FALSE)>>
  \o (IF o.start = "static" /\ o.probe = "dynamic" THEN Blit("probeStatic") ELSE <<ClearAll>>)
  \o DoRenderReflectionProbe(o)
  \o When(o.rough, GaussianBlur("probe", "probeBlur", "probe", "probe"))
  \o <<Target(initial, TRUE, FALSE)>>

\* A copy of what is on the screen so far.
RenderScreenSpaceTransparency(o, initial) ==
  <<Target("copy", FALSE, FALSE)>> \o Blit(initial)
  \o When(o.rough, GaussianBlur("copy", "copyBlur", "copy", "copy"))
  \o <<Resume(initial)>>

\* Probes are rendered by the first part that asks for them in a frame.
Mirrors(o, i) == o.items[i].mirrors /\ o.probe # "none"
Refracts(o, i) == o.items[i].refracts

RenderItem(o, i) ==
  LET rt == MainTarget(o)
  IN  When(Mirrors(o, i) /\ ~\E j \in 1..i - 1 : Mirrors(o, j), RenderReflectionProbe(o, rt))
      \o When(Refracts(o, i) /\ ~\E j \in 1..i - 1 : Refracts(o, j),
              RenderScreenSpaceTransparency(o, rt))
      \o When(Mirrors(o, i), <<Reads("probe")>>)
      \o <<IF Refracts(o, i) THEN SubmitAfter(o.items[i].layer, "copy")
           ELSE Submit(o.items[i].layer)>>

RECURSIVE RenderItems(_, _)
RenderItems(o, n) == IF n = 0 THEN <<>> ELSE RenderItems(o, n - 1) \o RenderItem(o, n)

\* Start from the prerendered parts, from a background that must not be
\* sorted with the scene, or from a clear target (o.start).  The reflection
\* of static parts is stored in the frame after they were prerendered (o.store).
StartScene(o) ==
  LET rt == MainTarget(o)
  IN  When(o.store, <<Target("probeStatic", TRUE, FALSE)>> \o Blit("accum") \o <<NoTarget>>)
      \o <<Target(rt, TRUE, FALSE)>>
      \o CASE o.start = "static" -> <<Reads("staticPre")>> \o Blit("staticPre")
           [] o.start = "msaa"   -> <<Submit(1), Target(rt, TRUE, TRUE)>>
           [] OTHER              -> <<ClearAll>>

RenderDynamics(o) == BulbLightBuffer(o, MainTarget(o)) \o RenderItems(o, Len(o.items))

ResolveMSAA(o) ==
  When(o.msaa, <<Target("back", TRUE, FALSE)>> \o Blit("msaa") \o <<Target("msaa", TRUE, FALSE)>>)

(***************************************************************************)
(* Post processing.  r is the target rendered to so far; the target after  *)
(* each step is a definition of its own.  outBuffer is the output when no  *)
(* later step follows.                                                     *)
(***************************************************************************)
AfterReflection(o) == IF o.ssr THEN "ssr" ELSE "back"
ScreenSpaceReflection(o) ==
  When(o.ssr, <<Target("ssr", TRUE, FALSE), Reads("back"), Submit(1)>>)

UpdateAmbientOcclusion(o) ==
  When(o.ao, <<Target("ao1", FALSE, FALSE), Reads("ao2"), ReadsDepth("back"), Submit(1)>>)

UpdateBloom(o, r) ==
  When(o.bloom, <<Target("bloom", FALSE, FALSE), Reads(r), Submit(1)>>
                \o GaussianBlur("bloom", "bloomTmp", "bloom", "bloom"))

\* Backglass, score view and topper, in the main window or in their own
\* (o.ancillary); a plugin may have nothing to draw (o.filled).
ClearEmbeddedWindow(o, r) ==
  When(o.ancillary = "embedded", <<Target(r, TRUE, TRUE), Submit(2)>>)

RenderAncillaryWindow(o, r) ==
  When(o.ancillary = "embedded", <<Target(r, TRUE, TRUE)>> \o When(o.filled, <<Overlay>>))
  \o When(o.ancillary = "window",
          <<Target("window", FALSE, TRUE), ClearAll>>
          \o (IF o.filled THEN <<Overlay>> ELSE <<DropCommands>>))

Tonemap(o, r, dest, full) ==
  <<Target(dest, ~full, FALSE), Reads(r)>>
  \o When(o.bloom, <<Reads("bloom")>>)
  \o When(o.ao, <<Reads("ao1")>>)
  \o <<Submit(1)>>

BallMotionBlur(o, before, after) ==
  When(o.motion,
       <<Target("motion", FALSE, FALSE), ReadsDepth("back"), Reads("previous"), Reads(before), Submit(1)>>
       \o Tonemap(o, "motion", after, FALSE))

PostTarget(r) == IF r = "post1" THEN "post2" ELSE "post1"
StereoPass(o) == o.stereo # "off"

TonemapTarget(o) ==
  IF o.aa # "off" \/ o.sharpen \/ StereoPass(o) \/ o.upscale THEN "post1" ELSE "out"

AfterAA(o) ==
  LET more == o.sharpen \/ StereoPass(o) \/ o.upscale
      r == TonemapTarget(o)
  IN  CASE o.aa = "off"  -> r
        [] o.aa = "one"  -> IF more THEN PostTarget(r) ELSE "out"
        [] o.aa = "dlaa" -> IF more THEN PostTarget(PostTarget(r)) ELSE "out"
        [] o.aa = "smaa" -> IF more THEN "previous" ELSE "out"

Antialiasing(o) ==
  LET r == TonemapTarget(o)
      edges == PostTarget(r)
  IN  CASE o.aa = "off" -> <<>>
        [] o.aa = "one" -> <<Target(AfterAA(o), FALSE, FALSE), Reads(r), ReadsDepth("back"), Submit(1)>>
        [] o.aa = "dlaa" ->
             <<Target(edges, FALSE, FALSE), Reads(r), ReadsDepth("back"), Submit(1),
               Target(AfterAA(o), FALSE, FALSE), Reads(edges), Submit(1)>>
        [] o.aa = "smaa" ->
             <<Target("previous", FALSE, FALSE), Reads(r), Submit(1),
               Target(edges, FALSE, FALSE), Reads(r), Reads("previous"), Submit(1),
               Target(AfterAA(o), FALSE, FALSE), Reads(r), Reads(edges), Submit(1)>>

AfterSharpening(o) ==
  IF ~o.sharpen THEN AfterAA(o)
  ELSE IF StereoPass(o) \/ o.upscale THEN PostTarget(AfterAA(o)) ELSE "out"
Sharpening(o) ==
  When(o.sharpen, <<Target(AfterSharpening(o), FALSE, FALSE), Reads(AfterAA(o)), ReadsDepth("back"), Submit(1)>>)

AfterUpscaling(o) ==
  IF ~o.upscale THEN AfterSharpening(o)
  ELSE IF StereoPass(o) THEN PostTarget(AfterSharpening(o)) ELSE "out"
Upscaling(o) ==
  When(o.upscale, <<Target(AfterUpscaling(o), FALSE, FALSE), Reads(AfterSharpening(o)), Submit(1)>>)

\* For anaglyph glasses one eye may be blurred before the eyes are composed.
Stereo(o) ==
  LET r == AfterUpscaling(o)
      tmp == PostTarget(r)
      blurred == PostTarget(tmp)
  IN  When(o.stereo = "defocus", GaussianBlur(r, tmp, blurred, r))
      \o When(StereoPass(o), <<Target("out", FALSE, FALSE),
                               Reads(IF o.stereo = "defocus" THEN blurred ELSE r), Submit(1)>>)

LiveUI(r) == <<Target(r, TRUE, TRUE), Overlay>>

RenderFrame(o) ==
  LET r == AfterReflection(o)
  IN  StartScene(o) \o RenderDynamics(o) \o ResolveMSAA(o)
      \o ScreenSpaceReflection(o) \o ClearEmbeddedWindow(o, r)
      \o UpdateAmbientOcclusion(o) \o UpdateBloom(o, r) \o RenderAncillaryWindow(o, r)
      \o Tonemap(o, r, TonemapTarget(o), TRUE) \o BallMotionBlur(o, r, TonemapTarget(o))
      \o Antialiasing(o) \o Sharpening(o) \o Upscaling(o)
      \o When(o.stereo = "tv", LiveUI(AfterUpscaling(o)))
      \o Stereo(o)
      \o When(o.stereo # "tv", LiveUI("out"))

(***************************************************************************)
(* Frames of the static prerendering (RenderStaticPrepass): an iteration   *)
(* on target r, the end of it, with occlusion in n passes that alternate   *)
(* between two targets, and the combination with a multisampled frame.     *)
(***************************************************************************)
StaticIteration(r, last) ==
  <<Target(r, last, TRUE), Submit(1), Target(r, TRUE, TRUE), Submit(1),
    Target("accum", TRUE, FALSE), Reads(r), Submit(1)>>

StoreStatic(r) == <<Target(r, TRUE, FALSE)>> \o Blit("accum")

AOTarget(i) == IF i % 2 = 0 THEN "ao1" ELSE "ao2"

RECURSIVE AOIterations(_, _)
AOIterations(r, n) ==
  IF n = 0 THEN <<>>
  ELSE AOIterations(r, n - 1)
       \o <<Target(AOTarget(n - 1), TRUE, FALSE), Reads(r), Reads(AOTarget(n))>>
       \o When(n = 1, <<ClearAll>>) \o <<Submit(1)>>

StaticAO(r, n) ==
  <<Target("staticPre", TRUE, FALSE)>> \o Blit(r) \o AOIterations(r, n)
  \o <<Target("staticPre", TRUE, FALSE), Reads(r), Reads(AOTarget(n - 1)), Submit(1)>>

CombineMSAA ==
  <<Target("msaaPre", FALSE, FALSE), Submit(1), Target("msaaPre", TRUE, TRUE)>> \o Blit("staticPre")

\* An iteration of the reflection probe's prerendering.
ReflectionIteration ==
  <<Target("probeStatic", FALSE, FALSE), ClearAll, Submit(1),
    Target("accum", TRUE, FALSE), Reads("probeStatic"), Submit(1)>>

PrerenderFrames ==
  {StaticIteration("staticPre", FALSE), StaticIteration("back", TRUE), StoreStatic("staticPre"),
   StoreStatic("back") \o StaticAO("back", 4), CombineMSAA,
   StaticAO("back", 3) \o CombineMSAA, ReflectionIteration}
=============================================================================

---------------------------- MODULE FramePipeline ----------------------------
(* The logic thread and the render thread of the BGFX build, from the device's *)
(* construction to its destruction (RenderDevice.cpp, player.cpp): a retained  *)
(* frame is filled by the logic thread, and by the threads that preload        *)
(* textures, and executed by the render thread.  A mutex guards the frame, a   *)
(* flag says that it is pending, another that it shall not be presented, and a *)
(* binary semaphore wakes the render thread.  The flags are plain variables,   *)
(* read and written with and without the mutex.                                *)
(*                                                                             *)
(* Releasing a binary semaphore that is at 1 is undefined: it stays at 1 or    *)
(* counts on, as the standard libraries do.  Locking a mutex one owns blocks.  *)
EXTENDS Naturals, FiniteSets

CONSTANTS Main,        \* the logic thread
          Loaders,     \* the tasks that preload a texture each
          Render,      \* the render thread
          None,        \* no thread
          CanFail,     \* may a texture not be loaded at the first attempt?
          MaxLosses,   \* bound: losses of the window's surface (Android)
          MaxFrames    \* bound: frames handed over before the last

ASSUME ThreadsApart == /\ Main \notin Loaders
                       /\ Render \notin Loaders \cup {Main}
                       /\ None \notin Loaders \cup {Main, Render}
ASSUME CanFailBool == CanFail \in BOOLEAN
ASSUME BoundsNat == MaxLosses \in Nat /\ MaxFrames \in Nat

Clients == Loaders \cup {Main}

VARIABLES pc,         \* what each client is in
          back,       \* where a client goes on after SubmitRenderFrame
          render,     \* what the render thread is in
          owner,      \* of m_frameMutex
          pool,       \* the owner of the preload's local mutex
          pending,    \* m_framePending
          noPresent,  \* m_frameNoPresent
          sem,        \* m_frameReadySem
          alive,      \* m_renderDeviceAlive
          ready,      \* m_rendererInitialized
          failed,     \* failedPreloads
          losses,     \* losses of the surface so far
          retained,   \* the frame that the retained render frame holds
          built,      \* history: the frames handed over
          shown,      \* history: the last frame executed
          flips       \* history: flips since a client last pushed a sampler

sync == <<owner, pending, noPresent, sem, alive, ready>>
frames == <<retained, built, shown, flips>>
vars == <<pc, back, render, owner, pool, pending, noPresent, sem, alive, ready,
          failed, losses, retained, built, shown, flips>>

Released(s) == {1, s + 1}
Goto(c, l) == pc' = [pc EXCEPT ![c] = l]

\* The logic thread, in the device's constructor, has locked the mutex and
\* waits for the render thread to be initialized.
Init == /\ pc = [c \in Clients |-> IF c = Main THEN "constructing" ELSE "idle"]
        /\ back = [c \in Clients |-> "idle"]
        /\ render = "starting"
        /\ owner = Main
        /\ pool = None
        /\ pending = FALSE
        /\ noPresent = FALSE
        /\ sem = 0
        /\ alive = TRUE
        /\ ready = 0
        /\ failed = {}
        /\ losses = 0
        /\ retained = 1
        /\ built = 0
        /\ shown = 0
        /\ flips = [c \in Clients |-> 0]

-----------------------------------------------------------------------------
(* SubmitRenderFrame on a client, that owns the mutex: mark, flag, unlock,     *)
(* wake the render thread, wait until it took the frame and left the mutex.    *)

Call(c, return) ==
  /\ Goto(c, "submit")
  /\ back' = [back EXCEPT ![c] = return]

SubmitMark(c) ==
  /\ pc[c] = "submit"
  /\ pending' = TRUE
  /\ built' = built + 1
  /\ Goto(c, "flag")
  /\ UNCHANGED <<back, render, owner, pool, noPresent, sem, alive, ready, failed,
                 losses, retained, shown, flips>>

SlipFlag(c) == noPresent
Flag(c) == TRUE

SubmitFlag(c) ==
  /\ pc[c] = "flag"
  /\ noPresent' = Flag(c)
  /\ Goto(c, "give")
  /\ UNCHANGED <<back, render, owner, pool, pending, sem, alive, ready, failed,
                 losses, frames>>

SubmitUnlock(c) ==
  /\ pc[c] = "give"
  /\ owner' = None
  /\ Goto(c, "wake")
  /\ UNCHANGED <<back, render, pool, pending, noPresent, sem, alive, ready, failed,
                 losses, frames>>

SlipWakes(c) == {sem}
Wakes(c) == Released(sem)

SubmitWake(c) ==
  /\ pc[c] = "wake"
  /\ sem' \in Wakes(c)
  /\ Goto(c, "await")
  /\ UNCHANGED <<back, render, owner, pool, pending, noPresent, alive, ready,
                 failed, losses, frames>>

Taken == ~ pending /\ owner = None

SubmitReturn(c) ==
  /\ pc[c] = "await"
  /\ Taken
  /\ owner' = c
  /\ retained' = built + 1
  /\ Goto(c, back[c])
  /\ UNCHANGED <<back, render, pool, pending, noPresent, sem, alive, ready, failed,
                 losses, built, shown, flips>>

Submit(c) == SubmitMark(c) \/ SubmitFlag(c) \/ SubmitUnlock(c) \/ SubmitWake(c)
             \/ SubmitReturn(c)

-----------------------------------------------------------------------------
(* Preloading the textures: tasks of a thread pool, then, for the textures     *)
(* that failed, the logic thread (player.cpp:492-604).                         *)

SlipPoolFree == TRUE
PoolFree == pool = None

MayFail(c) == CanFail /\ c \in Loaders

\* The texture is in the used textures' list and is uploaded, or is only
\* registered, or fails; at the second attempt it fails for good.
LoadImage(c) ==
  /\ pc[c] = "queued"
  /\ PoolFree
  /\ pool' = c
  /\ \/ Goto(c, "upload") /\ UNCHANGED failed
     \/ Goto(c, "leave") /\ UNCHANGED failed
     \/ /\ MayFail(c)
        /\ failed' = failed \cup {c}
        /\ Goto(c, "leave")
  /\ UNCHANGED <<back, render, sync, losses, frames>>

\* UploadTexture locks the mutex, pushes the sampler and submits a first frame.
UploadTexture(c) ==
  /\ pc[c] = "upload"
  /\ owner = None
  /\ owner' = c
  /\ retained' = built + 1
  /\ flips' = [flips EXCEPT ![c] = 0]
  /\ Call(c, "again")
  /\ UNCHANGED <<render, pool, pending, noPresent, sem, alive, ready, failed, losses,
                 built, shown>>

UploadAgain(c) ==
  /\ pc[c] = "again"
  /\ Call(c, "uploaded")
  /\ UNCHANGED <<render, pool, sync, failed, losses, frames>>

UploadReturn(c) ==
  /\ pc[c] = "uploaded"
  /\ owner' = None
  /\ Goto(c, "leave")
  /\ UNCHANGED <<back, render, pool, pending, noPresent, sem, alive, ready, failed,
                 losses, frames>>

LeaveImage(c) ==
  /\ pc[c] = "leave"
  /\ pool' = None
  /\ Goto(c, IF c = Main THEN "retry" ELSE "loaded")
  /\ UNCHANGED <<back, render, sync, failed, losses, frames>>

Preload(c) == LoadImage(c) \/ UploadTexture(c) \/ UploadAgain(c) \/ UploadReturn(c)
              \/ LeaveImage(c)

-----------------------------------------------------------------------------
(* The logic thread.                                                           *)

Constructed ==
  /\ pc[Main] = "constructing"
  /\ ready > 0
  /\ ready' = ready - 1
  /\ Goto(Main, "init")
  /\ UNCHANGED <<back, render, owner, pool, pending, noPresent, sem, alive, failed,
                 losses, frames>>

\* The renderer computes the environment's radiance on the GPU, or on the CPU
\* where the platform asks for that.
InitRenderer ==
  /\ pc[Main] = "init"
  /\ \/ Call(Main, "ready")
     \/ Goto(Main, "ready") /\ UNCHANGED back
  /\ UNCHANGED <<render, pool, sync, failed, losses, frames>>

StartPreload ==
  /\ pc[Main] = "ready"
  /\ owner' = None
  /\ pc' = [c \in Clients |-> IF c = Main THEN "pool" ELSE "queued"]
  /\ UNCHANGED <<back, render, pool, pending, noPresent, sem, alive, ready, failed,
                 losses, frames>>

Preloaded ==
  /\ pc[Main] = "pool"
  /\ \A c \in Loaders : pc[c] = "loaded"
  /\ owner = None
  /\ owner' = Main
  /\ Goto(Main, "retry")
  /\ UNCHANGED <<back, render, pool, pending, noPresent, sem, alive, ready, failed,
                 losses, frames>>

Retry ==
  /\ pc[Main] = "retry"
  /\ \E c \in failed : failed' = failed \ {c}
  /\ Goto(Main, "queued")
  /\ UNCHANGED <<back, render, pool, sync, losses, frames>>

\* GameLoop wakes the render thread, with no frame, then unlocks.
GameLoop ==
  /\ pc[Main] = "retry"
  /\ failed = {}
  /\ sem' \in Released(sem)
  /\ Goto(Main, "enter")
  /\ UNCHANGED <<back, render, owner, pool, pending, noPresent, alive, ready, failed,
                 losses, frames>>

EnterLoop ==
  /\ pc[Main] = "enter"
  /\ owner' = None
  /\ Goto(Main, "loop")
  /\ UNCHANGED <<back, render, pool, pending, noPresent, sem, alive, ready, failed,
                 losses, frames>>

SlipMayPrepare == owner = None
MayPrepare == ~ pending /\ owner = None

\* MultithreadedGameLoop: prepare a frame once the last one was taken.
PrepareFrame ==
  /\ pc[Main] = "loop"
  /\ built < MaxFrames
  /\ MayPrepare
  /\ owner' = Main
  /\ retained' = built + 1
  /\ Goto(Main, "preparing")
  /\ UNCHANGED <<back, render, pool, pending, noPresent, sem, alive, ready, failed,
                 losses, built, shown, flips>>

\* While it prepares the frame: a prerender pass is submitted on its own.
PrerenderPass ==
  /\ pc[Main] = "preparing"
  /\ built < MaxFrames
  /\ Call(Main, "preparing")
  /\ UNCHANGED <<render, pool, sync, failed, losses, frames>>

PushFrame ==
  /\ pc[Main] = "preparing"
  /\ pending' = TRUE
  /\ built' = built + 1
  /\ Goto(Main, "pushed")
  /\ UNCHANGED <<back, render, owner, pool, noPresent, sem, alive, ready, failed,
                 losses, retained, shown, flips>>

PushWake ==
  /\ pc[Main] = "pushed"
  /\ sem' \in Released(sem)
  /\ Goto(Main, "enter")
  /\ UNCHANGED <<back, render, owner, pool, pending, noPresent, alive, ready, failed,
                 losses, frames>>

\* The player is closed: the loop locks the mutex, finishes the frame, unlocks.
LeaveLoop ==
  /\ pc[Main] = "loop"
  /\ owner = None
  /\ Goto(Main, "left")
  /\ UNCHANGED <<back, render, pool, sync, failed, losses, frames>>

\* The destructor of the device.
Suspend ==
  /\ pc[Main] = "left"
  /\ alive' = FALSE
  /\ Goto(Main, "suspending")
  /\ UNCHANGED <<back, render, owner, pool, pending, noPresent, sem, ready, failed,
                 losses, frames>>

SuspendWake ==
  /\ pc[Main] = "suspending"
  /\ sem' \in Released(sem)
  /\ Goto(Main, "deleting")
  /\ UNCHANGED <<back, render, owner, pool, pending, noPresent, alive, ready, failed,
                 losses, frames>>

SlipDeleted == {ready}
Deleted == {ready + 1}

DeleteResources ==
  /\ pc[Main] = "deleting"
  /\ ready' \in Deleted
  /\ Goto(Main, "joining")
  /\ UNCHANGED <<back, render, owner, pool, pending, noPresent, sem, alive, failed,
                 losses, frames>>

Join ==
  /\ pc[Main] = "joining"
  /\ alive
  /\ render = "ended"
  /\ Goto(Main, "closed")
  /\ UNCHANGED <<back, render, pool, sync, failed, losses, frames>>

\* What the logic thread does without waiting for the user to close.
MainWork == \/ Constructed \/ InitRenderer \/ StartPreload \/ Preloaded \/ Retry
            \/ GameLoop \/ EnterLoop
            \/ PrepareFrame \/ PrerenderPass \/ PushFrame \/ PushWake
            \/ Suspend \/ SuspendWake \/ DeleteResources \/ Join

-----------------------------------------------------------------------------
(* The render thread, RenderThread and BGFXDesktopRenderLoop.                  *)

RenderGoto(l) == render' = l /\ UNCHANGED <<pc, back, pool, failed>>

RenderInit ==
  /\ render = "starting"
  /\ pending' = FALSE
  /\ ready' = ready + 1
  /\ RenderGoto("head")
  /\ UNCHANGED <<owner, noPresent, sem, alive, losses, frames>>

LoopHead ==
  /\ render = "head"
  /\ RenderGoto(IF alive THEN "waiting" ELSE "stopping")
  /\ UNCHANGED <<sync, losses, frames>>

Acquire ==
  /\ render = "waiting"
  /\ sem > 0
  /\ sem' = sem - 1
  /\ RenderGoto("woken")
  /\ UNCHANGED <<owner, pending, noPresent, alive, ready, losses, frames>>

\* After the wait: is the device suspended, is there a frame?
Woken == IF ~ alive THEN "stopping" ELSE IF ~ pending THEN "head" ELSE "checked"

Wake ==
  /\ render = "woken"
  /\ RenderGoto(Woken)
  /\ UNCHANGED <<sync, losses, frames>>

ReadNoPresent ==
  /\ render = "checked"
  /\ RenderGoto(IF noPresent THEN "lockNoPresent" ELSE "lock")
  /\ UNCHANGED <<sync, losses, frames>>

\* On Android, there is no surface: the turn ends here.
SurfaceLost ==
  /\ render = "lock"
  /\ losses < MaxLosses
  /\ losses' = losses + 1
  /\ RenderGoto("head")
  /\ UNCHANGED <<sync, frames>>

SlipRenderMayLock == TRUE
RenderMayLock == owner = None

RenderLock ==
  /\ render \in {"lock", "lockNoPresent"}
  /\ RenderMayLock
  /\ owner' = Render
  /\ RenderGoto(IF render = "lock" THEN "execute" ELSE "executeNoPresent")
  /\ UNCHANGED <<pending, noPresent, sem, alive, ready, losses, frames>>

\* The frame is executed, and the mutex unlocked before the flip.
Execute ==
  /\ render = "execute"
  /\ shown' = retained
  /\ pending' = FALSE
  /\ owner' = None
  /\ RenderGoto("flip")
  /\ UNCHANGED <<noPresent, sem, alive, ready, losses, retained, built, flips>>

KeepsLock == owner

\* The frame is executed, and the mutex kept for the flip.
ExecuteNoPresent ==
  /\ render = "executeNoPresent"
  /\ shown' = retained
  /\ noPresent' = FALSE
  /\ pending' = FALSE
  /\ owner' = KeepsLock
  /\ RenderGoto("flipNoPresent")
  /\ UNCHANGED <<sem, alive, ready, losses, retained, built, flips>>

\* SubmitAndFlipFrame processes the samplers that were pushed.
Flip ==
  /\ render \in {"flip", "flipNoPresent"}
  /\ flips' = [c \in Clients |-> IF flips[c] < 2 THEN flips[c] + 1 ELSE 2]
  /\ owner' = IF render = "flipNoPresent" THEN None ELSE owner
  /\ RenderGoto("head")
  /\ UNCHANGED <<pending, noPresent, sem, alive, ready, losses, retained, built, shown>>

\* Once the logic thread released the native resources, BGFX is shut down.
Shutdown ==
  /\ render = "stopping"
  /\ ready > 0
  /\ ready' = ready - 1
  /\ alive' = TRUE
  /\ RenderGoto("ended")
  /\ UNCHANGED <<owner, pending, noPresent, sem, losses, frames>>

RenderStep == \/ RenderInit \/ LoopHead \/ Acquire \/ Wake \/ ReadNoPresent
              \/ SurfaceLost \/ RenderLock \/ Execute \/ ExecuteNoPresent \/ Flip
              \/ Shutdown

-----------------------------------------------------------------------------
\* The waits that are loops, in which the client lets the OS messages pass.
Spin == /\ \/ \E c \in Clients : pc[c] = "await" /\ ~ Taken
           \/ pc[Main] = "constructing" /\ ready = 0
           \/ pc[Main] = "joining" /\ ~ alive
        /\ UNCHANGED vars

Terminated == pc[Main] = "closed" /\ UNCHANGED vars

Next == \/ MainWork
        \/ LeaveLoop
        \/ \E c \in Clients : Submit(c) \/ Preload(c)
        \/ RenderStep
        \/ Spin
        \/ Terminated

Spec == Init /\ [][Next]_vars

\* Each thread is scheduled.  A lock that is waited for is not contended for
\* without end: the others that take it wait for the waiting one.  The user
\* need not close the player.
Fairness == /\ WF_vars(MainWork)
            /\ WF_vars(RenderStep)
            /\ \A c \in Clients : WF_vars(Submit(c)) /\ WF_vars(Preload(c))

LiveSpec == Spec /\ Fairness

-----------------------------------------------------------------------------
(* What the threads rely on.                                                   *)

Labels == {"idle", "constructing", "init", "ready", "pool", "retry", "queued",
           "upload", "again", "uploaded", "leave", "loaded", "enter", "loop",
           "preparing", "pushed", "submit", "flag", "give", "wake", "await",
           "left", "suspending", "deleting", "joining", "closed"}

\* The variables keep their types; the semaphore that starts and ends the
\* device is never released while it is at 1.
TypeOK ==
  /\ pc \in [Clients -> Labels]
  /\ back \in [Clients -> {"idle", "ready", "again", "uploaded", "preparing"}]
  /\ render \in {"starting", "head", "waiting", "woken", "checked", "lock",
                 "lockNoPresent", "execute", "executeNoPresent", "flip",
                 "flipNoPresent", "stopping", "ended"}
  /\ owner \in Clients \cup {Render, None}
  /\ pool \in Clients \cup {None}
  /\ pending \in BOOLEAN /\ noPresent \in BOOLEAN /\ alive \in BOOLEAN
  /\ sem \in Nat
  /\ ready \in {0, 1}
  /\ failed \subseteq Loaders
  /\ losses \in 0 .. MaxLosses
  /\ retained \in Nat /\ built \in Nat /\ shown \in Nat
  /\ flips \in [Clients -> 0 .. 2]

\* The places where a client reads or changes the retained frame.
Building(c) ==
  pc[c] \in {"preparing", "pushed", "submit", "flag", "give", "again", "uploaded"}

\* At most one thread is at the retained frame (RenderDevice.h:209), and the
\* list of samplers to process is not pushed to while the render thread goes
\* through it, though it does so with and without the mutex.
FrameExclusive ==
  /\ \A c, d \in Clients : Building(c) /\ Building(d) => c = d
  /\ render \in {"execute", "executeNoPresent"} =>
       \A c \in Clients : ~ Building(c)
  /\ render \in {"flip", "flipNoPresent"} =>
       \A c \in Clients : pc[c] # "submit" \/ back[c] # "again"

\* The assertion of SubmitRenderFrame (RenderDevice.cpp:2348): a frame is not
\* submitted while another is pending, by whichever thread.
SubmittedOnce == \A c \in Clients : pc[c] = "submit" => ~ pending

\* When UploadTexture returns, the render thread has gone twice through the
\* samplers since this one was pushed (RenderDevice.cpp:2145-2146).
UploadProcessed == \A c \in Clients : pc[c] = "uploaded" => flips[c] = 2

\* Frames are handed over one at a time, and each is executed once, as it was
\* when it was handed over.
HandOff == INSTANCE FrameHandOff WITH put <- built, got <- shown
HandOffSpec == HandOff!Spec

\* A frame that was handed over is executed, unless the player is being closed
\* or the surface was lost (RenderDevice.cpp:590 leaves the frame pending).
PendingExecuted ==
  pending ~> \/ ~ pending
             \/ losses > 0
             \/ pc[Main] \in {"left", "suspending", "deleting", "joining", "closed"}

\* A preloading task's call of UploadTexture returns.
UploadsEnd == \A c \in Loaders : pc[c] = "upload" ~> pc[c] = "uploaded"

\* So does the logic thread's, when it tries again what failed: player.cpp:601,
\* "perform a retry since more memory is available now".
RetryEnds == pc[Main] = "upload" ~> pc[Main] = "uploaded"

\* The destruction of the device ends, whatever frame is under way.
CloseEnds == pc[Main] = "left" ~> pc[Main] = "closed"

\* RenderDevice.cpp:1608: rendering is suspended before anything that it could
\* use is deleted.
RenderingSuspended ==
  pc[Main] \in {"deleting", "joining"} =>
    render \notin {"lock", "lockNoPresent", "execute", "executeNoPresent", "flip",
                   "flipNoPresent"}
=============================================================================

------------------- MODULE FramePipelineProofs -------------------
(***************************************************************************)
(* Proofs about FramePipeline, for any number of preloading tasks, frames  *)
(* and losses of the surface, whether semaphores count on or not.          *)
(***************************************************************************)
EXTENDS FramePipeline, TLAPS

Submitting == {"submit", "flag", "give", "wake", "await"}
LoaderLabels == {"idle", "queued", "upload", "again", "uploaded", "leave", "loaded"} \cup Submitting
MainLabels == Labels \ {"idle", "again", "uploaded", "loaded"}
RenderLabels == {"starting", "head", "waiting", "woken", "checked", "lock",
                 "lockNoPresent", "execute", "executeNoPresent", "flip",
                 "flipNoPresent", "stopping", "ended"}

\* Where each thread can be.
Places ==
  /\ pc \in [Clients -> LoaderLabels \cup MainLabels]
  /\ pc[Main] \in MainLabels
  /\ \A l \in Loaders : pc[l] \in LoaderLabels
  /\ back \in [Clients -> {"idle", "ready", "again", "uploaded", "preparing"}]
  /\ pc[Main] \in Submitting => back[Main] \in {"ready", "preparing"}
  /\ \A l \in Loaders : pc[l] \in Submitting => back[l] \in {"again", "uploaded"}
  /\ render \in RenderLabels

Ranges ==
  /\ owner \in Clients \cup {Render, None} /\ pool \in Clients \cup {None}
  /\ failed \subseteq Loaders /\ losses \in 0..MaxLosses
  /\ sem \in Nat /\ built \in Nat /\ shown \in Nat /\ retained \in Nat
  /\ flips \in [Clients -> 0..2]

\* The frame's mutex, and the one that lets one task at a time load a texture.
MainOwning == {"constructing", "init", "ready", "retry", "queued", "upload", "leave",
               "enter", "preparing", "pushed", "submit", "flag", "give"}
LoaderOwning == {"submit", "flag", "give", "again", "uploaded"}
LoaderPooled == {"upload", "again", "uploaded", "leave"} \cup Submitting

Locks ==
  /\ pc[Main] \in MainOwning => owner = Main
  /\ \A l \in Loaders : pc[l] \in LoaderOwning => owner = l
  /\ render \in {"execute", "executeNoPresent", "flipNoPresent"} => owner = Render
  /\ \A l \in Loaders : pc[l] \in LoaderPooled => pool = l

\* The tasks run while the logic thread waits for the thread pool, and the
\* semaphore of the device's start and end is not released at 1.
Phases ==
  /\ \A l \in Loaders : pc[l] \notin {"idle", "loaded"} => pc[Main] = "pool"
  /\ ready \in {0, 1}
  /\ ready = 1 => pc[Main] \in {"constructing", "joining"}
  /\ render = "starting" => pc[Main] = "constructing" /\ ready = 0
  /\ render = "ended" => pc[Main] \in {"joining", "closed"} /\ ready = 0
  /\ alive \in BOOLEAN

\* Before the game loop every frame is submitted without being presented, and
\* the semaphore is exact: it is 1, or the render thread was woken, only while
\* the one client that submitted a frame waits for it.
Early ==
  \/ pc[Main] \in {"constructing", "init", "ready", "pool", "retry", "queued", "upload", "leave"}
  \/ pc[Main] \in Submitting /\ back[Main] = "ready"
Engaged == render \in {"woken", "checked", "lockNoPresent", "executeNoPresent"}
Waiting == \E c \in Clients : pc[c] = "await"

Signals ==
  Early =>
    /\ alive
    /\ render \in {"starting", "head", "waiting", "flipNoPresent"} \/ Engaged
    /\ sem \in {0, 1}
    /\ ~(sem = 1 /\ Engaged)
    /\ sem = 1 \/ Engaged => Waiting /\ pending /\ noPresent
    /\ \A c \in Clients : pc[c] \in {"flag", "give", "wake"} => pending
    /\ \A c \in Clients : pc[c] \in {"give", "wake"} => noPresent

\* A pending frame is somebody's, and which frame the retained one is.
Handing == {"flag", "give", "wake", "await"}
Running == {"pushed", "enter", "loop", "left", "suspending", "deleting", "joining", "closed"}
Filling == {"constructing", "init", "submit", "again", "preparing"}

Hands ==
  /\ pending \in BOOLEAN /\ noPresent \in BOOLEAN
  /\ pending => pc[Main] \in Running \/ \E c \in Clients : pc[c] \in Handing
  /\ render \in {"checked", "lock", "lockNoPresent", "execute", "executeNoPresent"} => pending
  /\ pending => built = shown + 1 /\ retained = built
  /\ ~pending => built = shown
  /\ \A c \in Clients : pc[c] \in Filling => retained = built + 1

\* How often the samplers were gone through since a task pushed its own.
Flipped == ~pending /\ render # "flipNoPresent"
Flips ==
  \A l \in Loaders :
    /\ pc[l] = "await" /\ Flipped => flips[l] >= 1
    /\ pc[l] = "again" => flips[l] >= 1
    /\ pc[l] \in Submitting /\ back[l] = "uploaded" => flips[l] >= 1
    /\ pc[l] = "await" /\ Flipped /\ back[l] = "uploaded" => flips[l] = 2
    /\ pc[l] = "uploaded" => flips[l] = 2

Inv == Places /\ Ranges /\ Locks /\ Phases /\ Signals /\ Hands /\ Flips

-----------------------------------------------------------------------------
(***************************************************************************)
(* Every step keeps the parts of the invariant.                            *)
(***************************************************************************)

\* Only a task uploads: the logic thread that would already owns the mutex.
LEMMA UploadByLoader ==
  ASSUME Locks, NEW c \in Clients, UploadTexture(c)
  PROVE  c \in Loaders
BY ThreadsApart DEF Clients, Locks, MainOwning, UploadTexture

\* One client at a time is in SubmitRenderFrame, the wait at its end included.
LEMMA OneSubmits ==
  ASSUME Places, Locks, Phases, NEW c \in Clients, NEW d \in Clients,
         pc[c] \in Submitting, pc[d] \in Submitting
  PROVE  c = d
BY DEF Clients, Places, Locks, LoaderPooled, Phases, Submitting

\* Threads stay where they can be: SubmitRenderFrame returns to its caller, and
\* the logic thread never gets through an upload of its own.
LEMMA PlacesKept ==
  ASSUME Places, Locks, [Next]_vars
  PROVE  Places'
<1> USE ThreadsApart, UploadByLoader DEF Goto, Clients, Places, LoaderLabels,
        MainLabels, RenderLabels, Labels, Submitting
<1>1. CASE Constructed \/ InitRenderer \/ StartPreload \/ Preloaded \/ Retry
  BY <1>1 DEF Constructed, InitRenderer, StartPreload, Preloaded, Retry, Call
<1>2. CASE GameLoop \/ EnterLoop \/ PrepareFrame \/ PrerenderPass \/ PushFrame \/
          PushWake \/ LeaveLoop
  BY <1>2 DEF GameLoop, EnterLoop, PrepareFrame, PrerenderPass, PushFrame, PushWake,
     LeaveLoop, Released, Call, MayPrepare
<1>3. CASE Suspend \/ SuspendWake \/ DeleteResources \/ Join
  BY <1>3 DEF Suspend, SuspendWake, DeleteResources, Join, Released, Deleted
<1>4. CASE RenderInit \/ LoopHead \/ Acquire \/ Wake \/ ReadNoPresent \/ SurfaceLost
  BY <1>4 DEF RenderInit, LoopHead, Acquire, Wake, ReadNoPresent, SurfaceLost, Woken,
     RenderGoto
<1>5. CASE RenderLock \/ Execute \/ ExecuteNoPresent \/ Flip \/ Shutdown
  BY <1>5 DEF RenderLock, Execute, ExecuteNoPresent, Flip, Shutdown, RenderMayLock,
     KeepsLock, RenderGoto
<1>6. ASSUME NEW c \in Clients, SubmitMark(c) \/ SubmitFlag(c) \/ SubmitUnlock(c) \/
             SubmitWake(c) \/ SubmitReturn(c)
      PROVE  Places'
  BY <1>6 DEF SubmitMark, SubmitFlag, SubmitUnlock, SubmitWake, SubmitReturn, Released,
     Flag, Wakes, Taken
<1>7. ASSUME NEW c \in Clients, LoadImage(c) \/ UploadTexture(c) \/ UploadAgain(c) \/
             UploadReturn(c) \/ LeaveImage(c)
      PROVE  Places'
  BY <1>7 DEF LoadImage, UploadTexture, UploadAgain, UploadReturn, LeaveImage, Call,
     PoolFree, MayFail
<1>8. CASE UNCHANGED vars
  BY <1>8 DEF vars
<1> QED
  BY <1>1, <1>2, <1>3, <1>4, <1>5, <1>6, <1>7, <1>8
     DEF Next, MainWork, RenderStep, Submit, Preload, Spin, Terminated

\* The other variables stay in their ranges.
LEMMA RangesKept ==
  ASSUME Ranges, [Next]_vars
  PROVE  Ranges'
<1> USE DEF sync, frames, Ranges, Clients
<1>1. CASE Constructed \/ InitRenderer \/ StartPreload \/ Preloaded \/ Retry
  BY <1>1 DEF Constructed, InitRenderer, StartPreload, Preloaded, Retry, Call
<1>2. CASE GameLoop \/ EnterLoop \/ PrepareFrame \/ PrerenderPass \/ PushFrame \/
          PushWake \/ LeaveLoop
  BY <1>2 DEF GameLoop, EnterLoop, PrepareFrame, PrerenderPass, PushFrame, PushWake,
     LeaveLoop, Released, Call, MayPrepare
<1>3. CASE Suspend \/ SuspendWake \/ DeleteResources \/ Join
  BY <1>3 DEF Suspend, SuspendWake, DeleteResources, Join, Released, Deleted
<1>4. CASE RenderInit
  BY <1>4 DEF RenderInit, RenderGoto
<1>5. CASE LoopHead
  BY <1>5 DEF LoopHead, RenderGoto
<1>6. CASE Acquire
  BY <1>6 DEF Acquire, RenderGoto
<1>7. CASE Wake
  BY <1>7 DEF Wake, Woken, RenderGoto
<1>8. CASE ReadNoPresent
  BY <1>8 DEF ReadNoPresent, RenderGoto
<1>9. CASE SurfaceLost
  BY <1>9, BoundsNat DEF SurfaceLost, RenderGoto
<1>10. CASE RenderLock
  BY <1>10 DEF RenderLock, RenderMayLock, RenderGoto
<1>11. CASE Execute
  BY <1>11 DEF Execute, RenderGoto
<1>12. CASE ExecuteNoPresent
  BY <1>12 DEF ExecuteNoPresent, KeepsLock, RenderGoto
<1>13. CASE Flip
  BY <1>13 DEF Flip, RenderGoto
<1>14. CASE Shutdown
  BY <1>14 DEF Shutdown, RenderGoto
<1>15. ASSUME NEW c \in Clients, SubmitMark(c)
      PROVE  Ranges'
  BY <1>15 DEF SubmitMark
<1>16. ASSUME NEW c \in Clients, SubmitFlag(c)
      PROVE  Ranges'
  BY <1>16 DEF SubmitFlag, Flag
<1>17. ASSUME NEW c \in Clients, SubmitUnlock(c)
      PROVE  Ranges'
  BY <1>17 DEF SubmitUnlock
<1>18. ASSUME NEW c \in Clients, SubmitWake(c)
      PROVE  Ranges'
  BY <1>18 DEF SubmitWake, Released, Wakes
<1>19. ASSUME NEW c \in Clients, SubmitReturn(c)
      PROVE  Ranges'
  BY <1>19 DEF SubmitReturn, Taken
<1>20. ASSUME NEW c \in Clients, LoadImage(c)
      PROVE  Ranges'
  BY <1>20 DEF LoadImage, PoolFree, MayFail
<1>21. ASSUME NEW c \in Clients, UploadTexture(c)
      PROVE  Ranges'
  BY <1>21 DEF UploadTexture, Call
<1>22. ASSUME NEW c \in Clients, UploadAgain(c)
      PROVE  Ranges'
  BY <1>22 DEF UploadAgain, Call
<1>23. ASSUME NEW c \in Clients, UploadReturn(c)
      PROVE  Ranges'
  BY <1>23 DEF UploadReturn
<1>24. ASSUME NEW c \in Clients, LeaveImage(c)
      PROVE  Ranges'
  BY <1>24 DEF LeaveImage
<1>25. CASE UNCHANGED vars
  BY <1>25 DEF vars
<1> QED
  BY <1>1, <1>2, <1>3, <1>4, <1>5, <1>6, <1>7, <1>8, <1>9, <1>10, <1>11, <1>12, <1>13,
     <1>14, <1>15, <1>16, <1>17, <1>18, <1>19, <1>20, <1>21, <1>22, <1>23, <1>24, <1>25
     DEF Next, MainWork, RenderStep, Submit, Preload, Spin, Terminated

\* Whoever is at the frame owns its mutex: it is given up and taken where the
\* thread enters or leaves these places.
LEMMA LocksKept ==
  ASSUME Places, Locks, Phases, [Next]_vars
  PROVE  Locks'
<1> USE ThreadsApart DEF Goto, sync, Clients, Places, MainLabels, Submitting, Locks,
        Phases, MainOwning, LoaderOwning, LoaderPooled
<1>1. CASE Constructed \/ InitRenderer \/ StartPreload \/ Preloaded \/ Retry
  BY <1>1 DEF Constructed, InitRenderer, StartPreload, Preloaded, Retry, Call
<1>2. CASE GameLoop \/ EnterLoop \/ PrepareFrame \/ PrerenderPass \/ PushFrame \/
          PushWake \/ LeaveLoop
  BY <1>2 DEF GameLoop, EnterLoop, PrepareFrame, PrerenderPass, PushFrame, PushWake,
     LeaveLoop, Released, Call, MayPrepare
<1>3. CASE Suspend \/ SuspendWake \/ DeleteResources \/ Join
  BY <1>3 DEF Suspend, SuspendWake, DeleteResources, Join, Released, Deleted
<1>4. CASE RenderInit \/ LoopHead \/ Acquire \/ Wake \/ ReadNoPresent \/ SurfaceLost
  BY <1>4 DEF RenderInit, LoopHead, Acquire, Wake, ReadNoPresent, SurfaceLost, Woken,
     RenderGoto
<1>5. CASE RenderLock \/ Execute \/ ExecuteNoPresent \/ Flip \/ Shutdown
  BY <1>5 DEF RenderLock, Execute, ExecuteNoPresent, Flip, Shutdown, RenderMayLock,
     KeepsLock, RenderGoto
<1>6. ASSUME NEW c \in Clients, SubmitMark(c) \/ SubmitFlag(c) \/ SubmitUnlock(c) \/
             SubmitWake(c) \/ SubmitReturn(c)
      PROVE  Locks'
  BY <1>6 DEF SubmitMark, SubmitFlag, SubmitUnlock, SubmitWake, SubmitReturn, Released,
     Flag, Wakes, Taken
<1>7. ASSUME NEW c \in Clients, LoadImage(c) \/ UploadTexture(c) \/ UploadAgain(c) \/
             UploadReturn(c) \/ LeaveImage(c)
      PROVE  Locks'
  BY <1>7 DEF LoadImage, UploadTexture, UploadAgain, UploadReturn, LeaveImage, Call,
     PoolFree, MayFail
<1>8. CASE UNCHANGED vars
  BY <1>8 DEF vars
<1> QED
  BY <1>1, <1>2, <1>3, <1>4, <1>5, <1>6, <1>7, <1>8
     DEF Next, MainWork, RenderStep, Submit, Preload, Spin, Terminated

\* The tasks are done when the logic thread goes on, and the render thread only
\* ends when the logic thread waits for that.
LEMMA PhasesKept ==
  ASSUME Places, Phases, Signals, [Next]_vars
  PROVE  Phases'
<1> USE DEF Goto, sync, Clients, Places, Phases, Signals, Early, Waiting
<1>1. CASE Constructed \/ InitRenderer \/ StartPreload \/ Preloaded \/ Retry
  BY <1>1 DEF Constructed, InitRenderer, StartPreload, Preloaded, Retry, Call
<1>2. CASE GameLoop \/ EnterLoop \/ PrepareFrame \/ PrerenderPass \/ PushFrame \/
          PushWake \/ LeaveLoop
  BY <1>2 DEF GameLoop, EnterLoop, PrepareFrame, PrerenderPass, PushFrame, PushWake,
     LeaveLoop, Released, Call, MayPrepare
<1>3. CASE Suspend
  BY <1>3 DEF Suspend
<1>4. CASE SuspendWake
  BY <1>4 DEF SuspendWake, Released
<1>5. CASE DeleteResources
  BY <1>5 DEF DeleteResources, Deleted
<1>6. CASE Join
  BY <1>6 DEF Join
<1>7. CASE RenderInit \/ LoopHead \/ Acquire \/ Wake \/ ReadNoPresent \/ SurfaceLost
  BY <1>7 DEF RenderInit, LoopHead, Acquire, Wake, ReadNoPresent, SurfaceLost, Woken,
     RenderGoto
<1>8. CASE RenderLock
  BY <1>8 DEF RenderLock, RenderMayLock, RenderGoto
<1>9. CASE Execute
  BY <1>9 DEF Execute, RenderGoto
<1>10. CASE ExecuteNoPresent
  BY <1>10 DEF ExecuteNoPresent, KeepsLock, RenderGoto
<1>11. CASE Flip
  BY <1>11 DEF Flip, RenderGoto
<1>12. CASE Shutdown
  BY <1>12 DEF Shutdown, RenderGoto
<1>13. ASSUME NEW c \in Clients, SubmitMark(c) \/ SubmitFlag(c) \/ SubmitUnlock(c) \/
             SubmitWake(c) \/ SubmitReturn(c)
      PROVE  Phases'
  BY <1>13 DEF SubmitMark, SubmitFlag, SubmitUnlock, SubmitWake, SubmitReturn, Released,
     Flag, Wakes, Taken
<1>14. ASSUME NEW c \in Clients, LoadImage(c) \/ UploadTexture(c) \/ UploadAgain(c) \/
             UploadReturn(c) \/ LeaveImage(c)
      PROVE  Phases'
  BY <1>14 DEF LoadImage, UploadTexture, UploadAgain, UploadReturn, LeaveImage, Call,
     PoolFree, MayFail
<1>15. CASE UNCHANGED vars
  BY <1>15 DEF vars
<1> QED
  BY <1>1, <1>2, <1>3, <1>4, <1>5, <1>6, <1>7, <1>8, <1>9, <1>10, <1>11, <1>12, <1>13,
     <1>14, <1>15
     DEF Next, MainWork, RenderStep, Submit, Preload, Spin, Terminated

\* Before the game loop a submission wakes the render thread once, and is the only
\* reason for it to wake.
LEMMA SignalsKept ==
  ASSUME Places, Locks, Phases, Signals, [Next]_vars
  PROVE  Signals'
<1> USE OneSubmits DEF Goto, sync, Clients, Places, MainLabels, Submitting, Phases,
        Signals, Early, Engaged, Waiting
<1>1. CASE Constructed \/ InitRenderer \/ StartPreload \/ Preloaded \/ Retry
  BY <1>1 DEF Constructed, InitRenderer, StartPreload, Preloaded, Retry, Call
<1>2. CASE GameLoop \/ EnterLoop \/ PrepareFrame \/ PrerenderPass \/ PushFrame \/
          PushWake \/ LeaveLoop
  BY <1>2 DEF GameLoop, EnterLoop, PrepareFrame, PrerenderPass, PushFrame, PushWake,
     LeaveLoop, Released, Call, MayPrepare
<1>3. CASE Suspend \/ SuspendWake \/ DeleteResources \/ Join
  BY <1>3 DEF Suspend, SuspendWake, DeleteResources, Join, Released, Deleted
<1>4. CASE RenderInit \/ LoopHead \/ Acquire \/ Wake \/ ReadNoPresent \/ SurfaceLost
  BY <1>4 DEF RenderInit, LoopHead, Acquire, Wake, ReadNoPresent, SurfaceLost, Woken,
     RenderGoto
<1>5. CASE RenderLock \/ Execute \/ ExecuteNoPresent \/ Flip \/ Shutdown
  BY <1>5 DEF RenderLock, Execute, ExecuteNoPresent, Flip, Shutdown, RenderMayLock,
     KeepsLock, RenderGoto
<1>6. ASSUME NEW c \in Clients, SubmitMark(c) \/ SubmitFlag(c) \/ SubmitUnlock(c) \/
             SubmitWake(c) \/ SubmitReturn(c)
      PROVE  Signals'
  BY <1>6 DEF SubmitMark, SubmitFlag, SubmitUnlock, SubmitWake, SubmitReturn, Released,
     Flag, Wakes, Taken
<1>7. ASSUME NEW c \in Clients, LoadImage(c) \/ UploadTexture(c) \/ UploadAgain(c) \/
             UploadReturn(c) \/ LeaveImage(c)
      PROVE  Signals'
  BY <1>7 DEF LoadImage, UploadTexture, UploadAgain, UploadReturn, LeaveImage, Call,
     PoolFree, MayFail
<1>8. CASE UNCHANGED vars
  BY <1>8 DEF vars
<1> QED
  BY <1>1, <1>2, <1>3, <1>4, <1>5, <1>6, <1>7, <1>8
     DEF Next, MainWork, RenderStep, Submit, Preload, Spin, Terminated

\* A frame is pending from the mark or the push to its execution, and the retained
\* frame is the next one before and that one during this time.
LEMMA HandsKept ==
  ASSUME Places, Locks, Phases, Hands, [Next]_vars
  PROVE  Hands'
<1> USE DEF Goto, sync, frames, Clients, Places, LoaderLabels, Locks, Phases,
        LoaderPooled, Hands, Handing, Running, Filling
<1>1. CASE Constructed \/ InitRenderer \/ StartPreload \/ Preloaded \/ Retry
  BY <1>1 DEF Constructed, InitRenderer, StartPreload, Preloaded, Retry, Call
<1>2. CASE GameLoop
  BY <1>2 DEF GameLoop, Released
<1>3. CASE EnterLoop
  BY <1>3 DEF EnterLoop
<1>4. CASE PrepareFrame
  BY <1>4 DEF PrepareFrame, MayPrepare
<1>5. CASE PrerenderPass
  BY <1>5 DEF PrerenderPass, Call
<1>6. CASE PushFrame
  BY <1>6 DEF PushFrame
<1>7. CASE PushWake
  BY <1>7 DEF PushWake, Released
<1>8. CASE LeaveLoop
  BY <1>8 DEF LeaveLoop
<1>9. CASE Suspend \/ SuspendWake \/ DeleteResources \/ Join
  BY <1>9 DEF Suspend, SuspendWake, DeleteResources, Join, Released, Deleted
<1>10. CASE RenderInit
  BY <1>10 DEF RenderInit, RenderGoto
<1>11. CASE LoopHead
  BY <1>11 DEF LoopHead, RenderGoto
<1>12. CASE Acquire
  BY <1>12 DEF Acquire, RenderGoto
<1>13. CASE Wake
  BY <1>13 DEF Wake, Woken, RenderGoto
<1>14. CASE ReadNoPresent
  BY <1>14 DEF ReadNoPresent, RenderGoto
<1>15. CASE SurfaceLost
  BY <1>15 DEF SurfaceLost, RenderGoto
<1>16. CASE RenderLock
  BY <1>16 DEF RenderLock, RenderMayLock, RenderGoto
<1>17. CASE Execute
  BY <1>17 DEF Execute, RenderGoto
<1>18. CASE ExecuteNoPresent
  BY <1>18 DEF ExecuteNoPresent, KeepsLock, RenderGoto
<1>19. CASE Flip
  BY <1>19 DEF Flip, RenderGoto
<1>20. CASE Shutdown
  BY <1>20 DEF Shutdown, RenderGoto
<1>21. ASSUME NEW c \in Clients, SubmitMark(c)
      PROVE  Hands'
  BY <1>21 DEF SubmitMark
<1>22. ASSUME NEW c \in Clients, SubmitFlag(c)
      PROVE  Hands'
  BY <1>22 DEF SubmitFlag, Flag
<1>23. ASSUME NEW c \in Clients, SubmitUnlock(c)
      PROVE  Hands'
  BY <1>23 DEF SubmitUnlock
<1>24. ASSUME NEW c \in Clients, SubmitWake(c)
      PROVE  Hands'
  BY <1>24 DEF SubmitWake, Released, Wakes
<1>25. ASSUME NEW c \in Clients, SubmitReturn(c)
      PROVE  Hands'
  BY <1>25 DEF SubmitReturn, Taken
<1>26. ASSUME NEW c \in Clients, LoadImage(c) \/ UploadTexture(c) \/ UploadAgain(c) \/
             UploadReturn(c) \/ LeaveImage(c)
      PROVE  Hands'
  BY <1>26 DEF LoadImage, UploadTexture, UploadAgain, UploadReturn, LeaveImage, Call,
     PoolFree, MayFail
<1>27. CASE UNCHANGED vars
  BY <1>27 DEF vars
<1> QED
  BY <1>1, <1>2, <1>3, <1>4, <1>5, <1>6, <1>7, <1>8, <1>9, <1>10, <1>11, <1>12, <1>13,
     <1>14, <1>15, <1>16, <1>17, <1>18, <1>19, <1>20, <1>21, <1>22, <1>23, <1>24, <1>25,
     <1>26, <1>27
     DEF Next, MainWork, RenderStep, Submit, Preload, Spin, Terminated

\* Between two returns to a task the render thread has flipped.
LEMMA FlipsKept ==
  ASSUME Places, Ranges, Locks, Phases, Signals, Flips, [Next]_vars
  PROVE  Flips'
<1> USE ThreadsApart DEF Goto, sync, frames, Clients, Places, Submitting, Ranges, Locks,
        Phases, Signals, Early, Engaged, Flips, Flipped
<1>1. CASE Constructed \/ InitRenderer \/ StartPreload \/ Preloaded \/ Retry
  BY <1>1 DEF Constructed, InitRenderer, StartPreload, Preloaded, Retry, Call
<1>2. CASE GameLoop \/ EnterLoop \/ PrepareFrame \/ PrerenderPass \/ PushFrame \/
          PushWake \/ LeaveLoop
  BY <1>2 DEF GameLoop, EnterLoop, PrepareFrame, PrerenderPass, PushFrame, PushWake,
     LeaveLoop, Released, Call, MayPrepare
<1>3. CASE Suspend \/ SuspendWake \/ DeleteResources \/ Join
  BY <1>3 DEF Suspend, SuspendWake, DeleteResources, Join, Released, Deleted
<1>4. CASE RenderInit \/ LoopHead \/ Acquire \/ Wake \/ ReadNoPresent \/ SurfaceLost
  BY <1>4 DEF RenderInit, LoopHead, Acquire, Wake, ReadNoPresent, SurfaceLost, Woken,
     RenderGoto
<1>5. CASE RenderLock \/ Execute \/ ExecuteNoPresent \/ Flip \/ Shutdown
  BY <1>5 DEF RenderLock, Execute, ExecuteNoPresent, Flip, Shutdown, RenderMayLock,
     KeepsLock, RenderGoto
<1>6. ASSUME NEW c \in Clients, SubmitMark(c) \/ SubmitFlag(c) \/ SubmitUnlock(c) \/
             SubmitWake(c) \/ SubmitReturn(c)
      PROVE  Flips'
  BY <1>6 DEF SubmitMark, SubmitFlag, SubmitUnlock, SubmitWake, SubmitReturn, Released,
     Flag, Wakes, Taken
<1>7. ASSUME NEW c \in Clients, LoadImage(c) \/ UploadTexture(c) \/ UploadAgain(c) \/
             UploadReturn(c) \/ LeaveImage(c)
      PROVE  Flips'
  BY <1>7 DEF LoadImage, UploadTexture, UploadAgain, UploadReturn, LeaveImage, Call,
     PoolFree, MayFail
<1>8. CASE UNCHANGED vars
  BY <1>8 DEF vars
<1> QED
  BY <1>1, <1>2, <1>3, <1>4, <1>5, <1>6, <1>7, <1>8
     DEF Next, MainWork, RenderStep, Submit, Preload, Spin, Terminated

-----------------------------------------------------------------------------
\* The invariant holds from the device's construction to its destruction.
THEOREM Invariance == Spec => []Inv
<1>1. Init => Inv
  <2> SUFFICES ASSUME Init PROVE Inv
    OBVIOUS
  <2> USE ThreadsApart DEF Init, Clients
  <2>1. Places /\ Locks
    BY DEF Places, LoaderLabels, MainLabels, RenderLabels, Labels, Submitting, Locks,
           MainOwning, LoaderOwning, LoaderPooled
  <2>2. Ranges
    BY BoundsNat DEF Ranges
  <2>3. Phases
    BY DEF Phases
  <2>4. Signals
    BY DEF Signals, Engaged
  <2>5. Hands
    <3>1. ~pending /\ pending \in BOOLEAN /\ noPresent \in BOOLEAN
      OBVIOUS
    <3>2. render = "starting" /\ built = shown /\ retained = built + 1
      OBVIOUS
    <3> QED BY <3>1, <3>2 DEF Hands
  <2>6. Flips
    BY DEF Flips, Submitting
  <2> QED BY <2>1, <2>2, <2>3, <2>4, <2>5, <2>6 DEF Inv
<1>2. Inv /\ [Next]_vars => Inv'
  BY PlacesKept, RangesKept, LocksKept, PhasesKept, SignalsKept, HandsKept, FlipsKept DEF Inv
<1> QED BY <1>1, <1>2, PTL DEF Spec

(***************************************************************************)
(* The types of the variables; the semaphore of the device's start and end *)
(* is never released while it is at 1.                                     *)
(***************************************************************************)
THEOREM TypesKept == Spec => []TypeOK
<1>1. Inv => TypeOK
  BY DEF Inv, Places, LoaderLabels, MainLabels, RenderLabels, Labels, Submitting, Ranges,
         Phases, Hands, TypeOK
<1> QED BY <1>1, Invariance, PTL

(***************************************************************************)
(* At most one thread is at the retained frame, and no sampler is pushed   *)
(* while the render thread goes through them, for any number of tasks.     *)
(***************************************************************************)
THEOREM OneAtTheFrame == Spec => []FrameExclusive
<1>1. Inv => FrameExclusive
  <2> SUFFICES ASSUME Inv PROVE FrameExclusive
    OBVIOUS
  <2> USE ThreadsApart DEF Inv, Clients
  <2>1. ASSUME NEW c \in Clients, Building(c)
        PROVE  owner = c
    BY <2>1 DEF Building, Places, LoaderLabels, MainLabels, Labels, Submitting, Locks,
               MainOwning, LoaderOwning
  <2>2. ASSUME NEW c \in Clients, pc[c] = "submit", back[c] = "again"
        PROVE  render \notin {"flip", "flipNoPresent"}
    <3>1. c \in Loaders /\ Early /\ owner = c
      BY <2>2 DEF Places, Submitting, Phases, Early, Locks, LoaderOwning
    <3> QED BY <3>1 DEF Signals, Engaged, Locks
  <2> QED BY <2>1, <2>2 DEF FrameExclusive, Locks
<1> QED BY <1>1, Invariance, PTL

(***************************************************************************)
(* The assertion of SubmitRenderFrame, for any number of tasks: no frame   *)
(* is submitted while another is pending.                                  *)
(***************************************************************************)
THEOREM NonePendingAtSubmit == Spec => []SubmittedOnce
<1>1. Inv => SubmittedOnce
  <2> SUFFICES ASSUME Inv, NEW c \in Clients, pc[c] = "submit", pending
               PROVE  FALSE
    BY DEF SubmittedOnce
  <2> USE DEF Inv
  <2>1. \A d \in Clients : pc[d] \notin Handing
    BY OneSubmits DEF Handing, Submitting
  <2>2. pc[Main] \notin Running
    BY DEF Phases, Running, Clients
  <2> QED BY <2>1, <2>2 DEF Hands
<1> QED BY <1>1, Invariance, PTL

(***************************************************************************)
(* When UploadTexture returns the texture was uploaded: the render thread  *)
(* went twice through the samplers since it was pushed.                    *)
(***************************************************************************)
THEOREM UploadedAtReturn == Spec => []UploadProcessed
<1>1. Inv => UploadProcessed
  BY DEF Inv, Places, MainLabels, Flips, Clients, UploadProcessed
<1> QED BY <1>1, Invariance, PTL

(***************************************************************************)
(* The pipeline implements the hand over of frames one by one: none is     *)
(* lost, executed twice or changed once it was handed over.                *)
(***************************************************************************)
THEOREM HandsOver == Spec => HandOffSpec
<1>1. Init => HandOff!Init
  BY DEF Init, HandOff!Init
<1>2. Inv /\ [Next]_vars => [HandOff!Next]_(HandOff!vars)
  <2> SUFFICES ASSUME Inv, [Next]_vars
               PROVE  [HandOff!Next]_(HandOff!vars)
    OBVIOUS
  <2>1. ASSUME built' = built + 1, shown' = shown, ~pending
        PROVE  HandOff!Put
    BY <2>1 DEF Inv, Hands, HandOff!Put
  <2>2. ASSUME NEW c \in Clients, SubmitMark(c)
        PROVE  HandOff!Put
    <3>1. ~pending
      BY <2>2, OneSubmits DEF Inv, SubmitMark, Hands, Handing, Running, Submitting,
                              Phases, Clients
    <3> QED BY <2>1, <2>2, <3>1 DEF SubmitMark
  <2>3. CASE PushFrame
    <3>1. ~pending
      BY <2>3 DEF Inv, PushFrame, Hands, Handing, Running, Phases, Clients
    <3> QED BY <2>1, <2>3, <3>1 DEF PushFrame, HandOff!Next
  <2>4. CASE Execute \/ ExecuteNoPresent
    <3>1. shown' = built /\ built' = built /\ built = shown + 1
      BY <2>4 DEF Inv, Hands, Execute, ExecuteNoPresent
    <3> QED BY <3>1 DEF Inv, Ranges, HandOff!Next, HandOff!Get
  <2>5. CASE UNCHANGED <<built, shown>>
    BY <2>5 DEF HandOff!vars
  <2> QED
    BY <2>2, <2>3, <2>4, <2>5 DEF HandOff!Next, Next, MainWork, RenderStep, Submit,
       Preload, Spin, Terminated, vars, frames, Constructed, InitRenderer,
       StartPreload, Preloaded, Retry, GameLoop, EnterLoop, PrepareFrame,
       PrerenderPass, PushWake, LeaveLoop, Suspend, SuspendWake, DeleteResources,
       Join, RenderInit, LoopHead, Acquire, Wake, ReadNoPresent, SurfaceLost,
       RenderLock, Flip, Shutdown, SubmitFlag, SubmitUnlock, SubmitWake,
       SubmitReturn, LoadImage, UploadTexture, UploadAgain, UploadReturn, LeaveImage
<1> QED BY <1>1, <1>2, Invariance, PTL DEF Spec, HandOffSpec, HandOff!Spec
=============================================================================

---------------------------- MODULE FrameBuffer ----------------------------
(***************************************************************************)
(* The handle table of the host renderer (class FrameBuffer in            *)
(* libOpenglRender/FrameBuffer-mainWindown.cpp) and the per-thread         *)
(* RenderThreadInfo it reads and writes.                                   *)
(*                                                                         *)
(* Every FrameBuffer method below takes m_lock for its whole body, so      *)
(* each one is a single atomic action.  postImpl is the exception: its     *)
(* "if (needLockAndBind) { AutoLock mutex(m_lock); }" releases the lock at *)
(* the closing brace, so its lookup and its use of the colour buffer are   *)
(* two steps (PostLookup, PostSend) that other m_lock holders can split.   *)
(*                                                                         *)
(* Data is abstracted to what the properties tell apart: a resource is     *)
(* its handle, a colour buffer is its reference count.  The build has the  *)
(* RefCountPipe feature off, the delayed-close list is never filled (its   *)
(* push_back is commented out), so closedTs, the "opened" flag and the    *)
(* delayed-close sweep have no effect on the handle table and are left    *)
(* out; mOutstandingColorBufferDestroys is only fed with RefCountPipe on,  *)
(* so sweepColorBuffersLocked is a no-op here.                             *)
(***************************************************************************)
EXTENDS Integers, FiniteSets, Bags, BagsExt, FiniteSetsExt, Functions, TLC

CONSTANTS
    Threads,         \* render-thread slots (pthread ids), model values
    PuidValues,      \* guest process ids a thread may declare; 0 = legacy
    Displays,        \* display ids of subWindowsMap
    MaxHandle,       \* largest handle id (stands for 2^32 - 1)
    HandleWraps,     \* whether s_nextHandle may wrap around in a behaviour
    MaxRef,          \* bound: no open/attach beyond this reference count
    RefBits,         \* width of ColorBufferRef::refcount (uint32_t in the build)
    GuestApiLevel,   \* emugl::getAvdInfo api level (opengles.cpp sets 30)
    NoDelayClose,    \* feature NoDelayCloseColorBuffer
    ExplicitHandles, \* whether guests use createColorBufferWithHandle
    BindCalls,       \* whether guests issue rcMakeCurrent (bindContext)
    Images           \* EGLImage handles the driver may return (model values)

ASSUME MaxHandle \in Nat \ {0} /\ MaxRef \in Nat /\ RefBits \in Nat \ {0}
ASSUME MaxRef < 2^RefBits - 1

NoHandle == 0
Handles  == 1..MaxHandle
Puids    == PuidValues \ {0}
RefMod   == 2^RefBits
NoPost   == <<>>
NoImage  == 0      \* EGL_NO_IMAGE_KHR
NoPendImg == -1
NoDisplay == "nodisplay"  \* no live RendererWindowAttri behind a pointer

VARIABLES
    nextHandle,    \* s_nextHandle
    contexts,      \* keys of m_contexts
    windows,       \* m_windows: surface handle -> attached colour buffer (0 none)
    colorbuffers,  \* m_colorbuffers: colour buffer handle -> refcount
    buffers,       \* keys of m_buffers
    procWin,       \* m_procOwnedWindowSurfaces
    procCb,        \* m_procOwnedColorBuffers (a multiset per process)
    procCtx,       \* m_procOwnedRenderContext
    pthreadCb,     \* m_pthreadOwnedColorBuffers
    tinfo,         \* RenderThreadInfo: m_puid, m_contextSet, m_windowSet
    displays,      \* keys of subWindowsMap
    hidden,        \* displays whose RendererWindowAttri has disableShow set
    eglImages,     \* EGLImages alive in the driver
    procImg,       \* m_procOwnedEGLImages
    imgPending,    \* an EGLImage a thread's createClientImage has created
                   \* and not yet recorded under m_lock (NoPendImg: none)
    postPending,   \* <<display, colour buffer>> a thread's unlocked postImpl
                   \* has looked up and not yet handed to the post worker
    attriPtr,      \* m_window_attri_ptr: the display whose window-attribute
                   \* slot the last postImpl found (a member, not a local);
                   \* NoDisplay once DeleteWindowAttri has emptied that slot
    postWorker     \* the display whose RendererWindowAttri postWorkerFunc
                   \* has read from the slot and is drawing on (NoDisplay: idle)

fbVars == <<nextHandle, contexts, windows, colorbuffers, buffers, procWin,
            procCb, procCtx, pthreadCb, tinfo, displays, postPending,
            hidden, eglImages, procImg, imgPending, attriPtr, postWorker>>

\* m_puid, m_contextSet, m_windowSet, and the handles of currContext,
\* currDrawSurf and currReadSurf (0 when none is bound).
ThreadInfo == [puid: PuidValues, ctxSet: SUBSET Handles, winSet: SUBSET Handles,
               currContext: Handles \cup {NoHandle},
               currDrawSurf: Handles \cup {NoHandle},
               currReadSurf: Handles \cup {NoHandle}]

NewThreadInfo(p) == [puid |-> p, ctxSet |-> {}, winSet |-> {},
                     currContext |-> NoHandle, currDrawSurf |-> NoHandle,
                     currReadSurf |-> NoHandle]

TypeOK ==
    /\ nextHandle \in 0..MaxHandle
    /\ contexts \subseteq Handles
    /\ buffers \subseteq Handles
    /\ \E D \in SUBSET Handles : windows \in [D -> Handles \cup {NoHandle}]
    /\ \E D \in SUBSET Handles : colorbuffers \in [D -> 0..(RefMod - 1)]
    /\ procWin \in [Puids -> SUBSET Handles]
    /\ procCtx \in [Puids -> SUBSET Handles]
    /\ \A p \in Puids : IsABag(procCb[p]) /\ BagToSet(procCb[p]) \subseteq Handles
    /\ pthreadCb \in [Threads -> SUBSET Handles]
    /\ tinfo \in [Threads -> ThreadInfo]
    /\ displays \subseteq Displays
    /\ postPending \in [Threads -> (Displays \X Handles) \cup {NoPost}]
    /\ hidden \subseteq displays
    /\ eglImages \subseteq Images
    /\ procImg \in [Puids -> SUBSET (Images \cup {NoImage})]
    /\ imgPending \in [Threads -> Images \cup {NoImage, NoPendImg}]
    /\ attriPtr \in Displays \cup {NoDisplay}
    /\ postWorker \in Displays \cup {NoDisplay}

FBInit ==
    /\ nextHandle = 0
    /\ contexts = {}
    /\ windows = <<>>
    /\ colorbuffers = <<>>
    /\ buffers = {}
    /\ procWin = [p \in Puids |-> {}]
    /\ procCb = [p \in Puids |-> EmptyBag]
    /\ procCtx = [p \in Puids |-> {}]
    /\ pthreadCb = [t \in Threads |-> {}]
    /\ tinfo = [t \in Threads |-> NewThreadInfo(CHOOSE p \in PuidValues : TRUE)]
    /\ displays = {}
    /\ postPending = [t \in Threads |-> NoPost]
    /\ hidden = {}
    /\ eglImages = {}
    /\ procImg = [p \in Puids |-> {}]
    /\ imgPending = [t \in Threads |-> NoPendImg]
    /\ attriPtr = NoDisplay
    /\ postWorker = NoDisplay

-----------------------------------------------------------------------------
(* Helpers on the maps                                                     *)

\* Erase key k from map f (std::map::erase).
Erase(f, k) == Restrict(f, DOMAIN f \ {k})
\* Insert or overwrite f[k] = v.
Put(f, k, v) == (k :> v) @@ f

UsedHandles ==
    contexts \cup DOMAIN windows \cup DOMAIN colorbuffers \cup buffers

\* genHandle_locked: ++s_nextHandle, skipping 0 and every id that is a key
\* of one of the four maps.  s_nextHandle is a uint32_t: with HandleWraps
\* it wraps past MaxHandle to 0 and ids of destroyed resources are reused;
\* without it the counter is a bound of the model and stops at MaxHandle.
\* When every id is taken the loop spins forever under m_lock: the action
\* is not enabled.
ScanOrder(n, h) == (h - n - 1) % MaxHandle
Candidates(n) == IF HandleWraps THEN Handles ELSE (n + 1)..MaxHandle
\* Mutant: a scan that forgets to skip ids of m_windows.
FreeIdsSkipWindows(n) ==
    {h \in Candidates(n) : h \notin contexts \cup DOMAIN colorbuffers \cup buffers}
FreeIds(n) == {h \in Candidates(n) : h \notin UsedHandles}
CanGenHandle == FreeIds(nextHandle) # {}
\* Mutant: id = s_nextHandle++ (post-increment) instead of ++s_nextHandle.
genHandlePostIncrement == nextHandle
\* Mutant: the loop tests s_nextHandle before incrementing it, so the id
\* handed out last is handed out again once its resource is gone.
genHandleReuseFreed ==
    IF nextHandle \in Handles \ UsedHandles THEN nextHandle
    ELSE CHOOSE h \in FreeIds(nextHandle) :
            \A g \in FreeIds(nextHandle) :
                ScanOrder(nextHandle, h) <= ScanOrder(nextHandle, g)
genHandle_locked ==
    CHOOSE h \in FreeIds(nextHandle) :
        \A g \in FreeIds(nextHandle) :
            ScanOrder(nextHandle, h) <= ScanOrder(nextHandle, g)

\* closeColorBufferLocked(c, forced) as a function of the colour-buffer map.
\* The decrement is on a uint32_t: it wraps at 0.
CloseColorBufferLocked(cbs, c, forced) ==
    IF c \notin DOMAIN cbs THEN cbs
    ELSE LET r == (cbs[c] - 1) % RefMod IN
         IF r = 0 /\ (forced \/ NoDelayClose) THEN Erase(cbs, c)
         ELSE [cbs EXCEPT ![c] = r]

\* The same close applied n times (one per multiset occurrence).
RECURSIVE CloseTimes(_, _, _)
CloseTimes(cbs, c, n) ==
    IF n = 0 THEN cbs
    ELSE CloseTimes(CloseColorBufferLocked(cbs, c, FALSE), c, n - 1)

\* Whose ownership index a thread's resources go to.
Puid(t) == tinfo[t].puid
Legacy(t) == Puid(t) = 0

\* Handles a guest thread can name for a surface or a context: those its
\* process (or, legacy, its thread) created, and stale or unknown ones.
OwnWindows(t) == IF Legacy(t) THEN tinfo[t].winSet ELSE procWin[Puid(t)]
OwnContexts(t) == IF Legacy(t) THEN tinfo[t].ctxSet ELSE procCtx[Puid(t)]
WindowArgs(t) == OwnWindows(t) \cup (Handles \ DOMAIN windows)
ContextArgs(t) == OwnContexts(t) \cup (Handles \ contexts)

-----------------------------------------------------------------------------
(* Operations a render thread t performs from its rc decoder.  Each takes  *)
(* m_lock for its whole body.  Failure paths that change nothing (bad     *)
(* config, unknown handle on a use-style call) are stuttering steps and    *)
(* are not written out.                                                    *)

\* Pre-O guests (api level 1..25) start a colour buffer at refcount 1 and
\* give the creating process a reference; O+ guests start it at 0.
PreO == GuestApiLevel > 0 /\ GuestApiLevel < 26

\* createColorBufferWithHandleLocked once ColorBuffer::create succeeded.
InsertColorBuffer(t, h) ==
    /\ colorbuffers' = Put(colorbuffers, h, IF PreO THEN 1 ELSE 0)
    /\ procCb' = IF PreO /\ ~Legacy(t)
                 THEN [procCb EXCEPT ![Puid(t)] = BagAdd(@, h)] ELSE procCb
    /\ pthreadCb' = [pthreadCb EXCEPT ![t] = @ \cup {h}]

\* createColorBuffer: genHandle_locked, then the driver may fail; the
\* handle is then 0 but s_nextHandle has already moved on.
createColorBuffer(t) ==
    /\ CanGenHandle
    /\ nextHandle' = genHandle_locked
    /\ \/ InsertColorBuffer(t, genHandle_locked)
       \/ UNCHANGED <<colorbuffers, procCb, pthreadCb>>
    /\ UNCHANGED <<attriPtr, postWorker, contexts, windows, buffers, procWin, procCtx, tinfo,
                   displays, postPending,
                   hidden, eglImages, procImg, imgPending>>

\* createColorBufferWithHandle: the guest picks h.  Only a clash with another
\* colour buffer is caught (fatal: the crash reporter ends the process).
createColorBufferWithHandle(t, h) ==
    /\ ExplicitHandles
    /\ h \notin DOMAIN colorbuffers
    /\ InsertColorBuffer(t, h)
    /\ UNCHANGED <<attriPtr, postWorker, nextHandle, contexts, windows, buffers, procWin, procCtx,
                   tinfo, displays, postPending,
                   hidden, eglImages, procImg, imgPending>>

\* Mutant: refcount++ without recording the process's reference.
openColorBufferNoOwner(t, c) ==
    /\ c \in DOMAIN colorbuffers
    /\ colorbuffers[c] < MaxRef
    /\ colorbuffers' = [colorbuffers EXCEPT ![c] = (@ + 1) % RefMod]
    /\ UNCHANGED <<attriPtr, postWorker, nextHandle, contexts, windows, buffers, procWin, procCb,
                   procCtx, pthreadCb, tinfo, displays, postPending,
                   hidden, eglImages, procImg, imgPending>>

\* openColorBuffer: refcount++ and one more copy in the process's multiset.
openColorBuffer(t, c) ==
    /\ c \in DOMAIN colorbuffers
    /\ colorbuffers[c] < MaxRef
    /\ colorbuffers' = [colorbuffers EXCEPT ![c] = (@ + 1) % RefMod]
    /\ procCb' = IF Legacy(t) THEN procCb
                 ELSE [procCb EXCEPT ![Puid(t)] = BagAdd(@, c)]
    /\ UNCHANGED <<attriPtr, postWorker, nextHandle, contexts, windows, buffers, procWin, procCtx,
                   pthreadCb, tinfo, displays, postPending,
                   hidden, eglImages, procImg, imgPending>>

\* closeColorBuffer: with a puid only a handle the process opened is closed
\* (one copy); on the legacy path the close is unconditional.
closeColorBuffer(t, c) ==
    /\ \/ /\ ~Legacy(t)
          /\ CopiesIn(c, procCb[Puid(t)]) > 0
          /\ procCb' = [procCb EXCEPT ![Puid(t)] = BagRemove(@, c)]
       \/ /\ Legacy(t)
          /\ UNCHANGED procCb
    /\ colorbuffers' = CloseColorBufferLocked(colorbuffers, c, FALSE)
    /\ UNCHANGED <<attriPtr, postWorker, nextHandle, contexts, windows, buffers, procWin, procCtx,
                   pthreadCb, tinfo, displays, postPending,
                   hidden, eglImages, procImg, imgPending>>

\* createWindowSurface: a new surface with no colour buffer, owned by the
\* process or, legacy, by the thread.  On a driver failure the handle is
\* still returned to the guest, but nothing is inserted.
createWindowSurface(t) ==
    LET h == genHandle_locked IN
    /\ CanGenHandle
    /\ nextHandle' = h
    /\ \/ /\ windows' = Put(windows, h, NoHandle)
          /\ IF Legacy(t)
             THEN /\ tinfo' = [tinfo EXCEPT ![t].winSet = @ \cup {h}]
                  /\ UNCHANGED procWin
             ELSE /\ procWin' = [procWin EXCEPT ![Puid(t)] = @ \cup {h}]
                  /\ UNCHANGED tinfo
       \/ UNCHANGED <<windows, procWin, tinfo>>
    /\ UNCHANGED <<attriPtr, postWorker, contexts, colorbuffers, buffers, procCb, procCtx, pthreadCb,
                   displays, postPending,
                   hidden, eglImages, procImg, imgPending>>

\* Mutant: the surface is erased but stays in its owner's set.
DestroyWindowSurfaceKeepOwner(t, w) ==
    /\ w \in DOMAIN windows
    /\ colorbuffers' = CloseColorBufferLocked(colorbuffers, windows[w], FALSE)
    /\ windows' = Erase(windows, w)
    /\ UNCHANGED <<attriPtr, postWorker, nextHandle, contexts, buffers, procWin, procCb, procCtx,
                   pthreadCb, tinfo, displays, postPending,
                   hidden, eglImages, procImg, imgPending>>

\* DestroyWindowSurfaceLocked: close the attached colour buffer (a close of
\* handle 0 finds nothing), erase the surface and its ownership entry.
DestroyWindowSurface(t, w) ==
    /\ w \in DOMAIN windows
    /\ colorbuffers' = CloseColorBufferLocked(colorbuffers, windows[w], FALSE)
    /\ windows' = Erase(windows, w)
    /\ IF Legacy(t)
       THEN /\ tinfo' = [tinfo EXCEPT ![t].winSet = @ \ {w}]
            /\ UNCHANGED procWin
       ELSE /\ procWin' = [procWin EXCEPT ![Puid(t)] = @ \ {w}]
            /\ UNCHANGED tinfo
    /\ UNCHANGED <<attriPtr, postWorker, nextHandle, contexts, buffers, procCb, procCtx, pthreadCb,
                   displays, postPending,
                   hidden, eglImages, procImg, imgPending>>

\* Mutant: attach without closing the previously attached colour buffer.
setWindowSurfaceColorBufferNoClose(t, w, c) ==
    /\ w \in DOMAIN windows
    /\ c \in DOMAIN colorbuffers
    /\ colorbuffers[c] < MaxRef
    /\ colorbuffers' = [colorbuffers EXCEPT ![c] = (@ + 1) % RefMod]
    /\ windows' = [windows EXCEPT ![w] = c]
    /\ UNCHANGED <<attriPtr, postWorker, nextHandle, contexts, buffers, procWin, procCb, procCtx,
                   pthreadCb, tinfo, displays, postPending,
                   hidden, eglImages, procImg, imgPending>>

\* setWindowSurfaceColorBuffer: close the old attachment, then refcount++ of
\* c through the iterator found before the close.  When the close erased c
\* itself (re-attaching c, refcount 1, no-delay close) the increment writes
\* freed memory: the table is left as the close made it.
setWindowSurfaceColorBuffer(t, w, c) ==
    LET closed == IF windows[w] # NoHandle
                  THEN CloseColorBufferLocked(colorbuffers, windows[w], FALSE)
                  ELSE colorbuffers
    IN
    /\ w \in DOMAIN windows
    /\ c \in DOMAIN colorbuffers
    /\ colorbuffers[c] < MaxRef
    /\ colorbuffers' = IF c \in DOMAIN closed
                       THEN [closed EXCEPT ![c] = (@ + 1) % RefMod]
                       ELSE closed
    /\ windows' = [windows EXCEPT ![w] = c]
    /\ UNCHANGED <<attriPtr, postWorker, nextHandle, contexts, buffers, procWin, procCb, procCtx,
                   pthreadCb, tinfo, displays, postPending,
                   hidden, eglImages, procImg, imgPending>>

\* createRenderContext: a failing config or an unknown share context returns
\* 0 before genHandle_locked; otherwise the handle is consumed and, if the
\* driver creates the context, owned by the process or the thread.
createRenderContext(t) ==
    LET h == genHandle_locked IN
    /\ CanGenHandle
    /\ nextHandle' = h
    /\ \/ /\ contexts' = contexts \cup {h}
          /\ IF Legacy(t)
             THEN /\ tinfo' = [tinfo EXCEPT ![t].ctxSet = @ \cup {h}]
                  /\ UNCHANGED procCtx
             ELSE /\ procCtx' = [procCtx EXCEPT ![Puid(t)] = @ \cup {h}]
                  /\ UNCHANGED tinfo
       \/ UNCHANGED <<contexts, procCtx, tinfo>>
    /\ UNCHANGED <<attriPtr, postWorker, windows, colorbuffers, buffers, procWin, procCb, pthreadCb,
                   displays, postPending,
                   hidden, eglImages, procImg, imgPending>>

\* DestroyRenderContext: erase unconditionally, and from the owner set.
DestroyRenderContext(t, x) ==
    /\ x \in contexts
    /\ contexts' = contexts \ {x}
    /\ IF Legacy(t)
       THEN /\ tinfo' = [tinfo EXCEPT ![t].ctxSet = @ \ {x}]
            /\ UNCHANGED procCtx
       ELSE /\ procCtx' = [procCtx EXCEPT ![Puid(t)] = @ \ {x}]
            /\ UNCHANGED tinfo
    /\ UNCHANGED <<attriPtr, postWorker, nextHandle, windows, colorbuffers, buffers, procWin, procCb,
                   pthreadCb, displays, postPending,
                   hidden, eglImages, procImg, imgPending>>

\* createBuffer: a data buffer; no owner, no reference count.
createBuffer(t) ==
    /\ CanGenHandle
    /\ nextHandle' = genHandle_locked
    /\ \/ buffers' = buffers \cup {genHandle_locked}
       \/ UNCHANGED buffers
    /\ UNCHANGED <<attriPtr, postWorker, contexts, windows, colorbuffers, procWin, procCb, procCtx,
                   pthreadCb, tinfo, displays, postPending,
                   hidden, eglImages, procImg, imgPending>>

\* closeBuffer: erase it if it exists.
closeBuffer(t, b) ==
    /\ b \in buffers
    /\ buffers' = buffers \ {b}
    /\ UNCHANGED <<attriPtr, postWorker, nextHandle, contexts, windows, colorbuffers, procWin, procCb,
                   procCtx, pthreadCb, tinfo, displays, postPending,
                   hidden, eglImages, procImg, imgPending>>

\* postImpl, first half: with m_lock already released, find the display's
\* window attributes, store their slot in the member m_window_attri_ptr,
\* then (disableShow set: return false) find the colour buffer, keep raw
\* pointers to both and write lastPostedColorBuffer.  A display with
\* disableShow set, or an unknown colour buffer, makes postImpl return false; m_window_attri_ptr has been written either way.
PostLookup(t, d, c) ==
    /\ postPending[t] = NoPost
    /\ d \in displays
    /\ attriPtr' = d
    /\ postPending' = IF d \notin hidden /\ c \in DOMAIN colorbuffers
                      THEN [postPending EXCEPT ![t] = <<d, c>>] ELSE postPending
    /\ UNCHANGED <<postWorker, nextHandle, contexts, windows, colorbuffers, buffers,
                   procWin, procCb, procCtx, pthreadCb, tinfo, displays,
                   hidden, eglImages, procImg, imgPending>>

\* postImpl, second half: hand c->second.cb.get() and the window-attribute
\* slot m_window_attri_ptr holds now to the post worker, which reads the
\* slot without m_lock: an emptied slot makes it skip the frame, and
\* sendPostWorkerCmd returns; otherwise it keeps the RendererWindowAttri
\* it read and draws while the thread waits (waitQueuedItems).
PostSend(t) ==
    /\ postPending[t] # NoPost
    /\ postWorker = NoDisplay
    /\ IF attriPtr = NoDisplay
       THEN /\ postPending' = [postPending EXCEPT ![t] = NoPost]
            /\ UNCHANGED postWorker
       ELSE /\ postWorker' = attriPtr
            /\ UNCHANGED postPending
    /\ UNCHANGED <<attriPtr, nextHandle, contexts, windows, colorbuffers, buffers,
                   procWin, procCb, procCtx, pthreadCb, tinfo, displays,
                   hidden, eglImages, procImg, imgPending>>

\* postWorkerFunc has drawn c on cw_attri->surface; sendPostWorkerCmd
\* returns and postImpl with it.
PostDraw(t) ==
    /\ postPending[t] # NoPost
    /\ postWorker # NoDisplay
    /\ postWorker' = NoDisplay
    /\ postPending' = [postPending EXCEPT ![t] = NoPost]
    /\ UNCHANGED <<attriPtr, nextHandle, contexts, windows, colorbuffers, buffers,
                   procWin, procCb, procCtx, pthreadCb, tinfo, displays,
                   hidden, eglImages, procImg, imgPending>>

\* setDisplayShowStatus(d, flags): the guest's application went to the
\* background (flags 1: disableShow) or came back; unknown displays are
\* ignored.
setDisplayShowStatus(t, d, background) ==
    /\ d \in displays
    /\ hidden' = IF background THEN hidden \cup {d} ELSE hidden \ {d}
    /\ UNCHANGED <<attriPtr, postWorker, nextHandle, contexts, windows, colorbuffers, buffers,
                   procWin, procCb, procCtx, pthreadCb, tinfo, displays,
                   postPending, eglImages, procImg, imgPending>>

\* bindContext(x, dw, rd): an unbind (all 0) always reaches eglMakeCurrent;
\* otherwise the context and both surfaces must exist.  When eglMakeCurrent
\* fails nothing changes; else the thread records what it has bound.
bindContext(t, x, dw, rd) ==
    /\ \/ x = NoHandle /\ dw = NoHandle /\ rd = NoHandle
       \/ x \in contexts /\ dw \in DOMAIN windows /\ rd \in DOMAIN windows
    /\ \/ tinfo' = [tinfo EXCEPT ![t].currContext = x, ![t].currDrawSurf = dw,
                                 ![t].currReadSurf = rd]
       \/ UNCHANGED tinfo
    /\ UNCHANGED <<attriPtr, postWorker, nextHandle, contexts, windows, colorbuffers, buffers,
                   procWin, procCb, procCtx, pthreadCb, displays, postPending,
                   hidden, eglImages, procImg, imgPending>>

\* createClientImage, first half: (the context handle checked under m_lock)
\* eglCreateImageKHR outside m_lock returns a fresh image or EGL_NO_IMAGE.
createClientImage(t) ==
    /\ Images # {}
    /\ imgPending[t] = NoPendImg
    /\ \/ \E i \in Images \ eglImages :
             /\ eglImages' = eglImages \cup {i}
             /\ imgPending' = [imgPending EXCEPT ![t] = i]
       \/ /\ imgPending' = [imgPending EXCEPT ![t] = NoImage]
          /\ UNCHANGED eglImages
    /\ UNCHANGED <<attriPtr, postWorker, nextHandle, contexts, windows, colorbuffers, buffers,
                   procWin, procCb, procCtx, pthreadCb, tinfo, displays,
                   postPending, hidden, procImg>>

\* createClientImage, second half: with a puid, m_lock is taken again and
\* the handle (EGL_NO_IMAGE included) inserted in m_procOwnedEGLImages.
recordClientImage(t) ==
    /\ imgPending[t] # NoPendImg
    /\ procImg' = IF Legacy(t) THEN procImg
                   ELSE [procImg EXCEPT ![Puid(t)] = @ \cup {imgPending[t]}]
    /\ imgPending' = [imgPending EXCEPT ![t] = NoPendImg]
    /\ UNCHANGED <<attriPtr, postWorker, nextHandle, contexts, windows, colorbuffers, buffers,
                   procWin, procCb, procCtx, pthreadCb, tinfo, displays,
                   postPending, hidden, eglImages>>

\* Mutant: the process's set keeps the destroyed image.
destroyClientImageKeep(t, i) ==
    /\ i \in eglImages
    /\ eglImages' = eglImages \ {i}
    /\ UNCHANGED <<attriPtr, postWorker, nextHandle, contexts, windows, colorbuffers, buffers,
                   procWin, procCb, procCtx, pthreadCb, tinfo, displays,
                   postPending, hidden, procImg, imgPending>>

\* destroyClientImage: eglDestroyImageKHR (its own lock) fails for an image
\* that is not alive; otherwise the image goes, and with a puid it is
\* erased from the process's set under m_lock.
destroyClientImage(t, i) ==
    /\ i \in eglImages
    /\ eglImages' = eglImages \ {i}
    /\ procImg' = IF Legacy(t) THEN procImg
                   ELSE [procImg EXCEPT ![Puid(t)] = @ \ {i}]
    /\ UNCHANGED <<attriPtr, postWorker, nextHandle, contexts, windows, colorbuffers, buffers,
                   procWin, procCb, procCtx, pthreadCb, tinfo, displays,
                   postPending, hidden, imgPending>>

-----------------------------------------------------------------------------
(* Operations of other host threads (under m_lock, not the server Guard).  *)

\* Mutant: the surfaces are closed but not erased from m_windows.
cleanupProcGLObjectsKeepWindows(p) ==
    LET ws == procWin[p]
        afterWins == FoldSet(LAMBDA w, cbs :
                                CloseColorBufferLocked(cbs, windows[w], FALSE),
                             colorbuffers, ws)
        afterCbs == FoldSet(LAMBDA c, cbs :
                                CloseTimes(cbs, c, CopiesIn(c, procCb[p])),
                            afterWins, BagToSet(procCb[p]))
    IN
    /\ colorbuffers' = afterCbs
    /\ windows' = windows
    /\ procWin' = [procWin EXCEPT ![p] = {}]
    /\ procCb' = [procCb EXCEPT ![p] = EmptyBag]
    /\ contexts' = contexts \ procCtx[p]
    /\ procCtx' = [procCtx EXCEPT ![p] = {}]
    /\ eglImages' = eglImages \ procImg[p]
    /\ procImg' = [procImg EXCEPT ![p] = {}]
    /\ UNCHANGED <<attriPtr, postWorker, nextHandle, buffers, pthreadCb, tinfo, displays, postPending,
                   hidden, imgPending>>

\* cleanupProcGLObjects_locked(puid): close the colour buffer of every
\* surface the process owns and erase the surface (the m_windows lookup is
\* not checked against end()), close every opened copy, eglDestroyImageKHR
\* every image the process recorded, erase the contexts.
cleanupProcGLObjects(p) ==
    LET ws == procWin[p]
        afterWins == FoldSet(LAMBDA w, cbs :
                                CloseColorBufferLocked(cbs, windows[w], FALSE),
                             colorbuffers, ws)
        afterCbs == FoldSet(LAMBDA c, cbs :
                                CloseTimes(cbs, c, CopiesIn(c, procCb[p])),
                            afterWins, BagToSet(procCb[p]))
    IN
    /\ colorbuffers' = afterCbs
    /\ windows' = Restrict(windows, DOMAIN windows \ ws)
    /\ procWin' = [procWin EXCEPT ![p] = {}]
    /\ procCb' = [procCb EXCEPT ![p] = EmptyBag]
    /\ contexts' = contexts \ procCtx[p]
    /\ procCtx' = [procCtx EXCEPT ![p] = {}]
    /\ eglImages' = eglImages \ procImg[p]
    /\ procImg' = [procImg EXCEPT ![p] = {}]
    /\ UNCHANGED <<attriPtr, postWorker, nextHandle, buffers, pthreadCb, tinfo, displays, postPending,
                   hidden, imgPending>>

\* UpdateWindowAttri(d, ..., needpost) under m_lock: a display not yet in
\* subWindowsMap is inserted (a known one only changes geometry); with
\* needpost it calls postImpl(d, lastPostedColorBuffer, .., false) while
\* holding m_lock, which stores d's slot in m_window_attri_ptr and posts the
\* display's own last frame (or nothing, if that buffer is gone).
UpdateWindowAttri(d, needpost) ==
    /\ displays' = displays \cup {d}
    /\ attriPtr' = IF needpost THEN d ELSE attriPtr
    /\ UNCHANGED <<postWorker, nextHandle, contexts, windows, colorbuffers, buffers,
                   procWin, procCb, procCtx, pthreadCb, tinfo, postPending,
                   hidden, eglImages, procImg, imgPending>>

\* DeleteWindowAttri: free the window attributes (and their disableShow),
\* erase the display, and
\* when it was the last one closeAllColorBuffer(false) clears m_colorbuffers
\* (the ownership indices are left as they are).
DeleteWindowAttri(d) ==
    /\ d \in displays
    /\ displays' = displays \ {d}
    /\ colorbuffers' = IF displays' = {} THEN <<>> ELSE colorbuffers
    /\ hidden' = hidden \ {d}
    /\ attriPtr' = IF attriPtr = d THEN NoDisplay ELSE attriPtr
    /\ UNCHANGED <<postWorker, nextHandle, contexts, windows, buffers, procWin, procCb,
                   procCtx, pthreadCb, tinfo, postPending,
                   eglImages, procImg, imgPending>>

-----------------------------------------------------------------------------
(* Thread exit (RenderThread::main after the decode loop) and reaping.     *)

\* drainWindowSurface: for each surface of the thread that has a colour
\* buffer attached, close it and erase the surface; the erase sits inside
\* "if (oldColorBufferHandle)", so a surface with none stays in m_windows.
drainWindowSurface(t) ==
    LET attached == {w \in tinfo[t].winSet \cap DOMAIN windows :
                        windows[w] # NoHandle}
    IN
    /\ colorbuffers' = FoldSet(LAMBDA w, cbs :
                                   CloseColorBufferLocked(cbs, windows[w], FALSE),
                               colorbuffers, attached)
    /\ windows' = Restrict(windows, DOMAIN windows \ attached)
    /\ tinfo' = [tinfo EXCEPT ![t].winSet = {}]
    /\ UNCHANGED <<attriPtr, postWorker, nextHandle, contexts, buffers, procWin, procCb, procCtx,
                   pthreadCb, displays, postPending,
                   hidden, eglImages, procImg, imgPending>>

\* Mutant: the thread's set is cleared without erasing its contexts.
drainRenderContextKeep(t) ==
    /\ tinfo' = [tinfo EXCEPT ![t].ctxSet = {}]
    /\ UNCHANGED <<attriPtr, postWorker, nextHandle, contexts, windows, colorbuffers, buffers, procWin,
                   procCb, procCtx, pthreadCb, displays, postPending,
                   hidden, eglImages, procImg, imgPending>>

\* drainRenderContext: erase every context of the thread's own set.
drainRenderContext(t) ==
    /\ contexts' = contexts \ tinfo[t].ctxSet
    /\ tinfo' = [tinfo EXCEPT ![t].ctxSet = {}]
    /\ UNCHANGED <<attriPtr, postWorker, nextHandle, windows, colorbuffers, buffers, procWin, procCb,
                   procCtx, pthreadCb, displays, postPending,
                   hidden, eglImages, procImg, imgPending>>

\* Mutant: the thread's entry is dropped but its colour buffers are left in
\* m_colorbuffers (the erase of closePthreadColorBufferLocked skipped).
closePthreadAloneColorBufferForget(t) ==
    /\ pthreadCb' = [pthreadCb EXCEPT ![t] = {}]
    /\ UNCHANGED <<attriPtr, postWorker, nextHandle, contexts, windows, colorbuffers, buffers, procWin,
                   procCb, procCtx, tinfo, displays, postPending,
                   hidden, eglImages, procImg, imgPending>>

\* closePthreadAloneColorBuffer(tid): erase every colour buffer the thread
\* created, whatever its reference count, and forget the thread's entry.
closePthreadAloneColorBuffer(t) ==
    /\ colorbuffers' = Restrict(colorbuffers, DOMAIN colorbuffers \ pthreadCb[t])
    /\ pthreadCb' = [pthreadCb EXCEPT ![t] = {}]
    /\ UNCHANGED <<attriPtr, postWorker, nextHandle, contexts, windows, buffers, procWin, procCb,
                   procCtx, tinfo, displays, postPending,
                   hidden, eglImages, procImg, imgPending>>

-----------------------------------------------------------------------------
(* Properties of the handle table                                          *)

\* Handle uniqueness (genHandle_locked, createColorBufferWithHandle): no id
\* is a key of two of m_contexts, m_windows, m_colorbuffers, m_buffers.
HandleUnique ==
    LET maps == <<contexts, DOMAIN windows, DOMAIN colorbuffers, buffers>>
    IN \A i, j \in 1..4 : i < j => maps[i] \cap maps[j] = {}

\* Handles are never reused while s_nextHandle does not wrap (HandleTable):
\* genHandle_locked hands out ++s_nextHandle and skips ids in use, so a
\* context, surface, colour buffer or data buffer is created only under an
\* id that no resource had before, even one a guest still holds after the
\* resource was destroyed, and one rc call creates at most one of them.
HandleLive ==
    [context |-> contexts, window |-> DOMAIN windows,
     colorbuffer |-> DOMAIN colorbuffers, buffer |-> buffers]

Table == INSTANCE HandleTable
            WITH Kinds <- {"context", "window", "colorbuffer", "buffer"},
                 Ids <- Handles,
                 live <- HandleLive,
                 issued <- 1..nextHandle

ImplementsHandleTable == Table!Spec

\* References held by processes: the surfaces a colour buffer is attached to
\* plus the copies in every process's m_procOwnedColorBuffers multiset.
HeldRefs(c) ==
    Cardinality({w \in DOMAIN windows : windows[w] = c})
      + MapThenSumSet(LAMBDA p : CopiesIn(c, procCb[p]), Puids)

\* Reference counting (openColorBuffer, closeColorBuffer,
\* setWindowSurfaceColorBuffer, DestroyWindowSurface, cleanupProcGLObjects):
\* the refcount of a live colour buffer is exactly the number of references
\* processes hold on it, so cleaning up a process releases what it opened.
RefcountConservation ==
    \A c \in DOMAIN colorbuffers : colorbuffers[c] = HeldRefs(c)

\* cleanupProcGLObjects_locked dereferences m_windows.find(whndl) without
\* comparing it to end(): every surface a process owns must be in m_windows.
ProcOwnedWindowsLive ==
    \A p \in Puids : procWin[p] \subseteq DOMAIN windows

\* No surface is left attached to a colour buffer that has been destroyed
\* (reaping, closeAllColorBuffer and closeColorBufferLocked erase entries of
\* m_colorbuffers; m_windows keeps the handle).
AttachedBufferLive ==
    \A w \in DOMAIN windows :
        windows[w] # NoHandle => windows[w] \in DOMAIN colorbuffers

\* A frame goes where the guest posted it and nothing it uses is freed
\* under it: the colour buffer postImpl found (its iterator, then the raw
\* cb pointer the worker draws) lives until the worker has drawn;
\* m_window_attri_ptr, read again after m_lock is dropped to build the
\* command, names no live display other than the one looked up; and the
\* RendererWindowAttri postWorkerFunc read without m_lock is not deleted
\* by DeleteWindowAttri while the worker draws on it.
NoStalePost ==
    \A t \in Threads :
        postPending[t] # NoPost =>
            /\ postPending[t][2] \in DOMAIN colorbuffers
            /\ postWorker = NoDisplay =>
                   attriPtr \in {postPending[t][1], NoDisplay}
            /\ postWorker # NoDisplay => postWorker \in displays

\* cleanupProcGLObjects calls eglDestroyImageKHR on every image a process
\* recorded: each must still be alive, or the driver may have handed the
\* same EGLImage to another process since and the cleanup destroys that.
ProcImagesLive ==
    \A p \in Puids : procImg[p] \cap Images \subseteq eglImages

=============================================================================

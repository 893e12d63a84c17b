---------------------------- MODULE RenderServer ----------------------------
(***************************************************************************)
(* The accept loop of RenderServer::main (RenderServer.cpp) and the life  *)
(* of each RenderThread (RenderThread.cpp), composed with the handle table *)
(* of FrameBuffer.                                                         *)
(*                                                                         *)
(* A render thread decodes guest commands while holding the server mutex   *)
(* it was created with (m_lock of RenderServer, passed as &m_lock): two    *)
(* render threads never decode at the same time.  Everything else, the     *)
(* server thread's reaping, a thread's exit path, process cleanup and the  *)
(* display calls, takes only FrameBuffer's own m_lock, and so can run in   *)
(* the middle of a render thread's unlocked postImpl.                      *)
(***************************************************************************)
EXTENDS FrameBuffer

CONSTANTS
    MaxSpawns,  \* bound: connections the server accepts in one behaviour
    StartCanFail \* whether RenderThread::start may fail (thread creation)

VARIABLES
    thr,       \* thr[t]: where render thread slot t is in its life
    stopped,   \* stopped[t]: forceStop has shut the thread's socket down
    srv,       \* the server loop: accepting, reaping, draining, done
    threads,   \* RenderThreadsSet of the server loop
    reapTodo,  \* threads the current reaping pass has not looked at yet
    newRt,     \* the thread created by the current accept, inserted after reaping
    current,   \* the thread the shutdown loop is stopping and waiting for
    spawned    \* connections accepted so far

srvVars == <<thr, stopped, srv, threads, reapTodo, newRt, current, spawned>>
vars == <<fbVars, srvVars>>

None == "none"  \* no thread (Threads are model values)

\* A thread runs its decode loop, then the exit sequence: bindContext(0,0,0),
\* drainWindowSurface, drainRenderContext, setFinished.
\* A slot whose thread failed to start and was deleted is "deleted".
ThreadStates == {"free", "running", "unbind", "drainWin", "drainCtx", "finished", "deleted"}
Live == {"running", "unbind", "drainWin", "drainCtx"}

RSTypeOK ==
    /\ TypeOK
    /\ thr \in [Threads -> ThreadStates]
    /\ stopped \in [Threads -> BOOLEAN]
    /\ srv \in {"accept", "reap", "drain", "done"}
    /\ threads \subseteq Threads
    /\ reapTodo \subseteq Threads
    /\ newRt \in Threads \cup {None}
    /\ current \in Threads \cup {None}
    /\ spawned \in 0..MaxSpawns

Init ==
    /\ FBInit
    /\ thr = [t \in Threads |-> "free"]
    /\ stopped = [t \in Threads |-> FALSE]
    /\ srv = "accept"
    /\ threads = {}
    /\ reapTodo = {}
    /\ newRt = None
    /\ current = None
    /\ spawned = 0

-----------------------------------------------------------------------------
(* The server loop.                                                        *)

\* A connection arrives whose client flags ask the server to exit.
AcceptExit ==
    /\ srv = "accept"
    /\ srv' = "drain"
    /\ UNCHANGED <<fbVars, thr, stopped, threads, reapTodo, newRt, current, spawned>>

\* A connection arrives: RenderThread::create and start on a free thread
\* slot; the new thread sets its guest process id first (rcSetPuid, 0 on
\* the legacy path).  If start() fails, rt is deleted (and the stream with
\* it) but the pointer is kept and inserted after reaping.  Then the
\* finished threads are reaped.
AcceptSpawn ==
    /\ srv = "accept"
    /\ spawned < MaxSpawns
    /\ \E t \in Threads, p \in PuidValues :
          /\ thr[t] = "free"
          /\ \/ /\ thr' = [thr EXCEPT ![t] = "running"]
                /\ tinfo' = [tinfo EXCEPT ![t] = NewThreadInfo(p)]
             \/ /\ StartCanFail
                /\ thr' = [thr EXCEPT ![t] = "deleted"]
                /\ UNCHANGED tinfo
          /\ stopped' = [stopped EXCEPT ![t] = FALSE]
          /\ newRt' = t
    /\ srv' = "reap"
    /\ reapTodo' = threads
    /\ spawned' = spawned + 1
    /\ UNCHANGED <<attriPtr, postWorker, nextHandle, contexts, windows, colorbuffers, buffers, procWin,
                   procCb, procCtx, pthreadCb, displays, postPending, hidden,
                   eglImages, procImg, imgPending, threads, current>>

\* One iteration of the reaping loop: a finished thread has the colour
\* buffers its pthread created erased, is deleted and leaves the set.
ReapStep(u) ==
    /\ srv = "reap"
    /\ u \in reapTodo
    /\ reapTodo' = reapTodo \ {u}
    /\ IF thr[u] = "finished"
       THEN /\ closePthreadAloneColorBuffer(u)
            /\ thr' = [thr EXCEPT ![u] = "free"]
            /\ threads' = threads \ {u}
       ELSE UNCHANGED <<fbVars, thr, threads>>
    /\ UNCHANGED <<stopped, srv, newRt, current, spawned>>

\* After reaping, the new thread is inserted and the server accepts again.
ReapDone ==
    /\ srv = "reap"
    /\ reapTodo = {}
    /\ threads' = threads \cup {newRt}
    /\ newRt' = None
    /\ srv' = "accept"
    /\ UNCHANGED <<fbVars, thr, stopped, reapTodo, current, spawned>>

\* Mutant: the shutdown loop waits for a thread it never stopped.
DrainStopNoForceStop(u) ==
    /\ srv = "drain"
    /\ current = None
    /\ u \in threads
    /\ current' = u
    /\ UNCHANGED <<fbVars, thr, stopped, srv, threads, reapTodo, newRt, spawned>>

\* RenderThread::forceStop -> ChannelStream::forceStop: shutdown(SHUT_RDWR)
\* of the thread's socket, so that its blocked read fails.
forceStop(u) == stopped' = [stopped EXCEPT ![u] = TRUE]

\* Shutdown loop: forceStop shuts the thread's socket down ...
DrainStop(u) ==
    /\ srv = "drain"
    /\ current = None
    /\ u \in threads
    /\ forceStop(u)
    /\ current' = u
    /\ UNCHANGED <<fbVars, thr, srv, threads, reapTodo, newRt, spawned>>

\* ... then wait() joins it and it is deleted.
DrainJoin ==
    /\ srv = "drain"
    /\ current # None
    /\ thr[current] = "finished"
    /\ thr' = [thr EXCEPT ![current] = "free"]
    /\ threads' = threads \ {current}
    /\ current' = None
    /\ UNCHANGED <<fbVars, stopped, srv, reapTodo, newRt, spawned>>

DrainDone ==
    /\ srv = "drain"
    /\ threads = {}
    /\ srv' = "done"
    /\ UNCHANGED <<fbVars, thr, stopped, threads, reapTodo, newRt, current, spawned>>

-----------------------------------------------------------------------------
(* Render threads.                                                         *)

\* The server mutex is free when no render thread is inside its decode
\* pass; the decode steps the model splits are postImpl and createClientImage.
GuardFree == \A u \in Threads : postPending[u] = NoPost /\ imgPending[u] = NoPendImg

\* EGLImages a guest thread can name: those its process recorded, or on the
\* legacy path the live images no process recorded.
ImageArgs(t) ==
    IF Legacy(t) THEN eglImages \ UNION {procImg[p] : p \in Puids}
    ELSE procImg[Puid(t)] \cap Images

\* One rc command decoded under the server mutex.  Once forceStop has shut
\* the socket down no new command arrives (what was buffered before is
\* decoded by the steps taken before it).  Surface and context
\* handles are those of the guest's own process (or, legacy, thread) or
\* stale ones; colour buffers are shared between processes by gralloc.
RcCommand(t) ==
    /\ thr[t] = "running"
    /\ ~stopped[t]
    /\ GuardFree
    /\ \/ createColorBuffer(t)
       \/ \E h \in Handles : createColorBufferWithHandle(t, h)
       \/ \E c \in Handles : openColorBuffer(t, c)
       \/ \E c \in Handles : closeColorBuffer(t, c)
       \/ createWindowSurface(t)
       \/ \E w \in OwnWindows(t) : DestroyWindowSurface(t, w)
       \/ \E w \in OwnWindows(t), c \in Handles : setWindowSurfaceColorBuffer(t, w, c)
       \/ createRenderContext(t)
       \/ \E x \in OwnContexts(t) : DestroyRenderContext(t, x)
       \/ createBuffer(t)
       \/ \E b \in Handles : closeBuffer(t, b)
       \/ \E d \in Displays, c \in Handles : PostLookup(t, d, c)
       \/ \E d \in Displays, b \in BOOLEAN : setDisplayShowStatus(t, d, b)
       \/ BindCalls /\ \E x \in OwnContexts(t) \cup {NoHandle},
                          dw, rd \in OwnWindows(t) \cup {NoHandle} :
                             bindContext(t, x, dw, rd)
       \/ createClientImage(t)
       \/ \E i \in ImageArgs(t) : destroyClientImage(t, i)
    /\ UNCHANGED srvVars

\* postImpl hands the frame to the post worker (sendPostWorkerCmd starts
\* the worker on first use, enqueues and waits); the decode pass ends here
\* when the worker skips a frame whose window attributes are gone.
Post(t) ==
    /\ PostSend(t)
    /\ UNCHANGED srvVars

\* postWorkerFunc has drawn the frame; the decode pass ends.
Draw(t) ==
    /\ PostDraw(t)
    /\ UNCHANGED srvVars

\* createClientImage records its image; the decode pass ends.
RecordImage(t) ==
    /\ recordClientImage(t)
    /\ UNCHANGED srvVars

\* The decode loop ends: the guest closed the connection, a read failed
\* (after forceStop) or a decoder reported a framing error.
LoopExit(t) ==
    /\ thr[t] = "running"
    /\ postPending[t] = NoPost
    /\ imgPending[t] = NoPendImg
    /\ thr' = [thr EXCEPT ![t] = "unbind"]
    /\ UNCHANGED <<fbVars, stopped, srv, threads, reapTodo, newRt, current, spawned>>

\* Release the thread's current context and surfaces: bindContext(0, 0, 0).
ExitUnbind(t) ==
    /\ thr[t] = "unbind"
    /\ bindContext(t, NoHandle, NoHandle, NoHandle)
    /\ thr' = [thr EXCEPT ![t] = "drainWin"]
    /\ UNCHANGED <<stopped, srv, threads, reapTodo, newRt, current, spawned>>

ExitDrainWindows(t) ==
    /\ thr[t] = "drainWin"
    /\ drainWindowSurface(t)
    /\ thr' = [thr EXCEPT ![t] = "drainCtx"]
    /\ UNCHANGED <<stopped, srv, threads, reapTodo, newRt, current, spawned>>

\* setFinished: mFinished is stored under mLock (and a snapshot waiter
\* woken); from now on isFinished() lets the server reap the thread.
setFinished(t) == thr' = [thr EXCEPT ![t] = "finished"]

\* drainRenderContext, then setFinished.
ExitDrainContexts(t) ==
    /\ thr[t] = "drainCtx"
    /\ drainRenderContext(t)
    /\ setFinished(t)
    /\ UNCHANGED <<stopped, srv, threads, reapTodo, newRt, current, spawned>>

\* Calls from outside the render threads (opengles.cpp entry points).
External ==
    /\ \/ \E p \in Puids : cleanupProcGLObjects(p)
       \/ \E d \in Displays, needpost \in BOOLEAN : UpdateWindowAttri(d, needpost)
       \/ \E d \in Displays : DeleteWindowAttri(d)
    /\ UNCHANGED srvVars

Next ==
    \/ AcceptExit
    \/ AcceptSpawn
    \/ \E u \in Threads : ReapStep(u)
    \/ ReapDone
    \/ \E u \in Threads : DrainStop(u)
    \/ DrainJoin
    \/ DrainDone
    \/ \E t \in Threads : RcCommand(t) \/ Post(t) \/ Draw(t) \/ RecordImage(t) \/ LoopExit(t)
    \/ \E t \in Threads : ExitUnbind(t) \/ ExitDrainWindows(t) \/ ExitDrainContexts(t)
    \/ External

\* The server thread and every started render thread keep running; the
\* post worker always takes a queued frame; a thread whose socket was shut
\* down has its next read fail.  Guests and external callers need not act.
Fairness ==
    /\ WF_vars(\E u \in Threads : ReapStep(u))
    /\ WF_vars(ReapDone)
    /\ WF_vars(\E u \in Threads : DrainStop(u))
    /\ WF_vars(DrainJoin)
    /\ WF_vars(DrainDone)
    /\ \A t \in Threads :
          /\ WF_vars(Post(t))
          /\ WF_vars(Draw(t))
          /\ WF_vars(RecordImage(t))
          /\ WF_vars(ExitUnbind(t))
          /\ WF_vars(stopped[t] /\ LoopExit(t))
          /\ WF_vars(ExitDrainWindows(t))
          /\ WF_vars(ExitDrainContexts(t))

Spec == Init /\ [][Next]_vars /\ Fairness

-----------------------------------------------------------------------------
(* Properties of the composition                                           *)

\* Contexts do not outlive their owners: every context in m_contexts is in
\* a process's m_procOwnedRenderContext or in the m_contextSet of a thread
\* that has not finished (drainRenderContext on thread exit).
NoOrphanContext ==
    \A x \in contexts :
        \/ \E p \in Puids : x \in procCtx[p]
        \/ \E t \in Threads : thr[t] \in Live /\ x \in tinfo[t].ctxSet

\* Surfaces do not outlive their owners: every surface in m_windows is in a
\* process's m_procOwnedWindowSurfaces or in the m_windowSet of a thread
\* that has not finished (drainWindowSurface on thread exit).
NoOrphanWindow ==
    \A w \in DOMAIN windows :
        \/ \E p \in Puids : w \in procWin[p]
        \/ \E t \in Threads : thr[t] \in Live /\ w \in tinfo[t].winSet

\* Zero-reference colour buffers are reclaimed only by reaping: with the
\* delayed-close push of closeColorBufferLocked commented out, a buffer
\* whose refcount reaches 0 stays in m_colorbuffers, and the one path that
\* erases it is closePthreadAloneColorBuffer of the thread that created it.
\* While the server accepts, every colour buffer must therefore be in the
\* m_pthreadOwnedColorBuffers entry of a thread the reaping loop will still
\* visit (one in RenderThreadsSet, or the one about to be inserted); one
\* that is not is leaked for the life of the process.
ColorBuffersReapable ==
    srv \in {"accept", "reap"} =>
        \A c \in DOMAIN colorbuffers :
            \E t \in threads \cup ({newRt} \ {None}) : c \in pthreadCb[t]

\* RenderThreadsSet holds live RenderThread objects only: the reaping loop
\* and the shutdown loop call isFinished, gettid, forceStop and wait on
\* every member.
ThreadsLive == \A u \in threads : thr[u] # "deleted"

\* Shutdown completes (RenderServer::main after the accept loop): once the
\* server is told to exit, every render thread is stopped, drains, finishes
\* and is joined.
ShutdownDrains == srv = "drain" ~> srv = "done"

=============================================================================

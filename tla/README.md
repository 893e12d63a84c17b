# TLA+ models of the fde_emugl host renderer

These modules model the host side of the GLES pipe in
`src/android-emugl/host/libs/libOpenglRender`. That is the server that
accepts guest connections, one render thread per connection, and the
`FrameBuffer` handle table the threads create, share and tear down GPU
resources in. The models check the table's reference counting and ownership
against thread exit, process cleanup, reaping and display changes, which
unit tests rarely reach.

## 1. The system

| Part | Source | State | Operations |
|---|---|---|---|
| Handle table / resource registry | `FrameBuffer-mainWindown.cpp` | `s_nextHandle`; `m_contexts`, `m_windows` (surface → attached colour buffer), `m_colorbuffers` (handle → `ColorBufferRef{cb, refcount, opened, closedTs}`), `m_buffers`; the ownership indices `m_procOwnedWindowSurfaces`, `m_procOwnedColorBuffers` (a multiset), `m_procOwnedRenderContext`, `m_pthreadOwnedColorBuffers`; `subWindowsMap` of displays | `genHandle_locked`, `createColorBuffer[WithHandle]`, `openColorBuffer`, `closeColorBuffer`, `createWindowSurface`, `DestroyWindowSurface`, `setWindowSurfaceColorBuffer`, `createRenderContext`, `DestroyRenderContext`, `createBuffer`, `closeBuffer`, `cleanupProcGLObjects`, `drainWindowSurface`, `drainRenderContext`, `closePthreadAloneColorBuffer`, `closeAllColorBuffer`, `UpdateWindowAttri`, `DeleteWindowAttri`, `post`/`postImpl` |
| Per-thread info | `RenderThreadInfo.cpp` | `m_puid`, `m_contextSet`, `m_windowSet` (legacy ownership when `m_puid == 0`) | set by the decoders and the drains |
| Render thread | `RenderThread.cpp` | decode loop, `mFinished` | decode under the server mutex; on exit `bindContext(0,0,0)`, `drainWindowSurface`, `drainRenderContext`, `setFinished` |
| Render server | `RenderServer.cpp` | `RenderThreadsSet threads`, `m_exiting` | accept, handshake, spawn, reap finished threads, shutdown (`forceStop`, `wait`, `delete`) |
| Transport | `ChannelStream.cpp` | socket | `readFully`, `forceStop` = `shutdown(SHUT_RDWR)` |
| Host API | `opengles.cpp`, `RendererImpl.h` | `sRenderer` | `android_cleanupProcGLObjects`, `android_updateWindowAttri`, `android_deleteWindowAttri` |
| Post worker | `FrameBuffer-mainWindown.cpp` | worker queue | `sendPostWorkerCmd` enqueues and waits; `postWorkerFunc` draws |
| Grabber | `GrabberHelper.cpp` | shared memory, two named semaphores | frame upload from `app_stream` |
| GPU detection | `gpu_detection.cpp`, `opengles.cpp` | `mGpuCheckCompleted`, `mGpuType`, `EGL_PLATFORM` | `getGpuModel` (DRM, /proc/fb, /dev, PCI scan), `android_startOpenglesRenderer` |
| fde-renderer process | `fde-renderer/main.cpp`, `opengles.cpp` | `terminal`, the SIGINT/SIGTERM disposition, `sRenderLib`, `sRenderer` | `sigaction` with `SA_RESETHAND`, `android_initOpenglesEmulation`, `android_startOpenglesRenderer`, `while (!terminal) pause();`, `android_stopOpenglesRenderer(true)`, `SignalTerminal` |
| Not concurrent | `NativeSubWindow_x11.cpp`, `gles_config_detection.cpp`, `Tracing.cpp`, `renderer/main.cpp` | | X11 calls, logging, a test harness |

How the parts interact:

- **Locks.** Every render thread decodes while holding the server's
  `m_lock`, which `RenderServer` passes to each `RenderThread`. So at most
  one connection decodes at a time. Each `FrameBuffer` method takes
  `FrameBuffer::m_lock` for its whole body.
- **Who does not hold the server mutex.** The server thread's reaping
  (`closePthreadAloneColorBuffer`), a thread's exit path, the host's
  `cleanupProcGLObjects` and the display calls take only the FrameBuffer
  lock. They can therefore interleave with a render thread between two
  FrameBuffer calls.
- **The unlocked `postImpl`.** Inside one call, `postImpl`'s
  `if (needLockAndBind) { AutoLock mutex(m_lock); }` releases the lock at
  the brace. The rest of `postImpl` runs unlocked.
- **Build configuration.** `opengles.cpp` fixes the guest api level at 30,
  so a new colour buffer starts at refcount 0 and is recorded only under
  its creating pthread.
- **Delayed close.** The delayed-close list's `push_back` is commented out,
  so a colour buffer whose refcount reaches 0 stays in the table until its
  creator thread is reaped, or until the last display is deleted. The spec
  (sections 3, 4.1 and 8) promises a close 5 s later; its section 9 asks
  whether the disabled push is intended. Reaping runs only on the next
  `accept`, so the model cannot promise the buffer ever goes. It states the
  bound that does hold as a safety property, `ColorBuffersReapable`: every
  colour buffer is still recorded under a thread the next reaping pass
  visits.

Hard behaviours the code is exposed to, listed in `PROJECT.json` under
"hazards":

- postImpl against DeleteWindowAttri and against reaping;
- postImpl's member `m_window_attri_ptr`, overwritten by a host
  `UpdateWindowAttri(needpost)` between its write and its re-read;
- the post worker reading the window-attribute slot without the lock and
  drawing on attributes `DeleteWindowAttri` deletes;
- reaping erasing buffers other processes still use;
- the leak of unattached surfaces on legacy thread exit;
- uint32 refcount wrap on a legacy close-before-open;
- explicit-handle collisions;
- client images racing cleanup;
- handle-counter wrap;
- the unchecked `m_windows.find` in process cleanup;
- the dangling iterator in `setWindowSurfaceColorBuffer` under
  NoDelayCloseColorBuffer;
- `closeAllColorBuffer` on the last display;
- reaping only on the next accept;
- the double delete when a thread fails to start;
- the grabber's unguarded size reads (sizing the texture, and the
  viewport after `sem_post`), a restarted `app_stream`'s segment never
  attached, and `app_stream` dying while it holds `sem_shm`;
- two first posts starting the post worker twice;
- the order of `getGpuModel`'s probes and the `NVIDIA_VGA == 0` sentinel;
- a stale guest handle naming a resource created later;
- a SIGTERM landing between `fde-renderer`'s test of `terminal` and its
  `pause()`, and a second signal after `SA_RESETHAND` has reset the
  handler.

## 2. Modules and how they map to the code

**`FrameBuffer.tla`** models the handle table and `RenderThreadInfo`.

- **Data abstraction.** A resource is its handle, and a colour buffer is its
  refcount, taken modulo `2^RefBits` so that the uint32 wrap is kept.
  `opened` and `closedTs` are left out: with the delayed-close list never
  filled they change nothing.
- **Actions.** Each FrameBuffer method is one action with the name of the
  method. It has its guard from the method's early returns, and driver
  failure is a disjunct where it still consumes a handle. Helpers that are
  called inside a method are pure operators, so they belong to the
  caller's action:
  - `genHandle_locked` scans in uint32 order from `s_nextHandle`;
  - `CloseColorBufferLocked` decrements with wrap and erases at 0 only when
    forced or with the no-delay flag;
  - `CloseTimes` closes once per multiset copy.
- **postImpl.** It is split into `PostLookup`, which finds the display and
  the colour buffer, and `PostSend`, which hands `cb.get()` and the
  window-attribute slot to the worker. The split is there because the lock
  is not held between them.
  - `attriPtr` is the member `m_window_attri_ptr`, as a display id.
    `PostLookup` writes it even when it then returns false.
    `DeleteWindowAttri` empties the slot (`NoDisplay`); a display created
    again gets a new slot.
  - `postWorker` is the display whose attributes `postWorkerFunc` read from
    the slot and draws on. `PostSend` skips an emptied slot. `PostDraw` is
    the end of the drawing, and the render thread waits until then.
- **Host API calls.** `cleanupProcGLObjects`, `UpdateWindowAttri` (insert a
  display; with `needpost` it runs `postImpl` itself, which writes
  `m_window_attri_ptr`) and `DeleteWindowAttri` (erase it, and clear `m_colorbuffers`
  when it was the last one) are actions of the host.
- **Display visibility.** `hidden` is the set of displays whose
  `disableShow` is set. `setDisplayShowStatus` sets or clears it, and
  `PostLookup` skips a hidden display.
- **bindContext and client images.** `RenderThreadInfo`'s current context
  and surfaces are kept per thread. `bindContext` checks the handles and
  may fail in `eglMakeCurrent`, which changes nothing. `createClientImage`
  is two steps, because it records the image in `m_procOwnedEGLImages`
  after a second lock: `createClientImage` creates it (`imgPending`) and
  `recordClientImage` records it. `destroyClientImage` and process cleanup
  destroy images. Images are a small set of model values (`Images`).
  `BindCalls` switches the bind commands on.

**`RenderServer.tla`** extends `FrameBuffer` with the server loop and the
life of each render thread.

- **Server state.** `srv` is one of accept / reap / drain / done.
  `reapTodo` is the reaping loop's iterator, `newRt` is the thread inserted
  after reaping, and `current` is the thread the shutdown loop waits for.
- **Thread state.** `thr[t]` is one of free / running / unbind / drainWin /
  drainCtx / finished / deleted. `stopped[t]` records `forceStop`.
- **Actions.**
  - `RcCommand(t)` is one render-control command, decoded under the server
    mutex (`GuardFree`: no thread is between the halves of `postImpl` or
    `createClientImage`). `setDisplayShowStatus` arrives this way too.
  - `Post`, `Draw` and `RecordImage` are the later steps of `postImpl`
    and `createClientImage`.
  - `LoopExit(t)` leaves the decode loop.
  - `ExitUnbind`, `ExitDrainWindows` and `ExitDrainContexts` are the exit
    sequence: `bindContext(0,0,0)`, the two drains, then `setFinished`.
  - `ReapStep` is one iteration of the reaping `for` loop.
  - `DrainStop` (`forceStop`) and `DrainJoin` are one iteration of the
    shutdown loop.
- **Start failure.** With `StartCanFail`, `AcceptSpawn` models a failing
  `rt->start()`: the thread is deleted and still inserted into the set.
- **Guest inputs.** A guest names surfaces and contexts of its own process,
  or of its own thread on the legacy path. It may name any colour buffer,
  because gralloc shares buffers between processes.
- **Process id.** `rcSetPuid` is the first command a guest connection
  sends (it is decoded outside `src/`), so a thread's process id is chosen
  when it is spawned.

**`MCRenderServer.tla`** gives the process-id sets and the symmetry set to
the `.cfg` files. Symmetry on `Threads` is used only in the safety runs:
thread slots are interchangeable model values, and TLC's symmetry reduction
is not sound for the liveness properties.

**`Grabber.tla`** models `GrabberHelper` against `app_stream`, the process
that writes frames into System V shared memory. `app_stream` is not in
this repository, so its four steps (start, lock, write, crash) are
modelled from what `GrabberHelper` assumes of it, and are marked
spec-modelled in the map.

- **Data abstraction.** A frame is its shape (a model value of `Shapes`),
  or `NoShape` for one `CheckDataInfo` rejects.
- **Crashes.** `MaxCrashes` bounds how often `app_stream` dies.
  `CrashInCritical` decides whether it may die while it holds `sem_shm`.
- **Grabber steps.** One grab is `GrabBegin` (`InitImageTex` if needed,
  `GetSem`), then `GrabLock` (`sem_wait`), `GrabUpload` (upload, then
  `sem_post`), and `GrabRender` (the FBO, which may fail and is retried,
  and the viewport computed from the frame in shared memory). `uploaded`
  is the frame the upload read under `sem_shm`, kept so that the viewport
  read can be compared with it.
- **Refinement.** `ShmMutex.tla` is the abstract lock `sem_shm` stands
  for: an actor acquires it only when it is free, is then alone in its
  critical section, and releases it (weakly fair). `Grabber` instantiates
  it with `holders` = the set of app_stream (while `prod = "writing"`) and
  the grabber (while `cons = "upload"`), and `taken` = the semaphore exists
  with value 0. `ImplementsShmMutex` is the abstract `Spec` as a PROPERTY.

**`GpuDetection.tla`** models `GpuDetection::getGpuModel` and
`android_startOpenglesRenderer`'s choice of `EGL_PLATFORM`.

- **The host.** The host is an input, chosen in `Init` from `Hosts`. It has
  its PCI devices in enumeration order, the display GPU, and whether
  libdrm can name that GPU (`drmOk`: DRI3 and the xcb/libdrm calls
  abstracted to one boolean). It also has the `/proc/fb` names and the
  `/dev` nodes present.
- **Devices.** A PCI device is its class, its vendor id, and which of the
  strcasestr keywords occur in its pci.ids names.
- **The probes.** They are pure operators. `PciScan` is `RECURSIVE` and
  keeps the loop's overwrite of `nRet`. `SelectEglPlatform` is the GPU
  step of `android_startOpenglesRenderer`: it caches the type and sets
  `EGL_PLATFORM` only when it is unset (as `setenv(..., 0)` does).
  `GpuInit` is the state before the first call. The module has no `Next`
  of its own: `RendererMain` runs it.
- **`MCGpuDetection.tla`.** It extends `RendererMain` and gives a catalogue of eight devices and every
  host with up to three PCI devices (at most two GPUs), or a Mali platform
  GPU. The catalogue has NVIDIA, AMD, Intel, Zhaoxin, Jingjia, the
  0x0709 GPU, a Hyper-V VGA, and an Ethernet controller.

**`RendererMain.tla`** extends `GpuDetection` with the `fde-renderer`
process (`fde-renderer/main.cpp`) and the three `opengles.cpp` entry points
it calls.

- **State.** `pc` is where `main` is: register, init, start, check (the
  test of `terminal`), prePause (between the test and `pause()`), paused,
  stop, exit (main returned) or killed. `handler` is the SIGINT/SIGTERM
  disposition: default, the handler, or reset after it ran once
  (`SA_RESETHAND`). `lib` is `sRenderLib`, and `renderer` is `sRenderer`
  (none, up, stopped).
- **Actions.** `Register` (the two `sigaction` calls and `setenv`),
  `InitEmulation` (`initLibrary` may fail: return -3), `StartRenderer`
  (the library checks, `SelectEglPlatform`, `initRenderer` may fail:
  return -5), `CheckTerminal`, `Pause`, `StopRenderer`.
- **Signals.** `Signal` is the environment, bounded by `MaxSignals`. With
  the handler installed, `SignalTerminal` sets `terminal`, the disposition
  is reset, and a `pause()` in progress returns. Otherwise the default
  action kills the process.

## 3. Runs

| Run | cfg | Checks | Shows |
|---|---|---|---|
| puid_refcount | `MCRenderServer.cfg` | RSTypeOK, RefcountConservation, ProcOwnedWindowsLive, NoOrphanWindow, ColorBuffersReapable, ImplementsHandleTable | Two processes on two connections. Every colour buffer, even one at refcount 0 that the disabled delayed-close list never frees, is recorded under a thread that reaping will visit. A colour buffer's refcount is always the number of attachments plus opened copies, through every order of open/close/attach/destroy, process cleanup, thread exit and reaping. Process cleanup never meets a surface missing from `m_windows`, and every surface is owned by a process. The four maps refine `HandleTable`: no id is given to a second resource, so a handle a guest kept after cleanup or reaping never names a new one. |
| legacy_handles | `MCLegacy.cfg` | HandleUnique, NoOrphanContext | On the per-thread path, with the handle counter wrapping and ids reused, the scan keeps ids unique across the four maps, and thread exit erases every context it owns. |
| display_shutdown | `MCDisplay.cfg` | ShutdownDrains | A display comes and goes, and posts are in flight. Once told to exit, the server still stops, drains and joins every thread. |
| explicit_handles | `MCExplicit.cfg` | ProcImagesLive | With guest-chosen colour-buffer handles, bind calls and EGL images, every image a process has recorded is alive. |
| grabber | `MCGrab.cfg` | GrabTypeOK, ImplementsShmMutex, GrabCompletes | While `app_stream` never dies holding `sem_shm`, `sem_shm` implements `ShmMutex` (also across restarts that find the named semaphore left over), and every grab that starts returns. |
| gpu_drm | `MCGpuDrm.cfg` | MainTypeOK, DetectsDrmGpu | When libdrm names the display GPU, no fallback overrides it; checked inside the `fde-renderer` process with up to two signals at any point. |
| reap_attached | `MCReapAttached.cfg` | AttachedBufferLive (violation) | Reaping erases buffers whatever their refcount. |
| stale_post | `MCStalePost.cfg` | NoStalePost (violation) | `postImpl` uses what it looked up after the lock is gone. With two displays, TLC's shortest trace is a guest post to d1, then a host `UpdateWindowAttri(d2, needpost)`: `m_window_attri_ptr` now names d2, and the guest's frame is drawn on d2's window. |
| start_failure | `MCStartFail.cfg` | ThreadsLive (violation) | A thread that failed to start is deleted and still put in the thread set. |
| grabber_texture_size | `MCGrabTexture.cfg` | GrabShowsCurrentFrame (violation) | A grab does not show the frame `app_stream` last wrote. The texture keeps the first frame's size and format (TLC's shortest trace). Checked alone, each of the other two conjuncts fails too: after `app_stream` restarts, the grabber still reads the old segment, because `GetShm` attaches only once; and `RenderToFboTex` computes the viewport from a frame `app_stream` is writing after `sem_post`. |
| signal_race | `MCSignalRace.cfg` | StopsOnTerminate (violation) | A SIGTERM between `while (!terminal)` and `pause()` is lost: `main` sleeps in `pause()` and never stops the renderer; a further signal kills it without cleanup. |
| gpu_misdetect | `MCGpuAll.cfg` | DetectsGpu (violation) | Without DRM, the fallbacks can misname the GPU. There are three ways: the Mali result is overwritten, `NVIDIA_VGA == 0` does not stop the PCI loop, and "ATI" matches "Corporation". |

`MCGrabCrashHang.cfg` runs the grabber with `app_stream` allowed to die
inside its critical section. TLC then shows `GrabCompletes` violated: the
grab blocks in `sem_wait` for good. It is listed as a hazard of
`GrabberHelper.cpp:297`, and the grabber run checks the property without
that crash. `MCGrabCrashHang.cfg` is not one of the runs in
`PROJECT.json` (they are at their limit), so the check does not re-run it.

Two legacy-path scenarios, a surface leaked on thread exit and a refcount
that wraps on close-before-open, are kept as hazards rather than runs. The
guests this build serves (API 30) always send `rcSetPuid`, and on that path
`NoOrphanWindow` holds, and `RefcountConservation` rules out a close with
no matching reference (puid_refcount). The
explicit-handle collision (a guest-chosen colour-buffer id equal to a live
surface or context id) is a hazard too. The four maps are looked up
separately, so the shared id does no harm by itself.

The type invariant `RSTypeOK` is checked once, in puid_refcount; the
other server runs check only what is particular to them. `disableShow`
is read without `m_lock` in `postImpl`, but `setDisplayShowStatus` takes
`m_lock` and arrives through the decoder under the same server mutex as
`postImpl`, so nothing can land between the check and the post; the model
keeps the check as `PostLookup`'s guard, and no property restates it.

Every property of a passing run has a mutant in `PROJECT.json`. The mutant
is a plausible slip in the code it replaces, and TLC finds the property
violated under that run's configuration. Among them:

- post-increment of `s_nextHandle`;
- attach without closing the old buffer;
- process cleanup that keeps the surfaces in `m_windows`;
- a destroy that leaves the image in the process's set;
- a grab without `sem_wait`;
- a `genHandle_locked` that tests `s_nextHandle` before incrementing it;
- DRM-path results overridden by the fallbacks;
- the raw PCI vendor id used as a type.

**Bounds.**

- **Threads.** Two thread slots are the least that shows one connection
  racing another's exit and reaping. `MaxSpawns` = 2 lets a slot be
  reaped and, in the legacy run, reused.
- **Handles.** `MaxHandle` is 3 in the main runs: enough for a surface, a
  context and a colour buffer together, or for two buffers and a surface.
  It is 2 where explicit handles, images or displays multiply the states.
- **Refcounts.** `MaxRef` = 2 allows two holders of one buffer, for
  example an attachment and an opened copy. `RefBits` = 3 keeps a wrapped
  refcount (7) distinguishable.
- **Handle wrap.** `HandleWraps` is TRUE only in the legacy run, where id
  reuse is what `HandleUnique` is about. Elsewhere the counter stops at
  `MaxHandle`, standing for the 2^32 ids a session does not exhaust.
- **Grabber.** Two shapes, one invalid frame, and one crash are enough for
  a resize, a rejected frame, and a crash with a restart on a new segment.
- **GPU detection.** It uses every ordering of up to three devices. That
  covers a hybrid laptop (Intel plus NVIDIA in both orders), a device
  after an NVIDIA GPU, and hosts with no PCI GPU.
- **Signals.** `MaxSignals` = 2 in gpu_drm: one signal the handler
  catches and one after the reset, each at any point of `main`. One host
  and one signal are enough for the race in signal_race.

**Fairness.** Weak fairness is assumed only for these steps:

- the server thread's own steps (reap, join, done);
- the post worker taking a frame and drawing it (`sendPostWorkerCmd`
  waits for it, and the worker's loop does nothing else);
- a thread's exit sequence;
- leaving the decode loop once `forceStop` has shut the socket down (the
  next read fails);
- in the grabber, the steps of a grab after `sem_wait` and the rest of
  `app_stream`'s write.

- in `fde-renderer`, every step of `main` except waiting in `pause()`.

`sem_wait` gets strong fairness, because `sem_shm` is free again after
every frame. Guests and host API callers get no fairness. Commands stop
arriving once a thread is stopped.

Deadlock checking is off in the server runs: the server legitimately
blocks forever in `accept()`, and the one real blocking wait, the join at
shutdown, is covered by `ShutdownDrains`. It is also off in the GPU runs,
where start-up ends. The grabber run checks deadlock.

## 4. Not modelled (yet)

- RefCountPipe mode, which makes the sweep queue and
  `decColorBufferRefCountLocked` live;
- NoDelayCloseColorBuffer on;
- `m_windowSurfaceToColorBuffer`, and the GL work of the post worker;
- the `isShuttingDown` check on thread exit (the flag lives in
  `FrameBuffer.h`, which is not part of `src/`);
- snapshots: `RenderThread`'s save/restore protocol runs only after
  `pausePreSnapshot`, and nothing in `src/` calls it or
  `doSnapshotOperation`;
- `GLESConfigDetection`, which nothing in `src/` calls. It also reads an
  uninitialized `pwd` and has the arguments of a `memset` swapped;
- `setupSubWindow` and `removeSubWindow`, which the `fde-renderer` path
  does not call;
- the order of `lockContextStructureRead/Write` against `m_lock`: the GL
  decoders that take them are not in `src/`;
- `renderer/main.cpp`, a test harness that loads the library with `dlopen`
  and sleeps forever;
- `RendererImpl::stop` and `FrameBuffer::finalize`: `RendererImpl.cpp` is
  not in `src/`, and `finalize` returns early once shutting down;
- the GL decoders' effect on GPU state, and the FrameBuffer methods only
  they call (`updateColorBuffer`, `readColorBuffer*`, `bindColorBufferTo*`,
  `flushWindowSurfaceColorBuffer`, `setColorBufferInUse`,
  `importMemoryToColorBuffer`, `compose`, the process cleanup callbacks):
  their callers are not in `src/`, and apart from a handle lookup under
  `m_lock` they touch only GL objects;
- `repost`, reached only from the sub-window repaint callback, which the
  `fde-renderer` path never installs (`setupSubWindow` is not called);
- the lazy start of the post worker in `sendPostWorkerCmd`: the model has
  no state for the worker's creation, so the race of two first posts is a
  hazard without a property.

Sockets, X11 and the xcb/libdrm calls are I/O without a state machine of
their own.

## 5. Plan

1. **Done.** `FrameBuffer` + `RenderServer`: the handle table, thread life,
   server loop, display visibility, bindContext and client images, and
   thread start failure.
2. **Done.** `Grabber`, `GpuDetection` and `RendererMain`.
3. **Done.** Refinements: `FrameBuffer` against `HandleTable`, `Grabber`
   against `ShmMutex`.
4. **Flags.** A NoDelayCloseColorBuffer run (the dangling-iterator case)
   and a RefCountPipe run (`sweepColorBuffersLocked`,
   `onLastColorBufferRef`).
5. **Composition.** `RendererMain` with `RenderServer`, so that
   `StopRenderer` waits for the server's drain.

------------------------------- MODULE Grabber -------------------------------
(***************************************************************************)
(* GrabberHelper (GrabberHelper.cpp) against the process that feeds it,   *)
(* app_stream.  app_stream creates a System V shared-memory segment under  *)
(* KEY_SHM_DATA_INFO holding one frame (shm_data_info: width, height,      *)
(* format, pixels) and two named semaphores, "sem_shm" guarding the frame  *)
(* and "sem_grab" that the grabber posts after each upload.  The grabber   *)
(* attaches lazily, sizes its texture from the first valid frame, and on   *)
(* every grab uploads the frame under sem_shm and renders it to an FBO.    *)
(*                                                                         *)
(* A frame is abstracted to its shape (width, height and format together): *)
(* a member of Shapes, or NoShape for one CheckDataInfo rejects.           *)
(* app_stream is not part of this repository: its steps are modelled from  *)
(* what GrabberHelper's comments and calls assume of it.                   *)
(***************************************************************************)
EXTENDS Naturals

CONSTANTS
    Shapes,       \* frame shapes app_stream may write (model values)
    NoShape,      \* a frame CheckDataInfo rejects (width or height 0, ...)
    MaxCrashes,   \* bound: times app_stream dies in one behaviour
    CrashInCritical \* whether it may die while holding sem_shm

ASSUME NoShape \notin Shapes /\ MaxCrashes \in Nat /\ CrashInCritical \in BOOLEAN

Segments == 1..(MaxCrashes + 1)   \* one segment per app_stream incarnation
NoSeg == 0
Frames == Shapes \cup {NoShape}
Valid(s) == s \in Shapes          \* CheckDataInfo and getGLFormatAndType

VARIABLES
    \* app_stream
    prod,       \* "down", "idle" or "writing" (holding sem_shm)
    shmSeg,     \* the segment shmget(KEY_SHM_DATA_INFO) finds, or NoSeg
    frame,      \* frame[g]: the shape in segment g
    semsExist,  \* the named semaphores have been created
    semShm,     \* value of sem_shm (a binary semaphore)
    crashes,
    \* GrabberHelper
    helper,     \* "none" or "live": the object exists
    attached,   \* m_data_info.shm_id/shm_data: the attached segment or NoSeg
    semOpen,    \* m_sem_for_shm and m_sem_for_grab are open
    texReady,   \* m_img_tex_ready
    texShape,   \* the shape m_img_tex was allocated with by glTexImage2D
    fbo,        \* m_fbo != 0
    eglImage,   \* m_egl_image != nullptr
    cons,       \* where the grab in progress is: idle, wait, upload, render
    consOp,     \* the entry point of that grab: "read" or "egl"
    uploaded    \* the frame the last UpdateImageTex read under sem_shm

prodVars == <<prod, shmSeg, frame, semsExist, semShm, crashes>>
helperVars == <<helper, attached, semOpen, texReady, texShape, fbo, eglImage, cons, consOp, uploaded>>
vars == <<prodVars, helperVars>>

GrabTypeOK ==
    /\ prod \in {"down", "idle", "writing"}
    /\ shmSeg \in Segments \cup {NoSeg}
    /\ frame \in [Segments -> Frames]
    /\ semsExist \in BOOLEAN
    /\ semShm \in 0..1
    /\ crashes \in 0..MaxCrashes
    /\ helper \in {"none", "live"}
    /\ attached \in Segments \cup {NoSeg}
    /\ semOpen \in BOOLEAN
    /\ texReady \in BOOLEAN
    /\ texShape \in Frames
    /\ fbo \in BOOLEAN
    /\ eglImage \in BOOLEAN
    /\ cons \in {"idle", "wait", "upload", "render"}
    /\ consOp \in {"read", "egl"}
    /\ uploaded \in Frames

Init ==
    /\ prod = "down"
    /\ shmSeg = NoSeg
    /\ frame = [g \in Segments |-> NoShape]
    /\ semsExist = FALSE
    /\ semShm = 0
    /\ crashes = 0
    /\ helper = "none"
    /\ attached = NoSeg
    /\ semOpen = FALSE
    /\ texReady = FALSE
    /\ texShape = NoShape
    /\ fbo = FALSE
    /\ eglImage = FALSE
    /\ cons = "idle"
    /\ consOp = "read"
    /\ uploaded = NoShape

-----------------------------------------------------------------------------
(* app_stream.                                                             *)

\* app_stream starts: a fresh segment, zero-filled, and the named
\* semaphores, created with value 1 unless they survive an earlier run.
ProducerStart ==
    /\ prod = "down"
    /\ prod' = "idle"
    /\ shmSeg' = crashes + 1
    /\ semsExist' = TRUE
    /\ semShm' = IF semsExist THEN semShm ELSE 1
    /\ UNCHANGED <<frame, crashes, helperVars>>

\* sem_wait(sem_shm) before writing a frame.
ProducerLock ==
    /\ prod = "idle"
    /\ semShm = 1
    /\ semShm' = 0
    /\ prod' = "writing"
    /\ UNCHANGED <<shmSeg, frame, semsExist, crashes, helperVars>>

\* The frame is written and sem_shm posted.
ProducerWrite(s) ==
    /\ prod = "writing"
    /\ frame' = [frame EXCEPT ![shmSeg] = s]
    /\ semShm' = 1
    /\ prod' = "idle"
    /\ UNCHANGED <<shmSeg, semsExist, crashes, helperVars>>

\* app_stream dies, inside its critical section if CrashInCritical.  Its segment is
\* removed for new shmget calls but stays mapped where attached; a named
\* semaphore keeps its value.
ProducerCrash ==
    /\ prod = "idle" \/ (CrashInCritical /\ prod = "writing")
    /\ crashes < MaxCrashes
    /\ prod' = "down"
    /\ shmSeg' = NoSeg
    /\ crashes' = crashes + 1
    /\ UNCHANGED <<frame, semsExist, semShm, helperVars>>

-----------------------------------------------------------------------------
(* GrabberHelper.                                                          *)

\* GetShm: shmget and shmat only while nothing is attached yet.
GetShm == IF attached # NoSeg THEN attached ELSE shmSeg

\* GetSem: sem_open of the names app_stream created.
GetSem == semOpen \/ semsExist

\* InitImageTex: attach, read the frame outside sem_shm, and allocate the
\* texture with its shape if it is valid.
InitImageTex ==
    LET g == GetShm IN
    /\ attached' = g
    /\ IF g # NoSeg /\ Valid(frame[g])
       THEN texReady' = TRUE /\ texShape' = frame[g]
       ELSE UNCHANGED <<texReady, texShape>>

\* The constructor: vertex data, then InitImageTex.
Construct ==
    /\ helper = "none"
    /\ helper' = "live"
    /\ InitImageTex
    /\ UNCHANGED <<semOpen, fbo, eglImage, cons, consOp, uploaded, prodVars>>

\* The destructor: shmdt, sem_close, GL objects deleted.
Destroy ==
    /\ helper = "live"
    /\ cons = "idle"
    /\ helper' = "none"
    /\ attached' = NoSeg
    /\ semOpen' = FALSE
    /\ fbo' = FALSE
    /\ eglImage' = FALSE
    /\ texReady' = FALSE
    /\ texShape' = NoShape
    /\ UNCHANGED <<cons, consOp, uploaded, prodVars>>

\* UpdateAndReadPixel or updataEglImage enters UpdateImageTex: InitImageTex
\* if the texture is not ready, then, if it is and GetSem succeeds, block
\* in sem_wait(sem_shm); otherwise the grab returns false.
GrabBegin(op) ==
    /\ helper = "live"
    /\ cons = "idle"
    /\ consOp' = op
    /\ IF texReady
       THEN UNCHANGED <<attached, texReady, texShape>>
       ELSE InitImageTex
    /\ IF texReady'
       THEN /\ semOpen' = GetSem
            /\ cons' = IF GetSem THEN "wait" ELSE "idle"
       ELSE /\ cons' = "idle"
            /\ UNCHANGED semOpen
    /\ UNCHANGED <<helper, fbo, eglImage, uploaded, prodVars>>

\* Mutant: the upload proceeds without sem_wait.
GrabLockNoWait ==
    /\ cons = "wait"
    /\ cons' = "upload"
    /\ UNCHANGED <<helper, attached, semOpen, texReady, texShape, fbo, eglImage, consOp, uploaded, prodVars>>

\* sem_wait(sem_shm) returns.
GrabLock ==
    /\ cons = "wait"
    /\ semShm = 1
    /\ semShm' = 0
    /\ cons' = "upload"
    /\ UNCHANGED <<prod, shmSeg, frame, semsExist, crashes>>
    /\ UNCHANGED <<helper, attached, semOpen, texReady, texShape, fbo, eglImage, consOp, uploaded>>

\* Mutant: sem_shm is posted only after a frame that passed CheckDataInfo.
GrabUploadPostOnSuccess ==
    /\ cons = "upload"
    /\ semShm' = IF Valid(frame[attached]) THEN 1 ELSE semShm
    /\ cons' = "render"
    /\ uploaded' = frame[attached]
    /\ UNCHANGED <<prod, shmSeg, frame, semsExist, crashes>>
    /\ UNCHANGED <<helper, attached, semOpen, texReady, texShape, fbo, eglImage, consOp>>

\* Mutant: sem_shm posted where sem_grab is meant, so posted twice.
GrabUploadPostsShmTwice ==
    /\ cons = "upload"
    /\ semShm' = semShm + 2
    /\ cons' = "render"
    /\ uploaded' = frame[attached]
    /\ UNCHANGED <<prod, shmSeg, frame, semsExist, crashes>>
    /\ UNCHANGED <<helper, attached, semOpen, texReady, texShape, fbo, eglImage, consOp>>

\* CheckDataInfo, glTexSubImage2D of the frame into the texture, then
\* sem_post(sem_shm) and sem_post(sem_grab) whatever the check said.
GrabUpload ==
    /\ cons = "upload"
    /\ semShm' = 1
    /\ cons' = "render"
    /\ uploaded' = frame[attached]
    /\ UNCHANGED <<prod, shmSeg, frame, semsExist, crashes>>
    /\ UNCHANGED <<helper, attached, semOpen, texReady, texShape, fbo, eglImage, consOp>>

\* RenderToFboTex (BindFbo creates the FBO the first time, and may fail
\* and be retried on the next grab; once bound, the viewport is computed
\* from data_info->width and height, read again from shared memory after
\* sem_post), then ReadFboTexPixel, or for updataEglImage the EGL image of
\* the FBO texture, created once.
GrabRender ==
    /\ cons = "render"
    /\ cons' = "idle"
    /\ \E ok \in IF fbo THEN {TRUE} ELSE BOOLEAN :
          /\ fbo' = ok
          /\ eglImage' = (eglImage \/ (ok /\ consOp = "egl"))
    /\ UNCHANGED <<helper, attached, semOpen, texReady, texShape, consOp, uploaded, prodVars>>

Next ==
    \/ ProducerStart
    \/ ProducerLock
    \/ \E s \in Frames : ProducerWrite(s)
    \/ ProducerCrash
    \/ Construct
    \/ Destroy
    \/ \E op \in {"read", "egl"} : GrabBegin(op)
    \/ GrabLock
    \/ GrabUpload
    \/ GrabRender

\* Once a grab is blocked in sem_wait, it is woken when sem_shm is free
\* (app_stream takes it only once per frame, so it is free again and again:
\* strong fairness); the rest of a grab runs without blocking.  app_stream
\* finishes a frame it started.  Neither side is obliged to start anything.
Fairness ==
    /\ SF_vars(GrabLock)
    /\ WF_vars(GrabUpload)
    /\ WF_vars(GrabRender)
    /\ WF_vars(\E s \in Frames : ProducerWrite(s))

Spec == Init /\ [][Next]_vars /\ Fairness

-----------------------------------------------------------------------------
(* Properties                                                              *)

\* sem_shm is a lock between the grabber and app_stream (ShmMutex): the
\* grabber's glTexSubImage2D in UpdateImageTex and app_stream's write of a
\* frame each run only after a sem_wait that found sem_shm free, never
\* together, and each ends with the sem_post that frees it, also when
\* CheckDataInfo rejected the frame and across app_stream restarts that
\* find the named semaphore left over.
Holders ==
    {a \in {"producer", "grabber"} :
        IF a = "producer" THEN prod = "writing" ELSE cons = "upload"}

Mutex == INSTANCE ShmMutex
            WITH Actors <- {"producer", "grabber"},
                 holders <- Holders,
                 taken <- semsExist /\ semShm = 0

ImplementsShmMutex == Mutex!Spec

\* A grab shows the frame app_stream last wrote, as it wrote it.  Three
\* ways the code can break this, one conjunct each:
\*  - the frame UpdateImageTex passes to glTexSubImage2D with
\*    m_img_tex_gl_format/type has the shape the texture was allocated with
\*    in InitImageTex (the texture is sized once);
\*  - it is read from the segment app_stream writes now, not one an earlier
\*    app_stream left behind (GetShm attaches only while shm_id is -1);
\*  - RenderToFboTex, which reads data_info->width and height again after
\*    sem_post(sem_shm), finds the frame it uploaded there, neither a newer
\*    one nor one app_stream is in the middle of writing.
UploadMatchesTexture ==
    cons = "upload" /\ Valid(frame[attached]) => frame[attached] = texShape

UploadFromLiveSegment ==
    cons = "upload" => shmSeg \in {attached, NoSeg}

ViewportFromUploadedFrame ==
    [][cons = "render" /\ cons' = "idle" /\ fbo' =>
          /\ frame[attached] = uploaded
          /\ ~(prod = "writing" /\ attached = shmSeg)]_vars

GrabShowsCurrentFrame ==
    /\ [](UploadMatchesTexture /\ UploadFromLiveSegment)
    /\ ViewportFromUploadedFrame

\* A grab that has started finishes: UpdateImageTex's sem_wait(sem_shm)
\* returns and the grab returns to its caller.
GrabCompletes == cons \in {"wait", "upload", "render"} ~> cons = "idle"

=============================================================================

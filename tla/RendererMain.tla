---------------------------- MODULE RendererMain ----------------------------
(***************************************************************************)
(* The fde-renderer process (android-emugl/host/fde-renderer/main.cpp):    *)
(* it installs SignalTerminal for SIGINT and SIGTERM with SA_RESETHAND,     *)
(* loads the render library (android_initOpenglesEmulation), starts the    *)
(* renderer (android_startOpenglesRenderer, which runs GpuDetection), then *)
(* sleeps in "while (!terminal) pause();" and on the way out stops the     *)
(* renderer with android_stopOpenglesRenderer(true).                       *)
(*                                                                         *)
(* The loop's test of terminal and its call of pause() are two steps: a    *)
(* signal can be delivered between them.  SA_RESETHAND restores the        *)
(* default disposition once the handler has run, so a later SIGINT or     *)
(* SIGTERM terminates the process.  Signals are the environment's steps,   *)
(* bounded by MaxSignals.                                                  *)
(***************************************************************************)
EXTENDS GpuDetection

CONSTANTS
    MaxSignals  \* bound: SIGINT/SIGTERM deliveries in a behaviour

VARIABLES
    pc,         \* where main is: register, init, start, check, prePause,
                \* paused, stop, exit (main returned), killed
    handler,    \* disposition of SIGINT/SIGTERM: default, handler, reset
    terminal,   \* the static bool SignalTerminal sets
    lib,        \* sRenderLib (and its EGL/GLES dispatch tables) loaded
    renderer,   \* sRenderer: none, up (render server started), stopped
    signals     \* signals delivered so far

mainVars == <<pc, handler, terminal, lib, renderer, signals>>
vars == <<gpuVars, mainVars>>

MainTypeOK ==
    /\ GpuTypeOK
    /\ pc \in {"register", "init", "start", "check", "prePause", "paused",
               "stop", "exit", "killed"}
    /\ handler \in {"default", "handler", "reset"}
    /\ terminal \in BOOLEAN
    /\ lib \in BOOLEAN
    /\ renderer \in {"none", "up", "stopped"}
    /\ signals \in 0..MaxSignals

Init ==
    /\ GpuInit
    /\ pc = "register"
    /\ handler = "default"
    /\ terminal = FALSE
    /\ lib = FALSE
    /\ renderer = "none"
    /\ signals = 0

\* The two sigaction calls (they fail only for invalid arguments, which
\* these are not) and setenv("ANDROID_EMU_HEADLESS", "1", 0).
Register ==
    /\ pc = "register"
    /\ handler' = "handler"
    /\ pc' = "init"
    /\ UNCHANGED <<gpuVars, terminal, lib, renderer, signals>>

\* android_initOpenglesEmulation: initLibrary may fail (it returns -1).
initOpenglesEmulation(ok) == IF ok THEN lib' = TRUE ELSE UNCHANGED lib

\* main calls it and returns -3 when it failed.
InitEmulation ==
    /\ pc = "init"
    /\ \E ok \in BOOLEAN :
          /\ initOpenglesEmulation(ok)
          /\ pc' = IF ok THEN "start" ELSE "exit"
    /\ UNCHANGED <<gpuVars, handler, terminal, renderer, signals>>

\* android_startOpenglesRenderer: the library checks pass after a
\* successful init and sRenderer is null; the GPU step picks EGL_PLATFORM;
\* initRenderer may fail (main returns -5), else StartRenderServer.
StartRenderer ==
    /\ pc = "start"
    /\ lib /\ renderer = "none"
    /\ SelectEglPlatform
    /\ \/ renderer' = "up" /\ pc' = "check"
       \/ UNCHANGED renderer /\ pc' = "exit"
    /\ UNCHANGED <<handler, terminal, lib, signals>>

\* while (!terminal): the test.
CheckTerminal ==
    /\ pc = "check"
    /\ pc' = IF terminal THEN "stop" ELSE "prePause"
    /\ UNCHANGED <<gpuVars, handler, terminal, lib, renderer, signals>>

\* pause(): it returns only when a handler has run.
Pause ==
    /\ pc = "prePause"
    /\ pc' = "paused"
    /\ UNCHANGED <<gpuVars, handler, terminal, lib, renderer, signals>>

\* android_stopOpenglesRenderer(true): sRenderer->stop(true) and reset;
\* main returns 0.
StopRenderer ==
    /\ pc = "stop"
    /\ renderer' = IF renderer = "up" THEN "stopped" ELSE renderer
    /\ pc' = "exit"
    /\ UNCHANGED <<gpuVars, handler, terminal, lib, signals>>

\* SIGINT or SIGTERM.  With the handler installed SignalTerminal sets
\* terminal, the disposition is reset, and a pause() in progress returns;
\* with the default disposition the process is terminated.
Signal ==
    /\ signals < MaxSignals
    /\ pc \notin {"exit", "killed"}
    /\ signals' = signals + 1
    /\ \/ /\ handler = "handler"
          /\ terminal' = TRUE
          /\ handler' = "reset"
          /\ pc' = IF pc = "paused" THEN "check" ELSE pc
       \/ /\ handler # "handler"
          /\ pc' = "killed"
          /\ UNCHANGED <<terminal, handler>>
    /\ UNCHANGED <<gpuVars, lib, renderer>>

Next ==
    \/ Register
    \/ InitEmulation
    \/ StartRenderer
    \/ CheckTerminal
    \/ Pause
    \/ StopRenderer
    \/ Signal

\* main's own steps are never blocked except in pause(); signals are not
\* obliged to come.
Fairness == WF_vars(Register \/ InitEmulation \/ StartRenderer
                    \/ CheckTerminal \/ Pause \/ StopRenderer)

Spec == Init /\ [][Next]_vars /\ Fairness

-----------------------------------------------------------------------------
(* Properties                                                              *)

\* A SIGINT or SIGTERM the handler catches makes main leave its loop, stop
\* the renderer with android_stopOpenglesRenderer(true) and return.
StopsOnTerminate == terminal ~> pc = "exit"

=============================================================================

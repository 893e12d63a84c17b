------------------------------ MODULE ShmMutex ------------------------------
(***************************************************************************)
(* What the named semaphore "sem_shm" stands for between GrabberHelper    *)
(* and app_stream: a lock around the frame in shared memory.  An actor    *)
(* takes the lock only when it is free, is then the only one in its       *)
(* critical section, and gives it back.  Grabber refines this module.     *)
(***************************************************************************)
CONSTANTS
    Actors      \* the processes that share the frame

VARIABLES
    holders,    \* the actors inside their critical section
    taken       \* the lock is held

Init ==
    /\ holders = {}
    /\ taken = FALSE

Acquire(a) ==
    /\ ~taken
    /\ taken' = TRUE
    /\ holders' = {a}

Release(a) ==
    /\ holders = {a}
    /\ taken' = FALSE
    /\ holders' = {}

Next == \E a \in Actors : Acquire(a) \/ Release(a)

\* Nobody is obliged to take the lock; whoever has it gives it back.
Spec == Init /\ [][Next]_<<holders, taken>>
             /\ \A a \in Actors : WF_<<holders, taken>>(Release(a))

=============================================================================

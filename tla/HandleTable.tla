----------------------------- MODULE HandleTable -----------------------------
(***************************************************************************)
(* What FrameBuffer's handle table promises the guest: every resource it  *)
(* creates (context, surface, colour buffer, data buffer) is named by an  *)
(* id that no resource of any kind has had before, so a handle a guest    *)
(* still holds after the resource died never names a new one.  An id may  *)
(* be handed out and nothing created under it (the driver failed).       *)
(* Resources die in any number and any kind at once (process cleanup,    *)
(* thread drains, reaping).  FrameBuffer refines this module as long as   *)
(* s_nextHandle does not wrap.                                            *)
(***************************************************************************)
CONSTANTS
    Kinds,      \* the kinds of resource, one map each
    Ids         \* the ids the allocator can hand out

VARIABLES
    live,       \* live[k]: ids of the resources of kind k that exist
    issued      \* ids handed out so far

Init ==
    /\ live = [k \in Kinds |-> {}]
    /\ issued = {}

\* A fresh id is handed out; a resource of one kind may be created under it.
Issue(h) ==
    /\ h \in Ids \ issued
    /\ issued' = issued \cup {h}
    /\ \/ \E k \in Kinds : live' = [live EXCEPT ![k] = @ \cup {h}]
       \/ UNCHANGED live

\* Resources are destroyed.
Retire ==
    /\ \A k \in Kinds : live'[k] \subseteq live[k]
    /\ DOMAIN live' = Kinds
    /\ UNCHANGED issued

Next == (\E h \in Ids : Issue(h)) \/ Retire

Spec == Init /\ [][Next]_<<live, issued>>

=============================================================================

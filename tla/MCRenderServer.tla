---------------------------- MODULE MCRenderServer ---------------------------
(* RenderServer instantiated for TLC.  The .cfg files choose the render-  *)
(* thread slots, the guest process ids, the displays and the bounds.      *)
EXTENDS RenderServer

MCPuidValues == {1, 2}
MCLegacyPuidValues == {0}
MCOnePuid == {1}

\* Render-thread slots are interchangeable: nothing in the server or the
\* handle table depends on which slot a connection gets.  Used only by
\* runs that check safety.
MCThreadSymmetry == Permutations(Threads)
=============================================================================

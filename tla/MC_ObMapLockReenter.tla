------------------------- MODULE MC_ObMapLockReenter -------------------------
(***************************************************************************)
(* T1 pushes while T2 filters with a callback that calls ObMap_Size.       *)
(***************************************************************************)
EXTENDS ObMapLockReenter

CONSTANTS T1, T2

MCThreads == {T1, T2}
MCOps == (T1 :> {"Push"}) @@ (T2 :> {"Filter"})
MCReenter == {T2}
MCValues == {3, 4}
MCKeys == {0, 5}

=============================================================================

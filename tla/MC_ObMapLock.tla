---------------------------- MODULE MC_ObMapLock ----------------------------
(***************************************************************************)
(* Model values for ObMapLock: two threads T1 and T2 and the calls each    *)
(* makes.                                                                  *)
(***************************************************************************)
EXTENDS ObMapLock

CONSTANTS T1, T2

MCThreads == {T1, T2}

\* Both threads make every kind of call.
MCOpsAll == [t \in MCThreads |-> OpKinds]

MCValues == {3, 4}
MCKeys == {0, 5}

=============================================================================

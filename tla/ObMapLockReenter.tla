-------------------------- MODULE ObMapLockReenter --------------------------
(***************************************************************************)
(* ObMapLock with Filter callbacks that call back into the same map:      *)
(* _ObMap_Filter calls pfnFilterCB once per entry with LockSRW held       *)
(* shared, and the callback of a thread in REENTER calls ObMap_Size, which *)
(* takes the lock shared a second time.                                    *)
(***************************************************************************)
EXTENDS ObMapLock

CONSTANT REENTER   \* threads whose Filter callback calls ObMap_Size on the map

ASSUME REENTER \subseteq Threads

\* The body of a Filter call that reaches its callback.
CallsBack(t) == t \in REENTER /\ pc[t] = "body" /\ op[t] = "Filter" /\ pm.c > 1

\* _ObMap_Filter calls the callback for entry 1.
FilterCallback(t) ==
  /\ CallsBack(t)
  /\ Goto(t, "callback")
  /\ UNCHANGED <<mapVars, op, owner, shared, calls, got, callerRefs>>

\* The callback's ObMap_Size takes the lock shared.
CallbackAcquire(t) ==
  /\ pc[t] = "callback"
  /\ CanShare
  /\ shared' = [shared EXCEPT ![t] = @ + 1]
  /\ Goto(t, "callback_body")
  /\ UNCHANGED <<mapVars, op, owner, calls, got, callerRefs>>

CallbackSize(t) ==
  /\ pc[t] = "callback_body"
  /\ Answer("Size", <<>>, pm.c - 1)
  /\ Goto(t, "callback_release")
  /\ UNCHANGED <<valid, op, owner, shared, calls, got, callerRefs>>

\* ObMap_Size releases its hold and returns into the callback; the
\* remaining callbacks do not re-enter, and _ObMap_Filter completes.
CallbackRelease(t) ==
  /\ pc[t] = "callback_release"
  /\ shared' = [shared EXCEPT ![t] = @ - 1]
  /\ ObMap_Filter(FilterCB)
  /\ Goto(t, "release")
  /\ UNCHANGED <<valid, op, owner, calls, got, callerRefs>>

ReenterStep(t) ==
  \/ Step(t) /\ ~CallsBack(t)
  \/ FilterCallback(t)
  \/ CallbackAcquire(t)
  \/ CallbackSize(t)
  \/ CallbackRelease(t)

ReenterSpec == LockInit /\ [][(\E t \in Threads : ReenterStep(t)) \/ Finished]_allVars
               /\ \A t \in Threads : WF_allVars(ReenterStep(t))

=============================================================================

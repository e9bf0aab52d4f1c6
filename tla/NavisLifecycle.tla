-------------------------- MODULE NavisLifecycle --------------------------
(***************************************************************************)
(* What the workflow tables promise their readers (the query manager, the  *)
(* event handler, later sessions) about one workflow: how its status moves *)
(* and when its steps may change. The status graph is the one the guards   *)
(* of WorkflowRunner leave (navis/engine/runner.py), not the one           *)
(* navis/status.py lists: DEGRADED, FAILED and COMPLETED are never         *)
(* reached, and a PAUSED workflow stays so.                                *)
(***************************************************************************)
VARIABLES status, steps
vars == <<status, steps>>

Moves == {<<"ABSENT", "NEW">>, <<"NEW", "ACTIVE">>, <<"NEW", "CANCELLED">>,
          <<"ACTIVE", "PAUSED">>, <<"ACTIVE", "CANCELLED">>}

Init == status = "ABSENT" /\ DOMAIN steps = {}

(* The status moves along the graph; no step changes with it.              *)
Move == <<status, status'>> \in Moves /\ UNCHANGED steps

(* At most one step is created or changed, at an ACTIVE workflow; none is  *)
(* ever removed, and a new one starts out active.                          *)
Work == /\ status = "ACTIVE" /\ UNCHANGED status
        /\ DOMAIN steps \subseteq DOMAIN steps'
        /\ \E s \in DOMAIN steps' :
             /\ \A t \in DOMAIN steps' \ {s} : t \in DOMAIN steps /\ steps'[t] = steps[t]
             /\ s \notin DOMAIN steps => steps'[s].status = "ACTIVE"

Next == Move \/ Work
Spec == Init /\ [][Next]_vars
=============================================================================

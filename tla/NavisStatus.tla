---------------------------- MODULE NavisStatus ----------------------------
(***************************************************************************)
(* The status vocabulary of the workflow engine (navis/status.py) and the  *)
(* pure functions the runner computes a status and a progress with.        *)
(***************************************************************************)
EXTENDS Integers, FiniteSets

(* status.py: class WorkflowStatus and the tuples attached to it.          *)
WorkflowStatus ==
  {"NEW", "ACTIVE", "DEGRADED", "PAUSED", "FAILED", "COMPLETED", "CANCELLED"}
WfActive   == {"ACTIVE", "DEGRADED"}
WfEditable == WfActive \cup {"NEW"}
WfFinished == {"COMPLETED", "CANCELLED", "FAILED"}

(* status.py: class StepStatus.                                            *)
StepStatus   == {"ACTIVE", "ERROR", "COMPLETED", "CANCELLED", "IGNORED"}
StepFinished == {"COMPLETED", "IGNORED", "CANCELLED"}

CONSTANT None  \* Python's None

(* The statuses at which each operation is accepted (allow_statuses of its *)
(* decorator). Only the step's `recall` has no list at all.                *)
StatusOps == {"start", "cancel", "abort", "pause", "resume"}

AllowedAtAnyStatus(op, onStep) == IF op = "start" THEN {"NEW"} ELSE WorkflowStatus
AllowedAt(op, onStep) ==
  CASE op = "start"  -> {"NEW"}
    [] op = "abort"  -> {"DEGRADED"}
    [] op = "pause"  -> {"ACTIVE"}
    [] op = "resume" -> {"PAUSED"}
    [] op \in {"cancel", "output", "add_participant"} -> WfEditable
    [] op = "recall" /\ onStep -> WorkflowStatus
    [] OTHER -> WfActive

(* The status an operation of StatusOps asks for; resume asks for the one  *)
(* remembered when the workflow was paused.                                *)
TargetOf(op, paused) == CASE op = "start"  -> "ACTIVE"
                          [] op = "cancel" -> "CANCELLED"
                          [] op = "abort"  -> "FAILED"
                          [] op = "pause"  -> "PAUSED"
                          [] op = "resume" -> paused

(* _set_state accepts a new status only while the current one is ACTIVE or *)
(* NEW (P00.006), whatever the operation was allowed at: nothing leaves    *)
(* PAUSED or DEGRADED, so resume and abort always end in that error.       *)
AnyStatusChange(status) == TRUE
MayChangeStatus(status) == status \in {"ACTIVE", "NEW"}

(* compute_progress: finished steps over all steps, kept as a fraction.    *)
Progress(status, steps) ==
  << Cardinality({s \in steps : status[s] \in StepFinished}),
     IF steps = {} THEN 1 ELSE Cardinality(steps) >>
SameFraction(p, q) == p[1] * q[2] = q[1] * p[2]

(* What status.py says the status of a workflow with these steps is.       *)
DocumentedStatus(status, steps) ==
  IF \E s \in steps : status[s] = "ERROR" THEN "DEGRADED"
  ELSE IF steps # {} /\ \A s \in steps : status[s] \in StepFinished
       THEN "COMPLETED" ELSE None

(* compute_status as written: `[s for s in steps if s.data.status]` keeps  *)
(* the step objects, not their statuses. No step object equals             *)
(* StepStatus.ERROR or is a member of _FINISHED, so neither test succeeds  *)
(* for any list of steps.                                                  *)
ComputeStatus(status, steps) == None
=============================================================================

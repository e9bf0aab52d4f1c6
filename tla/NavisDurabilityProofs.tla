----------------------- MODULE NavisDurabilityProofs -----------------------
(***************************************************************************)
(* Proofs about what NavisRunner leaves in the tables: failed transactions *)
(* never reach them, every change in memory is on its way to them,         *)
(* persisting never collides with a row or misses one, steps change only   *)
(* at an active workflow, and readers see the life cycle of NavisLifecycle.*)
(***************************************************************************)
EXTENDS NavisRunnerProofs

(* A mutation that says all there is to say: an insert of a new object     *)
(* with every field, or an update that carries each field it changes.      *)
Complete(kind, o, rec, fields) ==
  /\ fields \subseteq DOMAIN rec
  /\ kind = "insert" => o \notin DOMAIN data /\ fields = DOMAIN rec
  /\ kind = "update" => /\ o \in DOMAIN data /\ DOMAIN rec = DOMAIN data[o]
                        /\ \A f \in DOMAIN rec \ fields : rec[f] = data[o][f]

(* What a call, or the end of one, does to memory.                         *)
MemoryStep ==
  \/ UNCHANGED inMemory
  \/ \E kind \in {"insert", "update"}, o \in Objects, action \in Actions :
       \E rec \in RowOf(o) : \E fields \in SUBSET DOMAIN rec :
         MutateAs(kind, o, rec, fields, action) /\ Complete(kind, o, rec, fields)

RunnerStep == \/ UserCall \/ \E keys \in NonEmpty : SetNewStepMemory(keys)
              \/ EndTransitionHook \/ EndHandler \/ Return

LEMMA CompleteUpdate ==
  ASSUME NEW o \in Objects, o \in DOMAIN data, NEW rec \in RowOf(o), data[o] \in RowOf(o),
         NEW fields \in SUBSET DOMAIN rec, NEW action \in Actions,
         \A f \in DOMAIN rec \ fields : rec[f] = data[o][f],
         MutateAs("update", o, rec, fields, action)
  PROVE  MemoryStep
<1>1. DOMAIN rec = DOMAIN data[o]
  BY DEF RowOf, WfRow, StepRow, WfRecords, StepRecords
<1>2. Complete("update", o, rec, fields)
  BY <1>1 DEF Complete
<1> QED BY <1>2 DEF MemoryStep

LEMMA UpdateStepComplete ==
  ASSUME MemoryOK, NEW s \in Steps, NEW to \in States, NEW action \in Actions,
         UpdateStep(s, to, action)
  PROVE  MemoryStep
<1> DEFINE rec == [data[s] EXCEPT !.state = to, !.status = StepStatusAt(to, @)]
           fields == IF to = Begin THEN {"state"} ELSE {"state", "status"}
<1>1. s \in Objects /\ s \in DOMAIN data /\ s # Wf /\ data[s] \in StepRow
  BY DEF MemoryOK, IsTable, RowOf, Steps
<1>2. /\ rec \in RowOf(s) /\ data[s] \in RowOf(s) /\ fields \in SUBSET DOMAIN rec
      /\ \A f \in DOMAIN rec \ fields : rec[f] = data[s][f]
  <2>1. rec \in RowOf(s) /\ data[s] \in RowOf(s) /\ fields \in SUBSET DOMAIN rec
    BY <1>1 DEF RowOf, StepRow, StepRecords, StepColumns, StepStatus, StepStatusAt
  <2>2. to = Begin => StepStatusAt(to, data[s].status) = data[s].status
    BY StatesAssumption DEF StepStatusAt, Begin, Finish
  <2>3. \A f \in DOMAIN rec \ fields : rec[f] = data[s][f]
    BY <1>1, <2>2 DEF StepRow, StepRecords, StepColumns
  <2> QED BY <2>1, <2>3
<1>3. MutateAs("update", s, rec, fields, action)
  BY DEF UpdateStep, Mutate
<1> HIDE DEF rec, fields
<1> QED BY <1>1, <1>2, <1>3, CompleteUpdate

LEMMA ReconcileComplete ==
  ASSUME MemoryOK, Acting \in Actions, Reconcile,
         Reconciled \in WfRow
  PROVE  MemoryStep
<1>1. Wf \in DOMAIN data /\ Wf \in Objects /\ data[Wf] \in WfRow
  BY DEF MemoryOK, IsTable, RowOf
<1>2. CASE ReconciledFields = {}
  BY <1>2 DEF Reconcile, MemoryStep
<1>3. CASE ReconciledFields # {}
  <2>1. MutateAs("update", Wf, Reconciled, ReconciledFields, Acting)
    BY <1>3 DEF Reconcile, Mutate
  <2>2. ReconciledFields = {"progress"}
    BY <1>1, <1>3 DEF Reconciled, ReconciledFields, ComputeStatus, Status,
                      WfRow, WfRecords, WfColumns
  <2>3. \A f \in DOMAIN Reconciled \ {"progress"} : Reconciled[f] = data[Wf][f]
    BY <1>1 DEF Reconciled, ComputeStatus, WfRow, WfRecords, WfColumns
  <2>4. {"progress"} \in SUBSET DOMAIN Reconciled
    BY DEF WfRow, WfRecords
  <2> QED BY <1>1, <2>1, <2>2, <2>3, <2>4, CompleteUpdate DEF RowOf
<1> QED BY <1>2, <1>3

(* Every call and every end of one is a memory step in an open transaction *)
(* and leaves everything outside the runner alone.                         *)
LEMMA SetStatusComplete == ASSUME IInv, NEW op \in StatusOps, SetStatus(op) PROVE MemoryStep
<1> DEFINE paused == IF op = "pause" THEN Status
                     ELSE IF op = "resume" THEN None ELSE data[Wf].paused
           rec == [data[Wf] EXCEPT !.status = TargetOf(op, data[Wf].paused),
                                   !.paused = paused]
           fields == IF op = "pause" THEN {"status", "paused"} ELSE {"status"}
<1>1. data[Wf] \in WfRow /\ Wf \in DOMAIN data /\ Wf \in Objects
  BY DEF IInv, TypeOK, MemoryOK, IsTable, RowOf, Objects
<1>2. op \in {"start", "cancel", "abort", "pause"}
  BY DEF SetStatus, SimpleCall, Call, AllowedAt, MayChangeStatus, StatusOps, WfEditable
<1>3. rec \in RowOf(Wf) /\ fields \in SUBSET DOMAIN rec /\ data[Wf] \in RowOf(Wf)
  BY <1>1, <1>2 DEF RowOf, WfRow, WfRecords, WfColumns, WorkflowStatus, TargetOf, Status
<1>4. \A f \in DOMAIN rec \ fields : rec[f] = data[Wf][f]
  BY <1>1, <1>2 DEF WfRow, WfRecords, WfColumns
<1>5. MutateAs("update", Wf, rec, fields, op) /\ op \in Actions
  BY DEF SetStatus, Mutate, Actions
<1> HIDE DEF rec, fields
<1> QED BY <1>1, <1>3, <1>4, <1>5, CompleteUpdate

LEMMA MemorizeComplete ==
  ASSUME MemoryOK, NEW o \in DOMAIN data, NEW keys, keys \subseteq MemKeys,
         NEW action \in Actions,
         Mutate(o, [data[o] EXCEPT !.memory = @ \cup keys], {"memory"}, action)
  PROVE  MemoryStep
<1> DEFINE rec == [data[o] EXCEPT !.memory = @ \cup keys]
<1>1. o \in Objects /\ data[o] \in RowOf(o)
  BY DEF MemoryOK, IsTable
<1>2. /\ rec \in RowOf(o) /\ {"memory"} \in SUBSET DOMAIN rec
      /\ \A f \in DOMAIN rec \ {"memory"} : rec[f] = data[o][f]
  BY <1>1 DEF RowOf, WfRow, StepRow, WfRecords, StepRecords, WfColumns, StepColumns
<1>3. MutateAs("update", o, rec, {"memory"}, action)
  BY DEF Mutate
<1> HIDE DEF rec
<1> QED BY <1>1, <1>2, <1>3, CompleteUpdate

LEMMA WorkflowComplete ==
  ASSUME IInv,
         \/ \E keys \in NonEmpty : Output(keys)
         \/ \E op \in {"add_task", "add_participant"}, o \in DOMAIN data : AddRow(op, o)
  PROVE  MemoryStep
<1>1. Wf \in Objects /\ Wf \in DOMAIN data /\ data[Wf] \in WfRow /\ data[Wf] \in RowOf(Wf)
  BY DEF IInv, TypeOK, MemoryOK, IsTable, RowOf
<1>2. ASSUME NEW keys \in NonEmpty, Output(keys) PROVE MemoryStep
  <2> DEFINE rec == [data[Wf] EXCEPT !.output = @ \cup keys]
  <2>1. /\ rec \in RowOf(Wf) /\ {"output"} \in SUBSET DOMAIN rec
        /\ \A f \in DOMAIN rec \ {"output"} : rec[f] = data[Wf][f]
    BY <1>1 DEF RowOf, WfRow, WfRecords, WfColumns, NonEmpty
  <2>2. MutateAs("update", Wf, rec, {"output"}, "output") /\ "output" \in Actions
    BY <1>2 DEF Output, Mutate, Actions
  <2> HIDE DEF rec
  <2> QED BY <1>1, <2>1, <2>2, CompleteUpdate
<1>3. ASSUME NEW op \in {"add_task", "add_participant"}, NEW o \in DOMAIN data, AddRow(op, o)
      PROVE MemoryStep
  <2>1. MutateAs("update", Wf, data[Wf], {}, op) /\ op \in Actions
    BY <1>3 DEF AddRow, Mutate, Actions
  <2> QED BY <1>1, <2>1, CompleteUpdate
<1> QED BY <1>2, <1>3

LEMMA AddStepComplete ==
  ASSUME IInv, NEW o \in DOMAIN data, NEW key \in Keys,
         NEW selector \in Selectors \cup {None}, NEW at \in {"memory", "hook"},
         AddStep(o, key, selector, at)
  PROVE  MemoryStep
<1> DEFINE id  == StepIdFor(key)
           sel == IF selector = None THEN id ELSE selector
<1>1. id \in StepIds /\ id \in Objects /\ id # Wf
  <2>1. IsFiniteSet(Steps)
    BY FS_RemoveElement DEF IInv, TypeOK, MemoryOK, IsTable, Steps
  <2>2. Cardinality(Steps) \in Nat
    BY <2>1, FS_CardinalityType
  <2> QED BY <2>2, RowTypes DEF StepIdFor, StepIds, Objects
<1>2. NewStep(sel) \in RowOf(id) /\ DOMAIN NewStep(sel) \in SUBSET DOMAIN NewStep(sel)
  BY <1>1, RowTypes DEF RowOf
<1>3. /\ MutateAs("insert", id, NewStep(sel), DOMAIN NewStep(sel), "add_step")
      /\ id \notin DOMAIN data /\ "add_step" \in Actions
  BY DEF AddStep, Insert, MayAddStep, Actions
<1> HIDE DEF id, sel
<1>4. Complete("insert", id, NewStep(sel), DOMAIN NewStep(sel))
  BY <1>3 DEF Complete
<1> QED BY <1>1, <1>2, <1>3, <1>4 DEF MemoryStep

LEMMA RunnerSteps ==
  ASSUME IInv, RunnerStep
  PROVE  phase = "open" /\ txn = ntxn /\ txn \in Nat /\ UNCHANGED outside /\ MemoryStep
<1>1. MemoryOK
  BY DEF IInv, TypeOK
<1>2. phase = "open" /\ UNCHANGED outside
  BY DEF RunnerStep, UserCall, SetStatus, Memorize, Output, AddRow, Recall, AddStep,
         TransitToSame, TransitDirectly, TransitThroughHook, TransitCall, Trigger,
         SimpleCall, Call, SetNewStepMemory, EndTransitionHook, EndHandler, Return, Running
<1>3. txn = ntxn /\ txn \in Nat
  BY <1>2 DEF IInv, TxnInv, TypeOK
<1>4. ASSUME UserCall PROVE MemoryStep
  <2>1. ASSUME NEW o \in DOMAIN data, NEW keys \in NonEmpty, Memorize(o, keys)
        PROVE MemoryStep
    <3>1. keys \subseteq MemKeys /\ "memorize" \in Actions
      BY DEF NonEmpty, Actions
    <3> QED BY <1>1, <2>1, <3>1, MemorizeComplete DEF Memorize
  <2>2. ASSUME NEW o \in DOMAIN data, NEW s \in Steps, NEW to \in States,
               TransitDirectly(o, s, to)
        PROVE MemoryStep
    <3>1. TransitOp(o) \in Actions
      BY DEF TransitOp, Actions
    <3> QED BY <1>1, <2>2, <3>1, UpdateStepComplete DEF TransitDirectly
  <2>3. ASSUME NEW o \in DOMAIN data, NEW s \in Steps, NEW to \in States,
               TransitThroughHook(o, s, to)
        PROVE MemoryStep
    BY <2>3 DEF TransitThroughHook, MemoryStep
  <2>4. ASSUME NEW o \in DOMAIN data, Recall(o) \/ Trigger(o)
        PROVE MemoryStep
    BY <2>4 DEF Recall, Trigger, MemoryStep
  <2>5. ASSUME NEW o \in DOMAIN data, NEW s \in Steps, TransitToSame(o, s)
        PROVE MemoryStep
    BY <2>5 DEF TransitToSame, MemoryStep
  <2> QED BY <1>4, <2>1, <2>2, <2>3, <2>4, <2>5, SetStatusComplete, WorkflowComplete,
             AddStepComplete DEF UserCall
<1>5. ASSUME NEW keys \in NonEmpty, SetNewStepMemory(keys) PROVE MemoryStep
  <2>1. Running("memory") /\ Mutate(Top.subject, [data[Top.subject] EXCEPT !.memory = @ \cup keys],
                                    {"memory"}, Acting)
    BY <1>5 DEF SetNewStepMemory
  <2>2. Acting \in Actions /\ Top.at = "memory" /\ Len(stack) \in DOMAIN stack
    BY <2>1, TopOK DEF IInv, TypeOK, CallsOK
  <2>3. Top.subject \in DOMAIN data
    BY <2>2 DEF IInv, FrameInv, Top
  <2>4. keys \subseteq MemKeys
    BY DEF NonEmpty
  <2> QED BY <1>1, <2>1, <2>2, <2>3, <2>4, MemorizeComplete
<1>6. ASSUME EndTransitionHook PROVE MemoryStep
  <2>1. Running("body") /\ Top.op # "trigger" /\ UpdateStep(Top.subject, Top.to, Acting)
    BY <1>6 DEF EndTransitionHook
  <2>2. Acting \in Actions /\ Top.at = "body" /\ Len(stack) \in DOMAIN stack
    BY <2>1, TopOK DEF IInv, TypeOK, CallsOK
  <2>3. Top.subject \in Steps /\ Top.to \in States
    BY <2>1, <2>2 DEF IInv, FrameInv, Top, Steps
  <2> QED BY <1>1, <2>1, <2>2, <2>3, UpdateStepComplete
<1>7. ASSUME Return PROVE MemoryStep
  <2>1. Acting \in Actions
    BY <1>7, TopOK DEF Return
  <2>2. CASE Top.on = Wf
    BY <1>7, <2>2 DEF Return, MemoryStep
  <2>3. CASE Top.on # Wf
    BY <1>1, <1>7, <2>1, <2>3, ReconciledRow, ReconcileComplete DEF Return
  <2> QED BY <2>2, <2>3
<1>8. ASSUME EndHandler PROVE MemoryStep
  BY <1>8 DEF EndHandler, MemoryStep
<1> QED BY <1>2, <1>3, <1>4, <1>5, <1>6, <1>7, <1>8 DEF RunnerStep
-----------------------------------------------------------------------------
(* A failed transaction is not in the tables because its mutations are on  *)
(* the queue only while the runner is wedged; while it is open it is the   *)
(* last one begun, which nothing has persisted or failed yet.              *)
AtomicInv ==
  /\ \A i \in DOMAIN queue : /\ queue[i].txn \in 0 .. ntxn
                             /\ phase # "raised" => queue[i].txn \notin failed
  /\ log \subseteq 0 .. ntxn /\ AtomicCommit
  /\ phase = "open" => txn \notin failed \cup log

(* Every step is of one of these kinds.                                    *)
DriverStep == BeginTxn \/ EndTxn \/ Raise \/ Drain \/ EndPersist
LEMMA StepKinds ==
  ASSUME [Next]_vars
  PROVE  UNCHANGED vars \/ RunnerStep \/ DriverStep \/ PersistNext \/ Load
BY DEF Next, RunnerStep, DriverStep

LEMMA AtomicStep == ASSUME IInv, AtomicInv, [Next]_vars PROVE AtomicInv'
<1> USE DEF AtomicInv, AtomicCommit
<1>1. queue \in Seq(Envelopes) /\ ntxn \in Nat /\ failed \subseteq 0 .. ntxn
  BY DEF IInv, TypeOK, MemoryOK, TablesOK
<1>2. CASE RunnerStep
  <2>1. phase = "open" /\ txn = ntxn /\ UNCHANGED outside /\ MemoryStep
    BY <1>2, RunnerSteps
  <2>2. CASE UNCHANGED queue
    BY <2>1, <2>2 DEF outside
  <2>3. ASSUME NEW e, e.txn = txn, queue' = Append(queue, e) PROVE AtomicInv'
    <3>1. ASSUME NEW i \in DOMAIN queue'
          PROVE  (i \in DOMAIN queue /\ queue'[i] = queue[i]) \/ queue'[i].txn = ntxn
      BY <1>1, <2>1, <2>3
    <3> QED BY <1>1, <2>1, <3>1 DEF outside
  <2> QED BY <2>1, <2>2, <2>3 DEF MemoryStep, MutateAs, Envelope, inMemory
<1>3. CASE DriverStep
  <2>1. UNCHANGED <<queue, log>>
    BY <1>3 DEF DriverStep, BeginTxn, EndTxn, Raise, Drain, EndPersist, inMemory
  <2>2. CASE BeginTxn
    <3>1. phase # "raised" /\ ntxn' = ntxn + 1 /\ txn' = ntxn + 1 /\ UNCHANGED failed
      BY <2>2, NamesAssumption, <1>1 DEF BeginTxn, IInv, TxnInv
    <3> QED BY <1>1, <2>1, <3>1
  <2>3. CASE Raise
    BY <1>1, <2>1, <2>3 DEF Raise, Unwound
  <2>4. CASE EndTxn \/ Drain \/ EndPersist
    BY <1>1, <2>1, <2>4 DEF EndTxn, Drain, EndPersist
  <2> QED BY <1>3, <2>2, <2>3, <2>4 DEF DriverStep
<1>4. CASE PersistNext
  <2>1. /\ Head(queue) = queue[1] /\ 1 \in DOMAIN queue
        /\ \A i \in DOMAIN queue' : i + 1 \in DOMAIN queue /\ queue'[i] = queue[i + 1]
    BY <1>1, <1>4 DEF PersistNext
  <2>2. /\ phase = "persisting" /\ UNCHANGED <<txn, phase, ntxn, failed>>
        /\ log' = log \cup {queue[1].txn}
    BY <1>4, <2>1 DEF PersistNext
  <2> QED BY <2>1, <2>2
<1>5. CASE Load
  BY <1>5 DEF Load
<1>6. CASE UNCHANGED vars
  BY <1>6 DEF vars
<1> QED BY <1>2, <1>3, <1>4, <1>5, <1>6, StepKinds

(* A transaction an exception left never reaches the tables.               *)
THEOREM FailedTransactionsNeverPersist == Spec => []AtomicCommit
<1>1. Init => AtomicInv
  BY DEF Init, AtomicInv, AtomicCommit
<1>2. IInv /\ AtomicInv /\ [Next]_vars => AtomicInv'
  BY AtomicStep
<1>3. AtomicInv => AtomicCommit
  BY DEF AtomicInv
<1> QED BY <1>1, <1>2, <1>3, InductiveInvariant, PTL DEF Spec
-----------------------------------------------------------------------------
(* An object is inserted once: not when the tables or the queue have it,   *)
(* and before any update of it; every object is in one of the two.         *)
Inserts(i, o) == queue[i].kind = "insert" /\ queue[i].obj = o
QueueInv ==
  /\ DOMAIN db \subseteq DOMAIN data
  /\ \A o \in DOMAIN data : o \in DOMAIN db \/ \E i \in DOMAIN queue : Inserts(i, o)
  /\ \A i \in DOMAIN queue :
       /\ queue[i].obj \in DOMAIN data
       /\ queue[i].kind = "insert" =>
            /\ queue[i].obj \notin DOMAIN db
            /\ \A j \in DOMAIN queue : j < i => queue[j].obj # queue[i].obj
       /\ queue[i].kind = "update" =>
            \/ queue[i].obj \in DOMAIN db
            \/ \E j \in DOMAIN queue : j < i /\ Inserts(j, queue[i].obj)
DurabilityInv == QueueInv /\ Replay

(* Appending a complete mutation to the queue.                             *)
LEMMA MutateDurable ==
  ASSUME IInv, DurabilityInv, UNCHANGED db,
         NEW kind \in {"insert", "update"}, NEW o \in Objects, NEW action \in Actions,
         NEW rec \in RowOf(o), NEW fields \in SUBSET DOMAIN rec,
         MutateAs(kind, o, rec, fields, action), Complete(kind, o, rec, fields)
  PROVE  DurabilityInv'
<1> DEFINE e == Envelope(kind, o, rec, fields, action)
           n == Len(queue) + 1
<1>1. /\ e.kind = kind /\ e.obj = o /\ e.fields = fields
      /\ \A f \in fields : e.set[f] = rec[f]
  BY DEF Envelope
<1>2. /\ queue \in Seq(Envelopes) /\ n \in Nat /\ queue' = Append(queue, e)
      /\ DOMAIN queue = 1 .. n - 1 /\ DOMAIN queue' = 1 .. n
      /\ queue'[n] = e /\ \A i \in DOMAIN queue : queue'[i] = queue[i]
  BY DEF IInv, TypeOK, MemoryOK, MutateAs
<1>3. /\ DOMAIN data' = DOMAIN data \cup {o} /\ data'[o] = rec
      /\ \A x \in DOMAIN data : x # o => data'[x] = data[x]
  BY DEF MutateAs
<1> HIDE DEF e, n
<1>4. QueueInv'
  <2>1. /\ kind = "insert" => o \notin DOMAIN data
        /\ kind = "update" => o \in DOMAIN data
    BY DEF Complete
  <2>2. ASSUME NEW x \in DOMAIN data'
        PROVE  x \in DOMAIN db \/ \E i \in DOMAIN queue' : Inserts(i, x)'
    <3>1. CASE x \in DOMAIN data
      BY <1>2, <3>1 DEF DurabilityInv, QueueInv, Inserts
    <3>2. CASE x \notin DOMAIN data
      BY <1>1, <1>2, <1>3, <2>1, <3>2 DEF Inserts
    <3> QED BY <3>1, <3>2
  <2>3. ASSUME NEW i \in DOMAIN queue'
        PROVE  /\ queue'[i].obj \in DOMAIN data'
               /\ queue'[i].kind = "insert" =>
                    /\ queue'[i].obj \notin DOMAIN db
                    /\ \A j \in DOMAIN queue' : j < i => queue'[j].obj # queue'[i].obj
               /\ queue'[i].kind = "update" =>
                    \/ queue'[i].obj \in DOMAIN db
                    \/ \E j \in DOMAIN queue' : /\ j < i /\ queue'[j].kind = "insert"
                                              /\ queue'[j].obj = queue'[i].obj
    <3>1. CASE i = n
      <4>1. \A j \in DOMAIN queue' : j < i => j \in DOMAIN queue /\ queue'[j] = queue[j]
        BY <1>2, <3>1
      <4>2. CASE kind = "insert"
        BY <1>1, <1>2, <1>3, <2>1, <3>1, <4>1, <4>2 DEF DurabilityInv, QueueInv
      <4>3. CASE kind = "update"
        BY <1>1, <1>2, <1>3, <2>1, <3>1, <4>3 DEF DurabilityInv, QueueInv, Inserts
      <4> QED BY <4>2, <4>3
    <3>2. CASE i # n
      <4>1. /\ i \in DOMAIN queue /\ queue'[i] = queue[i]
            /\ \A j \in DOMAIN queue' : j < i => j \in DOMAIN queue /\ queue'[j] = queue[j]
        BY <1>2, <3>2
      <4> QED BY <1>2, <1>3, <4>1 DEF DurabilityInv, QueueInv, Inserts
    <3> QED BY <3>1, <3>2
  <2> QED BY <1>3, <2>2, <2>3 DEF DurabilityInv, QueueInv, Inserts
<1>5. Replay'
  <2> SUFFICES ASSUME NEW x \in DOMAIN data', NEW f \in DOMAIN data'[x]
      PROVE  IF Pending(x, f)' = {} THEN x \in DOMAIN db /\ db[x][f] = data'[x][f]
             ELSE \E i \in Pending(x, f)' : /\ queue'[i].set[f] = data'[x][f]
                                            /\ \A j \in Pending(x, f)' : j <= i
    BY <1>3 DEF Replay, DurabilityInv
  <2>1. CASE x = o /\ f \in fields
    <3>1. n \in Pending(x, f)' /\ \A j \in Pending(x, f)' : j <= n
      BY <1>1, <1>2, <2>1 DEF Pending, Writes
    <3>2. queue'[n].set[f] = data'[x][f]
      BY <1>1, <1>2, <1>3, <2>1
    <3> QED BY <3>1, <3>2
  <2>2. CASE ~(x = o /\ f \in fields)
    <3>1. x \in DOMAIN data /\ f \in DOMAIN data[x] /\ data'[x][f] = data[x][f]
      BY <1>3, <2>2 DEF Complete
    <3>2. Pending(x, f)' = Pending(x, f) /\ Pending(x, f) \subseteq DOMAIN queue
      BY <1>1, <1>2, <2>2 DEF Pending, Writes
    <3> QED BY <1>2, <3>1, <3>2 DEF DurabilityInv, Replay
  <2> QED BY <2>1, <2>2
<1> QED BY <1>4, <1>5 DEF DurabilityInv

(* Applying the first mutation of the queue.                               *)
LEMMA PersistDurable == ASSUME IInv, DurabilityInv, PersistNext PROVE DurabilityInv'
<1> DEFINE e == queue[1]
<1>1. /\ queue \in Seq(Envelopes) /\ Len(queue) \in Nat /\ 1 \in DOMAIN queue
      /\ DOMAIN queue = 1 .. Len(queue) /\ DOMAIN queue' = 1 .. Len(queue) - 1
      /\ \A i \in DOMAIN queue' : i + 1 \in DOMAIN queue /\ queue'[i] = queue[i + 1]
      /\ db' = Applied(db, e) /\ UNCHANGED data
  BY DEF IInv, TypeOK, MemoryOK, PersistNext
<1>2. /\ e \in Envelopes /\ IsMutation(e) /\ e.kind \in {"insert", "update"}
      /\ e.obj \in Objects
  <2>1. e \in Envelopes /\ IsMutation(e)
    BY <1>1 DEF IInv, TypeOK, MemoryOK
  <2> QED BY <2>1 DEF Envelopes
<1>3. /\ e.kind = "insert" => e.obj \notin DOMAIN db
      /\ e.kind = "update" => e.obj \in DOMAIN db
      /\ e.obj \in DOMAIN data /\ DOMAIN db' = DOMAIN db \cup {e.obj}
  <2>1. \A j \in DOMAIN queue : ~(j < 1)
    BY <1>1
  <2>2. /\ e.kind = "insert" => e.obj \notin DOMAIN db
        /\ e.kind = "update" => e.obj \in DOMAIN db
        /\ e.obj \in DOMAIN data
    BY <1>1, <2>1 DEF DurabilityInv, QueueInv
  <2> QED BY <1>1, <1>2, <2>2 DEF Applied
<1>4. ASSUME NEW x \in DOMAIN data, NEW f \in DOMAIN data[x], x \in DOMAIN db'
      PROVE  db'[x][f] = IF Writes(e, x, f) THEN e.set[f] ELSE db[x][f]
  <2>1. x \in DOMAIN db => DOMAIN db[x] = DOMAIN data[x]
    BY DEF IInv, TypeOK, MemoryOK, TablesOK, IsTable, RowOf, WfRow, StepRow,
           WfRecords, StepRecords
  <2>2. CASE e.kind = "insert"
    <3>1. db'[x] = IF x = e.obj THEN e.set ELSE db[x]
      BY <1>1, <1>3, <1>4, <2>2 DEF Applied
    <3>2. x = e.obj => f \in e.fields
      BY <1>2, <2>2 DEF IsMutation, RowOf, IInv, TypeOK, MemoryOK, IsTable, WfRow, StepRow,
                        WfRecords, StepRecords
    <3> QED BY <3>1, <3>2 DEF Writes
  <2>3. CASE e.kind = "update"
    <3>1. x \in DOMAIN db
      BY <1>3, <1>4, <2>3
    <3>2. db'[x] = IF x # e.obj THEN db[x]
                   ELSE [g \in DOMAIN db[x] |-> IF g \in e.fields THEN e.set[g] ELSE db[x][g]]
      BY <1>1, <2>3, <3>1 DEF Applied
    <3> QED BY <2>1, <3>1, <3>2 DEF Writes
  <2> QED BY <1>2, <2>2, <2>3
<1> HIDE DEF e
<1>5. QueueInv'
  <2>1. DOMAIN db' \subseteq DOMAIN data'
    BY <1>1, <1>3 DEF DurabilityInv, QueueInv
  <2>2. ASSUME NEW x \in DOMAIN data', x \notin DOMAIN db'
        PROVE  \E i \in DOMAIN queue' : queue'[i].kind = "insert" /\ queue'[i].obj = x
    <3>1. x \notin DOMAIN db /\ x # e.obj
      BY <1>3, <2>2
    <3>2. PICK i \in DOMAIN queue : Inserts(i, x)
      BY <1>1, <3>1 DEF DurabilityInv, QueueInv
    <3>3. i # 1
      BY <3>1, <3>2 DEF Inserts, e
    <3>4. i - 1 \in DOMAIN queue' /\ queue'[i - 1] = queue[i]
      BY <1>1, <3>3
    <3> QED BY <3>2, <3>4 DEF Inserts
  <2>3. ASSUME NEW i \in DOMAIN queue'
        PROVE  /\ queue'[i].obj \in DOMAIN data'
               /\ queue'[i].kind = "insert" =>
                    /\ queue'[i].obj \notin DOMAIN db'
                    /\ \A j \in DOMAIN queue' : j < i => queue'[j].obj # queue'[i].obj
    <3>1. i + 1 \in DOMAIN queue /\ queue'[i] = queue[i + 1] /\ 1 < i + 1
      BY <1>1
    <3>2. ASSUME queue'[i].kind = "insert", NEW j \in DOMAIN queue', j < i
          PROVE  queue'[j].obj # queue'[i].obj
      <4>1. j + 1 \in DOMAIN queue /\ queue'[j] = queue[j + 1] /\ j + 1 < i + 1
        BY <1>1, <3>2
      <4> QED BY <3>1, <3>2, <4>1 DEF DurabilityInv, QueueInv
    <3>3. queue'[i].kind = "insert" => queue'[i].obj \notin DOMAIN db'
      BY <1>1, <1>3, <3>1 DEF DurabilityInv, QueueInv, e
    <3> QED BY <1>1, <3>1, <3>2, <3>3 DEF DurabilityInv, QueueInv
  <2>4. ASSUME NEW i \in DOMAIN queue', queue'[i].kind = "update",
               queue'[i].obj \notin DOMAIN db'
        PROVE  \E j \in DOMAIN queue' : /\ j < i /\ queue'[j].kind = "insert"
                                        /\ queue'[j].obj = queue'[i].obj
    <3>1. i + 1 \in DOMAIN queue /\ queue'[i] = queue[i + 1]
      BY <1>1
    <3>2. queue[i + 1].obj \notin DOMAIN db /\ queue[i + 1].obj # e.obj
      BY <1>3, <2>4, <3>1
    <3>3. PICK j \in DOMAIN queue : j < i + 1 /\ Inserts(j, queue[i + 1].obj)
      BY <2>4, <3>1, <3>2 DEF DurabilityInv, QueueInv
    <3>4. j # 1
      BY <3>2, <3>3 DEF Inserts, e
    <3>5. j - 1 \in DOMAIN queue' /\ queue'[j - 1] = queue[j] /\ j - 1 < i
      BY <1>1, <3>3, <3>4
    <3> QED BY <3>1, <3>3, <3>5 DEF Inserts
  <2> QED BY <2>1, <2>2, <2>3, <2>4 DEF QueueInv, Inserts
<1>6. Replay'
  <2> SUFFICES ASSUME NEW x \in DOMAIN data, NEW f \in DOMAIN data[x]
      PROVE  IF Pending(x, f)' = {} THEN x \in DOMAIN db' /\ db'[x][f] = data[x][f]
             ELSE \E i \in Pending(x, f)' : /\ queue'[i].set[f] = data[x][f]
                                            /\ \A j \in Pending(x, f)' : j <= i
    BY <1>1, <1>3 DEF Replay, DurabilityInv, QueueInv
  <2>1. /\ \A i \in Pending(x, f)' : i \in DOMAIN queue' /\ i + 1 \in Pending(x, f)
        /\ \A i \in Pending(x, f) : i # 1 => i - 1 \in Pending(x, f)'
        /\ Pending(x, f) \subseteq DOMAIN queue
        /\ 1 \in Pending(x, f) <=> Writes(e, x, f)
    BY <1>1 DEF Pending, Writes, e
  <2>2. CASE Pending(x, f) = {}
    BY <1>3, <1>4, <2>1, <2>2 DEF DurabilityInv, Replay
  <2>3. CASE Pending(x, f) # {}
    <3>1. PICK i \in Pending(x, f) : /\ queue[i].set[f] = data[x][f]
                                     /\ \A j \in Pending(x, f) : j <= i
      BY <2>3 DEF DurabilityInv, Replay
    <3>2. CASE i = 1
      <4>1. Pending(x, f)' = {}
        BY <1>1, <2>1, <3>1, <3>2
      <4>2. Writes(e, x, f) /\ x \in DOMAIN db'
        BY <1>3, <2>1, <3>2 DEF Writes
      <4> QED BY <1>4, <3>1, <3>2, <4>1, <4>2 DEF e
    <3>3. CASE i # 1
      <4>1. i - 1 \in Pending(x, f)' /\ queue'[i - 1] = queue[i]
        BY <1>1, <2>1, <3>3
      <4>2. \A j \in Pending(x, f)' : j <= i - 1
        BY <1>1, <2>1, <3>1
      <4> QED BY <3>1, <4>1, <4>2
    <3> QED BY <3>2, <3>3
  <2> QED BY <2>2, <2>3
<1> QED BY <1>5, <1>6 DEF DurabilityInv

LEMMA DurableStep == ASSUME IInv, DurabilityInv, [Next]_vars PROVE DurabilityInv'
<1>1. CASE RunnerStep
  <2>1. UNCHANGED outside /\ MemoryStep
    BY <1>1, RunnerSteps
  <2>2. UNCHANGED db
    BY <2>1 DEF outside
  <2>3. CASE UNCHANGED inMemory
    BY <2>2, <2>3 DEF inMemory, DurabilityInv, QueueInv, Replay, Inserts, Pending, Writes
  <2> QED BY <2>1, <2>2, <2>3, MutateDurable DEF MemoryStep
<1>2. CASE DriverStep \/ UNCHANGED vars
  <2>1. UNCHANGED <<data, queue, db>>
    BY <1>2 DEF DriverStep, BeginTxn, EndTxn, Raise, Drain, EndPersist, inMemory, vars
  <2> QED BY <2>1 DEF DurabilityInv, QueueInv, Replay, Inserts, Pending, Writes
<1>3. CASE Load
  BY <1>3 DEF Load, DurabilityInv, QueueInv, Replay, Inserts, Pending, Writes
<1> QED BY <1>1, <1>2, <1>3, PersistDurable, StepKinds

LEMMA InitDurable == ASSUME Init PROVE DurabilityInv
<1>1. /\ DOMAIN queue = {1} /\ queue[1].obj = Wf /\ queue[1].kind = "insert"
      /\ queue[1].fields = DOMAIN NewWorkflow /\ queue[1].set = NewWorkflow
      /\ data = [x \in {Wf} |-> NewWorkflow] /\ DOMAIN db = {}
  BY DEF Init, NoRows
<1>2. QueueInv
  BY <1>1 DEF QueueInv, Inserts
<1>3. ASSUME NEW f \in DOMAIN NewWorkflow PROVE Pending(Wf, f) = {1}
  BY <1>1 DEF Pending, Writes
<1>4. Replay
  BY <1>1, <1>3 DEF Replay
<1> QED BY <1>2, <1>4 DEF DurabilityInv

LEMMA DurabilityInductive == Spec => []DurabilityInv
<1>1. Init => DurabilityInv
  BY InitDurable
<1>2. IInv /\ DurabilityInv /\ [Next]_vars => DurabilityInv'
  BY DurableStep
<1> QED BY <1>1, <1>2, InductiveInvariant, PTL DEF Spec

(* Memory is the tables with the queue applied to them, field by field.    *)
THEOREM NothingIsLost == Spec => []Replay
<1>1. DurabilityInv => Replay
  BY DEF DurabilityInv
<1> QED BY <1>1, DurabilityInductive, PTL

(* No mutation inserts a row twice or updates one that does not exist.     *)
THEOREM PersistNeverCollides == Spec => []PersistSucceeds
<1>1. ASSUME IInv, DurabilityInv PROVE PersistSucceeds
  <2> SUFFICES ASSUME queue # <<>>
      PROVE  Head(queue).kind = "insert" <=> Head(queue).obj \notin DOMAIN db
    BY DEF PersistSucceeds
  <2>1. /\ queue \in Seq(Envelopes) /\ 1 \in DOMAIN queue /\ Head(queue) = queue[1]
        /\ \A j \in DOMAIN queue : ~(j < 1)
    BY <1>1 DEF IInv, TypeOK, MemoryOK
  <2>2. queue[1].kind \in {"insert", "update"}
    <3>1. queue[1] \in Envelopes
      BY <2>1
    <3> QED BY <3>1 DEF Envelopes
  <2> QED BY <1>1, <2>1, <2>2 DEF DurabilityInv, QueueInv
<1>2. IInv /\ DurabilityInv => PersistSucceeds
  BY <1>1
<1> QED BY <1>2, InductiveInvariant, DurabilityInductive, PTL
-----------------------------------------------------------------------------
(* A frame that still has a step to change: while one is on the stack the  *)
(* workflow is active, and neither it nor a frame above it has a proxy of  *)
(* the workflow, or is a call on it, by which user code could leave that   *)
(* status. A caller of add_step is handed a step, never the workflow.      *)
Owing(f) == f.at = "memory" \/ (f.at = "body" /\ f.op # "trigger")
FrozenInv ==
  /\ \A i \in DOMAIN stack : Owing(stack[i]) =>
       /\ Status \in WfActive
       /\ \A j \in DOMAIN stack : /\ j >= i => Wf \notin stack[j].proxies
                                  /\ j > i => stack[j].on # Wf
  /\ \A i \in DOMAIN stack : stack[i].op = "add_step" => stack[i].subject # Wf

(* What a mutation may say, given the status before it and after it: it    *)
(* moves the status along the life cycle, or works at an ACTIVE workflow.  *)
Lawful(e, old, new) ==
  IF e.obj # Wf
  THEN /\ old = "ACTIVE" /\ new = old
       /\ e.kind = "insert" => e.set.status = "ACTIVE"
  ELSE IF "status" \in e.fields THEN <<old, new>> \in Abstract!Moves /\ new = e.set.status
  ELSE new = old
LawfulStep ==
  \/ UNCHANGED inMemory
  \/ \E e : /\ queue' = Append(queue, e)
            /\ Lawful(e, Status, Status')
            /\ e.obj # Wf => Status = "ACTIVE"
            /\ DOMAIN data' = DOMAIN data \cup {e.obj}
            /\ \A x \in DOMAIN data : x # e.obj => data'[x] = data[x]

LEMMA MutateLawful ==
  ASSUME MemoryOK, NEW kind \in {"insert", "update"}, NEW o \in Objects, NEW action,
         NEW rec \in RowOf(o), NEW fields \in SUBSET DOMAIN rec,
         MutateAs(kind, o, rec, fields, action),
         o # Wf => /\ Status = "ACTIVE"
                   /\ kind = "insert" => "status" \in fields /\ rec.status = "ACTIVE",
         o = Wf => IF "status" \in fields THEN <<Status, rec.status>> \in Abstract!Moves
                   ELSE rec.status = Status
  PROVE  /\ LawfulStep
         /\ Status' = IF o = Wf THEN rec.status ELSE Status
<1> DEFINE e == Envelope(kind, o, rec, fields, action)
<1>1. Wf \in DOMAIN data /\ "status" \in DOMAIN rec
  BY DEF MemoryOK, RowOf, WfRow, StepRow, WfRecords, StepRecords
<1>2. /\ e.kind = kind /\ e.obj = o /\ e.fields = fields
      /\ "status" \in fields => e.set.status = rec.status
  BY <1>1 DEF Envelope
<1>3. /\ queue' = Append(queue, e) /\ DOMAIN data' = DOMAIN data \cup {o}
      /\ \A x \in DOMAIN data : x # o => data'[x] = data[x]
      /\ data'[o] = rec
  BY DEF MutateAs
<1> HIDE DEF e
<1>4. Status' = IF o = Wf THEN rec.status ELSE Status
  BY <1>1, <1>3 DEF Status
<1>5. Lawful(e, Status, Status')
  BY <1>2, <1>4 DEF Lawful
<1> QED BY <1>2, <1>3, <1>4, <1>5 DEF LawfulStep

(* A call adds a frame: on the workflow only when nothing below owes a     *)
(* step, and one that owes a step only at an active workflow.              *)
LEMMA CallFrozen ==
  ASSUME IInv, FrozenInv, NEW op \in Actions, NEW on \in Objects, NEW subject \in Objects,
         NEW to \in States \cup {None}, NEW at \in {"body", "memory", "hook"},
         NEW proxies \in SUBSET Objects, Call(op, on, subject, to, at, proxies),
         Wf \in proxies => on = Wf,
         op = "add_step" => subject # Wf,
         at = "memory" \/ (at = "body" /\ op # "trigger") =>
           Wf \notin proxies /\ Status' \in WfActive,
         Status' # Status => on = Wf
  PROVE  FrozenInv'
<1> DEFINE frame == [op |-> op, on |-> on, subject |-> subject, to |-> to,
                     at |-> at, proxies |-> proxies]
           n == Len(stack) + 1
<1>1. frame \in Frames /\ stack \in Seq(Frames) /\ stack' = Append(stack, frame)
  BY DEF Frames, Call, IInv, TypeOK, CallsOK
<1>2. /\ frame.op = op /\ frame.on = on /\ frame.subject = subject
      /\ frame.at = at /\ frame.proxies = proxies
  OBVIOUS
<1> HIDE DEF frame
<1>3. /\ n \in Nat /\ DOMAIN stack = 1 .. n - 1 /\ DOMAIN stack' = 1 .. n
      /\ stack'[n] = frame /\ \A i \in DOMAIN stack : stack'[i] = stack[i]
  BY <1>1
<1>4. ASSUME NEW i \in DOMAIN stack, Owing(stack[i]) PROVE on # Wf
  <2>1. stack # <<>> /\ Len(stack) \in DOMAIN stack /\ Len(stack) >= i
    BY <1>1, <1>4
  <2>2. on \in stack[Len(stack)].proxies
    BY <2>1 DEF Call, Reachable, Top
  <2> QED BY <1>4, <2>1, <2>2 DEF FrozenInv
<1> HIDE DEF n
<1>5. ASSUME NEW i \in DOMAIN stack', Owing(stack'[i])
      PROVE  /\ Status' \in WfActive
             /\ \A j \in DOMAIN stack' : /\ j >= i => Wf \notin stack'[j].proxies
                                         /\ j > i => stack'[j].on # Wf
  <2>1. CASE i = n
    <3>1. Wf \notin proxies /\ Status' \in WfActive
      BY <1>2, <1>3, <1>5, <2>1 DEF Owing
    <3> QED BY <1>2, <1>3, <2>1, <3>1
  <2>2. CASE i # n
    <3>1. i \in DOMAIN stack /\ Owing(stack[i])
      BY <1>3, <1>5, <2>2
    <3>2. on # Wf
      BY <1>4, <3>1
    <3>3. ASSUME NEW j \in DOMAIN stack'
          PROVE  /\ j >= i => Wf \notin stack'[j].proxies
                 /\ j > i => stack'[j].on # Wf
      <4>1. CASE j = n
        BY <1>2, <1>3, <3>2, <4>1
      <4>2. CASE j # n
        <5>1. j \in DOMAIN stack /\ stack'[j] = stack[j]
          BY <1>3, <4>2
        <5> QED BY <3>1, <5>1 DEF FrozenInv
      <4> QED BY <4>1, <4>2
    <3> QED BY <3>1, <3>2, <3>3 DEF FrozenInv
  <2> QED BY <2>1, <2>2
<1>6. ASSUME NEW i \in DOMAIN stack', stack'[i].op = "add_step"
      PROVE  stack'[i].subject # Wf
  BY <1>2, <1>3, <1>6 DEF FrozenInv
<1> QED BY <1>5, <1>6 DEF FrozenInv, Owing

LEMMA EnterHookFrozen ==
  ASSUME IInv, FrozenInv, NEW at \in {"body", "memory", "hook"}, Running(at), EnterHook,
         Status' = Status
  PROVE  FrozenInv'
<1>1. /\ Len(stack) \in 1 .. Len(stack) /\ Len(stack) \in Nat /\ Top \in Frames
      /\ stack \in Seq(Frames)
  BY TopOK DEF IInv, TypeOK, CallsOK
<1> DEFINE n == Len(stack)
           frame == [Top EXCEPT !.at = "hook", !.proxies = HookProxies(Top.on)]
<1>2. /\ frame \in Frames /\ frame.op = Top.op /\ frame.on = Top.on
      /\ frame.subject = Top.subject /\ frame.at = "hook"
      /\ frame.proxies = HookProxies(Top.on)
  BY <1>1 DEF Frames, HookProxies, Objects
<1>3. stack' = [stack EXCEPT ![n] = frame]
  BY <1>1 DEF EnterHook, Top, Frames
<1> HIDE DEF frame
<1>4. /\ DOMAIN stack' = DOMAIN stack /\ n \in DOMAIN stack /\ Top = stack[n]
      /\ stack'[n] = frame /\ \A i \in DOMAIN stack : i <= n
      /\ \A i \in DOMAIN stack : i # n => stack'[i] = stack[i]
  BY <1>1, <1>3 DEF Top
<1> HIDE DEF n
<1>5. ASSUME NEW i \in DOMAIN stack', Owing(stack'[i])
      PROVE  /\ Status' \in WfActive
             /\ \A j \in DOMAIN stack' : /\ j >= i => Wf \notin stack'[j].proxies
                                         /\ j > i => stack'[j].on # Wf
  <2>1. i # n
    BY <1>2, <1>4, <1>5 DEF Owing
  <2>2. i \in DOMAIN stack /\ Owing(stack[i])
    BY <1>4, <1>5, <2>1
  <2>3. i < n
    BY <1>1, <1>4, <2>1, <2>2
  <2>4. Top.on # Wf
    BY <1>4, <2>2, <2>3 DEF FrozenInv
  <2>5. ASSUME NEW j \in DOMAIN stack'
        PROVE  /\ j >= i => Wf \notin stack'[j].proxies
               /\ j > i => stack'[j].on # Wf
    <3>1. CASE j = n
      BY <1>2, <1>4, <2>4, <3>1 DEF HookProxies
    <3>2. CASE j # n
      BY <1>4, <2>2, <3>2 DEF FrozenInv
    <3> QED BY <3>1, <3>2
  <2> QED BY <2>2, <2>5 DEF FrozenInv
<1>6. ASSUME NEW i \in DOMAIN stack', stack'[i].op = "add_step"
      PROVE  stack'[i].subject # Wf
  BY <1>2, <1>4, <1>6 DEF FrozenInv
<1> QED BY <1>5, <1>6 DEF FrozenInv, Owing

LEMMA ReconcileLawful ==
  ASSUME MemoryOK, Acting \in Actions, Reconcile
  PROVE  LawfulStep /\ Status' = Status
<1>1. /\ Wf \in DOMAIN data /\ Wf \in Objects /\ data[Wf] \in WfRow
      /\ Reconciled \in WfRow /\ Reconciled \in RowOf(Wf)
  BY ReconciledRow DEF MemoryOK, IsTable, RowOf
<1>2. CASE ReconciledFields = {}
  BY <1>2 DEF Reconcile, LawfulStep, inMemory, Status
<1>3. CASE ReconciledFields # {}
  <2>1. MutateAs("update", Wf, Reconciled, ReconciledFields, Acting)
    BY <1>3 DEF Reconcile, Mutate
  <2>2. Reconciled.status = Status
    BY <1>1 DEF Reconciled, ComputeStatus, Status, WfRow, WfRecords, WfColumns
  <2>3. ReconciledFields = {"progress"} /\ {"progress"} \in SUBSET DOMAIN Reconciled
    BY <1>1, <1>3, <2>2 DEF ReconciledFields, WfRow, WfRecords
  <2> HIDE DEF Reconciled, ReconciledFields
  <2> QED BY <1>1, <2>1, <2>2, <2>3, MutateLawful
<1> QED BY <1>2, <1>3

(* Returning drops the top frame and may hand its caller a new step.       *)
LEMMA ReturnFrozen ==
  ASSUME IInv, FrozenInv, Return PROVE FrozenInv' /\ LawfulStep
<1>1. /\ Len(stack) \in 1 .. Len(stack) /\ Len(stack) \in Nat /\ Top \in Frames
      /\ Acting \in Actions /\ stack \in Seq(Frames) /\ MemoryOK
  BY TopOK DEF Return, IInv, TypeOK, CallsOK
<1>2. LawfulStep /\ Status' = Status
  <2>1. CASE Top.on = Wf
    BY <2>1 DEF Return, LawfulStep, inMemory, Status
  <2>2. CASE Top.on # Wf
    BY <1>1, <2>2, ReconcileLawful DEF Return
  <2> QED BY <2>1, <2>2
<1>3. Wf \notin Handed
  <2>1. Top = stack[Len(stack)] /\ Len(stack) \in DOMAIN stack
    BY <1>1 DEF Top
  <2> QED BY <2>1 DEF Handed, FrozenInv
<1> DEFINE rest == SubSeq(stack, 1, Len(stack) - 1)
<1>4. rest \in Seq(Frames) /\ Len(rest) = Len(stack) - 1
      /\ \A i \in 1 .. Len(stack) - 1 : rest[i] = stack[i]
  <2>1. Len(stack) \in 1 .. Len(stack) /\ Len(stack) \in Nat /\ stack \in Seq(Frames)
    BY <1>1
  <2> DEFINE n == Len(stack) - 1
  <2>2. n \in Int /\ 1 \in Int /\ \A i \in 1 .. n : stack[i] \in Frames
    BY <2>1
  <2>3. /\ rest \in Seq(Frames) /\ Len(rest) = IF 1 <= n THEN n - 1 + 1 ELSE 0
        /\ \A i \in 1 .. n - 1 + 1 : rest[i] = stack[1 + i - 1]
    BY ONLY <2>2, SubSeqProperties
  <2>4. n \in Nat /\ n - 1 + 1 = n /\ \A i \in 1 .. n : 1 + i - 1 = i
    BY <2>1
  <2> HIDE DEF n, rest
  <2>5. Len(rest) = n /\ \A i \in 1 .. n : rest[i] = stack[i]
    BY <2>3, <2>4
  <2> QED BY <2>3, <2>5 DEF n
<1>5. /\ DOMAIN stack' = 1 .. Len(stack) - 1
      /\ \A i \in 1 .. Len(stack) - 1 :
           /\ stack'[i].op = stack[i].op /\ stack'[i].on = stack[i].on
           /\ stack'[i].at = stack[i].at /\ stack'[i].subject = stack[i].subject
           /\ Wf \in stack'[i].proxies => Wf \in stack[i].proxies
  <2>1. CASE rest = <<>>
    BY <1>1, <1>4, <2>1 DEF Return, Pop
  <2>2. CASE rest # <<>>
    <3> DEFINE n == Len(stack) - 1
               frame == [rest[n] EXCEPT !.proxies = @ \cup Handed]
    <3>1. n \in 1 .. n /\ n \in Nat /\ rest[n] \in Frames
      BY <1>1, <1>4, <2>2
    <3>2. Handed \subseteq Objects
      BY <1>1 DEF Handed, Frames
    <3>3. /\ frame.op = rest[n].op /\ frame.on = rest[n].on
          /\ frame.at = rest[n].at /\ frame.subject = rest[n].subject
          /\ frame.proxies = rest[n].proxies \cup Handed
      BY <3>1, <3>2 DEF Frames
    <3>4. stack' = [rest EXCEPT ![n] = frame]
      BY <1>4, <2>2, <3>1 DEF Return, Pop, Frames
    <3> HIDE DEF frame, rest
    <3> QED BY <1>1, <1>3, <1>4, <3>1, <3>3, <3>4
  <2> QED BY <2>1, <2>2
<1> HIDE DEF rest
<1>6. \A i \in DOMAIN stack' : i \in DOMAIN stack /\ i \in 1 .. Len(stack) - 1
  BY <1>1, <1>5
<1> QED BY <1>2, <1>5, <1>6 DEF FrozenInv, Owing

(* What the guards of the runner leave of the status changes.              *)
LEMMA SetStatusFrozen ==
  ASSUME IInv, FrozenInv, NEW op \in StatusOps, SetStatus(op)
  PROVE  FrozenInv' /\ LawfulStep
<1> DEFINE paused == IF op = "pause" THEN Status
                     ELSE IF op = "resume" THEN None ELSE data[Wf].paused
           rec == [data[Wf] EXCEPT !.status = TargetOf(op, data[Wf].paused),
                                   !.paused = paused]
           fields == IF op = "pause" THEN {"status", "paused"} ELSE {"status"}
<1>1. data[Wf] \in WfRow /\ Wf \in DOMAIN data /\ Wf \in Objects /\ MemoryOK
  BY DEF IInv, TypeOK, MemoryOK, IsTable, RowOf, Objects
<1>2. op \in {"start", "cancel", "pause"} /\ <<Status, TargetOf(op, data[Wf].paused)>>
                                               \in Abstract!Moves
  BY DEF SetStatus, SimpleCall, Call, AllowedAt, MayChangeStatus, StatusOps, WfEditable,
         WfActive, TargetOf, Abstract!Moves
<1>3. /\ rec \in RowOf(Wf) /\ fields \in SUBSET DOMAIN rec /\ "status" \in fields
      /\ rec.status = TargetOf(op, data[Wf].paused)
  BY <1>1, <1>2 DEF RowOf, WfRow, WfRecords, WfColumns, WorkflowStatus, TargetOf, Status
<1>4. /\ MutateAs("update", Wf, rec, fields, op) /\ op \in Actions /\ op # "add_step"
      /\ Call(op, Wf, Wf, None, "hook", {Wf})
  BY <1>2 DEF SetStatus, Mutate, Actions, SimpleCall, HookProxies
<1> HIDE DEF rec, fields
<1>5. LawfulStep
  BY <1>1, <1>2, <1>3, <1>4, MutateLawful
<1> QED BY <1>1, <1>4, <1>5, CallFrozen

(* The other calls that run no user code of their own but a hook.          *)
LEMMA SimpleCallFrozen ==
  ASSUME IInv, FrozenInv, NEW op \in Actions, op # "add_step", NEW on \in Objects,
         SimpleCall(op, on), Status' = Status
  PROVE  FrozenInv'
<1>1. /\ Call(op, on, on, None, "hook", HookProxies(on))
      /\ HookProxies(on) \in SUBSET Objects
      /\ Wf \in HookProxies(on) => on = Wf
  BY DEF SimpleCall, HookProxies, Objects
<1> QED BY <1>1, CallFrozen

LEMMA MemorizeFrozen ==
  ASSUME IInv, FrozenInv, Status # "DEGRADED",
         NEW o \in DOMAIN data, NEW keys \in NonEmpty, Memorize(o, keys)
  PROVE  FrozenInv' /\ LawfulStep
<1> DEFINE rec == [data[o] EXCEPT !.memory = @ \cup keys]
<1>1. o \in Objects /\ data[o] \in RowOf(o) /\ MemoryOK
  BY DEF IInv, TypeOK, MemoryOK, IsTable
<1>2. /\ rec \in RowOf(o) /\ {"memory"} \in SUBSET DOMAIN rec
      /\ rec.status = data[o].status
  BY <1>1 DEF RowOf, WfRow, StepRow, WfRecords, StepRecords, WfColumns, StepColumns, NonEmpty
<1>3. /\ MutateAs("update", o, rec, {"memory"}, "memorize") /\ SimpleCall("memorize", o)
      /\ "memorize" \in Actions /\ "memorize" # "add_step"
  BY DEF Memorize, Mutate, Actions
<1>4. Status = "ACTIVE"
  BY <1>3 DEF SimpleCall, Call, AllowedAt, WfActive, StatusOps
<1>5. o = Wf => rec.status = Status
  BY <1>2 DEF Status
<1> HIDE DEF rec
<1>6. LawfulStep /\ Status' = Status
  BY <1>1, <1>2, <1>3, <1>4, <1>5, MutateLawful
<1> QED BY <1>1, <1>3, <1>6, SimpleCallFrozen

LEMMA WorkflowFrozen ==
  ASSUME IInv, FrozenInv,
         \/ \E keys \in NonEmpty : Output(keys)
         \/ \E op \in {"add_task", "add_participant"}, o \in DOMAIN data : AddRow(op, o)
         \/ \E o \in DOMAIN data : Recall(o)
  PROVE  FrozenInv' /\ LawfulStep
<1>1. /\ Wf \in Objects /\ Wf \in DOMAIN data /\ data[Wf] \in WfRow /\ data[Wf] \in RowOf(Wf)
      /\ MemoryOK /\ DOMAIN data \subseteq Objects
  BY DEF IInv, TypeOK, MemoryOK, IsTable, RowOf
<1>2. ASSUME NEW keys \in NonEmpty, Output(keys) PROVE FrozenInv' /\ LawfulStep
  <2> DEFINE rec == [data[Wf] EXCEPT !.output = @ \cup keys]
  <2>1. rec \in RowOf(Wf) /\ {"output"} \in SUBSET DOMAIN rec /\ rec.status = Status
    BY <1>1 DEF RowOf, WfRow, WfRecords, WfColumns, NonEmpty, Status
  <2>2. /\ MutateAs("update", Wf, rec, {"output"}, "output") /\ "output" \in Actions
        /\ SimpleCall("output", Wf) /\ "output" # "add_step"
    BY <1>2 DEF Output, Mutate, Actions
  <2> HIDE DEF rec
  <2>3. LawfulStep /\ Status' = Status
    BY <1>1, <2>1, <2>2, MutateLawful
  <2> QED BY <1>1, <2>2, <2>3, SimpleCallFrozen
<1>3. ASSUME NEW op \in {"add_task", "add_participant"}, NEW o \in DOMAIN data, AddRow(op, o)
      PROVE FrozenInv' /\ LawfulStep
  <2>1. MutateAs("update", Wf, data[Wf], {}, op) /\ op \in Actions /\ SimpleCall(op, o)
    BY <1>3 DEF AddRow, Mutate, Actions
  <2>2. data[Wf].status = Status /\ {} \in SUBSET DOMAIN data[Wf] /\ "status" \notin {}
    BY DEF Status
  <2>3. LawfulStep /\ Status' = Status
    BY <1>1, <2>1, <2>2, MutateLawful
  <2> QED BY <1>1, <2>1, <2>3, SimpleCallFrozen
<1>4. ASSUME NEW o \in DOMAIN data, Recall(o) PROVE FrozenInv' /\ LawfulStep
  <2>1. SimpleCall("recall", o) /\ UNCHANGED inMemory /\ "recall" \in Actions
    BY <1>4 DEF Recall, Actions
  <2>2. LawfulStep /\ Status' = Status
    BY <2>1 DEF LawfulStep, inMemory, Status
  <2> QED BY <1>1, <2>1, <2>2, SimpleCallFrozen
<1> QED BY <1>2, <1>3, <1>4

LEMMA AddStepFrozen ==
  ASSUME IInv, FrozenInv, Status # "DEGRADED", NEW o \in DOMAIN data, NEW key \in Keys,
         NEW selector \in Selectors \cup {None}, NEW at \in {"memory", "hook"},
         AddStep(o, key, selector, at)
  PROVE  FrozenInv' /\ LawfulStep
<1> DEFINE id  == StepIdFor(key)
           sel == IF selector = None THEN id ELSE selector
           proxies == IF at = "hook" THEN HookProxies(o) ELSE {}
<1>1. id \in StepIds /\ id \in Objects /\ id # Wf
  <2>1. IsFiniteSet(Steps)
    BY FS_RemoveElement DEF IInv, TypeOK, MemoryOK, IsTable, Steps
  <2>2. Cardinality(Steps) \in Nat
    BY <2>1, FS_CardinalityType
  <2> QED BY <2>2, RowTypes DEF StepIdFor, StepIds, Objects
<1>2. /\ NewStep(sel) \in RowOf(id) /\ DOMAIN NewStep(sel) \in SUBSET DOMAIN NewStep(sel)
      /\ "status" \in DOMAIN NewStep(sel) /\ NewStep(sel).status = "ACTIVE"
  BY <1>1, RowTypes DEF RowOf, NewStep
<1>3. /\ Call("add_step", o, id, None, at, proxies)
      /\ MutateAs("insert", id, NewStep(sel), DOMAIN NewStep(sel), "add_step")
  BY DEF AddStep, Insert
<1>4. /\ MemoryOK /\ o \in Objects /\ "add_step" \in Actions
      /\ proxies \in SUBSET Objects
      /\ Wf \in proxies => o = Wf
      /\ at = "memory" => Wf \notin proxies
  BY DEF IInv, TypeOK, MemoryOK, IsTable, Actions, HookProxies, Objects
<1> HIDE DEF id, sel, proxies
<1>5. Status = "ACTIVE" /\ Status \in WfActive
  BY <1>3 DEF Call, AllowedAt, WfActive, StatusOps
<1>6. LawfulStep /\ Status' = Status
  BY <1>1, <1>2, <1>3, <1>4, <1>5, MutateLawful
<1> QED BY <1>1, <1>3, <1>4, <1>5, <1>6, CallFrozen

LEMMA UpdateStepLawful ==
  ASSUME MemoryOK, NEW s \in Steps, NEW to \in States, NEW action,
         UpdateStep(s, to, action), Status = "ACTIVE"
  PROVE  LawfulStep /\ Status' = Status
<1> DEFINE rec == [data[s] EXCEPT !.state = to, !.status = StepStatusAt(to, @)]
           fields == IF to = Begin THEN {"state"} ELSE {"state", "status"}
<1>1. s \in Objects /\ s \in DOMAIN data /\ s # Wf /\ data[s] \in StepRow
  BY DEF MemoryOK, IsTable, RowOf, Steps
<1>2. rec \in RowOf(s) /\ fields \in SUBSET DOMAIN rec
  BY <1>1 DEF RowOf, StepRow, StepRecords, StepColumns, StepStatus, StepStatusAt
<1>3. MutateAs("update", s, rec, fields, action)
  BY DEF UpdateStep, Mutate
<1> HIDE DEF rec, fields
<1> QED BY <1>1, <1>2, <1>3, MutateLawful

LEMMA TransitFrozen ==
  ASSUME IInv, FrozenInv, Status # "DEGRADED",
         NEW o \in DOMAIN data, NEW s \in Steps, NEW to \in States,
         TransitDirectly(o, s, to) \/ TransitThroughHook(o, s, to)
           \/ (to = data[s].state /\ TransitToSame(o, s))
  PROVE  FrozenInv' /\ LawfulStep
<1>1. /\ MemoryOK /\ o \in Objects /\ s \in Objects /\ s # Wf
      /\ TransitOp(o) \in Actions /\ TransitOp(o) # "add_step"
      /\ HookProxies(o) \in SUBSET Objects /\ {s} \in SUBSET Objects
      /\ Wf \in HookProxies(o) => o = Wf
  BY DEF IInv, TypeOK, MemoryOK, IsTable, Steps, TransitOp, Actions, HookProxies, Objects
<1>2. Status = "ACTIVE" /\ Status \in WfActive
  BY DEF TransitDirectly, TransitThroughHook, TransitToSame, TransitCall, TransitOp, Call,
         AllowedAt, WfActive, StatusOps
<1>3. CASE TransitDirectly(o, s, to)
  <2>1. Call(TransitOp(o), o, s, to, "hook", HookProxies(o)) /\ UpdateStep(s, to, TransitOp(o))
    BY <1>3 DEF TransitDirectly, TransitCall
  <2>2. LawfulStep /\ Status' = Status
    BY <1>1, <1>2, <2>1, UpdateStepLawful
  <2> QED BY <1>1, <2>1, <2>2, CallFrozen
<1>4. CASE TransitThroughHook(o, s, to)
  <2>1. Call(TransitOp(o), o, s, to, "body", {s}) /\ UNCHANGED inMemory
    BY <1>4 DEF TransitThroughHook, TransitCall
  <2>2. LawfulStep /\ Status' = Status
    BY <2>1 DEF LawfulStep, inMemory, Status
  <2> QED BY <1>1, <1>2, <2>1, <2>2, CallFrozen
<1>5. CASE to = data[s].state /\ TransitToSame(o, s)
  <2>1. Call(TransitOp(o), o, s, to, "hook", HookProxies(o)) /\ UNCHANGED inMemory
    BY <1>5 DEF TransitToSame, TransitCall
  <2>2. LawfulStep /\ Status' = Status
    BY <2>1 DEF LawfulStep, inMemory, Status
  <2> QED BY <1>1, <2>1, <2>2, CallFrozen
<1> QED BY <1>3, <1>4, <1>5

LEMMA TriggerFrozen ==
  ASSUME IInv, FrozenInv, NEW o \in DOMAIN data, Trigger(o) PROVE FrozenInv' /\ LawfulStep
<1>1. /\ o \in Objects /\ Wf \in Objects /\ "trigger" \in Actions /\ {o} \in SUBSET Objects
  BY DEF IInv, TypeOK, MemoryOK, IsTable, Actions, Objects
<1>2. Call("trigger", Wf, o, None, "body", {o}) /\ UNCHANGED inMemory
  BY DEF Trigger
<1>3. LawfulStep /\ Status' = Status
  BY <1>2 DEF LawfulStep, inMemory, Status
<1> QED BY <1>1, <1>2, <1>3, CallFrozen

(* The rest of a call that owes a step finds the workflow still active.    *)
LEMMA EndOfBodyFrozen ==
  ASSUME IInv, FrozenInv, Status # "DEGRADED",
         (\E keys \in NonEmpty : SetNewStepMemory(keys)) \/ EndTransitionHook \/ EndHandler
  PROVE  FrozenInv' /\ LawfulStep
<1>1. ASSUME NEW keys \in NonEmpty, SetNewStepMemory(keys) PROVE FrozenInv' /\ LawfulStep
  <2> DEFINE s == Top.subject
             rec == [data[s] EXCEPT !.memory = @ \cup keys]
  <2>1. Running("memory") /\ EnterHook /\ MutateAs("update", s, rec, {"memory"}, Acting)
    BY <1>1 DEF SetNewStepMemory, Mutate
  <2>2. MemoryOK /\ Len(stack) \in DOMAIN stack /\ Top.at = "memory"
    BY <2>1, TopOK DEF IInv, TypeOK, CallsOK
  <2>3. s \in DOMAIN data /\ s \in Objects /\ s # Wf /\ data[s] \in StepRow
    BY <2>2 DEF IInv, FrameInv, Top, MemoryOK, IsTable, RowOf
  <2>4. Status = "ACTIVE"
    BY <2>2 DEF FrozenInv, Owing, Top, WfActive
  <2>5. rec \in RowOf(s) /\ {"memory"} \in SUBSET DOMAIN rec
    BY <2>3 DEF RowOf, StepRow, StepRecords, StepColumns, NonEmpty
  <2> HIDE DEF s, rec
  <2>6. LawfulStep /\ Status' = Status
    BY <2>1, <2>2, <2>3, <2>4, <2>5, MutateLawful
  <2> QED BY <2>1, <2>6, EnterHookFrozen
<1>2. ASSUME EndTransitionHook PROVE FrozenInv' /\ LawfulStep
  <2>1. Running("body") /\ EnterHook /\ Top.op # "trigger"
        /\ UpdateStep(Top.subject, Top.to, Acting)
    BY <1>2 DEF EndTransitionHook
  <2>2. MemoryOK /\ Len(stack) \in DOMAIN stack /\ Top.at = "body"
    BY <2>1, TopOK DEF IInv, TypeOK, CallsOK
  <2>3. Top.subject \in Steps /\ Top.to \in States
    BY <2>1, <2>2 DEF IInv, FrameInv, Top, Steps
  <2>4. Status = "ACTIVE"
    BY <2>1, <2>2 DEF FrozenInv, Owing, Top, WfActive
  <2>5. LawfulStep /\ Status' = Status
    BY <2>1, <2>2, <2>3, <2>4, UpdateStepLawful
  <2> QED BY <2>1, <2>5, EnterHookFrozen
<1>3. ASSUME EndHandler PROVE FrozenInv' /\ LawfulStep
  <2>1. Running("body") /\ EnterHook /\ UNCHANGED inMemory
    BY <1>3 DEF EndHandler
  <2>2. LawfulStep /\ Status' = Status
    BY <2>1 DEF LawfulStep, inMemory, Status
  <2> QED BY <2>1, <2>2, EnterHookFrozen
<1> QED BY <1>1, <1>2, <1>3

LEMMA RunnerFrozen ==
  ASSUME IInv, FrozenInv, Status # "DEGRADED", RunnerStep
  PROVE  FrozenInv' /\ LawfulStep
<1>1. \A s \in Steps : data[s].state \in States
  BY DEF IInv, TypeOK, MemoryOK, IsTable, Steps, RowOf, StepRow, StepRecords, StepColumns
<1>2. UserCall => FrozenInv' /\ LawfulStep
  BY <1>1, SetStatusFrozen, MemorizeFrozen, WorkflowFrozen, AddStepFrozen, TransitFrozen,
     TriggerFrozen DEF UserCall
<1> QED BY <1>2, EndOfBodyFrozen, ReturnFrozen DEF RunnerStep
-----------------------------------------------------------------------------
(* The status the tables have when each mutation of the queue comes to be  *)
(* persisted is a path from theirs to that in memory, which every mutation *)
(* follows lawfully; it never meets a status the guards do not lead to.    *)
Reached == {"ABSENT", "NEW", "ACTIVE", "PAUSED", "CANCELLED"}
StoredStatus == IF Wf \in DOMAIN db THEN db[Wf].status ELSE "ABSENT"
Path(p) ==
  /\ p \in [0 .. Len(queue) -> Reached]
  /\ p[0] = StoredStatus /\ p[Len(queue)] = Status
  /\ \A i \in DOMAIN queue : Lawful(queue[i], p[i - 1], p[i])
LifecycleInv == FrozenInv /\ \E p : Path(p)

LEMMA StatusReached ==
  ASSUME IInv, LifecycleInv
  PROVE  Status \in Reached /\ Status # "DEGRADED"
<1>1. PICK p : Path(p)
  BY DEF LifecycleInv
<1>2. Len(queue) \in Nat
  BY DEF IInv, TypeOK, MemoryOK
<1> QED BY <1>1, <1>2 DEF Path, Reached

(* Appending a lawful mutation leads the path on to the new status.        *)
LEMMA AppendPath ==
  ASSUME IInv, LifecycleInv, LawfulStep, UNCHANGED db
  PROVE  \E p : Path(p)'
<1>1. PICK p : Path(p)
  BY DEF LifecycleInv
<1>2. CASE UNCHANGED inMemory
  <2>1. UNCHANGED <<data, queue, db>>
    BY <1>2 DEF inMemory
  <2> QED BY <1>1, <2>1 DEF Path, StoredStatus, Status
<1>3. ASSUME NEW e, queue' = Append(queue, e), Lawful(e, Status, Status')
      PROVE  \E q : Path(q)'
  <2> DEFINE n == Len(queue)
  <2>1. queue \in Seq(Envelopes) /\ n \in Nat
    BY DEF IInv, TypeOK, MemoryOK
  <2>2. /\ DOMAIN queue = 1 .. n /\ DOMAIN queue' = 1 .. n + 1 /\ Len(queue') = n + 1
        /\ queue'[n + 1] = e /\ \A i \in 1 .. n : queue'[i] = queue[i]
    BY <1>3, <2>1
  <2>3. /\ p \in [0 .. n -> Reached] /\ p[0] = StoredStatus /\ p[n] = Status
        /\ \A i \in 1 .. n : Lawful(queue[i], p[i - 1], p[i])
    BY <1>1, <2>2 DEF Path
  <2>4. Status' \in Reached
    <3>1. Status \in Reached
      BY <2>1, <2>3
    <3> QED BY <1>3, <3>1 DEF Lawful, Abstract!Moves, Reached
  <2> HIDE DEF n
  <2>5. PICK new : new = Status'
    OBVIOUS
  <2> DEFINE q == [i \in 0 .. n + 1 |-> IF i = n + 1 THEN new ELSE p[i]]
  <2>6. /\ q \in [0 .. n + 1 -> Reached] /\ q[n + 1] = new
        /\ \A i \in 0 .. n : q[i] = p[i]
    BY <2>1, <2>3, <2>4, <2>5
  <2> HIDE DEF q
  <2>7. ASSUME NEW i \in 1 .. n + 1 PROVE Lawful(queue'[i], q[i - 1], q[i])
    <3>1. CASE i = n + 1
      <4>1. i - 1 = n /\ n \in 0 .. n
        BY <2>1, <3>1
      <4>2. q[i - 1] = Status /\ q[i] = Status' /\ queue'[i] = e
        BY <2>2, <2>3, <2>5, <2>6, <3>1, <4>1
      <4> QED BY <1>3, <4>2
    <3>2. CASE i # n + 1
      <4>1. i \in 1 .. n /\ i \in 0 .. n /\ i - 1 \in 0 .. n
        BY <2>1, <3>2
      <4>2. q[i - 1] = p[i - 1] /\ q[i] = p[i] /\ queue'[i] = queue[i]
        BY <2>2, <2>6, <4>1
      <4> QED BY <2>3, <4>1, <4>2
    <3> QED BY <3>1, <3>2
  <2>8. q[0] = StoredStatus'
    BY <2>1, <2>3, <2>6 DEF StoredStatus
  <2>9. PICK r : r = q
    OBVIOUS
  <2>10. Path(r)'
    BY <2>2, <2>5, <2>6, <2>7, <2>8, <2>9 DEF Path
  <2> QED BY <2>10
<1> QED BY <1>2, <1>3 DEF LawfulStep

(* Persisting a lawful mutation is a step of the life cycle, or none that  *)
(* its readers see, and takes the tables to the status it says.            *)
LEMMA PersistLawful ==
  ASSUME IInv, DurabilityInv, PersistNext, NEW new, Lawful(queue[1], StoredStatus, new)
  PROVE  StoredStatus' = new /\ [Abstract!Next]_(Abstract!vars)
<1> DEFINE e == queue[1]
<1>1. /\ queue \in Seq(Envelopes) /\ 1 \in DOMAIN queue /\ \A j \in DOMAIN queue : ~(j < 1)
      /\ db' = Applied(db, e)
  BY DEF IInv, TypeOK, MemoryOK, PersistNext
<1>2. e \in Envelopes /\ IsMutation(e) /\ e.kind \in {"insert", "update"}
  <2>1. e \in Envelopes /\ IsMutation(e)
    BY <1>1 DEF IInv, TypeOK, MemoryOK
  <2> QED BY <2>1 DEF Envelopes
<1>3. /\ e.kind = "insert" => e.obj \notin DOMAIN db
      /\ e.kind = "update" => e.obj \in DOMAIN db
      /\ \A x \in DOMAIN db : db[x] \in RowOf(x)
  BY <1>1 DEF DurabilityInv, QueueInv, IInv, TypeOK, TablesOK, IsTable
<1> HIDE DEF e
<1>4. /\ DOMAIN db' = DOMAIN db \cup {e.obj}
      /\ \A x \in DOMAIN db : x # e.obj => db'[x] = db[x]
  BY <1>1, <1>2, <1>3 DEF Applied
<1>5. ASSUME e.obj = Wf PROVE StoredStatus' = new /\ [Abstract!Next]_(Abstract!vars)
  <2>1. StepsOf(db') = StepsOf(db)
    BY <1>4, <1>5 DEF StepsOf
  <2>2. CASE "status" \in e.fields
    <3>1. db'[Wf].status = e.set.status /\ Wf \in DOMAIN db'
      <4>1. CASE e.kind = "insert"
        BY <1>1, <1>4, <1>5, <4>1 DEF Applied
      <4>2. CASE e.kind = "update"
        <5>1. "status" \in DOMAIN db[Wf] /\ Wf \in DOMAIN db
          BY <1>3, <1>5, <4>2 DEF RowOf, WfRow, WfRecords
        <5> QED BY <1>1, <1>5, <2>2, <4>2, <5>1 DEF Applied
      <4> QED BY <1>2, <4>1, <4>2
    <3>2. <<StoredStatus, new>> \in Abstract!Moves /\ new = e.set.status
      BY <1>5, <2>2 DEF Lawful, e
    <3>3. StoredStatus' = new
      BY <3>1, <3>2 DEF StoredStatus
    <3> QED BY <2>1, <3>2, <3>3 DEF Abstract!Next, Abstract!Move, StoredStatus
  <2>3. CASE "status" \notin e.fields
    <3>1. e.kind = "update"
      BY <1>2, <1>5, <2>3 DEF IsMutation, RowOf, WfRow, WfRecords
    <3>2. "status" \in DOMAIN db[Wf] /\ Wf \in DOMAIN db
      BY <1>3, <1>5, <3>1 DEF RowOf, WfRow, WfRecords
    <3>3. db'[Wf].status = db[Wf].status /\ Wf \in DOMAIN db'
      BY <1>1, <1>5, <2>3, <3>1, <3>2 DEF Applied
    <3>4. new = StoredStatus
      BY <1>5, <2>3 DEF Lawful, e
    <3>5. StoredStatus' = StoredStatus
      BY <3>2, <3>3 DEF StoredStatus
    <3> QED BY <2>1, <3>4, <3>5 DEF Abstract!vars, StoredStatus
  <2> QED BY <2>2, <2>3
<1>6. ASSUME e.obj # Wf PROVE StoredStatus' = new /\ [Abstract!Next]_(Abstract!vars)
  <2>1. StoredStatus' = StoredStatus
    BY <1>4, <1>6 DEF StoredStatus
  <2>2. /\ StoredStatus = "ACTIVE" /\ new = StoredStatus
        /\ e.kind = "insert" => e.set.status = "ACTIVE"
    BY <1>6 DEF Lawful, e
  <2>3. /\ DOMAIN StepsOf(db) = DOMAIN db \ {Wf}
        /\ DOMAIN StepsOf(db') = (DOMAIN db \ {Wf}) \cup {e.obj}
    BY <1>4, <1>6 DEF StepsOf
  <2>4. ASSUME NEW t \in DOMAIN StepsOf(db') \ {e.obj}
        PROVE  t \in DOMAIN StepsOf(db) /\ StepsOf(db')[t] = StepsOf(db)[t]
    BY <1>4, <2>3 DEF StepsOf
  <2>5. e.obj \notin DOMAIN StepsOf(db) => StepsOf(db')[e.obj].status = "ACTIVE"
    <3> SUFFICES ASSUME e.obj \notin DOMAIN StepsOf(db)
        PROVE  StepsOf(db')[e.obj].status = "ACTIVE"
      OBVIOUS
    <3>1. e.kind = "insert"
      BY <1>2, <1>3, <1>6, <2>3
    <3>2. db'[e.obj] = e.set
      BY <1>1, <3>1 DEF Applied
    <3> QED BY <1>4, <1>6, <2>2, <3>1, <3>2 DEF StepsOf
  <2>6. Abstract!Work
    BY <2>1, <2>2, <2>3, <2>4, <2>5 DEF Abstract!Work, StoredStatus
  <2> QED BY <2>1, <2>2, <2>6 DEF Abstract!Next
<1> QED BY <1>5, <1>6

LEMMA PersistPath ==
  ASSUME IInv, DurabilityInv, LifecycleInv, PersistNext
  PROVE  (\E p : Path(p)') /\ [Abstract!Next]_(Abstract!vars)
<1>1. PICK p : Path(p)
  BY DEF LifecycleInv
<1> DEFINE n == Len(queue)
<1>2. /\ queue \in Seq(Envelopes) /\ n \in Nat /\ n > 0
      /\ DOMAIN queue = 1 .. n /\ DOMAIN queue' = 1 .. n - 1 /\ Len(queue') = n - 1
      /\ \A i \in 1 .. n - 1 : queue'[i] = queue[i + 1]
      /\ UNCHANGED data
  BY DEF IInv, TypeOK, MemoryOK, PersistNext
<1>3. /\ p \in [0 .. n -> Reached] /\ p[0] = StoredStatus /\ p[n] = Status
      /\ \A i \in 1 .. n : Lawful(queue[i], p[i - 1], p[i])
  BY <1>1, <1>2 DEF Path
<1> HIDE DEF n
<1>4. Lawful(queue[1], StoredStatus, p[1])
  <2>1. 1 \in 1 .. n /\ 1 - 1 = 0
    BY <1>2
  <2>2. Lawful(queue[1], p[1 - 1], p[1])
    BY <1>3, <2>1
  <2> QED BY <1>3, <2>1, <2>2
<1>5. StoredStatus' = p[1] /\ [Abstract!Next]_(Abstract!vars)
  BY <1>4, PersistLawful
<1> DEFINE q == [i \in 0 .. n - 1 |-> p[i + 1]]
<1>6. /\ q \in [0 .. n - 1 -> Reached]
      /\ \A i \in 0 .. n - 1 : q[i] = p[i + 1]
  BY <1>2, <1>3
<1> HIDE DEF q
<1>7. ASSUME NEW i \in 1 .. n - 1 PROVE Lawful(queue'[i], q[i - 1], q[i])
  <2>1. i + 1 \in 1 .. n /\ (i + 1) - 1 = i /\ i \in 0 .. n - 1 /\ i - 1 \in 0 .. n - 1
        /\ (i - 1) + 1 = i
    BY <1>2
  <2>2. Lawful(queue[i + 1], p[(i + 1) - 1], p[i + 1])
    BY <1>3, <2>1
  <2>3. q[i] = p[i + 1] /\ q[i - 1] = p[i]
    BY <1>6, <2>1
  <2> QED BY <1>2, <2>1, <2>2, <2>3
<1>8. q[0] = StoredStatus' /\ q[n - 1] = Status'
  BY <1>2, <1>3, <1>5, <1>6 DEF Status
<1>9. PICK r : r = q
  OBVIOUS
<1>10. Path(r)'
  BY <1>2, <1>6, <1>7, <1>8, <1>9 DEF Path
<1> QED BY <1>5, <1>10

LEMMA InitLifecycle == ASSUME Init PROVE LifecycleInv
<1>1. /\ Len(queue) = 1 /\ DOMAIN queue = {1} /\ queue[1].obj = Wf
      /\ queue[1].fields = DOMAIN NewWorkflow /\ queue[1].set = NewWorkflow
      /\ Status = "NEW" /\ stack = <<>> /\ DOMAIN db = {}
  <2> DEFINE e == [kind |-> "insert", obj |-> Wf, fields |-> DOMAIN NewWorkflow,
                   set |-> NewWorkflow, order |-> 1, action |-> "initialize", txn |-> 0]
  <2>1. queue = <<e>>
    BY DEF Init
  <2>2. e.obj = Wf /\ e.fields = DOMAIN NewWorkflow /\ e.set = NewWorkflow
    OBVIOUS
  <2>3. Status = "NEW"
    BY DEF Init, Status, NewWorkflow
  <2>4. stack = <<>> /\ DOMAIN db = {}
    BY DEF Init, NoRows
  <2> HIDE DEF e
  <2> QED BY <2>1, <2>2, <2>3, <2>4
<1> DEFINE p == [i \in 0 .. 1 |-> IF i = 0 THEN "ABSENT" ELSE "NEW"]
<1>2. p \in [0 .. 1 -> Reached] /\ p[0] = "ABSENT" /\ p[1] = "NEW"
  BY DEF Reached
<1> HIDE DEF p
<1>3. "status" \in DOMAIN NewWorkflow /\ NewWorkflow.status = "NEW"
  BY DEF NewWorkflow
<1>4. Lawful(queue[1], p[0], p[1])
  BY <1>1, <1>2, <1>3 DEF Lawful, Abstract!Moves
<1>5. Path(p)
  BY <1>1, <1>2, <1>4 DEF Path, StoredStatus
<1> QED BY <1>1, <1>5 DEF LifecycleInv, FrozenInv

LEMMA LifecycleStep ==
  ASSUME IInv, DurabilityInv, LifecycleInv, [Next]_vars
  PROVE  LifecycleInv' /\ [Abstract!Next]_(Abstract!vars)
<1>1. FrozenInv /\ Status # "DEGRADED"
  BY StatusReached DEF LifecycleInv
<1>2. CASE RunnerStep
  <2>1. UNCHANGED db
    BY <1>2, RunnerSteps DEF outside
  <2> QED BY <1>1, <1>2, <2>1, RunnerFrozen, AppendPath DEF LifecycleInv, Abstract!vars
<1>3. CASE DriverStep \/ UNCHANGED vars
  <2>1. UNCHANGED <<data, queue, db>> /\ (stack' = stack \/ stack' = <<>>)
    BY <1>3 DEF DriverStep, BeginTxn, EndTxn, Raise, Drain, EndPersist, inMemory, vars
  <2>2. FrozenInv'
    BY <1>1, <2>1 DEF FrozenInv, Status
  <2>3. \E p : Path(p)'
    BY <2>1 DEF LifecycleInv, Path, StoredStatus, Status
  <2> QED BY <2>1, <2>2, <2>3 DEF LifecycleInv, Abstract!vars
<1>4. CASE PersistNext
  <2>1. UNCHANGED <<data, stack>>
    BY <1>4 DEF PersistNext
  <2>2. FrozenInv'
    BY <1>1, <2>1 DEF FrozenInv, Status
  <2> QED BY <1>4, <2>2, PersistPath DEF LifecycleInv
<1>5. CASE Load
  <2>1. /\ queue' = <<>> /\ data' = db /\ stack' = <<>> /\ Wf \in DOMAIN db /\ UNCHANGED db
        /\ Len(queue') = 0 /\ DOMAIN queue' = {}
    BY <1>5 DEF Load
  <2>2. StoredStatus \in Reached /\ StoredStatus' = StoredStatus /\ Status' = StoredStatus
    <3>1. PICK p : Path(p)
      BY DEF LifecycleInv
    <3>2. 0 \in 0 .. Len(queue)
      BY DEF IInv, TypeOK, MemoryOK
    <3> QED BY <2>1, <3>1, <3>2 DEF Path, StoredStatus, Status
  <2>3. PICK stored : stored = StoredStatus
    OBVIOUS
  <2> DEFINE q == [i \in 0 .. 0 |-> stored]
  <2>4. q \in [0 .. 0 -> Reached] /\ q[0] = stored
    BY <2>2, <2>3
  <2> HIDE DEF q
  <2>5. Path(q)'
    BY <2>1, <2>2, <2>3, <2>4 DEF Path
  <2>6. FrozenInv'
    BY <2>1 DEF FrozenInv
  <2> QED BY <2>1, <2>5, <2>6 DEF LifecycleInv, Abstract!vars
<1> QED BY <1>2, <1>3, <1>4, <1>5, StepKinds

LEMMA LifecycleInductive == Spec => []LifecycleInv
<1>1. Init => LifecycleInv
  BY InitLifecycle
<1>2. IInv /\ DurabilityInv /\ LifecycleInv /\ [Next]_vars => LifecycleInv'
  BY LifecycleStep
<1> QED BY <1>1, <1>2, InductiveInvariant, DurabilityInductive, PTL DEF Spec

(* While user code runs, steps appear and change only at an active         *)
(* workflow, whatever the hooks and handlers do and however they nest.     *)
THEOREM StepsFrozen == Spec => StepsFrozenUnlessActive
<1>1. ASSUME IInv, LifecycleInv, [Next]_vars, phase = "open", StepsChange
      PROVE  Status \in WfActive
  <2>1. FrozenInv /\ Status # "DEGRADED" /\ Wf \in DOMAIN data
    BY <1>1, StatusReached DEF LifecycleInv, IInv, TypeOK, MemoryOK
  <2>2. CASE RunnerStep
    <3>1. LawfulStep
      BY <1>1, <2>1, <2>2, RunnerFrozen
    <3>2. CASE UNCHANGED inMemory
      BY <1>1, <3>2 DEF StepsChange, Steps, inMemory
    <3>3. ASSUME NEW e, e.obj # Wf => Status = "ACTIVE",
                 DOMAIN data' = DOMAIN data \cup {e.obj},
                 \A x \in DOMAIN data : x # e.obj => data'[x] = data[x]
          PROVE  Status \in WfActive
      BY <1>1, <2>1, <3>3 DEF StepsChange, Steps, WfActive
    <3> QED BY <3>1, <3>2, <3>3 DEF LawfulStep
  <2>3. CASE DriverStep \/ PersistNext \/ UNCHANGED vars
    <3>1. UNCHANGED data
      BY <2>3 DEF DriverStep, BeginTxn, EndTxn, Raise, Drain, EndPersist, PersistNext,
                  inMemory, vars
    <3> QED BY <1>1, <3>1 DEF StepsChange, Steps
  <2>4. CASE Load
    BY <1>1, <2>4 DEF Load
  <2> QED BY <1>1, <2>2, <2>3, <2>4, StepKinds
<1>2. IInv /\ LifecycleInv /\ [Next]_vars
        => [phase = "open" /\ StepsChange => Status \in WfActive]_vars
  BY <1>1
<1> QED BY <1>2, InductiveInvariant, LifecycleInductive, PTL
        DEF Spec, StepsFrozenUnlessActive

(* What readers of the tables see is the life cycle, whatever transactions *)
(* fail, however calls nest and whenever a session reloads the workflow.   *)
THEOREM TablesFollowLifecycle == Spec => Lifecycle
<1>1. Init => Abstract!Init
  BY DEF Init, NoRows, StepsOf, Abstract!Init
<1>2. IInv /\ DurabilityInv /\ LifecycleInv /\ [Next]_vars
        => [Abstract!Next]_(Abstract!vars)
  BY LifecycleStep
<1> QED BY <1>1, <1>2, InductiveInvariant, DurabilityInductive, LifecycleInductive, PTL
        DEF Spec, Lifecycle, Abstract!Spec
=============================================================================

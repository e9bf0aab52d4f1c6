---------------------------- MODULE NavisRunner ----------------------------
(***************************************************************************)
(* One WorkflowRunner (navis/engine/runner.py), the code that drives it    *)
(* and the tables its mutations are written to (navis/engine/manager.py).  *)
(*                                                                         *)
(* The runner is synchronous: a `with wf.transaction()` block calls        *)
(* actions, an action runs user code (trigger handlers, transition hooks,  *)
(* on_<action> hooks), and user code calls actions again through the       *)
(* proxies it is given. The Python call stack is `stack`; the runner's own *)
(* _action_context deque is `ctx`. They part ways when an exception        *)
(* unwinds the stack, since no wrapper has a try/finally.                  *)
(*                                                                         *)
(* Every change of the in-memory state `data` puts a mutation on `queue`;  *)
(* persist() drains the queue and applies the mutations one at a time to   *)
(* `db`, the tables as the enclosing database transaction sees them.       *)
(* Rows that no guard reads (participants, tasks, stages, parameters,      *)
(* activities, messages) are left out; the mutations of the first two are  *)
(* kept as entries that write no field.                                    *)
(***************************************************************************)
EXTENDS NavisStatus, Sequences

CONSTANTS
  SingleKeys, MultiKeys,  \* step keys of the workflow class, by `multiple`
  Selectors,              \* explicit selectors given to add_step
  States,                 \* __states__ of the steps
  Hooked,                 \* the states with a @transition hook
  AllowedFrom, UnallowedFrom, \* allowed_origins, unallowed_origins per hook
  MemKeys,                \* keys of memory and output
  Vocabulary,             \* the actions that user code and commands use
  Wf,                     \* the workflow itself, beside its steps
  MaxMutations, MaxDepth  \* bounds: mutations of each transaction, nesting

Begin  == "_CREATED"
Finish == "_FINISHED"
Keys    == SingleKeys \cup MultiKeys
StepIds == Keys \X Nat

ASSUME StatesAssumption ==
  /\ {Begin, Finish} \subseteq States
  /\ Hooked \subseteq States
  /\ AllowedFrom \in [Hooked -> SUBSET States]
  /\ UnallowedFrom \in [Hooked -> SUBSET States]
ASSUME NamesAssumption == Wf \notin StepIds /\ None \notin Nat
ASSUME BoundsAssumption == MaxMutations \in Seq(Nat) /\ MaxDepth \in Nat

VARIABLES
  data,    \* in memory: Wf and each created step |-> a record of fields
  queue,   \* _mut_queue: mutation envelopes not yet persisted
  counter, \* _counter: order of the last mutation
  txn,     \* _transaction_id, or None
  ctx,     \* _action_context: <<action, object>>
  stack,   \* frames of the calls in progress
  phase,   \* where the driving code is: "idle", "open" (inside the with
           \* block), "closed" (left it), "persisting", "raised"
  ntxn,    \* transactions begun
  db,      \* the workflow tables
  log,     \* the transactions with a row in the workflow_mutation table
  failed   \* history: transactions an exception left

vars == <<data, queue, counter, txn, ctx, stack, phase, ntxn, db, log, failed>>
inMemory == <<data, queue, counter>>  \* what a mutation changes
outside  == <<txn, phase, ntxn, db, log, failed>>  \* what no call changes
-----------------------------------------------------------------------------
Objects == StepIds \cup {Wf}
Steps   == DOMAIN data \ {Wf}
Status  == data[Wf].status
StepStatuses == [s \in Steps |-> data[s].status]
Selected     == {data[s].selector : s \in Steps}

NewWorkflow == [status |-> "NEW", paused |-> None, progress |-> <<0, 1>>,
                memory |-> {}, output |-> {}]
NewStepWithLabel(sel) ==
  [state |-> "NEW", status |-> "ACTIVE", memory |-> {}, selector |-> sel]
NewStep(sel) ==
  [state |-> Begin, status |-> "ACTIVE", memory |-> {}, selector |-> sel]

(* A mutation of object o: its record becomes rec, of which the envelope   *)
(* carries the given fields (the others are None, which persist excludes), *)
(* with a number, the action on top of the context and the transaction.    *)
Envelope(kind, o, rec, fields, action) ==
  [kind |-> kind, obj |-> o, fields |-> fields,
   set |-> [f \in DOMAIN rec |-> IF f \in fields THEN rec[f] ELSE None],
   order |-> counter + 1, action |-> action, txn |-> txn]
MutateAs(kind, o, rec, fields, action) ==
  /\ Cardinality({i \in DOMAIN queue : queue[i].txn = txn}) < MaxMutations[txn]
  /\ counter' = counter + 1
  /\ data' = [x \in DOMAIN data \cup {o} |-> IF x = o THEN rec ELSE data[x]]
  /\ queue' = Append(queue, Envelope(kind, o, rec, fields, action))
Mutate(o, rec, fields, action) == MutateAs("update", o, rec, fields, action)
Insert(o, rec, action) == MutateAs("insert", o, rec, DOMAIN rec, action)

(* What persisting an envelope does to the tables: it inserts a row, or    *)
(* updates the fields it carries where its row is.                         *)
Applied(tables, e) ==
  IF e.kind = "insert"
  THEN [x \in DOMAIN tables \cup {e.obj} |-> IF x = e.obj THEN e.set ELSE tables[x]]
  ELSE [x \in DOMAIN tables |->
          IF x # e.obj THEN tables[x]
          ELSE [f \in DOMAIN tables[x] |->
                  IF f \in e.fields THEN e.set[f] ELSE tables[x][f]]]
NoRows == [x \in {} |-> NewWorkflow]

(* create_workflow: the runner of a new workflow holds the mutation that   *)
(* inserts it, generated in a transaction of its own that has ended.       *)
Init ==
  /\ data = [x \in {Wf} |-> NewWorkflow]
  /\ queue = << [kind |-> "insert", obj |-> Wf, fields |-> DOMAIN NewWorkflow,
                 set |-> NewWorkflow, order |-> 1, action |-> "initialize", txn |-> 0] >>
  /\ counter = 1
  /\ txn = None /\ ctx = <<>> /\ stack = <<>>
  /\ phase = "closed" /\ ntxn = 0
  /\ db = NoRows /\ log = {} /\ failed = {}
-----------------------------------------------------------------------------
(* Calls. A frame is [op, on, subject, to, at, proxies]: `at` says whether *)
(* the action's own body runs user code ("body"), has the step's memory    *)
(* left to set ("memory"), or has ended and runs the hook ("hook");        *)
(* `proxies` are the objects that user code holds a state proxy of.        *)
Top == stack[Len(stack)]
HookProxies(on) == IF on = Wf THEN {Wf} ELSE {}

(* What the aggregate and the event handler call on the runner, and the    *)
(* actions that are external, i.e. on no proxy.                            *)
Commanded == {"start", "cancel", "abort", "add_participant", "trigger"}
External  == {"start", "add_participant", "trigger"}

Reachable(op, on) ==
  IF stack = <<>> THEN op \in Commanded /\ on = Wf
  ELSE /\ Top.at \in {"body", "hook"}
       /\ op \notin External
       /\ on \in Top.proxies

(* A wrapper of workflow_action or step_action up to the end of the        *)
(* action's body, or to the user code the body runs.                       *)
Call(op, on, subject, to, at, proxies) ==
  /\ phase = "open" /\ txn # None
  /\ op \in Vocabulary /\ Len(stack) < MaxDepth
  /\ Reachable(op, on)
  /\ Status \in AllowedAt(op, on # Wf)
  /\ stack' = Append(stack, [op |-> op, on |-> on, subject |-> subject, to |-> to,
                             at |-> at, proxies |-> proxies])
  /\ ctx' = Append(ctx, <<op, on>>)
  /\ UNCHANGED outside
SimpleCall(op, on) == Call(op, on, on, None, "hook", HookProxies(on))

(* start, cancel_workflow, abort_workflow, pause_workflow, resume_workflow *)
SetStatus(op) ==
  /\ SimpleCall(op, Wf)
  /\ MayChangeStatus(Status)
  /\ LET paused == IF op = "pause" THEN Status
                   ELSE IF op = "resume" THEN None ELSE data[Wf].paused
     IN Mutate(Wf, [data[Wf] EXCEPT !.status = TargetOf(op, data[Wf].paused),
                                    !.paused = paused],
               IF op = "pause" THEN {"status", "paused"} ELSE {"status"}, op)

(* workflow_set_memory and step_set_memory *)
Memorize(on, keys) ==
  /\ SimpleCall("memorize", on)
  /\ Mutate(on, [data[on] EXCEPT !.memory = @ \cup keys], {"memory"}, "memorize")

Output(keys) ==
  /\ SimpleCall("output", Wf)
  /\ Mutate(Wf, [data[Wf] EXCEPT !.output = @ \cup keys], {"output"}, "output")

(* add_task and step_add_task, add_participant: rows of other tables *)
AddRow(op, on) ==
  /\ op = "add_participant" => on = Wf
  /\ SimpleCall(op, on)
  /\ Mutate(Wf, data[Wf], {}, op)

(* workflow_get_memory and step_get_memory *)
Recall(on) == SimpleCall("recall", on) /\ UNCHANGED inMemory

(* _add_step: a step whose key is not `multiple` has one id; the others    *)
(* number theirs by the steps created so far. The selector defaults to the *)
(* id.                                                                     *)
StepIdFor(key) == IF key \in SingleKeys THEN <<key, 0>> ELSE <<key, Cardinality(Steps)>>
FreeSelector(id, sel) == sel \notin Selected
MayAddStep(id, sel) == id \notin DOMAIN data /\ sel \notin Selected

AddStep(on, key, selector, at) ==
  LET id  == StepIdFor(key)
      sel == IF selector = None THEN id ELSE selector
  IN /\ Call("add_step", on, id, None, at, IF at = "hook" THEN HookProxies(on) ELSE {})
     /\ MayAddStep(id, sel)
     /\ Insert(id, NewStep(sel), "add_step")

(* _update_step: reaching the final state completes the step, going back   *)
(* to the first leaves its status, any other state makes it active.        *)
StepStatusAt(to, status) ==
  IF to = Finish THEN "COMPLETED" ELSE IF to = Begin THEN status ELSE "ACTIVE"
UpdateStateOnly(s, to, action) ==
  Mutate(s, [data[s] EXCEPT !.state = to, !.status = StepStatusAt(to, @)],
         {"state"}, action)
UpdateStep(s, to, action) ==
  Mutate(s, [data[s] EXCEPT !.state = to, !.status = StepStatusAt(to, @)],
         IF to = Begin THEN {"state"} ELSE {"state", "status"}, action)

(* step_transit is called on the step, workflow_transit_step names it.     *)
TransitOp(on) == IF on = Wf THEN "transit_step" ELSE "transit"
TransitCall(on, s, to, at, proxies) ==
  /\ s \in Steps /\ (on = s \/ on = Wf)
  /\ Call(TransitOp(on), on, s, to, at, proxies)

(* _transit: to the present state it does nothing; to a state without a    *)
(* hook it updates the step; to a state with one it first checks where the *)
(* step comes from and runs the hook with the step's proxy.                *)
MayTransit(from, to) ==
  to \in Hooked => /\ AllowedFrom[to] = {} \/ from \in AllowedFrom[to]
                   /\ from \notin UnallowedFrom[to]
TransitToSame(on, s) ==
  /\ TransitCall(on, s, data[s].state, "hook", HookProxies(on))
  /\ UNCHANGED inMemory
TransitDirectly(on, s, to) ==
  /\ TransitCall(on, s, to, "hook", HookProxies(on))
  /\ to # data[s].state /\ to \notin Hooked
  /\ UpdateStep(s, to, TransitOp(on))
TransitThroughHook(on, s, to) ==
  /\ TransitCall(on, s, to, "body", {s})
  /\ to # data[s].state /\ to \in Hooked
  /\ MayTransit(data[s].state, to)
  /\ UNCHANGED inMemory

(* trigger: the handler gets the proxy of the step the event is routed to, *)
(* or of the workflow.                                                     *)
Trigger(o) ==
  /\ o \in DOMAIN data
  /\ Call("trigger", Wf, o, None, "body", {o})
  /\ UNCHANGED inMemory
-----------------------------------------------------------------------------
(* The rest of a call, once its user code has returned. A mutation is      *)
(* labelled with the action on top of the context.                         *)
Acting == ctx[Len(ctx)][1]
Running(at) == phase = "open" /\ stack # <<>> /\ Top.at = at
EnterHook ==
  stack' = [stack EXCEPT ![Len(stack)].at = "hook",
                         ![Len(stack)].proxies = HookProxies(Top.on)]

SetNewStepMemory(keys) ==
  /\ Running("memory") /\ EnterHook
  /\ LET s == Top.subject
     IN Mutate(s, [data[s] EXCEPT !.memory = @ \cup keys], {"memory"}, Acting)
  /\ UNCHANGED <<ctx, outside>>

EndTransitionHook ==
  /\ Running("body") /\ Top.op # "trigger" /\ EnterHook
  /\ UpdateStep(Top.subject, Top.to, Acting)
  /\ UNCHANGED <<ctx, outside>>

EndHandler ==
  /\ Running("body") /\ Top.op = "trigger" /\ EnterHook
  /\ UNCHANGED <<inMemory, ctx, outside>>

(* reconcile: what the steps say of the workflow's status and progress.    *)
Reconciled ==
  LET status == ComputeStatus(StepStatuses, Steps)
  IN [data[Wf] EXCEPT !.status = IF status = None THEN @ ELSE status,
                      !.progress = Progress(StepStatuses, Steps)]
ReconciledFields ==
  (IF Reconciled.status = Status THEN {} ELSE {"status"}) \cup
  (IF SameFraction(Reconciled.progress, data[Wf].progress) THEN {} ELSE {"progress"})
Reconcile ==
  IF ReconciledFields = {} THEN UNCHANGED inMemory
  ELSE /\ Reconciled.status # Status => MayChangeStatus(Status)
       /\ Mutate(Wf, Reconciled, ReconciledFields, Acting)

(* The end of the wrapper: a step action reconciles, then the context is   *)
(* popped. The caller of add_step is handed the new step's proxy.          *)
Handed == IF Top.op = "add_step" THEN {Top.subject} ELSE {}
Pop ==
  LET rest == SubSeq(stack, 1, Len(stack) - 1)
  IN stack' = IF rest = <<>> THEN rest
              ELSE [rest EXCEPT ![Len(rest)].proxies = @ \cup Handed]
KeepContext == UNCHANGED ctx
PopContext == ctx' = SubSeq(ctx, 1, Len(ctx) - 1)

Return ==
  /\ Running("hook")
  /\ Top.op = "start" => Steps # {}
  /\ IF Top.on = Wf THEN UNCHANGED inMemory ELSE Reconcile
  /\ Pop /\ PopContext
  /\ UNCHANGED outside

(* An exception out of the with block: a refused call, user code's own, a  *)
(* start without steps (P00.015), commands that always end in an error     *)
(* (update_workflow, del_participant, cancel_task, resume, abort). Nothing *)
(* is undone: transaction() has no finally, the wrappers do not pop.       *)
UnwoundByFinally == txn' = None /\ UNCHANGED ctx
Unwound == UNCHANGED <<txn, ctx>>
Raise ==
  /\ phase = "open"
  /\ stack' = <<>> /\ phase' = "raised"
  /\ failed' = failed \cup {txn}
  /\ Unwound
  /\ UNCHANGED <<inMemory, ntxn, db, log>>
-----------------------------------------------------------------------------
(* transaction(): entering it twice is refused (P00.009).                  *)
BeginTxn ==
  /\ phase \in {"idle", "closed", "raised"} /\ txn = None
  /\ ntxn < Len(MaxMutations)
  /\ ntxn' = ntxn + 1 /\ txn' = ntxn' /\ phase' = "open"
  /\ UNCHANGED <<inMemory, ctx, stack, db, log, failed>>

EndTxn ==
  /\ phase = "open" /\ stack = <<>>
  /\ txn' = None /\ phase' = "closed"
  /\ UNCHANGED <<inMemory, ctx, stack, ntxn, db, log, failed>>

(* persist: the driver commits the workflow it has just left; the queue is *)
(* drained at once, so nothing joins it until it is written.               *)
Drain ==
  /\ phase = "closed" /\ phase' = "persisting"
  /\ UNCHANGED <<inMemory, txn, ctx, stack, ntxn, db, log, failed>>

PersistNext ==
  /\ phase = "persisting" /\ queue # <<>>
  /\ db' = Applied(db, Head(queue))
  /\ log' = log \cup {Head(queue).txn}
  /\ queue' = Tail(queue)
  /\ UNCHANGED <<data, counter, txn, ctx, stack, phase, ntxn, failed>>

EndPersist ==
  /\ phase = "persisting" /\ queue = <<>> /\ phase' = "idle"
  /\ UNCHANGED <<inMemory, txn, ctx, stack, ntxn, db, log, failed>>

(* A later session: load_workflow makes a new runner from the tables.      *)
Load ==
  /\ phase \in {"idle", "raised"} /\ Wf \in DOMAIN db
  /\ data' = db /\ queue' = <<>> /\ counter' = 0
  /\ txn' = None /\ ctx' = <<>> /\ stack' = <<>> /\ phase' = "idle"
  /\ UNCHANGED <<ntxn, db, log, failed>>
-----------------------------------------------------------------------------
NonEmpty == SUBSET MemKeys \ {{}}
UserCall ==
  \/ \E op \in StatusOps : SetStatus(op)
  \/ \E o \in DOMAIN data, keys \in NonEmpty : Memorize(o, keys)
  \/ \E keys \in NonEmpty : Output(keys)
  \/ \E op \in {"add_task", "add_participant"}, o \in DOMAIN data : AddRow(op, o)
  \/ \E o \in DOMAIN data : Recall(o)
  \/ \E o \in DOMAIN data, key \in Keys, sel \in Selectors \cup {None},
        at \in {"memory", "hook"} : AddStep(o, key, sel, at)
  \/ \E o \in DOMAIN data, s \in Steps : TransitToSame(o, s)
  \/ \E o \in DOMAIN data, s \in Steps, to \in States : TransitDirectly(o, s, to)
  \/ \E o \in DOMAIN data, s \in Steps, to \in States : TransitThroughHook(o, s, to)
  \/ \E o \in DOMAIN data : Trigger(o)

Next ==
  \/ BeginTxn \/ UserCall
  \/ \E keys \in NonEmpty : SetNewStepMemory(keys)
  \/ EndTransitionHook \/ EndHandler \/ Return \/ Raise \/ EndTxn
  \/ Drain \/ PersistNext \/ EndPersist \/ Load

Spec == Init /\ [][Next]_vars
-----------------------------------------------------------------------------
(* The rows of workflow_state and workflow_step, what a mutation carries   *)
(* of them, the envelopes and the frames.                                  *)
WfColumns   == [status |-> WorkflowStatus, paused |-> WorkflowStatus \cup {None},
                progress |-> Nat \X Nat, memory |-> SUBSET MemKeys,
                output |-> SUBSET MemKeys]
StepColumns == [state |-> States, status |-> StepStatus, memory |-> SUBSET MemKeys,
                selector |-> Selectors \cup StepIds]
ColumnsOf(o) == IF o = Wf THEN WfColumns ELSE StepColumns
WfRecords(c) == [status: c.status, paused: c.paused, progress: c.progress,
                 memory: c.memory, output: c.output]
StepRecords(c) == [state: c.state, status: c.status, memory: c.memory,
                   selector: c.selector]
WfRow   == WfRecords(WfColumns)
StepRow == StepRecords(StepColumns)
RowOf(o) == IF o = Wf THEN WfRow ELSE StepRow
WfSet   == WfRecords([f \in DOMAIN WfColumns |-> WfColumns[f] \cup {None}])
StepSet == StepRecords([f \in DOMAIN StepColumns |-> StepColumns[f] \cup {None}])
Actions == StatusOps \cup {"initialize", "add_task", "add_participant", "add_step",
             "transit", "transit_step", "memorize", "output", "recall", "trigger"}
Fields == {"status", "paused", "progress", "memory", "output", "state", "selector"}
Envelopes == [kind: {"insert", "update"}, obj: Objects, fields: SUBSET Fields,
              set: WfSet \cup StepSet, order: Nat, action: Actions, txn: Nat]
Frames == [op: Actions, on: Objects, subject: Objects, to: States \cup {None},
           at: {"body", "memory", "hook"}, proxies: SUBSET Objects]

IsTable(t) == /\ t = [o \in DOMAIN t |-> t[o]]
              /\ DOMAIN t \subseteq Objects /\ IsFiniteSet(DOMAIN t)
              /\ \A o \in DOMAIN t : t[o] \in RowOf(o)
IsMutation(e) ==
  /\ e.set \in IF e.obj = Wf THEN WfSet ELSE StepSet
  /\ e.fields \subseteq DOMAIN e.set
  /\ \A f \in e.fields : e.set[f] \in ColumnsOf(e.obj)[f]
  /\ e.kind = "insert" => e.set \in RowOf(e.obj) /\ e.fields = DOMAIN e.set

(* The shape of every variable: rows have the columns of their table, and  *)
(* an envelope of the queue the fields of its object's mutations.          *)
MemoryOK ==
  /\ IsTable(data) /\ Wf \in DOMAIN data
  /\ queue \in Seq(Envelopes) /\ \A i \in DOMAIN queue : IsMutation(queue[i])
  /\ counter \in Nat
CallsOK == ctx \in Seq(Actions \X Objects) /\ stack \in Seq(Frames)
TablesOK == IsTable(db) /\ log \subseteq Nat /\ failed \subseteq 0 .. ntxn
TypeOK ==
  /\ MemoryOK /\ CallsOK /\ TablesOK
  /\ ntxn \in Nat /\ txn \in 0 .. ntxn \cup {None}
  /\ phase \in {"idle", "open", "closed", "persisting", "raised"}
-----------------------------------------------------------------------------
(* The runner's context is the call stack while a transaction is open and  *)
(* empty once it has been left without an exception: every mutation and    *)
(* activity is recorded under the action that made it, however actions,    *)
(* handlers and hooks nest (mutate, log_activity: _action_context[-1]).    *)
CtxDiscipline ==
  /\ phase = "open" =>
       /\ Len(ctx) = Len(stack)
       /\ \A i \in DOMAIN stack : ctx[i] = <<stack[i].op, stack[i].on>>
  /\ phase \in {"idle", "closed", "persisting"} => ctx = <<>>

(* Nothing changes in memory without being on its way to the tables, and   *)
(* the other way round: each field has the value of the last mutation      *)
(* pending for it or, if none is, the one in the tables. In particular a   *)
(* runner at rest and a runner loaded anew are the same (commit, persist,  *)
(* load_workflow).                                                         *)
Writes(e, o, f) == e.obj = o /\ f \in e.fields
Pending(o, f)   == {i \in DOMAIN queue : Writes(queue[i], o, f)}
Replay ==
  /\ DOMAIN db \subseteq DOMAIN data
  /\ \A o \in DOMAIN data : \A f \in DOMAIN data[o] :
       IF Pending(o, f) = {} THEN o \in DOMAIN db /\ db[o][f] = data[o][f]
       ELSE \E i \in Pending(o, f) : /\ queue[i].set[f] = data[o][f]
                                     /\ \A j \in Pending(o, f) : j <= i

(* A transaction an exception left never reaches the tables, although its  *)
(* mutations stay on the queue and its changes in memory (transaction()    *)
(* has no rollback): the runner it wedges is what protects the tables.     *)
AtomicCommit == log \cap failed = {}

(* persist never meets a row that exists when it inserts, nor misses one   *)
(* when it updates: step ids stay unique across transactions and reloads   *)
(* (_add_step numbers `multiple` steps by the steps there are).            *)
PersistSucceeds ==
  phase = "persisting" /\ queue # <<>> =>
    (Head(queue).kind = "insert" <=> Head(queue).obj \notin DOMAIN db)

(* While user code runs, steps appear and change only at an active         *)
(* workflow. The status is checked when an action is called, the step is   *)
(* changed after the transition hook it runs: the hook must not be able to *)
(* leave that status (validate_transaction, _transit, StepStateProxy).     *)
StepsChange == \E s \in Steps \cup (DOMAIN data' \ {Wf}) :
                 s \notin DOMAIN data \/ s \notin DOMAIN data' \/ data'[s] # data[s]
StepsFrozenUnlessActive ==
  [][phase = "open" /\ StepsChange => Status \in WfActive]_vars

(* What the tables go through, one mutation at a time, is a life cycle of  *)
(* the workflow as NavisLifecycle states it.                               *)
StepsOf(t) == [s \in DOMAIN t \ {Wf} |-> [state |-> t[s].state, status |-> t[s].status]]
Abstract == INSTANCE NavisLifecycle WITH
  status <- IF Wf \in DOMAIN db THEN db[Wf].status ELSE "ABSENT",
  steps  <- StepsOf(db)
Lifecycle == Abstract!Spec
-----------------------------------------------------------------------------
(* status.py:47: COMPLETED means "all steps finished". Of a workflow at    *)
(* rest that has steps and whose progress is complete.                     *)
AllFinishedMeansCompleted ==
  phase = "idle" /\ Steps # {} /\ (\A s \in Steps : data[s].status \in StepFinished)
    /\ SameFraction(data[Wf].progress, <<1, 1>>)
    => Status = "COMPLETED"
=============================================================================

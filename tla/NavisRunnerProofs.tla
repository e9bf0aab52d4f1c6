------------------------- MODULE NavisRunnerProofs -------------------------
(***************************************************************************)
(* Proofs about NavisRunner, for every workflow class, vocabulary and      *)
(* bound: the shape of the state and the agreement of context and stack.   *)
(***************************************************************************)
EXTENDS NavisRunner, TLAPS, FiniteSetTheorems, SequenceTheorems

(* What the type of the state does not say but its preservation needs: an  *)
(* open transaction is the last one begun, and a frame that still has to   *)
(* change a step names one.                                                *)
TxnInv ==
  /\ phase = "open" => txn = ntxn
  /\ phase \in {"idle", "closed", "persisting"} => txn = None /\ stack = <<>>
  /\ phase = "raised" => txn = ntxn /\ stack = <<>>
FrameInv ==
  \A i \in DOMAIN stack :
    stack[i].at = "memory" \/ (stack[i].at = "body" /\ stack[i].op # "trigger")
      => /\ stack[i].subject \in DOMAIN data \ {Wf}
         /\ stack[i].at = "body" => stack[i].to \in States
IInv == TypeOK /\ CtxDiscipline /\ TxnInv /\ FrameInv
-----------------------------------------------------------------------------
LEMMA RowTypes ==
  /\ NewWorkflow \in WfRow
  /\ \A sel \in Selectors \cup StepIds : NewStep(sel) \in StepRow
  /\ \A o \in StepIds : o # Wf
  /\ WfRow \subseteq WfSet /\ StepRow \subseteq StepSet
<1>1. NewWorkflow \in WfRow
  BY DEF NewWorkflow, WfRow, WfRecords, WfColumns, WorkflowStatus
<1>2. \A sel \in Selectors \cup StepIds : NewStep(sel) \in StepRow
  BY StatesAssumption DEF NewStep, StepRow, StepRecords, StepColumns, StepStatus, Begin
<1>3. \A o \in StepIds : o # Wf
  BY NamesAssumption
<1>4. WfRow \subseteq WfSet
  BY DEF WfRow, WfSet, WfRecords, WfColumns
<1>5. StepRow \subseteq StepSet
  BY DEF StepRow, StepSet, StepRecords, StepColumns
<1> QED BY <1>1, <1>2, <1>3, <1>4, <1>5

(* A mutation with a row of its object's type keeps memory well formed.    *)
LEMMA MutateOK ==
  ASSUME MemoryOK, NEW kind \in {"insert", "update"}, NEW o \in Objects,
         NEW rec \in RowOf(o), NEW fields \in SUBSET DOMAIN rec,
         kind = "insert" => fields = DOMAIN rec,
         NEW action \in Actions, txn \in Nat,
         MutateAs(kind, o, rec, fields, action)
  PROVE  MemoryOK' /\ DOMAIN data' = DOMAIN data \cup {o}
<1>1. DOMAIN data' = DOMAIN data \cup {o}
  BY DEF MutateAs
<1>2. IsTable(data')
  <2>1. IsFiniteSet(DOMAIN data')
    BY <1>1, FS_AddElement DEF MemoryOK, IsTable
  <2>2. data' = [x \in DOMAIN data' |-> data'[x]]
    BY DEF MutateAs
  <2>3. ASSUME NEW x \in DOMAIN data' PROVE data'[x] \in RowOf(x)
    BY <1>1 DEF MutateAs, MemoryOK, IsTable
  <2> QED BY <1>1, <2>1, <2>2, <2>3 DEF MemoryOK, IsTable
<1> DEFINE set == [f \in DOMAIN rec |-> IF f \in fields THEN rec[f] ELSE None]
           e == Envelope(kind, o, rec, fields, action)
<1>3. /\ set \in IF o = Wf THEN WfSet ELSE StepSet
      /\ fields \subseteq Fields /\ fields \subseteq DOMAIN set
      /\ \A f \in fields : set[f] \in ColumnsOf(o)[f]
      /\ kind = "insert" => set = rec
  <2>1. CASE o = Wf
    BY <2>1 DEF RowOf, WfRow, WfSet, WfRecords, WfColumns, ColumnsOf, Fields
  <2>2. CASE o # Wf
    BY <2>2 DEF RowOf, StepRow, StepSet, StepRecords, StepColumns, ColumnsOf, Fields
  <2> QED BY <2>1, <2>2
<1>4. e \in Envelopes /\ IsMutation(e)
  <2>1. e = [kind |-> kind, obj |-> o, fields |-> fields, set |-> set,
             order |-> counter + 1, action |-> action, txn |-> txn]
    BY DEF Envelope
  <2> HIDE DEF set, e
  <2>2. e \in Envelopes
    BY <1>3, <2>1 DEF Envelopes, MemoryOK
  <2>3. IsMutation(e)
    BY <1>3, <2>1 DEF IsMutation
  <2> QED BY <2>2, <2>3
<1>5. queue' \in Seq(Envelopes) /\ \A i \in DOMAIN queue' : IsMutation(queue'[i])
  <2>1. queue' = Append(queue, e)
    BY DEF MutateAs
  <2> HIDE DEF e
  <2> QED BY <1>4, <2>1 DEF MemoryOK
<1>6. counter' \in Nat
  BY DEF MutateAs, MemoryOK
<1> QED BY <1>1, <1>2, <1>5, <1>6 DEF MemoryOK
-----------------------------------------------------------------------------
(* What every call does beside its mutation: the context and the stack     *)
(* grow together, nothing outside moves.                                   *)
OthersOK == /\ CallsOK /\ TablesOK /\ CtxDiscipline /\ TxnInv /\ FrameInv
            /\ ntxn \in Nat /\ txn \in 0 .. ntxn \cup {None}
            /\ phase \in {"idle", "open", "closed", "persisting", "raised"}

LEMMA CallOK ==
  ASSUME IInv, NEW op \in Actions, NEW on \in Objects, NEW subject \in Objects,
         NEW to \in States \cup {None}, NEW at \in {"body", "memory", "hook"},
         NEW proxies \in SUBSET Objects,
         Call(op, on, subject, to, at, proxies),
         DOMAIN data \subseteq DOMAIN data',
         at = "memory" \/ (at = "body" /\ op # "trigger")
           => subject \in DOMAIN data' \ {Wf} /\ (at = "body" => to \in States)
  PROVE  OthersOK'
<1> USE DEF IInv, TypeOK, Call, outside
<1> DEFINE frame == [op |-> op, on |-> on, subject |-> subject, to |-> to,
                     at |-> at, proxies |-> proxies]
<1>1. frame \in Frames /\ stack' = Append(stack, frame) /\ ctx' = Append(ctx, <<op, on>>)
  BY DEF Frames
<1>2. CallsOK'
  BY <1>1 DEF CallsOK
<1>3. CtxDiscipline'
  BY <1>1 DEF CallsOK, CtxDiscipline
<1>4. FrameInv'
  BY <1>1 DEF CallsOK, FrameInv
<1>5. TxnInv' /\ TablesOK'
  BY DEF TxnInv, TablesOK
<1> QED BY <1>2, <1>3, <1>4, <1>5 DEF OthersOK

(* A call whose body is one mutation of the running object or workflow.    *)
LEMMA SimpleCallOK ==
  ASSUME IInv, NEW op \in Actions, NEW on \in Objects, SimpleCall(op, on),
         NEW o \in Objects, NEW rec \in RowOf(o), NEW fields \in SUBSET DOMAIN rec,
         Mutate(o, rec, fields, op)
  PROVE  IInv'
<1>1. MemoryOK /\ txn \in Nat
  BY DEF IInv, TypeOK, SimpleCall, Call
<1>2. MutateAs("update", o, rec, fields, op)
  BY DEF Mutate
<1>3. MemoryOK' /\ DOMAIN data' = DOMAIN data \cup {o}
  BY <1>1, <1>2, MutateOK
<1>4. Call(op, on, on, None, "hook", HookProxies(on)) /\ HookProxies(on) \in SUBSET Objects
  BY DEF SimpleCall, HookProxies, Objects
<1>5. OthersOK'
  BY <1>3, <1>4, CallOK
<1> QED BY <1>3, <1>5 DEF IInv, TypeOK, OthersOK

LEMMA SetStatusOK == ASSUME IInv, NEW op \in StatusOps, SetStatus(op) PROVE IInv'
<1> DEFINE paused == IF op = "pause" THEN Status
                     ELSE IF op = "resume" THEN None ELSE data[Wf].paused
           rec == [data[Wf] EXCEPT !.status = TargetOf(op, data[Wf].paused),
                                   !.paused = paused]
           fields == IF op = "pause" THEN {"status", "paused"} ELSE {"status"}
<1>1. data[Wf] \in WfRow /\ Wf \in DOMAIN data /\ Wf \in Objects
  BY DEF IInv, TypeOK, MemoryOK, IsTable, RowOf, Objects
<1>2. op \in {"start", "cancel", "abort", "pause"}
  BY DEF SetStatus, SimpleCall, Call, AllowedAt, MayChangeStatus, StatusOps, WfEditable
<1>3. rec \in RowOf(Wf) /\ fields \subseteq DOMAIN rec
  BY <1>1, <1>2 DEF RowOf, WfRow, WfRecords, WfColumns, WorkflowStatus, TargetOf, Status
<1>4. Mutate(Wf, rec, fields, op) /\ SimpleCall(op, Wf)
  BY DEF SetStatus
<1>5. op \in Actions
  BY DEF Actions
<1> HIDE DEF rec, fields
<1> QED BY <1>1, <1>3, <1>4, <1>5, SimpleCallOK

LEMMA MemorizeOK ==
  ASSUME IInv, NEW o \in DOMAIN data, NEW keys \in NonEmpty, Memorize(o, keys)
  PROVE  IInv'
<1> DEFINE rec == [data[o] EXCEPT !.memory = @ \cup keys]
<1>1. o \in Objects /\ data[o] \in RowOf(o)
  BY DEF IInv, TypeOK, MemoryOK, IsTable
<1>2. rec \in RowOf(o) /\ {"memory"} \subseteq DOMAIN rec
  BY <1>1 DEF RowOf, WfRow, StepRow, WfRecords, StepRecords, WfColumns, StepColumns, NonEmpty
<1>3. Mutate(o, rec, {"memory"}, "memorize") /\ SimpleCall("memorize", o) /\ "memorize" \in Actions
  BY DEF Memorize, Actions
<1> HIDE DEF rec
<1> QED BY <1>1, <1>2, <1>3, SimpleCallOK

LEMMA OutputOK ==
  ASSUME IInv, NEW keys \in NonEmpty, Output(keys)
  PROVE  IInv'
<1> DEFINE rec == [data[Wf] EXCEPT !.output = @ \cup keys]
<1>1. Wf \in Objects /\ data[Wf] \in WfRow
  BY DEF IInv, TypeOK, MemoryOK, IsTable, RowOf
<1>2. rec \in RowOf(Wf) /\ {"output"} \subseteq DOMAIN rec
  BY <1>1 DEF RowOf, WfRow, WfRecords, WfColumns, NonEmpty
<1>3. Mutate(Wf, rec, {"output"}, "output") /\ SimpleCall("output", Wf) /\ "output" \in Actions
  BY DEF Output, Actions
<1> HIDE DEF rec
<1> QED BY <1>1, <1>2, <1>3, SimpleCallOK

LEMMA AddRowOK ==
  ASSUME IInv, NEW op \in {"add_task", "add_participant"}, NEW o \in DOMAIN data,
         AddRow(op, o)
  PROVE  IInv'
<1>1. Wf \in Objects /\ o \in Objects /\ data[Wf] \in RowOf(Wf)
  BY DEF IInv, TypeOK, MemoryOK, IsTable, RowOf
<1>2. Mutate(Wf, data[Wf], {}, op) /\ SimpleCall(op, o) /\ op \in Actions
  BY DEF AddRow, Actions
<1> QED BY <1>1, <1>2, SimpleCallOK

LEMMA RecallOK == ASSUME IInv, NEW o \in DOMAIN data, Recall(o) PROVE IInv'
<1>1. o \in Objects
  BY DEF IInv, TypeOK, MemoryOK, IsTable
<1>2. Call("recall", o, o, None, "hook", HookProxies(o)) /\ HookProxies(o) \in SUBSET Objects
  BY DEF Recall, SimpleCall, HookProxies, Objects
<1>3. UNCHANGED inMemory /\ "recall" \in Actions
  BY DEF Recall, Actions
<1>4. MemoryOK' /\ DOMAIN data \subseteq DOMAIN data'
  BY <1>3 DEF IInv, TypeOK, MemoryOK, inMemory
<1>5. OthersOK'
  BY <1>1, <1>2, <1>3, <1>4, CallOK
<1> QED BY <1>4, <1>5 DEF IInv, TypeOK, OthersOK

LEMMA AddStepOK ==
  ASSUME IInv, NEW o \in DOMAIN data, NEW key \in Keys,
         NEW selector \in Selectors \cup {None}, NEW at \in {"memory", "hook"},
         AddStep(o, key, selector, at)
  PROVE  IInv'
<1> DEFINE id  == StepIdFor(key)
           sel == IF selector = None THEN id ELSE selector
           proxies == IF at = "hook" THEN HookProxies(o) ELSE {}
<1>1. id \in StepIds /\ id \in Objects /\ id # Wf
  <2>1. Cardinality(Steps) \in Nat
    <3>1. IsFiniteSet(Steps)
      BY FS_RemoveElement DEF IInv, TypeOK, MemoryOK, IsTable, Steps
    <3> QED BY <3>1, FS_CardinalityType
  <2> QED BY <2>1, RowTypes DEF StepIdFor, StepIds, Objects
<1>2. NewStep(sel) \in RowOf(id) /\ DOMAIN NewStep(sel) \in SUBSET DOMAIN NewStep(sel)
  BY <1>1, RowTypes DEF RowOf
<1>3. /\ Call("add_step", o, id, None, at, proxies)
      /\ MutateAs("insert", id, NewStep(sel), DOMAIN NewStep(sel), "add_step")
  BY DEF AddStep, Insert
<1>4. /\ MemoryOK /\ txn \in Nat /\ o \in Objects /\ "add_step" \in Actions
      /\ proxies \in SUBSET Objects
  BY <1>3 DEF IInv, TypeOK, MemoryOK, IsTable, Call, Actions, HookProxies, Objects
<1> HIDE DEF id, sel, proxies
<1>5. MemoryOK' /\ DOMAIN data' = DOMAIN data \cup {id}
  BY <1>1, <1>2, <1>3, <1>4, MutateOK
<1>6. OthersOK'
  BY <1>1, <1>3, <1>4, <1>5, CallOK
<1> QED BY <1>5, <1>6 DEF IInv, TypeOK, OthersOK

(* _update_step keeps the row of a step well formed.                       *)
LEMMA UpdateStepOK ==
  ASSUME MemoryOK, txn \in Nat, NEW s \in Steps, NEW to \in States,
         NEW action \in Actions, UpdateStep(s, to, action)
  PROVE  MemoryOK' /\ DOMAIN data' = DOMAIN data
<1> DEFINE rec == [data[s] EXCEPT !.state = to, !.status = StepStatusAt(to, @)]
           fields == IF to = Begin THEN {"state"} ELSE {"state", "status"}
<1>1. s \in Objects /\ s \in DOMAIN data /\ s # Wf /\ data[s] \in StepRow
  BY DEF MemoryOK, IsTable, RowOf, Steps
<1>2. rec \in RowOf(s) /\ fields \in SUBSET DOMAIN rec
  BY <1>1 DEF RowOf, StepRow, StepRecords, StepColumns, StepStatus, StepStatusAt
<1>3. MutateAs("update", s, rec, fields, action)
  BY DEF UpdateStep, Mutate
<1> HIDE DEF rec, fields
<1> QED BY <1>1, <1>2, <1>3, MutateOK

LEMMA TransitOK ==
  ASSUME IInv, NEW o \in DOMAIN data, NEW s \in Steps, NEW to \in States,
         TransitDirectly(o, s, to) \/ TransitThroughHook(o, s, to)
           \/ (to = data[s].state /\ TransitToSame(o, s))
  PROVE  IInv'
<1>1. /\ MemoryOK /\ o \in Objects /\ s \in Objects /\ s \in DOMAIN data \ {Wf}
      /\ TransitOp(o) \in Actions /\ TransitOp(o) # "trigger"
      /\ HookProxies(o) \in SUBSET Objects /\ {s} \in SUBSET Objects
  BY DEF IInv, TypeOK, MemoryOK, IsTable, Steps, TransitOp, Actions, HookProxies, Objects
<1>2. CASE TransitDirectly(o, s, to)
  <2>1. Call(TransitOp(o), o, s, to, "hook", HookProxies(o)) /\ UpdateStep(s, to, TransitOp(o))
    BY <1>2 DEF TransitDirectly, TransitCall
  <2>2. txn \in Nat
    BY <2>1 DEF Call, IInv, TypeOK
  <2>3. MemoryOK' /\ DOMAIN data' = DOMAIN data
    BY <1>1, <2>1, <2>2, UpdateStepOK
  <2>4. OthersOK'
    BY <1>1, <2>1, <2>3, CallOK
  <2> QED BY <2>3, <2>4 DEF IInv, TypeOK, OthersOK
<1>3. CASE TransitThroughHook(o, s, to)
  <2>1. Call(TransitOp(o), o, s, to, "body", {s}) /\ UNCHANGED inMemory
    BY <1>3 DEF TransitThroughHook, TransitCall
  <2>2. MemoryOK' /\ DOMAIN data' = DOMAIN data
    BY <1>1, <2>1 DEF MemoryOK, inMemory
  <2>3. OthersOK'
    BY <1>1, <2>1, <2>2, CallOK
  <2> QED BY <2>2, <2>3 DEF IInv, TypeOK, OthersOK
<1>4. CASE to = data[s].state /\ TransitToSame(o, s)
  <2>1. Call(TransitOp(o), o, s, to, "hook", HookProxies(o)) /\ UNCHANGED inMemory
    BY <1>4 DEF TransitToSame, TransitCall
  <2>2. MemoryOK' /\ DOMAIN data' = DOMAIN data
    BY <1>1, <2>1 DEF MemoryOK, inMemory
  <2>3. OthersOK'
    BY <1>1, <2>1, <2>2, CallOK
  <2> QED BY <2>2, <2>3 DEF IInv, TypeOK, OthersOK
<1> QED BY <1>2, <1>3, <1>4

LEMMA TriggerOK == ASSUME IInv, NEW o \in DOMAIN data, Trigger(o) PROVE IInv'
<1>1. /\ MemoryOK /\ o \in Objects /\ Wf \in Objects /\ "trigger" \in Actions
      /\ {o} \in SUBSET Objects
  BY DEF IInv, TypeOK, MemoryOK, IsTable, Actions, Objects
<1>2. Call("trigger", Wf, o, None, "body", {o}) /\ UNCHANGED inMemory
  BY DEF Trigger
<1>3. MemoryOK' /\ DOMAIN data' = DOMAIN data
  BY <1>1, <1>2 DEF MemoryOK, inMemory
<1>4. OthersOK'
  BY <1>1, <1>2, <1>3, CallOK
<1> QED BY <1>3, <1>4 DEF IInv, TypeOK, OthersOK

LEMMA UserCallOK == ASSUME IInv, UserCall PROVE IInv'
<1>1. \A s \in Steps : data[s].state \in States
  BY DEF IInv, TypeOK, MemoryOK, IsTable, Steps, RowOf, StepRow, StepRecords, StepColumns
<1> QED BY <1>1, SetStatusOK, MemorizeOK, OutputOK, AddRowOK, RecallOK, AddStepOK,
           TransitOK, TriggerOK DEF UserCall
-----------------------------------------------------------------------------
(* The frame on top of the stack, when user code returns to it.            *)
LEMMA TopOK ==
  ASSUME IInv, NEW at \in {"body", "memory", "hook"}, Running(at)
  PROVE  /\ Len(stack) \in 1 .. Len(stack) /\ Len(stack) \in Nat
         /\ Top \in Frames /\ Top.at = at /\ Len(ctx) = Len(stack)
         /\ Acting \in Actions /\ txn \in Nat /\ txn = ntxn /\ phase = "open"
<1>1. stack \in Seq(Frames) /\ stack # <<>> /\ phase = "open" /\ ctx \in Seq(Actions \X Objects)
  BY DEF Running, IInv, TypeOK, CallsOK
<1>2. Len(stack) \in 1 .. Len(stack) /\ Len(stack) \in Nat /\ Top \in Frames /\ Top.at = at
  BY <1>1 DEF Top, Running
<1>3. Len(ctx) = Len(stack) /\ Acting \in Actions
  <2>1. Len(ctx) = Len(stack)
    BY <1>1 DEF IInv, CtxDiscipline
  <2>2. ctx[Len(ctx)] \in Actions \X Objects
    BY <1>1, <1>2, <2>1
  <2> QED BY <2>1, <2>2 DEF Acting
<1>4. txn = ntxn /\ txn \in Nat
  BY <1>1 DEF IInv, TxnInv, TypeOK
<1> QED BY <1>1, <1>2, <1>3, <1>4

(* Entering the hook of the running action changes neither whose frame it  *)
(* is nor the frames below.                                                *)
LEMMA EnterHookOK ==
  ASSUME IInv, NEW at \in {"body", "memory", "hook"}, Running(at), EnterHook,
         DOMAIN data' = DOMAIN data, UNCHANGED <<ctx, outside>>
  PROVE  OthersOK'
<1>1. /\ Len(stack) \in 1 .. Len(stack) /\ Len(stack) \in Nat /\ Top \in Frames
      /\ stack \in Seq(Frames)
  BY TopOK DEF IInv, TypeOK, CallsOK
<1> DEFINE frame == [Top EXCEPT !.at = "hook", !.proxies = HookProxies(Top.on)]
<1>2. frame \in Frames /\ frame.op = Top.op /\ frame.on = Top.on /\ frame.at = "hook"
  BY <1>1 DEF Frames, HookProxies, Objects
<1>3. stack' = [stack EXCEPT ![Len(stack)] = frame]
  BY <1>1 DEF EnterHook, Top, Frames
<1> HIDE DEF frame
<1>4. /\ stack' \in Seq(Frames) /\ DOMAIN stack' = DOMAIN stack /\ Len(stack') = Len(stack)
      /\ stack'[Len(stack)] = frame
      /\ \A i \in DOMAIN stack : i # Len(stack) => stack'[i] = stack[i]
  BY <1>1, <1>2, <1>3
<1>5. CallsOK' /\ CtxDiscipline' /\ FrameInv'
  <2>1. CallsOK'
    BY <1>4 DEF CallsOK, IInv, TypeOK
  <2>2. CtxDiscipline'
    BY <1>1, <1>2, <1>4 DEF CtxDiscipline, IInv, outside, Top
  <2>3. FrameInv'
    BY <1>1, <1>2, <1>4 DEF FrameInv, IInv
  <2> QED BY <2>1, <2>2, <2>3
<1>6. TxnInv' /\ TablesOK' /\ (ntxn \in Nat /\ txn \in 0 .. ntxn \cup {None})'
      /\ (phase \in {"idle", "open", "closed", "persisting", "raised"})'
  BY TopOK DEF IInv, TypeOK, TablesOK, TxnInv, outside
<1> QED BY <1>5, <1>6 DEF OthersOK

LEMMA SetNewStepMemoryOK ==
  ASSUME IInv, NEW keys \in NonEmpty, SetNewStepMemory(keys) PROVE IInv'
<1> DEFINE s == Top.subject
           rec == [data[s] EXCEPT !.memory = @ \cup keys]
<1>1. Running("memory") /\ EnterHook /\ UNCHANGED <<ctx, outside>>
      /\ MutateAs("update", s, rec, {"memory"}, Acting)
  BY DEF SetNewStepMemory, Mutate
<1>2. MemoryOK /\ txn \in Nat /\ Acting \in Actions /\ Len(stack) \in DOMAIN stack
      /\ Top.at = "memory"
  BY <1>1, TopOK DEF IInv, TypeOK, CallsOK
<1>3. s \in DOMAIN data /\ s \in Objects /\ s # Wf /\ data[s] \in StepRow
  BY <1>2 DEF IInv, FrameInv, Top, MemoryOK, IsTable, RowOf
<1>4. rec \in RowOf(s) /\ {"memory"} \in SUBSET DOMAIN rec
  BY <1>3 DEF RowOf, StepRow, StepRecords, StepColumns, NonEmpty
<1> HIDE DEF s, rec
<1>5. MemoryOK' /\ DOMAIN data' = DOMAIN data
  BY <1>1, <1>2, <1>3, <1>4, MutateOK
<1>6. OthersOK'
  BY <1>1, <1>5, EnterHookOK
<1> QED BY <1>5, <1>6 DEF IInv, TypeOK, OthersOK

LEMMA EndTransitionHookOK == ASSUME IInv, EndTransitionHook PROVE IInv'
<1>1. Running("body") /\ EnterHook /\ UNCHANGED <<ctx, outside>> /\ Top.op # "trigger"
      /\ UpdateStep(Top.subject, Top.to, Acting)
  BY DEF EndTransitionHook
<1>2. MemoryOK /\ txn \in Nat /\ Acting \in Actions /\ Len(stack) \in DOMAIN stack
      /\ Top.at = "body"
  BY <1>1, TopOK DEF IInv, TypeOK, CallsOK
<1>3. Top.subject \in Steps /\ Top.to \in States
  BY <1>1, <1>2 DEF IInv, FrameInv, Top, Steps
<1>4. MemoryOK' /\ DOMAIN data' = DOMAIN data
  BY <1>1, <1>2, <1>3, UpdateStepOK
<1>5. OthersOK'
  BY <1>1, <1>4, EnterHookOK
<1> QED BY <1>4, <1>5 DEF IInv, TypeOK, OthersOK

LEMMA EndHandlerOK == ASSUME IInv, EndHandler PROVE IInv'
<1>1. Running("body") /\ EnterHook /\ UNCHANGED <<ctx, outside>> /\ UNCHANGED inMemory
  BY DEF EndHandler
<1>2. MemoryOK' /\ DOMAIN data' = DOMAIN data
  BY <1>1 DEF IInv, TypeOK, MemoryOK, inMemory
<1>3. OthersOK'
  BY <1>1, <1>2, EnterHookOK
<1> QED BY <1>2, <1>3 DEF IInv, TypeOK, OthersOK
-----------------------------------------------------------------------------
LEMMA ReconciledRow == ASSUME MemoryOK PROVE Reconciled \in WfRow
<1>1. data[Wf] \in WfRow
  BY DEF MemoryOK, IsTable, RowOf
<1>2. IsFiniteSet(Steps)
  BY FS_RemoveElement DEF MemoryOK, IsTable, Steps
<1>3. Cardinality(Steps) \in Nat
  BY <1>2, FS_CardinalityType
<1>4. Cardinality({s \in Steps : StepStatuses[s] \in StepFinished}) \in Nat
  <2>1. IsFiniteSet({s \in Steps : StepStatuses[s] \in StepFinished})
    BY <1>2, FS_Subset
  <2> QED BY <2>1, FS_CardinalityType
<1>5. Progress(StepStatuses, Steps) \in Nat \X Nat
  BY <1>3, <1>4 DEF Progress
<1> QED BY <1>1, <1>5 DEF Reconciled, WfRow, WfRecords, WfColumns, ComputeStatus

LEMMA ReconcileOK ==
  ASSUME MemoryOK, txn \in Nat, Acting \in Actions, Reconcile
  PROVE  MemoryOK' /\ DOMAIN data' = DOMAIN data
<1>1. Wf \in DOMAIN data /\ Wf \in Objects
  BY DEF MemoryOK, IsTable
<1>2. Reconciled \in RowOf(Wf) /\ ReconciledFields \in SUBSET DOMAIN Reconciled
  BY ReconciledRow DEF ReconciledFields, RowOf, WfRow, WfRecords
<1>3. CASE ReconciledFields = {}
  BY <1>1, <1>3 DEF Reconcile, inMemory, MemoryOK
<1>4. CASE ReconciledFields # {}
  <2>1. MutateAs("update", Wf, Reconciled, ReconciledFields, Acting)
    BY <1>4 DEF Reconcile, Mutate
  <2> QED BY <1>1, <1>2, <2>1, MutateOK
<1> QED BY <1>3, <1>4

LEMMA ReturnOK == ASSUME IInv, Return PROVE IInv'
<1>1. /\ Len(stack) \in 1 .. Len(stack) /\ Len(stack) \in Nat /\ Top \in Frames
      /\ Len(ctx) = Len(stack) /\ Acting \in Actions /\ txn \in Nat /\ phase = "open"
      /\ stack \in Seq(Frames) /\ ctx \in Seq(Actions \X Objects) /\ MemoryOK
      /\ UNCHANGED outside
  BY TopOK DEF Return, IInv, TypeOK, CallsOK
<1>2. MemoryOK' /\ DOMAIN data' = DOMAIN data
  <2>1. CASE Top.on = Wf
    BY <1>1, <2>1 DEF Return, inMemory, MemoryOK
  <2>2. CASE Top.on # Wf
    BY <1>1, <2>2, ReconcileOK DEF Return
  <2> QED BY <2>1, <2>2
<1> DEFINE rest == SubSeq(stack, 1, Len(stack) - 1)
<1>3. rest \in Seq(Frames) /\ Len(rest) = Len(stack) - 1
      /\ \A i \in 1 .. Len(stack) - 1 : rest[i] = stack[i]
  BY <1>1
<1>4. /\ ctx' \in Seq(Actions \X Objects) /\ Len(ctx') = Len(stack) - 1
      /\ \A i \in 1 .. Len(stack) - 1 : ctx'[i] = ctx[i]
  BY <1>1 DEF Return, PopContext
<1>5. /\ stack' \in Seq(Frames) /\ Len(stack') = Len(stack) - 1
      /\ \A i \in 1 .. Len(stack) - 1 :
           /\ stack'[i].op = stack[i].op /\ stack'[i].on = stack[i].on
           /\ stack'[i].at = stack[i].at /\ stack'[i].subject = stack[i].subject
           /\ stack'[i].to = stack[i].to
  <2>1. CASE rest = <<>>
    BY <1>1, <1>3, <2>1 DEF Return, Pop
  <2>2. CASE rest # <<>>
    <3> DEFINE n == Len(stack) - 1
               frame == [rest[n] EXCEPT !.proxies = @ \cup Handed]
    <3>1. n \in 1 .. n /\ n \in Nat /\ rest[n] \in Frames
      BY <1>1, <1>3, <2>2
    <3>2. Handed \subseteq Objects
      BY <1>1 DEF Handed, Frames
    <3>3. /\ frame \in Frames /\ frame.op = rest[n].op /\ frame.on = rest[n].on
          /\ frame.at = rest[n].at /\ frame.subject = rest[n].subject
          /\ frame.to = rest[n].to
      BY <3>1, <3>2 DEF Frames
    <3>4. stack' = [rest EXCEPT ![n] = frame]
      BY <1>3, <2>2, <3>1 DEF Return, Pop, Frames
    <3> HIDE DEF frame, rest
    <3> QED BY <1>1, <1>3, <3>1, <3>3, <3>4
  <2> QED BY <2>1, <2>2
<1> HIDE DEF rest
<1>6. CallsOK' /\ CtxDiscipline' /\ FrameInv'
  <2>. DOMAIN stack = 1 .. Len(stack) /\ DOMAIN stack' = 1 .. Len(stack) - 1
    BY <1>1, <1>5
  <2>1. CtxDiscipline'
    <3>1. ASSUME NEW i \in DOMAIN stack' PROVE ctx'[i] = <<stack'[i].op, stack'[i].on>>
      <4>1. i \in 1 .. Len(stack) - 1 /\ i \in DOMAIN stack
        BY <1>1
      <4>2. ctx[i] = <<stack[i].op, stack[i].on>>
        BY <1>1, <4>1 DEF CtxDiscipline, IInv
      <4> QED BY <1>4, <1>5, <4>1, <4>2
    <3> QED BY <1>1, <1>4, <1>5, <3>1 DEF CtxDiscipline, outside
  <2>2. FrameInv'
    <3> SUFFICES ASSUME NEW i \in DOMAIN stack',
                        stack'[i].at = "memory"
                          \/ (stack'[i].at = "body" /\ stack'[i].op # "trigger")
                 PROVE  /\ stack'[i].subject \in DOMAIN data' \ {Wf}
                        /\ stack'[i].at = "body" => stack'[i].to \in States
      BY DEF FrameInv
    <3>1. i \in DOMAIN stack /\ i \in 1 .. Len(stack) - 1
      BY <1>1
    <3> QED BY <1>2, <1>5, <3>1 DEF FrameInv, IInv
  <2> QED BY <1>4, <1>5, <2>1, <2>2 DEF CallsOK
<1>7. TxnInv' /\ TablesOK' /\ (ntxn \in Nat /\ txn \in 0 .. ntxn \cup {None})'
      /\ (phase \in {"idle", "open", "closed", "persisting", "raised"})'
  BY <1>1 DEF IInv, TypeOK, TablesOK, TxnInv, outside
<1> QED BY <1>2, <1>6, <1>7 DEF IInv, TypeOK, OthersOK
-----------------------------------------------------------------------------
(* Applying a well-formed mutation keeps the tables well formed.           *)
LEMMA AppliedOK ==
  ASSUME NEW t, IsTable(t), NEW e \in Envelopes, IsMutation(e)
  PROVE  IsTable(Applied(t, e))
<1> DEFINE u == Applied(t, e)
<1>1. CASE e.kind = "insert"
  <2>1. u = [x \in DOMAIN t \cup {e.obj} |-> IF x = e.obj THEN e.set ELSE t[x]]
    BY <1>1 DEF Applied
  <2>2. IsFiniteSet(DOMAIN u)
    BY <2>1, FS_AddElement DEF IsTable
  <2>3. DOMAIN u \subseteq Objects
    BY <2>1 DEF IsTable, Envelopes
  <2>4. \A x \in DOMAIN u : u[x] \in RowOf(x)
    BY <1>1, <2>1 DEF IsTable, IsMutation
  <2> QED BY <2>1, <2>2, <2>3, <2>4 DEF IsTable
<1>2. CASE e.kind # "insert"
  <2> DEFINE merged(x) == [f \in DOMAIN t[x] |->
                             IF f \in e.fields THEN e.set[f] ELSE t[x][f]]
  <2>1. u = [x \in DOMAIN t |-> IF x # e.obj THEN t[x] ELSE merged(x)]
    BY <1>2 DEF Applied
  <2>2. ASSUME NEW x \in DOMAIN t, x = e.obj PROVE merged(x) \in RowOf(x)
    <3>1. t[x] \in RowOf(x) /\ \A f \in e.fields : e.set[f] \in ColumnsOf(x)[f]
      BY <2>2 DEF IsTable, IsMutation
    <3>2. CASE x = Wf
      BY <3>1, <3>2 DEF RowOf, WfRow, WfRecords, WfColumns, ColumnsOf
    <3>3. CASE x # Wf
      BY <3>1, <3>3 DEF RowOf, StepRow, StepRecords, StepColumns, ColumnsOf
    <3> QED BY <3>2, <3>3
  <2> HIDE DEF merged
  <2> QED BY <2>1, <2>2 DEF IsTable
<1> QED BY <1>1, <1>2

LEMMA PersistNextOK == ASSUME IInv, PersistNext PROVE IInv'
<1>1. /\ queue \in Seq(Envelopes) /\ queue # <<>> /\ Len(queue) \in Nat
      /\ 1 \in DOMAIN queue /\ Head(queue) = queue[1]
  BY DEF PersistNext, IInv, TypeOK, MemoryOK
<1>2. Head(queue) \in Envelopes /\ IsMutation(Head(queue))
  BY <1>1 DEF IInv, TypeOK, MemoryOK
<1>3. IsTable(db')
  BY <1>2, AppliedOK DEF PersistNext, IInv, TypeOK, TablesOK
<1>4. queue' \in Seq(Envelopes) /\ \A i \in DOMAIN queue' : IsMutation(queue'[i])
  <2>1. queue' = Tail(queue) /\ \A i \in DOMAIN queue : IsMutation(queue[i])
    BY DEF PersistNext, IInv, TypeOK, MemoryOK
  <2> QED BY <1>1, <2>1
<1>5. log' \subseteq Nat
  BY <1>2 DEF PersistNext, Envelopes, IInv, TypeOK, TablesOK
<1>6. UNCHANGED <<data, counter, txn, ctx, stack, phase, ntxn, failed>>
  BY DEF PersistNext
<1>7. MemoryOK' /\ CallsOK' /\ TablesOK'
  BY <1>3, <1>4, <1>5, <1>6 DEF IInv, TypeOK, MemoryOK, CallsOK, TablesOK
<1>8. CtxDiscipline' /\ TxnInv' /\ FrameInv'
  BY <1>6 DEF IInv, CtxDiscipline, TxnInv, FrameInv
<1> QED BY <1>6, <1>7, <1>8 DEF IInv, TypeOK
-----------------------------------------------------------------------------
LEMMA InitOK == ASSUME Init PROVE IInv
<1> DEFINE e == [kind |-> "insert", obj |-> Wf, fields |-> DOMAIN NewWorkflow,
                 set |-> NewWorkflow, order |-> 1, action |-> "initialize", txn |-> 0]
<1>1. queue = <<e>>
  BY DEF Init
<1>2. e \in Envelopes /\ IsMutation(e)
  <2>1. NewWorkflow \in WfSet /\ NewWorkflow \in WfRow
    BY RowTypes
  <2>2. \A f \in DOMAIN NewWorkflow : NewWorkflow[f] \in WfColumns[f]
    BY <2>1 DEF WfRow, WfRecords, WfColumns
  <2>3. DOMAIN NewWorkflow \subseteq Fields
    BY DEF NewWorkflow, Fields
  <2>4. e.kind = "insert" /\ e.obj = Wf /\ e.fields = DOMAIN NewWorkflow /\ e.set = NewWorkflow
    OBVIOUS
  <2>5. e \in Envelopes
    BY <2>1, <2>3 DEF Envelopes, Objects, Actions
  <2> HIDE DEF e
  <2> QED BY <2>1, <2>2, <2>4, <2>5 DEF IsMutation, RowOf, ColumnsOf
<1> HIDE DEF e
<1>3. IsTable(data) /\ DOMAIN data = {Wf}
  <2>1. data = [x \in {Wf} |-> NewWorkflow]
    BY DEF Init
  <2>2. IsFiniteSet({Wf})
    BY FS_Singleton
  <2> QED BY <2>1, <2>2, RowTypes DEF IsTable, Objects, RowOf
<1>4. IsTable(db)
  BY FS_EmptySet DEF Init, IsTable, NoRows
<1>5. queue \in Seq(Envelopes) /\ \A i \in DOMAIN queue : IsMutation(queue[i])
  BY <1>1, <1>2
<1>6. MemoryOK /\ CallsOK /\ TablesOK
  BY <1>3, <1>4, <1>5 DEF MemoryOK, CallsOK, TablesOK, Init
<1> QED BY <1>6 DEF Init, IInv, TypeOK, CtxDiscipline, TxnInv, FrameInv

(* The steps of the driving code, between and around the transactions.     *)
LEMMA DriverOK ==
  ASSUME IInv, BeginTxn \/ EndTxn \/ Raise \/ Drain \/ EndPersist
  PROVE  IInv'
<1> USE DEF IInv, TypeOK
<1>1. MemoryOK'
  BY DEF BeginTxn, EndTxn, Raise, Drain, EndPersist, inMemory, MemoryOK
<1>2. CallsOK'
  <2>1. UNCHANGED ctx /\ (UNCHANGED stack \/ stack' = <<>>)
    BY DEF BeginTxn, EndTxn, Raise, Drain, EndPersist, Unwound
  <2>2. stack \in Seq(Frames) /\ ctx \in Seq(Actions \X Objects) /\ <<>> \in Seq(Frames)
    BY DEF CallsOK
  <2>3. stack' \in Seq(Frames) /\ ctx' \in Seq(Actions \X Objects)
    BY ONLY <2>1, <2>2
  <2> QED BY <2>3 DEF CallsOK
<1>3. TablesOK' /\ (ntxn \in Nat /\ txn \in 0 .. ntxn \cup {None})'
      /\ (phase \in {"idle", "open", "closed", "persisting", "raised"})'
  <2>1. CASE Raise
    BY <2>1 DEF Raise, Unwound, TablesOK, TxnInv
  <2>2. CASE BeginTxn
    BY <2>2 DEF BeginTxn, TablesOK
  <2>3. CASE EndTxn \/ Drain \/ EndPersist
    BY <2>3 DEF EndTxn, Drain, EndPersist, TablesOK
  <2> QED BY <2>1, <2>2, <2>3
<1>4. CtxDiscipline' /\ TxnInv' /\ FrameInv'
  <2>1. CASE Raise
    BY <2>1 DEF Raise, Unwound, CtxDiscipline, TxnInv, FrameInv
  <2>2. CASE BeginTxn
    <3>1. stack = <<>> /\ ctx = <<>>
      BY <2>2, NamesAssumption DEF BeginTxn, TxnInv, CtxDiscipline
    <3> QED BY <2>2, <3>1 DEF BeginTxn, CtxDiscipline, TxnInv, FrameInv
  <2>3. CASE EndTxn
    BY <2>3 DEF EndTxn, CtxDiscipline, TxnInv, FrameInv, CallsOK
  <2>4. CASE Drain \/ EndPersist
    BY <2>4 DEF Drain, EndPersist, CtxDiscipline, TxnInv, FrameInv, inMemory
  <2> QED BY <2>1, <2>2, <2>3, <2>4
<1> QED BY <1>1, <1>2, <1>3, <1>4

LEMMA LoadOK == ASSUME IInv, Load PROVE IInv'
BY DEF Load, IInv, TypeOK, MemoryOK, CallsOK, TablesOK, CtxDiscipline, TxnInv, FrameInv

LEMMA StutterOK == ASSUME IInv, UNCHANGED vars PROVE IInv'
BY DEF vars, IInv, TypeOK, MemoryOK, CallsOK, TablesOK, CtxDiscipline, TxnInv, FrameInv

THEOREM InductiveInvariant == Spec => []IInv
<1>1. Init => IInv
  BY InitOK
<1>2. IInv /\ [Next]_vars => IInv'
  BY StutterOK, UserCallOK, SetNewStepMemoryOK, EndTransitionHookOK, EndHandlerOK,
     ReturnOK, DriverOK, PersistNextOK, LoadOK DEF Next
<1> QED BY <1>1, <1>2, PTL DEF Spec

(* Every variable keeps its shape, for every workflow class and any number *)
(* of transactions, mutations and nested calls.                            *)
THEOREM TypeCorrect == Spec => []TypeOK
<1>1. IInv => TypeOK
  BY DEF IInv
<1> QED BY <1>1, InductiveInvariant, PTL

(* The action context is the call stack while a transaction is open and is *)
(* empty after one that ended well, at any depth of nesting.               *)
THEOREM ContextIsCallStack == Spec => []CtxDiscipline
<1>1. IInv => CtxDiscipline
  BY DEF IInv
<1> QED BY <1>1, InductiveInvariant, PTL
=============================================================================

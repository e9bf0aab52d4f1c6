------------------------ MODULE NavisSessionsProofs ------------------------
(***************************************************************************)
(* NavisSessions for all commands, requests, orders and events: its types, *)
(* that a session's mutations reach the tables whole and under its own     *)
(* transaction or not at all, that a step's row, once there, stays, that   *)
(* steps are numbered without gaps no request accounts for, and that the   *)
(* workflow is started once.                                               *)
(***************************************************************************)
EXTENDS NavisSessions, FiniteSetTheorems, SequenceTheorems, WellFoundedInduction, TLAPS

USE SessionsAssumption DEF With, tables

(* Induction over the naturals, for the recursive functions of the model.  *)
Less == OpToRel(<, Nat)
LEMMA LessDef == ASSUME NEW m \in Nat, NEW n \in Nat PROVE <<m, n>> \in Less <=> m < n
BY DEF OpToRel, Less

LEMMA Least ==
  ASSUME NEW T, T \subseteq Nat, T # {}
  PROVE  \E m \in T : \A n \in T : m <= n
<1>1. IsWellFoundedOn(Less, Nat)
  BY NatLessThanWellFounded DEF Less
<1>2. PICK m \in T : \A n \in T : <<n, m>> \notin Less
  BY <1>1, WFMin
<1>3. ASSUME NEW n \in T PROVE m <= n
  <2>1. m \in Nat /\ n \in Nat
    OBVIOUS
  <2>2. ~(n < m)
    BY <1>2, <2>1, LessDef
  <2> QED BY <2>1, <2>2
<1> QED BY <1>3

LEMMA Induction ==
  ASSUME NEW T, 0 \in T, \A n \in Nat : n \in T => n + 1 \in T
  PROVE  Nat \subseteq T
<1> DEFINE Bad == Nat \ T
<1> SUFFICES ASSUME Bad # {} PROVE FALSE
  OBVIOUS
<1>1. PICK m \in Bad : \A n \in Bad : m <= n
  BY Least
<1>2. m # 0 /\ m \in Nat
  OBVIOUS
<1>3. m - 1 \in Nat /\ m - 1 \notin Bad
  BY <1>1, <1>2
<1> QED BY <1>2, <1>3
-----------------------------------------------------------------------------
(* The tables and the mutations of them, exactly.                          *)
FiniteSubsets == {D \in SUBSET Nat : IsFiniteSet(D)}
StepRecords == [state : States, status : {"ACTIVE", "COMPLETED"}]
StepTables == UNION {[D -> StepRecords] : D \in FiniteSubsets}
Tables == [status : WorkflowStatus, progress : Nat \X Nat, memory : SUBSET Sessions,
           steps : StepTables]
UpdatesOf(column, values) ==
  [txn : Sessions, kind : {"update"}, row : {Wf}, column : {column}, value : values]
StepMutations(kind, values) ==
  [txn : Sessions, kind : {kind}, row : Nat, column : {"step"}, value : values]
Mutations ==
  UpdatesOf("status", WorkflowStatus) \cup UpdatesOf("progress", Nat \X Nat)
    \cup UpdatesOf("memory", SUBSET Sessions)
    \cup StepMutations("insert", {Begin}) \cup StepMutations("update", States)
Own(s) == {e \in Mutations : e.txn = s}

LEMMA StepTable ==
  ASSUME NEW f
  PROVE  f \in StepTables <=>
           \E D \in SUBSET Nat : IsFiniteSet(D) /\ f \in [D -> StepRecords]
BY DEF StepTables, FiniteSubsets

LEMMA StepFacts ==
  ASSUME NEW f \in StepTables
  PROVE  /\ DOMAIN f \subseteq Nat /\ IsFiniteSet(DOMAIN f)
         /\ f = [n \in DOMAIN f |-> f[n]] /\ \A n \in DOMAIN f : f[n] \in StepRecords
BY StepTable

LEMMA StepRecord ==
  ASSUME NEW f \in StepTables, NEW e \in Mutations, e.row # Wf
  PROVE  e.row \in Nat /\ StepAfter(f, e) \in StepRecords
<1>1. /\ e.row \in Nat /\ e.kind \in {"insert", "update"}
      /\ e.kind = "update" => e.value \in States
  BY DEF Mutations, UpdatesOf, StepMutations
<1>2. NewStep \in StepRecords
  BY StatesAssumption DEF NewStep, StepRecords
<1>3. ASSUME NEW step \in StepRecords, NEW to \in States PROVE Moved(step, to) \in StepRecords
  <2>1. CASE to = Finish
    BY <2>1 DEF Moved, StepRecords
  <2>2. CASE to = Begin
    BY <2>2 DEF Moved, StepRecords, Begin, Finish
  <2>3. CASE to # Finish /\ to # Begin
    BY <2>3 DEF Moved, StepRecords
  <2> QED BY <2>1, <2>2, <2>3
<1>4. CASE e.kind = "insert" \/ e.row \notin DOMAIN f
  BY <1>1, <1>2, <1>4 DEF StepAfter
<1>5. CASE e.kind # "insert" /\ e.row \in DOMAIN f
  <2>1. f[e.row] \in StepRecords
    BY <1>5, StepFacts
  <2> QED BY <1>1, <1>3, <1>5, <2>1 DEF StepAfter
<1> QED BY <1>4, <1>5

(* A mutation applied to the tables gives tables.                          *)
LEMMA AppliedTables ==
  ASSUME NEW rows \in Tables, NEW e \in Mutations
  PROVE  Applied(rows, e) \in Tables
<1>1. CASE e.row = Wf
  <2>1. Applied(rows, e) = [rows EXCEPT ![e.column] = e.value]
    BY <1>1 DEF Applied
  <2>2. CASE e \in UpdatesOf("status", WorkflowStatus)
    BY <2>1, <2>2 DEF UpdatesOf, Tables
  <2>3. CASE e \in UpdatesOf("progress", Nat \X Nat)
    BY <2>1, <2>3 DEF UpdatesOf, Tables
  <2>4. CASE e \in UpdatesOf("memory", SUBSET Sessions)
    BY <2>1, <2>4 DEF UpdatesOf, Tables
  <2> QED BY <1>1, <2>2, <2>3, <2>4 DEF Mutations, StepMutations
<1>2. CASE e.row # Wf
  <2> DEFINE old == rows.steps
             D == DOMAIN old \cup {e.row}
             here == StepAfter(old, e)
             new == [n \in D |-> IF n = e.row THEN here ELSE old[n]]
  <2>1. old \in StepTables
    BY DEF Tables
  <2>2. e.row \in Nat /\ here \in StepRecords
    BY <1>2, <2>1, StepRecord
  <2>3. D \in SUBSET Nat /\ IsFiniteSet(D)
    BY <2>1, <2>2, StepFacts, FS_AddElement
  <2> HIDE DEF here
  <2>4. new \in [D -> StepRecords]
    BY <2>1, <2>2, StepFacts
  <2>5. new \in StepTables
    BY <2>3, <2>4, StepTable
  <2>6. Applied(rows, e) = [rows EXCEPT !.steps = new]
    BY <1>2 DEF Applied, here
  <2> HIDE DEF new
  <2> QED BY <2>5, <2>6 DEF Tables
<1> QED BY <1>1, <1>2

(* Applying a sequence of mutations, unfolded: the recursive function of   *)
(* AllApplied exists, because every prefix has one.                        *)
IsFold(g, rows, es, n) ==
  g = [i \in 0 .. n |-> IF i = 0 THEN rows ELSE Applied(g[i - 1], es[i])]
LEMMA FoldExists == ASSUME NEW rows, NEW es, NEW n \in Nat PROVE \E g : IsFold(g, rows, es, n)
<1> DEFINE T == {m \in Nat : \E g : IsFold(g, rows, es, m)}
<1>1. 0 \in T
  <2> DEFINE g == [i \in 0 .. 0 |-> rows]
  <2>1. IsFold(g, rows, es, 0)
    BY DEF IsFold
  <2> QED BY <2>1
<1>2. ASSUME NEW m \in Nat, m \in T PROVE m + 1 \in T
  <2>1. PICK g : IsFold(g, rows, es, m)
    BY <1>2
  <2> DEFINE h == [i \in 0 .. m + 1 |->
                     IF i = m + 1 THEN Applied(g[m], es[m + 1]) ELSE g[i]]
  <2>2. \A i \in 0 .. m : h[i] = g[i]
    OBVIOUS
  <2>3. \A i \in 0 .. m : g[i] = IF i = 0 THEN rows ELSE Applied(g[i - 1], es[i])
    BY <2>1 DEF IsFold
  <2>4. h[m + 1] = Applied(h[m], es[m + 1])
    BY <2>2
  <2>5. ASSUME NEW i \in 0 .. m + 1
        PROVE  h[i] = IF i = 0 THEN rows ELSE Applied(h[i - 1], es[i])
    <3>1. CASE i = m + 1
      BY <2>4, <3>1
    <3>2. CASE i # m + 1
      <4>1. i \in 0 .. m /\ (i # 0 => i - 1 \in 0 .. m)
        BY <3>2
      <4> HIDE DEF h
      <4> QED BY <2>2, <2>3, <4>1
    <3> QED BY <3>1, <3>2
  <2>6. DOMAIN h = 0 .. m + 1 /\ h = [i \in 0 .. m + 1 |-> h[i]]
    OBVIOUS
  <2> HIDE DEF h
  <2>7. IsFold(h, rows, es, m + 1)
    BY <2>5, <2>6 DEF IsFold
  <2> QED BY <2>7
<1> HIDE DEF T
<1>3. Nat \subseteq T
  BY <1>1, <1>2, Induction
<1> QED BY <1>3 DEF T

LEMMA FoldOf ==
  ASSUME NEW rows, NEW es, Len(es) \in Nat
  PROVE  \E g : /\ AllApplied(rows, es) = g[Len(es)] /\ g[0] = rows
                /\ \A i \in 1 .. Len(es) : g[i] = Applied(g[i - 1], es[i])
<1> DEFINE A == CHOOSE f : f = [i \in 0 .. Len(es) |->
                                 IF i = 0 THEN rows ELSE Applied(f[i - 1], es[i])]
<1>1. AllApplied(rows, es) = A[Len(es)]
  BY DEF AllApplied
<1>2. \E f : f = [i \in 0 .. Len(es) |-> IF i = 0 THEN rows ELSE Applied(f[i - 1], es[i])]
  <2>1. \E f : IsFold(f, rows, es, Len(es))
    BY FoldExists
  <2> QED BY <2>1 DEF IsFold
<1>3. A = [i \in 0 .. Len(es) |-> IF i = 0 THEN rows ELSE Applied(A[i - 1], es[i])]
  BY <1>2, Zenon
<1> HIDE DEF A
<1>4. A[0] = rows /\ \A i \in 1 .. Len(es) : A[i] = Applied(A[i - 1], es[i])
  BY <1>3
<1> QED BY <1>1, <1>4

LEMMA AllAppliedTables ==
  ASSUME NEW rows \in Tables, NEW es \in Seq(Mutations)
  PROVE  AllApplied(rows, es) \in Tables
<1>1. Len(es) \in Nat /\ \A i \in 1 .. Len(es) : es[i] \in Mutations
  BY LenProperties, ElementOfSeq
<1>2. PICK g : /\ AllApplied(rows, es) = g[Len(es)] /\ g[0] = rows
               /\ \A i \in 1 .. Len(es) : g[i] = Applied(g[i - 1], es[i])
  BY <1>1, FoldOf
<1> DEFINE T == {n \in Nat : n <= Len(es) => g[n] \in Tables}
<1>3. 0 \in T
  BY <1>2
<1>4. ASSUME NEW n \in Nat, n \in T PROVE n + 1 \in T
  <2> SUFFICES ASSUME n + 1 <= Len(es) PROVE g[n + 1] \in Tables
    OBVIOUS
  <2>1. n + 1 \in 1 .. Len(es) /\ g[n] \in Tables
    BY <1>1, <1>4
  <2>2. g[n + 1] = Applied(g[n], es[n + 1])
    BY <1>2, <2>1
  <2> QED BY <1>1, <2>1, <2>2, AppliedTables
<1> HIDE DEF T
<1>5. Nat \subseteq T
  BY <1>3, <1>4, Induction
<1> QED BY <1>1, <1>2, <1>5 DEF T
-----------------------------------------------------------------------------
(* A runner between transactions has an empty queue; one in the            *)
(* transaction of s has queued mutations of s only.                        *)
Idle       == [rows : Tables, queue : {<<>>}, txn : {None}]
Running(s) == [rows : Tables, queue : Seq(Own(s)), txn : {s}]

LEMMA MutateRunning ==
  ASSUME NEW s \in Sessions, NEW r \in Running(s), NEW kind, NEW row, NEW column, NEW value,
         [txn |-> s, kind |-> kind, row |-> row, column |-> column, value |-> value]
           \in Mutations
  PROVE  Mutate(r, kind, row, column, value) \in Running(s)
<1> DEFINE e == [txn |-> s, kind |-> kind, row |-> row, column |-> column, value |-> value]
<1>1. e \in Mutations /\ e \in Own(s)
  BY DEF Own
<1>2. r.txn = s /\ r.rows \in Tables /\ r.queue \in Seq(Own(s))
  BY DEF Running
<1>3. Mutate(r, kind, row, column, value) =
        [r EXCEPT !.rows = Applied(r.rows, e), !.queue = Append(r.queue, e)]
  BY <1>2 DEF Mutate, Running
<1> HIDE DEF e
<1>4. Applied(r.rows, e) \in Tables /\ Append(r.queue, e) \in Seq(Own(s))
  BY <1>1, <1>2, AppliedTables, AppendProperties
<1> QED BY <1>3, <1>4 DEF Running

LEMMA SetStateRunning ==
  ASSUME NEW s \in Sessions, NEW r \in Running(s), NEW column, NEW value,
         \/ column = "status" /\ value \in WorkflowStatus
         \/ column = "progress" /\ value \in Nat \X Nat
         \/ column = "memory" /\ value \in SUBSET Sessions
  PROVE  SetState(r, column, value) \in Running(s)
<1>1. [txn |-> s, kind |-> "update", row |-> Wf, column |-> column, value |-> value]
        \in Mutations
  BY DEF Mutations, UpdatesOf
<1> QED BY <1>1, MutateRunning DEF SetState

LEMMA ProgressType ==
  ASSUME NEW f \in StepTables
  PROVE  Progress(StepStatusIn(f), DOMAIN f) \in Nat \X Nat
<1> DEFINE done == {n \in DOMAIN f : StepStatusIn(f)[n] \in StepFinished}
<1>1. IsFiniteSet(DOMAIN f) /\ done \subseteq DOMAIN f
  BY StepFacts
<1>2. Cardinality(DOMAIN f) \in Nat /\ Cardinality(done) \in Nat
  BY <1>1, FS_Subset, FS_CardinalityType
<1> QED BY <1>2 DEF Progress

LEMMA ReconciledRunning ==
  ASSUME NEW s \in Sessions, NEW r \in Running(s)
  PROVE  Reconciled(r) \in Running(s)
<1> DEFINE now == Progress(StepStatusIn(r.rows.steps), DOMAIN r.rows.steps)
<1>1. now \in Nat \X Nat
  BY ProgressType DEF Running, Tables
<1>2. Reconciled(r) = r \/ Reconciled(r) = SetState(r, "progress", now)
  BY DEF Reconciled
<1> HIDE DEF now
<1> QED BY <1>1, <1>2, SetStateRunning

(* A call that is accepted leaves the runner in its transaction.           *)
LEMMA EffectRunning ==
  ASSUME NEW s \in Sessions, NEW r \in Running(s), NEW c \in Calls, Accepts(r, c)
  PROVE  Effect(r, c) \in Running(s)
<1>1. CASE c.op \in StatusCalls
  <2>1. Effect(r, c) = SetState(r, "status", TargetOf(c.op, None))
    BY <1>1 DEF Effect, StatusCalls
  <2>2. TargetOf(c.op, None) \in WorkflowStatus
    BY <1>1 DEF StatusCalls, TargetOf, WorkflowStatus
  <2> QED BY <2>1, <2>2, SetStateRunning
<1>2. CASE c.op = "memorize"
  <2>1. Effect(r, c) = SetState(r, "memory", r.rows.memory \cup {s})
    BY <1>2 DEF Effect, StatusCalls, Running
  <2>2. r.rows.memory \cup {s} \in SUBSET Sessions
    BY DEF Running, Tables
  <2> QED BY <2>1, <2>2, SetStateRunning
<1>3. CASE c.op = "add_step"
  <2> DEFINE n == StepNumber(r)
  <2>1. Effect(r, c) = Mutate(r, "insert", n, "step", Begin)
    BY <1>3 DEF Effect, StatusCalls
  <2>2. r.rows.steps \in StepTables
    BY DEF Running, Tables
  <2>3. n \in Nat
    BY <2>2, StepFacts, FS_CardinalityType DEF StepNumber
  <2> HIDE DEF n
  <2>4. [txn |-> s, kind |-> "insert", row |-> n, column |-> "step", value |-> Begin]
          \in Mutations
    BY <2>3 DEF Mutations, StepMutations
  <2> QED BY <2>1, <2>4, MutateRunning
<1>4. CASE c.op = "transit"
  <2>0. c.to \in States
    BY <1>4 DEF Calls
  <2>1. r.rows.steps \in StepTables /\ c.step \in DOMAIN r.rows.steps
    BY <1>4 DEF Running, Tables, Accepts
  <2>2. c.step \in Nat
    BY <2>1, StepFacts
  <2>3. [txn |-> s, kind |-> "update", row |-> c.step, column |-> "step", value |-> c.to]
          \in Mutations
    BY <2>2, <2>0 DEF Mutations, StepMutations
  <2>4. Mutate(r, "update", c.step, "step", c.to) \in Running(s)
    BY <2>3, MutateRunning
  <2>5. \/ Effect(r, c) = Reconciled(r)
        \/ Effect(r, c) = Reconciled(Mutate(r, "update", c.step, "step", c.to))
    BY <1>4 DEF Effect, StatusCalls
  <2> QED BY <2>4, <2>5, ReconciledRunning
<1>5. CASE c.op \notin StatusCalls \cup {"memorize", "add_step", "transit"}
  BY <1>5 DEF Effect
<1> QED BY <1>1, <1>2, <1>3, <1>4, <1>5

(* The calls of a transaction, one after the other.                        *)
Opened(r, s) == [runner |-> [r EXCEPT !.txn = s], raised |-> FALSE]
Called(a, c) ==
  IF a.raised \/ ~Accepts(a.runner, c) THEN [a EXCEPT !.raised = TRUE]
  ELSE [a EXCEPT !.runner = Effect(@, c)]
IsRun(g, a, calls, n) ==
  g = [i \in 0 .. n |-> IF i = 0 THEN a ELSE Called(g[i - 1], calls[i])]
LEMMA RunExists == ASSUME NEW a, NEW calls, NEW n \in Nat PROVE \E g : IsRun(g, a, calls, n)
<1> DEFINE T == {m \in Nat : \E g : IsRun(g, a, calls, m)}
<1>1. 0 \in T
  <2> DEFINE g == [i \in 0 .. 0 |-> a]
  <2>1. IsRun(g, a, calls, 0)
    BY DEF IsRun
  <2> QED BY <2>1
<1>2. ASSUME NEW m \in Nat, m \in T PROVE m + 1 \in T
  <2>1. PICK g : IsRun(g, a, calls, m)
    BY <1>2
  <2> DEFINE h == [i \in 0 .. m + 1 |->
                     IF i = m + 1 THEN Called(g[m], calls[m + 1]) ELSE g[i]]
  <2>2. \A i \in 0 .. m : h[i] = g[i]
    OBVIOUS
  <2>3. \A i \in 0 .. m : g[i] = IF i = 0 THEN a ELSE Called(g[i - 1], calls[i])
    BY <2>1 DEF IsRun
  <2>4. h[m + 1] = Called(h[m], calls[m + 1])
    BY <2>2
  <2>5. ASSUME NEW i \in 0 .. m + 1
        PROVE  h[i] = IF i = 0 THEN a ELSE Called(h[i - 1], calls[i])
    <3>1. CASE i = m + 1
      BY <2>4, <3>1
    <3>2. CASE i # m + 1
      <4>1. i \in 0 .. m /\ (i # 0 => i - 1 \in 0 .. m)
        BY <3>2
      <4> HIDE DEF h
      <4> QED BY <2>2, <2>3, <4>1
    <3> QED BY <3>1, <3>2
  <2>6. DOMAIN h = 0 .. m + 1 /\ h = [i \in 0 .. m + 1 |-> h[i]]
    OBVIOUS
  <2> HIDE DEF h
  <2>7. IsRun(h, a, calls, m + 1)
    BY <2>5, <2>6 DEF IsRun
  <2> QED BY <2>7
<1> HIDE DEF T
<1>3. Nat \subseteq T
  BY <1>1, <1>2, Induction
<1> QED BY <1>3 DEF T

LEMMA OutcomeUnfolded ==
  ASSUME NEW r, NEW s, NEW calls, Len(calls) \in Nat
  PROVE  \E g : /\ Outcome(r, s, calls) = g[Len(calls)]
                /\ g[0] = Opened(r, s)
                /\ \A i \in 1 .. Len(calls) : g[i] = Called(g[i - 1], calls[i])
<1> DEFINE A == CHOOSE f : f = [i \in 0 .. Len(calls) |->
                  IF i = 0 THEN [runner |-> [r EXCEPT !.txn = s], raised |-> FALSE]
                  ELSE IF f[i - 1].raised \/ ~Accepts(f[i - 1].runner, calls[i])
                       THEN [f[i - 1] EXCEPT !.raised = TRUE]
                       ELSE [f[i - 1] EXCEPT !.runner = Effect(@, calls[i])]]
<1>1. Outcome(r, s, calls) = A[Len(calls)]
  BY DEF Outcome
<1>2. \E f : f = [i \in 0 .. Len(calls) |->
                  IF i = 0 THEN [runner |-> [r EXCEPT !.txn = s], raised |-> FALSE]
                  ELSE IF f[i - 1].raised \/ ~Accepts(f[i - 1].runner, calls[i])
                       THEN [f[i - 1] EXCEPT !.raised = TRUE]
                       ELSE [f[i - 1] EXCEPT !.runner = Effect(@, calls[i])]]
  <2>1. \E f : IsRun(f, Opened(r, s), calls, Len(calls))
    BY RunExists
  <2> QED BY <2>1 DEF IsRun, Called, Opened
<1>3. A = [i \in 0 .. Len(calls) |->
                  IF i = 0 THEN [runner |-> [r EXCEPT !.txn = s], raised |-> FALSE]
                  ELSE IF A[i - 1].raised \/ ~Accepts(A[i - 1].runner, calls[i])
                       THEN [A[i - 1] EXCEPT !.raised = TRUE]
                       ELSE [A[i - 1] EXCEPT !.runner = Effect(@, calls[i])]]
  BY <1>2, Zenon
<1> HIDE DEF A
<1>4. A = [i \in 0 .. Len(calls) |-> IF i = 0 THEN Opened(r, s) ELSE Called(A[i - 1], calls[i])]
  BY <1>3 DEF Called, Opened
<1>5. A[0] = Opened(r, s) /\ \A i \in 1 .. Len(calls) : A[i] = Called(A[i - 1], calls[i])
  BY <1>4
<1> QED BY <1>1, <1>5

LEMMA OutcomeRunning ==
  ASSUME NEW s \in Sessions, NEW r \in Idle, NEW calls \in Seq(Calls)
  PROVE  Outcome(r, s, calls) \in [runner : Running(s), raised : BOOLEAN]
<1> DEFINE Outcomes == [runner : Running(s), raised : BOOLEAN]
<1>1. Len(calls) \in Nat /\ \A i \in 1 .. Len(calls) : calls[i] \in Calls
  BY LenProperties, ElementOfSeq
<1>2. PICK g : /\ Outcome(r, s, calls) = g[Len(calls)]
               /\ g[0] = Opened(r, s)
               /\ \A i \in 1 .. Len(calls) : g[i] = Called(g[i - 1], calls[i])
  BY <1>1, OutcomeUnfolded
<1> DEFINE T == {n \in Nat : n <= Len(calls) => g[n] \in Outcomes}
<1>3. 0 \in T
  <2>1. <<>> \in Seq(Own(s))
    OBVIOUS
  <2>2. [r EXCEPT !.txn = s] \in Running(s)
    BY <2>1 DEF Idle, Running
  <2>3. Opened(r, s) \in Outcomes
    BY <2>2 DEF Opened
  <2> QED BY <1>2, <2>3
<1>4. ASSUME NEW n \in Nat, n \in T PROVE n + 1 \in T
  <2> SUFFICES ASSUME n + 1 <= Len(calls) PROVE g[n + 1] \in Outcomes
    OBVIOUS
  <2>1. n + 1 \in 1 .. Len(calls) /\ g[n] \in Outcomes
    BY <1>1, <1>4
  <2>2. g[n + 1] = Called(g[n], calls[n + 1]) /\ calls[n + 1] \in Calls
    BY <1>1, <1>2, <2>1
  <2>3. CASE g[n].raised \/ ~Accepts(g[n].runner, calls[n + 1])
    BY <2>1, <2>2, <2>3 DEF Called
  <2>4. CASE ~g[n].raised /\ Accepts(g[n].runner, calls[n + 1])
    <3>1. g[n].runner \in Running(s)
      BY <2>1
    <3>2. Effect(g[n].runner, calls[n + 1]) \in Running(s)
      BY <2>2, <2>4, <3>1, EffectRunning
    <3>3. g[n + 1] = [g[n] EXCEPT !.runner = Effect(g[n].runner, calls[n + 1])]
      BY <2>1, <2>2, <2>4 DEF Called
    <3> QED BY <2>1, <3>2, <3>3
  <2> QED BY <2>3, <2>4
<1> HIDE DEF T
<1>5. Nat \subseteq T
  BY <1>3, <1>4, Induction
<1> QED BY <1>1, <1>2, <1>5 DEF T
-----------------------------------------------------------------------------
(* Types. A session's mutations are its own, a loaded session has a runner *)
(* just loaded, and while a request persists there is a runner in the      *)
(* cache (process_event keeps the manager it has worked on).               *)
Runners == Idle \cup UNION {Running(s) : s \in Sessions}
SessionTyped(s) ==
  /\ pc[s] \in {"idle", "loaded", "persisting", "done", "failed"}
  /\ todo[s] \in Seq(Seq(Calls)) /\ made[s] \in Seq(Own(s))
  /\ at[s] \in Nat /\ at[s] <= Len(made[s])
  /\ pc[s] = "loaded" => s \in Requests /\ view[s] \in Idle /\ todo[s] # <<>>
  /\ pc[s] = "persisting" /\ s \in Requests => cache \in Runners
  /\ pc[s] \in {"done", "failed"} => todo[s] = <<>>
TypeInv ==
  /\ db \in Tables /\ log \subseteq Sessions \X Sessions \X Nat
  /\ cache \in {None} \cup Runners
  /\ Sessions = DOMAIN pc /\ Sessions = DOMAIN todo /\ Sessions = DOMAIN made
  /\ Sessions = DOMAIN at /\ Sessions = DOMAIN view
  /\ \A s \in Sessions : SessionTyped(s)

(* What the log has of a session is its own mutations, if it is done.      *)
LoggedOf(s) == {w \in log : s \in {w[1], w[2]}}
Whole(s) == LoggedOf(s) = IF pc[s] = "done" THEN {<<s, s, i>> : i \in DOMAIN made[s]} ELSE {}
IInv == TypeInv /\ \A s \in Sessions : Whole(s)

LEMMA RunnerCases ==
  ASSUME NEW r \in Runners
  PROVE  r.txn \in Sessions \cup {None} /\ (r.txn = None => r \in Idle)
BY DEF Runners, Idle, Running

(* What an action on runner r does: it fails and changes nothing but the   *)
(* cached runner, or it drains mutations of its own.                       *)
LEMMA WorkDoes ==
  ASSUME TypeInv, NEW s \in Sessions, NEW r \in Runners,
         NEW programs \in Seq(Seq(Calls)), programs # <<>>, Work(s, r, programs)
  PROVE  /\ UNCHANGED <<db, log, at, restarts>>
         /\ view' = [view EXCEPT ![s] = None]
         /\ cache' \in {None} \cup Runners /\ (cache \in Runners => cache' \in Runners)
         /\ s \in Requests => cache' \in Runners
         /\ \/ /\ pc' = [pc EXCEPT ![s] = "failed"] /\ todo' = [todo EXCEPT ![s] = <<>>]
               /\ made' = made
            \/ /\ pc' = [pc EXCEPT ![s] = "persisting"]
               /\ todo' = [todo EXCEPT ![s] = Tail(programs)]
               /\ \E drained \in Seq(Own(s)) : made' = [made EXCEPT ![s] = made[s] \o drained]
<1>1. UNCHANGED <<db, log, at, restarts>> /\ view' = [view EXCEPT ![s] = None]
  BY DEF Work
<1>2. CASE r.txn # None
  BY <1>1, <1>2 DEF Work, Keeps, Fails, TypeInv
<1>3. CASE r.txn = None
  <2> DEFINE a == Outcome(r, s, Head(programs))
             left == LeftBlock(a)
  <2>1. r \in Idle /\ Head(programs) \in Seq(Calls)
    BY <1>3, RunnerCases, HeadTailProperties
  <2>2. a \in [runner : Running(s), raised : BOOLEAN]
    BY <2>1, OutcomeRunning
  <2>3. Enter(s, r, programs)
    BY <1>3 DEF Work
  <2>4. CASE a.raised
    <3>1. left \in Runners
      BY <2>2, <2>4 DEF LeftBlock, Runners
    <3>2. Keeps(s, left) /\ Fails(s) /\ made' = made
      BY <2>3, <2>4 DEF Enter
    <3> HIDE DEF a, left
    <3> QED BY <1>1, <3>1, <3>2 DEF Keeps, Fails, TypeInv
  <2>5. CASE ~a.raised
    <3>1. left = [a.runner EXCEPT !.txn = None] /\ a.runner \in Running(s)
      BY <2>2, <2>5 DEF LeftBlock
    <3>2. left.queue \in Seq(Own(s)) /\ [left EXCEPT !.queue = <<>>] \in Idle
      <4> HIDE DEF a, left
      <4> QED BY <3>1 DEF Idle, Running
    <3>3. /\ Keeps(s, [left EXCEPT !.queue = <<>>])
          /\ made' = [made EXCEPT ![s] = made[s] \o left.queue]
          /\ pc' = [pc EXCEPT ![s] = "persisting"]
          /\ todo' = [todo EXCEPT ![s] = Tail(programs)]
      BY <2>3, <2>5 DEF Enter
    <3> HIDE DEF a, left
    <3> QED BY <1>1, <3>2, <3>3 DEF Keeps, Runners, TypeInv
  <2> QED BY <2>4, <2>5
<1> QED BY <1>2, <1>3

LEMMA WorkStep ==
  ASSUME IInv, NEW s \in Sessions, NEW r \in Runners, pc[s] # "done",
         NEW programs \in Seq(Seq(Calls)), programs # <<>>, Work(s, r, programs)
  PROVE  IInv'
<1>1. /\ UNCHANGED <<db, log, at>> /\ view' = [view EXCEPT ![s] = None]
      /\ cache' \in {None} \cup Runners /\ (cache \in Runners => cache' \in Runners)
      /\ s \in Requests => cache' \in Runners
  BY WorkDoes DEF IInv
<1>2. /\ pc'[s] \in {"failed", "persisting"} /\ \A t \in Sessions \ {s} : pc'[t] = pc[t]
      /\ todo'[s] \in Seq(Seq(Calls)) /\ (pc'[s] = "failed" => todo'[s] = <<>>)
      /\ \A t \in Sessions \ {s} : todo'[t] = todo[t] /\ made'[t] = made[t] /\ view'[t] = view[t]
      /\ DOMAIN pc' = Sessions /\ DOMAIN todo' = Sessions /\ DOMAIN view' = Sessions
      /\ DOMAIN made' = Sessions
  <2>1. Tail(programs) \in Seq(Seq(Calls)) /\ <<>> \in Seq(Seq(Calls))
    BY HeadTailProperties
  <2>2. \/ /\ pc' = [pc EXCEPT ![s] = "failed"] /\ todo' = [todo EXCEPT ![s] = <<>>]
           /\ made' = made
        \/ /\ pc' = [pc EXCEPT ![s] = "persisting"]
           /\ todo' = [todo EXCEPT ![s] = Tail(programs)]
           /\ \E drained \in Seq(Own(s)) : made' = [made EXCEPT ![s] = made[s] \o drained]
    BY WorkDoes DEF IInv
  <2>3. DOMAIN made' = Sessions /\ \A t \in Sessions \ {s} : made'[t] = made[t]
    BY <2>2 DEF IInv, TypeInv
  <2> QED BY <1>1, <2>1, <2>2, <2>3 DEF IInv, TypeInv
<1>3. made'[s] \in Seq(Own(s)) /\ at[s] <= Len(made'[s])
  <2>1. made[s] \in Seq(Own(s)) /\ at[s] \in Nat /\ at[s] <= Len(made[s])
    BY DEF IInv, TypeInv, SessionTyped
  <2>2. CASE made' = made
    BY <2>1, <2>2
  <2>3. CASE \E drained \in Seq(Own(s)) : made' = [made EXCEPT ![s] = made[s] \o drained]
    <3>1. PICK drained \in Seq(Own(s)) : made' = [made EXCEPT ![s] = made[s] \o drained]
      BY <2>3
    <3>2. made'[s] = made[s] \o drained
      BY <3>1 DEF IInv, TypeInv
    <3>3. /\ made[s] \o drained \in Seq(Own(s))
          /\ Len(made[s] \o drained) = Len(made[s]) + Len(drained)
          /\ Len(made[s]) \in Nat /\ Len(drained) \in Nat
      BY <2>1, ConcatProperties, LenProperties
    <3> QED BY <2>1, <3>2, <3>3
  <2> QED BY <2>2, <2>3, WorkDoes DEF IInv
<1>4. ASSUME NEW t \in Sessions PROVE SessionTyped(t)' /\ Whole(t)'
  <2>1. SessionTyped(t) /\ Whole(t)
    BY DEF IInv, TypeInv
  <2>2. CASE t = s
    <3>1. SessionTyped(s)'
      BY <1>1, <1>2, <1>3, <2>1, <2>2 DEF SessionTyped
    <3>2. Whole(s)'
      BY <1>1, <1>2, <2>1, <2>2 DEF Whole, LoggedOf
    <3> QED BY <2>2, <3>1, <3>2
  <2>3. CASE t # s
    BY <1>1, <1>2, <2>1, <2>3 DEF SessionTyped, Whole, LoggedOf
  <2> QED BY <2>2, <2>3
<1>5. TypeInv'
  BY <1>1, <1>2, <1>4 DEF IInv, TypeInv
<1> QED BY <1>4, <1>5 DEF IInv

LEMMA LoadedIdle == TypeInv => Loaded(db) \in Idle
BY DEF TypeInv, Loaded, Idle

LEMMA CommandStep ==
  ASSUME IInv, NEW c \in Commands, NEW order \in Orders, Command(c, order) PROVE IInv'
<1>1. c \in Sessions /\ pc[c] = "idle" /\ Work(c, Loaded(db), <<order>>)
  BY DEF Command, Sessions
<1>2. Loaded(db) \in Runners
  BY LoadedIdle DEF IInv, Runners
<1>3. <<order>> \in Seq(Seq(Calls)) /\ <<order>> # <<>>
  OBVIOUS
<1> QED BY <1>1, <1>2, <1>3, WorkStep

LEMMA EventStep ==
  ASSUME IInv, NEW q \in Requests, NEW event \in Events, Event(q, event) PROVE IInv'
<1>1. q \in Sessions /\ pc[q] = "idle" /\ cache \in Runners /\ Work(q, cache, event)
  BY DEF Event, Sessions, IInv, TypeInv
<1>2. event \in Seq(Seq(Calls)) /\ event # <<>>
  OBVIOUS
<1> QED BY <1>1, <1>2, WorkStep

LEMMA LoadedEventStep == ASSUME IInv, NEW q \in Requests, LoadedEvent(q) PROVE IInv'
<1>1. q \in Sessions /\ pc[q] = "loaded" /\ Work(q, view[q], todo[q])
  BY DEF LoadedEvent, Sessions
<1>2. view[q] \in Runners /\ todo[q] \in Seq(Seq(Calls)) /\ todo[q] # <<>>
  BY <1>1 DEF IInv, TypeInv, SessionTyped, Runners
<1> QED BY <1>1, <1>2, WorkStep

LEMMA NextTriggerStep == ASSUME IInv, NEW q \in Requests, NextTrigger(q) PROVE IInv'
<1>1. /\ q \in Sessions /\ pc[q] = "persisting" /\ Work(q, cache, todo[q])
      /\ todo[q] # <<>>
  BY DEF NextTrigger, Drained, Sessions
<1>2. cache \in Runners /\ todo[q] \in Seq(Seq(Calls))
  BY <1>1 DEF IInv, TypeInv, SessionTyped
<1> QED BY <1>1, <1>2, WorkStep

LEMMA MissStep ==
  ASSUME IInv, NEW q \in Requests, NEW event \in Events, Miss(q, event) PROVE IInv'
<1>1. /\ q \in Sessions /\ pc[q] = "idle" /\ UNCHANGED <<db, log, cache, made, at>>
      /\ pc' = [pc EXCEPT ![q] = "loaded"] /\ todo' = [todo EXCEPT ![q] = event]
      /\ view' = [view EXCEPT ![q] = Loaded(db)]
  BY DEF Miss, Sessions
<1>2. event \in Seq(Seq(Calls)) /\ event # <<>>
  OBVIOUS
<1>3. Loaded(db) \in Idle
  BY LoadedIdle DEF IInv
<1>4. ASSUME NEW t \in Sessions PROVE SessionTyped(t)' /\ Whole(t)'
  <2>1. SessionTyped(t) /\ Whole(t)
    BY DEF IInv, TypeInv
  <2>2. /\ pc'[t] = (IF t = q THEN "loaded" ELSE pc[t])
        /\ todo'[t] = (IF t = q THEN event ELSE todo[t])
        /\ view'[t] = (IF t = q THEN Loaded(db) ELSE view[t])
    BY <1>1 DEF IInv, TypeInv
  <2> QED BY <1>1, <1>2, <1>3, <2>1, <2>2 DEF SessionTyped, Whole, LoggedOf
<1>5. TypeInv'
  BY <1>1, <1>4 DEF IInv, TypeInv
<1> QED BY <1>4, <1>5 DEF IInv

(* A session that fails, or restarts cut off, loses what it had to do.     *)
LEMMA FailedStep ==
  ASSUME IInv, NEW cut \in SUBSET Sessions, \A s \in cut : pc[s] # "done",
         UNCHANGED <<db, log, made, at>>,
         cache' = cache \/ (cache' = None /\ {q \in Requests : pc[q] = "persisting"} \subseteq cut),
         view' = view \/ (view' = [s \in Sessions |-> None]
                          /\ {q \in Requests : pc[q] = "loaded"} \subseteq cut),
         pc' = [s \in Sessions |-> IF s \in cut THEN "failed" ELSE pc[s]],
         todo' = [s \in Sessions |-> IF s \in cut THEN <<>> ELSE todo[s]]
  PROVE  IInv'
<1>1. ASSUME NEW t \in Sessions PROVE SessionTyped(t)' /\ Whole(t)'
  <2>1. SessionTyped(t) /\ Whole(t)
    BY DEF IInv, TypeInv
  <2>2. CASE t \in cut
    <3>1. pc'[t] = "failed" /\ todo'[t] = <<>> /\ pc[t] # "done"
      BY <2>2
    <3>2. <<>> \in Seq(Seq(Calls))
      OBVIOUS
    <3> QED BY <2>1, <3>1, <3>2 DEF SessionTyped, Whole, LoggedOf
  <2>3. CASE t \notin cut
    <3>1. pc'[t] = pc[t] /\ todo'[t] = todo[t]
      BY <2>3
    <3>2. pc[t] = "loaded" => view'[t] = view[t]
      BY <2>1, <2>3 DEF SessionTyped
    <3>3. pc[t] = "persisting" /\ t \in Requests => cache' = cache
      BY <2>3
    <3> QED BY <2>1, <3>1, <3>2, <3>3 DEF SessionTyped, Whole, LoggedOf
  <2> QED BY <2>2, <2>3
<1>2. TypeInv'
  BY <1>1 DEF IInv, TypeInv
<1> QED BY <1>1, <1>2 DEF IInv

LEMMA FailsAsCut ==
  ASSUME TypeInv, NEW s \in Sessions, Fails(s)
  PROVE  /\ pc' = [t \in Sessions |-> IF t \in {s} THEN "failed" ELSE pc[t]]
         /\ todo' = [t \in Sessions |-> IF t \in {s} THEN <<>> ELSE todo[t]]
BY DEF TypeInv, Fails

LEMMA DatabaseErrorStep == ASSUME IInv, NEW s \in Sessions, DatabaseError(s) PROVE IInv'
<1>1. pc[s] = "persisting" /\ Fails(s) /\ UNCHANGED <<db, log, cache, view, made, at>>
  BY DEF DatabaseError
<1>2. {s} \in SUBSET Sessions
  OBVIOUS
<1> QED BY <1>1, <1>2, FailsAsCut, FailedStep DEF IInv

LEMMA RestartStep == ASSUME IInv, Restart PROVE IInv'
<1> DEFINE cut == {q \in Requests : pc[q] \in {"loaded", "persisting"}}
<1>1. cut \in SUBSET Sessions /\ \A s \in cut : pc[s] # "done"
  BY DEF Sessions
<1>2. /\ UNCHANGED <<db, log, made, at>> /\ cache' = None /\ view' = [s \in Sessions |-> None]
      /\ pc' = [s \in Sessions |-> IF s \in cut THEN "failed" ELSE pc[s]]
      /\ todo' = [s \in Sessions |-> IF s \in cut THEN <<>> ELSE todo[s]]
  BY DEF Restart
<1>3. /\ {q \in Requests : pc[q] = "persisting"} \subseteq cut
      /\ {q \in Requests : pc[q] = "loaded"} \subseteq cut
  OBVIOUS
<1> HIDE DEF cut
<1> QED BY <1>1, <1>2, <1>3, FailedStep

LEMMA PersistStep == ASSUME IInv, NEW s \in Sessions, Persist(s) PROVE IInv'
<1>1. pc[s] = "persisting" /\ at[s] < Len(made[s]) /\ UNCHANGED <<db, log, cache, view, made>>
  BY DEF Persist, Writing
<1>2. CASE Refused(s, Statement(s))
  <2>1. Fails(s) /\ at' = at
    BY <1>2 DEF Persist
  <2>2. {s} \in SUBSET Sessions /\ \A t \in {s} : pc[t] # "done"
    BY <1>1
  <2> QED BY <1>1, <2>1, <2>2, FailsAsCut, FailedStep DEF IInv
<1>3. CASE ~Refused(s, Statement(s))
  <2>1. at' = [at EXCEPT ![s] = at[s] + 1] /\ UNCHANGED <<pc, todo>>
    BY <1>3 DEF Persist
  <2>2. made[s] \in Seq(Own(s)) /\ at[s] \in Nat
    BY DEF IInv, TypeInv, SessionTyped
  <2>3. at[s] + 1 <= Len(made[s]) /\ at[s] + 1 \in Nat
    BY <1>1, <2>2, LenProperties
  <2>4. \A t \in Sessions : at'[t] = IF t = s THEN at[s] + 1 ELSE at[t]
    BY <2>1 DEF IInv, TypeInv
  <2>5. ASSUME NEW t \in Sessions PROVE SessionTyped(t)' /\ Whole(t)'
    BY <1>1, <2>1, <2>3, <2>4 DEF IInv, TypeInv, SessionTyped, Whole, LoggedOf
  <2> QED BY <1>1, <2>1, <2>5 DEF IInv, TypeInv
<1> QED BY <1>2, <1>3

LEMMA OwnFacts ==
  ASSUME TypeInv, NEW s \in Sessions
  PROVE  /\ made[s] \in Seq(Mutations) /\ DOMAIN made[s] = 1 .. Len(made[s])
         /\ Len(made[s]) \in Nat
         /\ \A i \in DOMAIN made[s] : made[s][i] \in Mutations /\ made[s][i].txn = s
<1>1. made[s] \in Seq(Own(s))
  BY DEF TypeInv, SessionTyped
<1>2. /\ DOMAIN made[s] = 1 .. Len(made[s]) /\ Len(made[s]) \in Nat
      /\ \A i \in DOMAIN made[s] : made[s][i] \in Own(s)
  BY <1>1, LenProperties, ElementOfSeq
<1>3. made[s] \in [1 .. Len(made[s]) -> Mutations]
  BY <1>1, <1>2, LenProperties DEF Own
<1>4. made[s] \in Seq(Mutations)
  BY <1>2, <1>3, SeqDef
<1> QED BY <1>2, <1>4 DEF Own

LEMMA CommitStep == ASSUME IInv, NEW s \in Sessions, Commit(s) PROVE IInv'
<1>1. /\ pc[s] = "persisting" /\ todo[s] = <<>> /\ UNCHANGED <<cache, view, todo, made, at>>
      /\ db' = AllApplied(db, made[s]) /\ pc' = [pc EXCEPT ![s] = "done"]
      /\ log' = log \cup {<<made[s][i].txn, s, i>> : i \in DOMAIN made[s]}
  BY DEF Commit, Drained
<1> DEFINE mine == {<<s, s, i>> : i \in DOMAIN made[s]}
<1>2. made[s] \in Seq(Mutations) /\ log' = log \cup mine /\ DOMAIN made[s] \subseteq Nat
  BY <1>1, OwnFacts DEF IInv
<1>3. db' \in Tables
  BY <1>1, <1>2, AllAppliedTables DEF IInv, TypeInv
<1>4. mine \subseteq Sessions \X Sessions \X Nat
  BY <1>2
<1>5. \A t \in Sessions : pc'[t] = IF t = s THEN "done" ELSE pc[t]
  BY <1>1 DEF IInv, TypeInv
<1>6. ASSUME NEW t \in Sessions PROVE SessionTyped(t)'
  BY <1>1, <1>5 DEF IInv, TypeInv, SessionTyped
<1>7. ASSUME NEW t \in Sessions PROVE Whole(t)'
  <2>1. Whole(t)
    BY DEF IInv
  <2>2. CASE t = s
    <3>1. LoggedOf(s) = {}
      BY <1>1, <2>1, <2>2 DEF Whole
    <3>2. {w \in log' : s \in {w[1], w[2]}} = mine
      BY <1>2, <3>1 DEF LoggedOf
    <3> QED BY <1>1, <1>5, <2>2, <3>2 DEF Whole, LoggedOf
  <2>3. CASE t # s
    <3>1. {w \in log' : t \in {w[1], w[2]}} = LoggedOf(t)
      BY <1>2, <2>3 DEF LoggedOf
    <3> QED BY <1>1, <1>5, <2>1, <2>3, <3>1 DEF Whole, LoggedOf
  <2> QED BY <2>2, <2>3
<1> HIDE DEF mine
<1>8. TypeInv'
  BY <1>1, <1>2, <1>3, <1>4, <1>6 DEF IInv, TypeInv
<1> QED BY <1>7, <1>8 DEF IInv

LEMMA InitInv == Init => IInv
<1> SUFFICES ASSUME Init PROVE IInv
  OBVIOUS
<1>1. db \in Tables
  <2> DEFINE none == [n \in {} |-> NewStep]
  <2>1. none \in [{} -> StepRecords] /\ {} \in SUBSET Nat /\ IsFiniteSet({})
    BY FS_EmptySet
  <2>2. none \in StepTables
    BY <2>1, StepTable
  <2>3. db = [status |-> "NEW", progress |-> <<0, 1>>, memory |-> {}, steps |-> none]
    BY DEF Init, NewWorkflow
  <2> HIDE DEF none
  <2> QED BY <2>2, <2>3 DEF Tables, WorkflowStatus
<1>2. ASSUME NEW s \in Sessions PROVE SessionTyped(s) /\ Whole(s)
  <2>1. /\ pc[s] = "idle" /\ todo[s] = <<>> /\ made[s] = <<>> /\ at[s] = 0 /\ log = {}
        /\ Len(<<>>) = 0 /\ <<>> \in Seq(Seq(Calls)) /\ <<>> \in Seq(Own(s))
    BY DEF Init
  <2> QED BY <2>1 DEF SessionTyped, Whole, LoggedOf
<1>3. TypeInv
  BY <1>1, <1>2 DEF TypeInv, Init
<1> QED BY <1>2, <1>3 DEF IInv

LEMMA NextInv == IInv /\ [Next]_vars => IInv'
<1> SUFFICES ASSUME IInv, [Next]_vars PROVE IInv'
  OBVIOUS
<1>1. CASE UNCHANGED vars
  BY <1>1 DEF vars, IInv, TypeInv, SessionTyped, Whole, LoggedOf
<1>2. ASSUME NEW s \in Sessions, Advance(s) PROVE IInv'
  BY <1>2, CommitStep, PersistStep, LoadedEventStep, NextTriggerStep DEF Advance
<1> QED BY <1>1, <1>2, CommandStep, EventStep, MissStep, DatabaseErrorStep, RestartStep DEF Next

(* The invariant holds in every reachable state, for any sessions, orders  *)
(* and events.                                                             *)
THEOREM SessionsInvariant == Spec => []IInv
<1>1. Init => IInv BY InitInv
<1>2. IInv /\ [Next]_vars => IInv' BY NextInv
<1> QED BY <1>1, <1>2, PTL DEF Spec

(* The tables, the runners and the mutations keep their types.             *)
LEMMA TablesTyped == ASSUME NEW rows \in Tables PROVE IsRows(rows)
<1>1. rows.steps \in StepTables
  BY DEF Tables
<1> QED BY <1>1, StepFacts DEF Tables, IsRows, StepRecords

LEMMA MutationTyped == ASSUME NEW e \in Mutations PROVE IsMutation(e)
BY StatesAssumption DEF Mutations, UpdatesOf, StepMutations, IsMutation

LEMMA RunnerTyped == ASSUME NEW r \in Runners PROVE IsRunner(r)
<1>1. r.rows \in Tables /\ r.txn \in Sessions \cup {None}
  BY DEF Runners, Idle, Running
<1>2. ASSUME NEW i \in DOMAIN r.queue PROVE r.queue[i] \in Mutations
  <2>1. CASE r \in Idle
    BY <2>1 DEF Idle
  <2>2. CASE \E s \in Sessions : r \in Running(s)
    <3>1. PICK s \in Sessions : r \in Running(s)
      BY <2>2
    <3>2. r.queue \in Seq(Own(s))
      BY <3>1 DEF Running
    <3> QED BY <3>2, LenProperties, ElementOfSeq DEF Own
  <2> QED BY <2>1, <2>2 DEF Runners
<1> QED BY <1>1, <1>2, TablesTyped, MutationTyped DEF IsRunner

(* A row, a runner and a queue have their types whatever the calls: in     *)
(* particular a step's id is a number, and a runner in the cache or just   *)
(* loaded is there when an event is triggered on it (process_event).       *)
THEOREM SessionsTyped == Spec => []TypeOK
<1>1. ASSUME IInv PROVE TypeOK
  <2>1. IsRows(db) /\ (cache # None => IsRunner(cache))
    BY <1>1, TablesTyped, RunnerTyped DEF IInv, TypeInv
  <2>2. ASSUME NEW s \in Sessions, pc[s] = "loaded" PROVE IsRunner(view[s])
    <3>1. view[s] \in Runners
      BY <1>1, <2>2 DEF IInv, TypeInv, SessionTyped, Runners
    <3> QED BY <3>1, RunnerTyped
  <2>3. ASSUME NEW s \in Sessions, NEW i \in DOMAIN made[s] PROVE IsMutation(made[s][i])
    BY <1>1, OwnFacts, MutationTyped DEF IInv
  <2>4. \A s \in Sessions : at[s] \in 0 .. Len(made[s])
    BY <1>1, OwnFacts DEF IInv, TypeInv, SessionTyped
  <2> QED BY <1>1, <2>1, <2>2, <2>3, <2>4 DEF IInv, TypeInv, SessionTyped, TypeOK
<1> QED BY <1>1, SessionsInvariant, PTL

(* A session's mutations are logged whole and under its own transaction,   *)
(* or not at all (persist, persist_mutations, transaction), although a     *)
(* runner is shared by requests and keeps the queue of one that raised.    *)
THEOREM SessionsWhole == Spec => []TransactionsAreWhole
<1>1. IInv => TransactionsAreWhole
  BY DEF IInv, Whole, LoggedOf, TransactionsAreWhole
<1> QED BY <1>1, SessionsInvariant, PTL
-----------------------------------------------------------------------------
(* What the rows of the steps become.                                      *)
LEMMA AppliedSteps ==
  ASSUME NEW rows \in Tables, NEW e \in Mutations
  PROVE  LET new == Applied(rows, e).steps
         IN /\ DOMAIN rows.steps \subseteq DOMAIN new
            /\ DOMAIN new \subseteq DOMAIN rows.steps \cup {e.row}
            /\ e.row # Wf => e.row \in DOMAIN new
            /\ \A n \in DOMAIN rows.steps : n # e.row => new[n] = rows.steps[n]
<1>1. CASE e.row = Wf
  <2>1. e.column \in {"status", "progress", "memory"}
    BY <1>1 DEF Mutations, UpdatesOf, StepMutations
  <2>2. Applied(rows, e) = [rows EXCEPT ![e.column] = e.value]
    BY <1>1 DEF Applied
  <2>3. Applied(rows, e).steps = rows.steps
    BY <2>1, <2>2 DEF Tables
  <2> QED BY <1>1, <2>3
<1>2. CASE e.row # Wf
  <2> DEFINE old == rows.steps
             here == StepAfter(old, e)
             new == [n \in DOMAIN old \cup {e.row} |-> IF n = e.row THEN here ELSE old[n]]
  <2>1. Applied(rows, e).steps = new
    BY <1>2 DEF Applied, Tables
  <2>2. /\ DOMAIN new = DOMAIN old \cup {e.row}
        /\ \A n \in DOMAIN old : n # e.row => new[n] = old[n]
    OBVIOUS
  <2> HIDE DEF new
  <2> QED BY <2>1, <2>2
<1> QED BY <1>1, <1>2

LEMMA AllAppliedSteps ==
  ASSUME NEW rows \in Tables, NEW es \in Seq(Mutations)
  PROVE  LET new == AllApplied(rows, es).steps
         IN /\ DOMAIN new \subseteq DOMAIN rows.steps \cup {es[i].row : i \in DOMAIN es}
            /\ \A i \in DOMAIN es : es[i].row # Wf => es[i].row \in DOMAIN new
            /\ \A n \in DOMAIN rows.steps :
                 /\ n \in DOMAIN new
                 /\ (\A i \in DOMAIN es : es[i].row # n) => new[n] = rows.steps[n]
<1>1. /\ Len(es) \in Nat /\ DOMAIN es = 1 .. Len(es)
      /\ \A i \in 1 .. Len(es) : es[i] \in Mutations
  BY LenProperties, ElementOfSeq
<1>2. PICK g : /\ AllApplied(rows, es) = g[Len(es)] /\ g[0] = rows
               /\ \A i \in 1 .. Len(es) : g[i] = Applied(g[i - 1], es[i])
  BY <1>1, FoldOf
<1> DEFINE Known == DOMAIN rows.steps \cup {es[i].row : i \in DOMAIN es}
           Kept(n) == \A i \in DOMAIN es : es[i].row # n
           Good(k) == /\ g[k] \in Tables /\ DOMAIN g[k].steps \subseteq Known
                      /\ \A i \in 1 .. k : es[i].row # Wf => es[i].row \in DOMAIN g[k].steps
                      /\ \A n \in DOMAIN rows.steps :
                           n \in DOMAIN g[k].steps /\ (Kept(n) => g[k].steps[n] = rows.steps[n])
           T == {k \in Nat : k <= Len(es) => Good(k)}
<1>3. 0 \in T
  BY <1>2
<1>4. ASSUME NEW k \in Nat, k \in T PROVE k + 1 \in T
  <2> SUFFICES ASSUME k + 1 <= Len(es) PROVE Good(k + 1)
    OBVIOUS
  <2> DEFINE e == es[k + 1]
             here == g[k]
  <2>1. k + 1 \in DOMAIN es /\ Good(k) /\ e \in Mutations
    BY <1>1, <1>4
  <2>2. g[k + 1] = Applied(here, e)
    BY <1>1, <1>2, <2>1
  <2>3. g[k + 1] \in Tables
    BY <2>1, <2>2, AppliedTables
  <2>4. e.row \in Known /\ \A n \in DOMAIN rows.steps : Kept(n) => n # e.row
    BY <2>1
  <2>5. /\ DOMAIN here.steps \subseteq DOMAIN g[k + 1].steps
        /\ e.row # Wf => e.row \in DOMAIN g[k + 1].steps
        /\ DOMAIN g[k + 1].steps \subseteq DOMAIN here.steps \cup {e.row}
        /\ \A n \in DOMAIN here.steps : n # e.row => g[k + 1].steps[n] = here.steps[n]
    BY <2>1, <2>2, AppliedSteps
  <2>6. \A i \in 1 .. k + 1 : es[i].row # Wf => es[i].row \in DOMAIN g[k + 1].steps
    <3>1. \A i \in 1 .. k + 1 : i \in 1 .. k \/ i = k + 1
      OBVIOUS
    <3> QED BY <2>1, <2>5, <3>1
  <2> HIDE DEF e, Known, Kept
  <2> QED BY <2>1, <2>3, <2>4, <2>5, <2>6
<1> HIDE DEF T
<1>5. Nat \subseteq T
  BY <1>3, <1>4, Induction
<1>6. Good(Len(es))
  BY <1>1, <1>5 DEF T
<1> QED BY <1>1, <1>2, <1>6

(* A row is locked by one session at most, and what a session has inserted *)
(* is not among the committed rows.                                        *)
OneLocker == \A s, t \in Sessions : s # t => Locks(s) \cap Locks(t) = {}
InsertsNew(s) ==
  pc[s] = "persisting" =>
    \A i \in 1 .. at[s] : made[s][i].kind = "insert" => made[s][i].row \notin DOMAIN db.steps
LockInv ==
  /\ OneLocker
  /\ \A s \in Sessions : InsertsNew(s) /\ (pc[s] \in {"idle", "loaded"} => at[s] = 0)

(* A step that commits nothing and writes nothing: locks are kept or       *)
(* released.                                                               *)
LEMMA LocksKept ==
  ASSUME IInv, LockInv, UNCHANGED <<db, at>>,
         \A s \in Sessions :
           /\ pc'[s] = "persisting" =>
                \/ pc[s] \in {"idle", "loaded"}
                \/ /\ pc[s] = "persisting"
                   /\ \A i \in 1 .. at[s] : made'[s][i] = made[s][i]
           /\ pc'[s] \in {"idle", "loaded"} => pc[s] \in {"idle", "loaded"}
  PROVE  LockInv'
<1>1. ASSUME NEW s \in Sessions PROVE Locks(s)' \subseteq Locks(s)
  <2>1. CASE pc'[s] # "persisting"
    BY <2>1 DEF Locks
  <2>2. CASE pc'[s] = "persisting" /\ pc[s] \in {"idle", "loaded"}
    <3>1. at'[s] = 0
      BY <2>2 DEF LockInv
    <3> QED BY <3>1 DEF Locks
  <2>3. CASE /\ pc'[s] = "persisting" /\ pc[s] = "persisting"
             /\ \A i \in 1 .. at[s] : made'[s][i] = made[s][i]
    BY <2>3 DEF Locks
  <2> QED BY <2>1, <2>2, <2>3
<1>2. OneLocker'
  BY <1>1 DEF LockInv, OneLocker
<1>3. ASSUME NEW s \in Sessions PROVE InsertsNew(s)'
  <2>1. CASE pc'[s] = "persisting" /\ pc[s] \in {"idle", "loaded"}
    <3>1. at'[s] = 0
      BY <2>1 DEF LockInv
    <3> QED BY <3>1 DEF InsertsNew
  <2>2. CASE /\ pc'[s] = "persisting" /\ pc[s] = "persisting"
             /\ \A i \in 1 .. at[s] : made'[s][i] = made[s][i]
    BY <2>2 DEF LockInv, InsertsNew
  <2> QED BY <2>1, <2>2 DEF InsertsNew
<1> QED BY <1>2, <1>3 DEF LockInv

(* A step that ends no session well changes no table.                      *)
Uncommitted == db' = db /\ \A t \in Sessions : pc'[t] = "done" => pc[t] = "done"

LEMMA LocksWork ==
  ASSUME IInv, LockInv, NEW s \in Sessions, NEW r \in Runners,
         NEW programs \in Seq(Seq(Calls)), programs # <<>>, Work(s, r, programs),
         pc[s] \in {"idle", "loaded", "persisting"}
  PROVE  LockInv' /\ Uncommitted
<1>1. UNCHANGED <<db, at>>
  BY WorkDoes DEF IInv
<1>2. /\ \A t \in Sessions \ {s} : pc'[t] = pc[t] /\ made'[t] = made[t]
      /\ pc'[s] \in {"failed", "persisting"}
      /\ made'[s] = made[s] \/ \E drained \in Seq(Own(s)) : made'[s] = made[s] \o drained
  <2>1. \/ pc' = [pc EXCEPT ![s] = "failed"] /\ made' = made
        \/ /\ pc' = [pc EXCEPT ![s] = "persisting"]
           /\ \E drained \in Seq(Own(s)) : made' = [made EXCEPT ![s] = made[s] \o drained]
    BY WorkDoes DEF IInv
  <2> QED BY <2>1 DEF IInv, TypeInv
<1>3. \A i \in 1 .. at[s] : made'[s][i] = made[s][i]
  <2>1. made[s] \in Seq(Own(s)) /\ at[s] \in Nat /\ at[s] <= Len(made[s]) /\ Len(made[s]) \in Nat
    BY LenProperties DEF IInv, TypeInv, SessionTyped
  <2>2. ASSUME NEW drained \in Seq(Own(s)), NEW i \in 1 .. at[s]
        PROVE  (made[s] \o drained)[i] = made[s][i]
    <3>1. i \in 1 .. Len(made[s]) + Len(drained) /\ i <= Len(made[s])
      BY <2>1, LenProperties
    <3> QED BY <2>1, <3>1, ConcatProperties
  <2> QED BY <1>2, <2>2
<1>4. Uncommitted
  BY <1>1, <1>2 DEF Uncommitted
<1> QED BY <1>1, <1>2, <1>3, <1>4, LocksKept

LEMMA LocksPersist ==
  ASSUME IInv, LockInv, NEW s \in Sessions, Persist(s)
  PROVE  LockInv' /\ Uncommitted
<1>1. pc[s] = "persisting" /\ Holders(s) = {} /\ UNCHANGED <<db, made>>
  BY DEF Persist, Writing
<1>2. CASE Refused(s, Statement(s))
  <2>1. UNCHANGED <<db, at, made>> /\ pc' = [pc EXCEPT ![s] = "failed"]
    BY <1>1, <1>2 DEF Persist, Fails
  <2>2. \A t \in Sessions : pc'[t] = IF t = s THEN "failed" ELSE pc[t]
    BY <2>1 DEF IInv, TypeInv
  <2> QED BY <2>1, <2>2, LocksKept DEF Uncommitted
<1>3. CASE ~Refused(s, Statement(s))
  <2> DEFINE e == Statement(s)
  <2>1. at' = [at EXCEPT ![s] = at[s] + 1] /\ pc' = pc
    BY <1>3 DEF Persist
  <2>2. at[s] \in Nat /\ at[s] + 1 \in DOMAIN made[s] /\ DOMAIN made[s] = 1 .. Len(made[s])
    BY OwnFacts DEF IInv, TypeInv, SessionTyped, Persist, Writing
  <2>3. e \in Mutations /\ e = made[s][at[s] + 1]
    BY <2>2, OwnFacts DEF Statement, IInv
  <2>4. e.kind \in {"insert", "update"}
    BY <2>3 DEF Mutations, UpdatesOf, StepMutations
  <2>5. at'[s] = at[s] + 1 /\ \A t \in Sessions \ {s} : at'[t] = at[t]
    BY <2>1 DEF IInv, TypeInv
  <2>6. 1 .. at'[s] = 1 .. at[s] \cup {at[s] + 1}
    BY <2>2, <2>5
  <2>7. Locks(s)' = Locks(s) \cup {e.row} /\ \A t \in Sessions \ {s} : Locks(t)' = Locks(t)
    BY <1>1, <2>1, <2>3, <2>5, <2>6 DEF Locks
  <2>8. e.row \in Locks(s) \/ \A t \in Sessions \ {s} : e.row \notin Locks(t)
    BY <1>1, <1>3, <2>4 DEF Holders, Refused
  <2>9. e.kind = "insert" => e.row \notin DOMAIN db.steps
    BY <1>3 DEF Refused, Committed
  <2> HIDE DEF e
  <2>10. OneLocker'
    <3> SUFFICES ASSUME NEW t \in Sessions, NEW u \in Sessions, t # u
                 PROVE  Locks(t)' \cap Locks(u)' = {}
      BY DEF OneLocker
    <3> QED BY <2>7, <2>8 DEF LockInv, OneLocker
  <2>11. ASSUME NEW t \in Sessions PROVE InsertsNew(t)'
    <3>1. CASE t = s
      BY <1>1, <2>1, <2>3, <2>5, <2>6, <2>9, <3>1 DEF LockInv, InsertsNew
    <3>2. CASE t # s
      BY <1>1, <2>1, <2>5, <3>2 DEF LockInv, InsertsNew
    <3> QED BY <3>1, <3>2
  <2>12. \A t \in Sessions : pc'[t] \in {"idle", "loaded"} => at'[t] = 0
    BY <1>1, <2>1, <2>5 DEF LockInv
  <2> QED BY <1>1, <2>1, <2>10, <2>11, <2>12 DEF LockInv, Uncommitted
<1> QED BY <1>2, <1>3

(* What StepsStay says of one step of the system.                          *)
StepRowsStay ==
  \A n \in DOMAIN db.steps :
    /\ n \in DOMAIN db'.steps
    /\ \A s \in Sessions : Ends(s) => \A i \in Writes(s, n) : made[s][i].kind = "update"
    /\ \/ db'.steps[n] = db.steps[n]
       \/ \E s \in Sessions : Ends(s) /\ Writes(s, n) # {}

LEMMA LocksCommit ==
  ASSUME IInv, LockInv, NEW s \in Sessions, Commit(s)
  PROVE  LockInv' /\ StepRowsStay
<1>1. /\ pc[s] = "persisting" /\ at[s] = Len(made[s]) /\ UNCHANGED <<made, at>>
      /\ db' = AllApplied(db, made[s]) /\ pc' = [pc EXCEPT ![s] = "done"]
  BY DEF Commit, Drained
<1>2. made[s] \in Seq(Mutations) /\ db \in Tables /\ DOMAIN made[s] = 1 .. at[s]
  BY <1>1, OwnFacts DEF IInv, TypeInv
<1>3. Locks(s) = {made[s][i].row : i \in DOMAIN made[s]}
  BY <1>1, <1>2 DEF Locks
<1>4. /\ DOMAIN db'.steps \subseteq DOMAIN db.steps \cup Locks(s)
      /\ \A n \in DOMAIN db.steps :
           /\ n \in DOMAIN db'.steps
           /\ (\A i \in DOMAIN made[s] : made[s][i].row # n) => db'.steps[n] = db.steps[n]
  BY <1>1, <1>2, <1>3, AllAppliedSteps
<1>5. \A n \in DOMAIN db.steps :
        \A i \in DOMAIN made[s] : made[s][i].row = n => made[s][i].kind = "update"
  <2>1. \A i \in DOMAIN made[s] : made[s][i].kind \in {"insert", "update"}
    <3>1. \A i \in DOMAIN made[s] : made[s][i] \in Mutations
      BY OwnFacts DEF IInv
    <3> QED BY <3>1 DEF Mutations, UpdatesOf, StepMutations
  <2> QED BY <1>1, <1>2, <2>1 DEF LockInv, InsertsNew
<1>6. \A t \in Sessions : pc'[t] = IF t = s THEN "done" ELSE pc[t]
  BY <1>1 DEF IInv, TypeInv
<1>7. OneLocker'
  <2>1. \A t \in Sessions : Locks(t)' \subseteq Locks(t)
    BY <1>1, <1>6 DEF Locks
  <2> QED BY <2>1 DEF LockInv, OneLocker
<1>8. ASSUME NEW t \in Sessions PROVE InsertsNew(t)'
  <2> SUFFICES ASSUME pc'[t] = "persisting", NEW i \in 1 .. at[t], made[t][i].kind = "insert"
               PROVE  made[t][i].row \notin DOMAIN db'.steps
    BY <1>1 DEF InsertsNew
  <2>1. t # s /\ pc[t] = "persisting"
    BY <1>6
  <2>2. made[t][i].row \in Locks(t) /\ made[t][i].row \notin DOMAIN db.steps
    BY <2>1 DEF Locks, LockInv, InsertsNew
  <2>3. made[t][i].row \notin Locks(s)
    BY <2>1, <2>2 DEF LockInv, OneLocker
  <2> QED BY <1>4, <2>2, <2>3
<1>9. \A t \in Sessions : pc'[t] \in {"idle", "loaded"} => at'[t] = 0
  BY <1>1, <1>6 DEF LockInv
<1>10. StepRowsStay
  <2> SUFFICES ASSUME NEW n \in DOMAIN db.steps
               PROVE  /\ n \in DOMAIN db'.steps
                      /\ \A t \in Sessions :
                           Ends(t) => \A i \in Writes(t, n) : made[t][i].kind = "update"
                      /\ \/ db'.steps[n] = db.steps[n]
                         \/ \E t \in Sessions : Ends(t) /\ Writes(t, n) # {}
    BY DEF StepRowsStay
  <2>1. \A t \in Sessions : Ends(t) <=> t = s
    BY <1>1, <1>6 DEF Ends
  <2>2. \A i \in Writes(s, n) : made[s][i].kind = "update"
    BY <1>5 DEF Writes
  <2>3. CASE Writes(s, n) = {}
    BY <1>4, <2>1, <2>2, <2>3 DEF Writes
  <2>4. CASE Writes(s, n) # {}
    BY <1>4, <2>1, <2>2, <2>4
  <2> QED BY <2>3, <2>4
<1> QED BY <1>7, <1>8, <1>9, <1>10 DEF LockInv

(* Commits apart, no step changes the tables, and every step keeps LockInv.*)
LEMMA LocksNext == IInv /\ LockInv /\ [Next]_vars => LockInv' /\ StepRowsStay
<1> SUFFICES ASSUME IInv, LockInv, [Next]_vars PROVE LockInv' /\ StepRowsStay
  OBVIOUS
<1>1. Uncommitted => StepRowsStay
  BY DEF Uncommitted, StepRowsStay, Ends
<1>2. CASE UNCHANGED vars
  <2>1. UNCHANGED <<db, pc, made, at>>
    BY <1>2 DEF vars
  <2> QED BY <1>1, <2>1, LocksKept DEF Uncommitted
<1>3. ASSUME NEW c \in Commands, NEW order \in Orders, Command(c, order)
      PROVE  LockInv' /\ Uncommitted
  <2>1. c \in Sessions /\ pc[c] = "idle" /\ Work(c, Loaded(db), <<order>>)
    BY <1>3 DEF Command, Sessions
  <2>2. Loaded(db) \in Runners /\ <<order>> \in Seq(Seq(Calls)) /\ <<order>> # <<>>
    BY LoadedIdle DEF IInv, Runners
  <2> QED BY <2>1, <2>2, LocksWork
<1>4. ASSUME NEW q \in Requests, NEW event \in Events, Event(q, event)
      PROVE  LockInv' /\ Uncommitted
  <2>1. q \in Sessions /\ pc[q] = "idle" /\ cache \in Runners /\ Work(q, cache, event)
    BY <1>4 DEF Event, Sessions, IInv, TypeInv
  <2>2. event \in Seq(Seq(Calls)) /\ event # <<>>
    OBVIOUS
  <2> QED BY <2>1, <2>2, LocksWork
<1>5. ASSUME NEW q \in Requests, NEW event \in Events, Miss(q, event)
      PROVE  LockInv' /\ Uncommitted
  <2>1. /\ UNCHANGED <<db, at, made>> /\ pc[q] = "idle" /\ q \in Sessions
        /\ \A t \in Sessions : pc'[t] = IF t = q THEN "loaded" ELSE pc[t]
    BY <1>5 DEF Miss, Sessions, IInv, TypeInv
  <2> QED BY <2>1, LocksKept DEF Uncommitted
<1>6. ASSUME NEW s \in Sessions, DatabaseError(s) PROVE LockInv' /\ Uncommitted
  <2>1. /\ UNCHANGED <<db, at, made>>
        /\ \A t \in Sessions : pc'[t] = IF t = s THEN "failed" ELSE pc[t]
    BY <1>6 DEF DatabaseError, Fails, IInv, TypeInv
  <2> QED BY <2>1, LocksKept DEF Uncommitted
<1>7. ASSUME Restart PROVE LockInv' /\ Uncommitted
  <2>1. /\ UNCHANGED <<db, at, made>>
        /\ \A t \in Sessions : pc'[t] \in {"failed", pc[t]}
    BY <1>7 DEF Restart
  <2> QED BY <2>1, LocksKept DEF Uncommitted
<1>8. ASSUME NEW q \in Requests, LoadedEvent(q) PROVE LockInv' /\ Uncommitted
  <2>1. q \in Sessions /\ pc[q] = "loaded" /\ Work(q, view[q], todo[q])
    BY <1>8 DEF LoadedEvent, Sessions
  <2>2. view[q] \in Runners /\ todo[q] \in Seq(Seq(Calls)) /\ todo[q] # <<>>
    BY <2>1 DEF IInv, TypeInv, SessionTyped, Runners
  <2> QED BY <2>1, <2>2, LocksWork
<1>9. ASSUME NEW q \in Requests, NextTrigger(q) PROVE LockInv' /\ Uncommitted
  <2>1. /\ q \in Sessions /\ pc[q] = "persisting" /\ Work(q, cache, todo[q])
        /\ todo[q] # <<>>
    BY <1>9 DEF NextTrigger, Drained, Sessions
  <2>2. cache \in Runners /\ todo[q] \in Seq(Seq(Calls))
    BY <2>1 DEF IInv, TypeInv, SessionTyped
  <2> QED BY <2>1, <2>2, LocksWork
<1>10. ASSUME NEW s \in Sessions, Advance(s) PROVE LockInv' /\ StepRowsStay
  BY <1>1, <1>8, <1>9, <1>10, LocksCommit, LocksPersist DEF Advance
<1> QED BY <1>1, <1>2, <1>3, <1>4, <1>5, <1>6, <1>7, <1>10 DEF Next

LEMMA LocksInit == Init => LockInv
<1> SUFFICES ASSUME Init PROVE LockInv
  OBVIOUS
<1>1. \A s \in Sessions : pc[s] = "idle" /\ at[s] = 0
  BY DEF Init
<1> QED BY <1>1 DEF LockInv, OneLocker, InsertsNew, Locks

(* The row of a step stays, and only a session that has moved that step,   *)
(* and has not added it, changes it, although several runners number steps *)
(* from their own memory: an insert of an id already there is refused and  *)
(* one of an id another transaction holds waits (_add_step, insert_data,   *)
(* update_data). That a finished step stays finished is not so: a runner   *)
(* may take it out of its final state (_transit).                          *)
THEOREM StepRows == Spec => StepsStay
<1>1. Init => LockInv BY LocksInit
<1>2. IInv /\ LockInv /\ [Next]_vars => LockInv' BY LocksNext
<1>3. IInv /\ LockInv /\ [Next]_vars =>
        [\A n \in DOMAIN db.steps :
           /\ n \in DOMAIN db'.steps
           /\ \A s \in Sessions : Ends(s) => \A i \in Writes(s, n) : made[s][i].kind = "update"
           /\ \/ db'.steps[n] = db.steps[n]
              \/ \E s \in Sessions : Ends(s) /\ Writes(s, n) # {}]_vars
  BY LocksNext DEF StepRowsStay
<1> QED BY <1>1, <1>2, <1>3, SessionsInvariant, PTL DEF Spec, StepsStay
-----------------------------------------------------------------------------
(* The ids of steps in the tables or still to be, or never to be, written  *)
(* by a request: an initial segment of the numbers. A runner knows ids of  *)
(* it only, so the number it gives next, the number of those it knows, is  *)
(* in the segment or follows it.                                           *)
Segment(U)    == \A n \in U : \A m \in 0 .. n : m \in U
StepIds(q)    == {q[i].row : i \in DOMAIN q} \ {Wf}
LostIds       == UNION {StepIds(made[q]) : q \in {q \in Requests : pc[q] # "done"}}
Used          == DOMAIN db.steps \cup LostIds
Knows(r, U)   == DOMAIN r.rows.steps \subseteq U
InUse         == cache # None \/ \E q \in Requests : pc[q] = "persisting"
NumberInv ==
  /\ Segment(Used)
  /\ InUse /\ cache \in Idle => Knows(cache, Used)
  /\ \A s \in Sessions :
       /\ pc[s] = "idle" => made[s] = <<>>
       /\ pc[s] = "loaded" => Knows(view[s], Used)
       /\ pc[s] = "persisting" => Segment(Used \cup StepIds(made[s]))

LEMMA NextNumber ==
  ASSUME NEW U \in SUBSET Nat, Segment(U), NEW X \in SUBSET U, IsFiniteSet(X)
  PROVE  Cardinality(X) \in Nat /\ Segment(U \cup {Cardinality(X)})
<1> DEFINE k == Cardinality(X)
<1>1. k \in Nat
  BY FS_CardinalityType
<1>2. ASSUME NEW m \in 0 .. k, m # k, m \notin U PROVE FALSE
  <2>1. X \subseteq 0 .. m - 1
    <3> SUFFICES ASSUME NEW x \in X, x \notin 0 .. m - 1 PROVE FALSE
      OBVIOUS
    <3>1. x \in U /\ x \in Nat /\ m \in 0 .. x
      BY <1>1, <1>2
    <3> QED BY <1>2, <3>1 DEF Segment
  <2>2. IsFiniteSet(0 .. m - 1) /\ Cardinality(0 .. m - 1) = m
    <3>1. m \in Nat /\ m - 1 \in Int /\ 0 \in Int
      BY <1>1
    <3>2. /\ IsFiniteSet(0 .. m - 1)
          /\ Cardinality(0 .. m - 1) = IF 0 > m - 1 THEN 0 ELSE (m - 1) - 0 + 1
      BY <3>1, FS_Interval
    <3> QED BY <3>1, <3>2
  <2>3. k <= m
    <3>1. Cardinality(X) <= Cardinality(0 .. m - 1)
      BY <2>1, <2>2, FS_Subset
    <3> QED BY <2>2, <3>1
  <2> QED BY <1>1, <1>2, <2>3
<1> HIDE DEF k
<1>3. Segment(U \cup {k})
  BY <1>1, <1>2 DEF Segment
<1> QED BY <1>1, <1>3 DEF k

(* A transaction adds to the ids a runner knows those it queues, and these *)
(* continue the segment it knew.                                           *)
Counted(r, U) == Knows(r, U \cup StepIds(r.queue)) /\ Segment(U \cup StepIds(r.queue))

LEMMA QueuedIds ==
  ASSUME NEW S, NEW q \in Seq(S), NEW e \in S
  PROVE  StepIds(Append(q, e)) = StepIds(q) \cup ({e.row} \ {Wf})
<1>1. /\ DOMAIN Append(q, e) = DOMAIN q \cup {Len(q) + 1}
      /\ \A i \in DOMAIN q : Append(q, e)[i] = q[i]
      /\ Append(q, e)[Len(q) + 1] = e
  <2>1. Len(q) \in Nat /\ DOMAIN q = 1 .. Len(q)
    BY LenProperties
  <2>2. /\ Append(q, e) \in Seq(S) /\ Len(Append(q, e)) = Len(q) + 1
        /\ \A i \in 1 .. Len(q) : Append(q, e)[i] = q[i]
        /\ Append(q, e)[Len(q) + 1] = e
    BY AppendProperties
  <2>3. DOMAIN Append(q, e) = 1 .. Len(q) + 1
    BY <2>2, LenProperties
  <2> QED BY <2>1, <2>2, <2>3
<1> QED BY <1>1 DEF StepIds

LEMMA MutateCounted ==
  ASSUME NEW s \in Sessions, NEW r \in Running(s), NEW U \in SUBSET Nat, Counted(r, U),
         NEW kind, NEW row, NEW column, NEW value,
         [txn |-> s, kind |-> kind, row |-> row, column |-> column, value |-> value]
           \in Mutations,
         row = Wf \/ row \in DOMAIN r.rows.steps \/ row = StepNumber(r)
  PROVE  Counted(Mutate(r, kind, row, column, value), U)
<1> DEFINE e == [txn |-> s, kind |-> kind, row |-> row, column |-> column, value |-> value]
           new == Mutate(r, kind, row, column, value)
           Ids == StepIds(r.queue)
<1>1. e \in Mutations /\ e \in Own(s) /\ e.row = row
  BY DEF Own
<1>2. r.txn = s /\ r.rows \in Tables /\ r.queue \in Seq(Own(s))
  BY DEF Running
<1>3. new.rows = Applied(r.rows, e) /\ new.queue = Append(r.queue, e)
  BY <1>2 DEF Mutate, Running
<1> HIDE DEF e, new
<1>4. StepIds(new.queue) = Ids \cup ({row} \ {Wf})
  BY <1>1, <1>2, <1>3, QueuedIds
<1>5. DOMAIN new.rows.steps \subseteq DOMAIN r.rows.steps \cup ({row} \ {Wf})
  <2>1. CASE row # Wf
    BY <1>1, <1>2, <1>3, <2>1, AppliedSteps
  <2>2. CASE row = Wf
    <3>1. DOMAIN new.rows.steps \subseteq DOMAIN r.rows.steps \cup {Wf}
      BY <1>1, <1>2, <1>3, <2>2, AppliedSteps
    <3>2. new.rows \in Tables
      BY <1>1, <1>2, <1>3, AppliedTables
    <3>3. DOMAIN new.rows.steps \subseteq Nat
      BY <3>2, StepFacts DEF Tables
    <3> QED BY <3>1, <3>3
  <2> QED BY <2>1, <2>2
<1>6. DOMAIN r.rows.steps \subseteq U \cup Ids /\ Segment(U \cup Ids)
  BY DEF Counted, Knows
<1>7. Segment(U \cup StepIds(new.queue))
  <2>1. CASE row = Wf \/ row \in DOMAIN r.rows.steps
    <3>1. U \cup StepIds(new.queue) = U \cup Ids
      BY <1>4, <1>6, <2>1
    <3> QED BY <1>6, <3>1
  <2>2. CASE row = StepNumber(r) /\ row # Wf
    <3>1. IsFiniteSet(DOMAIN r.rows.steps)
      BY <1>2, StepFacts DEF Tables
    <3>2. U \cup Ids \in SUBSET Nat
      <4>1. \A i \in DOMAIN r.queue : r.queue[i] \in Mutations
        BY <1>2, LenProperties, ElementOfSeq DEF Own
      <4>2. \A i \in DOMAIN r.queue : r.queue[i].row \in Nat \cup {Wf}
        BY <4>1 DEF Mutations, UpdatesOf, StepMutations
      <4> QED BY <4>2 DEF StepIds
    <3>3. Segment((U \cup Ids) \cup {Cardinality(DOMAIN r.rows.steps)})
      BY <1>6, <3>1, <3>2, NextNumber
    <3>4. U \cup StepIds(new.queue) = (U \cup Ids) \cup {Cardinality(DOMAIN r.rows.steps)}
      BY <1>4, <2>2 DEF StepNumber
    <3> QED BY <3>3, <3>4
  <2> QED BY <2>1, <2>2
<1>8. Knows(new, U \cup StepIds(new.queue))
  BY <1>4, <1>5, <1>6 DEF Knows
<1> QED BY <1>7, <1>8 DEF Counted, new

LEMMA SetStateCounted ==
  ASSUME NEW s \in Sessions, NEW r \in Running(s), NEW U \in SUBSET Nat, Counted(r, U),
         NEW column, NEW value,
         \/ column = "status" /\ value \in WorkflowStatus
         \/ column = "progress" /\ value \in Nat \X Nat
         \/ column = "memory" /\ value \in SUBSET Sessions
  PROVE  Counted(SetState(r, column, value), U)
<1>1. [txn |-> s, kind |-> "update", row |-> Wf, column |-> column, value |-> value]
        \in Mutations
  BY DEF Mutations, UpdatesOf
<1> QED BY <1>1, MutateCounted DEF SetState

LEMMA ReconciledCounted ==
  ASSUME NEW s \in Sessions, NEW r \in Running(s), NEW U \in SUBSET Nat, Counted(r, U)
  PROVE  Counted(Reconciled(r), U)
<1> DEFINE now == Progress(StepStatusIn(r.rows.steps), DOMAIN r.rows.steps)
<1>1. now \in Nat \X Nat
  BY ProgressType DEF Running, Tables
<1>2. Reconciled(r) = r \/ Reconciled(r) = SetState(r, "progress", now)
  BY DEF Reconciled
<1> HIDE DEF now
<1> QED BY <1>1, <1>2, SetStateCounted

LEMMA EffectCounted ==
  ASSUME NEW s \in Sessions, NEW r \in Running(s), NEW c \in Calls, Accepts(r, c),
         NEW U \in SUBSET Nat, Counted(r, U)
  PROVE  Counted(Effect(r, c), U)
<1>1. CASE c.op \in StatusCalls
  <2>1. Effect(r, c) = SetState(r, "status", TargetOf(c.op, None))
    BY <1>1 DEF Effect, StatusCalls
  <2>2. TargetOf(c.op, None) \in WorkflowStatus
    BY <1>1 DEF StatusCalls, TargetOf, WorkflowStatus
  <2> QED BY <2>1, <2>2, SetStateCounted
<1>2. CASE c.op = "memorize"
  <2>1. Effect(r, c) = SetState(r, "memory", r.rows.memory \cup {s})
    BY <1>2 DEF Effect, StatusCalls, Running
  <2>2. r.rows.memory \cup {s} \in SUBSET Sessions
    BY DEF Running, Tables
  <2> QED BY <2>1, <2>2, SetStateCounted
<1>3. CASE c.op = "add_step"
  <2> DEFINE n == StepNumber(r)
  <2>1. Effect(r, c) = Mutate(r, "insert", n, "step", Begin)
    BY <1>3 DEF Effect, StatusCalls
  <2>2. r.rows.steps \in StepTables
    BY DEF Running, Tables
  <2>3. n \in Nat
    BY <2>2, StepFacts, FS_CardinalityType DEF StepNumber
  <2>4. [txn |-> s, kind |-> "insert", row |-> n, column |-> "step", value |-> Begin]
          \in Mutations
    BY <2>3 DEF Mutations, StepMutations
  <2>5. Counted(Mutate(r, "insert", n, "step", Begin), U)
    BY <2>4, MutateCounted
  <2> QED BY <2>1, <2>5
<1>4. CASE c.op = "transit"
  <2>0. c.to \in States
    BY <1>4 DEF Calls
  <2>1. r.rows.steps \in StepTables /\ c.step \in DOMAIN r.rows.steps
    BY <1>4 DEF Running, Tables, Accepts
  <2>2. c.step \in Nat
    BY <2>1, StepFacts
  <2>3. [txn |-> s, kind |-> "update", row |-> c.step, column |-> "step", value |-> c.to]
          \in Mutations
    BY <2>2, <2>0 DEF Mutations, StepMutations
  <2> DEFINE moved == Mutate(r, "update", c.step, "step", c.to)
  <2>4. moved \in Running(s) /\ Counted(moved, U)
    BY <2>1, <2>3, MutateRunning, MutateCounted
  <2>5. Effect(r, c) = Reconciled(r) \/ Effect(r, c) = Reconciled(moved)
    BY <1>4 DEF Effect, StatusCalls
  <2> HIDE DEF moved
  <2> QED BY <2>4, <2>5, ReconciledCounted
<1>5. CASE c.op \notin StatusCalls \cup {"memorize", "add_step", "transit"}
  BY <1>5 DEF Effect
<1> QED BY <1>1, <1>2, <1>3, <1>4, <1>5

LEMMA OutcomeCounted ==
  ASSUME NEW s \in Sessions, NEW r \in Idle, NEW calls \in Seq(Calls),
         NEW U \in SUBSET Nat, Segment(U), Knows(r, U)
  PROVE  Counted(Outcome(r, s, calls).runner, U)
<1> DEFINE Good(a) == a \in [runner : Running(s), raised : BOOLEAN] /\ Counted(a.runner, U)
<1>1. Len(calls) \in Nat /\ \A i \in 1 .. Len(calls) : calls[i] \in Calls
  BY LenProperties, ElementOfSeq
<1>2. PICK g : /\ Outcome(r, s, calls) = g[Len(calls)]
               /\ g[0] = Opened(r, s)
               /\ \A i \in 1 .. Len(calls) : g[i] = Called(g[i - 1], calls[i])
  BY <1>1, OutcomeUnfolded
<1> DEFINE T == {n \in Nat : n <= Len(calls) => Good(g[n])}
<1>3. 0 \in T
  <2> DEFINE first == [r EXCEPT !.txn = s]
  <2>1. <<>> \in Seq(Own(s)) /\ DOMAIN <<>> = {}
    OBVIOUS
  <2>2. first \in Running(s) /\ first.rows = r.rows /\ first.queue = <<>>
    BY <2>1 DEF Idle, Running
  <2>3. Opened(r, s) \in [runner : Running(s), raised : BOOLEAN] /\ Opened(r, s).runner = first
    BY <2>2 DEF Opened
  <2> HIDE DEF first
  <2>4. StepIds(first.queue) = {}
    BY <2>1, <2>2 DEF StepIds
  <2>5. Counted(first, U)
    BY <2>2, <2>4 DEF Counted, Knows
  <2> QED BY <1>2, <2>3, <2>5
<1>4. ASSUME NEW n \in Nat, n \in T PROVE n + 1 \in T
  <2> SUFFICES ASSUME n + 1 <= Len(calls) PROVE Good(g[n + 1])
    OBVIOUS
  <2>1. n + 1 \in 1 .. Len(calls) /\ Good(g[n])
    BY <1>1, <1>4
  <2>2. g[n + 1] = Called(g[n], calls[n + 1]) /\ calls[n + 1] \in Calls
    BY <1>1, <1>2, <2>1
  <2>3. CASE g[n].raised \/ ~Accepts(g[n].runner, calls[n + 1])
    <3>1. /\ g[n + 1] \in [runner : Running(s), raised : BOOLEAN]
          /\ g[n + 1].runner = g[n].runner
      BY <2>1, <2>2, <2>3 DEF Called
    <3> QED BY <2>1, <3>1
  <2>4. CASE ~g[n].raised /\ Accepts(g[n].runner, calls[n + 1])
    <3> DEFINE before == g[n].runner
               after == Effect(before, calls[n + 1])
    <3>1. before \in Running(s) /\ Counted(before, U)
      BY <2>1
    <3>2. after \in Running(s) /\ Counted(after, U)
      BY <2>2, <2>4, <3>1, EffectRunning, EffectCounted
    <3>3. g[n + 1] = [g[n] EXCEPT !.runner = after]
      BY <2>1, <2>2, <2>4 DEF Called
    <3> HIDE DEF before, after
    <3>4. /\ g[n + 1] \in [runner : Running(s), raised : BOOLEAN]
          /\ g[n + 1].runner = after
      BY <2>1, <3>2, <3>3
    <3> QED BY <3>2, <3>4
  <2> QED BY <2>3, <2>4
<1> HIDE DEF T
<1>5. Nat \subseteq T
  BY <1>3, <1>4, Induction
<1> QED BY <1>1, <1>2, <1>5 DEF T

(* What an action on a runner does to the numbers.                         *)
LEMMA WorkCounts ==
  ASSUME TypeInv, NEW s \in Sessions, NEW r \in Runners,
         NEW programs \in Seq(Seq(Calls)), programs # <<>>, Work(s, r, programs),
         NEW U \in SUBSET Nat, Segment(U), r \in Idle => Knows(r, U)
  PROVE  \/ /\ pc' = [pc EXCEPT ![s] = "failed"] /\ made' = made
            /\ IF s \in Requests THEN cache' \notin Idle ELSE cache' = cache
         \/ /\ pc' = [pc EXCEPT ![s] = "persisting"]
            /\ \E drained \in Seq(Own(s)) :
                 /\ made' = [made EXCEPT ![s] = made[s] \o drained]
                 /\ Segment(U \cup StepIds(drained))
                 /\ IF s \in Requests THEN Knows(cache', U \cup StepIds(drained))
                    ELSE cache' = cache
<1>1. CASE r.txn # None
  <2>1. r \notin Idle
    BY <1>1 DEF Idle
  <2> QED BY <1>1, <2>1 DEF Work, Keeps, Fails
<1>2. CASE r.txn = None
  <2> DEFINE a == Outcome(r, s, Head(programs))
             left == LeftBlock(a)
  <2>1. r \in Idle /\ Head(programs) \in Seq(Calls)
    BY <1>2, RunnerCases, HeadTailProperties
  <2>2. a \in [runner : Running(s), raised : BOOLEAN] /\ Counted(a.runner, U)
    BY <2>1, OutcomeRunning, OutcomeCounted
  <2>3. Enter(s, r, programs)
    BY <1>2 DEF Work
  <2>4. CASE a.raised
    <3>1. left = a.runner /\ a.runner \in Running(s)
      BY <2>2, <2>4 DEF LeftBlock
    <3>2. left \notin Idle
      BY <3>1 DEF Idle, Running
    <3>3. Keeps(s, left) /\ Fails(s) /\ made' = made
      BY <2>3, <2>4 DEF Enter
    <3> HIDE DEF a, left
    <3> QED BY <3>2, <3>3 DEF Keeps, Fails
  <2>5. CASE ~a.raised
    <3> DEFINE clean == [left EXCEPT !.queue = <<>>]
    <3>1. left = [a.runner EXCEPT !.txn = None] /\ a.runner \in Running(s)
      BY <2>2, <2>5 DEF LeftBlock
    <3>2. /\ left.queue = a.runner.queue /\ left.queue \in Seq(Own(s))
          /\ clean.rows = a.runner.rows
      <4> HIDE DEF a, left
      <4> QED BY <3>1 DEF Running
    <3>3. /\ Keeps(s, clean) /\ made' = [made EXCEPT ![s] = made[s] \o left.queue]
          /\ pc' = [pc EXCEPT ![s] = "persisting"]
      BY <2>3, <2>5 DEF Enter
    <3> HIDE DEF a, left, clean
    <3>4. Segment(U \cup StepIds(left.queue)) /\ Knows(clean, U \cup StepIds(left.queue))
      BY <2>2, <3>2 DEF Counted, Knows
    <3> QED BY <3>2, <3>3, <3>4 DEF Keeps
  <2> QED BY <2>4, <2>5
<1> QED BY <1>1, <1>2

LEMMA IdsConcat ==
  ASSUME NEW S, NEW p \in Seq(S), NEW q \in Seq(S)
  PROVE  StepIds(p \o q) = StepIds(p) \cup StepIds(q)
<1>1. Len(p) \in Nat /\ DOMAIN p = 1 .. Len(p) /\ Len(q) \in Nat /\ DOMAIN q = 1 .. Len(q)
  BY LenProperties
<1>2. /\ p \o q \in Seq(S) /\ Len(p \o q) = Len(p) + Len(q)
      /\ \A i \in 1 .. Len(p) + Len(q) :
           (p \o q)[i] = IF i <= Len(p) THEN p[i] ELSE q[i - Len(p)]
  BY ConcatProperties
<1>3. DOMAIN (p \o q) = 1 .. Len(p) + Len(q)
  BY <1>2, LenProperties
<1>4. \A i \in DOMAIN (p \o q) : \/ i \in DOMAIN p /\ (p \o q)[i] = p[i]
                                 \/ i - Len(p) \in DOMAIN q /\ (p \o q)[i] = q[i - Len(p)]
  BY <1>1, <1>2, <1>3
<1>5. \A i \in DOMAIN p : i \in DOMAIN (p \o q) /\ (p \o q)[i] = p[i]
  BY <1>1, <1>2, <1>3
<1>6. \A i \in DOMAIN q : i + Len(p) \in DOMAIN (p \o q) /\ (p \o q)[i + Len(p)] = q[i]
  BY <1>1, <1>2, <1>3
<1>7. StepIds(p \o q) \subseteq StepIds(p) \cup StepIds(q)
  BY <1>4 DEF StepIds
<1>8. StepIds(p) \cup StepIds(q) \subseteq StepIds(p \o q)
  BY <1>5, <1>6 DEF StepIds
<1> QED BY <1>7, <1>8

LEMMA UsedNumbers ==
  ASSUME TypeInv
  PROVE  /\ Used \in SUBSET Nat
         /\ \A s \in Sessions : StepIds(made[s]) \in SUBSET Nat
<1>1. ASSUME NEW s \in Sessions PROVE StepIds(made[s]) \in SUBSET Nat
  BY OwnFacts DEF StepIds, Mutations, UpdatesOf, StepMutations
<1>2. DOMAIN db.steps \subseteq Nat
  BY StepFacts DEF TypeInv, Tables
<1> QED BY <1>1, <1>2 DEF Used, LostIds, Sessions

LEMMA SegmentUnion ==
  ASSUME NEW U, NEW V, Segment(U), Segment(V) PROVE Segment(U \cup V)
BY DEF Segment

(* The ids in use only grow, and other sessions keep what they know.       *)
LEMMA NumbersElsewhere ==
  ASSUME NumberInv, NEW t \in Sessions, pc'[t] = pc[t], made'[t] = made[t],
         pc[t] = "loaded" => view'[t] = view[t],
         Used \subseteq Used', Segment(Used')
  PROVE  /\ pc'[t] = "idle" => made'[t] = <<>>
         /\ pc'[t] = "loaded" => Knows(view[t], Used)'
         /\ pc'[t] = "persisting" => Segment(Used \cup StepIds(made[t]))'
<1>1. pc'[t] = "idle" => made'[t] = <<>>
  BY DEF NumberInv
<1>2. ASSUME pc'[t] = "loaded" PROVE Knows(view'[t], Used')
  BY <1>2 DEF NumberInv, Knows
<1>3. ASSUME pc'[t] = "persisting" PROVE Segment(Used' \cup StepIds(made'[t]))
  <2>1. Segment(Used \cup StepIds(made[t]))
    BY <1>3 DEF NumberInv
  <2>2. Segment(Used' \cup (Used \cup StepIds(made[t])))
    BY <2>1, SegmentUnion
  <2>3. Used' \cup (Used \cup StepIds(made[t])) = Used' \cup StepIds(made'[t])
    OBVIOUS
  <2> QED BY <2>2, <2>3
<1>4. StepIds(made'[t]) = StepIds(made[t])'
  BY DEF StepIds
<1>5. Knows(view'[t], Used') = Knows(view[t], Used)'
  BY DEF Knows
<1>6. Segment(Used' \cup StepIds(made'[t])) = Segment(Used \cup StepIds(made[t]))'
  BY <1>4 DEF Segment
<1> QED BY <1>1, <1>2, <1>3, <1>5, <1>6

LEMMA NumbersWork ==
  ASSUME IInv, NumberInv, NEW s \in Sessions, NEW r \in Runners,
         NEW programs \in Seq(Seq(Calls)), programs # <<>>, Work(s, r, programs),
         \/ pc[s] = "idle" \/ (s \in Requests /\ pc[s] \in {"loaded", "persisting"}),
         r \in Idle => Knows(r, Used)
  PROVE  NumberInv'
<1>1. /\ UNCHANGED <<db, at>> /\ view' = [view EXCEPT ![s] = None]
      /\ \A t \in Sessions \ {s} : pc'[t] = pc[t] /\ made'[t] = made[t]
      /\ pc'[s] \in {"failed", "persisting"} /\ pc[s] # "done"
  <2>1. \/ pc' = [pc EXCEPT ![s] = "failed"] /\ made' = made
        \/ /\ pc' = [pc EXCEPT ![s] = "persisting"]
           /\ \E drained \in Seq(Own(s)) : made' = [made EXCEPT ![s] = made[s] \o drained]
    BY WorkDoes DEF IInv
  <2>2. UNCHANGED <<db, at>> /\ view' = [view EXCEPT ![s] = None]
    BY WorkDoes DEF IInv
  <2> QED BY <2>1, <2>2 DEF IInv, TypeInv
<1>2. Used \in SUBSET Nat /\ Segment(Used)
  BY UsedNumbers DEF IInv, NumberInv
<1>3. s \in Requests => StepIds(made[s]) \subseteq LostIds
  BY <1>1 DEF LostIds
<1>4. s \notin Requests => made[s] = <<>>
  BY DEF NumberInv
<1>5. \A t \in Sessions \ {s} : StepIds(made[t])' = StepIds(made[t])
  BY <1>1 DEF StepIds
<1>6. CASE /\ pc' = [pc EXCEPT ![s] = "failed"] /\ made' = made
           /\ IF s \in Requests THEN cache' \notin Idle ELSE cache' = cache
  <2>1. pc'[s] = "failed"
    BY <1>6 DEF IInv, TypeInv
  <2>2. LostIds' = LostIds
    <3>1. {q \in Requests : pc'[q] # "done"} = {q \in Requests : pc[q] # "done"}
      BY <1>1, <2>1 DEF Sessions
    <3> QED BY <1>6, <3>1 DEF LostIds, StepIds
  <2>3. Used' = Used
    BY <1>1, <2>2 DEF Used
  <2>4. Segment(Used)'
    BY <1>2, <2>3 DEF Segment
  <2>5. ASSUME InUse', cache' \in Idle PROVE Knows(cache', Used')
    <3>1. s \notin Requests /\ cache' = cache
      BY <1>6, <2>5
    <3>2. InUse
      BY <1>1, <2>5, <3>1 DEF InUse, Sessions
    <3> QED BY <2>3, <2>5, <3>1, <3>2 DEF NumberInv
  <2>6. ASSUME NEW t \in Sessions
        PROVE  /\ pc'[t] = "idle" => made'[t] = <<>>
               /\ pc'[t] = "loaded" => Knows(view[t], Used)'
               /\ pc'[t] = "persisting" => Segment(Used \cup StepIds(made[t]))'
    <3>1. CASE t = s
      BY <2>1, <3>1
    <3>2. CASE t # s
      <4>1. view'[t] = view[t]
        BY <1>1, <3>2 DEF IInv, TypeInv
      <4>2. Used \subseteq Used' /\ Segment(Used')
        BY <1>2, <2>3
      <4> QED BY <1>1, <3>2, <4>1, <4>2, NumbersElsewhere
    <3> QED BY <3>1, <3>2
  <2>7. Knows(cache', Used') = Knows(cache, Used)'
    BY DEF Knows
  <2> QED BY <2>4, <2>5, <2>6, <2>7 DEF NumberInv
<1>7. CASE /\ pc' = [pc EXCEPT ![s] = "persisting"]
           /\ \E drained \in Seq(Own(s)) :
                /\ made' = [made EXCEPT ![s] = made[s] \o drained]
                /\ Segment(Used \cup StepIds(drained))
                /\ IF s \in Requests THEN Knows(cache', Used \cup StepIds(drained))
                   ELSE cache' = cache
  <2>1. PICK drained \in Seq(Own(s)) :
          /\ made' = [made EXCEPT ![s] = made[s] \o drained]
          /\ Segment(Used \cup StepIds(drained))
          /\ IF s \in Requests THEN Knows(cache', Used \cup StepIds(drained))
             ELSE cache' = cache
    BY <1>7
  <2> DEFINE New == StepIds(drained)
  <2>2. made[s] \in Seq(Own(s)) /\ made'[s] = made[s] \o drained
    BY <2>1 DEF IInv, TypeInv, SessionTyped
  <2>3. StepIds(made'[s]) = StepIds(made[s]) \cup New
    BY <2>2, IdsConcat
  <2>4. StepIds(<<>>) = {}
    BY DEF StepIds
  <2>5. LostIds' = LostIds \cup (IF s \in Requests THEN New ELSE {})
    <3>1. {q \in Requests : pc'[q] # "done"} = {q \in Requests : pc[q] # "done"}
      BY <1>1 DEF Sessions
    <3> DEFINE before == {q \in Requests : pc[q] # "done"}
    <3>2. LostIds' = UNION {StepIds(made'[q]) : q \in before}
      BY <3>1 DEF LostIds, StepIds
    <3>3. \A q \in before : q # s => StepIds(made'[q]) = StepIds(made[q])
      BY <1>1 DEF Sessions
    <3>4. LostIds = UNION {StepIds(made[q]) : q \in before} /\ (s \in before <=> s \in Requests)
      BY <1>1 DEF LostIds
    <3> HIDE DEF New, before
    <3>5. LostIds' \subseteq LostIds \cup (IF s \in before THEN New ELSE {})
      BY <2>3, <3>2, <3>3, <3>4
    <3>6. LostIds \cup (IF s \in before THEN New ELSE {}) \subseteq LostIds'
      BY <2>3, <3>2, <3>3, <3>4
    <3> QED BY <3>4, <3>5, <3>6
  <2>6. Used' = Used \cup (IF s \in Requests THEN New ELSE {})
    BY <1>1, <2>5 DEF Used
  <2>7. Used \subseteq Used' /\ Segment(Used')
    BY <1>2, <2>1, <2>6
  <2>8. Used' \cup StepIds(made'[s]) = Used \cup New
    <3> HIDE DEF New
    <3> QED BY <1>3, <1>4, <2>3, <2>4, <2>6 DEF Used
  <2>9. ASSUME InUse', cache' \in Idle PROVE Knows(cache', Used')
    <3>1. CASE s \in Requests
      BY <2>1, <2>6, <3>1
    <3>2. CASE s \notin Requests
      <4>1. cache' = cache
        BY <2>1, <3>2
      <4>2. InUse
        BY <1>1, <2>9, <3>2, <4>1 DEF InUse, Sessions
      <4> QED BY <2>7, <2>9, <4>1, <4>2 DEF NumberInv, Knows
    <3> QED BY <3>1, <3>2
  <2> HIDE DEF New
  <2>10. ASSUME NEW t \in Sessions
        PROVE  /\ pc'[t] = "idle" => made'[t] = <<>>
               /\ pc'[t] = "loaded" => Knows(view[t], Used)'
               /\ pc'[t] = "persisting" => Segment(Used \cup StepIds(made[t]))'
    <3>1. CASE t = s
      <4>1. Segment(Used' \cup StepIds(made'[s]))
        BY <2>1, <2>8 DEF New
      <4>2. StepIds(made'[s]) = StepIds(made[s])'
        BY DEF StepIds
      <4>3. Segment(Used \cup StepIds(made[s]))'
        BY <4>1, <4>2 DEF Segment
      <4>4. pc'[s] = "persisting"
        BY <1>7 DEF IInv, TypeInv
      <4> QED BY <3>1, <4>3, <4>4
    <3>2. CASE t # s
      <4>1. view'[t] = view[t]
        BY <1>1, <3>2 DEF IInv, TypeInv
      <4> QED BY <1>1, <2>7, <3>2, <4>1, NumbersElsewhere
    <3> QED BY <3>1, <3>2
  <2>11. Knows(cache', Used') = Knows(cache, Used)' /\ Segment(Used)'
    BY <2>7 DEF Knows, Segment
  <2> QED BY <2>9, <2>10, <2>11 DEF NumberInv
<1> QED BY <1>2, <1>6, <1>7, WorkCounts DEF IInv

LEMMA NumbersKept ==
  ASSUME IInv, NumberInv, UNCHANGED <<db, made>>,
         \A t \in Sessions : pc'[t] = pc[t] \/ (pc'[t] = "failed" /\ pc[t] # "done"),
         cache' = cache \/ (cache' = None /\ \A q \in Requests : pc'[q] # "persisting"),
         \A t \in Sessions : pc'[t] = "loaded" => view'[t] = view[t]
  PROVE  NumberInv'
<1>1. LostIds' = LostIds
  <2>1. {q \in Requests : pc'[q] # "done"} = {q \in Requests : pc[q] # "done"}
    BY DEF Sessions
  <2> QED BY <2>1 DEF LostIds, StepIds
<1>2. Used' = Used
  BY <1>1 DEF Used
<1>3. Used \subseteq Used' /\ Segment(Used')
  BY <1>2 DEF NumberInv
<1>4. ASSUME InUse', cache' \in Idle PROVE Knows(cache', Used')
  <2>1. InUse /\ cache' = cache
    BY <1>4 DEF InUse, Sessions
  <2> QED BY <1>2, <1>4, <2>1 DEF NumberInv
<1>5. ASSUME NEW t \in Sessions
      PROVE  /\ pc'[t] = "idle" => made'[t] = <<>>
             /\ pc'[t] = "loaded" => Knows(view[t], Used)'
             /\ pc'[t] = "persisting" => Segment(Used \cup StepIds(made[t]))'
  <2>1. CASE pc'[t] = pc[t]
    BY <1>3, <2>1, NumbersElsewhere
  <2>2. CASE pc'[t] = "failed"
    BY <2>2
  <2> QED BY <2>1, <2>2
<1>6. Knows(cache', Used') = Knows(cache, Used)' /\ Segment(Used)'
  BY <1>3 DEF Knows, Segment
<1> QED BY <1>4, <1>5, <1>6 DEF NumberInv

LEMMA NumbersMiss ==
  ASSUME IInv, NumberInv, NEW q \in Requests, NEW event \in Events, Miss(q, event)
  PROVE  NumberInv'
<1>1. /\ UNCHANGED <<db, made, cache>> /\ pc[q] = "idle" /\ q \in Sessions
      /\ \A t \in Sessions : pc'[t] = IF t = q THEN "loaded" ELSE pc[t]
      /\ \A t \in Sessions : view'[t] = IF t = q THEN Loaded(db) ELSE view[t]
  BY DEF Miss, Sessions, IInv, TypeInv
<1>2. LostIds' = LostIds
  <2>1. {p \in Requests : pc'[p] # "done"} = {p \in Requests : pc[p] # "done"}
    BY <1>1 DEF Sessions
  <2> QED BY <1>1, <2>1 DEF LostIds, StepIds
<1>3. Used' = Used
  BY <1>1, <1>2 DEF Used
<1>4. Used \subseteq Used' /\ Segment(Used')
  BY <1>3 DEF NumberInv
<1>5. ASSUME InUse', cache' \in Idle PROVE Knows(cache', Used')
  <2>1. InUse /\ cache' = cache
    BY <1>1, <1>5 DEF InUse, Sessions
  <2> QED BY <1>3, <1>5, <2>1 DEF NumberInv
<1>6. ASSUME NEW t \in Sessions
      PROVE  /\ pc'[t] = "idle" => made'[t] = <<>>
             /\ pc'[t] = "loaded" => Knows(view[t], Used)'
             /\ pc'[t] = "persisting" => Segment(Used \cup StepIds(made[t]))'
  <2>1. CASE t # q
    BY <1>1, <1>4, <2>1, NumbersElsewhere
  <2>2. CASE t = q
    <3>1. Loaded(db).rows.steps = db.steps
      BY DEF Loaded
    <3>2. Knows(Loaded(db), Used)
      BY <3>1 DEF Knows, Used
    <3>3. Knows(view'[q], Used')
      BY <1>1, <1>3, <3>2
    <3>4. Knows(view'[q], Used') = Knows(view[q], Used)'
      BY DEF Knows
    <3> QED BY <1>1, <2>2, <3>3, <3>4
  <2> QED BY <2>1, <2>2
<1>7. Knows(cache', Used') = Knows(cache, Used)' /\ Segment(Used)'
  BY <1>4 DEF Knows, Segment
<1> QED BY <1>5, <1>6, <1>7 DEF NumberInv

LEMMA NumbersCommit ==
  ASSUME IInv, NumberInv, NEW s \in Sessions, Commit(s)
  PROVE  NumberInv'
<1>1. /\ pc[s] = "persisting" /\ UNCHANGED <<made, cache, view>>
      /\ db' = AllApplied(db, made[s])
      /\ \A t \in Sessions : pc'[t] = IF t = s THEN "done" ELSE pc[t]
  BY DEF Commit, Drained, IInv, TypeInv
<1>2. made[s] \in Seq(Mutations) /\ db \in Tables
  BY OwnFacts DEF IInv, TypeInv
<1>3. DOMAIN db'.steps = DOMAIN db.steps \cup StepIds(made[s])
  <2> DEFINE es == made[s]
  <2>1. /\ DOMAIN db'.steps \subseteq DOMAIN db.steps \cup {es[i].row : i \in DOMAIN es}
        /\ \A i \in DOMAIN es : es[i].row # Wf => es[i].row \in DOMAIN db'.steps
        /\ \A n \in DOMAIN db.steps : n \in DOMAIN db'.steps
    BY <1>1, <1>2, AllAppliedSteps
  <2>2. db' \in Tables
    BY <1>1, <1>2, AllAppliedTables
  <2>3. Wf \notin DOMAIN db'.steps
    BY <2>2, StepFacts DEF Tables
  <2> HIDE DEF es
  <2>4. DOMAIN db'.steps = DOMAIN db.steps \cup StepIds(es)
    BY <2>1, <2>3 DEF StepIds
  <2> QED BY <2>4 DEF es
<1>4. Used' = Used \cup StepIds(made[s])
  <2> DEFINE before == {q \in Requests : pc[q] # "done"}
  <2>1. {q \in Requests : pc'[q] # "done"} = before \ {s}
    BY <1>1 DEF Sessions
  <2>2. LostIds' = UNION {StepIds(made[q]) : q \in before \ {s}}
    BY <1>1, <2>1 DEF LostIds, StepIds
  <2>3. LostIds = UNION {StepIds(made[q]) : q \in before}
    BY DEF LostIds
  <2> HIDE DEF before
  <2>4. LostIds' \cup StepIds(made[s]) = LostIds \cup StepIds(made[s])
    BY <2>2, <2>3
  <2> QED BY <1>3, <2>4 DEF Used
<1>5. Used \subseteq Used' /\ Segment(Used')
  BY <1>1, <1>4 DEF NumberInv
<1>6. ASSUME InUse', cache' \in Idle PROVE Knows(cache', Used')
  <2>1. InUse /\ cache' = cache
    BY <1>1, <1>6 DEF InUse, Sessions
  <2> QED BY <1>5, <1>6, <2>1 DEF NumberInv, Knows
<1>7. ASSUME NEW t \in Sessions
      PROVE  /\ pc'[t] = "idle" => made'[t] = <<>>
             /\ pc'[t] = "loaded" => Knows(view[t], Used)'
             /\ pc'[t] = "persisting" => Segment(Used \cup StepIds(made[t]))'
  <2>1. CASE t # s
    BY <1>1, <1>5, <2>1, NumbersElsewhere
  <2>2. CASE t = s
    BY <1>1, <2>2
  <2> QED BY <2>1, <2>2
<1>8. Knows(cache', Used') = Knows(cache, Used)' /\ Segment(Used)'
  BY <1>5 DEF Knows, Segment
<1> QED BY <1>6, <1>7, <1>8 DEF NumberInv

LEMMA NumbersNext == IInv /\ NumberInv /\ [Next]_vars => NumberInv'
<1> SUFFICES ASSUME IInv, NumberInv, [Next]_vars PROVE NumberInv'
  OBVIOUS
<1>1. CASE UNCHANGED vars
  <2>1. UNCHANGED <<db, pc, made, cache, view>>
    BY <1>1 DEF vars
  <2> QED BY <2>1, NumbersKept
<1>2. ASSUME NEW c \in Commands, NEW order \in Orders, Command(c, order) PROVE NumberInv'
  <2>1. c \in Sessions /\ pc[c] = "idle" /\ Work(c, Loaded(db), <<order>>)
    BY <1>2 DEF Command, Sessions
  <2>2. Loaded(db) \in Runners /\ <<order>> \in Seq(Seq(Calls)) /\ <<order>> # <<>>
    BY LoadedIdle DEF IInv, Runners
  <2>3. Knows(Loaded(db), Used)
    BY DEF Knows, Used, Loaded
  <2> QED BY <2>1, <2>2, <2>3, NumbersWork
<1>3. ASSUME NEW q \in Requests, NEW event \in Events, Event(q, event) PROVE NumberInv'
  <2>1. /\ q \in Sessions /\ pc[q] = "idle" /\ cache \in Runners /\ cache # None
        /\ Work(q, cache, event)
    BY <1>3 DEF Event, Sessions, IInv, TypeInv
  <2>2. event \in Seq(Seq(Calls)) /\ event # <<>>
    OBVIOUS
  <2>3. cache \in Idle => Knows(cache, Used)
    BY <2>1 DEF NumberInv, InUse
  <2> QED BY <2>1, <2>2, <2>3, NumbersWork
<1>4. ASSUME NEW s \in Sessions, DatabaseError(s) PROVE NumberInv'
  <2>1. /\ UNCHANGED <<db, made, cache, view>> /\ pc[s] = "persisting"
        /\ \A t \in Sessions : pc'[t] = IF t = s THEN "failed" ELSE pc[t]
    BY <1>4 DEF DatabaseError, Fails, IInv, TypeInv
  <2> QED BY <2>1, NumbersKept
<1>5. ASSUME Restart PROVE NumberInv'
  <2>1. /\ UNCHANGED <<db, made>> /\ cache' = None
        /\ \A t \in Sessions :
             pc'[t] = IF t \in Requests /\ pc[t] \in {"loaded", "persisting"} THEN "failed"
                      ELSE pc[t]
    BY <1>5 DEF Restart
  <2>2. \A t \in Sessions : pc[t] = "loaded" => t \in Requests
    BY DEF IInv, TypeInv, SessionTyped
  <2>3. \A q \in Requests : pc'[q] # "persisting"
    BY <2>1 DEF Sessions
  <2> QED BY <2>1, <2>2, <2>3, NumbersKept
<1>6. ASSUME NEW q \in Requests, LoadedEvent(q) PROVE NumberInv'
  <2>1. q \in Sessions /\ pc[q] = "loaded" /\ Work(q, view[q], todo[q])
    BY <1>6 DEF LoadedEvent, Sessions
  <2>2. view[q] \in Runners /\ todo[q] \in Seq(Seq(Calls)) /\ todo[q] # <<>>
    BY <2>1 DEF IInv, TypeInv, SessionTyped, Runners
  <2>3. Knows(view[q], Used)
    BY <2>1 DEF NumberInv
  <2> QED BY <2>1, <2>2, <2>3, NumbersWork
<1>7. ASSUME NEW q \in Requests, NextTrigger(q) PROVE NumberInv'
  <2>1. /\ q \in Sessions /\ pc[q] = "persisting" /\ Work(q, cache, todo[q])
        /\ todo[q] # <<>>
    BY <1>7 DEF NextTrigger, Drained, Sessions
  <2>2. cache \in Runners /\ todo[q] \in Seq(Seq(Calls))
    BY <2>1 DEF IInv, TypeInv, SessionTyped
  <2>3. cache \in Idle => Knows(cache, Used)
    BY <2>1 DEF NumberInv, InUse
  <2> QED BY <2>1, <2>2, <2>3, NumbersWork
<1>8. ASSUME NEW s \in Sessions, Persist(s) PROVE NumberInv'
  <2>1. /\ UNCHANGED <<db, made, cache, view>> /\ pc[s] = "persisting"
        /\ pc' = pc \/ pc' = [pc EXCEPT ![s] = "failed"]
    BY <1>8 DEF Persist, Writing, Fails
  <2>2. \A t \in Sessions : pc'[t] = pc[t] \/ (pc'[t] = "failed" /\ pc[t] # "done")
    BY <2>1 DEF IInv, TypeInv
  <2> QED BY <2>1, <2>2, NumbersKept
<1> QED BY <1>1, <1>2, <1>3, <1>4, <1>5, <1>6, <1>7, <1>8, NumbersMiss, NumbersCommit
        DEF Next, Advance

LEMMA NumbersInit == Init => NumberInv
<1> SUFFICES ASSUME Init PROVE NumberInv
  OBVIOUS
<1>1. /\ cache = None /\ \A s \in Sessions : pc[s] = "idle" /\ made[s] = <<>>
      /\ DOMAIN db.steps = {}
  BY DEF Init, NewWorkflow
<1>2. StepIds(<<>>) = {}
  BY DEF StepIds
<1>3. LostIds = {}
  BY <1>1, <1>2 DEF LostIds, Sessions
<1>4. Used = {} /\ ~InUse
  BY <1>1, <1>3 DEF Used, InUse, Sessions
<1> QED BY <1>1, <1>4 DEF NumberInv, Segment

(* The steps in the tables are numbered without gaps, but for the numbers  *)
(* a request of the event handler took and did not, or did not yet, write  *)
(* (_add_step counts the steps the runner knows).                          *)
THEOREM StepNumbers == Spec => []NumbersWithoutGaps
<1>1. ASSUME IInv, NumberInv PROVE NumbersWithoutGaps
  <2> SUFFICES ASSUME NEW n \in DOMAIN db.steps, NEW m \in 0 .. n
               PROVE  m \in DOMAIN db.steps \/ m \in LostSteps
    BY DEF NumbersWithoutGaps
  <2>1. m \in Used
    BY <1>1 DEF NumberInv, Segment, Used
  <2>2. LostIds \subseteq LostSteps
    BY DEF LostIds, LostSteps, StepIds
  <2> QED BY <2>1, <2>2 DEF Used
<1>2. Init => NumberInv BY NumbersInit
<1>3. IInv /\ NumberInv /\ [Next]_vars => NumberInv' BY NumbersNext
<1>4. IInv /\ NumberInv => NumbersWithoutGaps BY <1>1
<1> QED BY <1>2, <1>3, <1>4, SessionsInvariant, PTL DEF Spec
-----------------------------------------------------------------------------
(* Starting: what a queue of mutations holds, and what a runner may        *)
(* believe of a workflow that nobody has started yet.                      *)
Sets(q)     == \E i \in DOMAIN q : q[i].column = "status"
NotReset(q) == \A i \in DOMAIN q : q[i].column = "status" => q[i].value # "NEW"
Begun(q)    == \E i \in DOMAIN q : q[i].column = "status" /\ q[i].value = "ACTIVE"
Moves(q)    == \E i \in DOMAIN q : q[i].column = "step"
First(q)    == \E i \in DOMAIN q : q[i].kind = "insert" /\ q[i].row = 0

LEMMA HoldsConcat ==
  ASSUME NEW S, NEW p \in Seq(S), NEW q \in Seq(S)
  PROVE  /\ Sets(p \o q) <=> Sets(p) \/ Sets(q)
         /\ NotReset(p \o q) <=> NotReset(p) /\ NotReset(q)
         /\ Begun(p \o q) <=> Begun(p) \/ Begun(q)
         /\ Moves(p \o q) <=> Moves(p) \/ Moves(q)
         /\ First(p \o q) <=> First(p) \/ First(q)
<1>1. Len(p) \in Nat /\ DOMAIN p = 1 .. Len(p) /\ Len(q) \in Nat /\ DOMAIN q = 1 .. Len(q)
  BY LenProperties
<1>2. /\ p \o q \in Seq(S) /\ Len(p \o q) = Len(p) + Len(q)
      /\ \A i \in 1 .. Len(p) + Len(q) :
           (p \o q)[i] = IF i <= Len(p) THEN p[i] ELSE q[i - Len(p)]
  BY ConcatProperties
<1>3. DOMAIN (p \o q) = 1 .. Len(p) + Len(q)
  BY <1>2, LenProperties
<1> DEFINE pq == p \o q
<1>4. \A i \in DOMAIN pq : \/ i \in DOMAIN p /\ pq[i] = p[i]
                           \/ i - Len(p) \in DOMAIN q /\ pq[i] = q[i - Len(p)]
  BY <1>1, <1>2, <1>3
<1>5. \A i \in DOMAIN p : i \in DOMAIN pq /\ pq[i] = p[i]
  BY <1>1, <1>2, <1>3
<1>6. \A i \in DOMAIN q : i + Len(p) \in DOMAIN pq /\ pq[i + Len(p)] = q[i]
  BY <1>1, <1>2, <1>3
<1> HIDE DEF pq
<1>7. Sets(pq) <=> Sets(p) \/ Sets(q)
  BY <1>4, <1>5, <1>6 DEF Sets
<1>8. NotReset(pq) <=> NotReset(p) /\ NotReset(q)
  BY <1>4, <1>5, <1>6 DEF NotReset
<1>9. Begun(pq) <=> Begun(p) \/ Begun(q)
  BY <1>4, <1>5, <1>6 DEF Begun
<1>10. Moves(pq) <=> Moves(p) \/ Moves(q)
  BY <1>4, <1>5, <1>6 DEF Moves
<1>11. First(pq) <=> First(p) \/ First(q)
  BY <1>4, <1>5, <1>6 DEF First
<1> QED BY <1>7, <1>8, <1>9, <1>10, <1>11 DEF pq

LEMMA HoldsNone ==
  ~Sets(<<>>) /\ NotReset(<<>>) /\ ~Begun(<<>>) /\ ~Moves(<<>>) /\ ~First(<<>>)
BY DEF Sets, NotReset, Begun, Moves, First

LEMMA HoldsAppend ==
  ASSUME NEW S, NEW q \in Seq(S), NEW e \in S
  PROVE  LET p == Append(q, e)
         IN /\ Sets(p) <=> Sets(q) \/ e.column = "status"
            /\ NotReset(p) <=> NotReset(q) /\ (e.column = "status" => e.value # "NEW")
            /\ Begun(p) <=> Begun(q) \/ (e.column = "status" /\ e.value = "ACTIVE")
            /\ Moves(p) <=> Moves(q) \/ e.column = "step"
            /\ First(p) <=> First(q) \/ (e.kind = "insert" /\ e.row = 0)
<1> DEFINE p == Append(q, e)
           n == Len(q) + 1
<1>1. /\ DOMAIN p = DOMAIN q \cup {n} /\ \A i \in DOMAIN q : p[i] = q[i]
      /\ p[n] = e
  <2>1. Len(q) \in Nat /\ DOMAIN q = 1 .. Len(q)
    BY LenProperties
  <2>2. /\ p \in Seq(S) /\ Len(p) = Len(q) + 1
        /\ \A i \in 1 .. Len(q) : p[i] = q[i]
        /\ p[n] = e
    BY AppendProperties
  <2>3. DOMAIN p = 1 .. Len(q) + 1
    BY <2>2, LenProperties
  <2> QED BY <2>1, <2>2, <2>3
<1> HIDE DEF p, n
<1>2. Sets(p) <=> Sets(q) \/ e.column = "status"
  BY <1>1 DEF Sets
<1>3. NotReset(p) <=> NotReset(q) /\ (e.column = "status" => e.value # "NEW")
  BY <1>1 DEF NotReset
<1>4. Begun(p) <=> Begun(q) \/ (e.column = "status" /\ e.value = "ACTIVE")
  BY <1>1 DEF Begun
<1>5. Moves(p) <=> Moves(q) \/ e.column = "step"
  BY <1>1 DEF Moves
<1>6. First(p) <=> First(q) \/ (e.kind = "insert" /\ e.row = 0)
  BY <1>1 DEF First
<1> QED BY <1>2, <1>3, <1>4, <1>5, <1>6 DEF p

(* One mutation, of the status, of another column or of a step.            *)
AppliedColumn(r, new, column, value) ==
  /\ DOMAIN new.rows.steps = DOMAIN r.rows.steps
  /\ new.rows.status = IF column = "status" THEN value ELSE r.rows.status
  /\ Sets(new.queue) <=> Sets(r.queue) \/ column = "status"
  /\ NotReset(new.queue) <=> NotReset(r.queue) /\ (column = "status" => value # "NEW")
  /\ Begun(new.queue) <=> Begun(r.queue) \/ (column = "status" /\ value = "ACTIVE")
  /\ Moves(new.queue) <=> Moves(r.queue)
  /\ First(new.queue) <=> First(r.queue)

LEMMA SetStateHolds ==
  ASSUME NEW s \in Sessions, NEW r \in Running(s), NEW column, NEW value,
         \/ column = "status" /\ value \in WorkflowStatus
         \/ column = "progress" /\ value \in Nat \X Nat
         \/ column = "memory" /\ value \in SUBSET Sessions
  PROVE  AppliedColumn(r, SetState(r, column, value), column, value)
<1> DEFINE e == [txn |-> s, kind |-> "update", row |-> Wf, column |-> column, value |-> value]
           new == SetState(r, column, value)
<1>1. e \in Mutations /\ e \in Own(s)
  BY DEF Mutations, UpdatesOf, Own
<1>2. /\ e.kind = "update" /\ e.row = Wf /\ e.column = column /\ e.value = value
      /\ column # "step"
  OBVIOUS
<1>3. r.txn = s /\ r.rows \in Tables /\ r.queue \in Seq(Own(s))
  BY DEF Running
<1>4. new.rows = Applied(r.rows, e) /\ new.queue = Append(r.queue, e)
  BY <1>3 DEF SetState, Mutate, Running
<1> HIDE DEF e, new
<1>5. new.rows = [r.rows EXCEPT ![column] = value]
  BY <1>2, <1>4 DEF Applied
<1>6. /\ new.rows.steps = r.rows.steps
      /\ new.rows.status = IF column = "status" THEN value ELSE r.rows.status
  BY <1>3, <1>5 DEF Tables
<1> QED BY <1>1, <1>2, <1>3, <1>4, <1>6, HoldsAppend DEF AppliedColumn, new

LEMMA MutateHolds ==
  ASSUME NEW s \in Sessions, NEW r \in Running(s), NEW kind, NEW n, NEW value,
         [txn |-> s, kind |-> kind, row |-> n, column |-> "step", value |-> value] \in Mutations
  PROVE  LET new == Mutate(r, kind, n, "step", value)
         IN /\ new.rows.status = r.rows.status
            /\ Sets(new.queue) <=> Sets(r.queue)
            /\ NotReset(new.queue) <=> NotReset(r.queue)
            /\ Begun(new.queue) <=> Begun(r.queue)
            /\ First(new.queue) <=> First(r.queue) \/ (kind = "insert" /\ n = 0)
<1> DEFINE e == [txn |-> s, kind |-> kind, row |-> n, column |-> "step", value |-> value]
           new == Mutate(r, kind, n, "step", value)
<1>1. e \in Mutations /\ e \in Own(s)
  BY DEF Own
<1>2. /\ e.kind = kind /\ e.row = n /\ e.column = "step" /\ e.value = value
  OBVIOUS
<1>3. r.txn = s /\ r.rows \in Tables /\ r.queue \in Seq(Own(s))
  BY DEF Running
<1>4. new.rows = Applied(r.rows, e) /\ new.queue = Append(r.queue, e)
  BY <1>3 DEF Mutate, Running
<1> HIDE DEF e, new
<1>5. e.row # Wf
  BY <1>1, <1>2 DEF Mutations, UpdatesOf, StepMutations
<1>6. new.rows.status = r.rows.status
  BY <1>3, <1>4, <1>5 DEF Applied, Tables
<1>7. /\ Sets(new.queue) <=> Sets(r.queue)
      /\ NotReset(new.queue) <=> NotReset(r.queue)
      /\ Begun(new.queue) <=> Begun(r.queue)
      /\ First(new.queue) <=> First(r.queue) \/ (kind = "insert" /\ n = 0)
  BY <1>1, <1>2, <1>3, <1>4, HoldsAppend
<1> QED BY <1>6, <1>7 DEF new

(* What an accepted call does: it sets the status, or it is accepted of an *)
(* active workflow only and leaves its status as it is.                    *)
SetsStatus(r, new, op) ==
  \E v \in WorkflowStatus \ {"NEW"} :
    /\ v \in WfActive => op = "start"
    /\ v = "ACTIVE" <=> op = "start"
    /\ op = "start" => r.rows.status = "NEW"
    /\ AppliedColumn(r, new, "status", v)
Quiet(r, new) ==
  /\ new.rows.status = r.rows.status
  /\ NotReset(r.queue) => NotReset(new.queue)
  /\ Sets(r.queue) => Sets(new.queue)
  /\ Begun(new.queue) <=> Begun(r.queue)
  /\ First(r.queue) => First(new.queue)
Works(r, new, op) ==
  /\ r.rows.status \in WfActive /\ Quiet(r, new)
  /\ DOMAIN r.rows.steps = {} =>
       IF op = "add_step" THEN First(new.queue) ELSE DOMAIN new.rows.steps = {}

LEMMA ReconciledQuiet ==
  ASSUME NEW s \in Sessions, NEW r \in Running(s) PROVE Quiet(r, Reconciled(r))
<1> DEFINE now == Progress(StepStatusIn(r.rows.steps), DOMAIN r.rows.steps)
<1>1. now \in Nat \X Nat
  BY ProgressType DEF Running, Tables
<1>2. Reconciled(r) = r \/ Reconciled(r) = SetState(r, "progress", now)
  BY DEF Reconciled
<1>3. AppliedColumn(r, SetState(r, "progress", now), "progress", now)
  BY <1>1, SetStateHolds
<1> HIDE DEF now
<1> QED BY <1>2, <1>3 DEF AppliedColumn, Quiet

LEMMA EffectDoes ==
  ASSUME NEW s \in Sessions, NEW r \in Running(s), NEW c \in Calls, Accepts(r, c)
  PROVE  IF c.op \in StatusCalls THEN SetsStatus(r, Effect(r, c), c.op)
         ELSE Works(r, Effect(r, c), c.op)
<1>1. CASE c.op \in StatusCalls
  <2> DEFINE v == TargetOf(c.op, None)
             new == SetState(r, "status", v)
  <2>1. Effect(r, c) = new
    BY <1>1 DEF Effect, StatusCalls
  <2>2. /\ v \in WorkflowStatus \ {"NEW"}
        /\ v \in WfActive => c.op = "start"
        /\ v = "ACTIVE" <=> c.op = "start"
    BY <1>1 DEF StatusCalls, TargetOf, WorkflowStatus, WfActive
  <2>3. c.op = "start" => r.rows.status = "NEW"
    BY DEF Accepts, AllowedAt
  <2>4. AppliedColumn(r, new, "status", v)
    BY <2>2, SetStateHolds
  <2> HIDE DEF v, new
  <2> QED BY <1>1, <2>1, <2>2, <2>3, <2>4 DEF SetsStatus
<1>2. ASSUME c.op \notin StatusCalls PROVE r.rows.status \in WfActive
  <2>1. c.op \in {"trigger", "memorize", "add_step", "transit"}
    BY <1>2 DEF Calls, StatusCalls, Accepts
  <2>2. AllowedAt(c.op, FALSE) = WfActive
    BY <2>1 DEF AllowedAt
  <2> QED BY <2>2 DEF Accepts
<1>3. CASE c.op = "memorize"
  <2> DEFINE m == r.rows.memory \cup {s}
             new == SetState(r, "memory", m)
  <2>1. Effect(r, c) = new
    BY <1>3 DEF Effect, StatusCalls, Running
  <2>2. m \in SUBSET Sessions
    BY DEF Running, Tables
  <2>3. AppliedColumn(r, new, "memory", m)
    BY <2>2, SetStateHolds
  <2>4. c.op \notin StatusCalls
    BY <1>3 DEF StatusCalls
  <2> HIDE DEF m, new
  <2> QED BY <1>2, <1>3, <2>1, <2>3, <2>4 DEF Works, Quiet, AppliedColumn
<1>4. CASE c.op = "add_step"
  <2> DEFINE n == StepNumber(r)
             new == Mutate(r, "insert", n, "step", Begin)
  <2>1. Effect(r, c) = new
    BY <1>4 DEF Effect, StatusCalls
  <2>2. r.rows.steps \in StepTables
    BY DEF Running, Tables
  <2>3. n \in Nat
    BY <2>2, StepFacts, FS_CardinalityType DEF StepNumber
  <2>4. [txn |-> s, kind |-> "insert", row |-> n, column |-> "step", value |-> Begin]
          \in Mutations
    BY <2>3 DEF Mutations, StepMutations
  <2>5. n = 0 => First(new.queue)
    BY <2>4, MutateHolds
  <2>6. DOMAIN r.rows.steps = {} => n = 0
    BY FS_EmptySet DEF StepNumber
  <2>7. c.op \notin StatusCalls
    BY <1>4 DEF StatusCalls
  <2>8. Quiet(r, new)
    BY <2>4, MutateHolds DEF Quiet
  <2> HIDE DEF n, new
  <2> QED BY <1>2, <1>4, <2>1, <2>5, <2>6, <2>7, <2>8 DEF Works
<1>5. CASE c.op = "transit"
  <2>0. c.to \in States
    BY <1>5 DEF Calls
  <2>1. r.rows.steps \in StepTables /\ c.step \in DOMAIN r.rows.steps
    BY <1>5 DEF Running, Tables, Accepts
  <2>2. c.step \in Nat
    BY <2>1, StepFacts
  <2>3. [txn |-> s, kind |-> "update", row |-> c.step, column |-> "step", value |-> c.to]
          \in Mutations
    BY <2>2, <2>0 DEF Mutations, StepMutations
  <2> DEFINE moved == Mutate(r, "update", c.step, "step", c.to)
  <2>4. moved \in Running(s) /\ Quiet(r, moved)
    BY <2>3, MutateRunning, MutateHolds DEF Quiet
  <2>5. Effect(r, c) = Reconciled(r) \/ Effect(r, c) = Reconciled(moved)
    BY <1>5 DEF Effect, StatusCalls
  <2> HIDE DEF moved
  <2>6. Quiet(r, Reconciled(r)) /\ Quiet(moved, Reconciled(moved))
    BY <2>4, ReconciledQuiet
  <2>7. Quiet(r, Effect(r, c))
    BY <2>4, <2>5, <2>6 DEF Quiet
  <2>8. c.op \notin StatusCalls /\ DOMAIN r.rows.steps # {}
    BY <1>5, <2>1 DEF StatusCalls
  <2> QED BY <1>2, <2>7, <2>8 DEF Works
<1>6. CASE c.op \notin StatusCalls \cup {"memorize", "add_step", "transit"}
  <2>1. Effect(r, c) = r /\ c.op \notin StatusCalls /\ c.op # "add_step"
    BY <1>6 DEF Effect
  <2> QED BY <1>2, <2>1 DEF Works, Quiet
<1> QED BY <1>1, <1>3, <1>4, <1>5, <1>6
(* After some of a transaction's calls, raised or not: b is what became of *)
(* runner r. A workflow begun here was new, and it has its first step or   *)
(* no step was added since.                                                *)
Fresh(r) == r.rows.status = "NEW" => DOMAIN r.rows.steps = {}
Later(r, b) == /\ b.rows.status \in WfActive => r.rows.status \in WfActive \/ Begun(b.queue)
               /\ Fresh(b)
               /\ NotReset(b.queue)
               /\ Moves(b.queue) => r.rows.status \in WfActive \/ Sets(b.queue)
Awaits(b, calls, i, n) ==
  \/ First(b.queue)
  \/ DOMAIN b.rows.steps = {} /\ \A j \in i + 1 .. n : calls[j].op # "add_step"
Starts(a, calls, n) ==
  /\ Begun(a.runner.queue) =>
       \E i \in 1 .. n : calls[i].op = "start" /\ (a.raised \/ Awaits(a.runner, calls, i, n))
  /\ a.raised \/ \A i \in 1 .. n : calls[i].op # "raise"

LEMMA EffectLater ==
  ASSUME NEW s \in Sessions, NEW b \in Running(s), NEW c \in Calls, Accepts(b, c),
         NEW r, Later(r, b)
  PROVE  Later(r, Effect(b, c))
<1> DEFINE new == Effect(b, c)
<1>1. CASE c.op \in StatusCalls
  <2>1. PICK v \in WorkflowStatus \ {"NEW"} :
          /\ v \in WfActive => c.op = "start"
          /\ v = "ACTIVE" <=> c.op = "start"
          /\ AppliedColumn(b, new, "status", v)
    BY <1>1, EffectDoes DEF SetsStatus
  <2> HIDE DEF new
  <2>2. new.rows.status = v /\ Sets(new.queue) /\ (NotReset(b.queue) => NotReset(new.queue))
    BY <2>1 DEF AppliedColumn
  <2>3. v \in WfActive => Begun(new.queue)
    BY <2>1 DEF AppliedColumn
  <2>4. Later(r, new)
    BY <2>2, <2>3 DEF Later, Fresh
  <2> QED BY <2>4 DEF new
<1>2. CASE c.op \notin StatusCalls
  <2>1. b.rows.status \in WfActive /\ Quiet(b, new)
    BY <1>2, EffectDoes DEF Works
  <2> HIDE DEF new
  <2>2. Begun(b.queue) => Sets(b.queue)
    BY DEF Begun, Sets
  <2>3. r.rows.status \in WfActive \/ Begun(b.queue)
    BY <2>1 DEF Later
  <2>4. new.rows.status # "NEW"
    BY <2>1 DEF Quiet, WfActive
  <2>5. r.rows.status \in WfActive \/ Begun(new.queue)
    <3> QED BY <2>1, <2>3 DEF Quiet
  <2>6. NotReset(new.queue) /\ (r.rows.status \in WfActive \/ Sets(new.queue))
    BY <2>1, <2>2, <2>3 DEF Quiet, Later
  <2>7. Later(r, new)
    BY <2>4, <2>5, <2>6 DEF Later, Fresh
  <2> QED BY <2>7 DEF new
<1> QED BY <1>1, <1>2
LEMMA CalledStarts ==
  ASSUME NEW s \in Sessions, NEW a \in [runner : Running(s), raised : BOOLEAN],
         NEW r, Later(r, a.runner), NEW calls \in Seq(Calls), NEW n \in Nat,
         n + 1 \in 1 .. Len(calls), Starts(a, calls, n)
  PROVE  Starts(Called(a, calls[n + 1]), calls, n + 1)
<1> DEFINE c == calls[n + 1]
           b == Called(a, c)
           old == a.runner
           new == Effect(old, c)
<1>1. c \in Calls /\ old \in Running(s)
  BY LenProperties, ElementOfSeq
<1>2. 1 .. n + 1 = 1 .. n \cup {n + 1} /\ \A i \in 1 .. n : i + 1 .. n + 1 = i + 1 .. n \cup {n + 1}
  OBVIOUS
<1>3. CASE a.raised \/ ~Accepts(old, c)
  <2>1. b.runner = old /\ b.raised
    BY <1>3 DEF Called
  <2> HIDE DEF b, old, c
  <2> QED BY <1>2, <2>1 DEF Starts, b, c, old
<1>4. CASE ~a.raised /\ Accepts(old, c)
  <2>1. b = [a EXCEPT !.runner = new] /\ c.op # "raise"
    BY <1>4 DEF Called, Accepts
  <2>2. b.runner = new /\ b.raised = a.raised
    BY <2>1
  <2>3. IF c.op \in StatusCalls THEN SetsStatus(old, new, c.op) ELSE Works(old, new, c.op)
    BY <1>1, <1>4, EffectDoes
  <2>4. Fresh(old)
    BY DEF Later
  <2>5. \A i \in 1 .. n : calls[i].op # "raise"
    BY <1>4 DEF Starts
  <2>6. Begun(old.queue) => \E i \in 1 .. n : calls[i].op = "start" /\ Awaits(old, calls, i, n)
    BY <1>4 DEF Starts
  <2> HIDE DEF b, new, old, c
  <2>7. ASSUME Begun(new.queue), c.op = "start"
        PROVE  \E i \in 1 .. n + 1 : calls[i].op = "start" /\ Awaits(new, calls, i, n + 1)
    <3>1. SetsStatus(old, new, c.op)
      BY <2>3, <2>7 DEF StatusCalls
    <3>2. DOMAIN new.rows.steps = {}
      BY <2>4, <2>7, <3>1 DEF SetsStatus, AppliedColumn, Fresh
    <3>3. (n + 1) + 1 .. n + 1 = {}
      OBVIOUS
    <3>4. Awaits(new, calls, n + 1, n + 1)
      BY <3>2, <3>3 DEF Awaits
    <3>5. n + 1 \in 1 .. n + 1
      OBVIOUS
    <3> QED BY <2>7, <3>4, <3>5 DEF c
  <2>8. ASSUME Begun(new.queue), c.op # "start"
        PROVE  \E i \in 1 .. n + 1 : calls[i].op = "start" /\ Awaits(new, calls, i, n + 1)
    <3>1. Begun(old.queue)
      BY <2>3, <2>8 DEF SetsStatus, AppliedColumn, Works, Quiet
    <3>2. PICK i \in 1 .. n : calls[i].op = "start" /\ Awaits(old, calls, i, n)
      BY <2>6, <3>1
    <3>3. First(old.queue) => First(new.queue)
      BY <2>3 DEF SetsStatus, AppliedColumn, Works, Quiet
    <3>4. DOMAIN old.rows.steps = {} =>
            First(new.queue) \/ (DOMAIN new.rows.steps = {} /\ c.op # "add_step")
      BY <2>3 DEF SetsStatus, AppliedColumn, Works, StatusCalls
    <3>5. Awaits(new, calls, i, n + 1)
      BY <1>2, <3>2, <3>3, <3>4 DEF Awaits, c
    <3> QED BY <1>2, <3>2, <3>5
  <2>9. \A i \in 1 .. n + 1 : calls[i].op # "raise"
    BY <1>2, <2>1, <2>5 DEF c
  <2>10. Starts(b, calls, n + 1)
    BY <2>2, <2>7, <2>8, <2>9 DEF Starts
  <2> QED BY <2>10 DEF b, c
<1> QED BY <1>3, <1>4

LEMMA OutcomeStarts ==
  ASSUME NEW s \in Sessions, NEW r \in Idle, Fresh(r), NEW calls \in Seq(Calls)
  PROVE  /\ Later(r, Outcome(r, s, calls).runner)
         /\ Starts(Outcome(r, s, calls), calls, Len(calls))
<1> DEFINE Good(a, n) == /\ a \in [runner : Running(s), raised : BOOLEAN]
                         /\ Later(r, a.runner) /\ Starts(a, calls, n)
<1>1. Len(calls) \in Nat /\ \A i \in 1 .. Len(calls) : calls[i] \in Calls
  BY LenProperties, ElementOfSeq
<1>2. PICK g : /\ Outcome(r, s, calls) = g[Len(calls)]
               /\ g[0] = Opened(r, s)
               /\ \A i \in 1 .. Len(calls) : g[i] = Called(g[i - 1], calls[i])
  <2>1. Len(calls) \in Nat
    BY <1>1
  <2> QED BY ONLY <2>1, OutcomeUnfolded
<1> DEFINE T == {n \in Nat : n <= Len(calls) => Good(g[n], n)}
<1>3. 0 \in T
  <2> DEFINE first == [r EXCEPT !.txn = s]
             a == Opened(r, s)
  <2>1. <<>> \in Seq(Own(s))
    OBVIOUS
  <2>2. first \in Running(s) /\ first.rows = r.rows /\ first.queue = <<>>
    BY <2>1 DEF Idle, Running
  <2>3. /\ a \in [runner : Running(s), raised : BOOLEAN]
        /\ a.runner = first
    BY <2>2 DEF Opened
  <2> HIDE DEF first, a
  <2>4. Later(r, first)
    BY <2>2, HoldsNone DEF Later, Fresh
  <2>5. Starts(a, calls, 0)
    <3>1. 1 .. 0 = {}
      OBVIOUS
    <3> QED BY <2>2, <2>3, <3>1, HoldsNone DEF Starts
  <2>6. Good(a, 0)
    BY <2>3, <2>4, <2>5
  <2> QED BY <1>2, <2>6 DEF a
<1>4. ASSUME NEW n \in Nat, n \in T PROVE n + 1 \in T
  <2> SUFFICES ASSUME n + 1 <= Len(calls) PROVE Good(g[n + 1], n + 1)
    OBVIOUS
  <2>1. n + 1 \in 1 .. Len(calls) /\ Good(g[n], n)
    BY <1>1, <1>4
  <2>2. g[n + 1] = Called(g[n], calls[n + 1]) /\ calls[n + 1] \in Calls
    BY <1>1, <1>2, <2>1
  <2>3. Starts(g[n + 1], calls, n + 1)
    <3> DEFINE a == g[n]
    <3>1. /\ a \in [runner : Running(s), raised : BOOLEAN]
          /\ Later(r, a.runner) /\ Starts(a, calls, n)
      BY <2>1
    <3> HIDE DEF a
    <3>2. Starts(Called(a, calls[n + 1]), calls, n + 1)
      BY <2>1, <3>1, CalledStarts
    <3> QED BY <2>2, <3>2 DEF a
  <2>4. CASE g[n].raised \/ ~Accepts(g[n].runner, calls[n + 1])
    <3>1. /\ g[n + 1] \in [runner : Running(s), raised : BOOLEAN]
          /\ g[n + 1].runner = g[n].runner
      BY <2>1, <2>2, <2>4 DEF Called
    <3> QED BY <2>1, <2>3, <3>1
  <2>5. CASE ~g[n].raised /\ Accepts(g[n].runner, calls[n + 1])
    <3> DEFINE before == g[n].runner
               after == Effect(before, calls[n + 1])
    <3>1. before \in Running(s) /\ Later(r, before)
      BY <2>1
    <3>2. after \in Running(s) /\ Later(r, after)
      BY <2>2, <2>5, <3>1, EffectRunning, EffectLater
    <3>3. g[n + 1] = [g[n] EXCEPT !.runner = after]
      BY <2>1, <2>2, <2>5 DEF Called
    <3> HIDE DEF before, after
    <3>4. /\ g[n + 1] \in [runner : Running(s), raised : BOOLEAN]
          /\ g[n + 1].runner = after
      BY <2>1, <3>2, <3>3
    <3> QED BY <2>3, <3>2, <3>4
  <2> QED BY <2>4, <2>5
<1> HIDE DEF T
<1>5. Nat \subseteq T
  BY <1>3, <1>4, Induction
<1>6. Good(g[Len(calls)], Len(calls))
  BY <1>1, <1>5 DEF T
<1> QED BY <1>2, <1>6

(* What an action of a command or of an event leaves behind. Handlers of   *)
(* events call no start; a command's order that does adds a step.          *)
BeginsWell(calls) ==
  \A i \in DOMAIN calls : calls[i].op = "start" =>
    \E j \in DOMAIN calls : j > i /\ calls[j].op \in {"add_step", "raise"}
Fit(r, q) == /\ NotReset(q) /\ (Begun(q) => First(q))
             /\ Moves(q) => r.rows.status \in WfActive \/ Sets(q)
Succeeds(r, b) == Fresh(b) /\ (b.rows.status \in WfActive => r.rows.status \in WfActive)

LEMMA WorkStarts ==
  ASSUME TypeInv, NEW s \in Sessions, NEW r \in Runners, Fresh(r),
         NEW programs \in Seq(Seq(Calls)), programs # <<>>, Work(s, r, programs),
         BeginsWell(Head(programs)), s \in Requests => Head(programs) \in Seq(HandlerCalls)
  PROVE  /\ IF s \in Requests THEN Succeeds(r, cache') ELSE cache' = cache
         /\ \/ pc' = [pc EXCEPT ![s] = "failed"] /\ made' = made
            \/ /\ pc' = [pc EXCEPT ![s] = "persisting"]
               /\ \E drained \in Seq(Own(s)) :
                    made' = [made EXCEPT ![s] = made[s] \o drained] /\ Fit(r, drained)
<1>1. CASE r.txn # None
  BY <1>1 DEF Work, Keeps, Fails, Succeeds
<1>2. CASE r.txn = None
  <2> DEFINE calls == Head(programs)
             a == Outcome(r, s, calls)
             b == a.runner
             left == LeftBlock(a)
  <2>1. r \in Idle /\ calls \in Seq(Calls)
    BY <1>2, RunnerCases, HeadTailProperties
  <2>2. a \in [runner : Running(s), raised : BOOLEAN]
    BY <2>1, OutcomeRunning
  <2>3. Later(r, b) /\ Starts(a, calls, Len(calls))
    BY <2>1, OutcomeStarts
  <2>4. Enter(s, r, programs)
    BY <1>2 DEF Work
  <2>5. DOMAIN calls = 1 .. Len(calls) /\ Len(calls) \in Nat
    BY <2>1, LenProperties
  <2>6. /\ b.queue \in Seq(Own(s)) /\ left.rows = b.rows /\ left.queue = b.queue
        /\ [left EXCEPT !.queue = <<>>].rows = b.rows
    <3> HIDE DEF a
    <3> QED BY <2>2 DEF LeftBlock, Running
  <2>7. s \in Requests => ~Begun(b.queue)
    <3> SUFFICES ASSUME s \in Requests, Begun(b.queue) PROVE FALSE
      OBVIOUS
    <3>1. PICK i \in 1 .. Len(calls) : calls[i].op = "start"
      BY <2>3 DEF Starts
    <3>2. calls \in Seq(HandlerCalls)
      OBVIOUS
    <3> HIDE DEF calls
    <3>3. calls[i] \in HandlerCalls
      BY <3>2, LenProperties, ElementOfSeq
    <3> QED BY <3>1, <3>3 DEF HandlerCalls
  <2>8. s \in Requests => Succeeds(r, left) /\ Succeeds(r, [left EXCEPT !.queue = <<>>])
    <3> HIDE DEF a, left
    <3> QED BY <2>3, <2>6, <2>7 DEF Later, Succeeds, Fresh
  <2>9. CASE a.raised
    <3>1. Keeps(s, left) /\ Fails(s) /\ made' = made
      BY <2>4, <2>9 DEF Enter
    <3> HIDE DEF a, left
    <3> QED BY <2>8, <3>1 DEF Keeps, Fails
  <2>10. CASE ~a.raised
    <3> DEFINE clean == [left EXCEPT !.queue = <<>>]
    <3>1. /\ Keeps(s, clean) /\ made' = [made EXCEPT ![s] = made[s] \o left.queue]
          /\ pc' = [pc EXCEPT ![s] = "persisting"]
      BY <2>4, <2>10 DEF Enter
    <3>2. ASSUME Begun(b.queue) PROVE First(b.queue)
      <4> HIDE DEF a, left
      <4>1. PICK i \in 1 .. Len(calls) :
              calls[i].op = "start" /\ Awaits(b, calls, i, Len(calls))
        BY <2>3, <2>10, <3>2 DEF Starts
      <4>2. \A j \in 1 .. Len(calls) : calls[j].op # "raise"
        BY <2>3, <2>10 DEF Starts
      <4>3. BeginsWell(calls)
        OBVIOUS
      <4> HIDE DEF calls
      <4>4. PICK j \in 1 .. Len(calls) : j > i /\ calls[j].op = "add_step"
        BY <2>5, <4>1, <4>2, <4>3 DEF BeginsWell
      <4>5. j \in i + 1 .. Len(calls)
        BY <2>5, <4>4
      <4> QED BY <4>1, <4>4, <4>5 DEF Awaits
    <3>3. Fit(r, b.queue)
      BY <2>3, <3>2 DEF Fit, Later
    <3> HIDE DEF a, left, clean
    <3> QED BY <2>6, <2>8, <3>1, <3>3 DEF Keeps, clean
  <2> QED BY <2>9, <2>10
<1> QED BY <1>1, <1>2

(* What a commit makes of the status.                                      *)
LEMMA AllAppliedStatus ==
  ASSUME NEW rows \in Tables, NEW es \in Seq(Mutations), NotReset(es)
  PROVE  AllApplied(rows, es).status = "NEW" => rows.status = "NEW" /\ ~Sets(es)
<1>1. /\ Len(es) \in Nat /\ DOMAIN es = 1 .. Len(es)
      /\ \A i \in 1 .. Len(es) : es[i] \in Mutations
  BY LenProperties, ElementOfSeq
<1>2. PICK g : /\ AllApplied(rows, es) = g[Len(es)] /\ g[0] = rows
               /\ \A i \in 1 .. Len(es) : g[i] = Applied(g[i - 1], es[i])
  <2>1. Len(es) \in Nat
    BY <1>1
  <2> QED BY ONLY <2>1, FoldOf
<1> DEFINE Good(k) == /\ g[k] \in Tables
                      /\ g[k].status = "NEW" =>
                           rows.status = "NEW" /\ \A i \in 1 .. k : es[i].column # "status"
           T == {k \in Nat : k <= Len(es) => Good(k)}
<1>3. 0 \in T
  BY <1>2
<1>4. ASSUME NEW k \in Nat, k \in T PROVE k + 1 \in T
  <2> SUFFICES ASSUME k + 1 <= Len(es) PROVE Good(k + 1)
    OBVIOUS
  <2> DEFINE e == es[k + 1]
             here == g[k]
             new == g[k + 1]
  <2>1. k + 1 \in DOMAIN es /\ Good(k) /\ e \in Mutations
    BY <1>1, <1>4
  <2>2. new = Applied(here, e) /\ here \in Tables
    BY <1>1, <1>2, <2>1
  <2>3. new \in Tables
    BY <2>1, <2>2, AppliedTables
  <2>4. e.column = "status" => e.value # "NEW"
    BY <2>1 DEF NotReset
  <2>5. 1 .. k + 1 = 1 .. k \cup {k + 1}
    OBVIOUS
  <2> HIDE DEF e
  <2>6. CASE e.row = Wf
    <3>1. e.column \in {"status", "progress", "memory"}
      BY <2>1, <2>6 DEF Mutations, UpdatesOf, StepMutations
    <3>2. new = [here EXCEPT ![e.column] = e.value]
      BY <2>2, <2>6 DEF Applied
    <3>3. new.status = IF e.column = "status" THEN e.value ELSE here.status
      BY <2>2, <3>1, <3>2 DEF Tables
    <3>4. new.status = "NEW" => here.status = "NEW" /\ e.column # "status"
      BY <2>4, <3>3
    <3> QED BY <2>1, <2>3, <2>5, <3>4 DEF e
  <2>7. CASE e.row # Wf
    <3>1. e.column = "step"
      BY <2>1, <2>7 DEF Mutations, UpdatesOf, StepMutations
    <3>2. new.status = here.status
      BY <2>2, <2>7 DEF Applied, Tables
    <3> QED BY <2>1, <2>3, <2>5, <3>1, <3>2 DEF e
  <2> QED BY <2>6, <2>7
<1> HIDE DEF T
<1>5. Nat \subseteq T
  BY <1>3, <1>4, Induction
<1>6. Good(Len(es))
  BY <1>1, <1>5 DEF T
<1> QED BY <1>1, <1>2, <1>6 DEF Sets

(* Nobody's runner has an active workflow in memory while the table has a  *)
(* new one, unless it is in the transaction that starts it; the rows of    *)
(* steps come after the status; and a start comes with its step's row.     *)
Behind(r) == Fresh(r) /\ (r.rows.status \in WfActive => db.status # "NEW")
SessionStart(s) ==
  /\ pc[s] = "loaded" => Behind(view[s])
  /\ todo[s] \in Seq(Seq(HandlerCalls))
  /\ NotReset(made[s]) /\ (Begun(made[s]) => First(made[s]))
  /\ Moves(made[s]) => db.status # "NEW" \/ Sets(made[s])
  /\ pc[s] = "done" /\ First(made[s]) => 0 \in DOMAIN db.steps
OneFirst ==
  \A s, t \in Sessions :
    pc[s] = "done" /\ pc[t] = "done" /\ First(made[s]) /\ First(made[t]) => s = t
StartInv ==
  /\ db.status = "NEW" => DOMAIN db.steps = {}
  /\ InUse => Behind(cache)
  /\ OneFirst
  /\ \A s \in Sessions : SessionStart(s)

LEMMA StartElsewhere ==
  ASSUME NEW t \in Sessions, SessionStart(t), made'[t] = made[t],
         pc'[t] = pc[t] \/ pc'[t] = "failed", todo'[t] = todo[t] \/ todo'[t] = <<>>,
         pc'[t] = "loaded" => view'[t] = view[t],
         db.status # "NEW" => db'.status # "NEW", DOMAIN db.steps \subseteq DOMAIN db'.steps
  PROVE  SessionStart(t)'
<1>1. \A q \in {made[t]} : /\ NotReset(made[t])' = NotReset(q) /\ Begun(made[t])' = Begun(q)
                           /\ First(made[t])' = First(q) /\ Moves(made[t])' = Moves(q)
                           /\ Sets(made[t])' = Sets(q)
  BY DEF NotReset, Begun, First, Moves, Sets
<1>2. todo'[t] \in Seq(Seq(HandlerCalls))
  <2>1. <<>> \in Seq(Seq(HandlerCalls))
    OBVIOUS
  <2> QED BY <2>1 DEF SessionStart
<1>3. pc'[t] = "loaded" => Behind(view[t])'
  BY DEF SessionStart, Behind, Fresh
<1> QED BY <1>1, <1>2, <1>3 DEF SessionStart

(* Steps that neither commit nor work on a runner.                         *)
LEMMA StartKept ==
  ASSUME StartInv, UNCHANGED <<db, made>>,
         cache' = cache \/ (cache' = None /\ \A q \in Requests : pc'[q] # "persisting"),
         \A t \in Sessions :
           /\ pc'[t] = pc[t] \/ (pc'[t] = "failed" /\ pc[t] # "done")
           /\ todo'[t] = todo[t] \/ todo'[t] = <<>>
           /\ pc'[t] = "loaded" => view'[t] = view[t]
  PROVE  StartInv'
<1>1. ASSUME NEW t \in Sessions PROVE SessionStart(t)'
  BY StartElsewhere DEF StartInv
<1>2. OneFirst'
  BY DEF StartInv, OneFirst, First
<1>3. ASSUME InUse' PROVE Behind(cache)'
  <2>1. InUse /\ cache' = cache
    BY <1>3 DEF InUse, Sessions
  <2> QED BY <2>1 DEF StartInv, Behind, Fresh
<1> QED BY <1>1, <1>2, <1>3 DEF StartInv

LEMMA StartWork ==
  ASSUME IInv, StartInv, NEW s \in Sessions, NEW r \in Runners, Behind(r),
         NEW programs \in Seq(Seq(Calls)), programs # <<>>, Work(s, r, programs),
         BeginsWell(Head(programs)), Tail(programs) \in Seq(Seq(HandlerCalls)),
         s \in Requests => Head(programs) \in Seq(HandlerCalls)
  PROVE  StartInv'
<1>1. /\ UNCHANGED db /\ view' = [view EXCEPT ![s] = None]
      /\ \A t \in Sessions \ {s} : /\ pc'[t] = pc[t] /\ made'[t] = made[t]
                                   /\ todo'[t] = todo[t] /\ view'[t] = view[t]
      /\ pc'[s] \in {"failed", "persisting"}
      /\ todo'[s] \in {<<>>, Tail(programs)}
  <2>1. \/ /\ pc' = [pc EXCEPT ![s] = "failed"] /\ todo' = [todo EXCEPT ![s] = <<>>]
           /\ made' = made
        \/ /\ pc' = [pc EXCEPT ![s] = "persisting"]
           /\ todo' = [todo EXCEPT ![s] = Tail(programs)]
           /\ \E drained \in Seq(Own(s)) : made' = [made EXCEPT ![s] = made[s] \o drained]
    BY WorkDoes DEF IInv
  <2>2. UNCHANGED db /\ view' = [view EXCEPT ![s] = None]
    BY WorkDoes DEF IInv
  <2> QED BY <2>1, <2>2 DEF IInv, TypeInv
<1>2. /\ IF s \in Requests THEN Succeeds(r, cache') ELSE cache' = cache
      /\ \/ made' = made
         \/ \E drained \in Seq(Own(s)) :
              made' = [made EXCEPT ![s] = made[s] \o drained] /\ Fit(r, drained)
  BY WorkStarts DEF IInv, Behind
<1>3. ASSUME NEW t \in Sessions, t # s PROVE SessionStart(t)'
  BY <1>1, <1>3, StartElsewhere DEF StartInv
<1>4. SessionStart(s)
  BY DEF StartInv
<1>5. /\ NotReset(made'[s]) /\ (Begun(made'[s]) => First(made'[s]))
      /\ Moves(made'[s]) => db.status # "NEW" \/ Sets(made'[s])
  <2>1. CASE made' = made
    BY <1>4, <2>1 DEF SessionStart
  <2>2. CASE \E drained \in Seq(Own(s)) :
               made' = [made EXCEPT ![s] = made[s] \o drained] /\ Fit(r, drained)
    <3>1. PICK drained \in Seq(Own(s)) :
                 made' = [made EXCEPT ![s] = made[s] \o drained] /\ Fit(r, drained)
      BY <2>2
    <3>2. made'[s] = made[s] \o drained /\ made[s] \in Seq(Own(s))
      BY <3>1 DEF IInv, TypeInv, SessionTyped
    <3>3. /\ Sets(made'[s]) <=> Sets(made[s]) \/ Sets(drained)
          /\ NotReset(made'[s]) <=> NotReset(made[s]) /\ NotReset(drained)
          /\ Begun(made'[s]) <=> Begun(made[s]) \/ Begun(drained)
          /\ Moves(made'[s]) <=> Moves(made[s]) \/ Moves(drained)
          /\ First(made'[s]) <=> First(made[s]) \/ First(drained)
      <4> DEFINE old == made[s]
      <4>1. old \in Seq(Own(s)) /\ made'[s] = old \o drained
        BY <3>2
      <4> HIDE DEF old
      <4> QED BY <4>1, HoldsConcat DEF old
    <3> QED BY <1>4, <3>1, <3>3 DEF SessionStart, Fit, Behind
  <2> QED BY <1>2, <2>1, <2>2
<1>6. SessionStart(s)'
  <2>1. PICK q : q = made'[s]
    OBVIOUS
  <2>2. /\ NotReset(made[s])' = NotReset(q) /\ Begun(made[s])' = Begun(q)
        /\ First(made[s])' = First(q) /\ Moves(made[s])' = Moves(q)
        /\ Sets(made[s])' = Sets(q)
    BY <2>1 DEF NotReset, Begun, First, Moves, Sets
  <2>3. NotReset(q) /\ (Begun(q) => First(q)) /\ (Moves(q) => db.status # "NEW" \/ Sets(q))
    BY <1>5, <2>1
  <2>4. todo'[s] \in Seq(Seq(HandlerCalls))
    <3>1. <<>> \in Seq(Seq(HandlerCalls))
      OBVIOUS
    <3> QED BY <1>1, <3>1
  <2> QED BY <1>1, <2>2, <2>3, <2>4 DEF SessionStart
<1>7. OneFirst'
  <2>1. \A t \in Sessions : pc'[t] = "done" => pc[t] = "done" /\ made'[t] = made[t]
    BY <1>1
  <2> QED BY <2>1 DEF StartInv, OneFirst, First
<1>8. ASSUME InUse' PROVE Behind(cache)'
  <2>1. CASE s \in Requests
    <3>1. Succeeds(r, cache')
      BY <1>2, <2>1
    <3> QED BY <1>1, <3>1 DEF Succeeds, Behind, Fresh
  <2>2. CASE s \notin Requests
    <3>1. InUse /\ cache' = cache
      BY <1>1, <1>2, <1>8, <2>2 DEF InUse, Sessions
    <3> QED BY <1>1, <3>1 DEF StartInv, Behind, Fresh
  <2> QED BY <2>1, <2>2
<1> QED BY <1>1, <1>3, <1>6, <1>7, <1>8 DEF StartInv

LEMMA StartCommit ==
  ASSUME IInv, LockInv, StartInv, NEW s \in Sessions, Commit(s)
  PROVE  StartInv'
<1> DEFINE es == made[s]
<1>1. /\ pc[s] = "persisting" /\ at[s] = Len(made[s]) /\ UNCHANGED <<made, cache, view, todo>>
      /\ db' = AllApplied(db, es)
      /\ \A t \in Sessions : pc'[t] = IF t = s THEN "done" ELSE pc[t]
  BY DEF Commit, Drained, IInv, TypeInv
<1>2. es \in Seq(Mutations) /\ db \in Tables /\ DOMAIN es = 1 .. at[s]
  BY <1>1, OwnFacts DEF IInv, TypeInv
<1>3. SessionStart(s)
  BY DEF StartInv
<1>4. db'.status = "NEW" => db.status = "NEW" /\ ~Sets(es)
  <2>1. NotReset(es)
    BY <1>3 DEF SessionStart
  <2> HIDE DEF es
  <2> QED BY <1>1, <1>2, <2>1, AllAppliedStatus
<1>5. /\ DOMAIN db'.steps \subseteq DOMAIN db.steps \cup {es[i].row : i \in DOMAIN es}
      /\ \A i \in DOMAIN es : es[i].row # Wf => es[i].row \in DOMAIN db'.steps
      /\ DOMAIN db.steps \subseteq DOMAIN db'.steps
  <2> HIDE DEF es
  <2> QED BY <1>1, <1>2, AllAppliedSteps
<1>6. ASSUME db'.status = "NEW" PROVE DOMAIN db'.steps = {}
  <2>1. DOMAIN db.steps = {} /\ ~Moves(es)
    BY <1>3, <1>4, <1>6 DEF StartInv, SessionStart
  <2>2. \A i \in DOMAIN es : es[i] \in Mutations
    BY <1>2, LenProperties, ElementOfSeq
  <2>3. \A i \in DOMAIN es : es[i].row = Wf
    BY <2>1, <2>2 DEF Moves, Mutations, UpdatesOf, StepMutations
  <2>4. DOMAIN db'.steps \subseteq Nat
    <3>1. AllApplied(db, es) \in Tables
      BY <1>2, AllAppliedTables
    <3>2. db' \in Tables
      BY <1>1, <3>1
    <3> QED BY <3>2, StepFacts DEF Tables
  <2> QED BY <1>5, <2>1, <2>3, <2>4
<1>7. First(es) => 0 \in DOMAIN db'.steps /\ 0 \notin DOMAIN db.steps
  <2> SUFFICES ASSUME NEW i \in DOMAIN es, es[i].kind = "insert", es[i].row = 0
               PROVE  0 \in DOMAIN db'.steps /\ 0 \notin DOMAIN db.steps
    BY DEF First
  <2>1. 0 \in DOMAIN db'.steps
    BY <1>5
  <2>2. 0 \notin DOMAIN db.steps
    BY <1>1, <1>2 DEF LockInv, InsertsNew
  <2> QED BY <2>1, <2>2
<1>8. ASSUME NEW t \in Sessions PROVE SessionStart(t)'
  <2>1. CASE t # s
    BY <1>1, <1>4, <1>5, <2>1, StartElsewhere DEF StartInv
  <2>2. CASE t = s
    <3>1. /\ NotReset(made[s])' = NotReset(es) /\ Begun(made[s])' = Begun(es)
          /\ First(made[s])' = First(es) /\ Moves(made[s])' = Moves(es)
          /\ Sets(made[s])' = Sets(es)
      BY <1>1 DEF NotReset, Begun, First, Moves, Sets
    <3>2. pc'[s] = "done" /\ todo'[s] = todo[s]
      BY <1>1
    <3>3. /\ NotReset(es) /\ (Begun(es) => First(es)) /\ todo[s] \in Seq(Seq(HandlerCalls))
          /\ Moves(es) => db'.status # "NEW" \/ Sets(es)
      BY <1>3, <1>4 DEF SessionStart
    <3> HIDE DEF es
    <3>4. SessionStart(s)'
      BY <1>7, <3>1, <3>2, <3>3 DEF SessionStart
    <3> QED BY <2>2, <3>4
  <2> QED BY <2>1, <2>2
<1>9. OneFirst'
  <2> SUFFICES ASSUME NEW t \in Sessions, NEW u \in Sessions, pc'[t] = "done", pc'[u] = "done",
                      First(made[t])', First(made[u])'
               PROVE  t = u
    BY DEF OneFirst
  <2>1. First(made[t]) /\ First(made[u])
    BY <1>1 DEF First
  <2>2. t # s => 0 \in DOMAIN db.steps
    BY <1>1, <2>1 DEF StartInv, SessionStart
  <2>3. u # s => 0 \in DOMAIN db.steps
    BY <1>1, <2>1 DEF StartInv, SessionStart
  <2>4. t = s \/ u = s => 0 \notin DOMAIN db.steps
    BY <1>7, <2>1
  <2>5. t # s /\ u # s => t = u
    BY <1>1, <2>1 DEF StartInv, OneFirst
  <2> QED BY <2>2, <2>3, <2>4, <2>5
<1>10. ASSUME InUse' PROVE Behind(cache)'
  <2>1. InUse
    BY <1>1, <1>10 DEF InUse, Sessions
  <2> QED BY <1>1, <1>4, <2>1 DEF StartInv, Behind, Fresh
<1> QED BY <1>6, <1>8, <1>9, <1>10 DEF StartInv

(* The programs of a command and of an event.                              *)
LEMMA ProgramOfOrder ==
  ASSUME NEW order \in Orders
  PROVE  /\ <<order>> \in Seq(Seq(Calls)) /\ <<order>> # <<>>
         /\ BeginsWell(Head(<<order>>)) /\ Tail(<<order>>) \in Seq(Seq(HandlerCalls))
<1>1. <<order>> \in Seq(Seq(Calls)) /\ <<order>> # <<>> /\ Head(<<order>>) = order
  OBVIOUS
<1>2. Tail(<<order>>) = <<>>
  OBVIOUS
<1>3. BeginsWell(order)
  BY StartAssumption DEF BeginsWell
<1>4. <<>> \in Seq(Seq(HandlerCalls))
  OBVIOUS
<1> QED BY <1>1, <1>2, <1>3, <1>4

LEMMA ProgramsOfEvent ==
  ASSUME NEW event \in Seq(Seq(HandlerCalls)), event # <<>>
  PROVE  /\ BeginsWell(Head(event)) /\ Tail(event) \in Seq(Seq(HandlerCalls))
         /\ Head(event) \in Seq(HandlerCalls)
<1>1. Head(event) \in Seq(HandlerCalls) /\ Tail(event) \in Seq(Seq(HandlerCalls))
  BY HeadTailProperties
<1> DEFINE calls == Head(event)
<1> HIDE DEF calls
<1>2. ASSUME calls \in Seq(HandlerCalls) PROVE \A i \in DOMAIN calls : calls[i].op # "start"
  BY <1>2, LenProperties, ElementOfSeq DEF HandlerCalls
<1>3. BeginsWell(calls)
  BY <1>1, <1>2 DEF BeginsWell, calls
<1> QED BY <1>1, <1>3 DEF calls

LEMMA StartNext == IInv /\ LockInv /\ StartInv /\ [Next]_vars => StartInv'
<1> SUFFICES ASSUME IInv, LockInv, StartInv, [Next]_vars PROVE StartInv'
  OBVIOUS
<1>1. CASE UNCHANGED vars
  <2>1. UNCHANGED <<db, pc, made, cache, view, todo>>
    BY <1>1 DEF vars
  <2> QED BY <2>1, StartKept
<1>2. ASSUME NEW c \in Commands, NEW order \in Orders, Command(c, order) PROVE StartInv'
  <2>1. c \in Sessions /\ c \notin Requests /\ Work(c, Loaded(db), <<order>>)
    BY <1>2 DEF Command, Sessions
  <2>2. Loaded(db) \in Runners
    BY LoadedIdle DEF IInv, Runners
  <2>3. Behind(Loaded(db))
    <3>1. Loaded(db).rows = db
      BY DEF Loaded
    <3> QED BY <3>1 DEF Behind, Fresh, StartInv, WfActive
  <2> QED BY <2>1, <2>2, <2>3, ProgramOfOrder, StartWork
<1>3. ASSUME NEW q \in Requests, NEW event \in Events, Event(q, event) PROVE StartInv'
  <2>1. q \in Sessions /\ cache \in Runners /\ cache # None /\ Work(q, cache, event)
    BY <1>3 DEF Event, Sessions, IInv, TypeInv
  <2>2. event \in Seq(Seq(Calls)) /\ event # <<>> /\ event \in Seq(Seq(HandlerCalls))
    BY StartAssumption
  <2>3. Behind(cache)
    BY <2>1 DEF StartInv, InUse
  <2> QED BY <2>1, <2>2, <2>3, ProgramsOfEvent, StartWork
<1>4. ASSUME NEW q \in Requests, NEW event \in Events, Miss(q, event) PROVE StartInv'
  <2>1. /\ UNCHANGED <<db, made, cache>> /\ pc[q] = "idle" /\ q \in Sessions
        /\ \A t \in Sessions : /\ pc'[t] = IF t = q THEN "loaded" ELSE pc[t]
                               /\ todo'[t] = IF t = q THEN event ELSE todo[t]
                               /\ view'[t] = IF t = q THEN Loaded(db) ELSE view[t]
    BY <1>4 DEF Miss, Sessions, IInv, TypeInv
  <2>2. event \in Seq(Seq(HandlerCalls))
    BY StartAssumption
  <2>3. SessionStart(q)'
    <3>1. Loaded(db).rows = db
      BY DEF Loaded
    <3>2. Behind(view[q])'
      BY <2>1, <3>1 DEF Behind, Fresh, StartInv, WfActive
    <3>3. PICK m : m = made[q]
      OBVIOUS
    <3>4. /\ NotReset(made[q])' = NotReset(m) /\ Begun(made[q])' = Begun(m)
          /\ First(made[q])' = First(m) /\ Moves(made[q])' = Moves(m)
          /\ Sets(made[q])' = Sets(m)
      BY <2>1, <3>3 DEF NotReset, Begun, First, Moves, Sets
    <3>5. SessionStart(q)
      BY <2>1 DEF StartInv
    <3> QED BY <2>1, <2>2, <3>2, <3>3, <3>4, <3>5 DEF SessionStart
  <2>4. ASSUME NEW t \in Sessions, t # q PROVE SessionStart(t)'
    BY <2>1, <2>4, StartElsewhere DEF StartInv
  <2>5. OneFirst'
    <3>1. \A t \in Sessions : pc'[t] = "done" => pc[t] = "done" /\ made'[t] = made[t]
      BY <2>1
    <3> QED BY <2>1, <3>1 DEF StartInv, OneFirst, First
  <2>6. ASSUME InUse' PROVE Behind(cache)'
    <3>1. InUse
      BY <2>1, <2>6 DEF InUse, Sessions
    <3> QED BY <2>1, <3>1 DEF StartInv, Behind, Fresh
  <2> QED BY <2>1, <2>3, <2>4, <2>5, <2>6 DEF StartInv
<1>5. ASSUME NEW s \in Sessions, DatabaseError(s) PROVE StartInv'
  <2>1. /\ UNCHANGED <<db, made, cache, view>> /\ pc[s] = "persisting"
        /\ \A t \in Sessions : /\ pc'[t] = IF t = s THEN "failed" ELSE pc[t]
                               /\ todo'[t] = IF t = s THEN <<>> ELSE todo[t]
    BY <1>5 DEF DatabaseError, Fails, IInv, TypeInv
  <2> QED BY <2>1, StartKept
<1>6. ASSUME Restart PROVE StartInv'
  <2>1. /\ UNCHANGED <<db, made>> /\ cache' = None
        /\ \A t \in Sessions :
             LET cut == t \in Requests /\ pc[t] \in {"loaded", "persisting"}
             IN /\ pc'[t] = IF cut THEN "failed" ELSE pc[t]
                /\ todo'[t] = IF cut THEN <<>> ELSE todo[t]
    BY <1>6 DEF Restart
  <2>2. \A t \in Sessions : pc[t] = "loaded" => t \in Requests
    BY DEF IInv, TypeInv, SessionTyped
  <2>3. \A t \in Sessions : /\ pc'[t] # "loaded"
                            /\ t \in Requests => pc'[t] # "persisting"
    BY <2>1, <2>2
  <2>4. \A q \in Requests : pc'[q] # "persisting"
    BY <2>3 DEF Sessions
  <2> QED BY <2>1, <2>3, <2>4, StartKept
<1>7. ASSUME NEW q \in Requests, LoadedEvent(q) PROVE StartInv'
  <2>1. q \in Sessions /\ pc[q] = "loaded" /\ Work(q, view[q], todo[q])
    BY <1>7 DEF LoadedEvent, Sessions
  <2>2. view[q] \in Runners /\ todo[q] \in Seq(Seq(Calls)) /\ todo[q] # <<>>
    BY <2>1 DEF IInv, TypeInv, SessionTyped, Runners
  <2>3. Behind(view[q]) /\ todo[q] \in Seq(Seq(HandlerCalls))
    BY <2>1 DEF StartInv, SessionStart
  <2> QED BY <2>1, <2>2, <2>3, ProgramsOfEvent, StartWork
<1>8. ASSUME NEW q \in Requests, NextTrigger(q) PROVE StartInv'
  <2>1. /\ q \in Sessions /\ pc[q] = "persisting" /\ Work(q, cache, todo[q])
        /\ todo[q] # <<>>
    BY <1>8 DEF NextTrigger, Drained, Sessions
  <2>2. cache \in Runners /\ todo[q] \in Seq(Seq(Calls))
    BY <2>1 DEF IInv, TypeInv, SessionTyped
  <2>3. Behind(cache) /\ todo[q] \in Seq(Seq(HandlerCalls))
    BY <2>1 DEF StartInv, SessionStart, InUse
  <2> QED BY <2>1, <2>2, <2>3, ProgramsOfEvent, StartWork
<1>9. ASSUME NEW s \in Sessions, Persist(s) PROVE StartInv'
  <2>1. /\ UNCHANGED <<db, made, cache, view>> /\ pc[s] = "persisting"
        /\ \/ pc' = pc /\ todo' = todo
           \/ pc' = [pc EXCEPT ![s] = "failed"] /\ todo' = [todo EXCEPT ![s] = <<>>]
    BY <1>9 DEF Persist, Writing, Fails
  <2>2. \A t \in Sessions : /\ pc'[t] = pc[t] \/ (pc'[t] = "failed" /\ pc[t] # "done")
                            /\ todo'[t] = todo[t] \/ todo'[t] = <<>>
    BY <2>1 DEF IInv, TypeInv
  <2> QED BY <2>1, <2>2, StartKept
<1> QED BY <1>1, <1>2, <1>3, <1>4, <1>5, <1>6, <1>7, <1>8, <1>9, StartCommit
        DEF Next, Advance

LEMMA StartInit == Init => StartInv
<1> SUFFICES ASSUME Init PROVE StartInv
  OBVIOUS
<1>1. /\ cache = None /\ DOMAIN db.steps = {}
      /\ \A s \in Sessions : pc[s] = "idle" /\ made[s] = <<>> /\ todo[s] = <<>>
  BY DEF Init, NewWorkflow
<1>2. <<>> \in Seq(Seq(HandlerCalls))
  OBVIOUS
<1> QED BY <1>1, <1>2, HoldsNone DEF StartInv, SessionStart, OneFirst, InUse, Sessions

(* A workflow is started once, whatever commands and events do at the same *)
(* time, because the hook of a start adds a step (P00.015) and the row of  *)
(* the first step is inserted once (start, _add_step, persist_mutations).  *)
THEOREM StartIsUnique == Spec => []StartedOnce
<1>1. ASSUME StartInv PROVE StartedOnce
  <2> DEFINE T == {s \in Sessions : Started(s)}
  <2>1. ASSUME NEW s \in T, NEW t \in T PROVE s = t
    <3>1. /\ pc[s] = "done" /\ Begun(made[s]) /\ pc[t] = "done" /\ Begun(made[t])
      BY <2>1 DEF Started, Begun
    <3>2. First(made[s]) /\ First(made[t])
      BY <1>1, <3>1 DEF StartInv, SessionStart
    <3> QED BY <1>1, <3>1, <3>2 DEF StartInv, OneFirst
  <2>2. CASE T = {}
    <3>1. Cardinality(T) = 0
      BY <2>2, FS_EmptySet
    <3> QED BY <3>1 DEF StartedOnce
  <2>3. CASE T # {}
    <3>1. PICK s : s \in T
      BY <2>3
    <3>2. T = {s}
      BY <2>1, <3>1
    <3> HIDE DEF T
    <3>3. Cardinality(T) = 1
      BY <3>2, FS_Singleton
    <3> QED BY <3>3 DEF StartedOnce, T
  <2> QED BY <2>2, <2>3
<1>2. Init => LockInv /\ StartInv BY LocksInit, StartInit
<1>3. IInv /\ LockInv /\ StartInv /\ [Next]_vars => LockInv' /\ StartInv'
  BY LocksNext, StartNext
<1>4. StartInv => StartedOnce BY <1>1
<1> QED BY <1>2, <1>3, <1>4, SessionsInvariant, PTL DEF Spec
=============================================================================

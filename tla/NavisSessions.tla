--------------------------- MODULE NavisSessions ---------------------------
(***************************************************************************)
(* One workflow under several sessions. A command (navis/domain/aggregate) *)
(* makes a WorkflowManager of its own, hence a runner loaded from the      *)
(* tables; WorkflowEventHandler (navis/domain/event.py) keeps one manager  *)
(* for all the requests of its process, and that manager a runner it never *)
(* loads again. NavisRunner shows what a runner does to itself and to its  *)
(* tables alone; this module shows what several do to the same tables.     *)
(*                                                                         *)
(* Work on a runner is synchronous, so one action here; draining its queue *)
(* follows at once, with no await in between. Each mutation drained is a   *)
(* statement of the session's database transaction and may wait for the    *)
(* row, be refused or fail. Hooks and what they call are one sequence of   *)
(* calls; steps are of one `multiple` key, numbered as they are added, and *)
(* of one class, with states of its own beside the first and the final one.*)
(***************************************************************************)
EXTENDS NavisStatus, Sequences

CONSTANTS
  Commands, Requests, \* sessions: workflow commands, events of one process
  Orders,             \* what a command may call: sequences of calls
  Events,             \* what an event triggers: sequences of such sequences
  Wf,                 \* the workflow_state row, beside the steps' rows
  States,             \* __states__ of the steps
  Barred,             \* the moves <<from, to>> their __transitions__ refuse
  MaxRestarts         \* bound: restarts of the event handler's process

Sessions == Commands \cup Requests
Begin  == "_CREATED"
Finish == "_FINISHED"

Calls == [op : {"start", "cancel", "pause", "trigger", "memorize", "add_step", "raise"},
          step : {None}, to : {None}]
         \cup [op : {"transit"}, step : Nat, to : States]

ASSUME SessionsAssumption ==
  /\ Commands \cap Requests = {} /\ None \notin Sessions /\ MaxRestarts \in Nat
  /\ Orders \subseteq Seq(Calls) /\ Events \subseteq Seq(Seq(Calls)) \ {<<>>}
  /\ Wf \notin Nat
ASSUME StatesAssumption == {Begin, Finish} \subseteq States /\ Barred \subseteq States \X States

(* start ends in an error unless its hook has added a step (P00.015), and  *)
(* only a command calls it: it is external, and the proxies that hooks and *)
(* event handlers get do not offer it.                                     *)
HandlerCalls == {c \in Calls : c.op # "start"}
ASSUME StartAssumption ==
  /\ \A order \in Orders : \A i \in DOMAIN order :
       order[i].op = "start" =>
         \E j \in DOMAIN order : j > i /\ order[j].op \in {"add_step", "raise"}
  /\ Events \subseteq Seq(Seq(HandlerCalls))

VARIABLES
  db,      \* committed rows: status, progress and memory of the workflow, steps
  log,     \* committed rows of workflow_mutation: <<transaction, writer, place>>
  cache,   \* the event handler's runner, None before the first event
  view,    \* per session: the runner it has just loaded
  pc,      \* per session: "idle", "loaded", "persisting", "done" or "failed"
  todo,    \* per session: the handlers its event has still to trigger
  made,    \* per session: the mutations it has drained from its runner
  at,      \* per session: how many of them it has written
  restarts
vars == <<db, log, cache, view, pc, todo, made, at, restarts>>
tables == <<db, log>>
With(f, s, x) == [f EXCEPT ![s] = x]
-----------------------------------------------------------------------------
(* A step's row: the final state completes it, going back to the first one *)
(* leaves its status as it is, any other state makes it active.            *)
NewStep == [state |-> Begin, status |-> "ACTIVE"]
Moved(step, to) ==
  [state |-> to, status |-> CASE to = Finish -> "COMPLETED"
                              [] to = Begin -> step.status
                              [] OTHER -> "ACTIVE"]
StepAfter(steps, e) ==
  IF e.kind = "insert" \/ e.row \notin DOMAIN steps THEN NewStep
  ELSE Moved(steps[e.row], e.value)

(* A runner: the rows as it believes them, its queue, its _transaction_id. *)
NewWorkflow == [status |-> "NEW", progress |-> <<0, 1>>, memory |-> {},
                steps |-> [n \in {} |-> NewStep]]
Loaded(rows) == [rows |-> rows, queue |-> <<>>, txn |-> None]

Applied(rows, e) ==
  IF e.row = Wf THEN [rows EXCEPT ![e.column] = e.value]
  ELSE [rows EXCEPT !.steps = [n \in DOMAIN @ \cup {e.row} |->
                                 IF n = e.row THEN StepAfter(@, e) ELSE @[n]]]

AllApplied(rows, es) ==
  LET after[i \in 0 .. Len(es)] ==
        IF i = 0 THEN rows ELSE Applied(after[i - 1], es[i])
  IN after[Len(es)]

Mutate(r, kind, row, column, value) ==
  LET e == [txn |-> r.txn, kind |-> kind, row |-> row, column |-> column, value |-> value]
  IN [r EXCEPT !.rows = Applied(@, e), !.queue = Append(@, e)]
SetState(r, column, value) == Mutate(r, "update", Wf, column, value)

(* _add_step numbers a step by the steps there are in memory.              *)
StepIndex(r)  == Cardinality(DOMAIN r.rows.steps) + 1
StepNumber(r) == Cardinality(DOMAIN r.rows.steps)

(* _transit: nothing is checked, and nothing done, where the step is at    *)
(* that state already; what is refused depends on the state the runner has *)
(* in memory.                                                              *)
MayTransit(from, to) == to = from \/ <<from, to>> \notin Barred

StatusCalls == {"start", "cancel", "pause"}
Accepts(r, c) ==
  /\ c.op # "raise" /\ r.rows.status \in AllowedAt(c.op, FALSE)
  /\ c.op \in StatusCalls => MayChangeStatus(r.rows.status)
  /\ c.op = "add_step" => StepNumber(r) \notin DOMAIN r.rows.steps
  /\ c.op = "transit" => /\ c.step \in DOMAIN r.rows.steps
                         /\ MayTransit(r.rows.steps[c.step].state, c.to)

StepStatusIn(steps) == [n \in DOMAIN steps |-> steps[n].status]
Reconciled(r) ==
  LET now == Progress(StepStatusIn(r.rows.steps), DOMAIN r.rows.steps)
  IN IF SameFraction(now, r.rows.progress) THEN r ELSE SetState(r, "progress", now)

(* One call of an action. memorize writes the whole dictionary, with a key *)
(* of the session's own added; transit takes a step from any of its states *)
(* to any other, the final one included.                                   *)
Effect(r, c) ==
  CASE c.op \in StatusCalls -> SetState(r, "status", TargetOf(c.op, None))
    [] c.op = "memorize" -> SetState(r, "memory", r.rows.memory \cup {r.txn})
    [] c.op = "add_step" -> Mutate(r, "insert", StepNumber(r), "step", Begin)
    [] c.op = "transit" ->
         Reconciled(IF r.rows.steps[c.step].state = c.to THEN r
                    ELSE Mutate(r, "update", c.step, "step", c.to))
    [] OTHER -> r

(* The calls of a `with wf.transaction()` block, up to the first refused.  *)
Outcome(r, s, calls) ==
  LET after[i \in 0 .. Len(calls)] ==
        IF i = 0 THEN [runner |-> [r EXCEPT !.txn = s], raised |-> FALSE]
        ELSE LET a == after[i - 1]
             IN IF a.raised \/ ~Accepts(a.runner, calls[i]) THEN [a EXCEPT !.raised = TRUE]
                ELSE [a EXCEPT !.runner = Effect(@, calls[i])]
  IN after[Len(calls)]

(* The block's end resets the transaction, an exception does not.          *)
LeftByFinally(a) == [a.runner EXCEPT !.txn = None]
LeftBlock(a) == IF a.raised THEN a.runner ELSE [a.runner EXCEPT !.txn = None]
-----------------------------------------------------------------------------
Init ==
  /\ db = NewWorkflow /\ log = {} /\ cache = None /\ restarts = 0
  /\ view = [s \in Sessions |-> None] /\ pc = [s \in Sessions |-> "idle"]
  /\ todo = [s \in Sessions |-> <<>>]
  /\ made = [s \in Sessions |-> <<>>] /\ at = [s \in Sessions |-> 0]

(* Session s works on runner r, then drains its queue; a request leaves    *)
(* the runner in the cache. A runner whose transaction was never closed    *)
(* refuses to open another (P00.009).                                      *)
Keeps(s, r) == cache' = IF s \in Requests THEN r ELSE cache
BreaksOff(s) == pc' = With(pc, s, "failed") /\ UNCHANGED todo
Fails(s) == pc' = With(pc, s, "failed") /\ todo' = With(todo, s, <<>>)

Enter(s, r, programs) ==
  LET a    == Outcome(r, s, Head(programs))
      left == LeftBlock(a)
  IN IF a.raised THEN Keeps(s, left) /\ Fails(s) /\ UNCHANGED made
     ELSE /\ Keeps(s, [left EXCEPT !.queue = <<>>])
          /\ made' = With(made, s, made[s] \o left.queue)
          /\ pc' = With(pc, s, "persisting") /\ todo' = With(todo, s, Tail(programs))
Work(s, r, programs) ==
  /\ view' = With(view, s, None)
  /\ UNCHANGED <<tables, at, restarts>>
  /\ IF r.txn = None THEN Enter(s, r, programs)
     ELSE Keeps(s, r) /\ Fails(s) /\ UNCHANGED made

(* A command fetches the workflow into a fresh runner. Nothing it touches  *)
(* before its first statement is shared, so loading and working are one.   *)
Command(c, order) == pc[c] = "idle" /\ Work(c, Loaded(db), <<order>>)

(* process_event: without a runner in the cache it is loaded, and two      *)
(* requests may both do so; the later one's runner is kept.                *)
Miss(q, event) ==
  /\ pc[q] = "idle" /\ cache = None
  /\ pc' = With(pc, q, "loaded") /\ todo' = With(todo, q, event)
  /\ view' = With(view, q, Loaded(db))
  /\ UNCHANGED <<tables, cache, made, at, restarts>>
LoadedEvent(q) == pc[q] = "loaded" /\ Work(q, view[q], todo[q])
Event(q, event) == pc[q] = "idle" /\ cache # None /\ Work(q, cache, event)
-----------------------------------------------------------------------------
(* Persisting: rows are locked from the statement that writes them to the  *)
(* end of the transaction.                                                 *)
NeverReleased(s) == {made[s][i].row : i \in 1 .. at[s]}
Locks(s) == IF pc[s] = "persisting" THEN {made[s][i].row : i \in 1 .. at[s]} ELSE {}
Committed(row) == row = Wf \/ row \in DOMAIN db.steps

Writing(s) == pc[s] = "persisting" /\ at[s] < Len(made[s])
Statement(s) == made[s][at[s] + 1]

(* An update waits for whoever has written the committed row, an insert    *)
(* for whoever has inserted the same id; a row another session has not     *)
(* committed is not seen by an update.                                     *)
Holders(s) ==
  LET e == Statement(s)
  IN {t \in Sessions \ {s} : /\ e.row \in Locks(t)
                             /\ Committed(e.row) <=> e.kind = "update"}
Waits(s) == Writing(s) /\ Holders(s) # {}

(* insert_data is refused a row that exists, update_data one that does not *)
RefusedUpdate(s, e) == e.kind = "update" /\ ~Committed(e.row) /\ e.row \notin Locks(s)
Refused(s, e) == (e.kind = "insert") <=> (Committed(e.row) \/ e.row \in Locks(s))

Persist(s) ==
  /\ Writing(s) /\ Holders(s) = {}
  /\ IF Refused(s, Statement(s)) THEN Fails(s) /\ UNCHANGED at
     ELSE at' = With(at, s, at[s] + 1) /\ UNCHANGED <<pc, todo>>
  /\ UNCHANGED <<tables, cache, view, made, restarts>>

(* Everything drained is written: the event's next handler is triggered on *)
(* the runner in the cache, or the transaction commits.                    *)
Drained(s) == pc[s] = "persisting" /\ at[s] = Len(made[s])
NextTrigger(q) == Drained(q) /\ todo[q] # <<>> /\ Work(q, cache, todo[q])

Commit(s) ==
  /\ Drained(s) /\ todo[s] = <<>>
  /\ db' = AllApplied(db, made[s])
  /\ log' = log \cup {<<made[s][i].txn, s, i>> : i \in DOMAIN made[s]}
  /\ pc' = With(pc, s, "done")
  /\ UNCHANGED <<cache, view, todo, made, at, restarts>>

(* A statement or the commit fails in the database: a rollback, of which   *)
(* the runner learns nothing.                                              *)
DatabaseError(s) ==
  /\ pc[s] = "persisting" /\ Fails(s)
  /\ UNCHANGED <<tables, cache, view, made, at, restarts>>

(* Sessions that wait for each other: the database ends one of them.       *)
Awaited(s) ==
  LET after[n \in Nat] ==
        IF n = 0 THEN Holders(s)
        ELSE after[n - 1] \cup UNION {Holders(t) : t \in {u \in after[n - 1] : Waits(u)}}
  IN after[Cardinality(Sessions)]
Deadlocked(s) == Waits(s) /\ s \in Awaited(s)
Victim(s) == Deadlocked(s) /\ DatabaseError(s)

(* The event handler's process restarts: its requests are cut off.         *)
Restart ==
  /\ restarts < MaxRestarts /\ restarts' = restarts + 1 /\ cache' = None
  /\ LET cut == {q \in Requests : pc[q] \in {"loaded", "persisting"}}
     IN /\ pc' = [s \in Sessions |-> IF s \in cut THEN "failed" ELSE pc[s]]
        /\ todo' = [s \in Sessions |-> IF s \in cut THEN <<>> ELSE todo[s]]
        /\ view' = [s \in Sessions |-> None]
  /\ UNCHANGED <<tables, made, at>>
-----------------------------------------------------------------------------
Advance(s) == \/ Commit(s)
              \/ Persist(s)
              \/ s \in Requests /\ LoadedEvent(s)
              \/ s \in Requests /\ NextTrigger(s)
Next ==
  \/ \E c \in Commands, order \in Orders : Command(c, order)
  \/ \E q \in Requests, event \in Events : Event(q, event)
  \/ \E q \in Requests, event \in Events : Miss(q, event)
  \/ \E s \in Sessions : Advance(s)
  \/ \E s \in Sessions : DatabaseError(s)
  \/ Restart

(* The event loops and the database run what can run, and the database     *)
(* ends a deadlock. It need not be fair to each session: all are finite.   *)
Advances == \E s \in Sessions : Advance(s) \/ Victim(s)
Spec == Init /\ [][Next]_vars /\ WF_vars(Advances)
-----------------------------------------------------------------------------
IsRows(r) ==
  /\ r.status \in WorkflowStatus /\ r.progress \in Nat \X Nat /\ r.memory \subseteq Sessions
  /\ DOMAIN r.steps \subseteq Nat
  /\ \A n \in DOMAIN r.steps : r.steps[n] \in [state : States, status : {"ACTIVE", "COMPLETED"}]
IsMutation(e) ==
  /\ e.txn \in Sessions /\ e.kind \in {"insert", "update"}
  /\ \/ e.row = Wf /\ e.kind = "update" /\ e.column \in {"status", "progress", "memory"}
     \/ e.row \in Nat /\ e.column = "step" /\ e.value \in States
IsRunner(r) ==
  /\ IsRows(r.rows) /\ r.txn \in Sessions \cup {None}
  /\ \A i \in DOMAIN r.queue : IsMutation(r.queue[i])
TypeOK ==
  /\ IsRows(db) /\ (cache # None => IsRunner(cache))
  /\ log \subseteq Sessions \X Sessions \X Nat
  /\ \A s \in Sessions :
       /\ pc[s] \in {"idle", "loaded", "persisting", "done", "failed"}
       /\ (pc[s] = "loaded" => IsRunner(view[s]) /\ todo[s] # <<>>)
       /\ at[s] \in 0 .. Len(made[s]) /\ \A i \in DOMAIN made[s] : IsMutation(made[s][i])
       /\ (pc[s] \in {"done", "failed"} => todo[s] = <<>>)

(* Everything a session did to the workflow is in the tables, once and     *)
(* under its own transaction, or nothing of it is, although requests share *)
(* a runner and its queue, an exception leaves that queue as it is, and    *)
(* persist empties it before the first statement (commit, persist, the     *)
(* missing finally of transaction()).                                      *)
TransactionsAreWhole ==
  \A s \in Sessions :
    {w \in log : s \in {w[1], w[2]}} =
      IF pc[s] = "done" THEN {<<s, s, i>> : i \in DOMAIN made[s]} ELSE {}

(* A workflow is started once. Two commands may both load it as NEW and    *)
(* both pass start's guard; what refuses the second is the id of the first *)
(* step its on_start hook adds, which it derives as the first one did      *)
(* (start, _add_step, persist_mutations).                                  *)
Started(s) == pc[s] = "done" /\ \E i \in DOMAIN made[s] :
                                  made[s][i].column = "status" /\ made[s][i].value = "ACTIVE"
StartedOnce == Cardinality({s \in Sessions : Started(s)}) <= 1

(* A step's row, once committed, is not removed, and not replaced by a     *)
(* runner that does not know of it and gives a new step the same number:   *)
(* it changes only where a session that commits has moved that step, and   *)
(* has not added it (_add_step, _wfbyres, insert_data). Nothing more stays:*)
(* a runner may take a step out of its final state, as _transit accepts    *)
(* every state the class does not bar, and one that is stale may do so     *)
(* where the class bars it: P00.008 is decided by the runner's own memory. *)
Ends(s) == pc[s] = "persisting" /\ pc'[s] = "done"
Writes(s, n) == {i \in DOMAIN made[s] : made[s][i].row = n}
StepsStay ==
  [][\A n \in DOMAIN db.steps :
       /\ n \in DOMAIN db'.steps
       /\ \A s \in Sessions : Ends(s) => \A i \in Writes(s, n) : made[s][i].kind = "update"
       /\ \/ db'.steps[n] = db.steps[n]
          \/ \E s \in Sessions : Ends(s) /\ Writes(s, n) # {}]_vars

(* Steps are numbered without gaps, except where a request of the event    *)
(* handler failed after its step had got its number: its runner goes on    *)
(* counting that step (_add_step, persist, _wfbyres). A gap matters: a     *)
(* runner loaded anew counts one less and meets a number in use (P00.017). *)
LostSteps ==
  UNION {{made[q][i].row : i \in DOMAIN made[q]} : q \in {q \in Requests : pc[q] # "done"}}
NumbersWithoutGaps ==
  \A n \in DOMAIN db.steps : \A m \in 0 .. n : m \in DOMAIN db.steps \/ m \in LostSteps

(* Sessions end: again and again none is under way, though rows are taken  *)
(* in different orders, requests wait for rows that commands hold, and     *)
(* some fail or are refused (persist_mutations, transaction of the driver) *)
EverySessionEnds ==
  []<>(\A s \in Sessions : pc[s] \notin {"loaded", "persisting"})
=============================================================================

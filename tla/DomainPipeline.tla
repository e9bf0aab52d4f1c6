--------------------------- MODULE DomainPipeline ---------------------------
(***************************************************************************)
(* Domain.process_command (domain/domain.py) run by several sessions at    *)
(* once, each an asyncio task with a Context, an Aggregate and database    *)
(* transactions of its own: the state manager's and the log store's        *)
(* (SQLDomainLogStore). A command may create its root object, or fetch,    *)
(* update and invalidate it; each of its actions writes the row and makes  *)
(* an event. Events and messages are handled after the commits.            *)
(*                                                                         *)
(* The database is modelled as driver.py uses it, at READ COMMITTED        *)
(* (data/_meta/defaults.py:19): a read sees the transaction's own writes   *)
(* over the committed rows, a write waits for the transaction that has     *)
(* written the row, then meets what that one committed.                    *)
(***************************************************************************)
EXTENDS Naturals, Sequences, FiniteSets

CONSTANTS
  Sessions, Rows,
  Batches,    \* the command sequences a session may process: <<kind, row>>
  Verifying,  \* sessions without a `source`: If-Match is verified for them
  MaxActions, MaxMessages, \* bounds: actions of a command, messages of a session
  None

Kinds == {"create", "update", "remove"}
ASSUME ParameterAssumption ==
  /\ Batches \subseteq Seq(Kinds \X Rows) /\ \A b \in Batches : b # <<>>
  /\ Verifying \subseteq Sessions /\ {MaxActions, MaxMessages} \subseteq Nat

VARIABLES
  rows,      \* committed rows: [status, etag]
  log,       \* committed entries of the command and event logs
  batch, at, \* per session: its commands, the number of the present one
  pc,        \* per session: where process_command is
  seen,      \* per session: the etags its client has seen (If-Match)
  root,      \* per session: etag of the root object fetched (_rootobj)
  acts,      \* per session: events of the present command (_evt_queue)
  writes,    \* per session: uncommitted rows of the state transaction
  logged,    \* per session: uncommitted entries of the log transaction
  evtQueue, msgQueue, \* per session: ctx.evt_queue, ctx.msg_queue
  handled, sent,      \* events and messages handed over, in order
  committed  \* history: sessions whose state transaction committed

session == <<batch, at, pc, seen, root, acts>>
buffers == <<writes, logged>>
queues  == <<evtQueue, msgQueue>>
shared  == <<rows, log, handled, sent, committed>>
vars == <<session, buffers, queues, shared>>
-----------------------------------------------------------------------------
Put(f, s, x) == [f EXCEPT ![s] = x]
NoWrites == [r \in {} |-> None]
Absent == [status |-> "absent", etag |-> None]

Init ==
  /\ rows \in [Rows -> {Absent, [status |-> "live", etag |-> None]}]
  /\ log = {} /\ handled = <<>> /\ sent = <<>> /\ committed = {}
  /\ batch \in [Sessions -> Batches] /\ at = [s \in Sessions |-> 1]
  /\ pc = [s \in Sessions |-> "idle"]
  /\ seen = [s \in Sessions |-> [r \in Rows |-> None]]
  /\ root = [s \in Sessions |-> None]
  /\ acts = [s \in Sessions |-> <<>>]
  /\ writes = [s \in Sessions |-> NoWrites]
  /\ logged = [s \in Sessions |-> {}]
  /\ evtQueue = [s \in Sessions |-> <<>>] /\ msgQueue = [s \in Sessions |-> <<>>]

(* A command is named by its session and number, its k-th event and the    *)
(* row version written with it by k too.                                   *)
Command(s) == <<s, at[s], 0>>
KindOf(s)  == batch[s][at[s]][1]
RowOf(s)   == batch[s][at[s]][2]
Visible(s, r) == IF r \in DOMAIN writes[s] THEN writes[s][r] ELSE rows[r]

(* The client loads the documents, later sends the request with the etag   *)
(* that fetch_command_rootobj reads from the headers if it verifies it.    *)
ClientLoads(s) ==
  /\ pc[s] = "idle" /\ pc' = Put(pc, s, "loaded")
  /\ seen' = Put(seen, s, [r \in Rows |-> IF s \in Verifying THEN rows[r].etag ELSE None])
  /\ UNCHANGED <<batch, at, root, acts, buffers, queues, shared>>

Open(s) ==
  /\ pc[s] = "loaded" /\ pc' = Put(pc, s, "command")
  /\ UNCHANGED <<batch, at, seen, root, acts, buffers, queues, shared>>

(* fetch_command_rootobj: nothing for a resource_init command; otherwise   *)
(* the live row, whose etag must be the If-Match one if that is verified.  *)
IfMatch(s, etag) == s \in Verifying => etag = seen[s][RowOf(s)]
MayFetch(s) ==
  KindOf(s) # "create" =>
    LET item == Visible(s, RowOf(s)) IN item.status = "live" /\ IfMatch(s, item.etag)
RootObject(s) == IF KindOf(s) = "create" THEN None ELSE Visible(s, RowOf(s)).etag

(* Up to the handler: the authorized command is logged, the aggregate set. *)
BeginCommand(s) ==
  /\ pc[s] = "command" /\ pc' = Put(pc, s, "handler")
  /\ MayFetch(s) /\ root' = Put(root, s, RootObject(s))
  /\ logged' = Put(logged, s, logged[s] \cup {Command(s)})
  /\ UNCHANGED <<batch, at, seen, acts, writes, queues, shared>>

(* A handler's aggregate action: it issues a statement on the root row,    *)
(* which runs once no other transaction has a write on it.                 *)
IssueWrite(s) ==
  /\ pc[s] = "handler" /\ Len(acts[s]) < MaxActions
  /\ pc' = Put(pc, s, "writing")
  /\ UNCHANGED <<batch, at, seen, root, acts, buffers, queues, shared>>

Holds(s, r) == r \in DOMAIN writes[s]
HeldByOther(s, r) == \E t \in Sessions \ {s} : Holds(t, r)

(* insert fails on an existing key; update_data matches a row by its key   *)
(* and `_deleted is null`, and must match one (_check_no_item_modified):   *)
(* the etag of the query is in no clause.                                  *)
Inserting(s) == KindOf(s) = "create" /\ acts[s] = <<>>
MatchesAny(s, item) == TRUE
Matches(s, item) == item.status = IF Inserting(s) THEN "absent" ELSE "live"
Written(s) == [status |-> IF KindOf(s) = "remove" THEN "deleted" ELSE "live",
               etag |-> <<s, at[s], Len(acts[s]) + 1>>]
Write(s) ==
  /\ pc[s] = "writing" /\ pc' = Put(pc, s, "handler")
  /\ ~HeldByOther(s, RowOf(s))
  /\ Matches(s, Visible(s, RowOf(s)))
  /\ writes' = Put(writes, s, [r \in DOMAIN writes[s] \cup {RowOf(s)} |->
                                 IF r = RowOf(s) THEN Written(s) ELSE writes[s][r]])
  /\ acts' = Put(acts, s, Append(acts[s], Written(s).etag))
  /\ UNCHANGED <<batch, at, seen, root, logged, queues, shared>>

Members(q) == {q[i] : i \in DOMAIN q}

(* A message goes on its queue as the handler yields it; one per command.  *)
YieldMessage(s) ==
  /\ pc[s] = "handler" /\ Len(msgQueue[s]) < MaxMessages
  /\ Command(s) \notin Members(msgQueue[s])
  /\ msgQueue' = Put(msgQueue, s, Append(msgQueue[s], Command(s)))
  /\ UNCHANGED <<session, buffers, evtQueue, shared>>

(* The handler has returned: its events are queued and logged.             *)
CountsFromZero(s) == at[s] <= Len(batch[s])
HasMore(s) == at[s] < Len(batch[s])
EndCommand(s) ==
  /\ pc[s] = "handler"
  /\ evtQueue' = Put(evtQueue, s, evtQueue[s] \o acts[s])
  /\ logged' = Put(logged, s, logged[s] \cup Members(acts[s]))
  /\ acts' = Put(acts, s, <<>>) /\ root' = Put(root, s, None)
  /\ IF HasMore(s) THEN at' = Put(at, s, at[s] + 1) /\ pc' = Put(pc, s, "command")
                   ELSE at' = at /\ pc' = Put(pc, s, "inner")
  /\ UNCHANGED <<batch, seen, writes, msgQueue, shared>>
-----------------------------------------------------------------------------
(* Leaving `async with statemgr.transaction(), logstore.transaction()`:    *)
(* the inner context manager commits first.                                *)
StateInner == "state"
Inner == "log"
Leaves(s, store) == pc[s] = IF store = Inner THEN "inner" ELSE "outer"
AfterExit(s) == IF pc[s] = "inner" THEN "outer" ELSE "deliver"

CommitLog(s) ==
  /\ Leaves(s, "log") /\ pc' = Put(pc, s, AfterExit(s))
  /\ log' = log \cup logged[s] /\ logged' = Put(logged, s, {})
  /\ UNCHANGED <<batch, at, seen, root, acts, writes, queues, rows, handled, sent, committed>>

CommitState(s) ==
  /\ Leaves(s, "state") /\ pc' = Put(pc, s, AfterExit(s))
  /\ rows' = [r \in Rows |-> Visible(s, r)]
  /\ writes' = Put(writes, s, NoWrites)
  /\ committed' = committed \cup {s}
  /\ UNCHANGED <<batch, at, seen, root, acts, logged, queues, log, handled, sent>>

(* handle_events, then dispatch_messages: each is taken off its queue      *)
(* before it is awaited.                                                   *)
BeforeCommit(s) == pc[s] \in {"outer", "deliver"}
Delivers(s) == pc[s] = "deliver"
HandleEvent(s) ==
  /\ Delivers(s) /\ evtQueue[s] # <<>>
  /\ handled' = Append(handled, Head(evtQueue[s]))
  /\ evtQueue' = Put(evtQueue, s, Tail(evtQueue[s]))
  /\ UNCHANGED <<session, buffers, msgQueue, rows, log, sent, committed>>

DispatchMessage(s) ==
  /\ Delivers(s) /\ evtQueue[s] = <<>> /\ msgQueue[s] # <<>>
  /\ sent' = Append(sent, Head(msgQueue[s]))
  /\ msgQueue' = Put(msgQueue, s, Tail(msgQueue[s]))
  /\ UNCHANGED <<session, buffers, evtQueue, rows, log, handled, committed>>

EventsOnly(s) == evtQueue[s] = <<>>
Delivered(s)  == evtQueue[s] = <<>> /\ msgQueue[s] = <<>>
Respond(s) ==
  /\ pc[s] = "deliver" /\ Delivered(s)
  /\ pc' = Put(pc, s, "done")
  /\ UNCHANGED <<batch, at, seen, root, acts, buffers, queues, shared>>

(* An exception rolls back the transactions not yet committed; what is     *)
(* left on the queues goes with the session's context. It comes out of     *)
(* anything process_command awaits or runs: a refused authorization, a     *)
(* failed commit, a handler's own error, a cancelled task.                 *)
NeverClosed(s) == UNCHANGED writes /\ logged' = Put(logged, s, {})
RollBack(s) == writes' = Put(writes, s, NoWrites) /\ logged' = Put(logged, s, {})
Fail(s) ==
  /\ pc' = Put(pc, s, "failed") /\ RollBack(s)
  /\ UNCHANGED <<batch, at, seen, root, acts, queues, shared>>
Raise(s) ==
  /\ pc[s] \in {"command", "handler", "writing", "inner", "outer", "deliver"}
  /\ Fail(s)

(* The exceptions of the data layer: the root object cannot be fetched, a  *)
(* write matches no row (or an insert one), or the database breaks a cycle *)
(* of sessions that wait for each other.                                   *)
Unmatched(s) == /\ pc[s] = "writing" /\ ~HeldByOther(s, RowOf(s))
                /\ ~Matches(s, Visible(s, RowOf(s)))
Deadlocked(s) ==
  \E waiting \in SUBSET Sessions :
    /\ s \in waiting
    /\ \A t \in waiting : pc[t] = "writing" /\ \E u \in waiting \ {t} : Holds(u, RowOf(t))
Refuse(s) ==
  /\ (pc[s] = "command" /\ ~MayFetch(s)) \/ Unmatched(s) \/ Deadlocked(s)
  /\ Fail(s)
-----------------------------------------------------------------------------
Step(s) == \/ BeginCommand(s) \/ IssueWrite(s) \/ Write(s) \/ YieldMessage(s)
           \/ EndCommand(s) \/ CommitLog(s) \/ CommitState(s)
           \/ HandleEvent(s) \/ DispatchMessage(s) \/ Respond(s) \/ Refuse(s)
Next == \E s \in Sessions : ClientLoads(s) \/ Open(s) \/ Step(s) \/ Raise(s)
Spec == Init /\ [][Next]_vars

(* The event loop resumes every task that can go on; nothing makes a       *)
(* client send a request or an exception happen.                           *)
FairSpec == Spec /\ \A s \in Sessions : WF_vars(Step(s))
-----------------------------------------------------------------------------
Entries  == Sessions \X Nat \X Nat
Versions == [status : {"absent", "live", "deleted"}, etag : Entries \cup {None}]
Places == {"idle", "loaded", "command", "handler", "writing", "inner", "outer",
           "deliver", "done", "failed"}

(* Who may hold what: only a session inside its transactions has writes,   *)
(* log entries or a root object.                                           *)
InTransaction(s) == pc[s] \in {"command", "handler", "writing", "inner", "outer"}
TypeOK ==
  /\ rows \in [Rows -> Versions] /\ log \subseteq Entries
  /\ handled \in Seq(Entries) /\ sent \in Seq(Entries) /\ committed \subseteq Sessions
  /\ batch \in [Sessions -> Batches] /\ pc \in [Sessions -> Places]
  /\ at \in [Sessions -> Nat] /\ \A s \in Sessions : at[s] \in DOMAIN batch[s]
  /\ seen \in [Sessions -> [Rows -> Entries \cup {None}]]
  /\ root \in [Sessions -> Entries \cup {None}]
  /\ acts \in [Sessions -> Seq(Entries)]
  /\ evtQueue \in [Sessions -> Seq(Entries)] /\ msgQueue \in [Sessions -> Seq(Entries)]
  /\ logged \in [Sessions -> SUBSET Entries]
  /\ DOMAIN writes = Sessions
  /\ \A s \in Sessions :
       /\ DOMAIN writes[s] \subseteq Rows
       /\ \A r \in DOMAIN writes[s] : writes[s][r] \in Versions
       /\ ~InTransaction(s) => DOMAIN writes[s] = {} /\ logged[s] = {}

(* Whatever a committed row contains, the log says which command and event *)
(* it comes from, even when a commit fails or the process stops between    *)
(* the two commits (process_command: the log store's transaction is the    *)
(* inner one).                                                             *)
CommandOf(e) == <<e[1], e[2], 0>>
LogCoversState ==
  \A r \in Rows : rows[r].etag # None => {rows[r].etag, CommandOf(rows[r].etag)} \subseteq log

(* Event handlers and message dispatchers see what is committed only, each *)
(* event once and those of a session in the order of its commands and      *)
(* actions (process_command, consume_queue).                               *)
Before(d, e) == d[2] < e[2] \/ (d[2] = e[2] /\ d[3] < e[3])
DeliveredInOrder ==
  \A q \in {handled, sent} : \A i \in DOMAIN q :
    /\ q[i][1] \in committed
    /\ \A j \in 1 .. i - 1 : q[j][1] = q[i][1] => Before(q[j], q[i])

(* A response means that nothing was lost: every logged event of the batch *)
(* was handled and no message is left (Domain.process_command returns      *)
(* after handle_events and dispatch_messages).                             *)
DoneMeansDelivered ==
  \A s \in Sessions : pc[s] = "done" =>
    /\ {e \in log : e[1] = s /\ e[3] > 0} = {e \in Members(handled) : e[1] = s}
    /\ msgQueue[s] = <<>>

(* A removed row never comes back and no row is created twice, although    *)
(* the check of a command (fetch_command_rootobj) and its write are apart  *)
(* and other sessions commit in between.                                   *)
Life == {<<"absent", "live">>, <<"absent", "deleted">>, <<"live", "deleted">>,
         <<"live", "live">>}
RowLifecycle ==
  [][\A r \in Rows : rows'[r] # rows[r] => <<rows[r].status, rows'[r].status>> \in Life]_vars

(* Every request ends, with a response or an exception: a session that     *)
(* waits for a row gets it or is refused (driver.transaction: the session  *)
(* is closed in any case).                                                 *)
EverySessionEnds ==
  \A s \in Sessions : pc[s] = "command" ~> pc[s] \in {"done", "failed"}
-----------------------------------------------------------------------------
(* aggregate.py:168: a command with an If-Match etag is refused when the   *)
(* document was modified since it was loaded. A write of such a command    *)
(* must replace the version the client has seen, or its own.               *)
IfMatchHonoured ==
  [][\A s \in Verifying : s \in committed' \ committed =>
       \A r \in DOMAIN writes[s] :
         rows[r].status = "live" => rows[r].etag = seen[s][r]]_vars
=============================================================================

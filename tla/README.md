# TLA+ models of fluvius

fluvius is a Python toolkit for domain-driven services: commands change
resources through aggregates, workflows follow them, jobs run in workers, and
everything is stored through one data layer. These modules model the parts
whose correctness depends on order: who runs between two awaits, what an
exception leaves behind, which of two commits came first. Paths below are
relative to `src/src/fluvius/`.

## Inventory

### Domain command pipeline (`domain/`)
- **State.** Per request a context (`evt_queue`, `msg_queue`, `rsp_queue`,
  `cmd_queue`) in a context variable, an aggregate with its root object and its
  own event queue, and two open database transactions: the state manager's and
  the log store's.
- **Operations.** `session`, `create_command`, `process_command` (authorize,
  log the command, fetch the root object, run the processors, queue and log the
  events), `handle_events`, `dispatch_messages`.
- **Interaction.** Called by the FastAPI endpoints (one task per request) and
  by `DomainWorker` jobs; writes through the data layer; event handlers drive
  the workflow engine.
- **Hard.** Sessions interleave at every await, at READ COMMITTED; two commits
  in a row; delivery after the commit; If-Match read before the write.
- **Correct means.** The log explains every row; nothing is delivered before
  the commit, out of order or twice; a removed row stays removed; every request
  ends.

### Data layer (`data/`)
- **State.** An engine and its pool, the active session per task (context
  variable), the manager's `_transaction` (one per manager instance).
- **Operations.** `transaction`, `fetch`, `find`, `query`, `insert`, `update`,
  `invalidate`, `remove`.
- **Hard.** Nested transactions reuse the outer session; updates match rows by
  key; rows wait for each other; the pool has a limit.
- **Correct means.** An update of no row fails, a failed transaction leaves
  nothing, a task never uses another task's session.

### Workflow engine (`navis/engine/`) and its domain (`navis/domain/`)
- **State.** A `WorkflowRunner` per workflow: workflow and step records in
  memory, queues of mutations, messages and activities, a counter, the current
  transaction, the action context; a `WorkflowManager` with caches of runners;
  the tables.
- **Operations.** start, cancel, abort, pause, resume, add_step, transit,
  memory and output, add_task, add_participant, trigger; `transaction`,
  `commit`, `persist`, `load_workflow`.
- **Interaction.** Commands and the event handler open a transaction, call
  actions, persist. User code (handlers, transition hooks, `on_<action>` hooks)
  is called by actions and calls actions.
- **Hard.** Re-entrance, exceptions in nested user code, a status checked
  before and used after user code, mutations applied one at a time, reloads;
  one manager shared by all events of a process.
- **Correct means.** Tables and memory agree; failed transactions never reach
  the tables; steps change at active workflows only; every mutation is recorded
  under its action.

### Workers, clients and the tracker (`worker/`, `tracker/`)
- **State.** arq's queue and results in Redis, the job and worker tables, the
  attempts in progress.
- **Operations.** `enqueue_job` and `register_job`; check-in and check-out; the
  wrapper of `decorate_job`: look up, claim or insert, run, update.
- **Hard.** The job is queued before it is registered; every tracker call is a
  transaction of its own; crashes, shutdowns, timeouts, retries.
- **Correct means.** A function runs at most once whatever fails, the row says
  what happened, a final status stays, every queued job ends. That a `Retry`
  runs the function again, as arq's options promise, is not so (below).

### Imports (`dmap/`)
- **State.** Per pipeline a queue, the metadata, the row buffer and the row
  index, which live as long as the import; the thread pool.
- **Operations.** `process_input`: per file a reader that distributes the
  entries, a process per pipeline that makes rows of them and writes them.
- **Hard.** Threads of different speed, a pool smaller than the threads, a read
  timeout that ends a pipeline early, errors handed on through queues.
- **Correct means.** No row is lost, repeated or attributed to another file; an
  import that returns is complete unless a pipeline gave up waiting; it ends.

### Documents and forms (`dform/`)
- **State.** Tables of collections, documents, their filing in collections,
  nodes, form submissions and form elements; every request is a domain command
  with its own transaction.
- **Operations.** create, update, remove of each; copy, move and file a
  document; initialize, update, submit and remove a form.
- **Interaction.** `FormAggregate` runs in a session of the command pipeline;
  a submitted form is an event the workflow engine may be connected to.
- **Hard.** Commands of several statements at READ COMMITTED; look up, then
  insert; removals that cascade under a running command; keys that are freed
  and used again.
- **Correct means.** No row refers to a missing one; a form is one submission,
  whole as far as the element registry knows its names; a submitted form is
  locked; a write hits the row that was found; a moved document is somewhere.

### Media (`media/`)
- **State.** Files in filesystems (disk, S3, GCS), entries in a table, the
  caller's transaction if there is one.
- **Operations.** `put`, `open`/`get`, `copy`, `delete`.
- **Hard.** Two stores with one transaction between them; a call joins its
  caller's transaction and shares its fate; files vanish between awaits.
- **Correct means.** What is read is what was put; file and entry part only
  when something failed; removing neither waits nor deadlocks where the
  filesystem refuses to remove a missing file.

### Not modelled
| component | why |
|---|---|
| `casbin` | one enforcer is shared by concurrent requests, but what it holds between `clear_policy`, an awaited load and `enforce` is decided in pycasbin, which is not in the repository; the code here builds filters |
| `ordinis`, `rulepy` | a loop over sorted rules calling user functions, sequential and without state across calls |
| `fastapi`, `mcp`, `hatchet`, `mqtt` | adapters: parse, call, format; what matters of them (a task per request, `source` set) is stated where a module assumes it; `fastapi/restriction.py` is a table of words |
| `query` | read-only translation of parameters to statements |
| `pdfgen` | formatting and external tools, sequential |
| `auth`, `helper`, `conf`, `error`, `logs` | stateless functions and configuration |
| `manager`, migrations, examples | tools run by hand; sample workflows and domains (`loan_application/process.py` is a workflow definition: data to the engine, which `NavisRunner` models for any definition) |

Large parts of the source are of these kinds (schemas, adapters, formatters,
examples): the models cover the code in which order decides, not most lines.

## Modules

| module | models | uses |
|---|---|---|
| `NavisStatus` | `navis/status.py`, the guards of the actions, `compute_status`, `compute_progress` | |
| `NavisLifecycle` | abstract: what readers of the workflow tables may rely on | |
| `NavisRunner` | one runner, its callers and user code, persist, the tables | `NavisStatus`, instance of `NavisLifecycle` |
| `NavisRunnerProofs`, `NavisDurabilityProofs` | theorems | `NavisRunner`, TLAPS |
| `DomainPipeline` | `process_command` in several sessions over the data layer | |
| `DomainPipelineProofs` | theorems | `DomainPipeline`, TLAPS |
| `NavisSessions` | commands and events on one workflow: several runners, one database | `NavisStatus` |
| `NavisSessionsProofs` | theorems | `NavisSessions`, TLAPS |
| `DocumentForms` | the commands of `dform` in concurrent sessions | |
| `DocumentFormsProofs` | theorems | `DocumentForms`, TLAPS |
| `MediaStore` | `MediaInterface`: filesystem and entry table | |
| `MediaStoreProofs` | theorems | `MediaStore`, TLAPS |
| `WorkerJobs` | client, arq workers, tracker tables | |
| `WorkerJobsProofs` | theorems | `WorkerJobs`, TLAPS |
| `DataImport` | reader and pipeline threads of an import | |
| `DataImportProofs` | theorems | `DataImport`, TLAPS |
| `MCNavisRunner`, `MCNavisSessions`, `MCDomainPipeline`, `MCDocumentForms`, `MCMediaStore` | values of the constants for TLC | |

### NavisRunner and the code
`data` is `_workflow` and `_steps`, `queue` is `_mut_queue`, `counter` is
`_counter`, `txn` is `_transaction_id`, `ctx` is `_action_context`; `stack` is
the Python call stack, and `db` the tables inside the caller's database
transaction. A call is split where user code runs: `Call` is the wrapper up to
that point, `Return` the rest, and `UserCall` may happen in between at any
depth. `Raise` unwinds the stack and leaves `txn` and `ctx` as they are, since
no wrapper has a `finally`. The runner is synchronous, so a transaction of one
runner is not interleaved with anything.

Some operations are modelled as the errors they always end in: `resume` and
`abort` (`_set_state` accepts a new status from ACTIVE or NEW only, so nothing
leaves PAUSED or DEGRADED), `update_workflow`, removal of a participant,
`cancel_task`, and commands that call methods the runner does not have.

### NavisSessions and the code
A session is a command (`Commands`, each with a manager and a runner of its
own) or an event (`Requests`, which share `cache`, the runner that
`WorkflowEventHandler` loaded first and never loads again). Work on a runner is
synchronous: `Enter` makes the calls of a `with wf.transaction()` block and
drains the queue at once, as `commit_workflow` does before its first await.
`made` are the mutations drained, `at` how many are written; `Persist` is one
statement, which takes the row's lock, waits for it, or is refused. What user
code does is the constant `Orders` (per command) and `Events` (per handler an
event triggers): any nesting of calls comes to such a sequence, and
`NavisRunner` shows that the nesting itself is sound. Loading and working of a
command are one action since a fresh runner is seen by nobody else; for the
first event they are two, because two requests can both miss the cache.
Handlers call `start`, `trigger`, `cancel`, `pause`, `memorize`, `add_step` and
`transit`, the last to any state of the step's class: `States` and `Barred` are
its `__states__` and the moves its `__transitions__` refuse. A step's row is its
state and status; `Moved` is `_update_step`, which leaves the status alone on the
way back to the first state. `Accepts` and `Effect` read the runner's rows,
`Applied` at a commit the table's.

### DomainPipeline and the code
`pc` is the place in `process_command`; a step ends at an await where another
task could see a difference. `writes` and `logged` are the uncommitted parts of
the two transactions, `Inner` says which one `async with` leaves first.
`IssueWrite` and `Write` are apart because a statement waits for the row lock.
`Raise` is any exception at any await; `Refuse` the ones the data layer itself
raises, deadlocks included. A version of a row is named by the write that made
it, as the etag does (`generate_etag` draws a fresh token).

A session stands for one request in a task of its own, which is how
`fastapi/domain.py` and `worker/domain.py` open them. `DomainPipeline` assumes
the SQL log store; the default `DomainLogStore` keeps nothing. If-Match is
verified only when the context has no `source`; the FastAPI endpoints always
pass one.

### WorkerJobs and the code
`row` is the job's row, `at` the place of the present attempt in the wrapper,
`queue` and `result` what arq keeps in Redis. arq itself is modelled by what
the code relies on: one attempt of a job at a time, a second one after the
worker is dead, `Retry`, or a shutdown, and failure past `max_tries`. Every
attempt after the first that claimed the row fails on the assertion of
`tracker.py:52`, those that arq makes because the function asked for them
included: `RunsAtMostOnce` holds by that, at the price of the retries that
`worker.py` documents (see the disagreements).
`cancel_job` changes nothing: it raises a `NameError` before its first effect.
`record_health` is a method of a class arq never calls it on, and
`_tracker_checkout` raises before it updates the row, so worker rows stay
STARTED.

### DocumentForms and the code
A command is the sequence of statements its aggregate method issues (`require`
raises when a row is missing, `find` remembers, `insert` and `remove` act on
what was found, `save` is insert or update) and its root object; statements of
different sessions interleave, each with the locks, foreign key checks and
unique keys of `schema.py`. Rows are named by their unique key and carry the
session that inserted them as their `_id`, so that a row removed and created
again is another row. `Registered` are the names of elements the element registry
has; `manager/df/register.py` fills it, no command does, so it is a constant. A
submission passes over an element that neither the form nor the registry has
(`Skip`). `Failure` stands where a method always raises:
`update_form` and `initialize_form` with data read `form_key` of a model that
has none, `submit_form` with `replace` and `update_document_node` with `ctype`
name columns the tables do not have, and `copy_document` fails on the first
node or form it is to copy. The tests of `update_form`
(`src/tests/fluvius_dform/test_form_commands.py:263-335`, and `:677`) expect it to
succeed; they need a database and were not run for these models.

### MediaStore and the code
`files` and `entries` are the two stores, `tx` and `writes` the caller's
transaction. A call is split at its awaits: `Put` has written the file when it
first awaits, `Fetch` is `get_metadata`, and what follows it up to the next
await (`Get`, `CopyFile`, `DeleteFile`) touches the file. `Store` writes the
row in the caller's transaction or in one of its own. A path is in one of two
kinds of filesystem, chosen when the file is put: the `rm` of a disk raises for a
missing path, that of an object store (S3 and GCS, `docs/media_interface.md`; the
`MockFilesystem` of the tests is alike) takes it for removed (`tolerant`). On the
first a second `delete` ends in `NoFile`; on the second it goes on to the row and
waits for the first, finds the row gone or is the victim of a deadlock, which is a
`Fault`. `open` with a write mode is not modelled. `delete` opens no transaction, and
the driver refuses a `remove` outside one (E00.107), so that a delete without
the caller's transaction always raises after the file is gone.

### DataImport and the code
`main`, `file` and `task` are the loop of `process_input` and its threads,
`next` the generator `read_file`, and `queue`, `meta`, `buffer`, `index` the
attributes of each `ProcessPipeline`. A `CSVWriter` writes row by row, an
`SQLWriter` (`Bulk`) first collects the rows of the stream in `batch`. A
pipeline that times out while the reader is still at work leaves the rest of
the file on its queue: its next process begins with it, stops at the old
`ReaderFinished`, and from then on lags a file behind, to the end of the
import. `NothingLost` and `RowCarriesItsFile` say what holds nevertheless, and
`CompleteWhenInTime` what holds if it does not happen.

With a process manager configured no file is imported: `process_pipelines`
registers the file as RUNNING and then calls `file_resource.set` with
positional arguments, which `DataModel.set` does not take (`dmap/entry.py:44`,
`data/data_model/__init__.py`). The model is of imports without one.

## Runs

| run | bounds | shows |
|---|---|---|
| `navis_runner` | two step keys, one selector, one memory key, transactions of 3 and 1 mutations, 2 nested calls, every action | types, `CtxDiscipline`, `Replay`, `AtomicCommit`, `PersistSucceeds` |
| `navis_steps` | transactions of 2 and 3 mutations, 3 nested calls, the actions that move steps and the status | `StepsFrozenUnlessActive`; the tables implement `NavisLifecycle` |
| `navis_completed` | as `navis_steps` | a workflow with all steps finished is not COMPLETED |
| `navis_sessions` | 2 commands, 2 requests, 3 commands to choose from and 4 events of up to 2 handlers, steps of 3 states of which the last may not be left for the second, 1 restart | `TransactionsAreWhole`, `StartedOnce`, `NumbersWithoutGaps`, `StepsStay`, `EverySessionEnds` |
| `domain_pipeline` | 2 sessions, 2 rows, batches of 1 or 2 commands, 1 action each | `LogCoversState`, `RowLifecycle`, `EverySessionEnds` |
| `domain_delivery` | 2 sessions, 1 row, 2 actions and 2 messages | `DeliveredInOrder`, `DoneMeansDelivered` |
| `domain_ifmatch` | as `domain_pipeline`, one verifying session | a lost update in spite of If-Match |
| `worker_jobs` | 1 job, 3 workers, 3 tries, all faults | at most one run, truthful rows, final statuses stay, the job ends |
| `data_import` | 3 files of up to 2 rows, a CSV and an SQL pipeline, a pool of 2, all faults | `NothingLost`, `RowCarriesItsFile`, `CompleteWhenInTime`, `EveryImportEnds` |
| `document_forms` | 3 sessions, 2 of them with 21 commands to choose from; 2 collections, 2 documents, 2 nodes, a form with 3 names of elements, one of them not registered; 2 initial databases | `NoOrphans`, `SubmittedIsLocked`, `LastSubmissionWhole`, `WritesHitTheirRow` |
| `document_move` | 2 moves of a document filed in both collections | the document ends in neither |
| `media_store` | 2 tasks, 2 files in either kind of filesystem, 2 methods or none, transactions, faults | `ReadsReturnWhatWasPut`, `OnlyFailuresTear`, `RemoveNeverWaits` |

**Bounds.** `MaxMutations` bounds the mutations of each transaction and its
length the transactions: a transaction that is persisted, one that fails and a
reload fit, and a second transaction meets the ids of the first. `MaxDepth`
bounds nested calls: 2 puts an action in a handler, 3 puts a transition in a
hook of a transition in a handler. `Vocabulary` restricts the actions, so that
deeper runs leave out those that touch neither steps nor status. In
`DomainPipeline`, `Batches` holds opposite lock orders (deadlock), a removal
under an update and two creations of a row; `MaxActions` and `MaxMessages`
bound what a handler does: 2 of each are needed for the order within a command,
which `domain_delivery` has. Jobs do not interact, so one is enough; three
workers allow two to die in turn; three tries cover a first attempt, one that
finds a claimed row and one after that. In `DataImport`, three files let a
pipeline lag one and two files behind, two rows show order and index, a pool of
two makes a pipeline wait for the reader.
In `NavisSessions`, two requests share the runner while two commands make it
stale; the events hold both lock orders, an event of two handlers (one persist
after the other in a transaction), a handler that raises half-way and one that
adds a step; two such commands make the deadlock, one restart reloads the
runner; three states let steps go forward, back to the first one and out of the
last, each on fresh and on stale runners. In `DocumentForms`, two sessions conflict, and the third removes rows
and creates their successors under them; two registered elements show a submission torn
between two, the third name is dropped. In `MediaStore`, two files are enough for a copy of a file that is
being deleted and for two deletes in opposite orders, two methods for a reader
with the wrong one.

**Deadlock.** All configurations say `CHECK_DEADLOCK FALSE`: a system that has
no further request, transaction or job really stops. That nobody waits for ever
is `EverySessionEnds`, `EveryJobFinishes` and `EveryImportEnds`; `MediaStore` and
`DocumentForms` state no liveness.

**Fairness.** `DomainPipeline`: weak fairness of `Step(s)` of each session, as
the event loop resumes every task that can go on and the database breaks
deadlocks; none on clients sending requests nor on exceptions. `WorkerJobs`:
weak fairness of taking a job and of each attempt's next step; none on clients,
crons, worker starts, timeouts or faults, and `EveryJobFinishes` assumes only
that some worker stays up. `DataImport`: weak fairness of the main thread and
of every thread of the pool, a waiting `get(timeout)` included; none on faults.
`NavisSessions`: weak fairness of one action, that some session can advance or
the database ends a deadlock; each session has finitely many statements, so no
fairness between them is needed. `NavisRunner` states no liveness: it is driven by its
callers.

## Disagreements with the code's own words
PROJECT.json "findings" quotes the lines of those a run shows: `compute_status`
compares step objects with statuses, so no workflow completes; the etag
reaches the update query and is not used there; two opposite moves leave a
document in no collection.

Others were met while modelling, and the models have the code's behaviour:
- "whether to retry jobs on Retry or CancelledError or not" (`worker.py:141`),
  "maximum number of times to retry a job" (138) and "use 1 to prevent
  retrying" (49) promise retries. With a tracker none of them reaches the
  function: the first attempt has claimed the row, nothing gives the claim
  back, and every later attempt, on the same worker too, fails on the assertion
  of `tracker.py:52`. `RunsAtMostOnce` says what the code does, and is as much
  a defect of the retries as a guarantee.
- `submit-form` "Creates new elements if they don't exist"
  (`dform/domain/datadef.py:184`), but one that the element registry does not
  have is dropped without an error (`aggregate.py:845` has no else), and the
  form is saved and locked all the same. `LastSubmissionWhole` is therefore
  about the elements the registry has.
- A move of a step that its class bars raises P00.008, "Transition to state not
  allowed" (`docs/errors/@ERROR_CODES.md:173`), but decided by the state in the
  runner's memory (`runner.py:420-424`): see the stale runner below.
- `_transit` checks the origin state before the transition hook runs; a hook
  that moves its own step defeats the table (`runner.py:420-426`).
- "Run all command within a single transaction context" (`domain.py:482`) is
  two transactions, and the log's commits first.
- A client that registers its job between the worker's lookup and insert makes
  the worker fail the job; its row reads SUBMITTED, "Pending", for ever.
- On a stale cached runner an event takes a cancelled workflow to PAUSED, moves
  the steps of a cancelled one, and rewrites the whole memory dictionary
  without the keys others have added, although `status.py` lists CANCELLED as
  finished; it also takes a finished step, COMPLETED in its row, back to an
  active state though its class bars that, while the workflow's progress still
  counts it. `StepsStay` (no step is removed or replaced, and it changes only
  by moves of that step) and `StartedOnce` are what remains true.
- A step moved back to its first state keeps the status COMPLETED
  (`_update_step`, `runner.py:352-358`), and any finished step may be moved on
  unless its class bars it, though the docstring of `StepStatus` has no way out
  of the finished statuses.
- A runner that an exception left inside its transaction refuses every later
  one (P00.009). For the event handler this means every later event of the
  workflow until the process restarts; it is also what keeps the mutations of
  the failed block out of the tables (mutant `LeftByFinally`).
- A gap in the numbers of the steps, left by a request that failed in the
  database, makes the next `add_step` of every freshly loaded runner meet an
  id in use (P00.017).
- `add_task` sends its job before its task is persisted, and also if it never
  is.
- `delete` of a medium "Delete a file and its metadata" (`media.py:180`) always
  raises outside a transaction of the caller, with the file gone; `stream`
  sends a compressed file as it is stored.
- "Form is locked and cannot be modified" (`dform/domain/aggregate.py:804`) is
  decided on the form as it was fetched: a submission that commits between
  fetch and write is overwritten, whole. `update_form` would tear `locked` and
  `status` apart if it did not always fail (mutant `UpdateSucceeds`); the tests
  named above expect it to succeed.
- `submit_form` "Validates required elements (if validate=True)"
  (`dform/domain/datadef.py:186`) has no code, and `replace` always fails.
- A second `delete` of a medium in an object store reports success, waits for the
  first, or fails on the row, where one on a disk raises for the file.
- Importing with a process manager fails on its first file (see above).

The completion bug hides a second one. If `compute_status` did what `status.py`
says, a nested transition in a hook could complete the workflow while the outer
transition still has its step to write: the mutant of
`StepsFrozenUnlessActive` shows what such a step would break.

## Proofs
All theorems hold for every value of the constants that satisfies the named
assumptions of the modules. Names are distinct (`NamesAssumption`,
`WorkersAssumption`, the `ParameterAssumption`s, `SessionsAssumption`,
`ImportAssumption`), bounds are natural numbers, hooks and
barred moves are of states, which have the first and the final one
(`StatesAssumption`), batches are non-empty sequences of commands. The inputs
are restricted to what the code can be asked: a session of `DocumentForms` is
sent methods of the aggregate (`MenuAssumption`) on a database whose rows have
their parents, orders and events of `NavisSessions` are sequences of calls of
actions, and the pool of an import has a thread. `StartAssumption`, needed for
`StartedOnce` only, is what the runner enforces around `start`: a start whose
hook leaves no step ends in an error (P00.015, `runner.py:109`), and `start` is
external, so the proxies of hooks and event handlers do not offer it
(`runner.py:46`); `aggregate.py:124` is its one caller. TLC evaluates every
assumption in the runs.

- **NavisRunnerProofs.** `TypeOK` and `CtxDiscipline` are proved together: the
  context says which object an action mutates, so a mutation has a type only if
  context and stack agree, and they agree only while frames are well typed. The
  inductive invariant adds what each kind of frame may hold (a transition's
  subject is a step, proxies are existing objects).
- **NavisDurabilityProofs.** `Replay` says memory is the tables with the queue
  applied. It is not inductive: appending a mutation needs the queue's inserts
  to be first for their object, and persisting needs that the table does not
  have the object yet; `PersistSucceeds` follows from the same facts.
  `AtomicCommit` rests on the wedge: after an exception `txn` stays set, so the
  runner never reaches persist again, and the queue only holds mutations of
  transactions that did not fail until then.
  `StepsFrozenUnlessActive` needs `FrozenInv`, an invariant of the call stack:
  while a frame still has a step to write (a transition around its hook, an
  `add_step` before its memory), the workflow is active, and user code from
  that frame up has step proxies only, so it cannot pause or cancel.
  That the tables implement `NavisLifecycle` needs the queue's future: the
  statuses the tables will pass through are a `Path` from theirs to the one in
  memory, along which every pending mutation is lawful (moves the status along
  the graph, or works on a step at `ACTIVE`). A mutation extends the path at its
  end, persist consumes its first step, and that step is one of the life
  cycle's; that nothing on it is `DEGRADED` is what makes "active" `ACTIVE`.
- **DomainPipelineProofs.** `LogCoversState` needs `WritesExplained`: every
  uncommitted write is explained by an event still with the aggregate, by the
  session's uncommitted log entries, or, once the log is committed, by the log.
  Each action moves a write's explanation one place on, and the log only grows,
  so other sessions cannot take it away. `RowLifecycle` is of what rows turn
  into, and rests on `RowInv`: a row has one uncommitted writer (the row lock),
  and what that writer has made of it is a legal successor of the committed
  row, which nobody changes meanwhile.
  Delivery is proved on top. `OrderInv` follows an event from the aggregate to
  the queue to the handler: queues are sorted by command and action, what was
  handed over of a session comes before all it still has queued, and nothing is
  handed over before the session is in `committed`; `DeliveredInOrder` is a
  part of it. `LoggedInv` says where the events of the log are: with the
  transaction, on the queue, or handled; a session that responds has an empty
  queue, which gives `DoneMeansDelivered`.
- **WorkerJobsProofs.** `RunsAtMostOnce` needs that an attempt which is about
  to run owns the row: `worker` in the row is never given back, a claim is made
  by one attempt at a time, and an attempt that finds the row claimed leaves.
  `RowIsTruthful`, `SuccessIsTracked` and `PendingHasNotRun` follow from what
  row and history may be at each place of the wrapper. `FinalIsForever` is a
  step property proved from it.
- **MediaStoreProofs.** Every place of a call, and every uncommitted row, says
  what table and filesystem hold of its file (`Noted`, `Own`, `Sees`): a row
  describes how its file opens, which gives `ReadsReturnWhatWasPut`. The main
  facts are of two tasks (`Exclusive`): a file being inserted, or inserted and
  not committed, no other task has heard of, because its id is fresh; a file
  one task has removed no other has removed, because the filesystem removes it
  once. What a task that is to delete the row knows is `Gone`: the file is not
  there, and unless the filesystem tolerates missing paths, it was this task that
  removed it; hence `RemoveNeverWaits` is of the other filesystems. With them `Whole` (file and entry agree, or a task at work explains the
  difference, or a failure is recorded) is inductive, and `RemoveNeverWaits`
  follows.
- **NavisSessionsProofs.** `TransactionsAreWhole` needs of the shared runner
  that between two requests it is either idle with an empty queue, or stuck in
  a transaction, which then refuses every later request: so whatever a session
  drains is its own, and it drains it once. `StepsStay` adds the locks
  (`LockInv`): a row has one locker, and what a session has inserted is not
  among the committed rows, so no commit inserts over a step, and a row that
  changes is one the session has updates of.
  `NumbersWithoutGaps` is proved from `NumberInv`: the committed steps with
  those of failed and unfinished requests form an initial segment of the
  numbers, a runner in use knows steps of this segment only, and so the number
  of steps it knows, which it gives the next one, is inside the segment or just
  above it. `StartedOnce` is proved from `StartInv`: no runner has an active
  workflow in memory while the table has a new one, but in the transaction that
  starts it; so a new workflow has no steps, every transaction with a start
  inserts row 0 (`StartAssumption`), and of two such inserts the locks let one
  commit. The model's steps have one key; a hook that gave the first step
  another key in each start is outside it.
  What a block or a commit amounts to is a recursive function over
  its calls or mutations (`Outcome`, `AllApplied`); lemmas unfold them, with
  induction over sets of natural numbers, which needs no operator argument.
- **DocumentFormsProofs.** The argument has two halves. What a command can be
  is read off the methods one by one (`MethodsAreSafe`): it writes no row it
  removes unless nothing refers to such rows, tears no form between `status`
  and `locked` without raising at once, and touches elements only if it ends by
  filing their form. What sessions can do to each other rests on the database:
  one writer per row (`OneWriter`), a session sees the parents of what it wrote
  (`ParentsSeen`), and below a row it deletes there is nothing and nobody else
  writes (`DeletedBelow`: the foreign key's lock on the parent makes inserts
  and removals exclude each other). `NoOrphans` follows from the two for any
  interleaving. `RowsHit` says an uncommitted row is new, or the very row its
  command found; `Named`, `Saved` and `Passed` connect a submission's place in
  its statements with what it has written, so that at its commit the form and
  all registered elements of its payload carry one author and one status
  (`SubmissionFiled`); of the others there is no row, ever (`OnlyKnown`).
- **DataImportProofs.** What a pipeline will take is its `Stream`: its queue
  and, while the reader runs, what that is about to put. Neighbours in a stream
  fit (`Chained`: open, close of the same row, the next row, the end, the
  metadata of the next file), and its head fits what the pipeline kept of the
  entry before (`Keeps`: the metadata are the file's, the buffer has the row to
  be closed). Only taking moves a pipeline on, so this also holds of one that
  lags files behind, which gives `RowCarriesItsFile`; with it each step keeps
  `NothingLost`. `CompleteWhenInTime` needs `Timely`, which holds until the
  first early timeout: the stream is within one file, the index counts its
  rows, and a pipeline that is done has read all of it.

**Only model-checked:**
- liveness: `EverySessionEnds` (of `DomainPipeline` and of `NavisSessions`),
  `EveryJobFinishes`, `EveryImportEnds`; fairness and ENABLED are out of the
  prover's reach;
- the three violations, each shown by a run.

## Plan
1. *(done)* `NavisRunner` with its life cycle, `DomainPipeline`, `WorkerJobs`,
   and their first theorems; `DataImport`.
2. *(done)* `NavisSessions`, `DocumentForms`, `MediaStore`.
3. *(done)* Proofs of every safety invariant and action property the passing
   runs check, and that `NavisRunner` implements `NavisLifecycle`.
4. Steps of several keys in `NavisSessions`, whose ids two runners may derive
   differently.

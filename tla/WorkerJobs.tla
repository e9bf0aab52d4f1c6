---------------------------- MODULE WorkerJobs ----------------------------
(***************************************************************************)
(* Jobs between worker/client.py, the arq workers of worker/worker.py and  *)
(* the tracker's tables (worker/tracker.py over tracker/tracker.py).       *)
(* WorkerClient.enqueue_job puts a job on the Redis queue and registers it *)
(* in the job table afterwards; the worker that takes the job off the      *)
(* queue runs it in FluviusWorkerTracker.decorate_job, which looks the row *)
(* up, claims it (or inserts it), runs the function and updates the row.   *)
(* Every tracker call is a transaction of its own.                         *)
(*                                                                         *)
(* arq and Redis are modelled as the code relies on them: a job of a       *)
(* crashed worker is taken again once its in-progress key has expired, a   *)
(* job that raised Retry or was cancelled by a shutdown is queued again    *)
(* (but its attempts then end in register_job_handle's assertion), a job   *)
(* past MaxTries fails. WorkerClient.cancel_job changes nothing: its   *)
(* get_job (client.py:78) names a default_deserializer that is nowhere     *)
(* imported, so it ends in a NameError.                                    *)
(***************************************************************************)
EXTENDS Naturals, FiniteSets

CONSTANTS
  Jobs, Workers,
  MaxTries,  \* arq's max_tries
  Faults,    \* what may go wrong: "crash", "shutdown", "timeout", "tracker", "redis"
  None

ASSUME WorkersAssumption ==
  /\ None \notin Workers \cup {"success"} /\ MaxTries \in Nat \ {0}
  /\ Faults \subseteq {"crash", "shutdown", "timeout", "tracker", "redis"}

VARIABLES
  client, \* per job: where its enqueue_job is; "cron" has no client
  queue,  \* per job: its state in Redis
  result, \* per job: what arq keeps as its result
  row,    \* per job: its row of the job table
  at,     \* per job: where the wrapper of its present attempt is
  by,     \* per job: the worker of the present attempt
  tries,  \* per job: number of attempts (job_try)
  leaves, \* per job: how the attempt leaves the wrapper
  runs, outcome, \* history, per job: runs of its function, how the last one ended
  worker, \* per worker process: its life
  registry \* rows of the worker table: [status]

redis   == <<queue, result, tries>>
attempt == <<at, by, leaves>>
body    == <<runs, outcome>>
process == <<worker, registry>>
vars == <<client, redis, row, attempt, body, process>>
-----------------------------------------------------------------------------
Put(f, j, x) == [f EXCEPT ![j] = x]
Entry(status, w) == [status |-> status, worker |-> w]
NoRow == Entry("absent", None)
Present(j) == row[j].status # "absent"

Init ==
  /\ client \in [Jobs -> {"idle", "cron"}]
  /\ queue = [j \in Jobs |-> "none"] /\ result = [j \in Jobs |-> None]
  /\ row = [j \in Jobs |-> NoRow] /\ tries = [j \in Jobs |-> 0]
  /\ at = [j \in Jobs |-> "none"] /\ by = [j \in Jobs |-> None]
  /\ leaves = [j \in Jobs |-> None]
  /\ runs = [j \in Jobs |-> 0] /\ outcome = [j \in Jobs |-> None]
  /\ worker = [w \in Workers |-> "off"] /\ registry = [w \in Workers |-> None]
-----------------------------------------------------------------------------
(* The client. A lost connection leaves open whether Redis has the job;    *)
(* the one retry uses the same job id, for which arq's enqueue_job returns *)
(* None if the job is there already: register_job then raises W00.301.     *)
Enqueue(j) ==
  /\ client[j] = "idle" /\ queue' = Put(queue, j, "queued")
  /\ client' = Put(client, j, "register")
  /\ UNCHANGED <<result, tries, row, attempt, body, process>>

LoseConnection(j) ==
  /\ "redis" \in Faults /\ client[j] \in {"idle", "again"} /\ queue[j] = "none"
  /\ \E q \in {"none", "queued"} : queue' = Put(queue, j, q)
  /\ client' = Put(client, j, IF client[j] = "idle" THEN "again" ELSE "raised")
  /\ UNCHANGED <<result, tries, row, attempt, body, process>>

EnqueueAgain(j) ==
  /\ client[j] = "again"
  /\ IF queue[j] = "none"
       THEN queue' = Put(queue, j, "queued") /\ client' = Put(client, j, "register")
       ELSE queue' = queue /\ client' = Put(client, j, "raised")
  /\ UNCHANGED <<result, tries, row, attempt, body, process>>

(* register_job: the insert fails with DuplicateEntryError on a present    *)
(* row; the exception goes to the caller, the job stays on the queue.      *)
Upserted(j) == TRUE
Registrable(j) == ~Present(j)
Register(j) ==
  /\ client[j] = "register"
  /\ IF Registrable(j)
       THEN row' = Put(row, j, Entry("SUBMITTED", None)) /\ client' = Put(client, j, "returned")
       ELSE row' = row /\ client' = Put(client, j, "raised")
  /\ UNCHANGED <<redis, attempt, body, process>>

(* The client's process dies, or the tracker's database fails it, before   *)
(* or after it has committed the insert.                                   *)
ClientFails(j) ==
  /\ "tracker" \in Faults /\ client[j] \in {"again", "register"}
  /\ client' = Put(client, j, "raised")
  /\ \/ row' = row
     \/ client[j] = "register" /\ Registrable(j) /\ row' = Put(row, j, Entry("SUBMITTED", None))
  /\ UNCHANGED <<redis, attempt, body, process>>

(* Cron jobs are queued by arq itself, no client registers them.           *)
CronFires(j) ==
  /\ client[j] = "cron" /\ queue[j] = "none" /\ queue' = Put(queue, j, "queued")
  /\ UNCHANGED <<client, result, tries, row, attempt, body, process>>
-----------------------------------------------------------------------------
(* The worker process: _tracker_checkin at startup, then arq's main loop.  *)
NotTracked(w) == registry
CheckedIn(w) == Put(registry, w, "STARTED")
Startup(w) ==
  /\ worker[w] = "off" /\ worker' = Put(worker, w, "up")
  /\ registry' = CheckedIn(w)
  /\ UNCHANGED <<client, redis, row, attempt, body>>

(* SIGTERM: no job is picked any more, those running are cancelled.        *)
Shutdown(w) ==
  /\ "shutdown" \in Faults /\ worker[w] = "up" /\ worker' = Put(worker, w, "stopping")
  /\ UNCHANGED <<client, redis, row, attempt, body, registry>>

(* _tracker_checkout takes the length of self.tasks, a method: TypeError,  *)
(* and the worker's row is not updated.                                    *)
Checkout(w) ==
  /\ worker[w] = "stopping" /\ \A j \in Jobs : by[j] # w
  /\ worker' = Put(worker, w, "stopped")
  /\ UNCHANGED <<client, redis, row, attempt, body, registry>>

Crash(w) ==
  /\ "crash" \in Faults /\ worker[w] \in {"up", "stopping"}
  /\ worker' = Put(worker, w, "dead")
  /\ LET lost == {j \in Jobs : by[j] = w} IN
       /\ queue' = [j \in Jobs |-> IF j \in lost THEN "queued" ELSE queue[j]]
       /\ at' = [j \in Jobs |-> IF j \in lost THEN "none" ELSE at[j]]
       /\ by' = [j \in Jobs |-> IF j \in lost THEN None ELSE by[j]]
       /\ leaves' = [j \in Jobs |-> IF j \in lost THEN None ELSE leaves[j]]
  /\ UNCHANGED <<client, result, tries, row, body, registry>>

(* arq takes a job off the queue and calls the wrapper, or fails the job.  *)
Pick(j, w) ==
  /\ queue[j] = "queued" /\ worker[w] = "up"
  /\ tries[j] < MaxTries /\ tries' = Put(tries, j, tries[j] + 1)
  /\ queue' = Put(queue, j, "running") /\ by' = Put(by, j, w)
  /\ at' = Put(at, j, "lookup")
  /\ UNCHANGED <<client, result, row, leaves, body, process>>

GiveUp(j, w) ==
  /\ queue[j] = "queued" /\ worker[w] = "up" /\ tries[j] >= MaxTries
  /\ queue' = Put(queue, j, "done") /\ result' = Put(result, j, "failure")
  /\ UNCHANGED <<client, tries, row, attempt, body, process>>
-----------------------------------------------------------------------------
Leave(j, how) == at' = Put(at, j, "left") /\ leaves' = Put(leaves, j, how) /\ by' = by
GoTo(j, place) == at' = Put(at, j, place) /\ UNCHANGED <<by, leaves>>

(* register_job_handle: fetch_entry, then the assertion that nobody has    *)
(* claimed the row, then update_entry; or add_entry if there is no row.    *)
AlwaysFree(j) == TRUE
Unclaimed(j) == row[j].worker = None
WaitForClient(j) == "lookup"
IfAbsent(j) == "insert"
Lookup(j) ==
  /\ at[j] = "lookup"
  /\ \/ ~Present(j) /\ GoTo(j, IfAbsent(j))
     \/ Present(j) /\ Unclaimed(j) /\ GoTo(j, "claim")
     \/ Present(j) /\ ~Unclaimed(j) /\ Leave(j, "error")
  /\ UNCHANGED <<client, redis, row, body, process>>

(* What the tracker call at the present place writes into the row.         *)
ClaimedByNobody(j) == Entry("RECEIVED", None)
Claimed(j) == Entry("RECEIVED", by[j])
Written(j) ==
  CASE at[j] = "claim"   -> Claimed(j)
    [] at[j] = "insert"  -> IF Present(j) THEN row[j] ELSE Claimed(j)
    [] at[j] = "succeed" -> Entry("SUCCESS", row[j].worker)
    [] at[j] = "fail"    -> Entry("ERROR", row[j].worker)
    [] at[j] = "cancel"  -> Entry("CANCELED", row[j].worker)
    [] OTHER             -> row[j]
Writes(j) == row' = Put(row, j, Written(j))

Claim(j) ==
  /\ at[j] = "claim" /\ Writes(j) /\ GoTo(j, "begin")
  /\ UNCHANGED <<client, redis, body, process>>

Insert(j) ==
  /\ at[j] = "insert"
  /\ IF Present(j) THEN Leave(j, "error") ELSE GoTo(j, "begin")
  /\ Writes(j) /\ UNCHANGED <<client, redis, body, process>>

(* The function itself: returns, raises, or asks arq for a Retry.          *)
Begin(j) ==
  /\ at[j] = "begin" /\ GoTo(j, "body")
  /\ runs' = Put(runs, j, runs[j] + 1) /\ outcome' = Put(outcome, j, None)
  /\ UNCHANGED <<client, redis, row, process>>

Return(j) ==
  /\ at[j] = "body" /\ outcome' = Put(outcome, j, "returned") /\ GoTo(j, "succeed")
  /\ UNCHANGED <<client, redis, row, runs, process>>

Throw(j, how) ==
  /\ at[j] = "body" /\ outcome' = Put(outcome, j, "raised")
  /\ at' = Put(at, j, "fail") /\ leaves' = Put(leaves, j, how) /\ by' = by
  /\ UNCHANGED <<client, redis, row, runs, process>>

(* The update that follows: SUCCESS or ERROR; after a CancelledError the   *)
(* row is read again and marked CANCELED unless it is already.             *)
Succeed(j) ==
  /\ at[j] = "succeed" /\ Writes(j) /\ Leave(j, "success")
  /\ UNCHANGED <<client, redis, body, process>>

Fail(j) ==
  /\ at[j] = "fail" /\ Writes(j) /\ Leave(j, leaves[j])
  /\ UNCHANGED <<client, redis, body, process>>

Recheck(j) ==
  /\ at[j] = "recheck"
  /\ GoTo(j, IF row[j].status = "CANCELED" THEN "left" ELSE "cancel")
  /\ UNCHANGED <<client, redis, row, body, process>>

MarkCanceled(j) ==
  /\ at[j] = "cancel" /\ Writes(j) /\ Leave(j, leaves[j])
  /\ UNCHANGED <<client, redis, body, process>>

(* A tracker call raises, before or after its transaction has committed:   *)
(* the exception leaves the wrapper.                                       *)
TrackerCalls == {"lookup", "claim", "insert", "succeed", "fail", "recheck", "cancel"}
Swallowed(j) == IF at[j] = "succeed" THEN "success" ELSE "error"
OnTrackerError(j) == "error"
TrackerFails(j) ==
  /\ "tracker" \in Faults /\ at[j] \in TrackerCalls /\ Leave(j, OnTrackerError(j))
  /\ (row' = row \/ Writes(j))
  /\ UNCHANGED <<client, redis, body, process>>

(* The attempt's task is cancelled, by arq's job timeout or the shutdown   *)
(* of its worker; only in the function is the CancelledError handled, a    *)
(* tracker call may or may not have committed.                             *)
Cancellable(j, why) ==
  /\ why \in Faults /\ at[j] \in TrackerCalls \cup {"body"}
  /\ why = "shutdown" => worker[by[j]] = "stopping"
HandledAsError(j) == IF at[j] = "body" THEN "fail" ELSE "left"
AfterCancel(j) == IF at[j] = "body" THEN "recheck" ELSE "left"
Cancel(j, why) ==
  /\ Cancellable(j, why)
  /\ at' = Put(at, j, AfterCancel(j))
  /\ leaves' = Put(leaves, j, why) /\ by' = by
  /\ outcome' = Put(outcome, j, IF at[j] = "body" THEN "cancelled" ELSE outcome[j])
  /\ (row' = row \/ Writes(j))
  /\ UNCHANGED <<client, redis, runs, process>>

(* arq's end of the attempt: run again, or keep the result.                *)
RunAgain(j) == leaves[j] \in {"retry", "shutdown"}
Finish(j) ==
  /\ at[j] = "left"
  /\ queue' = Put(queue, j, IF RunAgain(j) THEN "queued" ELSE "done")
  /\ result' = Put(result, j, IF RunAgain(j) THEN None
                              ELSE IF leaves[j] = "success" THEN "success" ELSE "failure")
  /\ at' = Put(at, j, "none") /\ by' = Put(by, j, None) /\ leaves' = Put(leaves, j, None)
  /\ UNCHANGED <<client, tries, row, body, process>>
-----------------------------------------------------------------------------
Client(j) == Enqueue(j) \/ EnqueueAgain(j) \/ Register(j)
Attempt(j) == \/ Lookup(j) \/ Claim(j) \/ Insert(j) \/ Begin(j) \/ Return(j) \/ Succeed(j)
              \/ Fail(j) \/ Recheck(j) \/ MarkCanceled(j) \/ Finish(j)
Take(j) == \E w \in Workers : Pick(j, w) \/ GiveUp(j, w)
Fault(j) == \/ LoseConnection(j) \/ ClientFails(j) \/ TrackerFails(j)
            \/ \E how \in {"error", "retry"} : Throw(j, how)
            \/ \E why \in {"timeout", "shutdown"} : Cancel(j, why)
Process(w) == Startup(w) \/ Shutdown(w) \/ Checkout(w) \/ Crash(w)

Next == \/ \E j \in Jobs : Client(j) \/ CronFires(j) \/ Take(j) \/ Attempt(j) \/ Fault(j)
        \/ \E w \in Workers : Process(w)
Spec == Init /\ [][Next]_vars

(* arq polls the queue as long as a worker is up; the event loop resumes   *)
(* the task of an attempt; a function comes to an end.                     *)
FairSpec == Spec /\ \A j \in Jobs : WF_vars(Take(j)) /\ WF_vars(Attempt(j))
-----------------------------------------------------------------------------
Statuses == {"absent", "SUBMITTED", "RECEIVED", "SUCCESS", "ERROR", "CANCELED"}
Final == {"SUCCESS", "ERROR", "CANCELED"}
Ways == {"success", "error", "retry", "timeout", "shutdown"}
Places == TrackerCalls \cup {"none", "begin", "body", "left"}

(* Types; only a started worker has an attempt or a row's worker_id (the   *)
(* foreign key of the job table), and only running jobs have an attempt.   *)
TypeOK ==
  /\ client \in [Jobs -> {"idle", "cron", "again", "register", "returned", "raised"}]
  /\ queue \in [Jobs -> {"none", "queued", "running", "done"}]
  /\ result \in [Jobs -> {None, "success", "failure"}]
  /\ row \in [Jobs -> [status : Statuses, worker : Workers \cup {None}]]
  /\ at \in [Jobs -> Places] /\ by \in [Jobs -> Workers \cup {None}]
  /\ tries \in [Jobs -> 0 .. MaxTries] /\ leaves \in [Jobs -> Ways \cup {None}]
  /\ runs \in [Jobs -> Nat]
  /\ outcome \in [Jobs -> {None, "returned", "raised", "cancelled"}]
  /\ worker \in [Workers -> {"off", "up", "stopping", "stopped", "dead"}]
  /\ registry \in [Workers -> {None, "STARTED"}]
  /\ \A j \in Jobs :
       /\ (queue[j] = "running") = (at[j] # "none")
       /\ (by[j] # None) = (at[j] # "none")
       /\ by[j] # None => worker[by[j]] \in {"up", "stopping"}
       /\ row[j].worker # None => registry[row[j].worker] = "STARTED"

(* A tracked function is never begun a second time: not by a second worker *)
(* after a crash or a shutdown, not by a job queued twice, and not by the  *)
(* retries the docstrings promise either (tracker.py:52: a claim is never  *)
(* given back, every attempt after a claim fails its assertion). A caller  *)
(* may rely on the former; the latter is a defect, against worker.py:49,   *)
(* 138 and 141, where a Retry or a cancellation has a job tried again.     *)
RunsAtMostOnce == \A j \in Jobs : runs[j] <= 1

(* The row never says more than happened: SUCCESS, ERROR and CANCELED are  *)
(* how the function ended, SUBMITTED that it was not begun, and a caller   *)
(* who gets a result finds SUCCESS in the row (decorate_job.wrapper).      *)
RowTellsOutcome ==
  \A j \in Jobs :
    /\ row[j].status = "SUCCESS"  => outcome[j] = "returned"
    /\ row[j].status = "ERROR"    => outcome[j] = "raised"
    /\ row[j].status = "CANCELED" => outcome[j] = "cancelled"
ResultIsTracked ==
  \A j \in Jobs : result[j] = "success" => row[j].status = "SUCCESS"
SubmittedMeansNotRun ==
  \A j \in Jobs : row[j].status = "SUBMITTED" => runs[j] = 0

(* A final status stays: neither a late registration by the client nor a   *)
(* second attempt overwrites it (register_job, register_job_handle).       *)
FinalStays ==
  [][\A j \in Jobs : row[j].status \in Final => row'[j] = row[j]]_vars

(* A queued job gets its result if some worker stays up, even if its       *)
(* client died before registering it (register_job_handle adds the row).   *)
EveryJobFinishes ==
  \A j \in Jobs : (\E w \in Workers : <>[](worker[w] = "up"))
                    => (queue[j] = "queued" ~> queue[j] = "done")
=============================================================================

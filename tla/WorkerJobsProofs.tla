-------------------------- MODULE WorkerJobsProofs --------------------------
(***************************************************************************)
(* WorkerJobs for every set of jobs and workers, every MaxTries and every  *)
(* choice of faults: its types, that a tracked function runs at most once, *)
(* that the row tells the truth and that a final status stays.             *)
(***************************************************************************)
EXTENDS WorkerJobs, TLAPS

(* The places between a claim and the end of the attempt, and those after  *)
(* the function, where the way out is decided.                             *)
Holding == {"begin", "body", "succeed", "fail", "recheck", "cancel"}
Ending  == {"fail", "recheck", "cancel"}

TypeInv ==
  /\ client \in [Jobs -> {"idle", "cron", "again", "register", "returned", "raised"}]
  /\ queue \in [Jobs -> {"none", "queued", "running", "done"}]
  /\ result \in [Jobs -> {None, "success", "failure"}]
  /\ row \in [Jobs -> [status : Statuses, worker : Workers \cup {None}]]
  /\ at \in [Jobs -> Places] /\ by \in [Jobs -> Workers \cup {None}]
  /\ tries \in [Jobs -> 0 .. MaxTries] /\ leaves \in [Jobs -> Ways \cup {None}]
  /\ runs \in [Jobs -> Nat]
  /\ outcome \in [Jobs -> {None, "returned", "raised", "cancelled"}]
  /\ worker \in [Workers -> {"off", "up", "stopping", "stopped", "dead"}]
  /\ registry \in [Workers -> {None, "STARTED"}]

(* Who runs an attempt is a started process with a row.                    *)
Staffed ==
  /\ \A w \in Workers : worker[w] # "off" => registry[w] = "STARTED"
  /\ \A j \in Jobs :
       /\ client[j] = "idle" => queue[j] = "none"
       /\ (queue[j] = "running") = (at[j] # "none")
       /\ (by[j] # None) = (at[j] # "none")
       /\ by[j] # None => worker[by[j]] \in {"up", "stopping"}
       /\ row[j].worker # None => registry[row[j].worker] = "STARTED"

(* A claim is made once, before the first run, and never given back.       *)
ClaimedOnce(j) ==
  /\ row[j].worker = None <=> row[j].status \in {"absent", "SUBMITTED"}
  /\ at[j] = "claim" => row[j].status = "SUBMITTED"
  /\ at[j] \in Holding => row[j].status = "RECEIVED"
  /\ runs[j] <= 1
  /\ row[j].worker = None \/ at[j] = "begin" => runs[j] = 0

(* What the wrapper is about to write, and has written, is what happened.  *)
Truthful(j) ==
  /\ at[j] = "succeed" \/ row[j].status = "SUCCESS" => outcome[j] = "returned"
  /\ at[j] = "fail" \/ row[j].status = "ERROR" => outcome[j] = "raised"
  /\ at[j] \in {"recheck", "cancel"} \/ row[j].status = "CANCELED" => outcome[j] = "cancelled"
  /\ at[j] \in Ending => leaves[j] \in Ways \ {"success"}
  /\ at[j] = "left" /\ leaves[j] = "success" => row[j].status = "SUCCESS"
  /\ result[j] = "success" => row[j].status = "SUCCESS"

JobsInv == \A j \in Jobs : ClaimedOnce(j) /\ Truthful(j)
IInv == TypeInv /\ Staffed /\ JobsInv
-----------------------------------------------------------------------------
USE WorkersAssumption DEF Put, redis, attempt, body, process, GoTo, Leave, Places,
                          TrackerCalls,
                          Ways, Holding, Ending

LEMMA EntryRow ==
  ASSUME NEW s \in Statuses, NEW w \in Workers \cup {None}
  PROVE  /\ Entry(s, w) \in [status : Statuses, worker : Workers \cup {None}]
         /\ Entry(s, w).status = s /\ Entry(s, w).worker = w
BY DEF Entry

LEMMA InitIInv == Init => IInv
<1> SUFFICES ASSUME Init PROVE IInv
  OBVIOUS
<1>0. NoRow \in [status : Statuses, worker : Workers \cup {None}]
      /\ NoRow.status = "absent" /\ NoRow.worker = None
  BY DEF NoRow, Entry, Statuses
<1>1. TypeInv
  BY <1>0 DEF Init, TypeInv, Places, TrackerCalls
<1>2. Staffed
  BY <1>0 DEF Init, Staffed
<1>3. JobsInv
  BY <1>0 DEF Init, JobsInv, ClaimedOnce, Truthful, Holding, Ending
<1> QED BY <1>1, <1>2, <1>3 DEF IInv

(* The client's steps touch the queue and an unclaimed row only.           *)
LEMMA ClientStep ==
  ASSUME IInv, NEW j \in Jobs,
         Enqueue(j) \/ LoseConnection(j) \/ EnqueueAgain(j) \/ Register(j) \/ ClientFails(j) \/ CronFires(j)
  PROVE  IInv'
<1> DEFINE Rows == [status : Statuses, worker : Workers \cup {None}]
<1>0. /\ \A s \in Statuses, w \in Workers \cup {None} :
           Entry(s, w) \in Rows /\ Entry(s, w).status = s /\ Entry(s, w).worker = w
      /\ row[j] \in Rows /\ row[j].status \in Statuses /\ row[j].worker \in Workers \cup {None}
      /\ {"SUBMITTED", "RECEIVED", "SUCCESS", "ERROR", "CANCELED"} \subseteq Statuses
  BY EntryRow DEF IInv, TypeInv, Statuses
<1>1. CASE Enqueue(j)
  <2>1. TypeInv'
    BY <1>0, <1>1 DEF IInv, TypeInv, Enqueue
  <2>2. Staffed'
    BY <1>0, <1>1 DEF IInv, TypeInv, Staffed, JobsInv, ClaimedOnce, Enqueue
  <2>3. JobsInv'
    BY <1>0, <1>1 DEF IInv, TypeInv, Staffed, JobsInv, ClaimedOnce, Truthful, Enqueue
  <2> QED BY <2>1, <2>2, <2>3 DEF IInv
<1>2. CASE LoseConnection(j)
  <2>1. TypeInv'
    BY <1>0, <1>2 DEF IInv, TypeInv, JobsInv, Truthful, LoseConnection
  <2>2. Staffed'
    BY <1>0, <1>2 DEF IInv, TypeInv, Staffed, JobsInv, ClaimedOnce, LoseConnection
  <2>3. JobsInv'
    BY <1>0, <1>2 DEF IInv, TypeInv, Staffed, JobsInv, ClaimedOnce, Truthful,
                      LoseConnection
  <2> QED BY <2>1, <2>2, <2>3 DEF IInv
<1>3. CASE EnqueueAgain(j)
  <2>1. TypeInv'
    <3>1. /\ queue' = Put(queue, j, "queued") \/ queue' = queue
          /\ client' = Put(client, j, "register") \/ client' = Put(client, j, "raised")
          /\ UNCHANGED <<result, tries, row, attempt, body, process>>
      BY <1>3 DEF EnqueueAgain
    <3>2. queue' \in [Jobs -> {"none", "queued", "running", "done"}]
      BY <3>1 DEF IInv, TypeInv
    <3>3. client' \in [Jobs -> {"idle", "cron", "again", "register", "returned", "raised"}]
      BY <3>1 DEF IInv, TypeInv
    <3> QED BY <3>1, <3>2, <3>3 DEF IInv, TypeInv
  <2>2. Staffed'
    BY <1>0, <1>3 DEF IInv, TypeInv, Staffed, JobsInv, ClaimedOnce, EnqueueAgain
  <2>3. JobsInv'
    BY <1>0, <1>3 DEF IInv, TypeInv, Staffed, JobsInv, ClaimedOnce, Truthful,
                      EnqueueAgain
  <2> QED BY <2>1, <2>2, <2>3 DEF IInv
<1>4. CASE Register(j)
  <2>1. TypeInv'
    <3>1. /\ row' = Put(row, j, Entry("SUBMITTED", None)) \/ row' = row
          /\ client' = Put(client, j, "returned") \/ client' = Put(client, j, "raised")
          /\ UNCHANGED <<redis, attempt, body, process>>
      BY <1>4 DEF Register
    <3>2. row' \in [Jobs -> Rows]
      BY <1>0, <3>1 DEF IInv, TypeInv
    <3>3. client' \in [Jobs -> {"idle", "cron", "again", "register", "returned", "raised"}]
      BY <3>1 DEF IInv, TypeInv
    <3> QED BY <3>1, <3>2, <3>3 DEF IInv, TypeInv
  <2>2. Staffed'
    BY <1>0, <1>4 DEF IInv, TypeInv, Staffed, JobsInv, ClaimedOnce, Register,
                      Registrable, Present
  <2>3. JobsInv'
    BY <1>0, <1>4 DEF IInv, TypeInv, Staffed, JobsInv, ClaimedOnce, Truthful, Register,
                      Registrable, Present
  <2> QED BY <2>1, <2>2, <2>3 DEF IInv
<1>5. CASE ClientFails(j)
  <2>1. TypeInv'
    <3>1. /\ row' = Put(row, j, Entry("SUBMITTED", None)) \/ row' = row
          /\ client' = Put(client, j, "raised")
          /\ UNCHANGED <<redis, attempt, body, process>>
      BY <1>5 DEF ClientFails
    <3>2. row' \in [Jobs -> Rows]
      BY <1>0, <3>1 DEF IInv, TypeInv
    <3>3. client' \in [Jobs -> {"idle", "cron", "again", "register", "returned", "raised"}]
      BY <3>1 DEF IInv, TypeInv
    <3> QED BY <3>1, <3>2, <3>3 DEF IInv, TypeInv
  <2>2. Staffed'
    BY <1>0, <1>5 DEF IInv, TypeInv, Staffed, JobsInv, ClaimedOnce, ClientFails,
                      Registrable, Present
  <2>3. JobsInv'
    <3>1. \/ row' = row
          \/ ~Present(j) /\ row' = Put(row, j, Entry("SUBMITTED", None))
      BY <1>5 DEF ClientFails, Registrable
    <3>2. UNCHANGED <<redis, attempt, body, process>>
      BY <1>5 DEF ClientFails
    <3> QED BY <1>0, <3>1, <3>2 DEF IInv, TypeInv, JobsInv, ClaimedOnce, Truthful, Present
  <2> QED BY <2>1, <2>2, <2>3 DEF IInv
<1>6. CASE CronFires(j)
  <2>1. TypeInv'
    BY <1>0, <1>6 DEF IInv, TypeInv, JobsInv, Truthful, CronFires
  <2>2. Staffed'
    BY <1>0, <1>6 DEF IInv, TypeInv, Staffed, JobsInv, ClaimedOnce, CronFires
  <2>3. JobsInv'
    BY <1>0, <1>6 DEF IInv, TypeInv, Staffed, JobsInv, ClaimedOnce, Truthful, CronFires
  <2> QED BY <2>1, <2>2, <2>3 DEF IInv
<1> QED BY <1>1, <1>2, <1>3, <1>4, <1>5, <1>6

(* arq takes a job off the queue and ends an attempt.                      *)
LEMMA ArqStep ==
  ASSUME IInv, NEW j \in Jobs, NEW w \in Workers,
         Pick(j, w) \/ GiveUp(j, w) \/ Finish(j)
  PROVE  IInv'
<1>1. CASE Pick(j, w)
  <2>1. TypeInv'
    BY <1>1 DEF IInv, TypeInv, JobsInv, Truthful, Pick
  <2>2. Staffed'
    BY <1>1 DEF IInv, TypeInv, Staffed, JobsInv, ClaimedOnce, Pick
  <2>3. JobsInv'
    BY <1>1 DEF IInv, TypeInv, Staffed, JobsInv, ClaimedOnce, Truthful, Pick
  <2> QED BY <2>1, <2>2, <2>3 DEF IInv
<1>2. CASE GiveUp(j, w)
  <2>1. TypeInv'
    BY <1>2 DEF IInv, TypeInv, JobsInv, Truthful, GiveUp
  <2>2. Staffed'
    BY <1>2 DEF IInv, TypeInv, Staffed, JobsInv, ClaimedOnce, GiveUp
  <2>3. JobsInv'
    BY <1>2 DEF IInv, TypeInv, Staffed, JobsInv, ClaimedOnce, Truthful, GiveUp
  <2> QED BY <2>1, <2>2, <2>3 DEF IInv
<1>3. CASE Finish(j)
  <2>1. TypeInv'
    BY <1>3 DEF IInv, TypeInv, JobsInv, Truthful, Finish, RunAgain
  <2>2. Staffed'
    BY <1>3 DEF IInv, TypeInv, Staffed, JobsInv, ClaimedOnce, Finish, RunAgain
  <2>3. JobsInv'
    BY <1>3 DEF IInv, TypeInv, Staffed, JobsInv, ClaimedOnce, Truthful, Finish, RunAgain
  <2> QED BY <2>1, <2>2, <2>3 DEF IInv
<1> QED BY <1>1, <1>2, <1>3

(* register_job_handle and the start of the function.                      *)
LEMMA HandleStep ==
  ASSUME IInv, NEW j \in Jobs,
         Lookup(j) \/ Claim(j) \/ Insert(j) \/ Begin(j)
  PROVE  IInv'
<1> DEFINE Rows == [status : Statuses, worker : Workers \cup {None}]
<1>0. /\ \A s \in Statuses, w \in Workers \cup {None} :
           Entry(s, w) \in Rows /\ Entry(s, w).status = s /\ Entry(s, w).worker = w
      /\ row[j] \in Rows /\ row[j].status \in Statuses /\ row[j].worker \in Workers \cup {None}
      /\ {"SUBMITTED", "RECEIVED", "SUCCESS", "ERROR", "CANCELED"} \subseteq Statuses
  BY EntryRow DEF IInv, TypeInv, Statuses
<1>1. CASE Lookup(j)
  <2>1. TypeInv'
    <3>1. /\ GoTo(j, "insert") \/ GoTo(j, "claim") \/ Leave(j, "error")
          /\ UNCHANGED <<client, redis, row, body, process>>
      BY <1>1 DEF Lookup, IfAbsent
    <3>2. at' \in [Jobs -> Places] /\ by' \in [Jobs -> Workers \cup {None}]
      BY <3>1 DEF IInv, TypeInv
    <3>3. leaves' \in [Jobs -> Ways \cup {None}]
      BY <3>1 DEF IInv, TypeInv
    <3> QED BY <3>1, <3>2, <3>3 DEF IInv, TypeInv
  <2>2. Staffed'
    BY <1>0, <1>1 DEF IInv, TypeInv, Staffed, JobsInv, ClaimedOnce, Lookup, Present,
                      Unclaimed, IfAbsent
  <2>3. JobsInv'
    BY <1>0, <1>1 DEF IInv, TypeInv, Staffed, JobsInv, ClaimedOnce, Truthful, Lookup,
                      Present, Unclaimed, IfAbsent
  <2> QED BY <2>1, <2>2, <2>3 DEF IInv
<1>2. CASE Claim(j)
  <2>1. TypeInv'
    BY <1>0, <1>2 DEF IInv, TypeInv, JobsInv, Truthful, Claim, Writes, Written, Claimed
  <2>2. Staffed'
    BY <1>0, <1>2 DEF IInv, TypeInv, Staffed, JobsInv, ClaimedOnce, Claim, Writes,
                      Written, Claimed
  <2>3. JobsInv'
    BY <1>0, <1>2 DEF IInv, TypeInv, Staffed, JobsInv, ClaimedOnce, Truthful, Claim,
                      Writes, Written, Claimed
  <2> QED BY <2>1, <2>2, <2>3 DEF IInv
<1>3. CASE Insert(j)
  <2>1. TypeInv'
    <3>1. CASE Present(j)
      <4>1. row' = row
        BY <1>3, <3>1 DEF Insert, Writes, Written, IInv, TypeInv
      <4>2. Leave(j, "error") /\ UNCHANGED <<client, redis, body, process>>
        BY <1>3, <3>1 DEF Insert
      <4> QED BY <4>1, <4>2 DEF IInv, TypeInv
    <3>2. CASE ~Present(j)
      BY <1>0, <1>3, <3>2 DEF IInv, TypeInv, Insert, Present, Writes, Written, Claimed
    <3> QED BY <3>1, <3>2
  <2>2. Staffed'
    BY <1>0, <1>3 DEF IInv, TypeInv, Staffed, JobsInv, ClaimedOnce, Insert, Present,
                      Writes, Written, Claimed
  <2>3. JobsInv'
    BY <1>0, <1>3 DEF IInv, TypeInv, Staffed, JobsInv, ClaimedOnce, Truthful, Insert,
                      Present, Writes, Written, Claimed
  <2> QED BY <2>1, <2>2, <2>3 DEF IInv
<1>4. CASE Begin(j)
  <2>1. TypeInv'
    BY <1>0, <1>4 DEF IInv, TypeInv, JobsInv, Truthful, Begin
  <2>2. Staffed'
    BY <1>0, <1>4 DEF IInv, TypeInv, Staffed, JobsInv, ClaimedOnce, Begin
  <2>3. JobsInv'
    BY <1>0, <1>4 DEF IInv, TypeInv, Staffed, JobsInv, ClaimedOnce, Truthful, Begin
  <2> QED BY <2>1, <2>2, <2>3 DEF IInv
<1> QED BY <1>1, <1>2, <1>3, <1>4

(* The function ends, and what the wrapper then writes.                    *)
LEMMA FunctionStep ==
  ASSUME IInv, NEW j \in Jobs, NEW how \in {"error", "retry"},
         Return(j) \/ Throw(j, how) \/ Succeed(j) \/ Fail(j) \/ Recheck(j) \/ MarkCanceled(j)
  PROVE  IInv'
<1> DEFINE Rows == [status : Statuses, worker : Workers \cup {None}]
<1>0. /\ \A s \in Statuses, w \in Workers \cup {None} :
           Entry(s, w) \in Rows /\ Entry(s, w).status = s /\ Entry(s, w).worker = w
      /\ row[j] \in Rows /\ row[j].status \in Statuses /\ row[j].worker \in Workers \cup {None}
      /\ {"SUBMITTED", "RECEIVED", "SUCCESS", "ERROR", "CANCELED"} \subseteq Statuses
  BY EntryRow DEF IInv, TypeInv, Statuses
<1>1. CASE Return(j)
  <2>1. TypeInv'
    BY <1>0, <1>1 DEF IInv, TypeInv, JobsInv, Truthful, Return
  <2>2. Staffed'
    BY <1>0, <1>1 DEF IInv, TypeInv, Staffed, JobsInv, ClaimedOnce, Return
  <2>3. JobsInv'
    BY <1>0, <1>1 DEF IInv, TypeInv, Staffed, JobsInv, ClaimedOnce, Truthful, Return
  <2> QED BY <2>1, <2>2, <2>3 DEF IInv
<1>2. CASE Throw(j, how)
  <2>1. TypeInv'
    BY <1>0, <1>2 DEF IInv, TypeInv, JobsInv, Truthful, Throw
  <2>2. Staffed'
    BY <1>0, <1>2 DEF IInv, TypeInv, Staffed, JobsInv, ClaimedOnce, Throw
  <2>3. JobsInv'
    BY <1>0, <1>2 DEF IInv, TypeInv, Staffed, JobsInv, ClaimedOnce, Truthful, Throw
  <2> QED BY <2>1, <2>2, <2>3 DEF IInv
<1>3. CASE Succeed(j)
  <2>1. TypeInv'
    BY <1>0, <1>3 DEF IInv, TypeInv, JobsInv, Truthful, Succeed, Writes, Written,
                      Claimed
  <2>2. Staffed'
    BY <1>0, <1>3 DEF IInv, TypeInv, Staffed, JobsInv, ClaimedOnce, Succeed, Writes,
                      Written, Claimed
  <2>3. JobsInv'
    BY <1>0, <1>3 DEF IInv, TypeInv, Staffed, JobsInv, ClaimedOnce, Truthful, Succeed,
                      Writes, Written, Claimed
  <2> QED BY <2>1, <2>2, <2>3 DEF IInv
<1>4. CASE Fail(j)
  <2>1. TypeInv'
    BY <1>0, <1>4 DEF IInv, TypeInv, JobsInv, Truthful, Fail, Writes, Written, Claimed
  <2>2. Staffed'
    BY <1>0, <1>4 DEF IInv, TypeInv, Staffed, JobsInv, ClaimedOnce, Fail, Writes,
                      Written, Claimed
  <2>3. JobsInv'
    BY <1>0, <1>4 DEF IInv, TypeInv, Staffed, JobsInv, ClaimedOnce, Truthful, Fail,
                      Writes, Written, Claimed
  <2> QED BY <2>1, <2>2, <2>3 DEF IInv
<1>5. CASE Recheck(j)
  <2>1. TypeInv'
    BY <1>0, <1>5 DEF IInv, TypeInv, JobsInv, Truthful, Recheck
  <2>2. Staffed'
    BY <1>0, <1>5 DEF IInv, TypeInv, Staffed, JobsInv, ClaimedOnce, Recheck
  <2>3. JobsInv'
    BY <1>0, <1>5 DEF IInv, TypeInv, Staffed, JobsInv, ClaimedOnce, Truthful, Recheck
  <2> QED BY <2>1, <2>2, <2>3 DEF IInv
<1>6. CASE MarkCanceled(j)
  <2>1. TypeInv'
    BY <1>0, <1>6 DEF IInv, TypeInv, JobsInv, Truthful, MarkCanceled, Writes, Written,
                      Claimed
  <2>2. Staffed'
    BY <1>0, <1>6 DEF IInv, TypeInv, Staffed, JobsInv, ClaimedOnce, MarkCanceled,
                      Writes, Written, Claimed
  <2>3. JobsInv'
    BY <1>0, <1>6 DEF IInv, TypeInv, Staffed, JobsInv, ClaimedOnce, Truthful,
                      MarkCanceled, Writes, Written, Claimed
  <2> QED BY <2>1, <2>2, <2>3 DEF IInv
<1> QED BY <1>1, <1>2, <1>3, <1>4, <1>5, <1>6

(* Failing tracker calls and cancellations.                                *)
LEMMA FaultStep ==
  ASSUME IInv, NEW j \in Jobs, NEW why \in {"timeout", "shutdown"},
         TrackerFails(j) \/ Cancel(j, why)
  PROVE  IInv'
<1> DEFINE Rows == [status : Statuses, worker : Workers \cup {None}]
<1>0. /\ \A s \in Statuses, w \in Workers \cup {None} :
           Entry(s, w) \in Rows /\ Entry(s, w).status = s /\ Entry(s, w).worker = w
      /\ row[j] \in Rows /\ row[j].status \in Statuses /\ row[j].worker \in Workers \cup {None}
      /\ {"SUBMITTED", "RECEIVED", "SUCCESS", "ERROR", "CANCELED"} \subseteq Statuses
  BY EntryRow DEF IInv, TypeInv, Statuses
<1>1. CASE TrackerFails(j)
  <2>1. TypeInv'
    BY <1>0, <1>1 DEF IInv, TypeInv, JobsInv, Truthful, TrackerFails, OnTrackerError,
                      Present, Writes, Written, Claimed
  <2>2. Staffed'
    BY <1>0, <1>1 DEF IInv, TypeInv, Staffed, JobsInv, ClaimedOnce, TrackerFails,
                      OnTrackerError, Present, Writes, Written, Claimed
  <2>3. JobsInv'
    BY <1>0, <1>1 DEF IInv, TypeInv, Staffed, JobsInv, ClaimedOnce, Truthful,
                      TrackerFails, OnTrackerError, Present, Writes, Written, Claimed
  <2> QED BY <2>1, <2>2, <2>3 DEF IInv
<1>2. CASE Cancel(j, why)
  <2>1. TypeInv'
    <3>1. /\ at' \in [Jobs -> Places] /\ leaves' \in [Jobs -> Ways \cup {None}]
          /\ outcome' \in [Jobs -> {None, "returned", "raised", "cancelled"}]
          /\ by' = by /\ UNCHANGED <<client, redis, runs, process>>
      BY <1>2 DEF IInv, TypeInv, Cancel, AfterCancel
    <3>2. row' \in [Jobs -> Rows]
      <4>1. row' = row \/ Writes(j)
        BY <1>2 DEF Cancel
      <4>2. Written(j) \in Rows
        BY <1>0, <1>2 DEF IInv, TypeInv, Cancel, Cancellable, Present, Written, Claimed
      <4> QED BY <4>1, <4>2 DEF IInv, TypeInv, Writes
    <3> QED BY <3>1, <3>2 DEF IInv, TypeInv
  <2>2. Staffed'
    BY <1>0, <1>2 DEF IInv, TypeInv, Staffed, JobsInv, ClaimedOnce, Cancel, Cancellable,
                      AfterCancel, Present, Writes, Written, Claimed
  <2>3. JobsInv'
    BY <1>0, <1>2 DEF IInv, TypeInv, Staffed, JobsInv, ClaimedOnce, Truthful, Cancel,
                      Cancellable, AfterCancel, Present, Writes, Written, Claimed
  <2> QED BY <2>1, <2>2, <2>3 DEF IInv
<1> QED BY <1>1, <1>2

(* Worker processes: a crash gives its jobs back to the queue.             *)
LEMMA ProcessStep ==
  ASSUME IInv, NEW w \in Workers, Process(w)
  PROVE  IInv'
<1>1. CASE Startup(w)
  <2>1. TypeInv'
    BY <1>1 DEF IInv, TypeInv, Startup, CheckedIn
  <2>2. Staffed'
    BY <1>1 DEF IInv, TypeInv, Staffed, Startup, CheckedIn
  <2>3. UNCHANGED <<client, redis, row, attempt, body>>
    BY <1>1 DEF Startup
  <2>4. JobsInv'
    BY <2>3 DEF IInv, JobsInv, ClaimedOnce, Truthful
  <2> QED BY <2>1, <2>2, <2>4 DEF IInv
<1>2. CASE Shutdown(w) \/ Checkout(w)
  <2>1. UNCHANGED <<client, redis, row, attempt, body, registry>>
    BY <1>2 DEF Shutdown, Checkout
  <2>2. worker' = Put(worker, w, "stopping") \/ worker' = Put(worker, w, "stopped")
    BY <1>2 DEF Shutdown, Checkout
  <2>3. worker' \in [Workers -> {"off", "up", "stopping", "stopped", "dead"}]
    BY <2>2 DEF IInv, TypeInv
  <2>4. TypeInv'
    BY <2>1, <2>3 DEF IInv, TypeInv
  <2>5. Staffed'
    BY <1>2 DEF IInv, TypeInv, Staffed, Shutdown, Checkout
  <2>6. JobsInv'
    BY <2>1 DEF IInv, JobsInv, ClaimedOnce, Truthful
  <2> QED BY <2>4, <2>5, <2>6 DEF IInv
<1>3. CASE Crash(w)
  <2>1. TypeInv'
    <3>1. UNCHANGED <<client, result, tries, row, body, registry>>
      BY <1>3 DEF Crash
    <3>2. /\ worker' \in [Workers -> {"off", "up", "stopping", "stopped", "dead"}]
          /\ queue' \in [Jobs -> {"none", "queued", "running", "done"}]
      BY <1>3 DEF IInv, TypeInv, Crash
    <3>3. at' \in [Jobs -> Places] /\ by' \in [Jobs -> Workers \cup {None}]
      BY <1>3 DEF IInv, TypeInv, Crash
    <3>4. leaves' \in [Jobs -> Ways \cup {None}]
      BY <1>3 DEF IInv, TypeInv, Crash
    <3> QED BY <3>1, <3>2, <3>3, <3>4 DEF IInv, TypeInv
  <2>2. Staffed'
    BY <1>3 DEF IInv, TypeInv, Staffed, Crash
  <2>3. JobsInv'
    <3>1. UNCHANGED <<client, result, tries, row, body, registry>>
      BY <1>3 DEF Crash
    <3>2. ASSUME NEW j \in Jobs
          PROVE  \/ at'[j] = at[j] /\ leaves'[j] = leaves[j]
                 \/ at'[j] = "none"
      BY <1>3 DEF Crash
    <3>3. ASSUME NEW j \in Jobs PROVE ClaimedOnce(j)' /\ Truthful(j)'
      <4>1. ClaimedOnce(j) /\ Truthful(j)
        BY DEF IInv, JobsInv
      <4>2. CASE at'[j] = at[j] /\ leaves'[j] = leaves[j]
        BY <3>1, <4>1, <4>2 DEF ClaimedOnce, Truthful
      <4>3. CASE at'[j] = "none"
        BY <3>1, <4>1, <4>3 DEF ClaimedOnce, Truthful
      <4> QED BY <3>2, <4>2, <4>3
    <3> QED BY <3>3 DEF JobsInv
  <2> QED BY <2>1, <2>2, <2>3 DEF IInv
<1> QED BY <1>1, <1>2, <1>3 DEF Process

LEMMA NextIInv == IInv /\ [Next]_vars => IInv'
<1> SUFFICES ASSUME IInv, [Next]_vars PROVE IInv'
  OBVIOUS
<1>1. CASE UNCHANGED vars
  BY <1>1 DEF vars, IInv, TypeInv, Staffed, JobsInv, ClaimedOnce, Truthful
<1>2. CASE \E w \in Workers : Process(w)
  BY <1>2, ProcessStep
<1>3. ASSUME NEW j \in Jobs, Client(j) \/ CronFires(j) PROVE IInv'
  BY <1>3, ClientStep DEF Client
<1>4. ASSUME NEW j \in Jobs, Take(j) PROVE IInv'
  BY <1>4, ArqStep DEF Take
<1>5. ASSUME NEW j \in Jobs, Attempt(j) PROVE IInv'
  <2>1. CASE Finish(j)
    <3>1. CASE Workers = {}
      BY <2>1, <3>1 DEF IInv, TypeInv, Staffed, Finish
    <3> QED BY <2>1, <3>1, ArqStep
  <2>2. CASE Lookup(j) \/ Claim(j) \/ Insert(j) \/ Begin(j)
    BY <2>2, HandleStep
  <2>3. CASE Return(j) \/ Succeed(j) \/ Fail(j) \/ Recheck(j) \/ MarkCanceled(j)
    <3>1. "error" \in {"error", "retry"}
      OBVIOUS
    <3> QED BY <2>3, <3>1, FunctionStep
  <2> QED BY <1>5, <2>1, <2>2, <2>3 DEF Attempt
<1>6. ASSUME NEW j \in Jobs, Fault(j) PROVE IInv'
  <2>1. CASE LoseConnection(j) \/ ClientFails(j)
    BY <2>1, ClientStep
  <2>2. CASE TrackerFails(j)
    <3>1. "timeout" \in {"timeout", "shutdown"}
      OBVIOUS
    <3> QED BY <2>2, <3>1, FaultStep
  <2>3. CASE \E how \in {"error", "retry"} : Throw(j, how)
    BY <2>3, FunctionStep
  <2>4. CASE \E why \in {"timeout", "shutdown"} : Cancel(j, why)
    BY <2>4, FaultStep
  <2> QED BY <1>6, <2>1, <2>2, <2>3, <2>4 DEF Fault
<1> QED BY <1>1, <1>2, <1>3, <1>4, <1>5, <1>6 DEF Next

THEOREM JobsInvariant == Spec => []IInv
BY InitIInv, NextIInv, PTL DEF Spec
-----------------------------------------------------------------------------
(* The types of every variable; only started, registered workers run and   *)
(* claim jobs (worker.py, _tracker_checkin).                               *)
THEOREM TypeCorrect == Spec => []TypeOK
<1>1. IInv => TypeOK
  BY DEF IInv, TypeInv, Staffed, TypeOK
<1> QED BY <1>1, JobsInvariant, PTL

(* A tracked function runs at most once, whatever is retried, shut down or *)
(* crashes (worker/tracker.py, register_job_handle).                       *)
THEOREM NeverRunTwice == Spec => []RunsAtMostOnce
<1>1. IInv => RunsAtMostOnce
  BY DEF IInv, JobsInv, ClaimedOnce, RunsAtMostOnce
<1> QED BY <1>1, JobsInvariant, PTL

(* A row in a final status tells how the function ended (decorate_job).    *)
THEOREM RowIsTruthful == Spec => []RowTellsOutcome
<1>1. IInv => RowTellsOutcome
  BY DEF IInv, JobsInv, Truthful, RowTellsOutcome
<1> QED BY <1>1, JobsInvariant, PTL

(* Who gets a successful result from arq finds SUCCESS in the row: it was  *)
(* written before the wrapper returned, and stays (decorate_job).          *)
THEOREM SuccessIsTracked == Spec => []ResultIsTracked
<1>1. IInv => ResultIsTracked
  BY DEF IInv, JobsInv, Truthful, ResultIsTracked
<1> QED BY <1>1, JobsInvariant, PTL

(* A job that reads SUBMITTED has not been run, so registering it again or *)
(* letting another worker have it does no harm (register_job_handle).      *)
THEOREM PendingHasNotRun == Spec => []SubmittedMeansNotRun
<1>1. IInv => SubmittedMeansNotRun
  BY DEF IInv, JobsInv, ClaimedOnce, SubmittedMeansNotRun
<1> QED BY <1>1, JobsInvariant, PTL

FinalKept == \A j \in Jobs : row[j].status \in Final => row'[j] = row[j]

LEMMA WritesKeepFinal ==
  ASSUME IInv, NEW j \in Jobs, row' = row \/ Writes(j)
  PROVE  FinalKept
<1>1. row[j].status \in Final => Written(j) = row[j]
  BY DEF IInv, JobsInv, ClaimedOnce, Final, Written, Present
<1> QED BY <1>1 DEF IInv, TypeInv, FinalKept, Writes

(* A final status is never overwritten (register_job, decorate_job).       *)
THEOREM FinalIsForever == Spec => FinalStays
<1>1. IInv /\ [Next]_vars => [FinalKept]_vars
  <2> SUFFICES ASSUME IInv, Next PROVE FinalKept
    BY DEF FinalKept, vars
  <2>1. ASSUME NEW j \in Jobs, Register(j) \/ ClientFails(j) PROVE FinalKept
    BY <2>1 DEF IInv, TypeInv, FinalKept, Register, ClientFails, Registrable, Present, Final
  <2>2. ASSUME NEW j \in Jobs, Attempt(j) \/ Fault(j) PROVE FinalKept
    <3>1. CASE row' = row \/ Writes(j)
      BY <3>1, WritesKeepFinal
    <3>2. CASE ClientFails(j)
      BY <3>2, <2>1
    <3> QED BY <2>2, <3>1, <3>2 DEF Attempt, Fault, Lookup, Claim, Insert, Begin, Return,
          Succeed, Fail, Recheck, MarkCanceled, Finish, LoseConnection, TrackerFails, Throw,
          Cancel
  <2>3. ASSUME NEW j \in Jobs, Client(j) \/ CronFires(j) \/ Take(j) PROVE FinalKept
    BY <2>1, <2>3 DEF FinalKept, Client, Enqueue, EnqueueAgain, CronFires, Take, Pick, GiveUp
  <2>4. ASSUME NEW w \in Workers, Process(w) PROVE FinalKept
    BY <2>4 DEF FinalKept, Process, Startup, Shutdown, Checkout, Crash
  <2> QED BY <2>1, <2>2, <2>3, <2>4 DEF Next
<1>2. [FinalKept]_vars => [\A j \in Jobs : row[j].status \in Final => row'[j] = row[j]]_vars
  BY DEF FinalKept
<1> QED BY <1>1, <1>2, JobsInvariant, PTL DEF Spec, FinalStays
=============================================================================

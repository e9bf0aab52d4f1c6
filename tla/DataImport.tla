---------------------------- MODULE DataImport ----------------------------
(***************************************************************************)
(* An import of dmap: entry.py's process_input reads the files one after   *)
(* the other. For each it submits to one thread pool a reader, which puts  *)
(* every entry of the file on the queue of every pipeline, and a process   *)
(* per pipeline, which takes the entries off its queue, makes rows of them *)
(* and writes them; it goes on when all of these threads have ended. The   *)
(* pipelines and their queues live as long as the import.                  *)
(*                                                                         *)
(* No process manager is configured: with one, process_pipelines raises    *)
(* after it has registered the first file (entry.py:44, DataModel.set      *)
(* takes no positional argument). The entries are those of the tabular and *)
(* the JSON reader, whose loops all have the id None, the pipelines'       *)
(* default transaction; the mapping of elements to columns is left out,    *)
(* and so are configurations refused before the first entry is read.       *)
(***************************************************************************)
EXTENDS Naturals, Sequences, FiniteSets

CONSTANTS
  NFiles, NRows, \* bounds: number of files, and of rows in a file
  NPipes, Bulk,  \* number of pipelines; those that write a file at once (SQL)
  PoolSize,      \* config.THREAD_POOL_SIZE
  Faults,        \* what may go wrong: "setup", "read", "row", "write", "slow"
  None

ASSUME ImportAssumption ==
  /\ NFiles \in Nat \ {0} /\ NRows \in Nat /\ NPipes \in Nat /\ PoolSize \in Nat \ {0}
  /\ Bulk \subseteq 1 .. NPipes /\ None \notin Nat
  /\ Faults \subseteq {"setup", "read", "row", "write", "slow"}

VARIABLES
  rows,    \* the input: number of rows in each file
  main,    \* process_input: "importing", "returned" or "raised"
  file,    \* the file it imports
  task,    \* per thread: "waiting" for the pool, "running", "done", "failed"
  next,    \* the reader's next entry
  queue, meta, buffer, index, \* per pipeline: its attributes of these names
  batch,   \* per pipeline: rows of this process, not yet written
  written, \* per pipeline: rows written
  put,     \* history: the rows that were put on the queues
  late     \* history: a pipeline timed out before the reader had ended

pipes == <<queue, meta, buffer, index, batch, written>>
vars == <<rows, main, file, task, next, pipes, put, late>>

Pipes == 1 .. NPipes
Reader == 0
Threads == {Reader} \cup Pipes
Ended(t) == task[t] \in {"done", "failed"}

Init ==
  /\ rows \in [1 .. NFiles -> 0 .. NRows]
  /\ main = "importing" /\ file = 0 /\ next = 1
  /\ task = [t \in Threads |-> "done"]
  /\ queue = [p \in Pipes |-> <<>>]
  /\ meta = [p \in Pipes |-> None] /\ buffer = [p \in Pipes |-> None]
  /\ index = [p \in Pipes |-> 0]
  /\ batch = [p \in Pipes |-> <<>>] /\ written = [p \in Pipes |-> <<>>]
  /\ put = <<>> /\ late = FALSE
-----------------------------------------------------------------------------
(* The main thread: [w.result() for w in workers] raises what a thread has *)
(* raised, after which the pool still waits for the others.                *)
ReaderFailure == task[Reader] = "failed"
Failure == \E t \in Threads : task[t] = "failed"

NextFile ==
  /\ main = "importing" /\ \A t \in Threads : Ended(t)
  /\ ~Failure /\ file < NFiles
  /\ file' = file + 1 /\ next' = 1 /\ task' = [t \in Threads |-> "waiting"]
  /\ UNCHANGED <<rows, main, pipes, put, late>>

EndImport ==
  /\ main = "importing" /\ \A t \in Threads : Ended(t)
  /\ \/ Failure /\ main' = "raised"
     \/ ~Failure /\ file = NFiles /\ main' = "returned"
  /\ UNCHANGED <<rows, file, task, next, pipes, put, late>>

(* The pool runs what was submitted in that order: the reader comes first. *)
NoLimit == TRUE
FreeThread == Cardinality({t \in Threads : task[t] = "running"}) < PoolSize
Start(t) ==
  /\ task[t] = "waiting" /\ \A u \in Threads : u < t => task[u] # "waiting"
  /\ FreeThread /\ task' = [task EXCEPT ![t] = "running"]
  /\ index' = [p \in Pipes |-> IF p = t THEN 0 ELSE index[p]]
  /\ UNCHANGED <<rows, main, file, next, queue, meta, buffer, batch, written, put, late>>
-----------------------------------------------------------------------------
(* read_file yields the metadata of the file, two entries per row (the     *)
(* loop opened and closed; the row a closing belongs to is history), and   *)
(* ReaderFinished. An exception while reading is yielded as ReaderError,   *)
(* one before the try block (setup_log) ends the thread.                   *)
Entry(kind, row) == [kind |-> kind, file |-> file, row |-> row]
Last == 2 * rows[file] + 2
Yielded ==
  IF next = 1 THEN Entry("meta", 0)
  ELSE IF next = Last THEN Entry("finished", 0)
  ELSE Entry(IF next % 2 = 0 THEN "open" ELSE "close", next \div 2)

(* No pipeline sees the queue of another: one step puts the entry on all.  *)
Distribute(e) ==
  /\ queue' = [p \in Pipes |-> Append(queue[p], e)]
  /\ put' = IF e.kind = "close" THEN Append(put, <<e.file, e.row>>) ELSE put

Read ==
  /\ task[Reader] = "running" /\ Distribute(Yielded) /\ next' = next + 1
  /\ task' = [task EXCEPT ![Reader] = IF next = Last THEN "done" ELSE "running"]
  /\ UNCHANGED <<rows, main, file, meta, buffer, index, batch, written, late>>

ReadFails ==
  /\ "read" \in Faults /\ task[Reader] = "running" /\ next % 2 = 0
  /\ Distribute(Entry("error", 0)) /\ task' = [task EXCEPT ![Reader] = "done"]
  /\ UNCHANGED <<rows, main, file, next, meta, buffer, index, batch, written, late>>

SetupFails ==
  /\ "setup" \in Faults /\ task[Reader] = "running" /\ next = 1
  /\ task' = [task EXCEPT ![Reader] = "failed"]
  /\ UNCHANGED <<rows, main, file, next, pipes, put, late>>
-----------------------------------------------------------------------------
(* A pipeline takes an entry off its queue.                                *)
Takes(p, kind) ==
  /\ task[p] = "running" /\ queue[p] # <<>> /\ Head(queue[p]).kind = kind
  /\ queue' = [queue EXCEPT ![p] = Tail(@)]

SetMetadata(p) ==
  /\ Takes(p, "meta") /\ meta' = [meta EXCEPT ![p] = Head(queue[p]).file]
  /\ UNCHANGED <<rows, main, file, task, next, buffer, index, batch, written, put, late>>

IngestLoop(p) ==
  /\ Takes(p, "open")
  /\ buffer' = [buffer EXCEPT ![p] = <<Head(queue[p]).file, Head(queue[p]).row>>]
  /\ UNCHANGED <<rows, main, file, task, next, meta, index, batch, written, put, late>>

(* emit_row: the buffered elements with the metadata (_PRID) and _INDEX.   *)
RowOfFile(p) == [elements |-> buffer[p], prid |-> file, index |-> index[p] + 1]
Row(p) == [elements |-> buffer[p], prid |-> meta[p], index |-> index[p] + 1]
Emit(p) ==
  /\ Takes(p, "close") /\ index' = [index EXCEPT ![p] = @ + 1]
  /\ IF p \in Bulk
       THEN batch' = [batch EXCEPT ![p] = Append(@, Row(p))] /\ written' = written
       ELSE written' = [written EXCEPT ![p] = Append(@, Row(p))] /\ batch' = batch
  /\ UNCHANGED <<rows, main, file, task, next, meta, buffer, put, late>>

(* A coercer, a reducer or the writer of a row raises: the batch is lost.  *)
EmitFails(p) ==
  /\ "row" \in Faults /\ Takes(p, "close")
  /\ index' = [index EXCEPT ![p] = @ + 1] /\ batch' = [batch EXCEPT ![p] = <<>>]
  /\ task' = [task EXCEPT ![p] = "failed"]
  /\ UNCHANGED <<rows, main, file, next, meta, buffer, written, put, late>>

(* The stream of rows ends: SQLWriter appends its batch to the table in    *)
(* one transaction, a CSVWriter has written its rows already.              *)
Replaced(p) == IF p \in Bulk THEN batch[p] ELSE written[p]
Appended(p) == written[p] \o batch[p]
EndOfStream(p) ==
  /\ \/ /\ task' = [task EXCEPT ![p] = "done"]
        /\ written' = [written EXCEPT ![p] = Appended(p)]
     \/ /\ "write" \in Faults /\ batch[p] # <<>>
        /\ task' = [task EXCEPT ![p] = "failed"] /\ written' = written
  /\ batch' = [batch EXCEPT ![p] = <<>>]
  /\ UNCHANGED <<rows, main, file, next, meta, buffer, index, put>>

Finish(p) ==
  /\ Takes(p, "finished") \/ Takes(p, "error")
  /\ EndOfStream(p) /\ late' = late

(* READ_TIMEOUT passes without an entry: the stream ends as well. Unless   *)
(* the reader is slow that takes a reader that has ended without a word.   *)
WaitForEver(p) == FALSE
TimedOut(p) ==
  /\ task[p] = "running" /\ queue[p] = <<>>
  /\ "slow" \in Faults \/ Ended(Reader)
Timeout(p) ==
  /\ TimedOut(p) /\ EndOfStream(p)
  /\ late' = (late \/ ~Ended(Reader)) /\ queue' = queue
-----------------------------------------------------------------------------
Main == NextFile \/ EndImport
Process(p) == SetMetadata(p) \/ IngestLoop(p) \/ Emit(p) \/ EmitFails(p) \/ Finish(p) \/ Timeout(p)
Thread(t) == IF t = Reader THEN Read \/ ReadFails \/ SetupFails ELSE Process(t)

Next == Main \/ \E t \in Threads : Start(t) \/ Thread(t)
Spec == Init /\ [][Next]_vars

(* The main thread, the pool and its threads are scheduled; get(timeout)   *)
(* returns or raises.                                                      *)
FairSpec == /\ Spec /\ WF_vars(Main)
            /\ \A t \in Threads : WF_vars(Start(t)) /\ WF_vars(Thread(t))
-----------------------------------------------------------------------------
Files == 1 .. NFiles
TypeOK ==
  /\ rows \in [Files -> 0 .. NRows]
  /\ main \in {"importing", "returned", "raised"} /\ file \in 0 .. NFiles
  /\ task \in [Threads -> {"waiting", "running", "done", "failed"}]
  /\ Cardinality({t \in Threads : task[t] = "running"}) <= PoolSize
  /\ next \in 1 .. 2 * NRows + 3 /\ late \in BOOLEAN
  /\ \A p \in Pipes :
       /\ \A i \in DOMAIN queue[p] :
            queue[p][i] \in [kind : {"meta", "open", "close", "finished", "error"},
                             file : Files, row : 0 .. NRows]
       /\ meta[p] \in Files \cup {None} /\ index[p] \in Nat
       /\ buffer[p] \in (Files \X (1 .. NRows)) \cup {None}
       /\ p \notin Bulk => batch[p] = <<>>

(* No row is lost, written twice or out of order on its way through a      *)
(* pipeline that does not fail, whoever times out meanwhile: what it has   *)
(* written and batched and what its queue still holds are the rows read.   *)
Elements(s) == [i \in DOMAIN s |-> s[i].elements]
RowsIn(q) ==
  LET upTo[i \in 0 .. Len(q)] ==
        IF i = 0 THEN <<>>
        ELSE IF q[i].kind = "close" THEN Append(upTo[i - 1], <<q[i].file, q[i].row>>)
        ELSE upTo[i - 1]
  IN upTo[Len(q)]
NothingLost ==
  \A p \in Pipes :
    task[p] # "failed" => Elements(written[p] \o batch[p]) \o RowsIn(queue[p]) = put

(* Every row carries the metadata of the file it was read from, also when  *)
(* it is written during the import of a later file (set_metadata).         *)
RowCarriesItsFile ==
  \A p \in Pipes : \A i \in DOMAIN written[p] :
    written[p][i].prid = written[p][i].elements[1]

(* If no pipeline ran into its timeout before the reader had ended, then   *)
(* between two files, and after an import that returns, every pipeline has *)
(* written all rows read, each with its position in its file, and nothing  *)
(* is left on its queue (process_input waits for all of its threads).      *)
CompleteWhenInTime ==
  ~late /\ main # "raised" /\ (\A t \in Threads : task[t] = "done") =>
    \A p \in Pipes :
      /\ queue[p] = <<>> /\ Elements(written[p]) = put
      /\ \A i \in DOMAIN written[p] : written[p][i].index = written[p][i].elements[2]

(* The import ends, however small the pool is and even if the reader dies  *)
(* before its first entry (THREAD_POOL_SIZE, READ_TIMEOUT).                *)
EveryImportEnds == <>(main # "importing")
=============================================================================

----------------------------- MODULE MediaStore -----------------------------
(***************************************************************************)
(* MediaInterface (media/media.py): files in a filesystem, described by    *)
(* entries of a table. Tasks put, read, copy and delete files; the file is *)
(* touched at once, the table in a transaction, so the two may part.       *)
(*                                                                         *)
(* Each method opens manager.transaction() for its own statements. Called  *)
(* inside a transaction of the caller it joins that one (driver.py:        *)
(* transaction yields the active session and returns), and its statements  *)
(* share the caller's commit or rollback. delete alone opens none for its  *)
(* `remove`: without the caller's it raises E00.107.                       *)
(*                                                                         *)
(* A put makes a fresh id and a fresh path, written as one number here, in *)
(* a filesystem the caller chooses. Those of fsspec differ in one thing    *)
(* that matters: rm of a path that is not there raises on a disk and       *)
(* succeeds on an object store (S3, GCS). Names, types, lengths, open for  *)
(* writing, and the reads that change nothing (exists, list_files, stream) *)
(* are left out.                                                           *)
(***************************************************************************)
EXTENDS Naturals, Sequences

CONSTANTS
  Tasks,
  Methods,    \* compression methods with a compressor; None is no compression
  MaxFiles,   \* bound: files ever put
  None

Ids    == 1 .. MaxFiles
Stored == [data : Ids, by : Seq(Methods)]
Rows   == [id : Ids, compress : Methods \cup {None}]

ASSUME ParameterAssumption ==
  /\ MaxFiles \in Nat
  /\ None \notin Methods /\ None \notin Stored /\ None \notin Rows

VARIABLES
  files,   \* the filesystems: what is stored under each path
  tolerant, \* paths in a filesystem whose rm takes a missing path for removed
  entries, \* committed rows of the media-entry table
  next,    \* the next fresh id
  tx,      \* per task: "none", or "open" or "broken": the caller's transaction
  writes,  \* per task: uncommitted rows of that transaction
  pc,      \* per task: where the call is, "ready" between calls
  call,    \* per task: the method called
  meta,    \* per task: the entry it has fetched or is about to insert
  origin,  \* history: the put whose data a file has
  removed, \* history, per task: files removed in its open transaction
  failed   \* history: files whose put or delete failed half-way
store == <<files, tolerant, next, origin>>
caller == <<tx, writes, removed>>
vars == <<store, caller, entries, pc, call, meta, failed>>
-----------------------------------------------------------------------------
(* A stored file is its data and the compressions applied to it; every put *)
(* has data of its own. A file is opened by its method or not at all.      *)
Plain(d) == [data |-> d, by |-> <<>>]
Compress(m, f) == IF m = None THEN f ELSE [f EXCEPT !.by = Append(f.by, m)]
CanOpen(m, f)  == m # None => f.by # <<>> /\ f.by[Len(f.by)] = m
Opened(m, f)   ==
  IF m = None THEN f ELSE [f EXCEPT !.by = SubSeq(f.by, 1, Len(f.by) - 1)]

With(f, t, x) == [f EXCEPT ![t] = x]
NoWrites == [i \in {} |-> None]

Init ==
  /\ files = [i \in Ids |-> None] /\ entries = [i \in Ids |-> None] /\ next = 1
  /\ origin = [i \in Ids |-> None] /\ tolerant = {} /\ failed = {}
  /\ tx = [t \in Tasks |-> "none"] /\ writes = [t \in Tasks |-> NoWrites]
  /\ removed = [t \in Tasks |-> {}]
  /\ pc = [t \in Tasks |-> "ready"] /\ call = [t \in Tasks |-> None]
  /\ meta = [t \in Tasks |-> None]

Visible(t, i) == IF i \in DOMAIN writes[t] THEN writes[t][i] ELSE entries[i]

(* A statement in the caller's transaction, or in one opened for it, which *)
(* is committed with it.                                                   *)
Store(t, i, row) ==
  IF tx[t] = "none" THEN entries' = With(entries, i, row) /\ UNCHANGED writes
  ELSE /\ writes' = With(writes, t, [j \in DOMAIN writes[t] \cup {i} |->
                                       IF j = i THEN row ELSE writes[t][j]])
       /\ UNCHANGED entries

(* transaction() of the caller: entered, committed, or left by an          *)
(* exception (a failed commit, an error of a call that was not caught).    *)
Enter(t) ==
  /\ pc[t] = "ready" /\ tx[t] = "none" /\ tx' = With(tx, t, "open")
  /\ UNCHANGED <<store, writes, removed, entries, pc, call, meta, failed>>

CloseEarly(t) == tx' = With(tx, t, "none") /\ UNCHANGED <<writes, removed>>
Close(t) ==
  /\ tx' = With(tx, t, "none") /\ writes' = With(writes, t, NoWrites)
  /\ removed' = With(removed, t, {})
Commit(t) ==
  /\ pc[t] = "ready" /\ tx[t] = "open" /\ Close(t)
  /\ entries' = [i \in Ids |-> Visible(t, i)]
  /\ UNCHANGED <<store, pc, call, meta, failed>>

Inserted(t) == {i \in DOMAIN writes[t] : writes[t][i] # None}
Rollback(t) ==
  /\ pc[t] = "ready" /\ tx[t] # "none" /\ Close(t)
  /\ failed' = failed \cup Inserted(t) \cup removed[t]
  /\ UNCHANGED <<store, entries, pc, call, meta>>
-----------------------------------------------------------------------------
(* The methods up to their first await. put has written its file by then.  *)
Calls(t, method) ==
  pc[t] = "ready" /\ call' = With(call, t, method)

(* The caller names the filesystem, or a copy stays in its source's.       *)
NewFile(t, f, d, m) ==
  /\ next \in Ids /\ next' = next + 1
  /\ tolerant' \in {tolerant, tolerant \cup {next}}
  /\ files' = With(files, next, Compress(m, f))
  /\ origin' = With(origin, next, d)
  /\ meta' = With(meta, t, [id |-> next, compress |-> m])
  /\ pc' = With(pc, t, "insert")

Put(t, m) ==
  /\ Calls(t, "put") /\ NewFile(t, Plain(next), next, m)
  /\ UNCHANGED <<caller, entries, failed>>

CallOn(t, method, i) ==
  /\ Calls(t, method) /\ i < next
  /\ meta' = With(meta, t, [id |-> i, compress |-> None])
  /\ pc' = With(pc, t, "fetch")
  /\ UNCHANGED <<store, caller, entries, failed>>

Return(t) ==
  pc' = With(pc, t, "ready") /\ call' = With(call, t, None) /\ meta' = With(meta, t, None)

(* get_metadata; copy needs it, and get, which it calls, once more.        *)
AfterFetch(t) == IF call[t] = "copy" /\ pc[t] = "fetch" THEN "fetch again" ELSE "file"
Fetch(t) ==
  /\ pc[t] \in {"fetch", "fetch again"} /\ tx[t] # "broken"
  /\ Visible(t, meta[t].id) # None
  /\ meta' = With(meta, t, Visible(t, meta[t].id))
  /\ pc' = With(pc, t, AfterFetch(t))
  /\ UNCHANGED <<store, caller, entries, call, failed>>

(* What follows the fetch touches the file with no await before it.        *)
Touches(t, method) == pc[t] = "file" /\ call[t] = method /\ files[meta[t].id] # None
Contents(t) == Opened(meta[t].compress, files[meta[t].id])

Get(t) ==
  /\ Touches(t, "get") /\ Return(t) /\ UNCHANGED <<store, caller, entries, failed>>

CopyBytes(t) ==
  /\ Touches(t, "copy")
  /\ NewFile(t, files[meta[t].id], origin[meta[t].id], meta[t].compress)
  /\ UNCHANGED <<caller, entries, call, failed>>
CopyFile(t) ==
  /\ Touches(t, "copy")
  /\ NewFile(t, Contents(t), origin[meta[t].id], meta[t].compress)
  /\ UNCHANGED <<caller, entries, call, failed>>

(* fs.rm, which a missing path need not stop, then manager.remove, which   *)
(* needs the caller's transaction.                                         *)
AnyPath(t) == TRUE
Removable(t) == files[meta[t].id] # None \/ meta[t].id \in tolerant
Lost(t) == {i \in {meta[t].id} : files[i] # None}
DeleteFile(t) ==
  /\ pc[t] = "file" /\ call[t] = "delete" /\ Removable(t)
  /\ files' = With(files, meta[t].id, None)
  /\ IF tx[t] = "none"
       THEN Return(t) /\ failed' = failed \cup Lost(t) /\ UNCHANGED removed
       ELSE /\ pc' = With(pc, t, "remove") /\ UNCHANGED <<call, meta, failed>>
            /\ removed' = With(removed, t, removed[t] \cup Lost(t))
  /\ UNCHANGED <<tolerant, next, origin, tx, writes, entries>>

Insert(t) ==
  /\ pc[t] = "insert" /\ tx[t] # "broken"
  /\ Store(t, meta[t].id, meta[t]) /\ Return(t)
  /\ UNCHANGED <<store, tx, removed, failed>>

(* DELETE by _id: it waits for another task's write of the row, and must   *)
(* match one. (Of tasks that wait for each other the database fails one:   *)
(* Fault.)                                                                 *)
HeldByOther(t, i) == \E u \in Tasks \ {t} : i \in DOMAIN writes[u]
RemoveNothing(t) ==
  /\ pc[t] = "remove" /\ tx[t] = "open" /\ Return(t)
  /\ UNCHANGED <<store, caller, entries, failed>>
Remove(t) ==
  /\ pc[t] = "remove" /\ tx[t] = "open"
  /\ ~HeldByOther(t, meta[t].id) /\ Visible(t, meta[t].id) # None
  /\ Store(t, meta[t].id, None) /\ Return(t)
  /\ UNCHANGED <<store, tx, removed, failed>>

(* A call raises: there is no such entry, or no such file.                 *)
NoEntry(t) ==
  pc[t] \in {"fetch", "fetch again", "remove"} /\ Visible(t, meta[t].id) = None
NoFile(t) ==
  pc[t] = "file" /\ files[meta[t].id] = None /\ (call[t] = "delete" => ~Removable(t))
Refuse(t) ==
  /\ NoEntry(t) \/ NoFile(t)
  /\ Return(t) /\ UNCHANGED <<store, caller, entries, failed>>

(* A statement fails in the database: an open transaction cannot be used   *)
(* any more. The file of a put is there all the same.                      *)
Fault(t) ==
  /\ pc[t] \in {"fetch", "fetch again", "insert", "remove"}
  /\ Return(t)
  /\ tx' = With(tx, t, IF tx[t] = "none" THEN "none" ELSE "broken")
  /\ failed' = IF pc[t] = "insert" THEN failed \cup {meta[t].id} ELSE failed
  /\ UNCHANGED <<store, writes, removed, entries>>

Next ==
  \E t \in Tasks :
    \/ Enter(t) \/ Commit(t) \/ Rollback(t)
    \/ \E m \in Methods \cup {None} : Put(t, m)
    \/ \E method \in {"get", "copy", "delete"}, i \in Ids : CallOn(t, method, i)
    \/ Fetch(t) \/ Get(t) \/ CopyFile(t) \/ DeleteFile(t) \/ Insert(t) \/ Remove(t)
    \/ Refuse(t) \/ Fault(t)
Spec == Init /\ [][Next]_vars
-----------------------------------------------------------------------------
(* Uncommitted rows and removed files are of open transactions only.       *)
TypeOK ==
  /\ files \in [Ids -> Stored \cup {None}] /\ entries \in [Ids -> Rows \cup {None}]
  /\ next \in 1 .. MaxFiles + 1 /\ origin \in [Ids -> Ids \cup {None}]
  /\ tolerant \subseteq Ids /\ failed \subseteq Ids /\ removed \in [Tasks -> SUBSET Ids]
  /\ tx \in [Tasks -> {"none", "open", "broken"}]
  /\ pc \in [Tasks -> {"ready", "fetch", "fetch again", "file", "insert", "remove"}]
  /\ call \in [Tasks -> {None, "put", "get", "copy", "delete"}]
  /\ meta \in [Tasks -> Rows \cup {None}]
  /\ DOMAIN writes = Tasks
  /\ \A t \in Tasks :
       /\ DOMAIN writes[t] \subseteq Ids
       /\ \A i \in DOMAIN writes[t] : writes[t][i] \in Rows \cup {None}
       /\ tx[t] = "none" => DOMAIN writes[t] = {} /\ removed[t] = {}

(* A file that is there can be opened with the entry its reader has, and   *)
(* what is read is the data put, also from a copy of a copy, whatever      *)
(* other tasks do since the entry was fetched (put, get, copy).            *)
ReadsReturnWhatWasPut ==
  \A t \in Tasks : pc[t] = "file" /\ files[meta[t].id] # None =>
    /\ CanOpen(meta[t].compress, files[meta[t].id])
    /\ Contents(t) = Plain(origin[meta[t].id])

(* Table and filesystem agree but for the files a failure is known to have *)
(* torn: a put whose insert failed or was rolled back, a delete outside a  *)
(* transaction or in one rolled back (put, delete, copy).                  *)
Busy(i) == \E t \in Tasks : \/ i \in DOMAIN writes[t] \cup removed[t]
                            \/ pc[t] = "insert" /\ meta[t].id = i
OnlyFailuresTear ==
  \A i \in Ids \ failed : ~Busy(i) => (entries[i] # None <=> files[i] # None)

(* Where rm of a missing path raises, removing the file first settles who  *)
(* removes the entry: no task waits for the row of another or finds it     *)
(* gone, and no two deletes in opposite orders deadlock. On an object      *)
(* store two deletes of one file do both (delete).                         *)
RemoveNeverWaits ==
  \A t \in Tasks : pc[t] = "remove" /\ meta[t].id \notin tolerant =>
    ~HeldByOther(t, meta[t].id) /\ Visible(t, meta[t].id) # None
=============================================================================

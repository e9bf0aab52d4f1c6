-------------------------- MODULE MediaStoreProofs --------------------------
(***************************************************************************)
(* MediaStore for all tasks, methods and files: its types, that what is    *)
(* read is what was put, that only failures make filesystem and table      *)
(* disagree, and that removals never wait where rm of a missing path       *)
(* raises.                                                                 *)
(***************************************************************************)
EXTENDS MediaStore, TLAPS

USE ParameterAssumption DEF store, caller, With

(* Paths and ids are fresh: nothing is known of those not handed out yet.  *)
Unused(i) == i >= next => files[i] = None /\ entries[i] = None
Placed(t) ==
  /\ pc[t] # "ready" => meta[t] \in Rows /\ meta[t].id < next
  /\ \A i \in Ids : i \in DOMAIN writes[t] \/ i \in removed[t] => i < next

(* A row says how its file can be opened, if there still is one.           *)
Describes(r) ==
  files[r.id] # None => files[r.id] = Compress(r.compress, Plain(origin[r.id]))
Rowed(i) == entries[i] # None => entries[i].id = i /\ Describes(entries[i])
Noted(t) ==
  /\ \A i \in DOMAIN writes[t] :
       writes[t][i] # None => writes[t][i].id = i /\ Describes(writes[t][i])
  /\ pc[t] \in {"file", "insert"} => Describes(meta[t])

(* A file that a task is inserting, or has inserted and not committed, no  *)
(* other task has heard of; one it has removed no other has removed, and   *)
(* its row nobody else removes either, unless the path is tolerant.        *)
Inserts(t, i) == pc[t] = "insert" /\ meta[t].id = i
Removes(t, i) == pc[t] = "remove" /\ meta[t].id = i
Claims(t, i)  == Inserts(t, i) \/ (i \in DOMAIN writes[t] /\ writes[t][i] # None)
Knowing       == {"fetch again", "file", "remove", "insert"}
Ignores(u, i) ==
  /\ i \notin DOMAIN writes[u] /\ i \notin removed[u]
  /\ pc[u] \in Knowing => meta[u].id # i
Exclusive(t, u, i) ==
  /\ Claims(t, i) => Ignores(u, i)
  /\ i \in removed[t] => i \notin removed[u]
Gone(t, i) == files[i] = None /\ (i \notin tolerant => i \in removed[t])
Own(t, i) ==
  /\ Claims(t, i) => entries[i] = None /\ (files[i] = None => i \in removed[t])
  /\ Inserts(t, i) => i \notin DOMAIN writes[t] /\ i \notin removed[t]
  /\ i \in DOMAIN writes[t] /\ writes[t][i] = None => Gone(t, i)
  /\ i \in removed[t] => files[i] = None
  /\ i \in removed[t] /\ tx[t] = "open" => Removes(t, i) \/ Visible(t, i) = None

(* A task that has seen the row of a file still does, as long as the file  *)
(* is there or, on a path that is not tolerant, the task is removing it.   *)
Sees(t, i) ==
  /\ pc[t] \in {"fetch again", "file"} /\ meta[t].id = i
       => tx[t] # "broken" /\ (files[i] # None => Visible(t, i) # None)
  /\ Removes(t, i) => tx[t] = "open" /\ Gone(t, i)
  /\ Removes(t, i) /\ i \notin tolerant => Visible(t, i) # None

Whole(i) ==
  IF files[i] = None THEN entries[i] = None \/ \E t \in Tasks : i \in removed[t]
  ELSE entries[i] # None \/ \E t \in Tasks : Claims(t, i)

TaskInv == \A t \in Tasks : Placed(t) /\ Noted(t)
FileInv == \A i \in Ids : Unused(i) /\ Rowed(i) /\ (i \notin failed => Whole(i))
BothInv == \A t \in Tasks, i \in Ids :
  Own(t, i) /\ Sees(t, i) /\ \A u \in Tasks \ {t} : Exclusive(t, u, i)
IInv == TypeOK /\ TaskInv /\ FileInv /\ BothInv
-----------------------------------------------------------------------------
LEMMA Codec ==
  ASSUME NEW m \in Methods \cup {None}, NEW d \in Ids
  PROVE  /\ Compress(m, Plain(d)) \in Stored /\ Compress(m, Plain(d)) # None
         /\ CanOpen(m, Compress(m, Plain(d)))
         /\ Opened(m, Compress(m, Plain(d))) = Plain(d)
<1>1. Plain(d) \in Stored /\ Plain(d).by = <<>> /\ Plain(d).data = d
  BY DEF Plain, Stored
<1>2. CASE m = None
  BY <1>1, <1>2 DEF Compress, CanOpen, Opened
<1>3. CASE m # None
  <2>1. m \in Methods
    BY <1>3
  <2>2. Compress(m, Plain(d)) = [data |-> d, by |-> <<m>>]
    BY <1>1, <1>3 DEF Compress, Plain
  <2>3. <<m>> \in Seq(Methods) /\ Len(<<m>>) = 1 /\ <<m>>[1] = m /\ SubSeq(<<m>>, 1, 0) = <<>>
    BY <2>1
  <2>4. Compress(m, Plain(d)) \in Stored
    BY <2>2, <2>3 DEF Stored
  <2>5. CanOpen(m, Compress(m, Plain(d)))
    BY <2>2, <2>3, <1>3 DEF CanOpen
  <2>6. Opened(m, Compress(m, Plain(d))) = Plain(d)
    <3>1. Opened(m, Compress(m, Plain(d)))
            = [Compress(m, Plain(d)) EXCEPT !.by = SubSeq(<<m>>, 1, 0)]
      BY <2>2, <2>3, <1>3 DEF Opened
    <3> QED BY <3>1, <2>2, <2>3 DEF Plain
  <2> QED BY <2>4, <2>5, <2>6
<1> QED BY <1>2, <1>3

(* What the steps below need of the types.                                 *)
Maps ==
  /\ DOMAIN files = Ids /\ DOMAIN entries = Ids /\ DOMAIN origin = Ids
  /\ DOMAIN pc = Tasks /\ DOMAIN call = Tasks /\ DOMAIN meta = Tasks
  /\ DOMAIN tx = Tasks /\ DOMAIN writes = Tasks /\ DOMAIN removed = Tasks
  /\ next \in Nat /\ Ids \subseteq Nat /\ \A r \in Rows : r.id \in Ids
  /\ \A t \in Tasks : /\ DOMAIN writes[t] \subseteq Ids /\ removed[t] \subseteq Ids
                      /\ tx[t] = "none" => DOMAIN writes[t] = {} /\ removed[t] = {}
LEMMA TypesMap == ASSUME TypeOK PROVE Maps
<1>1. next \in Nat /\ Ids \subseteq Nat /\ \A r \in Rows : r.id \in Ids
  <2>1. \A r \in Rows : r.id \in Ids
    BY DEF Rows
  <2>2. MaxFiles \in Nat /\ Ids \subseteq Nat
    BY DEF Ids
  <2>3. next \in 1 .. MaxFiles + 1
    BY DEF TypeOK
  <2> QED BY <2>1, <2>2, <2>3
<1>2. /\ DOMAIN files = Ids /\ DOMAIN entries = Ids /\ DOMAIN origin = Ids
      /\ DOMAIN pc = Tasks /\ DOMAIN call = Tasks /\ DOMAIN meta = Tasks
      /\ DOMAIN tx = Tasks /\ DOMAIN writes = Tasks /\ DOMAIN removed = Tasks
  BY DEF TypeOK
<1>3. \A t \in Tasks : /\ DOMAIN writes[t] \subseteq Ids /\ removed[t] \subseteq Ids
                       /\ tx[t] = "none" => DOMAIN writes[t] = {} /\ removed[t] = {}
  BY DEF TypeOK
<1> QED BY <1>1, <1>2, <1>3 DEF Maps

(* Steps that change neither files nor rows.                               *)
LEMMA Quiet ==
  ASSUME IInv, NEW t \in Tasks, TypeOK',
         UNCHANGED <<files, tolerant, next, origin, entries, writes, removed>>,
         failed \subseteq failed',
         \A u \in Tasks \ {t} : pc'[u] = pc[u] /\ meta'[u] = meta[u] /\ tx'[u] = tx[u],
         pc'[t] \in {"ready", "fetch", "fetch again", "file", "remove"},
         pc'[t] # "ready" => meta'[t] \in Rows /\ meta'[t].id < next,
         pc'[t] \in {"fetch again", "file"}
           => tx'[t] # "broken" /\ Visible(t, meta'[t].id) # None,
         pc'[t] = "file" => Describes(meta'[t]),
         pc'[t] = "remove" => /\ pc[t] = "file" /\ meta'[t] = meta[t] /\ tx'[t] = "open"
                              /\ files[meta[t].id] = None /\ meta[t].id \in tolerant,
         pc[t] = "insert" => meta[t].id \in failed',
         tx'[t] = "open" => \/ removed[t] = {}
                            \/ /\ tx[t] = "open"
                               /\ pc[t] = "remove" => Visible(t, meta[t].id) = None
  PROVE  IInv'
<1>0. Maps
  BY TypesMap DEF IInv
<1>1. ASSUME NEW u \in Tasks PROVE Placed(u)' /\ Noted(u)'
  <2>1. Placed(u) /\ Noted(u)
    BY DEF IInv, TaskInv
  <2>2. CASE u = t
    BY <2>1, <2>2 DEF Placed, Noted, Describes
  <2>3. CASE u # t
    BY <2>1, <2>3 DEF Placed, Noted, Describes
  <2> QED BY <2>2, <2>3
<1>2. ASSUME NEW i \in Ids PROVE Unused(i)' /\ Rowed(i)' /\ (i \notin failed' => Whole(i)')
  <2>1. Unused(i) /\ Rowed(i) /\ (i \notin failed => Whole(i))
    BY DEF IInv, FileInv
  <2>2. ASSUME NEW u \in Tasks, Claims(u, i), i \notin failed' PROVE Claims(u, i)'
    BY <2>2 DEF Claims, Inserts
  <2>3. i \notin failed' => Whole(i)'
    BY <2>1, <2>2 DEF Whole
  <2> QED BY <2>1, <2>3 DEF Unused, Rowed, Describes
<1>3. ASSUME NEW u \in Tasks, NEW i \in Ids PROVE Own(u, i)'
  <2>1. Own(u, i) /\ Sees(u, i)
    BY DEF IInv, BothInv
  <2>2. CASE u = t
    BY <2>1, <2>2 DEF Own, Sees, Claims, Inserts, Removes, Gone, Visible
  <2>3. CASE u # t
    BY <2>1, <2>3 DEF Own, Claims, Inserts, Removes, Gone, Visible
  <2> QED BY <2>2, <2>3
<1>4. ASSUME NEW u \in Tasks, NEW i \in Ids PROVE Sees(u, i)'
  <2>1. Sees(u, i)
    BY DEF IInv, BothInv
  <2>2. CASE u = t
    BY <2>1, <2>2 DEF Sees, Removes, Visible, Gone
  <2>3. CASE u # t
    BY <2>1, <2>3 DEF Sees, Removes, Visible, Gone
  <2> QED BY <2>2, <2>3
<1>5. ASSUME NEW u \in Tasks, NEW v \in Tasks \ {u}, NEW i \in Ids PROVE Exclusive(u, v, i)'
  <2>1. Exclusive(u, v, i) /\ Own(u, i)
    BY DEF IInv, BothInv
  <2>2. Claims(u, i)' => Claims(u, i)
    BY DEF Claims, Inserts
  <2>3. CASE v = t
    BY <2>1, <2>2, <2>3 DEF Exclusive, Ignores, Own, Knowing, Visible
  <2>4. CASE v # t
    BY <2>1, <2>2, <2>4 DEF Exclusive, Ignores
  <2> QED BY <2>3, <2>4
<1> QED BY <1>1, <1>2, <1>3, <1>4, <1>5 DEF IInv, TaskInv, FileInv, BothInv

(* put and copy: a file that nobody knows of, with what opens it.          *)
LEMMA NewFileStep ==
  ASSUME IInv, NEW t \in Tasks, TypeOK', pc[t] \in {"ready", "file"},
         NEW m \in Methods \cup {None}, NEW d \in Ids, NewFile(t, Plain(d), d, m),
         UNCHANGED <<tx, writes, removed, entries, failed>>
  PROVE  IInv'
<1>0. Maps /\ next \in Ids /\ next' = next + 1
  BY TypesMap DEF IInv, NewFile
<1>a. /\ files'[next] = Compress(m, Plain(d)) /\ files'[next] # None
      /\ \A i \in Ids \ {next} : /\ files'[i] = files[i] /\ origin'[i] = origin[i]
                                 /\ i \in tolerant' <=> i \in tolerant
      /\ origin'[next] = d
      /\ pc'[t] = "insert" /\ meta'[t] = [id |-> next, compress |-> m]
      /\ \A u \in Tasks \ {t} : pc'[u] = pc[u] /\ meta'[u] = meta[u]
  BY <1>0, Codec DEF NewFile, Maps
<1>b. next \in Nat /\ Ids \subseteq Nat
  BY <1>0 DEF Maps
<1>c. meta'[t] \in Rows /\ meta'[t].id = next /\ meta'[t].compress = m
  BY <1>0, <1>a DEF Rows
<1>d. \A u \in Tasks : next \notin DOMAIN writes[u] /\ next \notin removed[u]
                      /\ (pc[u] # "ready" => meta[u].id # next /\ meta[u].id \in Ids)
  BY <1>0 DEF IInv, TaskInv, Placed, Maps
<1>e. files[next] = None /\ entries[next] = None
  BY <1>0, <1>b DEF IInv, FileInv, Unused
<1>f. \A r \in Rows : r.id # next /\ Describes(r) => Describes(r)'
  BY <1>0, <1>a DEF Describes, Maps
<1>1. ASSUME NEW u \in Tasks PROVE Placed(u)' /\ Noted(u)'
  <2>1. Placed(u) /\ Noted(u)
    BY DEF IInv, TaskInv
  <2>2. Placed(u)'
    <3>1. next < next'
      BY <1>0, <1>b
    <3>2. CASE u = t
      <4>1. \A i \in Ids : i \in DOMAIN writes'[t] \/ i \in removed'[t] => i < next
        BY <2>1, <3>2 DEF Placed
      <4>2. meta'[t] \in Rows /\ meta'[t].id < next'
        BY <1>c, <3>1
      <4>3. \A i \in Ids : i < next => i < next'
        BY <1>0, <1>b
      <4> QED BY <3>2, <4>1, <4>2, <4>3 DEF Placed
    <3>3. CASE u # t
      <4>1. \A n \in Ids : n < next => n < next'
        BY <1>0, <1>b
      <4>2. pc'[u] = pc[u] /\ meta'[u] = meta[u]
        BY <1>a, <3>3
      <4> QED BY <2>1, <1>d, <4>1, <4>2 DEF Placed
    <3> QED BY <3>2, <3>3
  <2>3. ASSUME NEW i \in DOMAIN writes[u], writes[u][i] # None
        PROVE  writes[u][i].id = i /\ Describes(writes[u][i])'
    <3>1. writes[u][i].id = i /\ Describes(writes[u][i]) /\ i # next /\ i \in Ids
      BY <2>1, <2>3, <1>d, <1>0 DEF Noted, Maps
    <3> QED BY <3>1, <1>a DEF Describes
  <2>4. pc'[u] \in {"file", "insert"} => Describes(meta[u])'
    <3>1. CASE u = t
      BY <1>a, <1>c, <3>1 DEF Describes
    <3>2. CASE u # t
      BY <2>1, <1>a, <1>d, <3>2 DEF Noted, Describes
    <3> QED BY <3>1, <3>2
  <2> QED BY <2>2, <2>3, <2>4 DEF Noted
<1>2. ASSUME NEW i \in Ids PROVE Unused(i)' /\ Rowed(i)' /\ (i \notin failed' => Whole(i)')
  <2>1. Unused(i) /\ Rowed(i) /\ (i \notin failed => Whole(i))
    BY DEF IInv, FileInv
  <2>2. CASE i = next
    <3>1. Claims(t, i)'
      BY <2>2, <1>a, <1>c DEF Claims, Inserts
    <3> QED BY <2>2, <3>1, <1>0, <1>a, <1>b, <1>e DEF Unused, Rowed, Whole
  <2>3. CASE i # next
    <3>1. \A u \in Tasks : Claims(u, i) => Claims(u, i)'
      BY <2>3, <1>a DEF Claims, Inserts
    <3>2. Unused(i)'
      <4>1. i >= next' => i >= next
        BY <1>0, <1>b
      <4>2. files'[i] = files[i]
        BY <2>3, <1>a
      <4> QED BY <2>1, <4>1, <4>2 DEF Unused
    <3>3. Rowed(i)'
      BY <2>1, <2>3, <1>a DEF Rowed, Describes
    <3>4. i \notin failed' => Whole(i)'
      BY <2>1, <2>3, <3>1, <1>a DEF Whole
    <3> QED BY <3>2, <3>3, <3>4
  <2> QED BY <2>2, <2>3
<1>3. ASSUME NEW u \in Tasks, NEW i \in Ids PROVE Own(u, i)' /\ Sees(u, i)'
  <2>1. Own(u, i) /\ Sees(u, i)
    BY DEF IInv, BothInv
  <2>2. CASE u = t /\ i = next
    BY <2>2, <1>a, <1>c, <1>d, <1>e DEF Own, Sees, Claims, Inserts, Removes, Visible, Gone
  <2>3. CASE u = t /\ i # next
    BY <2>1, <2>3, <1>a, <1>c DEF Own, Sees, Claims, Inserts, Removes, Visible, Gone
  <2>4. CASE u # t /\ i = next
    BY <2>1, <2>4, <1>a, <1>d DEF Own, Sees, Claims, Inserts, Removes, Visible, Gone
  <2>5. CASE u # t /\ i # next
    BY <2>1, <2>5, <1>a DEF Own, Sees, Claims, Inserts, Removes, Visible, Gone
  <2> QED BY <2>2, <2>3, <2>4, <2>5
<1>4. ASSUME NEW u \in Tasks, NEW v \in Tasks \ {u}, NEW i \in Ids PROVE Exclusive(u, v, i)'
  <2>1. Exclusive(u, v, i)
    BY DEF IInv, BothInv
  <2>2. CASE i = next
    BY <2>1, <2>2, <1>a, <1>c, <1>d DEF Exclusive, Claims, Inserts, Ignores, Knowing
  <2>3. CASE i # next
    BY <2>1, <2>3, <1>a, <1>c DEF Exclusive, Claims, Inserts, Ignores, Knowing
  <2> QED BY <2>2, <2>3
<1> QED BY <1>1, <1>2, <1>3, <1>4 DEF IInv, TaskInv, FileInv, BothInv

LEMMA CommitStep == ASSUME IInv, NEW t \in Tasks, TypeOK', Commit(t) PROVE IInv'
<1>0. Maps
  BY TypesMap DEF IInv
<1>a. /\ pc[t] = "ready" /\ tx[t] = "open" /\ tx'[t] = "none"
      /\ DOMAIN writes'[t] = {} /\ removed'[t] = {}
      /\ \A i \in Ids : entries'[i] = IF i \in DOMAIN writes[t] THEN writes[t][i] ELSE entries[i]
      /\ UNCHANGED <<files, tolerant, next, origin, pc, meta, failed>>
      /\ \A u \in Tasks \ {t} : tx'[u] = tx[u] /\ writes'[u] = writes[u] /\ removed'[u] = removed[u]
  BY <1>0 DEF Commit, Close, NoWrites, Visible, Maps
<1>b. ASSUME NEW i \in Ids
      PROVE  /\ i \in removed[t] => entries'[i] = None
             /\ i \in DOMAIN writes[t] /\ writes[t][i] = None
                  => /\ files[i] = None
                     /\ i \notin tolerant => \A u \in Tasks \ {t} : i \notin removed[u]
             /\ i \in DOMAIN writes[t] /\ writes[t][i] # None
                  => files[i] # None /\ \A u \in Tasks \ {t} : Ignores(u, i)
  <2>1. Own(t, i) /\ \A u \in Tasks \ {t} : Exclusive(t, u, i)
    BY DEF IInv, BothInv
  <2>2. i \in removed[t] => entries'[i] = None
    BY <1>a, <2>1 DEF Own, Removes, Visible
  <2>3. i \in DOMAIN writes[t] /\ writes[t][i] # None => i \notin removed[t]
    BY <1>a, <2>1 DEF Own, Removes, Visible
  <2> QED BY <2>1, <2>2, <2>3 DEF Own, Exclusive, Claims, Gone
<1>1. ASSUME NEW u \in Tasks PROVE Placed(u)' /\ Noted(u)'
  <2>1. Placed(u) /\ Noted(u)
    BY DEF IInv, TaskInv
  <2>2. CASE u = t
    BY <2>1, <2>2, <1>a DEF Placed, Noted
  <2>3. CASE u # t
    BY <2>1, <2>3, <1>a DEF Placed, Noted, Describes
  <2> QED BY <2>2, <2>3
<1>2. ASSUME NEW i \in Ids PROVE Unused(i)' /\ Rowed(i)' /\ (i \notin failed' => Whole(i)')
  <2>1. Unused(i) /\ Rowed(i) /\ (i \notin failed => Whole(i)) /\ Placed(t) /\ Noted(t)
    BY DEF IInv, FileInv, TaskInv
  <2>2. Unused(i)'
    <3>1. i >= next => i \notin DOMAIN writes[t]
      BY <2>1, <1>0 DEF Placed, Maps
    <3> QED BY <2>1, <3>1, <1>a DEF Unused
  <2>3. Rowed(i)'
    BY <2>1, <1>a DEF Rowed, Noted, Describes
  <2>4. ASSUME NEW u \in Tasks, Claims(u, i), files[i] # None
        PROVE  entries'[i] # None \/ Claims(u, i)'
    BY <2>4, <1>a DEF Claims, Inserts
  <2>5. i \notin failed' => Whole(i)'
    BY <2>1, <2>4, <1>a, <1>b DEF Whole
  <2> QED BY <2>2, <2>3, <2>5
<1>3. ASSUME NEW u \in Tasks, NEW i \in Ids PROVE Own(u, i)'
  <2>1. Own(u, i)
    BY DEF IInv, BothInv
  <2>2. CASE u = t
    BY <2>2, <1>a DEF Own, Claims, Inserts, Gone
  <2>3. CASE u # t
    <3>1. Exclusive(u, t, i)
      BY <2>3 DEF IInv, BothInv
    <3>2. Claims(u, i) => entries'[i] = entries[i]
      BY <3>1, <1>a DEF Exclusive, Ignores
    <3>3. Claims(u, i)' <=> Claims(u, i)
      BY <2>3, <1>a DEF Claims, Inserts
    <3>4. i \in removed[u] /\ tx[u] = "open" => Removes(u, i)' \/ Visible(u, i)' = None
      <4>1. i \in removed[u] => entries'[i] = None \/ entries'[i] = entries[i]
        BY <2>3, <1>a, <1>b DEF Ignores
      <4> QED BY <2>1, <2>3, <4>1, <1>a DEF Own, Removes, Visible
    <3> QED BY <2>1, <2>3, <3>2, <3>3, <3>4, <1>a DEF Own, Inserts, Gone
  <2> QED BY <2>2, <2>3
<1>4. ASSUME NEW u \in Tasks, NEW i \in Ids PROVE Sees(u, i)'
  <2>1. Sees(u, i)
    BY DEF IInv, BothInv
  <2>2. CASE u = t
    BY <2>2, <1>a DEF Sees, Removes
  <2>3. CASE u # t
    BY <2>1, <2>3, <1>a, <1>b DEF Sees, Removes, Visible, Gone
  <2> QED BY <2>2, <2>3
<1>5. ASSUME NEW u \in Tasks, NEW v \in Tasks \ {u}, NEW i \in Ids PROVE Exclusive(u, v, i)'
  <2>1. Exclusive(u, v, i)
    BY DEF IInv, BothInv
  <2>2. Claims(u, i)' => Claims(u, i)
    BY <1>a DEF Claims, Inserts
  <2>3. Ignores(v, i) => Ignores(v, i)'
    BY <1>a DEF Ignores
  <2>4. i \in removed'[u] => i \in removed[u] /\ i \notin removed'[v]
    BY <2>1, <1>a DEF Exclusive
  <2> QED BY <2>1, <2>2, <2>3, <2>4 DEF Exclusive
<1> QED BY <1>1, <1>2, <1>3, <1>4, <1>5 DEF IInv, TaskInv, FileInv, BothInv

LEMMA RollbackStep == ASSUME IInv, NEW t \in Tasks, TypeOK', Rollback(t) PROVE IInv'
<1>0. Maps
  BY TypesMap DEF IInv
<1>a. /\ pc[t] = "ready" /\ tx'[t] = "none"
      /\ DOMAIN writes'[t] = {} /\ removed'[t] = {}
      /\ failed' = failed \cup Inserted(t) \cup removed[t]
      /\ UNCHANGED <<files, tolerant, next, origin, entries, pc, meta>>
      /\ \A u \in Tasks \ {t} : tx'[u] = tx[u] /\ writes'[u] = writes[u] /\ removed'[u] = removed[u]
  BY <1>0 DEF Rollback, Close, NoWrites, Maps
<1>1. ASSUME NEW u \in Tasks PROVE Placed(u)' /\ Noted(u)'
  <2>1. Placed(u) /\ Noted(u)
    BY DEF IInv, TaskInv
  <2>2. CASE u = t
    BY <2>1, <2>2, <1>a DEF Placed, Noted
  <2>3. CASE u # t
    BY <2>1, <2>3, <1>a DEF Placed, Noted, Describes
  <2> QED BY <2>2, <2>3
<1>2. ASSUME NEW i \in Ids PROVE Unused(i)' /\ Rowed(i)' /\ (i \notin failed' => Whole(i)')
  <2>1. Unused(i) /\ Rowed(i) /\ (i \notin failed => Whole(i))
    BY DEF IInv, FileInv
  <2>2. i \notin failed' => i \notin failed /\ i \notin removed[t] /\ ~Claims(t, i)
    BY <1>a DEF Claims, Inserts, Inserted
  <2>3. \A u \in Tasks \ {t} : Claims(u, i) => Claims(u, i)'
    BY <1>a DEF Claims, Inserts
  <2>4. i \notin failed' => Whole(i)'
    BY <2>1, <2>2, <2>3, <1>a DEF Whole
  <2> QED BY <2>1, <2>4, <1>a DEF Unused, Rowed, Describes
<1>3. ASSUME NEW u \in Tasks, NEW i \in Ids PROVE Own(u, i)' /\ Sees(u, i)'
  <2>1. Own(u, i) /\ Sees(u, i)
    BY DEF IInv, BothInv
  <2>2. CASE u = t
    BY <2>2, <1>a DEF Own, Sees, Claims, Inserts, Removes, Visible, Gone
  <2>3. CASE u # t
    BY <2>1, <2>3, <1>a DEF Own, Sees, Claims, Inserts, Removes, Visible, Gone
  <2> QED BY <2>2, <2>3
<1>4. ASSUME NEW u \in Tasks, NEW v \in Tasks \ {u}, NEW i \in Ids PROVE Exclusive(u, v, i)'
  <2>1. Exclusive(u, v, i)
    BY DEF IInv, BothInv
  <2>2. Claims(u, i)' => Claims(u, i)
    BY <1>a DEF Claims, Inserts
  <2>3. Ignores(v, i) => Ignores(v, i)'
    BY <1>a DEF Ignores
  <2>4. i \in removed'[u] => i \in removed[u] /\ i \notin removed'[v]
    BY <2>1, <1>a DEF Exclusive
  <2> QED BY <2>1, <2>2, <2>3, <2>4 DEF Exclusive
<1> QED BY <1>1, <1>2, <1>3, <1>4 DEF IInv, TaskInv, FileInv, BothInv

(* The file goes; who removes it, inside a transaction, removes its row.   *)
LEMMA DeleteFileStep ==
  ASSUME IInv, NEW t \in Tasks, TypeOK', DeleteFile(t), files[meta[t].id] # None
  PROVE  IInv'
<1> DEFINE gone == meta[t].id
<1>0. Maps
  BY TypesMap DEF IInv
<1>a. /\ pc[t] = "file" /\ gone \in Ids /\ files[gone] # None /\ files'[gone] = None
      /\ \A i \in Ids \ {gone} : files'[i] = files[i]
      /\ UNCHANGED <<tolerant, next, origin, tx, writes, entries>>
      /\ \A u \in Tasks \ {t} :
           pc'[u] = pc[u] /\ meta'[u] = meta[u] /\ removed'[u] = removed[u]
  <2>1. pc[t] = "file" /\ gone \in Ids
    BY <1>0 DEF IInv, TaskInv, Placed, Maps, DeleteFile
  <2> QED BY <1>0, <2>1 DEF DeleteFile, Return, Maps
<1>l. Lost(t) = {gone}
  BY <1>a DEF Lost
<1>b. \/ /\ tx[t] = "none" /\ DOMAIN writes[t] = {} /\ removed[t] = {}
         /\ pc'[t] = "ready" /\ removed'[t] = removed[t] /\ failed' = failed \cup {gone}
      \/ /\ tx[t] = "open" /\ pc'[t] = "remove" /\ meta'[t] = meta[t]
         /\ removed'[t] = removed[t] \cup {gone} /\ failed' = failed
  <2>1. tx[t] \in {"none", "open"}
    <3>1. tx[t] \in {"none", "open", "broken"}
      BY DEF IInv, TypeOK
    <3> QED BY <3>1, <1>a DEF IInv, BothInv, Sees
  <2>2. CASE tx[t] = "none"
    BY <2>2, <1>0, <1>l DEF DeleteFile, Return, Maps
  <2>3. CASE tx[t] = "open"
    BY <2>3, <1>0, <1>l DEF DeleteFile, Maps
  <2> QED BY <2>1, <2>2, <2>3
<1>c. /\ \A u \in Tasks : gone \notin removed[u]
      /\ \A u \in Tasks \ {t} : ~Claims(u, gone)
      /\ entries[gone] # None \/ Claims(t, gone)
      /\ Visible(t, gone) # None
  <2>1. \A u \in Tasks : gone \notin removed[u]
    BY <1>a DEF IInv, BothInv, Own
  <2>2. \A u \in Tasks \ {t} : ~Claims(u, gone)
    BY <1>a DEF IInv, BothInv, Exclusive, Ignores, Knowing
  <2>3. Visible(t, gone) # None
    BY <1>a DEF IInv, BothInv, Sees
  <2> QED BY <2>1, <2>2, <2>3 DEF Visible, Claims
<1>1. ASSUME NEW u \in Tasks PROVE Placed(u)' /\ Noted(u)'
  <2>1. Placed(u) /\ Noted(u) /\ Placed(t)
    BY DEF IInv, TaskInv
  <2>2. ASSUME NEW r, r.id \in Ids, Describes(r)
        PROVE  files'[r.id] # None => files'[r.id] = Compress(r.compress, Plain(origin'[r.id]))
    BY <2>2, <1>a DEF Describes
  <2>3. Placed(u)'
    BY <2>1, <1>a, <1>b DEF Placed
  <2>4. \A i \in DOMAIN writes'[u] :
          writes'[u][i] # None => writes'[u][i].id = i /\ Describes(writes[u][i])'
    BY <2>1, <2>2, <1>0, <1>a DEF Noted, Describes, Maps
  <2>5. pc'[u] \in {"file", "insert"} => Describes(meta[u])'
    <3>1. pc'[u] \in {"file", "insert"} => u # t
      BY <1>a, <1>b
    <3>2. pc[u] # "ready" => meta[u].id \in Ids
      BY <2>1, <1>0 DEF Placed, Maps
    <3> QED BY <2>1, <2>2, <3>1, <3>2, <1>a DEF Noted, Describes
  <2> QED BY <2>3, <2>4, <2>5, <1>a DEF Noted
<1>2. ASSUME NEW i \in Ids PROVE Unused(i)' /\ Rowed(i)' /\ (i \notin failed' => Whole(i)')
  <2>1. Unused(i) /\ Rowed(i) /\ (i \notin failed => Whole(i))
    BY DEF IInv, FileInv
  <2>2. Unused(i)' /\ Rowed(i)'
    BY <2>1, <1>a DEF Unused, Rowed, Describes
  <2>3. CASE i = gone
    BY <2>2, <2>3, <1>a, <1>b DEF Whole
  <2>4. CASE i # gone
    <3>1. \A u \in Tasks :
            (Claims(u, i) => Claims(u, i)') /\ (i \in removed[u] => i \in removed'[u])
      BY <2>4, <1>a, <1>b DEF Claims, Inserts
    <3> QED BY <2>1, <2>2, <2>4, <3>1, <1>a, <1>b DEF Whole
  <2> QED BY <2>3, <2>4
<1>3. ASSUME NEW u \in Tasks, NEW i \in Ids PROVE Own(u, i)' /\ Sees(u, i)'
  <2>1. Own(u, i) /\ Sees(u, i)
    BY DEF IInv, BothInv
  <2>2. CASE u = t /\ i = gone
    BY <2>1, <2>2, <1>a, <1>b, <1>c DEF Own, Sees, Claims, Inserts, Removes, Visible, Gone
  <2>3. CASE u = t /\ i # gone
    BY <2>1, <2>3, <1>a, <1>b DEF Own, Sees, Claims, Inserts, Removes, Visible, Gone
  <2>4. CASE u # t /\ i = gone
    BY <2>1, <2>4, <1>a, <1>c DEF Own, Sees, Claims, Inserts, Removes, Visible, Gone
  <2>5. CASE u # t /\ i # gone
    BY <2>1, <2>5, <1>a DEF Own, Sees, Claims, Inserts, Removes, Visible, Gone
  <2> QED BY <2>2, <2>3, <2>4, <2>5
<1>4. ASSUME NEW u \in Tasks, NEW v \in Tasks \ {u}, NEW i \in Ids PROVE Exclusive(u, v, i)'
  <2>1. Exclusive(u, v, i)
    BY DEF IInv, BothInv
  <2>2. Claims(u, i)' => Claims(u, i)
    BY <1>a, <1>b DEF Claims, Inserts
  <2>3. Claims(u, i) /\ Ignores(v, i) => Ignores(v, i)'
    BY <1>a, <1>b, <1>c DEF Ignores, Knowing
  <2>4. i \in removed'[u] => i \notin removed'[v]
    BY <2>1, <1>a, <1>b, <1>c DEF Exclusive
  <2> QED BY <2>1, <2>2, <2>3, <2>4 DEF Exclusive
<1> QED BY <1>1, <1>2, <1>3, <1>4 DEF IInv, TaskInv, FileInv, BothInv

LEMMA InsertStep == ASSUME IInv, NEW t \in Tasks, TypeOK', Insert(t) PROVE IInv'
<1> DEFINE new == meta[t].id
<1>0. Maps
  BY TypesMap DEF IInv
<1>a. /\ pc[t] = "insert" /\ pc'[t] = "ready" /\ meta[t] # None /\ new \in Ids /\ new < next
      /\ UNCHANGED <<files, tolerant, next, origin, tx, removed, failed>>
      /\ \A u \in Tasks \ {t} :
           pc'[u] = pc[u] /\ meta'[u] = meta[u] /\ writes'[u] = writes[u]
  <2>1. meta[t] \in Rows /\ new \in Ids /\ new < next /\ pc[t] = "insert"
    BY <1>0 DEF IInv, TaskInv, Placed, Maps, Insert
  <2>2. writes' = writes \/ \E row : writes' = [writes EXCEPT ![t] = row]
    BY DEF Insert, Store
  <2> QED BY <1>0, <2>1, <2>2 DEF Insert, Return, Maps
<1>b. \/ /\ tx[t] = "none" /\ DOMAIN writes[t] = {} /\ writes' = writes
         /\ entries'[new] = meta[t] /\ \A i \in Ids \ {new} : entries'[i] = entries[i]
      \/ /\ entries' = entries /\ DOMAIN writes'[t] = DOMAIN writes[t] \cup {new}
         /\ writes'[t][new] = meta[t]
         /\ \A i \in DOMAIN writes[t] \ {new} : writes'[t][i] = writes[t][i]
  BY <1>0, <1>a DEF Insert, Store, Maps
<1>c. /\ files[new] # None /\ new \notin DOMAIN writes[t] /\ new \notin removed[t]
      /\ entries[new] = None /\ Describes(meta[t]) /\ Claims(t, new)
      /\ \A u \in Tasks \ {t} : Ignores(u, new) /\ ~Claims(u, new)
  <2>1. Claims(t, new) /\ Inserts(t, new)
    BY <1>a DEF Claims, Inserts
  <2>2. Own(t, new)
    BY <1>a DEF IInv, BothInv
  <2>3. \A u \in Tasks \ {t} : Exclusive(t, u, new) /\ Exclusive(u, t, new)
    BY <1>a DEF IInv, BothInv
  <2>4. Describes(meta[t])
    BY <1>a DEF IInv, TaskInv, Noted
  <2>5. ~Ignores(t, new)
    BY <1>a DEF Ignores, Knowing
  <2> QED BY <2>1, <2>2, <2>3, <2>4, <2>5 DEF Own, Exclusive
<1>1. ASSUME NEW u \in Tasks PROVE Placed(u)' /\ Noted(u)'
  <2>1. Placed(u) /\ Noted(u)
    BY DEF IInv, TaskInv
  <2>2. CASE u = t
    BY <2>1, <2>2, <1>a, <1>b, <1>c DEF Placed, Noted, Describes
  <2>3. CASE u # t
    BY <2>1, <2>3, <1>a DEF Placed, Noted, Describes
  <2> QED BY <2>2, <2>3
<1>2. ASSUME NEW i \in Ids PROVE Unused(i)' /\ Rowed(i)' /\ (i \notin failed' => Whole(i)')
  <2>1. Unused(i) /\ Rowed(i) /\ (i \notin failed => Whole(i))
    BY DEF IInv, FileInv
  <2>2. CASE i = new
    <3>1. i >= next => FALSE
      BY <2>2, <1>0, <1>a DEF Maps
    <3>2. entries'[i] # None \/ Claims(t, i)'
      BY <2>2, <1>a, <1>b DEF Claims
    <3> QED BY <2>1, <2>2, <3>1, <3>2, <1>a, <1>b, <1>c DEF Unused, Rowed, Describes, Whole
  <2>3. CASE i # new
    <3>1. \A u \in Tasks : Claims(u, i) => Claims(u, i)'
      BY <2>3, <1>a, <1>b DEF Claims, Inserts
    <3>2. entries'[i] = entries[i]
      BY <2>3, <1>b
    <3> QED BY <2>1, <3>1, <3>2, <1>a DEF Unused, Rowed, Describes, Whole
  <2> QED BY <2>2, <2>3
<1>3. ASSUME NEW u \in Tasks, NEW i \in Ids PROVE Own(u, i)' /\ Sees(u, i)'
  <2>1. Own(u, i) /\ Sees(u, i)
    BY DEF IInv, BothInv
  <2>2. CASE u = t /\ i = new
    BY <2>1, <2>2, <1>a, <1>b, <1>c DEF Own, Sees, Claims, Inserts, Removes, Visible, Gone
  <2>3. CASE u = t /\ i # new
    BY <2>1, <2>3, <1>a, <1>b DEF Own, Sees, Claims, Inserts, Removes, Visible, Gone
  <2>4. CASE u # t /\ i = new
    BY <2>1, <2>4, <1>a, <1>b, <1>c DEF Own, Sees, Claims, Inserts, Removes, Ignores, Knowing, Visible, Gone
  <2>5. CASE u # t /\ i # new
    BY <2>1, <2>5, <1>a, <1>b DEF Own, Sees, Claims, Inserts, Removes, Visible, Gone
  <2> QED BY <2>2, <2>3, <2>4, <2>5
<1>4. ASSUME NEW u \in Tasks, NEW v \in Tasks \ {u}, NEW i \in Ids PROVE Exclusive(u, v, i)'
  <2>1. Exclusive(u, v, i)
    BY DEF IInv, BothInv
  <2>2. Claims(u, i)' => Claims(u, i)
    BY <1>a, <1>b, <1>c DEF Claims, Inserts
  <2>3. Claims(u, i) /\ Ignores(v, i) => Ignores(v, i)'
    BY <1>a, <1>b, <1>c DEF Ignores, Knowing
  <2> QED BY <2>1, <2>2, <2>3, <1>a DEF Exclusive
<1> QED BY <1>1, <1>2, <1>3, <1>4 DEF IInv, TaskInv, FileInv, BothInv

LEMMA RemoveStep == ASSUME IInv, NEW t \in Tasks, TypeOK', Remove(t) PROVE IInv'
<1> DEFINE gone == meta[t].id
<1>0. Maps
  BY TypesMap DEF IInv
<1>a. /\ pc[t] = "remove" /\ tx[t] = "open" /\ pc'[t] = "ready" /\ gone \in Ids /\ gone < next
      /\ UNCHANGED <<files, tolerant, next, origin, entries, tx, removed, failed>>
      /\ DOMAIN writes'[t] = DOMAIN writes[t] \cup {gone} /\ writes'[t][gone] = None
      /\ \A i \in DOMAIN writes[t] \ {gone} : writes'[t][i] = writes[t][i]
      /\ \A u \in Tasks \ {t} :
           pc'[u] = pc[u] /\ meta'[u] = meta[u] /\ writes'[u] = writes[u]
  <2>1. gone \in Ids /\ gone < next /\ pc[t] = "remove" /\ tx[t] = "open"
    BY <1>0 DEF IInv, TaskInv, Placed, Maps, Remove
  <2> QED BY <1>0, <2>1 DEF Remove, Store, Return, Maps
<1>c. Gone(t, gone)
  BY <1>a DEF IInv, BothInv, Sees, Removes
<1>1. ASSUME NEW u \in Tasks PROVE Placed(u)' /\ Noted(u)'
  <2>1. Placed(u) /\ Noted(u)
    BY DEF IInv, TaskInv
  <2>2. CASE u = t
    BY <2>1, <2>2, <1>a, <1>c DEF Placed, Noted, Describes, Gone
  <2>3. CASE u # t
    BY <2>1, <2>3, <1>a DEF Placed, Noted, Describes
  <2> QED BY <2>2, <2>3
<1>2. ASSUME NEW i \in Ids PROVE Unused(i)' /\ Rowed(i)' /\ (i \notin failed' => Whole(i)')
  <2>1. Unused(i) /\ Rowed(i) /\ (i \notin failed => Whole(i))
    BY DEF IInv, FileInv
  <2>2. \A u \in Tasks : i # gone /\ Claims(u, i) => Claims(u, i)'
    BY <1>a DEF Claims, Inserts
  <2> QED BY <2>1, <2>2, <1>a, <1>c DEF Unused, Rowed, Describes, Whole, Gone
<1>3. ASSUME NEW u \in Tasks, NEW i \in Ids PROVE Own(u, i)' /\ Sees(u, i)'
  <2>1. Own(u, i) /\ Sees(u, i)
    BY DEF IInv, BothInv
  <2>2. CASE u = t /\ i = gone
    BY <2>1, <2>2, <1>a, <1>c DEF Own, Sees, Claims, Inserts, Removes, Visible, Gone
  <2>3. CASE u = t /\ i # gone
    BY <2>1, <2>3, <1>a DEF Own, Sees, Claims, Inserts, Removes, Visible, Gone
  <2>4. CASE u # t
    BY <2>1, <2>4, <1>a DEF Own, Sees, Claims, Inserts, Removes, Visible, Gone
  <2> QED BY <2>2, <2>3, <2>4
<1>4. ASSUME NEW u \in Tasks, NEW v \in Tasks \ {u}, NEW i \in Ids PROVE Exclusive(u, v, i)'
  <2>1. Exclusive(u, v, i)
    BY DEF IInv, BothInv
  <2>2. Claims(u, i)' => Claims(u, i)
    BY <1>a DEF Claims, Inserts
  <2>3. Ignores(v, i) => Ignores(v, i)'
    BY <1>a DEF Ignores, Knowing
  <2> QED BY <2>1, <2>2, <2>3, <1>a DEF Exclusive
<1> QED BY <1>1, <1>2, <1>3, <1>4 DEF IInv, TaskInv, FileInv, BothInv

(* The remaining steps are quiet.                                          *)
LEMMA EnterStep == ASSUME IInv, NEW t \in Tasks, TypeOK', Enter(t) PROVE IInv'
<1>1. Maps /\ removed[t] = {}
  BY TypesMap DEF IInv, Maps, Enter
<1> QED BY <1>1, Quiet DEF Enter, Maps

LEMMA CallOnStep ==
  ASSUME IInv, NEW t \in Tasks, TypeOK', NEW method, NEW i \in Ids, CallOn(t, method, i)
  PROVE  IInv'
<1>1. Maps
  BY TypesMap DEF IInv
<1>2. [id |-> i, compress |-> None] \in Rows
  BY DEF Rows
<1>3. /\ pc[t] = "ready" /\ pc'[t] = "fetch" /\ meta'[t] \in Rows /\ meta'[t].id < next
      /\ \A u \in Tasks \ {t} : pc'[u] = pc[u] /\ meta'[u] = meta[u] /\ tx'[u] = tx[u]
      /\ UNCHANGED <<files, tolerant, next, origin, entries, writes, removed, failed, tx>>
  BY <1>1, <1>2 DEF CallOn, Calls, Maps
<1> QED BY <1>3, Quiet

LEMMA VisibleRow ==
  ASSUME TypeOK, NEW t \in Tasks, NEW i \in Ids PROVE Visible(t, i) \in Rows \cup {None}
<1>1. entries[i] \in Rows \cup {None}
  BY DEF TypeOK
<1>2. i \in DOMAIN writes[t] => writes[t][i] \in Rows \cup {None}
  BY DEF TypeOK
<1> QED BY <1>1, <1>2 DEF Visible

LEMMA FetchStep == ASSUME IInv, NEW t \in Tasks, TypeOK', Fetch(t) PROVE IInv'
<1> DEFINE i == meta[t].id
<1>1. Maps
  BY TypesMap DEF IInv
<1>2. /\ pc[t] \in {"fetch", "fetch again"} /\ tx[t] # "broken" /\ Visible(t, i) # None
      /\ pc'[t] \in {"fetch again", "file"} /\ meta'[t] = Visible(t, i)
      /\ \A u \in Tasks \ {t} : pc'[u] = pc[u] /\ meta'[u] = meta[u] /\ tx'[u] = tx[u]
      /\ UNCHANGED <<files, tolerant, next, origin, entries, writes, removed, failed, tx>>
  BY <1>1 DEF Fetch, AfterFetch, Maps
<1>3. i \in Ids /\ i < next
  BY <1>1, <1>2 DEF IInv, TaskInv, Placed, Maps
<1>4. Visible(t, i).id = i /\ Describes(Visible(t, i))
  BY <1>2, <1>3 DEF IInv, TaskInv, FileInv, Noted, Rowed, Visible
<1>5. Visible(t, i) \in Rows
  BY <1>2, <1>3, VisibleRow DEF IInv
<1> QED BY <1>2, <1>3, <1>4, <1>5, Quiet

LEMMA GetStep == ASSUME IInv, NEW t \in Tasks, TypeOK', Get(t) PROVE IInv'
<1>1. Maps
  BY TypesMap DEF IInv
<1>2. /\ pc[t] = "file" /\ pc'[t] = "ready"
      /\ \A u \in Tasks \ {t} : pc'[u] = pc[u] /\ meta'[u] = meta[u] /\ tx'[u] = tx[u]
      /\ UNCHANGED <<files, tolerant, next, origin, entries, writes, removed, failed, tx>>
  BY <1>1 DEF Get, Touches, Return, Maps
<1> QED BY <1>2, Quiet

LEMMA RefuseStep == ASSUME IInv, NEW t \in Tasks, TypeOK', Refuse(t) PROVE IInv'
<1>1. Maps
  BY TypesMap DEF IInv
<1>2. /\ pc[t] \in {"fetch", "fetch again", "file", "remove"}
      /\ pc[t] = "remove" => Visible(t, meta[t].id) = None
  BY DEF Refuse, NoEntry, NoFile
<1>3. /\ pc'[t] = "ready"
      /\ \A u \in Tasks \ {t} : pc'[u] = pc[u] /\ meta'[u] = meta[u] /\ tx'[u] = tx[u]
      /\ UNCHANGED <<files, tolerant, next, origin, entries, writes, removed, failed, tx>>
  BY <1>1 DEF Refuse, Return, Maps
<1> QED BY <1>2, <1>3, Quiet

LEMMA FaultStep == ASSUME IInv, NEW t \in Tasks, TypeOK', Fault(t) PROVE IInv'
<1>1. Maps
  BY TypesMap DEF IInv
<1>2. /\ pc'[t] = "ready" /\ tx'[t] # "open" /\ failed \subseteq failed'
      /\ pc[t] = "insert" => meta[t].id \in failed'
      /\ \A u \in Tasks \ {t} : pc'[u] = pc[u] /\ meta'[u] = meta[u] /\ tx'[u] = tx[u]
      /\ UNCHANGED <<files, tolerant, next, origin, entries, writes, removed>>
  BY <1>1 DEF Fault, Return, Maps
<1> QED BY <1>2, Quiet

(* Of a missing path nothing goes: the task turns to the row, or raises.   *)
LEMMA DeleteNothingStep ==
  ASSUME IInv, NEW t \in Tasks, TypeOK', DeleteFile(t), files[meta[t].id] = None
  PROVE  IInv'
<1>1. Maps /\ pc[t] = "file" /\ meta[t].id \in tolerant /\ Lost(t) = {}
  BY TypesMap DEF IInv, DeleteFile, Removable, Lost
<1>2. meta[t] \in Rows /\ meta[t].id \in Ids /\ meta[t].id < next /\ tx[t] # "broken"
  BY <1>1 DEF IInv, TaskInv, BothInv, Placed, Sees, Maps
<1>3. tx[t] \in {"none", "open"}
  BY <1>2 DEF IInv, TypeOK
<1>4. files' = files /\ removed' = removed /\ failed' = failed
  <2>1. files \in [Ids -> Stored \cup {None}] /\ removed \in [Tasks -> SUBSET Ids]
    BY DEF IInv, TypeOK
  <2>2. files' = files
    BY <1>2, <2>1 DEF DeleteFile
  <2>3. removed' = removed /\ failed' = failed
    BY <1>1, <2>1 DEF DeleteFile
  <2> QED BY <2>2, <2>3
<1>5. /\ \A u \in Tasks \ {t} : pc'[u] = pc[u] /\ meta'[u] = meta[u] /\ tx'[u] = tx[u]
      /\ UNCHANGED <<tolerant, next, origin, entries, writes, tx>>
      /\ IF tx[t] = "none" THEN pc'[t] = "ready" ELSE pc'[t] = "remove" /\ meta'[t] = meta[t]
  BY <1>1 DEF DeleteFile, Return, Maps
<1> QED BY <1>1, <1>2, <1>3, <1>4, <1>5, Quiet
-----------------------------------------------------------------------------
LEMMA InitIInv == Init => IInv
<1> SUFFICES ASSUME Init PROVE IInv
  OBVIOUS
<1>1. TypeOK
  <2>1. MaxFiles \in Nat
    OBVIOUS
  <2> QED BY <2>1 DEF Init, TypeOK, NoWrites
<1>2. TaskInv
  BY DEF Init, TaskInv, Placed, Noted, NoWrites
<1>3. FileInv
  BY DEF Init, FileInv, Unused, Rowed, Whole
<1>4. BothInv
  BY DEF Init, BothInv, Own, Sees, Exclusive, Claims, Inserts, Removes, NoWrites
<1> QED BY <1>1, <1>2, <1>3, <1>4 DEF IInv

(* Types, in four parts.                                                   *)
FilesOK == /\ files \in [Ids -> Stored \cup {None}] /\ next \in 1 .. MaxFiles + 1
           /\ origin \in [Ids -> Ids \cup {None}] /\ tolerant \subseteq Ids
RowsOK  == entries \in [Ids -> Rows \cup {None}] /\ meta \in [Tasks -> Rows \cup {None}]
TasksOK ==
  /\ failed \subseteq Ids /\ removed \in [Tasks -> SUBSET Ids]
  /\ tx \in [Tasks -> {"none", "open", "broken"}]
  /\ pc \in [Tasks -> {"ready", "fetch", "fetch again", "file", "insert", "remove"}]
  /\ call \in [Tasks -> {None, "put", "get", "copy", "delete"}]
WritesOK ==
  /\ DOMAIN writes = Tasks
  /\ \A t \in Tasks :
       /\ DOMAIN writes[t] \subseteq Ids
       /\ \A i \in DOMAIN writes[t] : writes[t][i] \in Rows \cup {None}
       /\ tx[t] = "none" => DOMAIN writes[t] = {} /\ removed[t] = {}
LEMMA TypeParts == TypeOK <=> FilesOK /\ RowsOK /\ TasksOK /\ WritesOK
BY DEF TypeOK, FilesOK, RowsOK, TasksOK, WritesOK

LEMMA NewFileType ==
  ASSUME IInv, NEW t \in Tasks, NEW m \in Methods \cup {None}, NEW d \in Ids,
         NewFile(t, Plain(d), d, m), UNCHANGED <<tx, writes, removed, entries, failed>>,
         call'[t] \in {"put", "copy"}, call' = With(call, t, call'[t])
  PROVE  TypeOK'
<1>1. FilesOK /\ RowsOK /\ TasksOK /\ WritesOK
  BY TypeParts DEF IInv
<1>2. next \in Ids /\ next + 1 \in 1 .. MaxFiles + 1
  BY DEF NewFile, Ids
<1>3. FilesOK'
  BY <1>1, <1>2, Codec DEF FilesOK, NewFile
<1>4. RowsOK'
  <2>1. [id |-> next, compress |-> m] \in Rows
    BY <1>2 DEF Rows
  <2> QED BY <1>1, <2>1 DEF RowsOK, NewFile
<1>5. TasksOK'
  BY <1>1 DEF TasksOK, NewFile
<1>6. WritesOK'
  BY <1>1 DEF WritesOK
<1> QED BY <1>3, <1>4, <1>5, <1>6 DEF TypeOK, FilesOK, RowsOK, TasksOK, WritesOK

(* A method that ends changes what it kept of its call, and the rest only  *)
(* as stated.                                                              *)
LEMMA ReturnType ==
  ASSUME IInv, NEW t \in Tasks, Return(t) PROVE
    /\ meta' \in [Tasks -> Rows \cup {None}]
    /\ pc' \in [Tasks -> {"ready", "fetch", "fetch again", "file", "insert", "remove"}]
    /\ call' \in [Tasks -> {None, "put", "get", "copy", "delete"}]
BY TypeParts DEF IInv, RowsOK, TasksOK, Return

LEMMA StoreType ==
  ASSUME IInv, NEW t \in Tasks, NEW i \in Ids, NEW row \in Rows \cup {None},
         Store(t, i, row), UNCHANGED <<tx, removed>>
  PROVE  entries' \in [Ids -> Rows \cup {None}] /\ WritesOK'
<1>1. RowsOK /\ WritesOK
  BY TypeParts DEF IInv
<1>2. CASE tx[t] = "none"
  BY <1>1, <1>2 DEF Store, RowsOK, WritesOK
<1>3. CASE tx[t] # "none"
  <2>1. entries' = entries /\ DOMAIN writes' = Tasks
    BY <1>1, <1>3 DEF Store, WritesOK
  <2>2. /\ DOMAIN writes'[t] = DOMAIN writes[t] \cup {i}
        /\ \A j \in DOMAIN writes'[t] : writes'[t][j] = IF j = i THEN row ELSE writes[t][j]
        /\ \A u \in Tasks \ {t} : writes'[u] = writes[u]
    BY <1>1, <1>3 DEF Store, WritesOK
  <2>3. WritesOK'
    <3>1. ASSUME NEW u \in Tasks
          PROVE  /\ DOMAIN writes'[u] \subseteq Ids
                 /\ \A j \in DOMAIN writes'[u] : writes'[u][j] \in Rows \cup {None}
                 /\ tx'[u] = "none" => DOMAIN writes'[u] = {} /\ removed'[u] = {}
      <4>1. CASE u = t
        BY <1>1, <1>3, <2>2, <4>1 DEF WritesOK
      <4>2. CASE u # t
        BY <1>1, <2>2, <4>2 DEF WritesOK
      <4> QED BY <4>1, <4>2
    <3> QED BY <2>1, <3>1 DEF WritesOK
  <2> QED BY <1>1, <2>1, <2>3 DEF RowsOK
<1> QED BY <1>2, <1>3

(* What is left: steps that store no row.                                  *)
LEMMA OtherType ==
  ASSUME IInv, NEW t \in Tasks,
         UNCHANGED <<next, origin>>, FilesOK', TasksOK', meta' \in [Tasks -> Rows \cup {None}],
         entries' \in [Ids -> Rows \cup {None}],
         \A u \in Tasks \ {t} : UNCHANGED <<writes[u], tx[u], removed[u]>>,
         DOMAIN writes' = Tasks,
         \/ /\ writes'[t] = writes[t]
            /\ tx'[t] = "none" => tx[t] = "none" /\ removed'[t] = removed[t]
         \/ DOMAIN writes'[t] = {} /\ removed'[t] = {}
  PROVE  TypeOK'
<1>1. WritesOK
  BY TypeParts DEF IInv
<1>2. ASSUME NEW u \in Tasks
      PROVE  /\ DOMAIN writes'[u] \subseteq Ids
             /\ \A j \in DOMAIN writes'[u] : writes'[u][j] \in Rows \cup {None}
             /\ tx'[u] = "none" => DOMAIN writes'[u] = {} /\ removed'[u] = {}
  <2>1. CASE u = t
    BY <1>1, <2>1 DEF WritesOK
  <2>2. CASE u # t
    BY <1>1, <2>2 DEF WritesOK
  <2> QED BY <2>1, <2>2
<1>3. WritesOK'
  BY <1>2 DEF WritesOK
<1> QED BY <1>3 DEF TypeOK, FilesOK, TasksOK, WritesOK

LEMMA EnterType == ASSUME IInv, NEW t \in Tasks, Enter(t) PROVE TypeOK'
<1>1. FilesOK /\ RowsOK /\ TasksOK /\ WritesOK
  BY TypeParts DEF IInv
<1>2. FilesOK' /\ RowsOK' /\ TasksOK'
  BY <1>1 DEF Enter, FilesOK, RowsOK, TasksOK
<1>3. tx'[t] = "open" /\ \A u \in Tasks \ {t} : tx'[u] = tx[u]
  BY <1>1 DEF Enter, TasksOK
<1> QED BY <1>1, <1>2, <1>3, OtherType DEF Enter, RowsOK, WritesOK

LEMMA CloseType == ASSUME IInv, NEW t \in Tasks, Commit(t) \/ Rollback(t) PROVE TypeOK'
<1>1. FilesOK /\ RowsOK /\ TasksOK /\ WritesOK
  BY TypeParts DEF IInv
<1>2. FilesOK' /\ UNCHANGED <<next, origin, meta>>
  BY <1>1 DEF Commit, Rollback, FilesOK
<1>3. entries' \in [Ids -> Rows \cup {None}]
  <2>1. \A i \in Ids : Visible(t, i) \in Rows \cup {None}
    BY VisibleRow DEF IInv
  <2> QED BY <1>1, <2>1 DEF Commit, Rollback, RowsOK
<1>4. failed' \subseteq Ids
  <2>1. Inserted(t) \subseteq Ids /\ removed[t] \subseteq Ids
    BY <1>1 DEF Inserted, WritesOK, TasksOK
  <2> QED BY <1>1, <2>1 DEF Commit, Rollback, TasksOK
<1>5. TasksOK'
  BY <1>1, <1>4 DEF Commit, Rollback, Close, TasksOK
<1>6. /\ DOMAIN writes' = Tasks /\ DOMAIN writes'[t] = {} /\ removed'[t] = {}
      /\ \A u \in Tasks \ {t} : UNCHANGED <<writes[u], tx[u], removed[u]>>
  BY <1>1 DEF Commit, Rollback, Close, NoWrites, TasksOK, WritesOK
<1> QED BY <1>1, <1>2, <1>3, <1>5, <1>6, OtherType DEF RowsOK

LEMMA CallOnType ==
  ASSUME IInv, NEW t \in Tasks, NEW method \in {"get", "copy", "delete"}, NEW i \in Ids,
         CallOn(t, method, i)
  PROVE  TypeOK'
<1>1. FilesOK /\ RowsOK /\ TasksOK /\ WritesOK
  BY TypeParts DEF IInv
<1>2. [id |-> i, compress |-> None] \in Rows
  BY DEF Rows
<1>3. FilesOK' /\ RowsOK'
  BY <1>1, <1>2 DEF CallOn, FilesOK, RowsOK
<1>4. TasksOK'
  BY <1>1 DEF CallOn, Calls, TasksOK
<1> QED BY <1>1, <1>3, <1>4, OtherType DEF CallOn, RowsOK, WritesOK

LEMMA FetchType == ASSUME IInv, NEW t \in Tasks, Fetch(t) PROVE TypeOK'
<1>1. FilesOK /\ RowsOK /\ TasksOK /\ WritesOK /\ Maps
  BY TypeParts, TypesMap DEF IInv
<1>2. pc[t] # "ready"
  BY DEF Fetch
<1>3. meta[t] \in Rows /\ meta[t].id \in Ids
  BY <1>1, <1>2 DEF IInv, TaskInv, Placed, Maps
<1>4. FilesOK' /\ RowsOK'
  BY <1>1, <1>3, VisibleRow DEF IInv, Fetch, FilesOK, RowsOK
<1>5. TasksOK'
  BY <1>1 DEF Fetch, AfterFetch, TasksOK
<1> QED BY <1>1, <1>4, <1>5, OtherType DEF Fetch, RowsOK, WritesOK

LEMMA EndType == ASSUME IInv, NEW t \in Tasks, Get(t) \/ Refuse(t) PROVE TypeOK'
<1>1. FilesOK /\ RowsOK /\ TasksOK /\ WritesOK
  BY TypeParts DEF IInv
<1>2. Return(t) /\ UNCHANGED <<store, caller, entries, failed>>
  BY DEF Get, Refuse
<1>3. FilesOK' /\ RowsOK' /\ TasksOK'
  BY <1>1, <1>2, ReturnType DEF FilesOK, RowsOK, TasksOK
<1> QED BY <1>1, <1>2, <1>3, OtherType DEF RowsOK, WritesOK

LEMMA DeleteFileType == ASSUME IInv, NEW t \in Tasks, DeleteFile(t) PROVE TypeOK'
<1>1. FilesOK /\ RowsOK /\ TasksOK /\ WritesOK /\ Maps
  BY TypeParts, TypesMap DEF IInv
<1>2. pc[t] = "file"
  BY DEF DeleteFile
<1>3. meta[t].id \in Ids /\ Lost(t) \subseteq Ids
  BY <1>1, <1>2 DEF IInv, TaskInv, Placed, Maps, Lost
<1>4. FilesOK'
  BY <1>1, <1>3 DEF DeleteFile, FilesOK
<1>5. /\ RowsOK' /\ TasksOK'
      /\ tx'[t] = "none" => removed'[t] = removed[t]
      /\ \A u \in Tasks \ {t} : UNCHANGED <<writes[u], tx[u], removed[u]>>
  <2>1. CASE tx[t] = "none"
    BY <1>1, <1>3, <2>1, ReturnType DEF DeleteFile, RowsOK, TasksOK
  <2>2. CASE tx[t] # "none"
    <3>1. /\ pc' = With(pc, t, "remove")
          /\ removed' = With(removed, t, removed[t] \cup Lost(t))
          /\ UNCHANGED <<call, meta, failed, tx, writes, entries>>
      BY <2>2 DEF DeleteFile
    <3>2. TasksOK' /\ RowsOK'
      BY <1>1, <1>3, <3>1 DEF RowsOK, TasksOK
    <3>3. /\ tx'[t] # "none"
          /\ \A u \in Tasks \ {t} : UNCHANGED <<writes[u], tx[u], removed[u]>>
      BY <1>1, <2>2, <3>1 DEF TasksOK
    <3> QED BY <3>2, <3>3
  <2> QED BY <2>1, <2>2
<1> QED BY <1>1, <1>4, <1>5, OtherType DEF DeleteFile, RowsOK, WritesOK

LEMMA StoreStepType == ASSUME IInv, NEW t \in Tasks, Insert(t) \/ Remove(t) PROVE TypeOK'
<1>1. FilesOK /\ RowsOK /\ TasksOK /\ WritesOK /\ Maps
  BY TypeParts, TypesMap DEF IInv
<1>2. pc[t] # "ready"
  BY DEF Insert, Remove
<1>3. meta[t] \in Rows /\ meta[t].id \in Ids
  BY <1>1, <1>2 DEF IInv, TaskInv, Placed, Maps
<1>4. /\ \E row \in Rows \cup {None} : Store(t, meta[t].id, row)
      /\ Return(t) /\ UNCHANGED <<store, tx, removed, failed>>
  BY <1>3 DEF Insert, Remove
<1>5. entries' \in [Ids -> Rows \cup {None}] /\ WritesOK'
  BY <1>3, <1>4, StoreType
<1>6. FilesOK' /\ RowsOK' /\ TasksOK'
  BY <1>1, <1>4, <1>5, ReturnType DEF FilesOK, RowsOK, TasksOK
<1> QED BY <1>5, <1>6 DEF TypeOK, FilesOK, RowsOK, TasksOK, WritesOK

LEMMA FaultType == ASSUME IInv, NEW t \in Tasks, Fault(t) PROVE TypeOK'
<1>1. FilesOK /\ RowsOK /\ TasksOK /\ WritesOK /\ Maps
  BY TypeParts, TypesMap DEF IInv
<1>2. pc[t] # "ready"
  BY DEF Fault
<1>3. meta[t].id \in Ids
  BY <1>1, <1>2 DEF IInv, TaskInv, Placed, Maps
<1>4. FilesOK' /\ RowsOK'
  BY <1>1, ReturnType DEF Fault, FilesOK, RowsOK
<1>5. TasksOK'
  BY <1>1, <1>3, ReturnType DEF Fault, TasksOK
<1>6. /\ tx'[t] = "none" => tx[t] = "none"
      /\ \A u \in Tasks \ {t} : tx'[u] = tx[u]
  BY <1>1 DEF Fault, TasksOK
<1> QED BY <1>1, <1>4, <1>5, <1>6, OtherType DEF Fault, RowsOK, WritesOK
-----------------------------------------------------------------------------
LEMMA PutStep ==
  ASSUME IInv, NEW t \in Tasks, NEW m \in Methods \cup {None}, Put(t, m) PROVE IInv'
<1>1. /\ NewFile(t, Plain(next), next, m) /\ next \in Ids /\ pc[t] = "ready"
      /\ UNCHANGED <<tx, writes, removed, entries, failed>>
      /\ call' = With(call, t, "put")
  BY DEF Put, Calls, NewFile
<1>2. call'[t] = "put"
  BY <1>1 DEF IInv, TypeOK
<1>3. TypeOK'
  BY <1>1, <1>2, NewFileType
<1> QED BY <1>1, <1>3, NewFileStep

(* A copy is of the data its source was put with, and compressed as it is. *)
LEMMA OpenedIsPut ==
  ASSUME IInv, NEW t \in Tasks, pc[t] = "file", files[meta[t].id] # None
  PROVE  /\ CanOpen(meta[t].compress, files[meta[t].id])
         /\ Contents(t) = Plain(origin[meta[t].id])
         /\ origin[meta[t].id] \in Ids /\ meta[t].compress \in Methods \cup {None}
<1>1. meta[t] \in Rows /\ meta[t].id \in Ids /\ Describes(meta[t])
  BY TypesMap DEF IInv, TaskInv, Placed, Noted, Maps
<1>2. meta[t].compress \in Methods \cup {None}
  BY <1>1 DEF Rows
<1>3. origin[meta[t].id] \in Ids
  <2>1. files[meta[t].id] \in Stored
    BY <1>1 DEF IInv, TypeOK
  <2>2. files[meta[t].id] = Compress(meta[t].compress, Plain(origin[meta[t].id]))
    BY <1>1 DEF Describes
  <2> QED BY <2>1, <2>2 DEF Compress, Plain, Stored
<1> QED BY <1>1, <1>2, <1>3, Codec DEF Describes, Contents

LEMMA CopyFileStep == ASSUME IInv, NEW t \in Tasks, CopyFile(t) PROVE IInv'
<1> DEFINE d == origin[meta[t].id]
           m == meta[t].compress
<1>1. pc[t] = "file" /\ files[meta[t].id] # None /\ call[t] = "copy"
  BY DEF CopyFile, Touches
<1>2. d \in Ids /\ m \in Methods \cup {None} /\ Contents(t) = Plain(d)
  BY <1>1, OpenedIsPut
<1>3. /\ NewFile(t, Plain(d), d, m)
      /\ UNCHANGED <<tx, writes, removed, entries, failed, call>>
  BY <1>2 DEF CopyFile
<1>4. call' = With(call, t, call'[t]) /\ call'[t] = "copy"
  BY <1>1, <1>3 DEF IInv, TypeOK
<1>5. TypeOK'
  BY <1>2, <1>3, <1>4, NewFileType
<1> QED BY <1>1, <1>2, <1>3, <1>5, NewFileStep

LEMMA NextIInv == IInv /\ [Next]_vars => IInv'
<1> SUFFICES ASSUME IInv, [Next]_vars PROVE IInv'
  OBVIOUS
<1>1. CASE UNCHANGED vars
  <2>1. TypeOK'
    BY <1>1 DEF vars, IInv, TypeOK
  <2>2. TaskInv'
    BY <1>1 DEF vars, IInv, TaskInv, Placed, Noted, Describes
  <2>3. FileInv'
    BY <1>1 DEF vars, IInv, FileInv, Unused, Rowed, Describes, Whole, Claims, Inserts
  <2>4. ASSUME NEW t \in Tasks, NEW i \in Ids PROVE Own(t, i)' /\ Sees(t, i)'
    <3>1. Own(t, i) /\ Sees(t, i)
      BY DEF IInv, BothInv
    <3>2. Own(t, i)'
      BY <1>1, <3>1 DEF vars, Own, Claims, Inserts, Removes, Gone, Visible
    <3>3. Sees(t, i)'
      BY <1>1, <3>1 DEF vars, Sees, Removes, Gone, Visible
    <3> QED BY <3>2, <3>3
  <2>5. \A t \in Tasks, i \in Ids : \A u \in Tasks \ {t} : Exclusive(t, u, i)'
    BY <1>1 DEF vars, IInv, BothInv, Exclusive, Claims, Inserts, Ignores
  <2> QED BY <2>1, <2>2, <2>3, <2>4, <2>5 DEF IInv, BothInv
<1>2. ASSUME NEW t \in Tasks, Enter(t) PROVE IInv'
  BY <1>2, EnterType, EnterStep
<1>3. ASSUME NEW t \in Tasks, Commit(t) PROVE IInv'
  BY <1>3, CloseType, CommitStep
<1>4. ASSUME NEW t \in Tasks, Rollback(t) PROVE IInv'
  BY <1>4, CloseType, RollbackStep
<1>5. ASSUME NEW t \in Tasks, NEW m \in Methods \cup {None}, Put(t, m) PROVE IInv'
  BY <1>5, PutStep
<1>6. ASSUME NEW t \in Tasks, NEW method \in {"get", "copy", "delete"}, NEW i \in Ids,
             CallOn(t, method, i)
      PROVE  IInv'
  BY <1>6, CallOnType, CallOnStep
<1>7. ASSUME NEW t \in Tasks, Fetch(t) PROVE IInv'
  BY <1>7, FetchType, FetchStep
<1>8. ASSUME NEW t \in Tasks, Get(t) PROVE IInv'
  BY <1>8, EndType, GetStep
<1>9. ASSUME NEW t \in Tasks, CopyFile(t) PROVE IInv'
  BY <1>9, CopyFileStep
<1>10. ASSUME NEW t \in Tasks, DeleteFile(t) PROVE IInv'
  BY <1>10, DeleteFileType, DeleteFileStep, DeleteNothingStep
<1>11. ASSUME NEW t \in Tasks, Insert(t) PROVE IInv'
  BY <1>11, StoreStepType, InsertStep
<1>12. ASSUME NEW t \in Tasks, Remove(t) PROVE IInv'
  BY <1>12, StoreStepType, RemoveStep
<1>13. ASSUME NEW t \in Tasks, Refuse(t) PROVE IInv'
  BY <1>13, EndType, RefuseStep
<1>14. ASSUME NEW t \in Tasks, Fault(t) PROVE IInv'
  BY <1>14, FaultType, FaultStep
<1> QED BY <1>1, <1>2, <1>3, <1>4, <1>5, <1>6, <1>7, <1>8, <1>9, <1>10, <1>11, <1>12, <1>13,
           <1>14 DEF Next

(* The invariant holds in every state of MediaInterface (media/media.py).  *)
THEOREM FilesInvariant == Spec => []IInv
<1>1. Init => IInv
  BY InitIInv
<1>2. IInv /\ [Next]_vars => IInv'
  BY NextIInv
<1> QED BY <1>1, <1>2, PTL DEF Spec

(* Calls, transactions, files and rows have their types; uncommitted rows  *)
(* and removed files are of open transactions only (media/media.py, the    *)
(* transaction of driver.py).                                              *)
THEOREM TypeCorrect == Spec => []TypeOK
<1>1. IInv => TypeOK
  BY DEF IInv
<1> QED BY <1>1, FilesInvariant, PTL

(* get and copy, having fetched an entry, open its file with the right     *)
(* method and read the data that was put, whatever runs in between.        *)
THEOREM ReadIsWhatWasPut == Spec => []ReadsReturnWhatWasPut
<1>1. IInv => ReadsReturnWhatWasPut
  BY OpenedIsPut DEF ReadsReturnWhatWasPut
<1> QED BY <1>1, FilesInvariant, PTL

(* A file without a row, or a row without a file, of no task at work, is   *)
(* left by a failed insert, a rollback, or a delete outside a transaction  *)
(* (put, copy and delete of media/media.py).                               *)
THEOREM FailuresTearOnly == Spec => []OnlyFailuresTear
<1>1. IInv => OnlyFailuresTear
  <2> SUFFICES ASSUME IInv, NEW i \in Ids \ failed, ~Busy(i)
               PROVE  entries[i] # None <=> files[i] # None
    BY DEF OnlyFailuresTear
  <2>1. \A t \in Tasks : ~Claims(t, i) /\ i \notin removed[t]
    BY DEF Busy, Claims, Inserts
  <2> QED BY <2>1 DEF IInv, FileInv, Whole
<1> QED BY <1>1, FilesInvariant, PTL

(* Where rm of a missing path raises, the `remove` of a delete finds its   *)
(* row and waits for no other task, so deletes in opposite orders cannot   *)
(* deadlock (delete of media/media.py).                                    *)
THEOREM RemovalsNeverWait == Spec => []RemoveNeverWaits
<1>1. IInv => RemoveNeverWaits
  <2> SUFFICES ASSUME IInv, NEW t \in Tasks, pc[t] = "remove", meta[t].id \notin tolerant
               PROVE  ~HeldByOther(t, meta[t].id) /\ Visible(t, meta[t].id) # None
    BY DEF RemoveNeverWaits
  <2> DEFINE i == meta[t].id
  <2>1. i \in Ids
    BY TypesMap DEF IInv, TaskInv, Placed, Maps
  <2>2. i \in removed[t] /\ Visible(t, i) # None
    BY <2>1 DEF IInv, BothInv, Sees, Removes, Gone
  <2>3. ASSUME NEW u \in Tasks \ {t}, i \in DOMAIN writes[u] PROVE FALSE
    <3>1. Own(u, i) /\ Exclusive(u, t, i)
      BY <2>1 DEF IInv, BothInv
    <3>2. ~Claims(u, i)
      BY <2>2, <3>1 DEF Exclusive, Ignores
    <3>3. i \in removed[u]
      BY <2>3, <3>1, <3>2 DEF Own, Claims, Gone
    <3> QED BY <2>2, <3>1, <3>3 DEF Exclusive
  <2> QED BY <2>2, <2>3 DEF HeldByOther
<1> QED BY <1>1, FilesInvariant, PTL
=============================================================================

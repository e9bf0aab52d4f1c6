-------------------------- MODULE DataImportProofs --------------------------
(***************************************************************************)
(* DataImport for any number of files, rows and pipelines and any pool.    *)
(*                                                                         *)
(* What a pipeline will take is its queue and, while the reader runs, what *)
(* that is about to put: its stream. Two neighbours in it always fit, the  *)
(* first fits what the pipeline keeps from what it took last, and the last *)
(* ends a file unless the reader runs. That is true of a pipeline that     *)
(* lags files behind, too, since nothing but taking moves it on.           *)
(***************************************************************************)
EXTENDS DataImport, FiniteSetTheorems, SequenceTheorems, WellFoundedInduction, TLAPS

USE ImportAssumption

(* Induction over the naturals.                                            *)
Less == OpToRel(<, Nat)
LEMMA LessDef == ASSUME NEW m \in Nat, NEW n \in Nat PROVE <<m, n>> \in Less <=> m < n
BY DEF OpToRel, Less

LEMMA Induction ==
  ASSUME NEW T, 0 \in T, \A n \in Nat : n \in T => n + 1 \in T
  PROVE  Nat \subseteq T
<1> DEFINE Bad == Nat \ T
<1> SUFFICES ASSUME Bad # {} PROVE FALSE
  OBVIOUS
<1>1. IsWellFoundedOn(Less, Nat)
  BY NatLessThanWellFounded DEF Less
<1>2. PICK m \in Bad : \A n \in Bad : <<n, m>> \notin Less
  BY <1>1, WFMin
<1>3. m # 0 /\ m \in Nat
  OBVIOUS
<1>4. m - 1 \in Nat /\ m - 1 < m
  BY <1>3
<1>5. m - 1 \notin Bad
  BY <1>2, <1>3, <1>4, LessDef
<1> QED BY <1>3, <1>4, <1>5
-----------------------------------------------------------------------------
(* The entries of queues, the rows of a file, and the rows written.        *)
Entries == [kind : {"meta", "finished", "error"}, file : Files, row : {0}]
             \cup [kind : {"open", "close"}, file : Files, row : 1 .. NRows]
FileRows == Files \X (1 .. NRows)
Emitted  == [elements : FileRows, prid : Files, index : Nat]

(* The rows in a queue, unfolded.                                          *)
RowOf(e) == <<e.file, e.row>>
OneMore(prior, e) == IF e.kind = "close" THEN Append(prior, RowOf(e)) ELSE prior
IsUpTo(g, q, n) == g = [i \in 0 .. n |-> IF i = 0 THEN <<>> ELSE OneMore(g[i - 1], q[i])]

LEMMA UpToExists == ASSUME NEW q, NEW n \in Nat PROVE \E g : IsUpTo(g, q, n)
<1> DEFINE T == {m \in Nat : \E g : IsUpTo(g, q, m)}
<1>1. 0 \in T
  <2> DEFINE g == [i \in 0 .. 0 |-> <<>>]
  <2>1. IsUpTo(g, q, 0)
    BY DEF IsUpTo
  <2> QED BY <2>1
<1>2. ASSUME NEW m \in Nat, m \in T PROVE m + 1 \in T
  <2>1. PICK g : IsUpTo(g, q, m)
    BY <1>2
  <2> DEFINE h == [i \in 0 .. m + 1 |-> IF i = m + 1 THEN OneMore(g[m], q[m + 1]) ELSE g[i]]
  <2>2. \A i \in 0 .. m : h[i] = g[i]
    OBVIOUS
  <2>3. \A i \in 0 .. m : g[i] = IF i = 0 THEN <<>> ELSE OneMore(g[i - 1], q[i])
    BY <2>1 DEF IsUpTo
  <2>4. h[m + 1] = OneMore(h[m], q[m + 1])
    BY <2>2
  <2>5. ASSUME NEW i \in 0 .. m + 1
        PROVE  h[i] = IF i = 0 THEN <<>> ELSE OneMore(h[i - 1], q[i])
    <3>1. CASE i = m + 1
      BY <2>4, <3>1
    <3>2. CASE i # m + 1
      <4>1. i \in 0 .. m /\ (i # 0 => i - 1 \in 0 .. m)
        BY <3>2
      <4> HIDE DEF h
      <4> QED BY <2>2, <2>3, <4>1
    <3> QED BY <3>1, <3>2
  <2>6. DOMAIN h = 0 .. m + 1 /\ h = [i \in 0 .. m + 1 |-> h[i]]
    OBVIOUS
  <2> HIDE DEF h
  <2>7. IsUpTo(h, q, m + 1)
    BY <2>5, <2>6 DEF IsUpTo
  <2> QED BY <2>7
<1> HIDE DEF T
<1>3. Nat \subseteq T
  BY <1>1, <1>2, Induction
<1> QED BY <1>3 DEF T

UpTo(g, q) == /\ g[0] = <<>> /\ RowsIn(q) = g[Len(q)]
              /\ \A i \in 1 .. Len(q) : g[i] = OneMore(g[i - 1], q[i])
LEMMA RowsUnfolded == ASSUME NEW q, Len(q) \in Nat PROVE \E g : UpTo(g, q)
<1> DEFINE A == CHOOSE f : f = [i \in 0 .. Len(q) |->
                  IF i = 0 THEN <<>>
                  ELSE IF q[i].kind = "close" THEN Append(f[i - 1], <<q[i].file, q[i].row>>)
                  ELSE f[i - 1]]
<1>1. RowsIn(q) = A[Len(q)]
  BY DEF RowsIn
<1>2. \E f : f = [i \in 0 .. Len(q) |->
                  IF i = 0 THEN <<>>
                  ELSE IF q[i].kind = "close" THEN Append(f[i - 1], <<q[i].file, q[i].row>>)
                  ELSE f[i - 1]]
  <2>1. \E f : IsUpTo(f, q, Len(q))
    BY UpToExists
  <2> QED BY <2>1 DEF IsUpTo, OneMore, RowOf
<1>3. A = [i \in 0 .. Len(q) |->
                  IF i = 0 THEN <<>>
                  ELSE IF q[i].kind = "close" THEN Append(A[i - 1], <<q[i].file, q[i].row>>)
                  ELSE A[i - 1]]
  BY <1>2, Zenon
<1> HIDE DEF A
<1>4. A = [i \in 0 .. Len(q) |-> IF i = 0 THEN <<>> ELSE OneMore(A[i - 1], q[i])]
  BY <1>3 DEF OneMore, RowOf
<1>5. A[0] = <<>> /\ \A i \in 1 .. Len(q) : A[i] = OneMore(A[i - 1], q[i])
  BY <1>4
<1> QED BY <1>1, <1>5 DEF UpTo

LEMMA EntryRow == ASSUME NEW e \in Entries, e.kind = "close" PROVE RowOf(e) \in FileRows
BY DEF Entries, RowOf, FileRows

LEMMA OneMoreType ==
  ASSUME NEW prior \in Seq(FileRows), NEW e \in Entries
  PROVE  OneMore(prior, e) \in Seq(FileRows)
<1>1. CASE e.kind = "close"
  BY <1>1, EntryRow, AppendProperties DEF OneMore
<1>2. CASE e.kind # "close"
  BY <1>2 DEF OneMore
<1> QED BY <1>1, <1>2

LEMMA UpToTypes ==
  ASSUME NEW q \in Seq(Entries), NEW g, UpTo(g, q)
  PROVE  \A i \in 0 .. Len(q) : g[i] \in Seq(FileRows)
<1>1. Len(q) \in Nat /\ \A i \in 1 .. Len(q) : q[i] \in Entries
  BY LenProperties, ElementOfSeq
<1> DEFINE T == {n \in Nat : n <= Len(q) => g[n] \in Seq(FileRows)}
<1>2. 0 \in T
  BY EmptySeq DEF UpTo
<1>3. ASSUME NEW n \in Nat, n \in T PROVE n + 1 \in T
  <2> SUFFICES ASSUME n + 1 <= Len(q) PROVE g[n + 1] \in Seq(FileRows)
    OBVIOUS
  <2>1. n + 1 \in 1 .. Len(q) /\ g[n] \in Seq(FileRows) /\ q[n + 1] \in Entries
    BY <1>1, <1>3
  <2>2. g[n + 1] = OneMore(g[n], q[n + 1])
    BY <2>1 DEF UpTo
  <2> QED BY <2>1, <2>2, OneMoreType
<1> HIDE DEF T
<1>4. Nat \subseteq T
  BY <1>2, <1>3, Induction
<1> QED BY <1>1, <1>4 DEF T

LEMMA RowsInType == ASSUME NEW q \in Seq(Entries) PROVE RowsIn(q) \in Seq(FileRows)
<1>1. Len(q) \in Nat
  BY LenProperties
<1>2. PICK g : UpTo(g, q)
  BY <1>1, RowsUnfolded
<1>3. Len(q) \in 0 .. Len(q) /\ RowsIn(q) = g[Len(q)]
  BY <1>1, <1>2 DEF UpTo
<1> QED BY <1>2, <1>3, UpToTypes

LEMMA RowsInEmpty == RowsIn(<<>>) = <<>>
<1>1. Len(<<>>) = 0
  OBVIOUS
<1>2. PICK g : UpTo(g, <<>>)
  BY <1>1, RowsUnfolded
<1> QED BY <1>1, <1>2 DEF UpTo

(* An entry put at the end adds its row at the end.                        *)
LEMMA RowsInAppend ==
  ASSUME NEW q \in Seq(Entries), NEW e \in Entries
  PROVE  RowsIn(Append(q, e)) = OneMore(RowsIn(q), e)
<1> DEFINE more == Append(q, e)
<1>1. /\ more \in Seq(Entries) /\ Len(q) \in Nat /\ Len(more) = Len(q) + 1
      /\ \A i \in 1 .. Len(q) : more[i] = q[i]
      /\ more[Len(q) + 1] = e
  BY LenProperties, AppendProperties
<1> HIDE DEF more
<1>2. PICK g : UpTo(g, q)
  BY <1>1, RowsUnfolded
<1>3. PICK h : UpTo(h, more)
  BY <1>1, RowsUnfolded
<1> DEFINE T == {n \in Nat : n <= Len(q) => g[n] = h[n]}
<1>4. 0 \in T
  BY <1>2, <1>3 DEF UpTo
<1>5. ASSUME NEW n \in Nat, n \in T PROVE n + 1 \in T
  <2> SUFFICES ASSUME n + 1 <= Len(q) PROVE g[n + 1] = h[n + 1]
    OBVIOUS
  <2>1. n + 1 \in 1 .. Len(q) /\ n + 1 \in 1 .. Len(more) /\ g[n] = h[n] /\ (n + 1) - 1 = n
    BY <1>1, <1>5
  <2>2. g[n + 1] = OneMore(g[n], q[n + 1]) /\ h[n + 1] = OneMore(h[n], more[n + 1])
    BY <1>2, <1>3, <2>1 DEF UpTo
  <2> QED BY <1>1, <2>1, <2>2
<1> HIDE DEF T
<1>6. Nat \subseteq T
  BY <1>4, <1>5, Induction
<1>7. g[Len(q)] = h[Len(q)]
  BY <1>1, <1>6 DEF T
<1>8. Len(q) + 1 \in 1 .. Len(more) /\ (Len(q) + 1) - 1 = Len(q)
  BY <1>1
<1>9. h[Len(q) + 1] = OneMore(h[Len(q)], e)
  BY <1>1, <1>3, <1>8 DEF UpTo
<1> QED BY <1>1, <1>2, <1>3, <1>7, <1>9 DEF UpTo, more

(* An entry taken from the front takes its row from the front.             *)
LEMMA RowsInTail ==
  ASSUME NEW q \in Seq(Entries), q # <<>>
  PROVE  RowsIn(q) = OneMore(<<>>, Head(q)) \o RowsIn(Tail(q))
<1> DEFINE rest == Tail(q)
           first == OneMore(<<>>, Head(q))
<1>1. /\ rest \in Seq(Entries) /\ Len(q) \in Nat /\ Len(rest) \in Nat /\ Len(q) = Len(rest) + 1
      /\ \A i \in 1 .. Len(rest) : rest[i] = q[i + 1]
      /\ Head(q) = q[1] /\ Head(q) \in Entries
  BY LenProperties, HeadTailProperties, EmptySeq
<1>2. first \in Seq(FileRows)
  BY <1>1, EmptySeq, OneMoreType
<1> HIDE DEF rest
<1>3. PICK g : UpTo(g, q)
  BY <1>1, RowsUnfolded
<1>4. PICK h : UpTo(h, rest)
  BY <1>1, RowsUnfolded
<1> DEFINE T == {n \in Nat : n <= Len(rest) => g[n + 1] = first \o h[n]}
<1>5. 0 \in T
  <2>1. 1 \in 1 .. Len(q) /\ 0 + 1 = 1 /\ 1 - 1 = 0
    BY <1>1
  <2>2. g[1] = OneMore(g[0], q[1]) /\ g[0] = <<>> /\ h[0] = <<>>
    BY <1>3, <1>4, <2>1 DEF UpTo
  <2>3. g[1] = first /\ first \o h[0] = first
    BY <1>1, <1>2, <2>2, ConcatEmptySeq
  <2> QED BY <2>1, <2>3
<1> HIDE DEF first
<1>6. ASSUME NEW n \in Nat, n \in T PROVE n + 1 \in T
  <2> SUFFICES ASSUME n + 1 <= Len(rest) PROVE g[(n + 1) + 1] = first \o h[n + 1]
    OBVIOUS
  <2> DEFINE e == rest[n + 1]
  <2>1. /\ n + 1 \in 1 .. Len(rest) /\ (n + 1) + 1 \in 1 .. Len(q) /\ n \in 0 .. Len(rest)
        /\ ((n + 1) + 1) - 1 = n + 1 /\ (n + 1) - 1 = n /\ g[n + 1] = first \o h[n]
    BY <1>1, <1>6
  <2>2. e = q[(n + 1) + 1] /\ e \in Entries /\ h[n] \in Seq(FileRows)
    BY <1>1, <1>4, <2>1, UpToTypes, ElementOfSeq
  <2>3. g[(n + 1) + 1] = OneMore(g[n + 1], e) /\ h[n + 1] = OneMore(h[n], e)
    BY <1>3, <1>4, <2>1, <2>2 DEF UpTo
  <2> HIDE DEF e
  <2>4. CASE e.kind = "close"
    <3>1. RowOf(e) \in FileRows
      BY <2>2, <2>4, EntryRow
    <3>2. \A r \in Seq(FileRows), x \in FileRows : Append(first \o r, x) = first \o Append(r, x)
      <4> SUFFICES ASSUME NEW r \in Seq(FileRows), NEW x \in FileRows
                   PROVE  Append(first \o r, x) = first \o Append(r, x)
        OBVIOUS
      <4>1. first \in Seq(FileRows)
        BY <1>2
      <4> QED BY <4>1
    <3>3. Append(first \o h[n], RowOf(e)) = first \o Append(h[n], RowOf(e))
      BY <2>2, <3>1, <3>2
    <3> QED BY <2>1, <2>3, <2>4, <3>3 DEF OneMore
  <2>5. CASE e.kind # "close"
    BY <2>1, <2>3, <2>5 DEF OneMore
  <2> QED BY <2>4, <2>5
<1> HIDE DEF T
<1>7. Nat \subseteq T
  BY <1>5, <1>6, Induction
<1>8. g[Len(rest) + 1] = first \o h[Len(rest)]
  BY <1>1, <1>7 DEF T
<1>9. RowsIn(q) = g[Len(rest) + 1] /\ RowsIn(rest) = h[Len(rest)]
  BY <1>1, <1>3, <1>4 DEF UpTo
<1> QED BY <1>8, <1>9 DEF rest, first
-----------------------------------------------------------------------------
(* What was emitted, and which rows that is.                               *)
LEMMA ElementsType ==
  ASSUME NEW s \in Seq(Emitted)
  PROVE  /\ Elements(s) \in Seq(FileRows) /\ Len(Elements(s)) = Len(s)
         /\ \A i \in 1 .. Len(s) : Elements(s)[i] = s[i].elements
<1>1. Len(s) \in Nat /\ DOMAIN s = 1 .. Len(s) /\ \A i \in 1 .. Len(s) : s[i] \in Emitted
  BY LenProperties, ElementOfSeq
<1>2. Elements(s) = [i \in 1 .. Len(s) |-> s[i].elements]
  BY <1>1 DEF Elements
<1>3. \A i \in 1 .. Len(s) : s[i].elements \in FileRows
  BY <1>1 DEF Emitted
<1>4. Elements(s) \in [1 .. Len(s) -> FileRows]
  BY <1>2, <1>3
<1>5. Elements(s) \in Seq(FileRows)
  BY <1>1, <1>4, SeqDef
<1>6. Len(Elements(s)) = Len(s)
  <2>1. DOMAIN Elements(s) = 1 .. Len(s) /\ DOMAIN Elements(s) = 1 .. Len(Elements(s))
    BY <1>2, <1>5, LenProperties
  <2>2. Len(Elements(s)) \in Nat
    BY <1>5, LenProperties
  <2> QED BY <1>1, <2>1, <2>2
<1> QED BY <1>2, <1>5, <1>6

LEMMA ElementsAppend ==
  ASSUME NEW s \in Seq(Emitted), NEW r \in Emitted
  PROVE  Elements(Append(s, r)) = Append(Elements(s), r.elements)
<1> DEFINE more == Append(s, r)
           es == Elements(s)
<1>1. /\ more \in Seq(Emitted) /\ Len(s) \in Nat /\ Len(more) = Len(s) + 1
      /\ \A i \in 1 .. Len(s) : more[i] = s[i]
      /\ more[Len(s) + 1] = r
  BY LenProperties, AppendProperties
<1>2. es \in Seq(FileRows) /\ Len(es) = Len(s) /\ \A i \in 1 .. Len(s) : es[i] = s[i].elements
  BY ElementsType
<1>3. r.elements \in FileRows
  BY DEF Emitted
<1> HIDE DEF more, es
<1>4. /\ Append(es, r.elements) \in Seq(FileRows) /\ Len(Append(es, r.elements)) = Len(s) + 1
      /\ \A i \in 1 .. Len(s) : Append(es, r.elements)[i] = s[i].elements
      /\ Append(es, r.elements)[Len(s) + 1] = r.elements
  BY <1>2, <1>3, AppendProperties
<1>5. /\ Elements(more) \in Seq(FileRows) /\ Len(Elements(more)) = Len(s) + 1
      /\ \A i \in 1 .. Len(s) + 1 : Elements(more)[i] = more[i].elements
  BY <1>1, ElementsType
<1>6. \A i \in 1 .. Len(s) + 1 : Elements(more)[i] = Append(es, r.elements)[i]
  BY <1>1, <1>4, <1>5
<1>7. Elements(more) = Append(es, r.elements)
  BY <1>1, <1>4, <1>5, <1>6, SeqEqual
<1> QED BY <1>7 DEF more, es
-----------------------------------------------------------------------------
(* The invariant. Types first: what runs works on a file, and only a bulk  *)
(* writer at work has a batch.                                             *)
Statuses == {"waiting", "running", "done", "failed"}
Running  == {t \in Threads : task[t] = "running"}
TypeInv ==
  /\ rows \in [Files -> 0 .. NRows]
  /\ main \in {"importing", "returned", "raised"} /\ file \in 0 .. NFiles
  /\ task \in [Threads -> Statuses] /\ Cardinality(Running) <= PoolSize
  /\ next \in 1 .. 2 * NRows + 3 /\ late \in BOOLEAN
  /\ queue \in [Pipes -> Seq(Entries)] /\ put \in Seq(FileRows)
  /\ meta \in [Pipes -> Files \cup {None}] /\ buffer \in [Pipes -> FileRows \cup {None}]
  /\ index \in [Pipes -> Nat]
  /\ batch \in [Pipes -> Seq(Emitted)] /\ written \in [Pipes -> Seq(Emitted)]
  /\ \A t \in Threads : ~Ended(t) => file \in Files
  /\ task[Reader] = "running" => next \in 1 .. Last
  /\ task[Reader] = "waiting" => next = 1 /\ \A p \in Pipes : task[p] = "waiting"
  /\ \A p \in Pipes : task[p] # "running" \/ p \notin Bulk => batch[p] = <<>>

(* The stream of a pipeline, and what it has made of it.                   *)
Stream(p) == IF task[Reader] = "running" THEN Append(queue[p], Yielded) ELSE queue[p]
All(p)    == written[p] \o batch[p]

(* What may come after an entry.                                           *)
Ends(e) == e.kind \in {"finished", "error"}
Follows(a, b) ==
  IF b.kind = "meta" THEN Ends(a)
  ELSE /\ b.file = a.file
       /\ IF b.kind = "close" THEN a.kind = "open" /\ b.row = a.row
          ELSE a.kind \in {"meta", "close"} /\ (b.kind = "open" => b.row = a.row + 1)
Chained(q) == \A i \in 1 .. Len(q) - 1 : Follows(q[i], q[i + 1])

(* What a pipeline keeps fits the next entry: the metadata are those of    *)
(* the file, the buffer has the row that is to be closed.                  *)
Keeps(p, e) ==
  /\ e.kind # "meta" => meta[p] = e.file
  /\ e.kind = "close" => buffer[p] = RowOf(e)
InChain(p) ==
  /\ Chained(Stream(p))
  /\ Stream(p) # <<>> => Keeps(p, Stream(p)[1])
  /\ task[Reader] # "running" /\ queue[p] # <<>> => Ends(queue[p][Len(queue[p])])

Carries(p)  == \A i \in DOMAIN All(p) : All(p)[i].prid = All(p)[i].elements[1]
Lossless(p) == task[p] # "failed" => Elements(All(p)) \o RowsIn(queue[p]) = put

(* Without a timeout that came too early a pipeline works on the present   *)
(* file, its index is the number of rows before the next entry, and when   *)
(* it is done so is the reader, with nothing left on the queue.            *)
Counts(p, e) ==
  /\ e.kind = "meta" => index[p] = 0
  /\ e.kind \in {"open", "close"} => index[p] = e.row - 1
Timely(p) ==
  /\ \A i \in 2 .. Len(Stream(p)) : Stream(p)[i].kind # "meta"
  /\ Stream(p) # <<>> /\ task[p] = "running" => Counts(p, Stream(p)[1])
  /\ Stream(p) # <<>> /\ task[p] = "waiting" => Stream(p)[1].kind = "meta"
  /\ task[Reader] = "waiting" \/ task[p] = "done" => queue[p] = <<>>
  /\ task[p] = "done" => Ended(Reader)
  /\ \A i \in DOMAIN All(p) : All(p)[i].index = All(p)[i].elements[2]

PipeInv(p) == InChain(p) /\ Carries(p) /\ Lossless(p) /\ (~late => Timely(p))
IInv == TypeInv /\ \A p \in Pipes : PipeInv(p)
-----------------------------------------------------------------------------
LEMMA ThreadFacts ==
  /\ IsFiniteSet(Threads) /\ Reader \in Threads /\ Pipes \subseteq Threads
  /\ Reader \notin Pipes /\ \A t \in Threads : t # Reader => t \in Pipes
<1>1. Threads = 0 .. NPipes
  BY DEF Threads, Reader, Pipes
<1>2. IsFiniteSet(0 .. NPipes)
  BY FS_Interval
<1>3. IsFiniteSet(Threads)
  BY <1>1, <1>2
<1>4. Reader \in Threads /\ Pipes \subseteq Threads /\ \A t \in Threads : t # Reader => t \in Pipes
  BY DEF Threads
<1>5. Reader \notin Pipes
  BY DEF Reader, Pipes
<1> QED BY <1>3, <1>4, <1>5

(* What the reader yields has its type, and the yields follow each other.  *)
LEMMA Halves ==
  ASSUME NEW n \in Nat
  PROVE  \/ n % 2 = 0 /\ n = 2 * (n \div 2) /\ n \div 2 \in Nat
         \/ n % 2 = 1 /\ n = 2 * (n \div 2) + 1 /\ n \div 2 \in Nat
OBVIOUS

LEMMA YieldedEntry ==
  ASSUME TypeInv, file \in Files, next \in 1 .. Last
  PROVE  Yielded \in Entries /\ Yielded.file = file /\ rows[file] \in 0 .. NRows
<1>1. rows[file] \in 0 .. NRows /\ NRows \in Nat /\ next \in Nat
  BY DEF TypeInv, Last
<1>2. CASE next = 1 \/ next = Last
  BY <1>2, <1>1 DEF Yielded, Entry, Entries
<1>3. CASE next # 1 /\ next # Last
  <2>1. next \div 2 \in 1 .. NRows
    BY <1>1, <1>3, Halves DEF Last
  <2>2. Yielded = [kind |-> IF next % 2 = 0 THEN "open" ELSE "close",
                   file |-> file, row |-> next \div 2]
    BY <1>3 DEF Yielded, Entry
  <2> QED BY <1>1, <2>1, <2>2 DEF Entries
<1> QED BY <1>2, <1>3

LEMMA YieldedFollows ==
  ASSUME TypeInv, file \in Files, next \in 1 .. Last, next # Last, next' = next + 1,
         UNCHANGED <<rows, file>>
  PROVE  Follows(Yielded, Yielded') /\ Yielded'.kind # "meta" /\ ~Ends(Yielded)
<1>1. rows[file] \in 0 .. NRows /\ NRows \in Nat /\ next \in Nat
  BY DEF TypeInv, Last
<1>2. Last' = Last /\ Last = 2 * rows[file] + 2 /\ Last' # 1 /\ next' # 1
  BY <1>1 DEF Last
<1>3. CASE next = 1
  <2>1. Yielded = Entry("meta", 0)
    BY <1>3 DEF Yielded
  <2>2. next' = 2 /\ 2 % 2 = 0 /\ 2 \div 2 = 1
    BY <1>3
  <2>3. Yielded' \in {Entry("finished", 0), Entry("open", 1)}
    BY <1>2, <2>2 DEF Yielded, Entry
  <2> QED BY <2>1, <2>3 DEF Follows, Entry, Ends
<1>4. CASE next # 1 /\ next % 2 = 0
  <2>1. Yielded = Entry("open", next \div 2)
    BY <1>4 DEF Yielded
  <2>2. (next + 1) % 2 = 1 /\ (next + 1) \div 2 = next \div 2 /\ next + 1 # Last
    BY <1>1, <1>2, <1>4
  <2>3. Yielded' = Entry("close", next \div 2)
    BY <1>2, <2>2 DEF Yielded, Entry
  <2> QED BY <2>1, <2>3 DEF Follows, Entry, Ends
<1>5. CASE next # 1 /\ next % 2 # 0
  <2>1. Yielded = Entry("close", next \div 2)
    BY <1>5 DEF Yielded
  <2>2. (next + 1) % 2 = 0 /\ (next + 1) \div 2 = (next \div 2) + 1
    BY <1>1, <1>5, Halves
  <2>3. Yielded' \in {Entry("finished", 0), Entry("open", (next \div 2) + 1)}
    BY <1>2, <2>2 DEF Yielded, Entry
  <2> QED BY <2>1, <2>3 DEF Follows, Entry, Ends
<1> QED BY <1>3, <1>4, <1>5
LEMMA StreamType ==
  ASSUME TypeInv, NEW p \in Pipes
  PROVE  /\ Stream(p) \in Seq(Entries) /\ queue[p] \in Seq(Entries)
         /\ task[Reader] = "running" => Stream(p) = Append(queue[p], Yielded) /\ Yielded \in Entries
         /\ task[Reader] # "running" => Stream(p) = queue[p]
<1>1. queue[p] \in Seq(Entries)
  BY DEF TypeInv
<1>2. CASE task[Reader] = "running"
  <2>1. file \in Files /\ next \in 1 .. Last
    BY <1>2, ThreadFacts DEF TypeInv, Ended
  <2>2. Yielded \in Entries
    BY <2>1, YieldedEntry
  <2>3. Append(queue[p], Yielded) \in Seq(Entries)
    BY <1>1, <2>2, AppendProperties
  <2> QED BY <1>1, <1>2, <2>2, <2>3 DEF Stream
<1>3. CASE task[Reader] # "running"
  BY <1>1, <1>3 DEF Stream
<1> QED BY <1>2, <1>3

(* The reader as it was.                                                   *)
SameReader == task'[Reader] = task[Reader] /\ UNCHANGED <<rows, file, next>>
SameRows(p) == UNCHANGED put /\ All(p)' = All(p) /\ queue'[p] = queue[p]

LEMMA YieldedSame == UNCHANGED <<rows, file, next>> => Yielded' = Yielded
BY DEF Yielded, Last, Entry

LEMMA StreamSame ==
  ASSUME NEW p \in Pipes, SameReader, queue'[p] = queue[p] PROVE Stream(p)' = Stream(p)
BY YieldedSame DEF Stream, SameReader

(* A step that has nothing to do with a pipeline.                          *)
Untouched(p) ==
  /\ queue'[p] = queue[p] /\ meta'[p] = meta[p] /\ buffer'[p] = buffer[p]
  /\ index'[p] = index[p] /\ batch'[p] = batch[p] /\ written'[p] = written[p]
LEMMA OtherPipes ==
  ASSUME NEW p \in Pipes, PipeInv(p), SameReader, Untouched(p), task'[p] = task[p], put' = put,
         ~late' => ~late
  PROVE  PipeInv(p)'
<1>1. Stream(p)' = Stream(p) /\ All(p)' = All(p)
  BY StreamSame DEF Untouched, All
<1>2. InChain(p)'
  BY <1>1 DEF PipeInv, InChain, Keeps, Untouched, SameReader
<1>3. Carries(p)' /\ Lossless(p)'
  BY <1>1 DEF PipeInv, Carries, Lossless, Untouched
<1>4. ~late' => Timely(p)'
  BY <1>1 DEF PipeInv, Timely, Counts, Untouched, SameReader, Ended
<1> QED BY <1>2, <1>3, <1>4 DEF PipeInv
-----------------------------------------------------------------------------
(* Taking an entry: the next in the stream follows it.                     *)
TakenFrom(p, h) ==
  LET q == Stream(p)' IN
  /\ queue[p] # <<>> /\ h = Head(queue[p]) /\ h \in Entries /\ Keeps(p, h)
  /\ q \in Seq(Entries) /\ Chained(q)
  /\ q # <<>> => q[1] \in Entries /\ Follows(h, q[1])
  /\ q = <<>> => queue'[p] = <<>> /\ task[Reader] # "running"
  /\ task[Reader] # "running" /\ queue'[p] # <<>> => Ends(queue'[p][Len(queue'[p])])
  /\ RowsIn(queue[p]) = OneMore(<<>>, h) \o RowsIn(queue'[p])
  /\ queue'[p] \in Seq(Entries)

LEMMA Taken ==
  ASSUME TypeInv, NEW p \in Pipes, InChain(p), NEW kind, Takes(p, kind), SameReader
  PROVE  /\ TakenFrom(p, Head(queue[p])) /\ Head(queue[p]).kind = kind /\ task[p] = "running"
         /\ \A i \in 1 .. Len(Stream(p)') : Stream(p)'[i] = Stream(p)[i + 1]
         /\ Stream(p) # <<>> /\ Stream(p)[1] = Head(queue[p])
         /\ Len(Stream(p)) = Len(Stream(p)') + 1 /\ Len(Stream(p)') \in Nat
<1> DEFINE q == Stream(p)
           r == Stream(p)'
           h == Head(queue[p])
           rest == Tail(queue[p])
<1>1. /\ queue[p] \in Seq(Entries) /\ queue[p] # <<>> /\ h.kind = kind /\ queue'[p] = rest
      /\ task[p] = "running"
  BY DEF Takes, TypeInv
<1>2. /\ rest \in Seq(Entries) /\ h \in Entries /\ h = queue[p][1] /\ Len(queue[p]) \in Nat
      /\ Len(rest) \in Nat /\ Len(queue[p]) = Len(rest) + 1
      /\ \A i \in 1 .. Len(rest) : rest[i] = queue[p][i + 1]
  BY <1>1, HeadTailProperties, LenProperties, EmptySeq
<1>3. RowsIn(queue[p]) = OneMore(<<>>, h) \o RowsIn(rest)
  BY <1>1, RowsInTail
<1> HIDE DEF rest, h
<1> DEFINE y == Yielded
<1>4. /\ task[Reader] = "running" => q = Append(queue[p], y) /\ y \in Entries /\ r = Append(rest, y)
      /\ task[Reader] # "running" => q = queue[p] /\ r = rest
  BY <1>1, StreamType, YieldedSame DEF Stream, SameReader
<1> HIDE DEF q, r, y
<1>5. ASSUME task[Reader] = "running"
      PROVE  /\ q \in Seq(Entries) /\ r \in Seq(Entries) /\ q # <<>> /\ q[1] = h
             /\ Len(r) \in Nat /\ Len(q) = Len(r) + 1
             /\ r # <<>> /\ \A i \in 1 .. Len(r) : r[i] = q[i + 1]
  <2>0. q = Append(queue[p], y) /\ y \in Entries /\ r = Append(rest, y)
    BY <1>4, <1>5
  <2> DEFINE qp == queue[p]
  <2> HIDE DEF qp
  <2>1. /\ q \in Seq(Entries) /\ Len(q) = Len(queue[p]) + 1 /\ q # <<>>
        /\ \A i \in 1 .. Len(queue[p]) : q[i] = queue[p][i]
        /\ q[Len(queue[p]) + 1] = y
    <3>1. qp \in Seq(Entries) /\ q = Append(qp, y)
      BY <1>1, <2>0 DEF qp
    <3>2. /\ q \in Seq(Entries) /\ Len(q) = Len(qp) + 1 /\ q # <<>>
          /\ \A i \in 1 .. Len(qp) : q[i] = qp[i]
          /\ q[Len(qp) + 1] = y
      BY <2>0, <3>1, AppendProperties
    <3> QED BY <3>2 DEF qp
  <2>2. /\ r \in Seq(Entries) /\ Len(r) = Len(rest) + 1 /\ r # <<>>
        /\ \A i \in 1 .. Len(rest) : r[i] = rest[i]
        /\ r[Len(rest) + 1] = y
    BY <1>2, <2>0, AppendProperties
  <2>3. Len(q) = Len(r) + 1 /\ q[1] = h /\ Len(r) \in Nat
    <3>1. 1 \in 1 .. Len(queue[p])
      BY <1>2
    <3> QED BY <1>2, <2>1, <2>2, <3>1
  <2>4. ASSUME NEW i \in 1 .. Len(r) PROVE r[i] = q[i + 1]
    <3>1. CASE i = Len(r)
      BY <1>2, <2>1, <2>2, <3>1
    <3>2. CASE i # Len(r)
      <4>1. i \in 1 .. Len(rest) /\ i + 1 \in 1 .. Len(queue[p])
        BY <1>2, <2>2, <3>2
      <4> QED BY <1>2, <2>1, <2>2, <4>1
    <3> QED BY <3>1, <3>2
  <2> QED BY <2>1, <2>2, <2>3, <2>4
<1>6. /\ q \in Seq(Entries) /\ r \in Seq(Entries) /\ q # <<>> /\ q[1] = h
      /\ Len(r) \in Nat /\ Len(q) = Len(r) + 1 /\ \A i \in 1 .. Len(r) : r[i] = q[i + 1]
      /\ r = <<>> => queue'[p] = <<>> /\ task[Reader] # "running"
  <2>1. CASE task[Reader] # "running"
    BY <1>1, <1>2, <1>4, <2>1
  <2> QED BY <1>5, <2>1
<1>7. Chained(q) /\ Keeps(p, h)
  BY <1>6 DEF InChain, q
<1>8. task[Reader] # "running" /\ rest # <<>> => Ends(rest[Len(rest)])
  <2> SUFFICES ASSUME task[Reader] # "running", rest # <<>> PROVE Ends(rest[Len(rest)])
    OBVIOUS
  <2>1. Len(rest) \in 1 .. Len(rest)
    BY <1>2, EmptySeq
  <2>2. rest[Len(rest)] = queue[p][Len(queue[p])]
    BY <1>2, <2>1
  <2> QED BY <1>1, <2>2 DEF InChain
<1>9. Chained(r) /\ (r # <<>> => r[1] \in Entries /\ Follows(h, r[1]))
  <2>1. ASSUME NEW i \in 1 .. Len(r) - 1 PROVE Follows(r[i], r[i + 1])
    <3>1. i + 1 \in 1 .. Len(q) - 1 /\ i \in 1 .. Len(r) /\ i + 1 \in 1 .. Len(r)
      BY <1>6
    <3> QED BY <1>6, <1>7, <3>1 DEF Chained
  <2>2. ASSUME r # <<>> PROVE r[1] \in Entries /\ Follows(h, r[1])
    <3>1. 1 \in 1 .. Len(r) /\ 1 \in 1 .. Len(q) - 1
      BY <1>6, <2>2, EmptySeq
    <3> QED BY <1>6, <1>7, <3>1, ElementOfSeq DEF Chained
  <2> QED BY <2>1, <2>2 DEF Chained
<1>10. queue'[p] = rest
  BY <1>1
<1>11. TakenFrom(p, h)
  BY <1>1, <1>2, <1>3, <1>6, <1>7, <1>8, <1>9, <1>10 DEF TakenFrom, h, r
<1> QED BY <1>1, <1>6, <1>11 DEF h, q, r
-----------------------------------------------------------------------------
(* What a pipeline does with the entry it takes, for itself.               *)
LEMMA KindsOf ==
  ASSUME NEW e \in Entries
  PROVE  /\ e.kind \in {"meta", "open", "close", "finished", "error"}
         /\ e.file \in Files /\ e.row \in Nat
         /\ e.kind = "meta" => e.row = 0
BY DEF Entries

LEMMA TakenChain ==
  ASSUME NEW p \in Pipes, NEW h, TakenFrom(p, h), SameReader,
         Stream(p)' # <<>> => Keeps(p, Stream(p)[1])'
  PROVE  InChain(p)'
BY DEF TakenFrom, InChain, SameReader

LEMMA NoRowTaken ==
  ASSUME NEW p \in Pipes, NEW h, TakenFrom(p, h), h.kind # "close", PipeInv(p),
         All(p)' = All(p), put' = put, task[p] # "failed"
  PROVE  Carries(p)' /\ Lossless(p)'
<1>1. Carries(p)'
  BY DEF PipeInv, Carries
<1>2. RowsIn(queue'[p]) \in Seq(FileRows)
  BY RowsInType DEF TakenFrom
<1>3. <<>> \o RowsIn(queue'[p]) = RowsIn(queue'[p])
  BY <1>2, ConcatEmptySeq
<1>4. RowsIn(queue[p]) = RowsIn(queue'[p])
  BY <1>3 DEF TakenFrom, OneMore
<1> QED BY <1>1, <1>4 DEF PipeInv, Lossless

(* What a running pipeline needs to be in time after a step.               *)
TakesInTime(p) ==
  /\ \A i \in 1 .. Len(Stream(p)') : Stream(p)'[i] = Stream(p)[i + 1]
  /\ Len(Stream(p)) = Len(Stream(p)') + 1 /\ Len(Stream(p)') \in Nat
LEMMA TimelyTaken ==
  ASSUME TypeInv, NEW p \in Pipes, SameReader, Timely(p), TakesInTime(p), task[p] = "running",
         \A i \in DOMAIN All(p)' : All(p)'[i].index = All(p)'[i].elements[2],
         \/ task'[p] = "running" /\ (Stream(p)' # <<>> => Counts(p, Stream(p)[1])')
         \/ task'[p] = "failed"
  PROVE  Timely(p)'
<1> DEFINE r == Stream(p)'
<1>1. ASSUME NEW i \in 2 .. Len(r) PROVE r[i].kind # "meta"
  <2>1. i \in 1 .. Len(r) /\ i + 1 \in 2 .. Len(Stream(p))
    BY <1>1 DEF TakesInTime
  <2>2. r[i] = Stream(p)[i + 1]
    BY <2>1 DEF TakesInTime
  <2> QED BY <2>1, <2>2 DEF Timely
<1>2. task'[Reader] # "waiting"
  BY DEF TypeInv, SameReader
<1> HIDE DEF r
<1> QED BY <1>1, <1>2 DEF Timely, r

LEMMA MetaForItself ==
  ASSUME IInv, NEW p \in Pipes, SetMetadata(p)
  PROVE  PipeInv(p)' /\ SameReader
<1> DEFINE h == Head(queue[p])
           r == Stream(p)'
<1>1. Takes(p, "meta") /\ SameReader /\ task' = task
  BY DEF SetMetadata, SameReader
<1>2. InChain(p) /\ PipeInv(p) /\ TypeInv
  BY DEF IInv, PipeInv
<1>3. TakenFrom(p, h) /\ h.kind = "meta" /\ task[p] = "running" /\ TakesInTime(p)
      /\ Stream(p) # <<>> /\ Stream(p)[1] = h
  BY <1>1, <1>2, Taken DEF TakesInTime
<1>4. meta'[p] = h.file /\ index' = index /\ late' = late /\ put' = put /\ All(p)' = All(p)
  BY <1>2 DEF SetMetadata, All, TypeInv
<1> HIDE DEF h, r
<1>5. h \in Entries /\ (r # <<>> => r[1] \in Entries /\ Follows(h, r[1]))
  BY <1>3 DEF TakenFrom, r
<1>6. r # <<>> => r[1].kind \notin {"meta", "close"} /\ r[1].file = h.file
                  /\ (r[1].kind = "open" => r[1].row = 1)
  BY <1>3, <1>5, KindsOf DEF Follows, Ends
<1>7. InChain(p)'
  BY <1>1, <1>3, <1>4, <1>6, TakenChain DEF Keeps, r
<1>8. Carries(p)' /\ Lossless(p)'
  BY <1>2, <1>3, <1>4, NoRowTaken
<1>9. ASSUME ~late PROVE Timely(p)'
  <2>1. Timely(p) /\ Counts(p, h)
    BY <1>2, <1>3, <1>9 DEF PipeInv, Timely
  <2>2. index'[p] = 0
    BY <1>3, <1>4, <2>1 DEF Counts
  <2>3. r # <<>> => Counts(p, Stream(p)[1])'
    BY <1>6, <2>2 DEF Counts, r
  <2>4. \A i \in DOMAIN All(p)' : All(p)'[i].index = All(p)'[i].elements[2]
    BY <1>4, <2>1 DEF Timely
  <2>5. task'[p] = "running"
    BY <1>1, <1>3
  <2> QED BY <1>1, <1>2, <1>3, <2>1, <2>3, <2>4, <2>5, TimelyTaken DEF r
<1> QED BY <1>1, <1>4, <1>7, <1>8, <1>9 DEF PipeInv

LEMMA OpenForItself ==
  ASSUME IInv, NEW p \in Pipes, IngestLoop(p)
  PROVE  PipeInv(p)' /\ SameReader
<1> DEFINE h == Head(queue[p])
           r == Stream(p)'
<1>1. Takes(p, "open") /\ SameReader /\ task' = task
  BY DEF IngestLoop, SameReader
<1>2. InChain(p) /\ PipeInv(p) /\ TypeInv
  BY DEF IInv, PipeInv
<1>3. TakenFrom(p, h) /\ h.kind = "open" /\ task[p] = "running" /\ TakesInTime(p)
      /\ Stream(p) # <<>> /\ Stream(p)[1] = h
  BY <1>1, <1>2, Taken DEF TakesInTime
<1>4. /\ buffer'[p] = RowOf(h) /\ meta' = meta /\ index' = index /\ late' = late /\ put' = put
      /\ All(p)' = All(p)
  BY <1>2 DEF IngestLoop, All, TypeInv, RowOf
<1> HIDE DEF h, r
<1>5. h \in Entries /\ (r # <<>> => r[1] \in Entries /\ Follows(h, r[1])) /\ Keeps(p, h)
  BY <1>3 DEF TakenFrom, r
<1>6. r # <<>> => r[1].kind = "close" /\ r[1].file = h.file /\ r[1].row = h.row
  BY <1>3, <1>5, KindsOf DEF Follows, Ends
<1>7. r # <<>> => Keeps(p, Stream(p)[1])'
  BY <1>3, <1>4, <1>5, <1>6 DEF Keeps, r, RowOf
<1>8. InChain(p)'
  BY <1>1, <1>3, <1>7, TakenChain DEF r
<1>9. Carries(p)' /\ Lossless(p)'
  BY <1>2, <1>3, <1>4, NoRowTaken
<1>10. ASSUME ~late PROVE Timely(p)'
  <2>1. Timely(p) /\ Counts(p, h)
    BY <1>2, <1>3, <1>10 DEF PipeInv, Timely
  <2>2. r # <<>> => Counts(p, Stream(p)[1])'
    BY <1>3, <1>4, <1>6, <2>1 DEF Counts, r
  <2>3. \A i \in DOMAIN All(p)' : All(p)'[i].index = All(p)'[i].elements[2]
    BY <1>4, <2>1 DEF Timely
  <2>4. task'[p] = "running"
    BY <1>1, <1>3
  <2> QED BY <1>1, <1>2, <1>3, <2>1, <2>2, <2>3, <2>4, TimelyTaken DEF r
<1> QED BY <1>1, <1>4, <1>8, <1>9, <1>10 DEF PipeInv

(* Rows emitted and written: everything, in order, or what was written.    *)
LEMMA AllType ==
  ASSUME TypeInv, NEW p \in Pipes
  PROVE  /\ written[p] \in Seq(Emitted) /\ batch[p] \in Seq(Emitted) /\ All(p) \in Seq(Emitted)
         /\ Len(written[p]) \in Nat /\ DOMAIN written[p] = 1 .. Len(written[p])
         /\ \A i \in DOMAIN written[p] : i \in DOMAIN All(p) /\ All(p)[i] = written[p][i]
<1> DEFINE w == written[p]
           b == batch[p]
<1>1. w \in Seq(Emitted) /\ b \in Seq(Emitted)
  BY DEF TypeInv
<1>2. All(p) = w \o b
  BY DEF All
<1> HIDE DEF w, b
<1>3. /\ All(p) \in Seq(Emitted) /\ Len(All(p)) = Len(w) + Len(b)
      /\ \A i \in 1 .. Len(w) + Len(b) : All(p)[i] = IF i <= Len(w) THEN w[i] ELSE b[i - Len(w)]
  BY <1>1, <1>2, ConcatProperties
<1>4. /\ Len(w) \in Nat /\ Len(b) \in Nat /\ DOMAIN w = 1 .. Len(w)
      /\ DOMAIN All(p) = 1 .. Len(All(p))
  BY <1>1, <1>3, LenProperties
<1>5. \A i \in 1 .. Len(w) : i \in 1 .. Len(w) + Len(b) /\ i <= Len(w)
  BY <1>4
<1>6. \A i \in DOMAIN w : i \in DOMAIN All(p) /\ All(p)[i] = w[i]
  BY <1>3, <1>4, <1>5
<1> QED BY <1>1, <1>3, <1>4, <1>6 DEF w, b

LEMMA OneMoreRow ==
  ASSUME NEW s \in Seq(Emitted), NEW r \in Emitted
  PROVE  /\ Append(s, r) \in Seq(Emitted)
         /\ \A i \in DOMAIN Append(s, r) :
              (i \in DOMAIN s /\ Append(s, r)[i] = s[i]) \/ Append(s, r)[i] = r
<1> DEFINE more == Append(s, r)
<1>1. /\ more \in Seq(Emitted) /\ Len(s) \in Nat /\ Len(more) = Len(s) + 1
      /\ \A i \in 1 .. Len(s) : more[i] = s[i]
      /\ more[Len(s) + 1] = r
      /\ DOMAIN s = 1 .. Len(s)
  BY LenProperties, AppendProperties
<1> HIDE DEF more
<1>2. DOMAIN more = 1 .. Len(s) + 1
  BY <1>1, LenProperties
<1>3. \A i \in 1 .. Len(s) + 1 : i \in 1 .. Len(s) \/ i = Len(s) + 1
  BY <1>1
<1> QED BY <1>1, <1>2, <1>3 DEF more

LEMMA Appending ==
  ASSUME NEW e \in Seq(FileRows), NEW x \in FileRows, NEW q \in Seq(FileRows)
  PROVE  Append(e, x) \o q = e \o (Append(<<>>, x) \o q)
<1>1. <<>> \in Seq(FileRows) /\ Append(<<>>, x) = <<x>> /\ <<x>> \in Seq(FileRows)
  OBVIOUS
<1>2. Append(e, x) = e \o <<x>>
  BY AppendIsConcat
<1> QED BY <1>1, <1>2, ConcatAssociative

LEMMA EmitForItself ==
  ASSUME IInv, NEW p \in Pipes, Emit(p)
  PROVE  PipeInv(p)' /\ SameReader /\ Row(p) \in Emitted
<1> DEFINE h == Head(queue[p])
           r == Stream(p)'
<1>1. Takes(p, "close") /\ SameReader /\ task' = task
  BY DEF Emit, SameReader
<1>2. InChain(p) /\ PipeInv(p) /\ TypeInv
  BY DEF IInv, PipeInv
<1>3. TakenFrom(p, h) /\ h.kind = "close" /\ task[p] = "running" /\ TakesInTime(p)
      /\ Stream(p) # <<>> /\ Stream(p)[1] = h
  BY <1>1, <1>2, Taken DEF TakesInTime
<1> HIDE DEF h, r
<1>4. h \in Entries /\ (r # <<>> => r[1] \in Entries /\ Follows(h, r[1])) /\ Keeps(p, h)
  BY <1>3 DEF TakenFrom, r
<1>5. r # <<>> => r[1].kind \notin {"meta", "close"} /\ r[1].file = h.file
                  /\ (r[1].kind = "open" => r[1].row = h.row + 1)
  BY <1>3, <1>4, KindsOf DEF Follows, Ends
<1>6. /\ meta' = meta /\ late' = late /\ put' = put /\ index'[p] = index[p] + 1
      /\ index[p] \in Nat
  BY <1>2 DEF Emit, TypeInv
<1>7. meta[p] = h.file /\ buffer[p] = RowOf(h) /\ RowOf(h) \in FileRows /\ h.file \in Files
  BY <1>3, <1>4, EntryRow, KindsOf DEF Keeps
<1> DEFINE new == Row(p)
<1>8. /\ new \in Emitted /\ new.elements = RowOf(h) /\ new.prid = RowOf(h)[1]
      /\ new.index = index[p] + 1 /\ RowOf(h)[2] = h.row
  BY <1>6, <1>7 DEF Row, Emitted, RowOf
<1> HIDE DEF new
<1>9. All(p)' = Append(All(p), new) /\ All(p) \in Seq(Emitted)
  <2>1. written[p] \in Seq(Emitted) /\ batch[p] \in Seq(Emitted) /\ All(p) \in Seq(Emitted)
    BY <1>2, AllType
  <2>2. CASE p \in Bulk
    <3>1. written'[p] = written[p] /\ batch'[p] = Append(batch[p], new)
      BY <1>2, <2>2 DEF Emit, TypeInv, new
    <3> DEFINE w == written[p]
               b == batch[p]
    <3> HIDE DEF w, b
    <3>2. w \in Seq(Emitted) /\ b \in Seq(Emitted)
      BY <2>1 DEF w, b
    <3>3. w \o Append(b, new) = Append(w \o b, new)
      BY <1>8, <3>2
    <3> QED BY <2>1, <3>1, <3>3 DEF All, w, b
  <2>3. CASE p \notin Bulk
    <3>1. written'[p] = Append(written[p], new) /\ batch'[p] = <<>> /\ batch[p] = <<>>
      BY <1>2, <2>3 DEF Emit, TypeInv, new
    <3>2. Append(written[p], new) \in Seq(Emitted)
      BY <1>8, <2>1, AppendProperties
    <3>3. /\ written[p] \o <<>> = written[p]
          /\ Append(written[p], new) \o <<>> = Append(written[p], new)
      BY <2>1, <3>2, ConcatEmptySeq
    <3> QED BY <2>1, <3>1, <3>3 DEF All
  <2> QED BY <2>2, <2>3
<1>10. \A i \in DOMAIN All(p)' : (i \in DOMAIN All(p) /\ All(p)'[i] = All(p)[i]) \/ All(p)'[i] = new
  BY <1>8, <1>9, OneMoreRow
<1>11. Carries(p)'
  BY <1>2, <1>8, <1>10 DEF PipeInv, Carries
<1>12. Lossless(p)'
  <2> DEFINE es == Elements(All(p))
             rest == RowsIn(queue'[p])
  <2>1. Elements(All(p)') = Append(es, RowOf(h)) /\ es \in Seq(FileRows)
    BY <1>8, <1>9, ElementsAppend, ElementsType
  <2>2. rest \in Seq(FileRows) /\ RowsIn(queue[p]) = Append(<<>>, RowOf(h)) \o rest
    BY <1>3, RowsInType DEF TakenFrom, OneMore
  <2> HIDE DEF es, rest
  <2>3. Append(es, RowOf(h)) \o rest = es \o (Append(<<>>, RowOf(h)) \o rest)
    BY <1>7, <2>1, <2>2, Appending
  <2>4. es \o RowsIn(queue[p]) = put
    BY <1>2, <1>3 DEF PipeInv, Lossless, es
  <2>5. Elements(All(p)') \o rest = put
    BY <2>1, <2>2, <2>3, <2>4
  <2> QED BY <1>6, <2>5 DEF Lossless, rest
<1>13. InChain(p)'
  BY <1>1, <1>3, <1>5, <1>6, <1>7, TakenChain DEF Keeps, r
<1>14. ASSUME ~late PROVE Timely(p)'
  <2>1. Timely(p) /\ Counts(p, h)
    BY <1>2, <1>3, <1>14 DEF PipeInv, Timely
  <2>2. index'[p] = h.row /\ new.index = h.row /\ h.row \in Nat
    BY <1>3, <1>4, <1>6, <1>8, <2>1, KindsOf DEF Counts
  <2>3. r # <<>> => Counts(p, Stream(p)[1])'
    BY <1>5, <2>2 DEF Counts, r
  <2>4. \A i \in DOMAIN All(p)' : All(p)'[i].index = All(p)'[i].elements[2]
    BY <1>8, <1>10, <2>1, <2>2 DEF Timely
  <2>5. task'[p] = "running"
    BY <1>1, <1>3
  <2> QED BY <1>1, <1>2, <1>3, <2>1, <2>3, <2>4, <2>5, TimelyTaken DEF r
<1> QED BY <1>1, <1>6, <1>8, <1>11, <1>12, <1>13, <1>14 DEF PipeInv, new

(* A row that is not emitted ends the process, and its batch is lost.      *)
LEMMA WrittenOnly ==
  ASSUME TypeInv, NEW p \in Pipes, written'[p] = written[p], batch'[p] = <<>>
  PROVE  /\ Carries(p) => Carries(p)'
         /\ Timely(p) => \A i \in DOMAIN All(p)' : All(p)'[i].index = All(p)'[i].elements[2]
<1>1. written[p] \in Seq(Emitted)
  BY AllType
<1>2. All(p)' = written[p]
  BY <1>1, ConcatEmptySeq DEF All
<1>3. \A i \in DOMAIN All(p)' : i \in DOMAIN All(p) /\ All(p)'[i] = All(p)[i]
  BY <1>2, AllType
<1> QED BY <1>3 DEF Carries, Timely

LEMMA FailureForItself ==
  ASSUME IInv, NEW p \in Pipes, EmitFails(p)
  PROVE  PipeInv(p)' /\ SameReader
<1> DEFINE h == Head(queue[p])
           r == Stream(p)'
<1>1. Takes(p, "close") /\ SameReader /\ task'[p] = "failed"
  BY ThreadFacts DEF EmitFails, SameReader, IInv, TypeInv
<1>2. InChain(p) /\ PipeInv(p) /\ TypeInv
  BY DEF IInv, PipeInv
<1>3. TakenFrom(p, h) /\ h.kind = "close" /\ task[p] = "running" /\ TakesInTime(p)
      /\ Stream(p) # <<>> /\ Stream(p)[1] = h
  BY <1>1, <1>2, Taken DEF TakesInTime
<1> HIDE DEF h, r
<1>4. h \in Entries /\ (r # <<>> => r[1] \in Entries /\ Follows(h, r[1])) /\ Keeps(p, h)
  BY <1>3 DEF TakenFrom, r
<1>5. r # <<>> => r[1].kind \notin {"meta", "close"} /\ r[1].file = h.file
  BY <1>3, <1>4, KindsOf DEF Follows, Ends
<1>6. meta' = meta /\ late' = late /\ written'[p] = written[p] /\ batch'[p] = <<>>
  BY <1>2 DEF EmitFails, TypeInv
<1>7. r # <<>> => Keeps(p, Stream(p)[1])'
  BY <1>3, <1>4, <1>5, <1>6 DEF Keeps, r
<1>8. InChain(p)'
  BY <1>1, <1>3, <1>7, TakenChain DEF r
<1>9. Carries(p)' /\ Lossless(p)'
  BY <1>1, <1>2, <1>6, WrittenOnly DEF PipeInv, Lossless
<1>10. ASSUME ~late PROVE Timely(p)'
  <2>1. Timely(p)
    BY <1>2, <1>10 DEF PipeInv
  <2>2. \A i \in DOMAIN All(p)' : All(p)'[i].index = All(p)'[i].elements[2]
    BY <1>2, <1>6, <2>1, WrittenOnly
  <2> QED BY <1>1, <1>2, <1>3, <2>1, <2>2, TimelyTaken
<1> QED BY <1>1, <1>6, <1>8, <1>9, <1>10 DEF PipeInv

LEMMA StreamEnd ==
  ASSUME TypeInv, NEW p \in Pipes, EndOfStream(p)
  PROVE  /\ SameReader /\ put' = put /\ meta' = meta /\ buffer' = buffer /\ index' = index
         /\ batch'[p] = <<>>
         /\ \/ task'[p] = "done" /\ All(p)' = All(p)
            \/ task'[p] = "failed" /\ written'[p] = written[p]
<1>1. /\ SameReader /\ put' = put /\ meta' = meta /\ buffer' = buffer /\ index' = index
      /\ batch'[p] = <<>>
  BY ThreadFacts DEF EndOfStream, SameReader, TypeInv
<1>2. CASE task' = [task EXCEPT ![p] = "done"] /\ written' = [written EXCEPT ![p] = Appended(p)]
  <2>1. task'[p] = "done" /\ written'[p] = All(p)
    BY <1>2, ThreadFacts DEF TypeInv, Appended, All
  <2>2. All(p) \o <<>> = All(p)
    BY AllType, ConcatEmptySeq
  <2> QED BY <1>1, <2>1, <2>2 DEF All
<1>3. CASE task' = [task EXCEPT ![p] = "failed"] /\ written' = written
  BY <1>1, <1>3, ThreadFacts DEF TypeInv
<1> QED BY <1>2, <1>3 DEF EndOfStream

LEMMA FinishForItself ==
  ASSUME IInv, NEW p \in Pipes, Finish(p)
  PROVE  PipeInv(p)' /\ SameReader
<1> DEFINE h == Head(queue[p])
           r == Stream(p)'
<1>1. InChain(p) /\ PipeInv(p) /\ TypeInv
  BY DEF IInv, PipeInv
<1>2. PICK kind \in {"finished", "error"} : Takes(p, kind)
  BY DEF Finish
<1>3. /\ SameReader /\ put' = put /\ meta' = meta /\ batch'[p] = <<>>
      /\ \/ task'[p] = "done" /\ All(p)' = All(p)
         \/ task'[p] = "failed" /\ written'[p] = written[p]
  BY <1>1, StreamEnd DEF Finish
<1>4. TakenFrom(p, h) /\ h.kind = kind /\ task[p] = "running" /\ TakesInTime(p)
      /\ Stream(p) # <<>> /\ Stream(p)[1] = h
  BY <1>1, <1>2, <1>3, Taken DEF TakesInTime
<1> HIDE DEF h, r
<1>5. Ends(h) /\ h.kind \notin {"meta", "open", "close"} /\ late' = late
  BY <1>4 DEF Ends, Finish
<1>6. r # <<>> => r[1].kind = "meta"
  BY <1>4, <1>5 DEF TakenFrom, Follows, r
<1>7. InChain(p)'
  BY <1>3, <1>4, <1>6, TakenChain DEF Keeps, r
<1>8. Carries(p)' /\ Lossless(p)'
  <2>1. CASE task'[p] = "done" /\ All(p)' = All(p)
    BY <1>1, <1>3, <1>4, <1>5, <2>1, NoRowTaken
  <2>2. CASE task'[p] = "failed" /\ written'[p] = written[p]
    BY <1>1, <1>3, <2>2, WrittenOnly DEF PipeInv, Lossless
  <2> QED BY <1>3, <2>1, <2>2
<1>9. ASSUME ~late PROVE Timely(p)'
  <2>1. Timely(p)
    BY <1>1, <1>9 DEF PipeInv
  <2>2. CASE task'[p] = "failed" /\ written'[p] = written[p]
    <3>1. \A i \in DOMAIN All(p)' : All(p)'[i].index = All(p)'[i].elements[2]
      BY <1>1, <1>3, <2>1, <2>2, WrittenOnly
    <3> QED BY <1>1, <1>3, <1>4, <2>1, <2>2, <3>1, TimelyTaken
  <2>3. CASE task'[p] = "done" /\ All(p)' = All(p)
    <3>1. r = <<>>
      <4> SUFFICES ASSUME r # <<>> PROVE FALSE
        OBVIOUS
      <4>1. r \in Seq(Entries)
        BY <1>4 DEF TakenFrom, r
      <4>2. 1 \in 1 .. Len(r)
        BY <4>1, EmptySeq
      <4>3. r[1] = Stream(p)[2] /\ 2 \in 2 .. Len(Stream(p))
        BY <1>4, <4>2 DEF TakesInTime, r
      <4> QED BY <1>6, <2>1, <4>3 DEF Timely
    <3>2. queue'[p] = <<>> /\ task[Reader] # "running"
      BY <1>4, <3>1 DEF TakenFrom, r
    <3>3. Ended(Reader)'
      BY <1>1, <1>3, <1>4, <3>2, ThreadFacts DEF TypeInv, Ended, SameReader, Statuses
    <3>4. Len(Stream(p)') = 0 /\ Stream(p)' = <<>>
      BY <3>1 DEF r
    <3>5. \A i \in DOMAIN All(p)' : All(p)'[i].index = All(p)'[i].elements[2]
      BY <2>1, <2>3 DEF Timely
    <3> QED BY <2>3, <3>2, <3>3, <3>4, <3>5 DEF Timely
  <2> QED BY <1>3, <2>2, <2>3
<1> QED BY <1>3, <1>5, <1>7, <1>8, <1>9 DEF PipeInv

LEMMA TimeoutForItself ==
  ASSUME IInv, NEW p \in Pipes, Timeout(p)
  PROVE  PipeInv(p)' /\ SameReader
<1>1. InChain(p) /\ PipeInv(p) /\ TypeInv
  BY DEF IInv, PipeInv
<1>2. /\ SameReader /\ put' = put /\ meta' = meta /\ buffer' = buffer /\ batch'[p] = <<>>
      /\ \/ task'[p] = "done" /\ All(p)' = All(p)
         \/ task'[p] = "failed" /\ written'[p] = written[p]
  BY <1>1, StreamEnd DEF Timeout
<1>3. queue' = queue /\ queue[p] = <<>> /\ task[p] = "running"
  BY DEF Timeout, TimedOut
<1>4. Stream(p)' = Stream(p)
  BY <1>2, <1>3, StreamSame
<1>5. InChain(p)'
  BY <1>1, <1>2, <1>3, <1>4 DEF InChain, Keeps, SameReader
<1>6. Carries(p)' /\ Lossless(p)'
  <2>1. CASE task'[p] = "done" /\ All(p)' = All(p)
    BY <1>1, <1>2, <1>3, <2>1 DEF PipeInv, Carries, Lossless
  <2>2. CASE task'[p] = "failed" /\ written'[p] = written[p]
    BY <1>1, <1>2, <2>2, WrittenOnly DEF PipeInv, Lossless
  <2> QED BY <1>2, <2>1, <2>2
<1>7. ASSUME ~late' PROVE Timely(p)' /\ ~late
  <2>1. ~late /\ Ended(Reader) /\ Timely(p)
    BY <1>1, <1>7 DEF Timeout, PipeInv
  <2>2. Ended(Reader)' /\ task'[Reader] # "waiting"
    BY <1>2, <2>1 DEF Ended, SameReader
  <2>3. Stream(p)' = <<>> /\ Len(Stream(p)') = 0
    BY <1>3, <1>4, <2>1 DEF Stream, Ended
  <2>4. \A i \in DOMAIN All(p)' : All(p)'[i].index = All(p)'[i].elements[2]
    BY <1>1, <1>2, <2>1, WrittenOnly DEF Timely
  <2> QED BY <1>2, <1>3, <2>1, <2>2, <2>3, <2>4 DEF Timely
<1> QED BY <1>2, <1>5, <1>6, <1>7 DEF PipeInv

(* What is a pipeline's own is untouched by the others.                    *)
LEMMA PipesProcess ==
  ASSUME IInv, NEW p \in Pipes, Process(p)
  PROVE  \A o \in Pipes : PipeInv(o)'
<1>1. PipeInv(p)' /\ SameReader
  BY MetaForItself, OpenForItself, EmitForItself, FailureForItself, FinishForItself,
     TimeoutForItself DEF Process
<1>2. put' = put /\ (~late' => ~late)
  BY DEF Process, SetMetadata, IngestLoop, Emit, EmitFails, Finish, EndOfStream, Timeout, IInv,
         TypeInv
<1>3. ASSUME NEW o \in Pipes, o # p PROVE PipeInv(o)'
  <2>1. TypeInv /\ PipeInv(o)
    BY DEF IInv
  <2>2. queue'[o] = queue[o]
    BY <1>3, <2>1 DEF Process, Takes, SetMetadata, IngestLoop, Emit, EmitFails, Finish, Timeout,
                      TypeInv
  <2>3. meta'[o] = meta[o] /\ buffer'[o] = buffer[o] /\ index'[o] = index[o]
    BY <1>3, <2>1 DEF Process, SetMetadata, IngestLoop, Emit, EmitFails, Finish, EndOfStream,
                      Timeout, TypeInv
  <2>4. batch'[o] = batch[o] /\ written'[o] = written[o]
    BY <1>3, <2>1 DEF Process, SetMetadata, IngestLoop, Emit, EmitFails, Finish, EndOfStream,
                      Timeout, TypeInv
  <2>5. task'[o] = task[o]
    BY <1>3, <2>1, ThreadFacts DEF Process, SetMetadata, IngestLoop, Emit, EmitFails, Finish,
                                   EndOfStream, Timeout, TypeInv
  <2> QED BY <1>1, <1>2, <2>1, <2>2, <2>3, <2>4, <2>5, OtherPipes DEF Untouched
<1> QED BY <1>1, <1>3
-----------------------------------------------------------------------------
(* The threads that run are never more than the pool has.                  *)
LEMMA FewerRun ==
  ASSUME TypeInv, \A t \in Threads : task'[t] = "running" => task[t] = "running"
  PROVE  Cardinality(Running') <= PoolSize
<1>1. Running' \subseteq Running /\ Running \subseteq Threads
  BY DEF Running
<1>2. IsFiniteSet(Running) /\ Cardinality(Running) <= PoolSize
  BY <1>1, ThreadFacts, FS_Subset DEF TypeInv
<1>3. Cardinality(Running') <= Cardinality(Running)
  BY <1>1, <1>2, FS_Subset
<1>4. Cardinality(Running) \in Nat /\ Cardinality(Running') \in Nat /\ PoolSize \in Nat
  BY <1>1, <1>2, FS_Subset, FS_CardinalityType
<1> QED BY <1>2, <1>3, <1>4

LEMMA ProcessTypes ==
  ASSUME IInv, NEW p \in Pipes, Process(p)
  PROVE  TypeInv'
<1>1. TypeInv
  BY DEF IInv
<1>2. /\ rows' = rows /\ main' = main /\ file' = file /\ next' = next /\ put' = put
      /\ late' \in BOOLEAN
  BY <1>1 DEF Process, SetMetadata, IngestLoop, Emit, EmitFails, Finish, EndOfStream, Timeout,
              TypeInv
<1>3. /\ task' \in [Threads -> Statuses] /\ task[p] = "running"
      /\ \A t \in Threads : task'[t] = task[t] \/ (t = p /\ task'[t] \in {"done", "failed"})
  <2>1. task[p] = "running"
    BY DEF Process, Takes, TimedOut, SetMetadata, IngestLoop, Emit, EmitFails, Finish, Timeout
  <2>2. \/ task' = task \/ task' = [task EXCEPT ![p] = "done"]
        \/ task' = [task EXCEPT ![p] = "failed"]
    BY DEF Process, SetMetadata, IngestLoop, Emit, EmitFails, Finish, EndOfStream, Timeout
  <2> QED BY <1>1, <2>1, <2>2, ThreadFacts DEF TypeInv, Statuses
<1>4. Cardinality(Running') <= PoolSize
  BY <1>1, <1>3, FewerRun
<1>5. queue' \in [Pipes -> Seq(Entries)]
  <2>1. queue' = queue \/ (queue[p] # <<>> /\ queue' = [queue EXCEPT ![p] = Tail(queue[p])])
    BY DEF Process, Takes, SetMetadata, IngestLoop, Emit, EmitFails, Finish, Timeout
  <2>2. queue[p] # <<>> => Tail(queue[p]) \in Seq(Entries)
    BY <1>1, HeadTailProperties DEF TypeInv
  <2> QED BY <1>1, <2>1, <2>2 DEF TypeInv
<1>6. ASSUME queue[p] # <<>> PROVE Head(queue[p]) \in Entries
  BY <1>1, <1>6, HeadTailProperties DEF TypeInv
<1>7. meta' \in [Pipes -> Files \cup {None}]
  <2>1. meta' = meta \/ (queue[p] # <<>> /\ meta' = [meta EXCEPT ![p] = Head(queue[p]).file])
    BY DEF Process, Takes, SetMetadata, IngestLoop, Emit, EmitFails, Finish, Timeout, EndOfStream
  <2> QED BY <1>1, <1>6, <2>1, KindsOf DEF TypeInv
<1>8. buffer' \in [Pipes -> FileRows \cup {None}]
  <2>1. \/ buffer' = buffer
        \/ /\ queue[p] # <<>> /\ Head(queue[p]).kind = "open"
           /\ buffer' = [buffer EXCEPT ![p] = <<Head(queue[p]).file, Head(queue[p]).row>>]
    BY DEF Process, Takes, SetMetadata, IngestLoop, Emit, EmitFails, Finish, Timeout, EndOfStream
  <2>2. \A e \in Entries : e.kind = "open" => <<e.file, e.row>> \in FileRows
    BY DEF Entries, FileRows
  <2> QED BY <1>1, <1>6, <2>1, <2>2 DEF TypeInv
<1>9. index' \in [Pipes -> Nat]
  <2>1. index' = index \/ index' = [index EXCEPT ![p] = index[p] + 1]
    BY DEF Process, SetMetadata, IngestLoop, Emit, EmitFails, Finish, Timeout, EndOfStream
  <2>2. index[p] + 1 \in Nat
    BY <1>1 DEF TypeInv
  <2> QED BY <1>1, <2>1, <2>2 DEF TypeInv
<1>10. /\ batch' \in [Pipes -> Seq(Emitted)] /\ written' \in [Pipes -> Seq(Emitted)]
       /\ \A o \in Pipes : task'[o] # "running" \/ o \notin Bulk => batch'[o] = <<>>
  <2>1. CASE Emit(p)
    <3>1. Row(p) \in Emitted
      BY <2>1, EmitForItself
    <3>2. Append(batch[p], Row(p)) \in Seq(Emitted) /\ Append(written[p], Row(p)) \in Seq(Emitted)
      BY <1>1, <3>1, AppendProperties DEF TypeInv
    <3>3. task' = task
      BY <2>1 DEF Emit
    <3> QED BY <1>1, <1>3, <2>1, <3>2, <3>3 DEF Emit, TypeInv
  <2>2. CASE SetMetadata(p) \/ IngestLoop(p)
    BY <1>1, <2>2 DEF SetMetadata, IngestLoop, TypeInv
  <2>3. CASE EmitFails(p)
    BY <1>1, <1>3, <2>3, EmptySeq, ThreadFacts DEF EmitFails, TypeInv
  <2>4. CASE Finish(p) \/ Timeout(p)
    <3>1. EndOfStream(p)
      BY <2>4 DEF Finish, Timeout
    <3>2. Appended(p) \in Seq(Emitted)
      BY <1>1, AllType DEF Appended, All
    <3>3. batch' \in [Pipes -> Seq(Emitted)] /\ written' \in [Pipes -> Seq(Emitted)]
      BY <1>1, <3>1, <3>2, EmptySeq DEF EndOfStream, TypeInv
    <3>4. batch' = [batch EXCEPT ![p] = <<>>]
      BY <3>1 DEF EndOfStream
    <3>5. \A o \in Pipes : task'[o] # "running" \/ o \notin Bulk => batch'[o] = <<>>
      BY <1>1, <1>3, <3>4, ThreadFacts DEF TypeInv
    <3> QED BY <3>3, <3>5
  <2> QED BY <2>1, <2>2, <2>3, <2>4 DEF Process
<1>11. /\ \A t \in Threads : ~Ended(t)' => file \in Files
       /\ task'[Reader] = "running" => next \in 1 .. Last
       /\ task'[Reader] = "waiting" => next = 1 /\ \A o \in Pipes : task'[o] = "waiting"
  BY <1>1, <1>3, ThreadFacts DEF TypeInv, Ended
<1>12. Last' = Last
  BY <1>2 DEF Last
<1> QED BY <1>1, <1>2, <1>3, <1>4, <1>5, <1>7, <1>8, <1>9, <1>10, <1>11, <1>12 DEF TypeInv
-----------------------------------------------------------------------------
(* What the reader and the main thread do to the streams.                  *)
LEMMA Prolonged ==
  ASSUME NEW q \in Seq(Entries), NEW y \in Entries
  PROVE  LET more == Append(q, y) IN
         /\ more \in Seq(Entries) /\ more # <<>> /\ Len(more) = Len(q) + 1 /\ Len(q) \in Nat
         /\ more[Len(more)] = y /\ more[1] = IF q = <<>> THEN y ELSE q[1]
         /\ \A i \in 1 .. Len(q) : more[i] = q[i]
         /\ Chained(more) <=> Chained(q) /\ (q # <<>> => Follows(q[Len(q)], y))
<1> DEFINE more == Append(q, y)
<1>1. /\ more \in Seq(Entries) /\ more # <<>> /\ Len(more) = Len(q) + 1 /\ Len(q) \in Nat
      /\ more[Len(q) + 1] = y /\ \A i \in 1 .. Len(q) : more[i] = q[i]
  BY AppendProperties, LenProperties
<1>2. q = <<>> <=> Len(q) = 0
  BY EmptySeq
<1> HIDE DEF more
<1>3. more[1] = IF q = <<>> THEN y ELSE q[1]
  BY <1>1, <1>2
<1>4. ASSUME Chained(more) PROVE Chained(q) /\ (q # <<>> => Follows(q[Len(q)], y))
  <2>1. ASSUME NEW i \in 1 .. Len(q) - 1 PROVE Follows(q[i], q[i + 1])
    <3>1. i \in 1 .. Len(more) - 1 /\ i \in 1 .. Len(q) /\ i + 1 \in 1 .. Len(q)
      BY <1>1
    <3> QED BY <1>1, <1>4, <3>1 DEF Chained
  <2>2. ASSUME q # <<>> PROVE Follows(q[Len(q)], y)
    <3>1. Len(q) \in 1 .. Len(more) - 1 /\ Len(q) \in 1 .. Len(q)
      BY <1>1, <1>2, <2>2
    <3> QED BY <1>1, <1>4, <3>1 DEF Chained
  <2> QED BY <2>1, <2>2 DEF Chained
<1>5. ASSUME Chained(q), q # <<>> => Follows(q[Len(q)], y) PROVE Chained(more)
  <2>1. ASSUME NEW i \in 1 .. Len(more) - 1 PROVE Follows(more[i], more[i + 1])
    <3>1. CASE i = Len(q)
      <4>1. q # <<>> /\ Len(q) \in 1 .. Len(q)
        BY <1>1, <1>2, <3>1
      <4> QED BY <1>1, <1>5, <3>1, <4>1
    <3>2. CASE i # Len(q)
      <4>1. i \in 1 .. Len(q) - 1 /\ i \in 1 .. Len(q) /\ i + 1 \in 1 .. Len(q)
        BY <1>1, <3>2
      <4> QED BY <1>1, <1>5, <4>1 DEF Chained
    <3> QED BY <3>1, <3>2
  <2> QED BY <2>1 DEF Chained
<1> QED BY <1>1, <1>3, <1>4, <1>5 DEF more

LEMMA OneMoreConcat ==
  ASSUME NEW e \in Entries, NEW s \in Seq(FileRows), NEW q \in Seq(FileRows)
  PROVE  s \o OneMore(q, e) = OneMore(s \o q, e)
<1>1. CASE e.kind = "close"
  <2> DEFINE x == RowOf(e)
  <2>1. x \in FileRows
    BY <1>1, EntryRow
  <2> HIDE DEF x
  <2>2. s \o Append(q, x) = Append(s \o q, x)
    BY <2>1
  <2> QED BY <1>1, <2>2 DEF OneMore, x
<1>2. CASE e.kind # "close"
  BY <1>2 DEF OneMore
<1> QED BY <1>1, <1>2

(* An entry on every queue.                                                *)
LEMMA Distributed ==
  ASSUME IInv, NEW e \in Entries, Distribute(e), UNCHANGED <<meta, buffer, index, batch, written>>,
         \A p \in Pipes : task'[p] = task[p]
  PROVE  /\ queue' \in [Pipes -> Seq(Entries)] /\ put' \in Seq(FileRows)
         /\ \A p \in Pipes : /\ queue'[p] = Append(queue[p], e)
                             /\ Carries(p)' /\ Lossless(p)'
<1>1. TypeInv
  BY DEF IInv
<1>2. put \in Seq(FileRows) /\ put' = OneMore(put, e)
  BY <1>1 DEF TypeInv, Distribute, OneMore, RowOf
<1>3. put' \in Seq(FileRows)
  BY <1>2, OneMoreType
<1>4. \A p \in Pipes : queue'[p] = Append(queue[p], e) /\ queue[p] \in Seq(Entries)
  BY <1>1 DEF TypeInv, Distribute
<1>5. queue' \in [Pipes -> Seq(Entries)]
  <2>1. \A p \in Pipes : Append(queue[p], e) \in Seq(Entries)
    BY <1>4, AppendProperties
  <2> QED BY <2>1 DEF Distribute
<1>6. ASSUME NEW p \in Pipes PROVE Carries(p)' /\ Lossless(p)'
  <2>1. All(p)' = All(p) /\ PipeInv(p) /\ All(p) \in Seq(Emitted)
    BY <1>1, AllType DEF All, IInv
  <2>2. Carries(p)'
    BY <2>1 DEF PipeInv, Carries
  <2>3. RowsIn(queue'[p]) = OneMore(RowsIn(queue[p]), e)
    BY <1>4, RowsInAppend
  <2>4. Elements(All(p)) \in Seq(FileRows) /\ RowsIn(queue[p]) \in Seq(FileRows)
    BY <1>4, <2>1, ElementsType, RowsInType
  <2>5. Elements(All(p)) \o RowsIn(queue'[p]) = OneMore(Elements(All(p)) \o RowsIn(queue[p]), e)
    BY <2>3, <2>4, OneMoreConcat
  <2> QED BY <1>2, <2>1, <2>2, <2>5 DEF PipeInv, Lossless
<1> QED BY <1>3, <1>4, <1>5, <1>6

LEMMA RowsStay ==
  ASSUME NEW p \in Pipes, PipeInv(p), UNCHANGED <<queue, batch, written, put>>,
         task[p] # "failed" \/ task'[p] = "failed"
  PROVE  Carries(p)' /\ Lossless(p)' /\ All(p)' = All(p)
BY DEF PipeInv, Carries, Lossless, All

LEMMA ReadStep ==
  ASSUME IInv, Read
  PROVE  TypeInv' /\ \A p \in Pipes : PipeInv(p)'
<1> DEFINE e == Yielded
<1>1. TypeInv /\ task[Reader] = "running" /\ Distribute(e) /\ next' = next + 1
  BY DEF IInv, Read
<1>2. /\ UNCHANGED <<rows, main, file, meta, buffer, index, batch, written, late>>
      /\ task'[Reader] = IF next = Last THEN "done" ELSE "running"
      /\ \A p \in Pipes : task'[p] = task[p]
  BY <1>1, ThreadFacts DEF Read, TypeInv
<1>3. file \in Files /\ next \in 1 .. Last /\ Last' = Last /\ Last = 2 * rows[file] + 2
  BY <1>1, <1>2, ThreadFacts DEF TypeInv, Ended, Last
<1>4. e \in Entries /\ rows[file] \in 0 .. NRows
  BY <1>1, <1>3, YieldedEntry
<1>5. next # Last => Follows(e, Yielded') /\ Yielded'.kind # "meta"
  BY <1>1, <1>2, <1>3, YieldedFollows
<1>6. next = Last => Ends(e)
  BY <1>3, <1>4 DEF Yielded, Entry, Ends
<1>7. /\ queue' \in [Pipes -> Seq(Entries)] /\ put' \in Seq(FileRows)
      /\ \A p \in Pipes : /\ queue'[p] = Append(queue[p], e)
                          /\ Carries(p)' /\ Lossless(p)'
  BY <1>1, <1>2, <1>4, Distributed
<1>8. TypeInv'
  <2>1. task' \in [Threads -> Statuses]
    BY <1>1, ThreadFacts DEF Read, TypeInv, Statuses
  <2>2. Cardinality(Running') <= PoolSize
    BY <1>1, <1>2, ThreadFacts, FewerRun
  <2>3. next' \in 1 .. 2 * NRows + 3 /\ (task'[Reader] = "running" => next' \in 1 .. Last)
    BY <1>1, <1>2, <1>3, <1>4
  <2>4. \A p \in Pipes : task'[p] # "running" \/ p \notin Bulk => batch'[p] = <<>>
    BY <1>1, <1>2 DEF TypeInv
  <2>5. task'[Reader] # "waiting" /\ \A t \in Threads : ~Ended(t)' => file' \in Files
    BY <1>2, <1>3
  <2>6. /\ rows' \in [Files -> 0 .. NRows] /\ main' \in {"importing", "returned", "raised"}
        /\ file' \in 0 .. NFiles /\ late' \in BOOLEAN
        /\ meta' \in [Pipes -> Files \cup {None}] /\ buffer' \in [Pipes -> FileRows \cup {None}]
        /\ index' \in [Pipes -> Nat] /\ batch' \in [Pipes -> Seq(Emitted)]
        /\ written' \in [Pipes -> Seq(Emitted)]
    BY <1>1, <1>2 DEF TypeInv
  <2> QED BY <1>3, <1>7, <2>1, <2>2, <2>3, <2>4, <2>5, <2>6 DEF TypeInv
<1> HIDE DEF e
<1>9. ASSUME NEW p \in Pipes PROVE InChain(p)' /\ (~late' => Timely(p)')
  <2>1. PipeInv(p) /\ queue[p] \in Seq(Entries) /\ Stream(p) = Append(queue[p], e)
    BY <1>1, StreamType DEF IInv, e
  <2> PICK q : q = Stream(p)
    OBVIOUS
  <2> PICK r : r = Stream(p)'
    OBVIOUS
  <2>2. /\ q \in Seq(Entries) /\ q # <<>> /\ Len(q) \in Nat /\ Len(q) \in 1 .. Len(q)
        /\ q[Len(q)] = e /\ queue'[p] = q
    <3> PICK s : s = queue[p]
      OBVIOUS
    <3>1. q = Append(s, e) /\ s \in Seq(Entries)
      BY <2>1
    <3>2. /\ q \in Seq(Entries) /\ q # <<>> /\ Len(q) = Len(s) + 1 /\ Len(s) \in Nat
          /\ q[Len(q)] = e
      BY <1>4, <3>1, Prolonged
    <3>3. Len(q) \in Nat /\ Len(q) \in 1 .. Len(q)
      BY <3>2
    <3> QED BY <1>7, <2>1, <3>2, <3>3
  <2>3. Chained(q) /\ Keeps(p, q[1])
    BY <2>1, <2>2 DEF PipeInv, InChain
  <2>4. Keeps(p, q[1])'
    BY <1>2, <2>3 DEF Keeps
  <2>5. ASSUME ~late
        PROVE  /\ \A i \in 2 .. Len(q) : q[i].kind # "meta"
               /\ task'[p] = "running" => Counts(p, q[1])'
               /\ task'[p] = "waiting" => q[1].kind = "meta"
               /\ task'[p] # "done"
               /\ \A i \in DOMAIN All(p)' : All(p)'[i].index = All(p)'[i].elements[2]
    <3>1. Timely(p) /\ All(p)' = All(p) /\ task'[p] = task[p]
      BY <1>2, <2>1, <2>5 DEF PipeInv, All
    <3>2. task[p] = "running" => Counts(p, q[1])
      BY <2>2, <3>1 DEF Timely
    <3>3. Counts(p, q[1])' <=> Counts(p, q[1])
      BY <1>2 DEF Counts
    <3> QED BY <1>1, <2>2, <3>1, <3>2, <3>3 DEF Timely, Ended
  <2>6. CASE next = Last
    <3>1. r = q /\ task'[Reader] = "done"
      BY <1>2, <2>2, <2>6 DEF Stream
    <3>2. InChain(p)'
      BY <1>6, <2>2, <2>3, <2>4, <2>6, <3>1 DEF InChain
    <3>3. ASSUME ~late PROVE Timely(p)'
      BY <2>2, <2>5, <3>1, <3>3 DEF Timely, Ended
    <3> QED BY <1>2, <3>2, <3>3
  <2>7. CASE next # Last
    <3> PICK y : y = Yielded'
      OBVIOUS
    <3>1. y \in Entries
      <4>1. next' \in 1 .. Last' /\ file' \in Files
        <5>1. next \in Nat /\ Last \in Nat /\ next <= Last /\ next # Last /\ next >= 1
          BY <1>3, <1>4, <2>7
        <5> QED BY <1>1, <1>2, <1>3, <5>1
      <4>2. (TypeInv /\ file \in Files /\ next \in 1 .. Last => Yielded \in Entries)'
        BY YieldedEntry, PTL
      <4> QED BY <1>8, <4>1, <4>2
    <3>2. r = Append(q, y) /\ task'[Reader] = "running"
      BY <1>2, <2>2, <2>7 DEF Stream
    <3>3. Follows(q[Len(q)], y) /\ y.kind # "meta"
      BY <1>5, <2>2, <2>7
    <3>4. /\ r # <<>> /\ Len(r) = Len(q) + 1 /\ r[Len(r)] = y /\ r[1] = q[1]
          /\ \A i \in 1 .. Len(q) : r[i] = q[i]
      BY <2>2, <3>1, <3>2, Prolonged
    <3>5. Chained(r)
      BY <2>2, <2>3, <3>1, <3>2, <3>3, Prolonged
    <3>6. InChain(p)'
      BY <2>4, <3>2, <3>4, <3>5 DEF InChain
    <3>7. ASSUME ~late PROVE Timely(p)'
      <4>1. ASSUME NEW i \in 2 .. Len(r) PROVE r[i].kind # "meta"
        <5>1. CASE i = Len(r)
          BY <3>3, <3>4, <5>1
        <5>2. CASE i # Len(r)
          <6>1. i \in 2 .. Len(q) /\ i \in 1 .. Len(q)
            BY <2>2, <3>4, <5>2
          <6> QED BY <2>5, <3>4, <3>7, <6>1
        <5> QED BY <5>1, <5>2
      <4> QED BY <2>5, <3>2, <3>4, <3>7, <4>1 DEF Timely
    <3> QED BY <1>2, <3>6, <3>7
  <2> QED BY <2>6, <2>7
<1> QED BY <1>7, <1>8, <1>9 DEF PipeInv

(* An error in the place of a row or of the end.                           *)
LEMMA ReadFailsStep ==
  ASSUME IInv, ReadFails
  PROVE  TypeInv' /\ \A p \in Pipes : PipeInv(p)'
<1> DEFINE e == Entry("error", 0)
           y == Yielded
<1>1. TypeInv /\ task[Reader] = "running" /\ Distribute(e) /\ next % 2 = 0
  BY DEF IInv, ReadFails
<1>2. /\ UNCHANGED <<rows, main, file, next, meta, buffer, index, batch, written, late>>
      /\ task'[Reader] = "done"
      /\ \A p \in Pipes : task'[p] = task[p]
  BY <1>1, ThreadFacts DEF ReadFails, TypeInv
<1>3. file \in Files /\ next \in 1 .. Last
  BY <1>1, ThreadFacts DEF TypeInv, Ended
<1>4. e \in Entries /\ e.kind = "error" /\ e.file = file /\ y \in Entries /\ y.file = file
  BY <1>1, <1>3, YieldedEntry DEF Entry, Entries
<1>5. y.kind \in {"open", "finished"}
  BY <1>1 DEF Yielded, Entry
<1>6. /\ queue' \in [Pipes -> Seq(Entries)] /\ put' \in Seq(FileRows)
      /\ \A p \in Pipes : /\ queue'[p] = Append(queue[p], e)
                          /\ Carries(p)' /\ Lossless(p)'
  BY <1>1, <1>2, <1>4, Distributed
<1>7. TypeInv'
  <2>1. task' \in [Threads -> Statuses]
    BY <1>1, ThreadFacts DEF ReadFails, TypeInv, Statuses
  <2>2. Cardinality(Running') <= PoolSize
    BY <1>1, <1>2, ThreadFacts, FewerRun
  <2>3. \A p \in Pipes : task'[p] # "running" \/ p \notin Bulk => batch'[p] = <<>>
    BY <1>1, <1>2 DEF TypeInv
  <2>4. \A t \in Threads : ~Ended(t)' => file' \in Files
    BY <1>2, <1>3
  <2>5. /\ rows' \in [Files -> 0 .. NRows] /\ main' \in {"importing", "returned", "raised"}
        /\ file' \in 0 .. NFiles /\ late' \in BOOLEAN /\ next' \in 1 .. 2 * NRows + 3
        /\ meta' \in [Pipes -> Files \cup {None}] /\ buffer' \in [Pipes -> FileRows \cup {None}]
        /\ index' \in [Pipes -> Nat] /\ batch' \in [Pipes -> Seq(Emitted)]
        /\ written' \in [Pipes -> Seq(Emitted)]
    BY <1>1, <1>2 DEF TypeInv
  <2> QED BY <1>2, <1>6, <2>1, <2>2, <2>3, <2>4, <2>5 DEF TypeInv
<1> HIDE DEF e, y
<1>8. ASSUME NEW p \in Pipes PROVE InChain(p)' /\ (~late' => Timely(p)')
  <2>1. PipeInv(p) /\ queue[p] \in Seq(Entries) /\ Stream(p) = Append(queue[p], y)
    BY <1>1, StreamType DEF IInv, y
  <2> PICK s : s = queue[p]
    OBVIOUS
  <2> PICK q : q = Stream(p)
    OBVIOUS
  <2> PICK r : r = Stream(p)'
    OBVIOUS
  <2> PICK x : x = e
    OBVIOUS
  <2>2. /\ q # <<>> /\ Len(q) = Len(s) + 1 /\ Len(s) \in Nat
        /\ q[1] = IF s = <<>> THEN y ELSE s[1]
        /\ \A i \in 1 .. Len(s) : q[i] = s[i]
        /\ Chained(q) <=> Chained(s) /\ (s # <<>> => Follows(s[Len(s)], y))
    <3>1. q = Append(s, y) /\ s \in Seq(Entries)
      BY <2>1
    <3> QED BY <1>4, <3>1, Prolonged
  <2>3. r = Append(s, x) /\ s \in Seq(Entries) /\ queue'[p] = r
    BY <1>2, <1>6, <2>1 DEF Stream
  <2>4. /\ r # <<>> /\ Len(r) = Len(s) + 1 /\ r[Len(r)] = x
        /\ r[1] = IF s = <<>> THEN x ELSE s[1]
        /\ \A i \in 1 .. Len(s) : r[i] = s[i]
        /\ Chained(r) <=> Chained(s) /\ (s # <<>> => Follows(s[Len(s)], x))
    BY <1>4, <2>3, Prolonged
  <2>5. Chained(q) /\ Keeps(p, q[1])
    BY <2>1, <2>2 DEF PipeInv, InChain
  <2>6. Chained(r)
    BY <1>4, <1>5, <2>2, <2>4, <2>5 DEF Follows
  <2>7. Keeps(p, r[1])'
    <3>1. CASE s = <<>>
      BY <1>2, <1>4, <1>5, <2>2, <2>4, <2>5, <3>1 DEF Keeps
    <3>2. CASE s # <<>>
      BY <1>2, <2>2, <2>4, <2>5, <3>2 DEF Keeps
    <3> QED BY <3>1, <3>2
  <2>8. InChain(p)'
    BY <1>4, <2>3, <2>4, <2>6, <2>7 DEF InChain, Ends
  <2>9. ASSUME ~late PROVE Timely(p)'
    <3>1. Timely(p) /\ All(p)' = All(p) /\ task'[p] = task[p]
      BY <1>2, <2>1, <2>9 DEF PipeInv, All
    <3>2. ASSUME NEW i \in 2 .. Len(r) PROVE r[i].kind # "meta"
      <4>1. CASE i = Len(r)
        BY <1>4, <2>4, <4>1
      <4>2. CASE i # Len(r)
        <5>1. i \in 2 .. Len(q) /\ i \in 1 .. Len(s)
          BY <2>2, <2>4, <4>2
        <5> QED BY <2>2, <2>4, <3>1, <5>1 DEF Timely
      <4> QED BY <4>1, <4>2
    <3>3. task[p] = "running" => Counts(p, r[1])'
      <4>1. CASE s = <<>>
        BY <1>4, <2>4, <4>1 DEF Counts
      <4>2. CASE s # <<>>
        BY <1>2, <2>2, <2>4, <3>1, <4>2 DEF Counts, Timely
      <4> QED BY <4>1, <4>2
    <3>4. task[p] = "waiting" => r[1].kind = "meta"
      BY <1>5, <2>2, <2>4, <3>1 DEF Timely
    <3>5. task[p] # "done"
      BY <1>1, <3>1 DEF Timely, Ended
    <3> QED BY <1>2, <2>4, <3>1, <3>2, <3>3, <3>4, <3>5 DEF Timely
  <2> QED BY <1>2, <2>8, <2>9
<1> QED BY <1>6, <1>7, <1>8 DEF PipeInv

(* The reader dies before its first entry: no pipeline sees the metadata.  *)
LEMMA SetupFailsStep ==
  ASSUME IInv, SetupFails
  PROVE  TypeInv' /\ \A p \in Pipes : PipeInv(p)'
<1> DEFINE y == Yielded
<1>1. TypeInv /\ task[Reader] = "running" /\ next = 1
  BY DEF IInv, SetupFails
<1>2. /\ UNCHANGED <<rows, main, file, next, pipes, put, late>>
      /\ task'[Reader] = "failed" /\ \A p \in Pipes : task'[p] = task[p]
  BY <1>1, ThreadFacts DEF SetupFails, TypeInv
<1>3. UNCHANGED <<queue, meta, buffer, index, batch, written>>
  BY <1>2 DEF pipes
<1>4. y.kind = "meta"
  BY <1>1 DEF Yielded, Entry
<1>5. TypeInv'
  <2>1. task' \in [Threads -> Statuses]
    BY <1>1, ThreadFacts DEF SetupFails, TypeInv, Statuses
  <2>2. Cardinality(Running') <= PoolSize
    BY <1>1, <1>2, ThreadFacts, FewerRun
  <2>3. \A t \in Threads : ~Ended(t)' => file' \in Files
    BY <1>1, <1>2, ThreadFacts DEF TypeInv, Ended
  <2>4. \A p \in Pipes : task'[p] # "running" \/ p \notin Bulk => batch'[p] = <<>>
    BY <1>1, <1>2, <1>3 DEF TypeInv
  <2> QED BY <1>1, <1>2, <1>3, <2>1, <2>2, <2>3, <2>4 DEF TypeInv
<1> HIDE DEF y
<1>6. ASSUME NEW p \in Pipes PROVE InChain(p)' /\ (~late' => Timely(p)')
  <2>1. /\ PipeInv(p) /\ queue[p] \in Seq(Entries) /\ Stream(p) = Append(queue[p], y)
        /\ y \in Entries
    BY <1>1, StreamType DEF IInv, y
  <2> PICK s : s = queue[p]
    OBVIOUS
  <2> PICK q : q = Stream(p)
    OBVIOUS
  <2>2. /\ q # <<>> /\ Len(q) = Len(s) + 1 /\ Len(s) \in Nat /\ q[Len(q)] = y
        /\ q[1] = IF s = <<>> THEN y ELSE s[1]
        /\ \A i \in 1 .. Len(s) : q[i] = s[i]
        /\ Chained(q) <=> Chained(s) /\ (s # <<>> => Follows(s[Len(s)], y))
    <3>1. q = Append(s, y) /\ s \in Seq(Entries)
      BY <2>1
    <3> QED BY <2>1, <3>1, Prolonged
  <2>3. Stream(p)' = s /\ queue'[p] = s
    BY <1>2, <1>3 DEF Stream
  <2>4. Chained(q) /\ Keeps(p, q[1])
    BY <2>1, <2>2 DEF PipeInv, InChain
  <2>5. s # <<>> => Keeps(p, s[1])' /\ Ends(s[Len(s)])
    BY <1>3, <1>4, <2>2, <2>4 DEF Keeps, Follows
  <2>6. InChain(p)'
    BY <2>2, <2>3, <2>4, <2>5 DEF InChain
  <2>7. ASSUME ~late PROVE Timely(p)'
    <3>1. Timely(p) /\ All(p)' = All(p) /\ task'[p] = task[p]
      BY <1>2, <1>3, <2>1, <2>7 DEF PipeInv, All
    <3>2. s = <<>>
      <4> SUFFICES ASSUME s # <<>> PROVE FALSE
        OBVIOUS
      <4>1. Len(s) # 0
        BY <2>1, EmptySeq
      <4>2. Len(q) \in 2 .. Len(q)
        BY <2>2, <4>1
      <4> QED BY <1>4, <2>2, <3>1, <4>2 DEF Timely
    <3>3. Len(s) = 0
      BY <3>2
    <3> QED BY <1>2, <2>3, <3>1, <3>2, <3>3 DEF Timely, Ended
  <2> QED BY <1>2, <2>6, <2>7
<1>7. \A p \in Pipes : Carries(p)' /\ Lossless(p)'
  BY <1>2, <1>3, RowsStay DEF IInv
<1> QED BY <1>5, <1>6, <1>7 DEF PipeInv

(* A thread starts only while one of the pool is free.                     *)
LEMMA OneMoreRuns ==
  ASSUME TypeInv, FreeThread, NEW u \in Threads, task' = [task EXCEPT ![u] = "running"]
  PROVE  Cardinality(Running') <= PoolSize
<1>1. Running \subseteq Threads /\ Running' \subseteq Running \cup {u}
  BY DEF Running, TypeInv
<1>2. IsFiniteSet(Running) /\ IsFiniteSet(Running \cup {u})
  BY <1>1, ThreadFacts, FS_Subset, FS_AddElement
<1>3. Cardinality(Running) \in Nat /\ Cardinality(Running) < PoolSize
  BY <1>2, FS_CardinalityType DEF Running, FreeThread
<1>4. Cardinality(Running \cup {u}) \in {Cardinality(Running), Cardinality(Running) + 1}
  BY <1>2, FS_AddElement
<1>5. IsFiniteSet(Running') /\ Cardinality(Running') <= Cardinality(Running \cup {u})
  BY <1>1, <1>2, FS_Subset
<1>6. Cardinality(Running') \in Nat /\ PoolSize \in Nat
  BY <1>5, FS_CardinalityType
<1> QED BY <1>3, <1>4, <1>5, <1>6

LEMMA StartReaderStep ==
  ASSUME IInv, Start(Reader)
  PROVE  TypeInv' /\ \A p \in Pipes : PipeInv(p)'
<1> DEFINE y == Yielded
<1>1. /\ TypeInv /\ task[Reader] = "waiting" /\ FreeThread
      /\ task' = [task EXCEPT ![Reader] = "running"]
      /\ UNCHANGED <<rows, main, file, next, queue, meta, buffer, batch, written, put, late>>
  BY DEF IInv, Start
<1>2. index' = index
  BY <1>1, ThreadFacts DEF Start, TypeInv
<1>3. task'[Reader] = "running" /\ \A p \in Pipes : task'[p] = task[p] /\ task[p] = "waiting"
  BY <1>1, ThreadFacts DEF TypeInv
<1>4. file \in Files /\ next = 1 /\ y' = y /\ y.kind = "meta" /\ rows[file] \in 0 .. NRows
  <2>1. file \in Files /\ next = 1 /\ rows[file] \in 0 .. NRows
    BY <1>1, ThreadFacts DEF TypeInv, Ended
  <2> QED BY <1>1, <2>1, YieldedSame DEF Yielded, Entry
<1>5. TypeInv'
  <2>1. task' \in [Threads -> Statuses]
    BY <1>1 DEF TypeInv, Statuses
  <2>2. Cardinality(Running') <= PoolSize
    BY <1>1, OneMoreRuns, ThreadFacts
  <2>3. \A t \in Threads : ~Ended(t)' => file' \in Files
    BY <1>1, <1>4
  <2>4. \A p \in Pipes : task'[p] # "running" \/ p \notin Bulk => batch'[p] = <<>>
    BY <1>1, <1>3 DEF TypeInv
  <2>5. next' \in 1 .. Last'
    BY <1>1, <1>4 DEF Last
  <2> QED BY <1>1, <1>2, <1>3, <2>1, <2>2, <2>3, <2>4, <2>5 DEF TypeInv
<1>6. y \in Entries
  BY <1>1, <1>4, YieldedEntry DEF Last
<1> HIDE DEF y
<1>7. ASSUME NEW p \in Pipes PROVE InChain(p)' /\ (~late' => Timely(p)')
  <2>1. PipeInv(p) /\ queue[p] \in Seq(Entries) /\ Stream(p) = queue[p]
    BY <1>1, StreamType DEF IInv
  <2> PICK s : s = queue[p]
    OBVIOUS
  <2> PICK r : r = Stream(p)'
    OBVIOUS
  <2> PICK x : x = y
    OBVIOUS
  <2>2. r = Append(s, x)
    BY <1>1, <1>3, <1>4 DEF Stream, y
  <2>3. /\ r # <<>> /\ Len(r) = Len(s) + 1 /\ r[Len(r)] = x
        /\ r[1] = IF s = <<>> THEN x ELSE s[1]
        /\ Chained(r) <=> Chained(s) /\ (s # <<>> => Follows(s[Len(s)], x))
    BY <1>6, <2>1, <2>2, Prolonged
  <2>4. Chained(s) /\ (s # <<>> => Ends(s[Len(s)]) /\ Keeps(p, s[1]))
    BY <1>1, <2>1 DEF PipeInv, InChain
  <2>5. Chained(r) /\ Keeps(p, r[1])'
    BY <1>1, <1>4, <2>3, <2>4 DEF Follows, Keeps
  <2>6. InChain(p)'
    BY <1>3, <2>5 DEF InChain
  <2>7. ASSUME ~late PROVE Timely(p)'
    <3>1. Timely(p) /\ All(p)' = All(p) /\ s = <<>>
      BY <1>1, <2>1, <2>7 DEF PipeInv, All, Timely
    <3>2. Len(r) = 1 /\ r[1].kind = "meta"
      BY <1>4, <2>3, <3>1
    <3> QED BY <1>3, <3>1, <3>2 DEF Timely
  <2> QED BY <1>1, <2>6, <2>7
<1>8. \A p \in Pipes : Carries(p)' /\ Lossless(p)'
  BY <1>1, <1>3, RowsStay DEF IInv
<1> QED BY <1>5, <1>7, <1>8 DEF PipeInv

LEMMA StartPipeStep ==
  ASSUME IInv, NEW p \in Pipes, Start(p)
  PROVE  TypeInv' /\ \A o \in Pipes : PipeInv(o)'
<1>1. /\ TypeInv /\ task[p] = "waiting" /\ FreeThread
      /\ task' = [task EXCEPT ![p] = "running"]
      /\ index' = [o \in Pipes |-> IF o = p THEN 0 ELSE index[o]]
      /\ UNCHANGED <<rows, main, file, next, queue, meta, buffer, batch, written, put, late>>
  BY DEF IInv, Start
<1>2. task[Reader] # "waiting" /\ SameReader
  <2>1. Reader < p
    BY DEF Reader, Pipes
  <2>2. task[Reader] # "waiting"
    BY <2>1, ThreadFacts DEF Start
  <2> QED BY <1>1, <2>2, ThreadFacts DEF SameReader, TypeInv
<1>3. /\ task'[p] = "running" /\ index'[p] = 0
      /\ \A o \in Pipes : o # p => task'[o] = task[o] /\ index'[o] = index[o]
  BY <1>1, ThreadFacts DEF TypeInv
<1>4. TypeInv'
  <2>1. task' \in [Threads -> Statuses]
    BY <1>1 DEF TypeInv, Statuses
  <2>2. Cardinality(Running') <= PoolSize
    BY <1>1, OneMoreRuns, ThreadFacts
  <2>3. \A t \in Threads : ~Ended(t)' => file' \in Files
    BY <1>1, ThreadFacts DEF TypeInv, Ended
  <2>4. \A o \in Pipes : task'[o] # "running" \/ o \notin Bulk => batch'[o] = <<>>
    BY <1>1, <1>3 DEF TypeInv
  <2>5. index' \in [Pipes -> Nat]
    BY <1>1 DEF TypeInv
  <2>6. task'[Reader] = "running" => next' \in 1 .. Last'
    BY <1>1, <1>2 DEF TypeInv, SameReader, Last
  <2> QED BY <1>1, <1>2, <2>1, <2>2, <2>3, <2>4, <2>5, <2>6 DEF TypeInv, SameReader
<1>5. ASSUME NEW o \in Pipes, o # p PROVE PipeInv(o)'
  BY <1>1, <1>2, <1>3, <1>5, OtherPipes DEF IInv, Untouched
<1>6. PipeInv(p)'
  <2>1. PipeInv(p) /\ Stream(p)' = Stream(p) /\ All(p)' = All(p)
    BY <1>1, <1>2, StreamSame DEF IInv, All
  <2>2. InChain(p)'
    BY <1>1, <1>2, <2>1 DEF PipeInv, InChain, Keeps, SameReader
  <2>3. Carries(p)' /\ Lossless(p)'
    BY <1>1, <2>1, RowsStay
  <2>4. ASSUME ~late PROVE Timely(p)'
    <3>1. Timely(p) /\ (Stream(p) # <<>> => Stream(p)[1].kind = "meta")
      BY <1>1, <2>1, <2>4 DEF PipeInv, Timely
    <3>2. Stream(p)' # <<>> => Counts(p, Stream(p)[1])'
      BY <1>3, <2>1, <3>1 DEF Counts
    <3> QED BY <1>2, <1>3, <2>1, <3>1, <3>2 DEF Timely, SameReader
  <2> QED BY <1>1, <2>2, <2>3, <2>4 DEF PipeInv
<1> QED BY <1>4, <1>5, <1>6

LEMMA NextFileStep ==
  ASSUME IInv, NextFile
  PROVE  TypeInv' /\ \A p \in Pipes : PipeInv(p)'
<1>1. /\ TypeInv /\ file < NFiles /\ file' = file + 1 /\ next' = 1
      /\ task' = [t \in Threads |-> "waiting"]
      /\ UNCHANGED <<rows, main, put, late, queue, meta, buffer, index, batch, written>>
  BY DEF IInv, NextFile, pipes
<1>2. \A t \in Threads : task[t] = "done"
  BY DEF NextFile, Ended, Failure
<1>3. task[Reader] = "done" /\ task'[Reader] = "waiting"
      /\ \A p \in Pipes : task[p] = "done" /\ task'[p] = "waiting"
  BY <1>1, <1>2, ThreadFacts
<1>4. TypeInv'
  <2>1. file' \in Files /\ file' \in 0 .. NFiles
    BY <1>1 DEF TypeInv, Files
  <2>2. Cardinality(Running') <= PoolSize
    BY <1>1, FewerRun
  <2>3. \A p \in Pipes : task'[p] # "running" \/ p \notin Bulk => batch'[p] = <<>>
    BY <1>1, <1>3 DEF TypeInv
  <2>4. task' \in [Threads -> Statuses]
    BY <1>1 DEF Statuses
  <2>5. next' \in 1 .. 2 * NRows + 3
    BY <1>1
  <2> QED BY <1>1, <1>3, <2>1, <2>2, <2>3, <2>4, <2>5 DEF TypeInv
<1>5. ASSUME NEW p \in Pipes PROVE InChain(p)' /\ (~late' => Timely(p)')
  <2>1. PipeInv(p) /\ Stream(p) = queue[p] /\ Stream(p)' = queue[p] /\ All(p)' = All(p)
    BY <1>1, <1>3 DEF IInv, Stream, All
  <2>2. InChain(p)'
    BY <1>1, <1>3, <2>1 DEF PipeInv, InChain, Keeps
  <2>3. ~late => Timely(p) /\ Stream(p)' = <<>>
    BY <1>3, <2>1 DEF PipeInv, Timely
  <2>4. Len(<<>>) = 0
    OBVIOUS
  <2>5. ~late => Timely(p)'
    BY <1>1, <1>3, <2>1, <2>3, <2>4 DEF Timely
  <2> QED BY <1>1, <2>2, <2>5
<1>6. \A p \in Pipes : Carries(p)' /\ Lossless(p)'
  BY <1>1, <1>3, RowsStay DEF IInv
<1> QED BY <1>4, <1>5, <1>6 DEF PipeInv

LEMMA NothingMoves ==
  ASSUME IInv, UNCHANGED <<rows, file, task, next, pipes, put, late>>,
         main' \in {"importing", "returned", "raised"}
  PROVE  IInv'
<1>1. UNCHANGED <<queue, meta, buffer, index, batch, written>> /\ SameReader
  BY DEF pipes, SameReader
<1>2. TypeInv'
  BY <1>1 DEF IInv, TypeInv, Ended, Running, Last
<1>3. ASSUME NEW p \in Pipes PROVE PipeInv(p)'
  BY <1>1, OtherPipes DEF IInv, Untouched
<1> QED BY <1>2, <1>3 DEF IInv
-----------------------------------------------------------------------------
LEMMA InitInv == Init => IInv
<1> SUFFICES ASSUME Init PROVE IInv
  OBVIOUS
<1>1. /\ rows \in [Files -> 0 .. NRows] /\ main = "importing" /\ file = 0 /\ next = 1
      /\ task = [t \in Threads |-> "done"] /\ queue = [p \in Pipes |-> <<>>]
      /\ meta = [p \in Pipes |-> None] /\ buffer = [p \in Pipes |-> None]
      /\ index = [p \in Pipes |-> 0] /\ batch = [p \in Pipes |-> <<>>]
      /\ written = [p \in Pipes |-> <<>>] /\ put = <<>> /\ late = FALSE
  BY DEF Init, Files
<1>2. Running = {} /\ Cardinality({}) = 0
  BY <1>1, FS_EmptySet DEF Running
<1>3. task[Reader] = "done" /\ \A p \in Pipes : task[p] = "done"
  BY <1>1, ThreadFacts
<1>4. \A S : <<>> \in Seq(S)
  BY EmptySeq
<1>5. TypeInv
  <2>1. file \in 0 .. NFiles /\ next \in 1 .. 2 * NRows + 3 /\ 0 <= PoolSize
    BY <1>1
  <2>2. \A t \in Threads : Ended(t)
    BY <1>1 DEF Ended
  <2>3. task \in [Threads -> Statuses]
    BY <1>1 DEF Statuses
  <2>4. queue \in [Pipes -> Seq(Entries)] /\ put \in Seq(FileRows)
    BY <1>1, <1>4
  <2>5. batch \in [Pipes -> Seq(Emitted)] /\ written \in [Pipes -> Seq(Emitted)]
    BY <1>1, <1>4
  <2>6. /\ meta \in [Pipes -> Files \cup {None}] /\ buffer \in [Pipes -> FileRows \cup {None}]
        /\ index \in [Pipes -> Nat] /\ \A p \in Pipes : batch[p] = <<>>
    BY <1>1
  <2> QED BY <1>1, <1>2, <1>3, <2>1, <2>2, <2>3, <2>4, <2>5, <2>6 DEF TypeInv
<1>6. ASSUME NEW p \in Pipes PROVE PipeInv(p)
  <2>1. Stream(p) = <<>> /\ queue[p] = <<>> /\ All(p) = <<>>
    <3>1. <<>> \o <<>> = <<>>
      OBVIOUS
    <3> QED BY <1>1, <1>3, <3>1 DEF Stream, All
  <2>2. Len(<<>>) = 0 /\ DOMAIN <<>> = {}
    OBVIOUS
  <2>3. InChain(p)
    BY <2>1, <2>2 DEF InChain, Chained
  <2>4. Elements(<<>>) = <<>>
    BY <2>2 DEF Elements
  <2>5. <<>> \o <<>> = <<>>
    OBVIOUS
  <2>6. Carries(p) /\ Lossless(p)
    BY <1>1, <2>1, <2>2, <2>4, <2>5, RowsInEmpty DEF Carries, Lossless
  <2>7. Timely(p)
    BY <1>3, <2>1, <2>2 DEF Timely, Ended
  <2> QED BY <2>3, <2>6, <2>7 DEF PipeInv
<1> QED BY <1>5, <1>6 DEF IInv

LEMMA StepInv == IInv /\ [Next]_vars => IInv'
<1> SUFFICES ASSUME IInv, [Next]_vars PROVE IInv'
  OBVIOUS
<1>1. ASSUME NextFile PROVE IInv'
  BY <1>1, NextFileStep DEF IInv
<1>2. ASSUME EndImport PROVE IInv'
  BY <1>2, NothingMoves DEF EndImport
<1>3. ASSUME NEW t \in Threads, Start(t) PROVE IInv'
  <2>1. CASE t = Reader
    BY <1>3, <2>1, StartReaderStep DEF IInv
  <2>2. CASE t # Reader
    BY <1>3, <2>2, StartPipeStep, ThreadFacts DEF IInv
  <2> QED BY <2>1, <2>2
<1>4. ASSUME Read \/ ReadFails \/ SetupFails PROVE IInv'
  BY <1>4, ReadStep, ReadFailsStep, SetupFailsStep DEF IInv
<1>5. ASSUME NEW p \in Pipes, Process(p) PROVE IInv'
  BY <1>5, PipesProcess, ProcessTypes DEF IInv
<1>6. ASSUME UNCHANGED vars PROVE IInv'
  <2>1. main \in {"importing", "returned", "raised"}
    BY DEF IInv, TypeInv
  <2> QED BY <1>6, <2>1, NothingMoves DEF vars
<1>7. ASSUME NEW t \in Threads, Thread(t) PROVE IInv'
  BY <1>4, <1>5, <1>7, ThreadFacts DEF Thread
<1> QED BY <1>1, <1>2, <1>3, <1>6, <1>7 DEF Next, Main

LEMMA Invariance == Spec => []IInv
BY InitInv, StepInv, PTL DEF Spec
-----------------------------------------------------------------------------
LEMMA TypesTyped == IInv => TypeOK
<1> SUFFICES ASSUME TypeInv PROVE TypeOK
  BY DEF IInv
<1>1. ASSUME NEW p \in Pipes, NEW i \in DOMAIN queue[p]
      PROVE  queue[p][i] \in [kind : {"meta", "open", "close", "finished", "error"},
                              file : Files, row : 0 .. NRows]
  <2>1. queue[p] \in Seq(Entries)
    BY DEF TypeInv
  <2>2. queue[p][i] \in Entries
    BY <1>1, <2>1, LenProperties, ElementOfSeq
  <2>3. Entries \subseteq [kind : {"meta", "open", "close", "finished", "error"},
                           file : Files, row : 0 .. NRows]
    BY DEF Entries
  <2> QED BY <2>2, <2>3
<1>2. ASSUME NEW p \in Pipes
      PROVE  /\ meta[p] \in Files \cup {None} /\ index[p] \in Nat
             /\ buffer[p] \in (Files \X (1 .. NRows)) \cup {None}
             /\ p \notin Bulk => batch[p] = <<>>
  BY <1>2 DEF TypeInv, FileRows
<1> QED BY <1>1, <1>2 DEF TypeInv, TypeOK, Running, Statuses

LEMMA LosslessRows == IInv => NothingLost
BY DEF IInv, PipeInv, Lossless, All, NothingLost

LEMMA CarriedRows == IInv => RowCarriesItsFile
BY AllType DEF IInv, PipeInv, Carries, RowCarriesItsFile

LEMMA TimelyRows == IInv => CompleteWhenInTime
<1> SUFFICES ASSUME IInv, ~late, \A t \in Threads : task[t] = "done", NEW p \in Pipes
             PROVE  /\ queue[p] = <<>> /\ Elements(written[p]) = put
                    /\ \A i \in DOMAIN written[p] : written[p][i].index = written[p][i].elements[2]
  BY DEF CompleteWhenInTime
<1>1. TypeInv /\ Lossless(p) /\ Timely(p) /\ task[p] = "done"
  BY ThreadFacts DEF IInv, PipeInv
<1>2. queue[p] = <<>> /\ batch[p] = <<>> /\ written[p] \in Seq(Emitted)
  BY <1>1 DEF Timely, TypeInv
<1>3. All(p) = written[p]
  BY <1>2, ConcatEmptySeq DEF All
<1>4. Elements(written[p]) \in Seq(FileRows)
  BY <1>2, ElementsType
<1>5. Elements(written[p]) \o <<>> = Elements(written[p])
  BY <1>4, ConcatEmptySeq
<1>6. Elements(written[p]) \o RowsIn(queue[p]) = put
  BY <1>1, <1>3 DEF Lossless
<1>7. Elements(written[p]) = put
  BY <1>2, <1>5, <1>6, RowsInEmpty
<1> QED BY <1>1, <1>2, <1>3, <1>7 DEF Timely

(* The state of an import has its types, and never more threads run than   *)
(* the pool has (THREAD_POOL_SIZE): entries of known files only, no batch  *)
(* with a writer that writes row by row.                                   *)
THEOREM ImportTyped == Spec => []TypeOK
BY Invariance, TypesTyped, PTL

(* Whatever fails or times out elsewhere, a pipeline that has not failed   *)
(* has written, batched or still to take every row that was read, once and *)
(* in order (process_pipeline, BulkWriter.process).                        *)
THEOREM RowsNeverLost == Spec => []NothingLost
BY Invariance, LosslessRows, PTL

(* A row is written with the metadata of the file it was read from, also   *)
(* by a pipeline that lags files behind its reader (set_metadata).         *)
THEOREM RowsCarryTheirFile == Spec => []RowCarriesItsFile
BY Invariance, CarriedRows, PTL

(* If no pipeline timed out before its reader had ended, then when all     *)
(* threads of a file are done, every pipeline has written every row, with  *)
(* its place in the file, and its queue is empty (process_input).          *)
THEOREM CompleteInTime == Spec => []CompleteWhenInTime
BY Invariance, TimelyRows, PTL
=============================================================================

------------------------- MODULE DocumentFormsProofs -------------------------
(***************************************************************************)
(* Theorems about DocumentForms, for any sessions, documents, collections, *)
(* nodes and elements, any payloads, and any commands of its methods: what *)
(* TLC checks on a small instance holds of every one.                      *)
(*                                                                         *)
(* The argument has two halves. What a command can be is read off the      *)
(* methods, one by one (MethodsAreSafe). What sessions do to each other    *)
(* rests on three facts of the database: a row has one writer at a time,   *)
(* a session sees no row without its parents, and whoever deletes a row    *)
(* keeps everyone else from the rows below it.                             *)
(***************************************************************************)
EXTENDS DocumentForms, TLAPS

(* The statements a method is made of.                                     *)
Dos     == {"require", "absent", "find", "insert", "save", "remove", "raise"}
Columns == {<<>>} \cup [status : Statuses] \cup [status : Statuses, locked : BOOLEAN]
Statements == [do : Dos, rows : SUBSET Keys, set : Columns]
Commands == [root : Keys \cup {None}, steps : Seq(Statements), submits : BOOLEAN]

(* Rows are the same only when they are named the same.                    *)
IsElement(k) == k[1] = "element"
Childless(k) == \A j \in Keys : k \notin Parents[j]

(* What a command never does, so that no interleaving can: write a row it  *)
(* removes, unless nothing refers to rows of its kind; give a form its     *)
(* status without its lock and then commit; touch the elements of a form   *)
(* without filing that form at its end.                                    *)
Writing(st) == st.do \in {"insert", "save"}
NeverReplaces(m) ==
  \A i, j \in DOMAIN m.steps :
    m.steps[i].do = "remove" /\ Writing(m.steps[j]) =>
      \A k \in m.steps[i].rows \cap m.steps[j].rows : Childless(k)
LocksWhole(set) ==
  set = <<>> \/ (DOMAIN set = {"status", "locked"} /\ (set.locked <=> set.status = "submitted"))
NeverTears(m) ==
  \A i \in DOMAIN m.steps : \A d \in Documents :
    Form(d) \in m.steps[i].rows /\ ~LocksWhole(m.steps[i].set) =>
      i + 1 \in DOMAIN m.steps /\ m.steps[i + 1].do = "raise"
Files(m, d, status) ==
  \A i \in DOMAIN m.steps : LET st == m.steps[i] IN
    IF i = Len(m.steps) THEN st = Failure \/ st = SaveForm(d, status)
    ELSE /\ st.do \in {"find", "save"} /\ (st.do = "save" => st.set = [status |-> status])
         /\ \A k \in st.rows :
              /\ IsElement(k) /\ k[2] = d /\ st.rows = {k}
              /\ \E j \in DOMAIN m.steps : m.steps[j].do = "save" /\ k \in m.steps[j].rows
NoElements(m) == \A i \in DOMAIN m.steps : \A k \in m.steps[i].rows : ~IsElement(k)
FilesOrSparesElements(m) ==
  \/ NoElements(m)
  \/ Len(m.steps) > 0 /\ \E d \in Documents, status \in Statuses : Files(m, d, status)
Safe(m) ==
  m \in Commands /\ NeverReplaces(m) /\ NeverTears(m) /\ FilesOrSparesElements(m)
-----------------------------------------------------------------------------
(* The invariant.                                                          *)

(* A row has one writer at a time.                                         *)
OneWriter == \A s, t \in Sessions : \A k \in Keys : Holds(s, k) /\ Holds(t, k) => s = t

(* A session that wrote a row sees the rows it refers to, and in the form  *)
(* of an element the one it belongs to.                                    *)
ParentsSeen ==
  \A s \in Sessions : \A k \in DOMAIN writes[s] : writes[s][k] # None =>
    /\ \A p \in Parents[k] : Visible(s, p) # None
    /\ IsElement(k) => Visible(s, Form(k[2])).id = writes[s][k].form

(* Below a row a session deletes it sees nothing, and nobody else writes.  *)
DeletedBelow ==
  \A t \in Sessions : \A k \in Keys : \A p \in Parents[k] : Deletes(t, p) =>
    Visible(t, k) = None /\ \A s \in Sessions \ {t} : ~Holds(s, k)

(* A row is deleted because the command removes it, or with its parent.    *)
DeletedFor ==
  \A s \in Sessions : \A k \in Keys :
    Deletes(s, k) => RemovesFirst(s, k) \/ \E p \in Parents[k] : Deletes(s, p)

(* A written row is new, or the very row that is committed.                *)
RowsHit ==
  \A s \in Sessions : \A k \in DOMAIN writes[s] : writes[s][k] # None =>
    IF writes[s][k].id = s THEN db[k] = None \/ (RemovesFirst(s, k) /\ Childless(k))
    ELSE /\ db[k] # None /\ db[k].id = writes[s][k].id
         /\ Found(s, k) # None /\ Found(s, k).id = db[k].id

(* Committed rows were inserted and last written by sessions that are done;*)
(* a session's own writes are its own.                                     *)
Authors ==
  /\ \A k \in Keys : db[k] # None => \A s \in {db[k].id, db[k].by} \ {None} : pc[s] = "done"
  /\ \A s \in Sessions : \A k \in DOMAIN writes[s] : writes[s][k] # None => writes[s][k].by = s

(* Only rows the command names are written, by statements already reached. *)
Named ==
  \A s \in Sessions : \A k \in DOMAIN writes[s] : writes[s][k] # None =>
    \E i \in DOMAIN request[s].steps :
      i < at[s] /\ Writing(request[s].steps[i]) /\ k \in request[s].steps[i].rows

(* A form that is torn is never committed: the command raises at once.     *)
Torn(row) == ~(row.locked <=> row.status = "submitted")
TornRaises ==
  \A s \in Sessions : \A d \in Documents :
    Holds(s, Form(d)) /\ writes[s][Form(d)] # None /\ Torn(writes[s][Form(d)]) => Runs(s, "raise")

(* A submission has written every row of the save statements behind it that*)
(* the registry knows.                                                     *)
Saved ==
  \A s \in Sessions : pc[s] = "running" /\ ~NoElements(request[s]) =>
    \A i \in DOMAIN request[s].steps : LET st == request[s].steps[i] IN
      i < at[s] /\ st.do = "save" =>
        \A k \in st.rows : Known(k) =>
          Holds(s, k) /\ writes[s][k] # None /\ writes[s][k].status = st.set.status

(* An element the registry does not know is nowhere: not in the tables, not*)
(* in what a session has found or written.                                 *)
OnlyKnown ==
  \A k \in Keys : ~Known(k) =>
    /\ db[k] = None
    /\ \A s \in Sessions :
         Found(s, k) = None /\ (k \in DOMAIN writes[s] => writes[s][k] = None)

(* A raise is not got over, and a command starts with its first statement. *)
Passed ==
  \A s \in Sessions : pc[s] = "running" =>
    \A i \in DOMAIN request[s].steps : i < at[s] => request[s].steps[i].do # "raise"
AtFirst == \A s \in Sessions : pc[s] # "running" => at[s] = 1

(* What LastSubmissionWhole says, and of the payload that it is this form's.*)
SubmissionFiled ==
  \A d \in Documents : LET form == db[Form(d)] IN
    form # None /\ form.by # None =>
      \A k \in Payload(form.by) :
        /\ k[2] = d
        /\ Known(k) => db[k] # None /\ db[k].by = form.by /\ db[k].status = form.status

IInv ==
  /\ TypeOK /\ NoOrphans /\ OneWriter /\ ParentsSeen /\ DeletedBelow /\ DeletedFor
  /\ RowsHit /\ Authors /\ Named /\ SubmittedIsLocked /\ TornRaises /\ Saved /\ Passed
  /\ AtFirst /\ SubmissionFiled /\ OnlyKnown
-----------------------------------------------------------------------------
(* Keys. A row is under at most two others, one of which refers to none.   *)
LEMMA KeyKinds ==
  ASSUME NEW k \in Keys
  PROVE  \/ k[1] = "collection" /\ Parents[k] = {}
         \/ k[1] = "document" /\ Parents[k] = {}
         \/ k[1] = "in" /\ Parents[k] = {Document(k[2]), Collection(k[3])}
              /\ k[2] \in Documents /\ k[3] \in Collections
         \/ k[1] = "node" /\ Parents[k] = {Document(k[2])} /\ k[2] \in Documents
         \/ k[1] = "form" /\ Parents[k] = {Document(k[2])} /\ k[2] \in Documents /\ k = Form(k[2])
         \/ k[1] = "element" /\ Parents[k] = {Form(k[2])} /\ k[2] \in Documents
<1>1. CASE \E c \in Collections : k = Collection(c)
  BY <1>1 DEF Parents, Collection
<1>2. CASE \E d \in Documents : k = Document(d)
  BY <1>2 DEF Parents, Document
<1>3. CASE \E d \in Documents, c \in Collections : k = Filed(d, c)
  BY <1>3 DEF Parents, Filed
<1>4. CASE \E d \in Documents, n \in NodeKeys : k = Node(d, n)
  BY <1>4 DEF Parents, Node
<1>5. CASE \E d \in Documents : k = Form(d)
  BY <1>5 DEF Parents, Form
<1>6. CASE \E d \in Documents, e \in Elements : k = Element(d, e)
  BY <1>6 DEF Parents, Element
<1> QED BY <1>1, <1>2, <1>3, <1>4, <1>5, <1>6 DEF Keys

LEMMA KeyNames ==
  /\ \A c \in Collections : Collection(c) \in Keys /\ Collection(c)[1] = "collection"
  /\ \A d \in Documents : Document(d) \in Keys /\ Document(d)[1] = "document"
  /\ \A d \in Documents, c \in Collections : Filed(d, c) \in Keys /\ Filed(d, c)[1] = "in"
  /\ \A d \in Documents, n \in NodeKeys : Node(d, n) \in Keys /\ Node(d, n)[1] = "node"
  /\ \A d \in Documents : Form(d) \in Keys /\ Form(d)[1] = "form" /\ Form(d)[2] = d
  /\ \A d \in Documents, e \in Elements :
       Element(d, e) \in Keys /\ Element(d, e)[1] = "element" /\ Element(d, e)[2] = d
BY DEF Keys, Collection, Document, Filed, Node, Form, Element

LEMMA ParentsAreKeys == \A k \in Keys : Parents[k] \subseteq Keys
BY KeyKinds, KeyNames

LEMMA ElementParent ==
  ASSUME NEW k \in Keys, IsElement(k)
  PROVE  k[2] \in Documents /\ Form(k[2]) \in Keys /\ Parents[k] = {Form(k[2])}
BY KeyKinds, KeyNames DEF IsElement

LEMMA FormsDiffer ==
  ASSUME NEW d \in Documents, NEW e \in Documents, Form(d) = Form(e)
  PROVE  d = e
BY KeyNames

(* Only forms, documents and collections have rows below them.             *)
LEMMA FilingIsChildless == \A k \in Keys : k[1] = "in" => Childless(k)
BY KeyKinds, KeyNames DEF Childless

LEMMA ParentsOfParents ==
  ASSUME NEW k \in Keys, NEW j \in Parents[k], NEW p \in Parents[j]
  PROVE  j \in Keys /\ p \in Keys /\ Parents[p] = {}
<1>1. j \in Keys /\ p \in Keys
  BY ParentsAreKeys
<1>2. k[1] = "element" /\ j = Form(k[2]) /\ k[2] \in Documents
  BY KeyKinds, KeyNames, <1>1
<1>3. p = Document(j[2]) /\ j[2] \in Documents
  BY <1>1, <1>2, KeyKinds, KeyNames
<1> QED BY <1>1, <1>3, KeyKinds, KeyNames

(* What is removed with a row is all that hangs below it.                  *)
LEMMA CascadeCloses ==
  ASSUME NEW g \in Keys, NEW j \in Cascade[g], NEW k \in Keys, j \in Parents[k]
  PROVE  k \in Cascade[g]
<1>1. Cascade[g] =
        {g} \cup {i \in Keys : g \in Parents[i] \/ \E p \in Parents[i] : g \in Parents[p]}
  BY DEF Cascade
<1>2. CASE j = g
  BY <1>1, <1>2
<1>3. CASE g \in Parents[j]
  BY <1>1, <1>3
<1>4. CASE \E p \in Parents[j] : g \in Parents[p]
  BY <1>4, ParentsOfParents
<1> QED BY <1>1, <1>2, <1>3, <1>4

LEMMA CascadeFacts ==
  ASSUME NEW k \in Keys
  PROVE  k \in Cascade[k] /\ Cascade[k] \subseteq Keys
BY DEF Cascade

(* Below the removed row, everything that goes with it has a parent that   *)
(* does.                                                                   *)
LEMMA CascadeParents ==
  ASSUME NEW g \in Keys, NEW j \in Cascade[g], j # g
  PROVE  \E p \in Parents[j] : p \in Cascade[g] /\ p \in Keys
<1>1. Cascade[g] =
        {g} \cup {i \in Keys : g \in Parents[i] \/ \E p \in Parents[i] : g \in Parents[p]}
  BY DEF Cascade
<1>2. CASE g \in Parents[j]
  BY <1>1, <1>2
<1>3. CASE \E p \in Parents[j] : g \in Parents[p]
  <2>1. PICK p \in Parents[j] : g \in Parents[p]
    BY <1>3
  <2>2. j \in Keys
    BY <1>1
  <2>3. p \in Keys
    BY <2>1, <2>2, ParentsAreKeys
  <2> QED BY <1>1, <2>1, <2>3
<1> QED BY <1>1, <1>2, <1>3
-----------------------------------------------------------------------------
(* The methods, one by one. All but two are made of statements of one of   *)
(* three kinds: those that remove nothing, those that write nothing, and   *)
(* those that remove and write only filings.                               *)
Plain(st)  == st.set = <<>> /\ \A k \in st.rows : ~IsElement(k)
Building   == {st \in Statements : Plain(st) /\ st.do # "remove"}
Clearing   == {st \in Statements : Plain(st) /\ ~Writing(st)}
Moving     == {st \in Statements : Plain(st) /\
                 (st.do \in {"insert", "save", "remove"} => \A k \in st.rows : k[1] = "in")}

LEMMA PlainIsSafe ==
  ASSUME NEW root \in Keys \cup {None}, NEW steps,
         steps \in Seq(Building) \/ steps \in Seq(Clearing) \/ steps \in Seq(Moving)
  PROVE  Safe(Command(root, steps))
<1> DEFINE m == Command(root, steps)
<1>1. m.root = root /\ m.steps = steps /\ m.submits = FALSE
  BY DEF Command
<1>2. \A i \in DOMAIN steps : steps[i] \in Statements /\ Plain(steps[i])
  BY DEF Building, Clearing, Moving
<1>3. steps \in Seq(Statements)
  <2>1. /\ Building \subseteq Statements /\ Clearing \subseteq Statements
        /\ Moving \subseteq Statements
    BY DEF Building, Clearing, Moving
  <2> QED BY <2>1
<1>4. m \in Commands
  BY <1>3 DEF Commands, Command
<1>5. NeverReplaces(m)
  <2>1. CASE steps \in Seq(Building)
    BY <1>1, <2>1 DEF NeverReplaces, Building
  <2>2. CASE steps \in Seq(Clearing)
    BY <1>1, <2>2 DEF NeverReplaces, Clearing
  <2>3. CASE steps \in Seq(Moving)
    <3> SUFFICES ASSUME NEW i \in DOMAIN steps, NEW j \in DOMAIN steps,
                        steps[i].do = "remove", Writing(steps[j]),
                        NEW k \in steps[i].rows \cap steps[j].rows
                 PROVE  Childless(k)
      BY <1>1 DEF NeverReplaces
    <3>1. steps[i] \in Moving /\ steps[i] \in Statements
      BY <2>3, <1>2
    <3>2. k \in Keys /\ k[1] = "in"
      BY <3>1 DEF Moving, Statements
    <3> QED BY <3>2, FilingIsChildless
  <2> QED BY <2>1, <2>2, <2>3
<1>6. NeverTears(m)
  BY <1>1, <1>2 DEF NeverTears, Plain, LocksWhole
<1>7. NoElements(m)
  BY <1>1, <1>2 DEF NoElements, Plain
<1> QED BY <1>4, <1>5, <1>6, <1>7 DEF Safe, FilesOrSparesElements

(* Statements of a kind, from the rows they are on.                        *)
LEMMA StatementKinds ==
  ASSUME NEW do \in Dos, NEW rows \in SUBSET Keys, \A k \in rows : ~IsElement(k)
  PROVE  /\ do # "remove" => Statement(do, rows) \in Building
         /\ do \notin {"insert", "save"} => Statement(do, rows) \in Clearing
         /\ do \notin {"insert", "save", "remove"} => Statement(do, rows) \in Moving
         /\ (\A k \in rows : k[1] = "in") => Statement(do, rows) \in Moving
<1> DEFINE st == Statement(do, rows)
<1>1. st.do = do /\ st.rows = rows /\ st.set = <<>>
  BY DEF Statement
<1>2. st \in Statements
  BY DEF Statement, Statements, Columns
<1> QED BY <1>1, <1>2 DEF Plain, Building, Clearing, Moving, Writing

LEMMA RowSaved ==
  ASSUME NEW k \in Keys, ~IsElement(k)
  PROVE  Save(k, <<>>) \in Building
<1>1. Save(k, <<>>) = Statement("save", {k})
  BY DEF Save, Statement
<1> QED BY <1>1, StatementKinds DEF Dos

LEMMA Filing ==
  ASSUME NEW d \in Documents, NEW c \in Collections
  PROVE  /\ File(d, c) \in Seq(Building)
         /\ \A k \in {Filed(d, c), Collection(c), Document(d)} : k \in Keys /\ ~IsElement(k)
<1>1. \A k \in {Filed(d, c), Collection(c), Document(d)} : k \in Keys /\ ~IsElement(k)
  BY KeyNames DEF IsElement
<1>2. Statement("require", {Collection(c)}) \in Building
  BY <1>1, StatementKinds DEF Dos
<1>3. /\ Statement("find", {Filed(d, c)}) \in Building
      /\ Statement("insert", {Filed(d, c)}) \in Building
  BY <1>1, StatementKinds DEF Dos
<1> QED BY <1>1, <1>2, <1>3 DEF File

LEMMA FilingOrNot ==
  ASSUME NEW d \in Documents, NEW c \in Collections \cup {None}
  PROVE  (IF c = None THEN <<>> ELSE File(d, c)) \in Seq(Building)
<1>1. <<>> \in Seq(Building)
  OBVIOUS
<1> QED BY <1>1, Filing

LEMMA CollectionMethods ==
  ASSUME NEW c \in Collections
  PROVE  Safe(CreateCollection(c)) /\ Safe(UpdateCollection(c)) /\ Safe(RemoveCollection(c))
<1> DEFINE k == Collection(c)
<1>1. k \in Keys /\ ~IsElement(k)
  BY KeyNames DEF IsElement
<1> HIDE DEF k
<1>2. Safe(Command(None, <<Statement("insert", {k})>>))
  <2>1. Statement("insert", {k}) \in Building
    BY <1>1, StatementKinds DEF Dos
  <2>2. <<Statement("insert", {k})>> \in Seq(Building)
    BY <2>1
  <2> QED BY <2>2, PlainIsSafe
<1>3. Safe(Command(k, <<Save(k, <<>>)>>))
  <2>1. <<Save(k, <<>>)>> \in Seq(Building)
    BY <1>1, RowSaved
  <2> QED BY <2>1, <1>1, PlainIsSafe
<1>4. Safe(Command(k, <<Statement("remove", {k})>>))
  <2>1. Statement("remove", {k}) \in Clearing
    BY <1>1, StatementKinds DEF Dos
  <2>2. <<Statement("remove", {k})>> \in Seq(Clearing)
    BY <2>1
  <2> QED BY <2>2, <1>1, PlainIsSafe
<1> QED BY <1>2, <1>3, <1>4 DEF k, CreateCollection, UpdateCollection, RemoveCollection

LEMMA CreatesDocument ==
  ASSUME NEW d \in Documents, NEW nodes \in Contents, NEW c \in Collections \cup {None}
  PROVE  Safe(CreateDocument(d, nodes, c))
<1> DEFINE q == [i \in DOMAIN nodes |-> Node(d, nodes[i])]
           first == <<Statement("insert", {Document(d)})>>
           each == Each("insert", q)
           file == IF c = None THEN <<>> ELSE File(d, c)
<1>1. nodes \in Seq(NodeKeys)
  BY ParameterAssumption
<1>2. first \in Seq(Building)
  <2>1. Document(d) \in Keys /\ ~IsElement(Document(d))
    BY KeyNames DEF IsElement
  <2>2. Statement("insert", {Document(d)}) \in Building
    BY <2>1, StatementKinds DEF Dos
  <2> QED BY <2>2
<1>3. each \in Seq(Building)
  <2>1. DOMAIN q = 1 .. Len(nodes) /\ Len(nodes) \in Nat
    BY <1>1
  <2>2. \A i \in 1 .. Len(nodes) : Statement("insert", {q[i]}) \in Building
    <3> TAKE i \in 1 .. Len(nodes)
    <3>1. nodes[i] \in NodeKeys
      BY <1>1
    <3>2. q[i] = Node(d, nodes[i])
      BY <1>1
    <3>3. q[i] \in Keys /\ ~IsElement(q[i])
      BY <3>1, <3>2, KeyNames DEF IsElement
    <3> QED BY <3>3, StatementKinds DEF Dos
  <2>3. each = [i \in 1 .. Len(nodes) |-> Statement("insert", {q[i]})]
    BY <2>1 DEF Each
  <2>4. \A i \in 1 .. Len(nodes) : each[i] \in Building
    BY <2>2, <2>3
  <2> QED BY <2>1, <2>3, <2>4
<1>4. file \in Seq(Building)
  BY FilingOrNot
<1> HIDE DEF q, first, each, file
<1>5. first \o each \o file \in Seq(Building)
  BY <1>2, <1>3, <1>4
<1>6. Safe(Command(None, first \o each \o file))
  BY <1>5, PlainIsSafe
<1> QED BY <1>6 DEF CreateDocument, first, each, file, q

LEMMA DocumentMethods ==
  ASSUME NEW d \in Documents
  PROVE  Safe(UpdateDocument(d)) /\ Safe(RemoveDocument(d)) /\ Safe(RemoveForm(d))
<1>1. ASSUME NEW k \in Keys, ~IsElement(k)
      PROVE  Safe(Command(k, <<Statement("remove", {k})>>))
  <2>1. Statement("remove", {k}) \in Clearing
    BY <1>1, StatementKinds DEF Dos
  <2>2. <<Statement("remove", {k})>> \in Seq(Clearing)
    BY <2>1
  <2> QED BY <2>2, PlainIsSafe
<1>2. \A k \in {Document(d), Form(d)} : k \in Keys /\ ~IsElement(k)
  BY KeyNames DEF IsElement
<1>3. <<Save(Document(d), <<>>)>> \in Seq(Building)
  BY <1>2, RowSaved
<1>4. Safe(Command(Document(d), <<Save(Document(d), <<>>)>>))
  BY <1>2, <1>3, PlainIsSafe
<1> QED BY <1>1, <1>2, <1>4 DEF UpdateDocument, RemoveDocument, RemoveForm

LEMMA CopiesDocument ==
  ASSUME NEW d \in Documents, NEW copy \in Documents, NEW nodes \in BOOLEAN,
         NEW forms \in BOOLEAN, NEW c \in Collections \cup {None}
  PROVE  Safe(CopyDocument(d, copy, nodes, forms, c))
<1> DEFINE first == <<Statement("insert", {Document(copy)}),
                      Statement("absent", Uncopyable(d, nodes, forms))>>
           file == IF c = None THEN <<>> ELSE File(copy, c)
<1>1. Document(d) \in Keys /\ Document(copy) \in Keys /\ ~IsElement(Document(copy))
  BY KeyNames DEF IsElement
<1>2. Uncopyable(d, nodes, forms) \subseteq Keys
  BY KeyNames DEF Uncopyable
<1>3. \A k \in Uncopyable(d, nodes, forms) : ~IsElement(k)
  BY KeyNames DEF Uncopyable, IsElement
<1>4. Statement("insert", {Document(copy)}) \in Building
  BY <1>1, StatementKinds DEF Dos
<1>5. Statement("absent", Uncopyable(d, nodes, forms)) \in Building
  BY <1>2, <1>3, StatementKinds DEF Dos
<1>6. first \in Seq(Building) /\ file \in Seq(Building)
  BY <1>4, <1>5, FilingOrNot
<1> HIDE DEF first, file
<1>7. first \o file \in Seq(Building)
  BY <1>6
<1>8. Safe(Command(Document(d), first \o file))
  BY <1>1, <1>7, PlainIsSafe
<1> QED BY <1>8 DEF CopyDocument, first, file

LEMMA MovesDocument ==
  ASSUME NEW d \in Documents, NEW source \in Collections \cup {None}, NEW target \in Collections
  PROVE  Safe(MoveDocument(d, source, target))
<1> DEFINE first == <<Statement("require", {Collection(target)})>>
           from == IF source = None THEN <<>> ELSE <<Statement("require", {Collection(source)})>>
           moved == <<Statement("find", SourceOf(d, source)),
                      Statement("remove", SourceOf(d, source)),
                      Statement("find", {Filed(d, target)}),
                      Statement("insert", {Filed(d, target)})>>
<1>1. SourceOf(d, source) \subseteq Keys /\ \A k \in SourceOf(d, source) : k[1] = "in"
  BY KeyNames DEF SourceOf
<1>2. \A k \in SourceOf(d, source) : ~IsElement(k)
  BY <1>1 DEF IsElement
<1>3. \A k \in {Collection(target), Filed(d, target)} : k \in Keys /\ ~IsElement(k)
  BY KeyNames DEF IsElement
<1>4. first \in Seq(Moving)
  <2>1. Statement("require", {Collection(target)}) \in Moving
    BY <1>3, StatementKinds DEF Dos
  <2> QED BY <2>1
<1>5. from \in Seq(Moving)
  <2>1. CASE source = None
    <3>1. <<>> \in Seq(Moving)
      OBVIOUS
    <3> QED BY <2>1, <3>1
  <2>2. CASE source \in Collections
    <3>1. Collection(source) \in Keys /\ ~IsElement(Collection(source))
      BY <2>2, KeyNames DEF IsElement
    <3>2. Statement("require", {Collection(source)}) \in Moving
      BY <3>1, StatementKinds DEF Dos
    <3>3. <<>> \in Seq(Moving) /\ <<Statement("require", {Collection(source)})>> \in Seq(Moving)
      BY <3>2
    <3> QED BY <3>3
  <2> QED BY <2>1, <2>2
<1>6. moved \in Seq(Moving)
  <2>1. /\ Statement("find", SourceOf(d, source)) \in Moving
        /\ Statement("remove", SourceOf(d, source)) \in Moving
    BY <1>1, <1>2, StatementKinds DEF Dos
  <2>2. Filed(d, target)[1] = "in"
    BY KeyNames
  <2>3. /\ Statement("find", {Filed(d, target)}) \in Moving
        /\ Statement("insert", {Filed(d, target)}) \in Moving
    BY <1>3, <2>2, StatementKinds DEF Dos
  <2> QED BY <2>1, <2>3
<1> HIDE DEF first, from, moved
<1>7. first \o from \o moved \in Seq(Moving)
  BY <1>4, <1>5, <1>6
<1>8. Document(d) \in Keys
  BY KeyNames
<1>9. Safe(Command(Document(d), first \o from \o moved))
  BY <1>7, <1>8, PlainIsSafe
<1> QED BY <1>9 DEF MoveDocument, first, from, moved

LEMMA AddsToCollection ==
  ASSUME NEW d \in Documents, NEW c \in Collections
  PROVE  Safe(AddToCollection(d, c))
<1> DEFINE steps == <<Statement("require", {Collection(c)}), Statement("absent", {Filed(d, c)}),
                      Statement("insert", {Filed(d, c)})>>
<1>1. \A k \in {Filed(d, c), Collection(c), Document(d)} : k \in Keys /\ ~IsElement(k)
  BY Filing
<1>2. /\ Statement("require", {Collection(c)}) \in Building
      /\ Statement("absent", {Filed(d, c)}) \in Building
      /\ Statement("insert", {Filed(d, c)}) \in Building
  BY <1>1, StatementKinds DEF Dos
<1>3. steps \in Seq(Building)
  BY <1>2
<1> HIDE DEF steps
<1>4. Safe(Command(Document(d), steps))
  BY <1>1, <1>3, PlainIsSafe
<1> QED BY <1>4 DEF AddToCollection, steps

LEMMA FailureIsPlain == Failure \in Building /\ Failure \in Clearing
BY StatementKinds DEF Failure, Dos

LEMMA CreatesNode ==
  ASSUME NEW d \in Documents, NEW n \in NodeKeys,
         NEW parent \in {None} \cup {Node(e, m) : e \in Documents, m \in NodeKeys}
  PROVE  Safe(CreateNode(d, n, parent))
<1> DEFINE check == IF parent = None THEN <<>> ELSE
                      <<Statement("require", {parent})>> \o
                      IF parent[2] = d THEN <<>> ELSE <<Failure>>
           last == <<Statement("insert", {Node(d, n)})>>
<1>1. Document(d) \in Keys /\ Node(d, n) \in Keys /\ ~IsElement(Node(d, n))
  BY KeyNames DEF IsElement
<1>2. check \in Seq(Building)
  <2>1. <<>> \in Seq(Building) /\ <<Failure>> \in Seq(Building)
    BY FailureIsPlain
  <2>2. CASE parent = None
    BY <2>1, <2>2
  <2>3. CASE parent # None
    <3>1. parent \in Keys /\ ~IsElement(parent)
      BY <2>3, KeyNames DEF IsElement
    <3>2. Statement("require", {parent}) \in Building
      BY <3>1, StatementKinds DEF Dos
    <3>3. <<Statement("require", {parent})>> \in Seq(Building)
      BY <3>2
    <3>4. (IF parent[2] = d THEN <<>> ELSE <<Failure>>) \in Seq(Building)
      BY <2>1
    <3> QED BY <2>3, <3>3, <3>4
  <2> QED BY <2>2, <2>3
<1>3. last \in Seq(Building)
  <2>1. Statement("insert", {Node(d, n)}) \in Building
    BY <1>1, StatementKinds DEF Dos
  <2> QED BY <2>1
<1> HIDE DEF check, last
<1> DEFINE steps == check \o last
<1>4. steps \in Seq(Building)
  BY <1>2, <1>3
<1> HIDE DEF steps
<1>5. Safe(Command(Document(d), steps))
  BY <1>1, <1>4, PlainIsSafe
<1> QED BY <1>5 DEF CreateNode, check, last, steps

LEMMA NodeMethods ==
  ASSUME NEW d \in Documents, NEW n \in NodeKeys
  PROVE  Safe(RemoveNode(d, n)) /\ \A ctype \in BOOLEAN : Safe(UpdateNode(d, n, ctype))
<1> DEFINE k == Node(d, n)
<1>1. k \in Keys /\ ~IsElement(k)
  BY KeyNames DEF IsElement
<1> HIDE DEF k
<1>2. Safe(Command(k, <<Statement("remove", {k})>>))
  <2>1. Statement("remove", {k}) \in Clearing
    BY <1>1, StatementKinds DEF Dos
  <2>2. <<Statement("remove", {k})>> \in Seq(Clearing)
    BY <2>1
  <2> QED BY <2>2, <1>1, PlainIsSafe
<1>3. ASSUME NEW ctype \in BOOLEAN
      PROVE  Safe(Command(k, <<IF ctype THEN Failure ELSE Save(k, <<>>)>>))
  <2>1. (IF ctype THEN Failure ELSE Save(k, <<>>)) \in Building
    BY <1>1, RowSaved, FailureIsPlain
  <2>2. <<IF ctype THEN Failure ELSE Save(k, <<>>)>> \in Seq(Building)
    BY <2>1
  <2> QED BY <2>2, <1>1, PlainIsSafe
<1> QED BY <1>2, <1>3 DEF k, RemoveNode, UpdateNode

LEMMA InitializesForm ==
  ASSUME NEW d \in Documents, NEW prefilled \in BOOLEAN
  PROVE  Safe(InitializeForm(d, prefilled))
<1> DEFINE first == <<Statement("absent", {Form(d)}), Statement("insert", {Form(d)})>>
           rest == IF prefilled THEN <<Failure>> ELSE <<>>
<1>1. Document(d) \in Keys /\ Form(d) \in Keys /\ ~IsElement(Form(d))
  BY KeyNames DEF IsElement
<1>2. /\ Statement("absent", {Form(d)}) \in Building
      /\ Statement("insert", {Form(d)}) \in Building
  BY <1>1, StatementKinds DEF Dos
<1>3. first \in Seq(Building) /\ rest \in Seq(Building)
  <2>1. <<Failure>> \in Seq(Building) /\ <<>> \in Seq(Building)
    BY FailureIsPlain
  <2> QED BY <1>2, <2>1
<1> HIDE DEF first, rest
<1>4. first \o rest \in Seq(Building)
  BY <1>3
<1>5. Safe(Command(Document(d), first \o rest))
  BY <1>1, <1>4, PlainIsSafe
<1> QED BY <1>5 DEF InitializeForm, first, rest

(* The two methods that give a form its status: one raises after it, the   *)
(* other sets the lock with it, after the elements.                        *)
LEMMA UpdatesForm ==
  ASSUME NEW d \in Documents, NEW status \in Statuses
  PROVE  Safe(UpdateForm(d, status))
<1> DEFINE save == Save(Form(d), [status |-> status])
           m == UpdateForm(d, status)
<1>1. Form(d) \in Keys /\ ~IsElement(Form(d))
  BY KeyNames DEF IsElement
<1>2. Failure \in Statements /\ Failure.do = "raise" /\ Failure.rows = {} /\ Failure.set = <<>>
  BY FailureIsPlain DEF Building, Failure, Statement
<1>3. save \in Statements /\ save.do = "save" /\ save.rows = {Form(d)}
  <2>1. [status |-> status] \in Columns
    BY DEF Columns
  <2> QED BY <1>1, <2>1 DEF Save, Statements, Dos
<1> HIDE DEF save
<1>4. m = [root |-> Form(d), steps |-> <<save, Failure>>, submits |-> FALSE]
  BY DEF UpdateForm, Command, save
<1>5. DOMAIN m.steps = {1, 2} /\ m.steps[1] = save /\ m.steps[2] = Failure
  BY <1>4
<1>6. m \in Commands
  <2>1. <<save, Failure>> \in Seq(Statements)
    BY <1>2, <1>3
  <2> QED BY <1>1, <1>4, <2>1 DEF Commands
<1> HIDE DEF m
<1>7. NeverReplaces(m)
  BY <1>2, <1>3, <1>5 DEF NeverReplaces
<1>8. NeverTears(m)
  BY <1>2, <1>5 DEF NeverTears
<1>9. NoElements(m)
  BY <1>1, <1>2, <1>3, <1>5 DEF NoElements
<1> QED BY <1>6, <1>7, <1>8, <1>9 DEF m, Safe, FilesOrSparesElements

LEMMA SavesElement ==
  ASSUME NEW d \in Documents, NEW e \in Elements, NEW status \in Statuses
  PROVE  /\ \A i \in {1, 2} : /\ SaveElement(d, e, status)[i] \in Statements
                             /\ SaveElement(d, e, status)[i].rows = {Element(d, e)}
         /\ SaveElement(d, e, status)[1].do = "find"
         /\ SaveElement(d, e, status)[2].do = "save"
         /\ SaveElement(d, e, status)[2].set = [status |-> status]
<1>1. Element(d, e) \in Keys
  BY KeyNames
<1>2. [status |-> status] \in Columns /\ <<>> \in Columns
  BY DEF Columns
<1>3. SaveElement(d, e, status)[1] = Statement("find", {Element(d, e)})
  BY DEF SaveElement
<1>4. SaveElement(d, e, status)[2] = Save(Element(d, e), [status |-> status])
  BY DEF SaveElement
<1>5. /\ Statement("find", {Element(d, e)}) \in Statements
      /\ Save(Element(d, e), [status |-> status]) \in Statements
  BY <1>1, <1>2 DEF Statement, Save, Statements, Dos
<1> QED BY <1>3, <1>4, <1>5 DEF Statement, Save

LEMMA SubmitsForm ==
  ASSUME NEW d \in Documents, NEW payload \in Payloads, NEW status \in Statuses,
         NEW replace \in BOOLEAN
  PROVE  Safe(SubmitForm(d, payload, status, replace))
<1> DEFINE n == Len(payload)
           st(i) == SaveElement(d, payload[(i + 1) \div 2], status)[2 - (i % 2)]
           p == [i \in 1 .. 2 * n |-> st(i)]
           last == IF replace THEN Failure ELSE SaveForm(d, status)
           steps == p \o <<last>>
           m == SubmitForm(d, payload, status, replace)
<1>1. payload \in Seq(Elements) /\ n \in Nat
  BY ParameterAssumption
<1>2. ASSUME NEW i \in 1 .. 2 * n
      PROVE  /\ (i + 1) \div 2 \in 1 .. n /\ payload[(i + 1) \div 2] \in Elements
             /\ 2 - (i % 2) \in {1, 2}
             /\ 2 * ((i + 1) \div 2) \in 1 .. 2 * n
  <2>1. (i + 1) \div 2 \in 1 .. n /\ 2 - (i % 2) \in {1, 2}
    BY <1>1
  <2>2. payload[(i + 1) \div 2] \in Elements
    BY <1>1, <2>1
  <2> QED BY <2>1, <2>2, <1>1
<1>3. ASSUME NEW i \in 1 .. 2 * n
      PROVE  /\ st(i) \in Statements /\ st(i).do \in {"find", "save"}
             /\ st(i).rows = {Element(d, payload[(i + 1) \div 2])}
             /\ st(i).do = "save" => st(i).set = [status |-> status]
             /\ st(2 * ((i + 1) \div 2)).do = "save"
             /\ st(2 * ((i + 1) \div 2)).rows = {Element(d, payload[(i + 1) \div 2])}
  <2> DEFINE e == payload[(i + 1) \div 2]
             h == 2 * ((i + 1) \div 2)
  <2>1. (h + 1) \div 2 = (i + 1) \div 2 /\ 2 - (h % 2) = 2
    BY <1>2
  <2>2. st(h) = SaveElement(d, e, status)[2]
    BY <2>1
  <2>3. st(i) = SaveElement(d, e, status)[1] \/ st(i) = SaveElement(d, e, status)[2]
    BY <1>2
  <2>4. e \in Elements
    BY <1>2
  <2> HIDE DEF e, st
  <2>5. /\ SaveElement(d, e, status)[1] \in Statements
        /\ SaveElement(d, e, status)[2] \in Statements
        /\ SaveElement(d, e, status)[1].rows = {Element(d, e)}
        /\ SaveElement(d, e, status)[2].rows = {Element(d, e)}
        /\ SaveElement(d, e, status)[1].do = "find"
        /\ SaveElement(d, e, status)[2].do = "save"
        /\ SaveElement(d, e, status)[2].set = [status |-> status]
    BY <2>4, SavesElement
  <2> QED BY <2>2, <2>3, <2>5 DEF e
<1>4. last \in Statements
  <2>1. Form(d) \in Keys
    BY KeyNames
  <2>2. [status |-> status, locked |-> status = "submitted"] \in Columns
    BY DEF Columns
  <2>3. SaveForm(d, status) \in Statements /\ SaveForm(d, status).do = "save"
    BY <2>1, <2>2 DEF SaveForm, Save, Statements, Dos
  <2> QED BY <2>3, FailureIsPlain DEF Building
<1>5. last = Failure \/ last = SaveForm(d, status)
  OBVIOUS
<1>6. m = [root |-> Form(d), steps |-> steps, submits |-> TRUE]
  <2>1. m = [Command(Form(d), steps) EXCEPT !.submits = TRUE]
    BY DEF SubmitForm
  <2> HIDE DEF steps, m
  <2> QED BY <2>1 DEF Command
<1> HIDE DEF st, last, m, n
<1>7. p \in Seq(Statements) /\ Len(p) = 2 * n
  <2>1. \A i \in 1 .. 2 * n : st(i) \in Statements
    BY <1>3
  <2> QED BY <1>1, <2>1
<1>8. /\ DOMAIN steps = 1 .. 2 * n + 1 /\ Len(steps) = 2 * n + 1
      /\ steps[2 * n + 1] = last
      /\ \A i \in 1 .. 2 * n : steps[i] = st(i)
  <2>1. \A i \in 1 .. 2 * n : p[i] = st(i)
    OBVIOUS
  <2> HIDE DEF p
  <2>2. <<last>> \in Seq(Statements) /\ Len(<<last>>) = 1 /\ <<last>>[1] = last
    BY <1>4
  <2> QED BY <1>1, <1>7, <2>1, <2>2
<1>9. steps \in Seq(Statements)
  <2> HIDE DEF p
  <2>1. <<last>> \in Seq(Statements)
    BY <1>4
  <2> QED BY <1>7, <2>1
<1> HIDE DEF p, steps
<1>10. m.steps = steps /\ m \in Commands
  BY <1>6, <1>9, KeyNames DEF Commands
<1>11. last.rows \subseteq {Form(d)} /\ LocksWhole(last.set)
       /\ last.do # "remove"
  <2>1. Failure.rows = {} /\ Failure.set = <<>> /\ Failure.do = "raise"
    BY DEF Failure, Statement
  <2>3. LocksWhole(Failure.set)
    BY <2>1 DEF LocksWhole
  <2>2. SaveForm(d, status).rows = {Form(d)} /\ LocksWhole(SaveForm(d, status).set)
        /\ SaveForm(d, status).do = "save"
    BY DEF SaveForm, Save, LocksWhole
  <2> QED BY <1>5, <2>1, <2>2, <2>3
<1>12. NeverReplaces(m)
  <2>1. ASSUME NEW i \in DOMAIN steps
        PROVE  steps[i].do # "remove"
    <3>1. i = 2 * n + 1 \/ i \in 1 .. 2 * n
      BY <1>1, <1>8
    <3>2. CASE i = 2 * n + 1
      BY <3>2, <1>8, <1>11
    <3>3. CASE i \in 1 .. 2 * n
      BY <3>3, <1>3, <1>8
    <3> QED BY <3>1, <3>2, <3>3
  <2> QED BY <1>10, <2>1 DEF NeverReplaces
<1>13. NeverTears(m)
  <2> SUFFICES ASSUME NEW i \in DOMAIN steps, NEW e \in Documents, Form(e) \in steps[i].rows,
                      ~LocksWhole(steps[i].set)
               PROVE  FALSE
    BY <1>10 DEF NeverTears
  <2>1. i = 2 * n + 1 \/ i \in 1 .. 2 * n
    BY <1>1, <1>8
  <2>2. CASE i = 2 * n + 1
    BY <2>2, <1>8, <1>11
  <2>3. CASE i \in 1 .. 2 * n
    <3>1. Form(e) = Element(d, payload[(i + 1) \div 2])
      BY <2>3, <1>3, <1>8
    <3> QED BY <3>1, <2>3, <1>2, KeyNames
  <2> QED BY <2>1, <2>2, <2>3
<1>14. Files(m, d, status)
  <2> SUFFICES ASSUME NEW i \in DOMAIN steps
               PROVE  IF i = Len(steps) THEN steps[i] = Failure \/ steps[i] = SaveForm(d, status)
                      ELSE /\ steps[i].do \in {"find", "save"}
                           /\ steps[i].do = "save" => steps[i].set = [status |-> status]
                           /\ \A k \in steps[i].rows :
                                /\ IsElement(k) /\ k[2] = d /\ steps[i].rows = {k}
                                /\ \E j \in DOMAIN steps :
                                     steps[j].do = "save" /\ k \in steps[j].rows
    BY <1>10 DEF Files
  <2>1. CASE i = Len(steps)
    BY <2>1, <1>5, <1>8
  <2>2. CASE i # Len(steps)
    <3>1. i \in 1 .. 2 * n
      BY <1>1, <1>8, <2>2
    <3>2. steps[i] = st(i)
      BY <1>8, <3>1
    <3>3. 2 * ((i + 1) \div 2) \in 1 .. 2 * n
      BY <1>2, <3>1
    <3>4. steps[2 * ((i + 1) \div 2)] = st(2 * ((i + 1) \div 2))
      BY <1>8, <3>3
    <3>5. ASSUME NEW k \in steps[i].rows
          PROVE  /\ IsElement(k) /\ k[2] = d /\ steps[i].rows = {k}
                 /\ \E j \in DOMAIN steps : steps[j].do = "save" /\ k \in steps[j].rows
      <4>1. k = Element(d, payload[(i + 1) \div 2]) /\ steps[i].rows = {k}
        BY <3>1, <3>2, <1>3
      <4>2. IsElement(k) /\ k[2] = d
        BY <4>1, <3>1, <1>2, KeyNames DEF IsElement
      <4>3. /\ 2 * ((i + 1) \div 2) \in DOMAIN steps
            /\ steps[2 * ((i + 1) \div 2)].do = "save"
            /\ k \in steps[2 * ((i + 1) \div 2)].rows
        BY <1>1, <1>3, <1>8, <3>1, <3>3, <3>4, <4>1
      <4> QED BY <4>1, <4>2, <4>3
    <3> QED BY <2>2, <3>1, <3>2, <3>5, <1>3
  <2> QED BY <2>1, <2>2
<1>15. Len(m.steps) > 0
  BY <1>1, <1>8, <1>10
<1> QED BY <1>10, <1>12, <1>13, <1>14, <1>15 DEF m, Safe, FilesOrSparesElements

THEOREM MethodsAreSafe ==
  ASSUME NEW s \in Sessions, NEW m \in Menu[s]
  PROVE  Safe(m)
<1>1. m \in Methods
  BY MenuAssumption
<1>2. \A c \in Collections :
        Safe(CreateCollection(c)) /\ Safe(UpdateCollection(c)) /\ Safe(RemoveCollection(c))
  BY CollectionMethods
<1>3. \A d \in Documents : Safe(UpdateDocument(d)) /\ Safe(RemoveDocument(d)) /\ Safe(RemoveForm(d))
  BY DocumentMethods
<1>4. \A d \in Documents, n \in NodeKeys :
        Safe(RemoveNode(d, n)) /\ \A ctype \in BOOLEAN : Safe(UpdateNode(d, n, ctype))
  BY NodeMethods
<1>5. CASE m \in {CreateCollection(c) : c \in Collections} \cup
                {UpdateCollection(c) : c \in Collections} \cup
                {RemoveCollection(c) : c \in Collections}
  BY <1>2, <1>5
<1>6. CASE m \in {UpdateDocument(d) : d \in Documents} \cup
                {RemoveDocument(d) : d \in Documents} \cup {RemoveForm(d) : d \in Documents}
  BY <1>3, <1>6
<1>7. CASE m \in {CreateDocument(d, nodes, c) :
                   d \in Documents, nodes \in Contents, c \in Collections \cup {None}}
  BY <1>7, CreatesDocument
<1>8. CASE m \in {CopyDocument(d, copy, nodes, forms, c) : d \in Documents, copy \in Documents,
                   nodes \in BOOLEAN, forms \in BOOLEAN, c \in Collections \cup {None}}
  BY <1>8, CopiesDocument
<1>9. CASE m \in {MoveDocument(d, source, target) :
                   d \in Documents, source \in Collections \cup {None}, target \in Collections}
  BY <1>9, MovesDocument
<1>10. CASE m \in {AddToCollection(d, c) : d \in Documents, c \in Collections}
  BY <1>10, AddsToCollection
<1>11. CASE m \in {CreateNode(d, n, parent) : d \in Documents, n \in NodeKeys,
                   parent \in {None} \cup {Node(e, k) : e \in Documents, k \in NodeKeys}}
  BY <1>11, CreatesNode
<1>12. CASE m \in {UpdateNode(d, n, ctype) : d \in Documents, n \in NodeKeys, ctype \in BOOLEAN}
  BY <1>4, <1>12
<1>13. CASE m \in {RemoveNode(d, n) : d \in Documents, n \in NodeKeys}
  BY <1>4, <1>13
<1>14. CASE m \in {InitializeForm(d, prefilled) : d \in Documents, prefilled \in BOOLEAN}
  BY <1>14, InitializesForm
<1>15. CASE m \in {UpdateForm(d, status) : d \in Documents, status \in Statuses}
  BY <1>15, UpdatesForm
<1>16. CASE m \in {SubmitForm(d, payload, status, replace) : d \in Documents,
                   payload \in Payloads, status \in Statuses, replace \in BOOLEAN}
  BY <1>16, SubmitsForm
<1> QED BY <1>1, <1>5, <1>6, <1>7, <1>8, <1>9, <1>10, <1>11, <1>12, <1>13, <1>14, <1>15,
           <1>16 DEF Methods
-----------------------------------------------------------------------------
(* Rows, and what a running session reads and writes.                      *)
LEMMA OverRow ==
  ASSUME NEW row \in Rows, NEW set \in Columns
  PROVE  /\ DOMAIN Over(row, set) = {"id", "by", "form", "status", "locked"}
         /\ Over(row, set).id = row.id /\ Over(row, set).form = row.form
         /\ Over(row, set).by = row.by
         /\ set = <<>> => Over(row, set).status = row.status /\ Over(row, set).locked = row.locked
         /\ "status" \in DOMAIN set => Over(row, set).status = set.status
         /\ DOMAIN set = {"status", "locked"} => Over(row, set).locked = set.locked
         /\ Over(row, set) \in Rows
<1>1. DOMAIN row = {"id", "by", "form", "status", "locked"}
  BY DEF Rows
<1>2. CASE set = <<>>
  <2>1. DOMAIN set = {}
    BY <1>2
  <2>2. Over(row, set) = [k \in DOMAIN row |-> row[k]]
    BY <2>1 DEF Over
  <2>3. Over(row, set) = row
    BY <2>2, <1>1 DEF Rows
  <2> QED BY <1>1, <1>2, <2>1, <2>3
<1>3. CASE set \in [status : Statuses]
  <2>1. DOMAIN set = {"status"} /\ set.status \in Statuses
    BY <1>3
  <2>2. Over(row, set) =
          [k \in {"id", "by", "form", "status", "locked"} |->
             IF k = "status" THEN set[k] ELSE row[k]]
    BY <1>1, <2>1 DEF Over
  <2> DEFINE o == [k \in {"id", "by", "form", "status", "locked"} |->
                     IF k = "status" THEN set[k] ELSE row[k]]
  <2>3. /\ DOMAIN o = {"id", "by", "form", "status", "locked"}
        /\ o.id = row.id /\ o.by = row.by /\ o.form = row.form /\ o.locked = row.locked
        /\ o.status = set.status
    OBVIOUS
  <2>4. o \in Rows
    BY <2>1, <2>3 DEF Rows
  <2>5. set # <<>>
    BY <2>1
  <2> QED BY <2>1, <2>2, <2>3, <2>4, <2>5
<1>4. CASE set \in [status : Statuses, locked : BOOLEAN]
  <2>1. DOMAIN set = {"status", "locked"} /\ set.status \in Statuses /\ set.locked \in BOOLEAN
    BY <1>4
  <2>2. Over(row, set) =
          [k \in {"id", "by", "form", "status", "locked"} |->
             IF k \in {"status", "locked"} THEN set[k] ELSE row[k]]
    BY <1>1, <2>1 DEF Over
  <2> DEFINE o == [k \in {"id", "by", "form", "status", "locked"} |->
                     IF k \in {"status", "locked"} THEN set[k] ELSE row[k]]
  <2>3. /\ DOMAIN o = {"id", "by", "form", "status", "locked"}
        /\ o.id = row.id /\ o.by = row.by /\ o.form = row.form /\ o.locked = set.locked
        /\ o.status = set.status
    OBVIOUS
  <2>4. o \in Rows
    BY <2>1, <2>3 DEF Rows
  <2>5. set # <<>>
    BY <2>1
  <2> QED BY <2>1, <2>2, <2>3, <2>4, <2>5
<1> QED BY <1>2, <1>3, <1>4 DEF Columns

LEMMA BlankRow ==
  ASSUME NEW s \in Sessions \cup {None}, NEW form \in Sessions \cup {None}
  PROVE  Blank(s, form) \in Rows
BY DEF Blank, Rows, Statuses

LEMMA Reaches ==
  ASSUME TypeOK, NEW s \in Sessions, pc[s] = "running"
  PROVE  /\ request[s] \in Menu[s] /\ Safe(request[s]) /\ request[s].steps \in Seq(Statements)
         /\ request[s].root \in Keys \cup {None}
         /\ at[s] \in Nat \ {0}
         /\ at[s] <= Len(request[s].steps) =>
              /\ at[s] \in DOMAIN request[s].steps
              /\ Reached(s) \in Statements /\ Reached(s).rows \subseteq Keys
              /\ Reached(s).set \in Columns
<1>1. request[s] \in Menu[s] /\ at[s] \in Nat \ {0}
  BY DEF TypeOK
<1>2. Safe(request[s])
  BY <1>1, MethodsAreSafe
<1>3. request[s].steps \in Seq(Statements) /\ request[s].root \in Keys \cup {None}
  BY <1>2 DEF Safe, Commands
<1>4. ASSUME at[s] <= Len(request[s].steps)
      PROVE  at[s] \in DOMAIN request[s].steps /\ Reached(s) \in Statements
  BY <1>1, <1>3, <1>4 DEF Reached
<1> QED BY <1>1, <1>2, <1>3, <1>4 DEF Statements

LEMMA Sees ==
  ASSUME TypeOK, NEW s \in Sessions, NEW k \in Keys
  PROVE  Visible(s, k) \in Rows \cup {None} /\ Found(s, k) \in Rows \cup {None}
BY DEF TypeOK, Visible, Found

LEMMA Targets ==
  ASSUME TypeOK, NEW s \in Sessions, NEW k \in Target(s)
  PROVE  /\ pc[s] = "running" /\ at[s] \in DOMAIN request[s].steps
         /\ Reached(s) \in Statements /\ k \in Reached(s).rows /\ k \in Keys
<1>1. pc[s] = "running" /\ at[s] <= Len(request[s].steps) /\ k \in Reached(s).rows
  BY DEF Target, Runs
<1> QED BY <1>1, Reaches

(* What a write puts there.                                                *)
LEMMA Writes ==
  ASSUME TypeOK, NEW s \in Sessions, NEW k \in Target(s), Matches(s, k),
         Runs(s, "insert") \/ Runs(s, "save")
  PROVE  LET row == IF Inserts(s, k) THEN Blank(s, FormId(s, k)) ELSE Visible(s, k)
             set == Reached(s).set
         IN /\ row \in Rows /\ set \in Columns
            /\ Written(s, k) \in Rows /\ Written(s, k) # None
            /\ Written(s, k).by = s /\ Written(s, k).id = row.id
            /\ Written(s, k).form = row.form
            /\ Written(s, k).status = Over(row, set).status
            /\ Written(s, k).locked = Over(row, set).locked
<1> DEFINE row == IF Inserts(s, k) THEN Blank(s, FormId(s, k)) ELSE Visible(s, k)
           set == Reached(s).set
<1>1. k \in Keys /\ set \in Columns
  BY Targets DEF Statements
<1>2. row \in Rows
  <2>1. CASE Inserts(s, k)
    <3>1. FormId(s, k) \in Sessions \cup {None}
      <4>1. CASE k[1] # "element"
        BY <4>1 DEF FormId
      <4>2. CASE k[1] = "element"
        <5>1. Form(k[2]) \in Parents[k] /\ Form(k[2]) \in Keys
          BY <1>1, <4>2, ElementParent DEF IsElement
        <5>2. Visible(s, Form(k[2])) # None /\ Visible(s, Form(k[2])).id = FormId(s, k)
          BY <2>1, <4>2, <5>1 DEF Matches, References, SameForm
        <5>3. Visible(s, Form(k[2])) \in Rows
          BY <5>1, <5>2, Sees
        <5> QED BY <5>2, <5>3 DEF Rows
      <4> QED BY <4>1, <4>2
    <3> QED BY <2>1, <3>1, BlankRow
  <2>2. CASE ~Inserts(s, k)
    BY <1>1, <2>2, Sees DEF Matches
  <2> QED BY <2>1, <2>2
<1> HIDE DEF row, set
<1> DEFINE o == Over(row, set)
<1>3. DOMAIN o = {"id", "by", "form", "status", "locked"} /\ o \in Rows
      /\ o.id = row.id /\ o.form = row.form
  BY <1>1, <1>2, OverRow
<1>4. Written(s, k) = [o EXCEPT !.by = s]
  BY DEF Written, row, set
<1> HIDE DEF o
<1>5. /\ Written(s, k) \in Rows
      /\ Written(s, k).by = s /\ Written(s, k).id = o.id /\ Written(s, k).form = o.form
      /\ Written(s, k).status = o.status /\ Written(s, k).locked = o.locked
  BY <1>3, <1>4 DEF Rows
<1>6. Written(s, k) # None
  BY <1>5, ParameterAssumption
<1> QED BY <1>1, <1>2, <1>3, <1>5, <1>6 DEF o, row, set
-----------------------------------------------------------------------------
(* What each action does, seen from every session.                         *)
LEMMA PutFacts ==
  ASSUME NEW f, NEW s \in DOMAIN f, NEW x
  PROVE  /\ DOMAIN Put(f, s, x) = DOMAIN f /\ Put(f, s, x)[s] = x
         /\ \A t \in DOMAIN f \ {s} : Put(f, s, x)[t] = f[t]
BY DEF Put

LEMMA NothingFacts == DOMAIN Nothing = {}
BY DEF Nothing

LEMMA Domains ==
  ASSUME TypeOK
  PROVE  /\ DOMAIN pc = Sessions /\ DOMAIN at = Sessions /\ DOMAIN request = Sessions
         /\ DOMAIN found = Sessions /\ DOMAIN writes = Sessions /\ DOMAIN db = Keys
BY DEF TypeOK

SessionFunctions ==
  /\ DOMAIN pc = Sessions /\ DOMAIN at = Sessions /\ DOMAIN request = Sessions
  /\ DOMAIN found = Sessions /\ DOMAIN writes = Sessions

BeginEffect(s, c) ==
  /\ SessionFunctions'
  /\ pc[s] = "idle" /\ pc'[s] = "running" /\ request'[s] = c
  /\ db' = db /\ at' = at /\ writes' = writes
  /\ \/ c.root = None /\ found' = found
     \/ /\ c.root \in Keys /\ c.root # None /\ Accepts(c, db[c.root])
        /\ DOMAIN found'[s] = {c.root} /\ found'[s][c.root] = db[c.root]
  /\ \A t \in Sessions \ {s} :
       pc'[t] = pc[t] /\ request'[t] = request[t] /\ found'[t] = found[t]

LEMMA BeginDoes ==
  ASSUME TypeOK, NEW s \in Sessions, NEW c \in Menu[s], Begin(s, c)
  PROVE  BeginEffect(s, c)
<1>1. Safe(c)
  BY MethodsAreSafe
<1>2. c.root \in Keys \cup {None}
  BY <1>1 DEF Safe, Commands
<1> QED BY <1>2, Domains, PutFacts DEF Begin, BeginEffect, SessionFunctions

(* Require, CheckAbsent, Find and Skip.                                    *)
ReadEffect(s) ==
  /\ SessionFunctions'
  /\ pc[s] = "running" /\ at[s] <= Len(request[s].steps)
  /\ Reached(s).do \in {"require", "absent", "find", "insert", "save", "remove"}
  /\ Reached(s).do = "save" => \A k \in Reached(s).rows : ~Known(k)
  /\ db' = db /\ pc' = pc /\ request' = request /\ writes' = writes
  /\ at'[s] = at[s] + 1 /\ \A t \in Sessions \ {s} : at'[t] = at[t] /\ found'[t] = found[t]
  /\ \/ found'[s] = found[s]
     \/ /\ DOMAIN found'[s] = DOMAIN found[s] \cup Reached(s).rows
        /\ \A k \in Reached(s).rows : found'[s][k] = Visible(s, k)
        /\ \A k \in DOMAIN found[s] \ Reached(s).rows : found'[s][k] = found[s][k]
        /\ Reached(s).do = "find"

LEMMA ReadDoes ==
  ASSUME TypeOK, NEW s \in Sessions, Require(s) \/ CheckAbsent(s) \/ Find(s) \/ Skip(s)
  PROVE  ReadEffect(s)
<1>1. /\ pc[s] = "running" /\ at[s] <= Len(request[s].steps)
      /\ Reached(s).do \in {"require", "absent", "find", "insert", "save", "remove"}
      /\ Reached(s).do = "save" => \A k \in Reached(s).rows : ~Known(k)
      /\ GoesOn(s) /\ writes' = writes
  BY DEF Require, CheckAbsent, Find, Skip, Runs, Target
<1>2. CASE found' = found
  BY <1>1, <1>2, Domains, PutFacts DEF GoesOn, ReadEffect, SessionFunctions
<1>3. CASE Find(s)
  <2> DEFINE g == [k \in Reached(s).rows |-> Visible(s, k)]
  <2>1. found' = Put(found, s, Over(found[s], g))
    BY <1>3 DEF Find, Remember
  <2>2. DOMAIN g = Reached(s).rows /\ \A k \in Reached(s).rows : g[k] = Visible(s, k)
    OBVIOUS
  <2> HIDE DEF g
  <2>3. /\ DOMAIN found' = Sessions /\ found'[s] = Over(found[s], g)
        /\ \A t \in Sessions \ {s} : found'[t] = found[t]
    BY <2>1, Domains, PutFacts
  <2>4. /\ DOMAIN found'[s] = DOMAIN found[s] \cup Reached(s).rows
        /\ \A k \in Reached(s).rows : found'[s][k] = Visible(s, k)
        /\ \A k \in DOMAIN found[s] \ Reached(s).rows : found'[s][k] = found[s][k]
    BY <2>2, <2>3 DEF Over
  <2>5. Reached(s).do = "find"
    BY <1>3 DEF Find, Runs
  <2> QED BY <1>1, <2>3, <2>4, <2>5, Domains, PutFacts DEF GoesOn, ReadEffect, SessionFunctions
<1> QED BY <1>2, <1>3 DEF Require, CheckAbsent, Skip

WriteEffect(s, k) ==
  /\ SessionFunctions'
  /\ k \in Target(s) /\ ~Blocked(s, k) /\ Matches(s, k)
  /\ Runs(s, "insert") \/ Runs(s, "save")
  /\ db' = db /\ pc' = pc /\ request' = request /\ found' = found
  /\ at'[s] = at[s] + 1 /\ \A t \in Sessions \ {s} : at'[t] = at[t] /\ writes'[t] = writes[t]
  /\ DOMAIN writes'[s] = DOMAIN writes[s] \cup {k} /\ writes'[s][k] = Written(s, k)
  /\ \A j \in DOMAIN writes[s] \ {k} : writes'[s][j] = writes[s][j]

LEMMA WriteDoes ==
  ASSUME TypeOK, NEW s \in Sessions, Write(s)
  PROVE  \E k \in Target(s) : WriteEffect(s, k)
<1>1. PICK k \in Target(s) :
        /\ Runs(s, "insert") \/ Runs(s, "save")
        /\ ~Blocked(s, k) /\ Matches(s, k)
        /\ writes' = Put(writes, s, Over(writes[s], [j \in {k} |-> Written(s, k)]))
        /\ GoesOn(s) /\ UNCHANGED found
  BY DEF Write
<1> DEFINE g == [j \in {k} |-> Written(s, k)]
<1>2. DOMAIN g = {k} /\ g[k] = Written(s, k)
  OBVIOUS
<1> HIDE DEF g
<1>3. writes' = Put(writes, s, Over(writes[s], g))
  BY <1>1 DEF g
<1>4. /\ DOMAIN writes' = Sessions /\ writes'[s] = Over(writes[s], g)
      /\ \A t \in Sessions \ {s} : writes'[t] = writes[t]
  BY <1>3, Domains, PutFacts
<1>5. /\ DOMAIN writes'[s] = DOMAIN writes[s] \cup {k} /\ writes'[s][k] = Written(s, k)
      /\ \A j \in DOMAIN writes[s] \ {k} : writes'[s][j] = writes[s][j]
  BY <1>2, <1>4 DEF Over
<1>6. /\ DOMAIN at' = Sessions /\ at'[s] = at[s] + 1
      /\ \A t \in Sessions \ {s} : at'[t] = at[t]
  BY <1>1, Domains, PutFacts DEF GoesOn
<1> QED BY <1>1, <1>4, <1>5, <1>6, Domains DEF GoesOn, WriteEffect, SessionFunctions

RemoveEffect(s, k) ==
  /\ SessionFunctions'
  /\ k \in Target(s) /\ ~Blocked(s, k) /\ Matches(s, k) /\ Runs(s, "remove")
  /\ db' = db /\ pc' = pc /\ request' = request /\ at' = at
  /\ \A t \in Sessions \ {s} : writes'[t] = writes[t] /\ found'[t] = found[t]
  /\ DOMAIN writes'[s] = DOMAIN writes[s] \cup RemovedWith(s, k)
  /\ \A j \in RemovedWith(s, k) : writes'[s][j] = None
  /\ \A j \in DOMAIN writes[s] \ RemovedWith(s, k) : writes'[s][j] = writes[s][j]
  /\ DOMAIN found'[s] = DOMAIN found[s] \cup {k} /\ found'[s][k] = None
  /\ \A j \in DOMAIN found[s] \ {k} : found'[s][j] = found[s][j]

LEMMA RemoveDoes ==
  ASSUME TypeOK, NEW s \in Sessions, Remove(s)
  PROVE  \E k \in Target(s) : RemoveEffect(s, k)
<1>1. PICK k \in Target(s) :
        /\ Runs(s, "remove") /\ ~Blocked(s, k) /\ Matches(s, k)
        /\ writes' = Put(writes, s, Over(writes[s], [j \in RemovedWith(s, k) |-> None]))
        /\ found' = Put(found, s, Over(found[s], [j \in {k} |-> None]))
        /\ UNCHANGED <<db, pc, request, at>>
  BY DEF Remove
<1> DEFINE g == [j \in RemovedWith(s, k) |-> None]
           h == [j \in {k} |-> None]
<1>2. /\ DOMAIN g = RemovedWith(s, k) /\ \A j \in RemovedWith(s, k) : g[j] = None
      /\ DOMAIN h = {k} /\ h[k] = None
  OBVIOUS
<1> HIDE DEF g, h
<1>3. writes' = Put(writes, s, Over(writes[s], g)) /\ found' = Put(found, s, Over(found[s], h))
  BY <1>1 DEF g, h
<1>4. /\ DOMAIN writes' = Sessions /\ writes'[s] = Over(writes[s], g)
      /\ \A t \in Sessions \ {s} : writes'[t] = writes[t]
      /\ DOMAIN found' = Sessions /\ found'[s] = Over(found[s], h)
      /\ \A t \in Sessions \ {s} : found'[t] = found[t]
  BY <1>3, Domains, PutFacts
<1>5. /\ DOMAIN writes'[s] = DOMAIN writes[s] \cup RemovedWith(s, k)
      /\ \A j \in RemovedWith(s, k) : writes'[s][j] = None
      /\ \A j \in DOMAIN writes[s] \ RemovedWith(s, k) : writes'[s][j] = writes[s][j]
  BY <1>2, <1>4 DEF Over
<1>6. /\ DOMAIN found'[s] = DOMAIN found[s] \cup {k} /\ found'[s][k] = None
      /\ \A j \in DOMAIN found[s] \ {k} : found'[s][j] = found[s][j]
  BY <1>2, <1>4 DEF Over
<1> QED BY <1>1, <1>4, <1>5, <1>6, Domains DEF RemoveEffect, SessionFunctions

LeaveEffect(s) ==
  /\ SessionFunctions'
  /\ pc[s] = "running" /\ at'[s] = 1 /\ DOMAIN found'[s] = {} /\ DOMAIN writes'[s] = {}
  /\ \A t \in Sessions \ {s} :
       /\ pc'[t] = pc[t] /\ request'[t] = request[t] /\ at'[t] = at[t]
       /\ found'[t] = found[t] /\ writes'[t] = writes[t]

CommitEffect(s) ==
  /\ LeaveEffect(s) /\ at[s] > Len(request[s].steps)
  /\ pc'[s] = "done" /\ request' = request
  /\ DOMAIN db' = Keys /\ \A k \in Keys : db'[k] = Visible(s, k)

FailEffect(s) == LeaveEffect(s) /\ pc'[s] = "failed" /\ db' = db

LEMMA LeaveDoes ==
  ASSUME TypeOK, NEW s \in Sessions, Leave(s)
  PROVE  /\ at'[s] = 1 /\ DOMAIN found'[s] = {} /\ DOMAIN writes'[s] = {}
         /\ DOMAIN at' = Sessions /\ DOMAIN found' = Sessions /\ DOMAIN writes' = Sessions
         /\ \A t \in Sessions \ {s} :
              at'[t] = at[t] /\ found'[t] = found[t] /\ writes'[t] = writes[t]
BY Domains, PutFacts, NothingFacts DEF Leave

LEMMA CommitDoes ==
  ASSUME TypeOK, NEW s \in Sessions, Commit(s)
  PROVE  CommitEffect(s)
<1>1. DOMAIN writes[s] \subseteq Keys
  BY DEF TypeOK
<1>2. db' = Over(db, writes[s]) /\ Leave(s)
  BY DEF Commit
<1>3. DOMAIN db' = Keys
  BY <1>1, <1>2, Domains DEF Over
<1>4. \A k \in Keys : db'[k] = Visible(s, k)
  BY <1>1, <1>2, Domains DEF Visible, Over
<1>5. pc'[s] = "done" /\ DOMAIN pc' = Sessions /\ \A t \in Sessions \ {s} : pc'[t] = pc[t]
  BY Domains, PutFacts DEF Commit
<1> QED BY <1>2, <1>3, <1>4, <1>5, LeaveDoes, Domains
        DEF Commit, CommitEffect, LeaveEffect, SessionFunctions

LEMMA FailDoes ==
  ASSUME TypeOK, NEW s \in Sessions, Refuse(s) \/ Raise(s)
  PROVE  FailEffect(s)
<1>1. Fail(s)
  BY DEF Refuse, Raise
<1>2. pc[s] = "running"
  BY Targets DEF Refuse, Raise, CheckFails, Runs, Unmatched, Deadlocked
<1>3. /\ pc'[s] = "failed" /\ DOMAIN pc' = Sessions /\ DOMAIN request' = Sessions
      /\ \A t \in Sessions \ {s} : pc'[t] = pc[t] /\ request'[t] = request[t]
  BY <1>1, Domains, PutFacts DEF Fail
<1> QED BY <1>1, <1>2, <1>3, LeaveDoes DEF Fail, FailEffect, LeaveEffect, SessionFunctions

LEMMA Actions ==
  ASSUME TypeOK, Next
  PROVE  \E s \in Sessions : \/ \E c \in Menu[s] : BeginEffect(s, c)
                             \/ ReadEffect(s)
                             \/ \E k \in Target(s) : WriteEffect(s, k)
                             \/ \E k \in Target(s) : RemoveEffect(s, k)
                             \/ CommitEffect(s)
                             \/ FailEffect(s)
<1>1. PICK s \in Sessions : (\E c \in Menu[s] : Begin(s, c)) \/ Step(s) \/ Raise(s)
  BY DEF Next
<1> QED BY <1>1, BeginDoes, ReadDoes, WriteDoes, RemoveDoes, CommitDoes, FailDoes DEF Step
-----------------------------------------------------------------------------
(* Types.                                                                  *)
LEMMA FunctionsStay ==
  ASSUME TypeOK, Next
  PROVE  /\ db' \in [Keys -> Rows \cup {None}]
         /\ pc' \in [Sessions -> {"idle", "running", "done", "failed"}]
         /\ at' \in [Sessions -> Nat \ {0}]
<1>1. PICK s \in Sessions : (\E c \in Menu[s] : Begin(s, c)) \/ Step(s) \/ Raise(s)
  BY DEF Next
<1>2. pc' \in [Sessions -> {"idle", "running", "done", "failed"}]
  <2>1. pc' = pc \/ \E x \in {"running", "done", "failed"} : pc' = Put(pc, s, x)
    BY <1>1 DEF Begin, Step, Raise, Require, CheckAbsent, Find, Write, Remove, Skip, Commit,
                Refuse, Fail, GoesOn
  <2> QED BY <2>1 DEF Put, TypeOK
<1>3. at' \in [Sessions -> Nat \ {0}]
  <2>1. at' = at \/ at' = Put(at, s, at[s] + 1) \/ at' = Put(at, s, 1)
    BY <1>1 DEF Begin, Step, Raise, Require, CheckAbsent, Find, Write, Remove, Skip, Commit,
                Refuse, Fail, GoesOn, Leave
  <2> QED BY <2>1 DEF Put, TypeOK
<1>4. db' \in [Keys -> Rows \cup {None}]
  <2>1. db' = db \/ db' = Over(db, writes[s])
    BY <1>1 DEF Begin, Step, Raise, Require, CheckAbsent, Find, Write, Remove, Skip, Commit,
                Refuse, Fail, GoesOn
  <2>2. /\ DOMAIN writes[s] \subseteq Keys
        /\ \A k \in DOMAIN writes[s] : writes[s][k] \in Rows \cup {None}
    BY DEF TypeOK
  <2>3. CASE db' = Over(db, writes[s])
    <3>1. DOMAIN db \cup DOMAIN writes[s] = Keys
      BY <2>2, Domains
    <3>2. db' = [k \in Keys |-> IF k \in DOMAIN writes[s] THEN writes[s][k] ELSE db[k]]
      BY <2>3, <3>1 DEF Over
    <3> QED BY <2>2, <3>2 DEF TypeOK
  <2> QED BY <2>1, <2>3 DEF TypeOK
<1> QED BY <1>2, <1>3, <1>4

TypedSession(s) ==
  /\ pc[s] \in {"running", "done"} => request[s] \in Menu[s]
  /\ DOMAIN found[s] \subseteq Keys /\ \A k \in DOMAIN found[s] : found[s][k] \in Rows \cup {None}
  /\ DOMAIN writes[s] \subseteq Keys
  /\ \A k \in DOMAIN writes[s] : writes[s][k] \in Rows \cup {None}
  /\ pc[s] # "running" => DOMAIN writes[s] = {}

LEMMA TypedSessions ==
  TypeOK <=>
    /\ db \in [Keys -> Rows \cup {None}]
    /\ pc \in [Sessions -> {"idle", "running", "done", "failed"}]
    /\ at \in [Sessions -> Nat \ {0}]
    /\ DOMAIN request = Sessions /\ DOMAIN found = Sessions /\ DOMAIN writes = Sessions
    /\ \A s \in Sessions : TypedSession(s)
<1>1. ASSUME NEW s \in Sessions
      PROVE  TypedSession(s) <=>
               /\ pc[s] \in {"running", "done"} => request[s] \in Menu[s]
               /\ \A f \in {found[s], writes[s]} :
                    DOMAIN f \subseteq Keys /\ \A k \in DOMAIN f : f[k] \in Rows \cup {None}
               /\ pc[s] # "running" => DOMAIN writes[s] = {}
  BY DEF TypedSession
<1> QED BY <1>1 DEF TypeOK

LEMMA TypeSteps == TypeOK /\ [Next]_vars => TypeOK'
<1> SUFFICES ASSUME TypeOK, [Next]_vars PROVE TypeOK'
  OBVIOUS
<1>1. CASE UNCHANGED vars
  BY <1>1 DEF vars, TypeOK
<1>2. CASE Next
  <2>1. /\ db' \in [Keys -> Rows \cup {None}]
        /\ pc' \in [Sessions -> {"idle", "running", "done", "failed"}]
        /\ at' \in [Sessions -> Nat \ {0}]
    BY <1>2, FunctionsStay
  <2>2. \A t \in Sessions : TypedSession(t)
    BY TypedSessions
  <2>3. SessionFunctions' /\ \A t \in Sessions : TypedSession(t)'
    <3>1. PICK s \in Sessions : \/ \E c \in Menu[s] : BeginEffect(s, c)
                                \/ ReadEffect(s)
                                \/ \E k \in Target(s) : WriteEffect(s, k)
                                \/ \E k \in Target(s) : RemoveEffect(s, k)
                                \/ CommitEffect(s)
                                \/ FailEffect(s)
      BY <1>2, Actions
    <3>2. CASE \E c \in Menu[s] : BeginEffect(s, c)
      <4>1. PICK c \in Menu[s] : BeginEffect(s, c)
        BY <3>2
      <4>2. \A k \in Keys : db[k] \in Rows \cup {None}
        BY DEF TypeOK
      <4>3. TypedSession(s)'
        BY <2>2, <4>1, <4>2 DEF BeginEffect, TypedSession
      <4>4. \A t \in Sessions \ {s} : TypedSession(t)'
        BY <2>2, <4>1 DEF BeginEffect, TypedSession
      <4> QED BY <4>1, <4>3, <4>4 DEF BeginEffect
    <3>3. CASE ReadEffect(s)
      <4>1. \A k \in Keys : Visible(s, k) \in Rows \cup {None}
        BY Sees
      <4>2. Reached(s).rows \subseteq Keys
        BY <3>3, Reaches DEF ReadEffect
      <4>3. TypedSession(s)'
        BY <2>2, <3>3, <4>1, <4>2 DEF ReadEffect, TypedSession
      <4>4. \A t \in Sessions \ {s} : TypedSession(t)'
        BY <2>2, <3>3 DEF ReadEffect, TypedSession
      <4> QED BY <3>3, <4>3, <4>4 DEF ReadEffect
    <3>4. CASE \E k \in Target(s) : WriteEffect(s, k)
      <4>1. PICK k \in Target(s) : WriteEffect(s, k)
        BY <3>4
      <4>2. k \in Keys /\ pc[s] = "running"
        BY Targets
      <4>3. Written(s, k) \in Rows
        BY <4>1, Writes DEF WriteEffect
      <4>4. TypedSession(s)'
        BY <2>2, <4>1, <4>2, <4>3 DEF WriteEffect, TypedSession
      <4>5. \A t \in Sessions \ {s} : TypedSession(t)'
        BY <2>2, <4>1 DEF WriteEffect, TypedSession
      <4> QED BY <4>1, <4>4, <4>5 DEF WriteEffect
    <3>5. CASE \E k \in Target(s) : RemoveEffect(s, k)
      <4>1. PICK k \in Target(s) : RemoveEffect(s, k)
        BY <3>5
      <4>2. k \in Keys /\ pc[s] = "running" /\ RemovedWith(s, k) \subseteq Keys
        BY Targets, CascadeFacts DEF RemovedWith
      <4>3. TypedSession(s)'
        BY <2>2, <4>1, <4>2 DEF RemoveEffect, TypedSession
      <4>4. \A t \in Sessions \ {s} : TypedSession(t)'
        BY <2>2, <4>1 DEF RemoveEffect, TypedSession
      <4> QED BY <4>1, <4>3, <4>4 DEF RemoveEffect
    <3>6. CASE CommitEffect(s)
      <4>1. TypedSession(s)'
        BY <2>2, <3>6 DEF CommitEffect, LeaveEffect, TypedSession
      <4>2. \A t \in Sessions \ {s} : TypedSession(t)'
        BY <2>2, <3>6 DEF CommitEffect, LeaveEffect, TypedSession
      <4> QED BY <3>6, <4>1, <4>2 DEF CommitEffect, LeaveEffect
    <3>7. CASE FailEffect(s)
      <4>1. TypedSession(s)'
        BY <2>2, <3>7 DEF FailEffect, LeaveEffect, TypedSession
      <4>2. \A t \in Sessions \ {s} : TypedSession(t)'
        BY <2>2, <3>7 DEF FailEffect, LeaveEffect, TypedSession
      <4> QED BY <3>7, <4>1, <4>2 DEF FailEffect, LeaveEffect
    <3> QED BY <3>1, <3>2, <3>3, <3>4, <3>5, <3>6, <3>7
  <2>4. /\ DOMAIN request' = Sessions /\ DOMAIN found' = Sessions /\ DOMAIN writes' = Sessions
    BY <2>3 DEF SessionFunctions
  <2>5. \A t \in Sessions :
          /\ pc'[t] \in {"running", "done"} => request'[t] \in Menu[t]
          /\ \A f \in {found'[t], writes'[t]} :
               DOMAIN f \subseteq Keys /\ \A k \in DOMAIN f : f[k] \in Rows \cup {None}
          /\ pc'[t] # "running" => DOMAIN writes'[t] = {}
    BY <2>3 DEF TypedSession
  <2> QED BY <2>1, <2>4, <2>5 DEF TypeOK
<1> QED BY <1>1, <1>2

LEMMA TypeInit == Init => TypeOK
<1> SUFFICES ASSUME Init PROVE TypeOK
  OBVIOUS
<1>1. PICK seed \in Seeds, status \in {"draft", "submitted"} :
        db = [k \in Keys |-> IF k \in seed THEN Seeded(k, status) ELSE None]
  BY DEF Init
<1>2. ASSUME NEW k \in Keys PROVE Seeded(k, status) \in Rows
  BY DEF Seeded, Blank, Rows, Statuses
<1>3. db \in [Keys -> Rows \cup {None}]
  BY <1>1, <1>2
<1>4. \A s \in Sessions : pc[s] = "idle" /\ found[s] = Nothing /\ writes[s] = Nothing
  BY DEF Init
<1>5. \A s \in Sessions : DOMAIN found[s] = {} /\ DOMAIN writes[s] = {}
  BY <1>4, NothingFacts
<1>6. \A s \in Sessions : TypedSession(s)
  BY <1>4, <1>5 DEF TypedSession
<1> QED BY <1>3, <1>6, TypedSessions DEF Init

(* Sessions, rows and requests have their types; only a running session has*)
(* uncommitted rows.                                                       *)
THEOREM FormsTyped == Spec => []TypeOK
<1>1. Init => TypeOK
  BY TypeInit
<1>2. TypeOK /\ [Next]_vars => TypeOK'
  BY TypeSteps
<1> QED BY <1>1, <1>2, PTL DEF Spec
-----------------------------------------------------------------------------
(* What the invariant says of a session's view of the database.            *)
LEMMA Views ==
  ASSUME NEW s \in Sessions, NEW k \in Keys
  PROVE  /\ Holds(s, k) => Visible(s, k) = writes[s][k]
         /\ ~Holds(s, k) => Visible(s, k) = db[k]
         /\ Deletes(s, k) => Holds(s, k) /\ Visible(s, k) = None
BY DEF Holds, Visible, Deletes

(* A row others refer to keeps its identity while it is written.           *)
LEMMA IdentityKept ==
  ASSUME IInv, NEW s \in Sessions, NEW k \in Keys, NEW p \in Keys, p \in Parents[k],
         Visible(s, p) # None, db[p] # None
  PROVE  Visible(s, p).id = db[p].id
<1>1. CASE ~Holds(s, p)
  BY <1>1, Views
<1>2. CASE Holds(s, p)
  <2>1. p \in DOMAIN writes[s] /\ writes[s][p] # None /\ Visible(s, p) = writes[s][p]
    BY <1>2, Views DEF Holds
  <2>2. ~Childless(p)
    BY DEF Childless
  <2> QED BY <2>1, <2>2 DEF IInv, RowsHit
<1> QED BY <1>1, <1>2

(* A session sees no row without its parents, no element without its form. *)
LEMMA ViewWhole ==
  ASSUME IInv, NEW s \in Sessions, NEW k \in Keys, Visible(s, k) # None
  PROVE  /\ \A p \in Parents[k] : Visible(s, p) # None
         /\ IsElement(k) => Visible(s, Form(k[2])).id = Visible(s, k).form
<1>1. CASE Holds(s, k)
  BY <1>1, Views DEF IInv, ParentsSeen, Holds
<1>2. CASE ~Holds(s, k)
  <2>1. Visible(s, k) = db[k] /\ db[k] # None
    BY <1>2, Views
  <2>2. ASSUME NEW p \in Parents[k]
        PROVE  p \in Keys /\ db[p] # None /\ Visible(s, p) # None
    <3>1. p \in Keys /\ db[p] # None
      BY <2>1, ParentsAreKeys DEF IInv, NoOrphans
    <3>2. ~Deletes(s, p)
      BY <3>1 DEF IInv, DeletedBelow
    <3> QED BY <3>1, <3>2 DEF Visible, Deletes, Holds
  <2>3. ASSUME IsElement(k)
        PROVE  Visible(s, Form(k[2])).id = Visible(s, k).form
    <3>1. Form(k[2]) \in Parents[k]
      BY <2>3, ElementParent
    <3>2. db[Form(k[2])].id = db[k].form
      BY <2>1, <2>3 DEF IInv, NoOrphans, IsElement
    <3> QED BY <2>1, <2>2, <3>1, <3>2, IdentityKept
  <2> QED BY <2>2, <2>3
<1> QED BY <1>1, <1>2
-----------------------------------------------------------------------------
(* A session begins: it has written nothing yet.                           *)
LEMMA BeginKeeps ==
  ASSUME IInv, TypeOK', OnlyKnown', NEW s \in Sessions, NEW c \in Menu[s], BeginEffect(s, c)
  PROVE  IInv'
<1>1. /\ db' = db /\ at' = at /\ writes' = writes /\ pc[s] = "idle" /\ DOMAIN writes[s] = {}
      /\ \A t \in Sessions \ {s} :
           pc'[t] = pc[t] /\ request'[t] = request[t] /\ found'[t] = found[t]
  BY DEF BeginEffect, IInv, TypeOK
<1>2. NoOrphans' /\ OneWriter' /\ SubmittedIsLocked'
  BY <1>1 DEF IInv, NoOrphans, OneWriter, SubmittedIsLocked, Holds
<1>3. ParentsSeen' /\ DeletedBelow'
  BY <1>1 DEF IInv, ParentsSeen, DeletedBelow, Visible, Deletes, Holds
<1>4. DeletedFor'
  BY <1>1 DEF IInv, DeletedFor, RemovesFirst, Deletes, Holds
<1>5. RowsHit'
  BY <1>1 DEF IInv, RowsHit, RemovesFirst, Found
<1>6. Authors'
  <2>1. \A x \in Sessions : pc[x] = "done" => pc'[x] = "done"
    BY <1>1
  <2>2. \A k \in Keys : db[k] # None => {db[k].id, db[k].by} \subseteq Sessions \cup {None}
    BY DEF IInv, TypeOK, Rows
  <2> QED BY <1>1, <2>1, <2>2 DEF IInv, Authors
<1>7. Named'
  BY <1>1 DEF IInv, Named
<1>8. TornRaises'
  BY <1>1 DEF IInv, TornRaises, Runs, Reached, Holds
<1>9. Saved'
  <2>1. at[s] = 1
    BY <1>1 DEF IInv, AtFirst
  <2>2. \A i \in DOMAIN request'[s].steps : i \in Nat \ {0}
    <3>1. Safe(c) /\ request'[s] = c
      BY MethodsAreSafe DEF BeginEffect
    <3> QED BY <3>1 DEF Safe, Commands
  <2>3. \A i \in DOMAIN request'[s].steps : ~(i < at'[s])
    BY <1>1, <2>1, <2>2
  <2> QED BY <1>1, <2>3 DEF IInv, Saved, Holds, NoElements
<1>10. AtFirst' /\ Passed'
  <2>1. \A i \in DOMAIN request'[s].steps : i \in Nat \ {0}
    <3>1. Safe(c) /\ request'[s] = c
      BY MethodsAreSafe DEF BeginEffect
    <3> QED BY <3>1 DEF Safe, Commands
  <2>2. at'[s] = 1
    BY <1>1 DEF IInv, AtFirst
  <2>3. \A i \in DOMAIN request'[s].steps : ~(i < at'[s])
    BY <2>1, <2>2
  <2>4. AtFirst'
    BY <1>1 DEF IInv, AtFirst, BeginEffect
  <2> QED BY <1>1, <2>3, <2>4 DEF IInv, Passed
<1>11. SubmissionFiled'
  <2>1. ASSUME NEW d \in Documents, db[Form(d)] # None, db[Form(d)].by # None
        PROVE  request'[db[Form(d)].by] = request[db[Form(d)].by]
    <3>1. db[Form(d)].by \in Sessions
      BY <2>1, KeyNames DEF IInv, TypeOK, Rows
    <3>2. pc[db[Form(d)].by] = "done"
      BY <2>1, <3>1, KeyNames DEF IInv, Authors
    <3> QED BY <1>1, <3>1, <3>2
  <2> QED BY <1>1, <2>1 DEF IInv, SubmissionFiled, Payload
<1> QED BY <1>2, <1>3, <1>4, <1>5, <1>6, <1>7, <1>8, <1>9, <1>10, <1>11 DEF IInv

(* A session reads: what it has written is as it was.                      *)
LEMMA ReadKeeps ==
  ASSUME IInv, TypeOK', OnlyKnown', NEW s \in Sessions, ReadEffect(s)
  PROVE  IInv'
<1>1. /\ db' = db /\ pc' = pc /\ request' = request /\ writes' = writes
      /\ at[s] \in Nat /\ at'[s] = at[s] + 1
      /\ \A t \in Sessions \ {s} : at'[t] = at[t] /\ found'[t] = found[t]
      /\ pc[s] = "running"
  BY DEF ReadEffect, IInv, TypeOK
<1>2. NoOrphans' /\ OneWriter' /\ SubmittedIsLocked'
  BY <1>1 DEF IInv, NoOrphans, OneWriter, SubmittedIsLocked, Holds
<1>3. ParentsSeen' /\ DeletedBelow'
  BY <1>1 DEF IInv, ParentsSeen, DeletedBelow, Visible, Deletes, Holds
<1>4. DeletedFor'
  BY <1>1 DEF IInv, DeletedFor, RemovesFirst, Deletes, Holds
<1>5. RowsHit'
  <2>1. ASSUME NEW t \in Sessions, NEW k \in DOMAIN writes[t], writes[t][k] # None,
               writes[t][k].id # t
        PROVE  Found(t, k)' # None /\ Found(t, k)'.id = db[k].id
    <3>1. Found(t, k) # None /\ Found(t, k).id = db[k].id /\ writes[t][k].id = db[k].id
      BY <2>1 DEF IInv, RowsHit
    <3>2. CASE found'[t] = found[t]
      BY <3>1, <3>2 DEF Found
    <3>3. CASE found'[t] # found[t]
      <4>1. /\ t = s /\ DOMAIN found'[s] = DOMAIN found[s] \cup Reached(s).rows
            /\ \A j \in Reached(s).rows : found'[s][j] = Visible(s, j)
            /\ \A j \in DOMAIN found[s] \ Reached(s).rows : found'[s][j] = found[s][j]
        BY <1>1, <3>3 DEF ReadEffect
      <4>2. Visible(s, k) = writes[s][k]
        BY <4>1 DEF Visible
      <4> QED BY <2>1, <3>1, <4>1, <4>2 DEF Found
    <3> QED BY <3>2, <3>3
  <2> QED BY <1>1, <2>1 DEF IInv, RowsHit, RemovesFirst
<1>6. Authors'
  BY <1>1 DEF IInv, Authors
<1>7. Named'
  <2>1. \A t \in Sessions : \A i \in DOMAIN request[t].steps : i < at[t] => i < at'[t]
    <3> SUFFICES ASSUME NEW i \in DOMAIN request[s].steps, i < at[s] PROVE i < at'[s]
      BY <1>1
    <3>1. i \in Nat
      BY <1>1, Reaches DEF IInv
    <3> QED BY <1>1, <3>1
  <2> QED BY <1>1, <2>1 DEF IInv, Named
<1>8. TornRaises'
  <2>1. ~Runs(s, "raise")
    BY DEF ReadEffect, Runs
  <2>2. \A t \in Sessions \ {s} : Runs(t, "raise") => Runs(t, "raise")'
    BY <1>1 DEF Runs, Reached
  <2> QED BY <1>1, <2>1, <2>2 DEF IInv, TornRaises, Holds
<1>9. Saved'
  <2>1. ASSUME NEW i \in DOMAIN request[s].steps, i < at'[s], request[s].steps[i].do = "save",
               NEW k \in request[s].steps[i].rows, Known(k)
        PROVE  i < at[s]
    <3>1. i \in Nat
      BY <1>1, Reaches DEF IInv
    <3>2. i # at[s]
      BY <2>1 DEF ReadEffect, Reached
    <3> QED BY <1>1, <2>1, <3>1, <3>2
  <2> QED BY <1>1, <2>1 DEF IInv, Saved, Holds, NoElements
<1>10. AtFirst' /\ Passed'
  <2>1. ASSUME NEW i \in DOMAIN request[s].steps, i < at'[s]
        PROVE  request[s].steps[i].do # "raise"
    <3>1. i \in Nat
      BY <1>1, Reaches DEF IInv
    <3>2. i < at[s] \/ i = at[s]
      BY <1>1, <2>1, <3>1
    <3>3. request[s].steps[at[s]].do # "raise"
      BY DEF ReadEffect, Reached
    <3> QED BY <1>1, <3>2, <3>3 DEF IInv, Passed
  <2>2. AtFirst'
    BY <1>1 DEF IInv, AtFirst
  <2> QED BY <1>1, <2>1, <2>2 DEF IInv, Passed
<1>11. SubmissionFiled'
  BY <1>1 DEF IInv, SubmissionFiled, Payload
<1> QED BY <1>2, <1>3, <1>4, <1>5, <1>6, <1>7, <1>8, <1>9, <1>10, <1>11 DEF IInv

(* What a session may rely on when it writes.                              *)
LEMMA WriteFacts ==
  ASSUME IInv, NEW s \in Sessions, NEW k \in Target(s), WriteEffect(s, k)
  PROVE  /\ k \in Keys /\ pc[s] = "running" /\ at[s] \in DOMAIN request[s].steps
         /\ request[s].steps \in Seq(Statements) /\ at[s] \in Nat \ {0}
         /\ Reached(s) = request[s].steps[at[s]] /\ Writing(Reached(s)) /\ k \in Reached(s).rows
         /\ \A t \in Sessions \ {s} : ~Holds(t, k)
         /\ Written(s, k) \in Rows /\ Written(s, k) # None /\ Written(s, k).by = s
         /\ Visible(s, k)' = Written(s, k) /\ Holds(s, k)' /\ writes'[s][k] = Written(s, k)
         /\ \A j \in Keys \ {k} :
              /\ Visible(s, j)' = Visible(s, j) /\ (Holds(s, j)' <=> Holds(s, j))
              /\ Deletes(s, j)' <=> Deletes(s, j)
              /\ Holds(s, j) => writes'[s][j] = writes[s][j]
         /\ ~Deletes(s, k)'
         /\ \A t \in Sessions \ {s} : \A j \in Keys :
              /\ Visible(t, j)' = Visible(t, j) /\ (Holds(t, j)' <=> Holds(t, j))
              /\ Deletes(t, j)' <=> Deletes(t, j)
<1>1. k \in Keys /\ pc[s] = "running" /\ k \in Reached(s).rows /\ at[s] \in DOMAIN request[s].steps
  BY Targets DEF IInv
<1>2. request[s].steps \in Seq(Statements) /\ at[s] \in Nat \ {0}
  BY <1>1, Reaches DEF IInv
<1>3. Reached(s) = request[s].steps[at[s]] /\ Writing(Reached(s))
  BY DEF WriteEffect, Reached, Runs, Writing
<1>4. \A t \in Sessions \ {s} : ~Holds(t, k)
  BY DEF WriteEffect, Blocked, WaitsFor
<1>5. Written(s, k) \in Rows /\ Written(s, k) # None /\ Written(s, k).by = s
  BY Writes DEF IInv, WriteEffect
<1>6. /\ DOMAIN writes'[s] = DOMAIN writes[s] \cup {k} /\ writes'[s][k] = Written(s, k)
      /\ \A j \in DOMAIN writes[s] \ {k} : writes'[s][j] = writes[s][j]
      /\ \A t \in Sessions \ {s} : writes'[t] = writes[t]
      /\ db' = db
  BY DEF WriteEffect
<1>7. Visible(s, k)' = Written(s, k) /\ Holds(s, k)' /\ ~Deletes(s, k)'
  BY <1>5, <1>6 DEF Visible, Holds, Deletes
<1>8. \A j \in Keys \ {k} :
        /\ Visible(s, j)' = Visible(s, j) /\ (Holds(s, j)' <=> Holds(s, j))
        /\ Deletes(s, j)' <=> Deletes(s, j)
        /\ Holds(s, j) => writes'[s][j] = writes[s][j]
  BY <1>6 DEF Visible, Holds, Deletes
<1>9. \A t \in Sessions \ {s} : \A j \in Keys :
        /\ Visible(t, j)' = Visible(t, j) /\ (Holds(t, j)' <=> Holds(t, j))
        /\ Deletes(t, j)' <=> Deletes(t, j)
  BY <1>6 DEF Visible, Holds, Deletes
<1> QED BY <1>1, <1>2, <1>3, <1>4, <1>5, <1>6, <1>7, <1>8, <1>9

(* An insert and an update, and an insert over a row the session removed.  *)
LEMMA InsertOrUpdate ==
  ASSUME IInv, NEW s \in Sessions, NEW k \in Target(s), WriteEffect(s, k)
  PROVE  \/ /\ Visible(s, k) = None
            /\ \A p \in Parents[k] : Visible(s, p) # None
            /\ IsElement(k) => Visible(s, Form(k[2])).id = Written(s, k).form
            /\ \A t \in Sessions \ {s} : \A p \in Parents[k] : ~Deletes(t, p)
            /\ Written(s, k).id = s
            /\ Deletes(s, k) => RemovesFirst(s, k) /\ Childless(k)
         \/ /\ Visible(s, k) # None /\ Visible(s, k) \in Rows
            /\ Written(s, k).id = Visible(s, k).id /\ Written(s, k).form = Visible(s, k).form
            /\ Found(s, k) # None /\ Found(s, k).id = Visible(s, k).id
<1>1. ~Runs(s, "remove") /\ Matches(s, k)
  BY DEF WriteEffect, Runs
<1>2. k \in Keys
  BY WriteFacts
<1>3. CASE Inserts(s, k)
  <2>1. Visible(s, k) = None /\ References(s, k)
    BY <1>1, <1>3 DEF Matches
  <2>2. \A p \in Parents[k] : Visible(s, p) # None
    BY <2>1 DEF References
  <2>3. Written(s, k).id = s /\ Written(s, k).form = FormId(s, k)
    BY <1>1, <1>3, Writes DEF IInv, WriteEffect, Blank
  <2>4. IsElement(k) => Visible(s, Form(k[2])).id = Written(s, k).form
    BY <2>1, <2>3 DEF References, SameForm, IsElement
  <2>5. \A t \in Sessions \ {s} : \A p \in Parents[k] : ~Deletes(t, p)
    BY <1>3 DEF WriteEffect, Blocked, WaitsFor
  <2>6. ASSUME Deletes(s, k)
        PROVE  RemovesFirst(s, k) /\ Childless(k)
    <3>1. \A p \in Parents[k] : ~Deletes(s, p)
      BY <1>2, <2>2, Views, ParentsAreKeys
    <3>2. RemovesFirst(s, k)
      BY <1>2, <2>6, <3>1 DEF IInv, DeletedFor
    <3>3. NeverReplaces(request[s])
      BY WriteFacts, Reaches DEF IInv, Safe
    <3>4. Childless(k)
      BY <3>2, <3>3, WriteFacts DEF NeverReplaces, RemovesFirst
    <3> QED BY <3>2, <3>4
  <2> QED BY <2>1, <2>2, <2>3, <2>4, <2>5, <2>6
<1>4. CASE ~Inserts(s, k)
  <2>1. Visible(s, k) # None /\ Visible(s, k).id = Found(s, k).id /\ Found(s, k) # None
    BY <1>1, <1>4 DEF Matches, Inserts
  <2>2. Visible(s, k) \in Rows
    BY <1>2, <2>1, Sees DEF IInv
  <2>3. Written(s, k).id = Visible(s, k).id /\ Written(s, k).form = Visible(s, k).form
    BY <1>1, <1>4, Writes DEF IInv, WriteEffect
  <2> QED BY <2>1, <2>2, <2>3
<1> QED BY <1>3, <1>4

LEMMA WriteKeepsParents ==
  ASSUME IInv, NEW s \in Sessions, NEW k \in Target(s), WriteEffect(s, k)
  PROVE  ParentsSeen'
<1>1. k \in Keys /\ DOMAIN writes[s] \subseteq Keys
  BY WriteFacts DEF IInv, TypeOK
<1>2. ASSUME NEW p \in Keys, Visible(s, p) # None
      PROVE  Visible(s, p)' # None
  BY <1>2, WriteFacts
<1>3. ASSUME NEW d \in Documents, Visible(s, Form(d)) # None, NEW j \in Keys, Form(d) \in Parents[j]
      PROVE  Visible(s, Form(d))'.id = Visible(s, Form(d)).id
  <2>1. Form(d) \in Keys
    BY KeyNames
  <2>2. CASE Form(d) # k
    BY <2>1, <2>2, WriteFacts
  <2>3. CASE Form(d) = k
    BY <1>3, <2>3, WriteFacts, InsertOrUpdate
  <2> QED BY <2>2, <2>3
<1>4. ASSUME NEW j \in DOMAIN writes'[s], writes'[s][j] # None
      PROVE  /\ \A p \in Parents[j] : Visible(s, p)' # None
             /\ IsElement(j) => Visible(s, Form(j[2]))'.id = writes'[s][j].form
  <2>1. j \in Keys /\ (j = k \/ j \in DOMAIN writes[s])
    BY <1>1 DEF WriteEffect
  <2>2. /\ \A p \in Parents[j] : Visible(s, p) # None
        /\ IsElement(j) => Visible(s, Form(j[2])).id = writes'[s][j].form
    <3>1. CASE j = k
      <4>1. writes'[s][k] = Written(s, k)
        BY WriteFacts
      <4> QED BY <3>1, <4>1, <1>1, InsertOrUpdate, ViewWhole
    <3>2. CASE j # k
      <4>1. j \in DOMAIN writes[s] /\ writes[s][j] = writes'[s][j]
        BY <2>1, <3>2 DEF WriteEffect
      <4> QED BY <1>4, <4>1 DEF IInv, ParentsSeen
    <3> QED BY <3>1, <3>2
  <2>3. \A p \in Parents[j] : Visible(s, p)' # None
    BY <1>2, <2>1, <2>2, ParentsAreKeys
  <2>4. ASSUME IsElement(j)
        PROVE  Visible(s, Form(j[2]))'.id = Visible(s, Form(j[2])).id
    <3>1. j[2] \in Documents /\ Form(j[2]) \in Parents[j]
      BY <2>1, <2>4, ElementParent
    <3> QED BY <1>3, <2>1, <2>2, <3>1
  <2> QED BY <2>2, <2>3, <2>4
<1>5. ASSUME NEW t \in Sessions \ {s}, NEW j \in DOMAIN writes'[t], writes'[t][j] # None
      PROVE  /\ \A p \in Parents[j] : Visible(t, p)' # None
             /\ IsElement(j) => Visible(t, Form(j[2]))'.id = writes'[t][j].form
  <2>1. writes'[t] = writes[t] /\ db' = db
    BY DEF WriteEffect
  <2>2. \A p \in Keys : Visible(t, p)' = Visible(t, p)
    BY WriteFacts
  <2>3. j \in Keys
    BY <2>1 DEF IInv, TypeOK
  <2>4. /\ \A p \in Parents[j] : Visible(t, p) # None
        /\ IsElement(j) => Visible(t, Form(j[2])).id = writes[t][j].form
    BY <1>5, <2>1 DEF IInv, ParentsSeen
  <2> QED BY <2>1, <2>2, <2>3, <2>4, ParentsAreKeys, ElementParent
<1> QED BY <1>4, <1>5 DEF ParentsSeen

LEMMA WriteKeepsDeletions ==
  ASSUME IInv, NEW s \in Sessions, NEW k \in Target(s), WriteEffect(s, k)
  PROVE  DeletedBelow' /\ DeletedFor'
<1>1. k \in Keys /\ \A t \in Sessions \ {s} : ~Holds(t, k)
  BY WriteFacts
<1>2. DeletedBelow'
  <2>1. ASSUME NEW t \in Sessions, NEW j \in Keys, NEW p \in Parents[j], Deletes(t, p)'
        PROVE  Visible(t, j)' = None /\ \A x \in Sessions \ {t} : ~Holds(x, j)'
    <3>1. p \in Keys
      BY ParentsAreKeys
    <3>2. Deletes(t, p)
      BY <2>1, <3>1, <1>1, WriteFacts
    <3>3. Visible(t, j) = None /\ \A x \in Sessions \ {t} : ~Holds(x, j)
      BY <3>2 DEF IInv, DeletedBelow
    <3>4. CASE t # s
      <4>1. j # k
        <5> SUFFICES ASSUME j = k PROVE FALSE
          OBVIOUS
        <5>1. Visible(s, k) # None
          BY <3>2, <3>4, InsertOrUpdate
        <5>2. db[k] # None
          BY <1>1, <3>3, <3>4, <5>1, Views
        <5>3. Visible(t, k) # None
          BY <1>1, <3>4, <5>2, Views
        <5> QED BY <3>3, <5>3
      <4>2. Visible(t, j)' = Visible(t, j)
        BY <3>4, WriteFacts
      <4>3. \A x \in Sessions : Holds(x, j)' <=> Holds(x, j)
        BY <4>1, WriteFacts
      <4> QED BY <3>3, <4>2, <4>3
    <3>5. CASE t = s
      <4>1. Visible(s, p) = None
        BY <3>1, <3>2, <3>5, Views
      <4>2. j # k
        BY <1>1, <3>3, <3>5, <4>1, InsertOrUpdate
      <4> QED BY <3>3, <3>5, <4>2, WriteFacts
    <3> QED BY <3>4, <3>5
  <2> QED BY <2>1 DEF DeletedBelow
<1>3. DeletedFor'
  <2>1. ASSUME NEW t \in Sessions, NEW j \in Keys, Deletes(t, j)'
        PROVE  RemovesFirst(t, j) \/ \E p \in Parents[j] : Deletes(t, p)'
    <3>1. Deletes(t, j)
      BY <2>1, <1>1, WriteFacts
    <3>2. CASE RemovesFirst(t, j)
      BY <3>2
    <3>3. CASE \E p \in Parents[j] : Deletes(t, p)
      <4>1. PICK p \in Parents[j] : Deletes(t, p)
        BY <3>3
      <4>2. p \in Keys
        BY ParentsAreKeys
      <4>3. ~(t = s /\ p = k)
        BY <4>1, <4>2, InsertOrUpdate, Views DEF Childless
      <4>4. Deletes(t, p)'
        BY <4>1, <4>2, <4>3, WriteFacts
      <4> QED BY <4>4
    <3> QED BY <3>1, <3>2, <3>3 DEF IInv, DeletedFor
  <2>2. request' = request
    BY DEF WriteEffect
  <2> QED BY <2>1, <2>2 DEF DeletedFor, RemovesFirst
<1> QED BY <1>2, <1>3

LEMMA WriteKeepsHits ==
  ASSUME IInv, NEW s \in Sessions, NEW k \in Target(s), WriteEffect(s, k)
  PROVE  RowsHit'
<1>1. k \in Keys /\ pc[s] = "running" /\ writes'[s][k] = Written(s, k)
  BY WriteFacts
<1>2. db' = db /\ found' = found /\ request' = request
  BY DEF WriteEffect
<1>3. IF Written(s, k).id = s THEN db[k] = None \/ (RemovesFirst(s, k) /\ Childless(k))
      ELSE db[k] # None /\ db[k].id = Written(s, k).id /\ Found(s, k) # None
           /\ Found(s, k).id = db[k].id
  <2>1. CASE Visible(s, k) = None
    <3>1. /\ Written(s, k).id = s
          /\ Deletes(s, k) => RemovesFirst(s, k) /\ Childless(k)
      BY <2>1, InsertOrUpdate
    <3>2. ~Deletes(s, k) => db[k] = None
      BY <2>1 DEF Visible, Deletes, Holds
    <3> QED BY <3>1, <3>2
  <2>2. CASE Visible(s, k) # None
    <3>1. /\ Written(s, k).id = Visible(s, k).id
          /\ Found(s, k) # None /\ Found(s, k).id = Visible(s, k).id
      BY <2>2, InsertOrUpdate
    <3>2. CASE Holds(s, k)
      <4>1. k \in DOMAIN writes[s] /\ Visible(s, k) = writes[s][k]
        BY <1>1, <3>2, Views DEF Holds
      <4> QED BY <2>2, <3>1, <4>1 DEF IInv, RowsHit
    <3>3. CASE ~Holds(s, k)
      <4>1. Visible(s, k) = db[k] /\ db[k] # None
        BY <1>1, <2>2, <3>3, Views
      <4>2. db[k].id # s
        <5>1. s # None
          BY ParameterAssumption
        <5> QED BY <1>1, <4>1, <5>1 DEF IInv, Authors
      <4> QED BY <3>1, <4>1, <4>2
    <3> QED BY <3>2, <3>3
  <2> QED BY <2>1, <2>2
<1>4. ASSUME NEW t \in Sessions, NEW j \in DOMAIN writes'[t], writes'[t][j] # None,
             ~(t = s /\ j = k)
      PROVE  j \in DOMAIN writes[t] /\ writes[t][j] = writes'[t][j]
  BY <1>4 DEF WriteEffect
<1> QED BY <1>1, <1>2, <1>3, <1>4 DEF IInv, RowsHit, RemovesFirst, Found

(* A form is torn only by a statement that the command's failure follows.  *)
LEMMA WriteKeepsLocks ==
  ASSUME IInv, NEW s \in Sessions, NEW k \in Target(s), WriteEffect(s, k)
  PROVE  TornRaises'
<1>1. /\ k \in Keys /\ pc[s] = "running" /\ writes'[s][k] = Written(s, k)
      /\ at[s] \in DOMAIN request[s].steps /\ Reached(s) = request[s].steps[at[s]]
      /\ k \in Reached(s).rows /\ request[s].steps \in Seq(Statements) /\ at[s] \in Nat \ {0}
  BY WriteFacts
<1>2. /\ db' = db /\ pc' = pc /\ request' = request /\ at'[s] = at[s] + 1
      /\ \A t \in Sessions \ {s} : at'[t] = at[t] /\ writes'[t] = writes[t]
  BY DEF WriteEffect
<1>3. ~Runs(s, "raise")
  BY DEF WriteEffect, Runs
<1>4. ASSUME NEW d \in Documents, Form(d) = k, Torn(Written(s, k))
      PROVE  Runs(s, "raise")'
  <2> DEFINE row == IF Inserts(s, k) THEN Blank(s, FormId(s, k)) ELSE Visible(s, k)
             set == Reached(s).set
  <2>1. /\ row \in Rows /\ set \in Columns
        /\ Written(s, k).status = Over(row, set).status
        /\ Written(s, k).locked = Over(row, set).locked
    BY Writes DEF IInv, WriteEffect
  <2>2. ~Torn(row)
    <3>1. CASE Inserts(s, k)
      BY <3>1 DEF Torn, Blank
    <3>2. CASE ~Inserts(s, k)
      <4>1. row = Visible(s, k) /\ row # None
        BY <2>1, <3>2, ParameterAssumption
      <4>2. CASE Holds(s, k)
        <5>1. row = writes[s][k]
          BY <1>1, <4>1, <4>2, Views
        <5> HIDE DEF row
        <5> QED BY <1>3, <1>4, <4>1, <4>2, <5>1 DEF IInv, TornRaises
      <4>3. CASE ~Holds(s, k)
        <5>1. row = db[k]
          BY <1>1, <4>1, <4>3, Views
        <5> HIDE DEF row
        <5> QED BY <1>4, <4>1, <5>1 DEF IInv, SubmittedIsLocked, Torn
      <4> QED BY <4>2, <4>3
    <3> QED BY <3>1, <3>2
  <2> HIDE DEF row
  <2>3. ~LocksWhole(set)
    <3> SUFFICES ASSUME LocksWhole(set) PROVE FALSE
      OBVIOUS
    <3>1. CASE set = <<>>
      BY <1>4, <2>1, <2>2, <3>1, OverRow DEF Torn
    <3>2. CASE DOMAIN set = {"status", "locked"} /\ (set.locked <=> set.status = "submitted")
      <4>1. Over(row, set).status = set.status /\ Over(row, set).locked = set.locked
        BY <2>1, <3>2, OverRow
      <4> QED BY <1>4, <2>1, <3>2, <4>1 DEF Torn
    <3> QED BY <3>1, <3>2 DEF LocksWhole
  <2>4. at[s] + 1 \in DOMAIN request[s].steps /\ request[s].steps[at[s] + 1].do = "raise"
    <3>1. NeverTears(request[s])
      BY <1>1, Reaches DEF IInv, Safe
    <3> QED BY <1>1, <1>4, <2>3, <3>1 DEF NeverTears
  <2> QED BY <1>1, <1>2, <2>4 DEF Runs, Reached
<1>5. ASSUME NEW t \in Sessions, NEW d \in Documents, Holds(t, Form(d))',
             writes'[t][Form(d)] # None, Torn(writes'[t][Form(d)])
      PROVE  Runs(t, "raise")'
  <2>1. CASE t = s /\ Form(d) = k
    BY <1>1, <1>4, <1>5, <2>1
  <2>2. CASE t = s /\ Form(d) # k
    <3>1. Holds(s, Form(d)) /\ writes'[s][Form(d)] = writes[s][Form(d)]
      BY <1>5, <2>2, KeyNames, WriteFacts
    <3>2. Runs(s, "raise")
      BY <1>5, <2>2, <3>1 DEF IInv, TornRaises
    <3> QED BY <1>3, <3>2
  <2>3. CASE t # s
    <3>1. Runs(t, "raise")
      BY <1>2, <1>5, <2>3 DEF IInv, TornRaises, Holds
    <3> QED BY <1>2, <2>3, <3>1 DEF Runs, Reached
  <2> QED BY <2>1, <2>2, <2>3
<1> QED BY <1>5 DEF TornRaises

(* What a submission's statements are, once it has one to write.           *)
LEMMA Submits ==
  ASSUME IInv, NEW s \in Sessions, pc[s] \in {"running", "done"}, ~NoElements(request[s])
  PROVE  /\ request[s].steps \in Seq(Statements)
         /\ \E d \in Documents, status \in Statuses : Files(request[s], d, status)
<1>1. request[s] \in Menu[s]
  BY DEF IInv, TypeOK
<1>2. Safe(request[s])
  BY <1>1, MethodsAreSafe
<1> QED BY <1>2 DEF Safe, FilesOrSparesElements, Commands

LEMMA WriteKeepsSaved ==
  ASSUME IInv, NEW s \in Sessions, NEW k \in Target(s), WriteEffect(s, k)
  PROVE  Saved'
<1>1. /\ k \in Keys /\ pc[s] = "running" /\ writes'[s][k] = Written(s, k) /\ Holds(s, k)'
      /\ Written(s, k) # None
      /\ at[s] \in DOMAIN request[s].steps /\ Reached(s) = request[s].steps[at[s]]
      /\ Writing(Reached(s))
      /\ k \in Reached(s).rows /\ request[s].steps \in Seq(Statements) /\ at[s] \in Nat \ {0}
  BY WriteFacts
<1>2. /\ db' = db /\ pc' = pc /\ request' = request /\ at'[s] = at[s] + 1
      /\ \A t \in Sessions \ {s} : at'[t] = at[t] /\ writes'[t] = writes[t]
  BY DEF WriteEffect
<1>3. ASSUME ~NoElements(request[s]), NEW i \in DOMAIN request[s].steps, i < at'[s],
             request[s].steps[i].do = "save", NEW j \in request[s].steps[i].rows, Known(j)
      PROVE  /\ Holds(s, j)' /\ writes'[s][j] # None
             /\ writes'[s][j].status = request[s].steps[i].set.status
  <2>1. PICK d \in Documents, status \in Statuses : Files(request[s], d, status)
    BY <1>1, <1>3, Submits
  <2> DEFINE n == Len(request[s].steps)
             st(x) == request[s].steps[x]
  <2>2. n \in Nat /\ DOMAIN request[s].steps = 1 .. n /\ i \in 1 .. n /\ at[s] \in 1 .. n
    BY <1>1
  <2>3. \A x \in 1 .. n :
          /\ x = n => st(x) = Failure \/ st(x) = SaveForm(d, status)
          /\ x # n => /\ st(x).do \in {"find", "save"}
                      /\ st(x).do = "save" => st(x).set = [status |-> status]
                      /\ \A y \in st(x).rows : IsElement(y) /\ st(x).rows = {y}
    BY <2>1, <2>2 DEF Files
  <2>4. /\ Failure.do = "raise"
        /\ SaveForm(d, status).do = "save" /\ SaveForm(d, status).rows = {Form(d)}
        /\ SaveForm(d, status).set = [status |-> status, locked |-> status = "submitted"]
    BY DEF Failure, Statement, SaveForm, Save
  <2>5. st(at[s]) = Reached(s)
    BY <1>1
  <2>6. ~IsElement(Form(d))
    BY KeyNames DEF IsElement
  <2> HIDE DEF st, n
  <2>7. ASSUME NEW x \in 1 .. n, st(x).do = "save"
        PROVE  /\ st(x).set.status = status /\ "status" \in DOMAIN st(x).set
               /\ \A y \in st(x).rows : st(x).rows = {y}
    BY <2>3, <2>4, <2>7
  <2>8. Reached(s).do = "save"
    BY <1>1, <2>2, <2>3, <2>4, <2>5 DEF Writing
  <2>9. Written(s, k).status = status
    <3>1. Reached(s).set.status = status /\ "status" \in DOMAIN Reached(s).set
      BY <2>2, <2>5, <2>7, <2>8
    <3>2. \E row \in Rows : /\ Reached(s).set \in Columns
                            /\ Written(s, k).status = Over(row, Reached(s).set).status
      BY Writes DEF IInv, WriteEffect
    <3> QED BY <3>1, <3>2, OverRow
  <2>10. st(i).set.status = status
    BY <1>3, <2>2, <2>7 DEF st
  <2>11. CASE j = k
    BY <1>1, <2>9, <2>10, <2>11 DEF st
  <2>12. CASE j # k
    <3>1. i # at[s]
      <4>1. Reached(s).rows = {k}
        BY <1>1, <2>2, <2>5, <2>7, <2>8
      <4> QED BY <1>1, <1>3, <2>12, <4>1
    <3>2. i < at[s]
      BY <1>1, <1>2, <1>3, <2>2, <3>1
    <3>3. /\ Holds(s, j) /\ writes[s][j] # None
          /\ writes[s][j].status = request[s].steps[i].set.status
      BY <1>1, <1>3, <3>2 DEF IInv, Saved
    <3>4. j \in Keys
      BY <3>3 DEF IInv, TypeOK, Holds
    <3> QED BY <2>12, <3>3, <3>4, WriteFacts
  <2> QED BY <2>11, <2>12
<1>4. ASSUME NEW t \in Sessions \ {s}, pc[t] = "running", ~NoElements(request[t]),
             NEW i \in DOMAIN request[t].steps, i < at[t], request[t].steps[i].do = "save",
             NEW j \in request[t].steps[i].rows, Known(j)
      PROVE  /\ Holds(t, j)' /\ writes'[t][j] # None
             /\ writes'[t][j].status = request[t].steps[i].set.status
  BY <1>2, <1>4 DEF IInv, Saved, Holds
<1> QED BY <1>2, <1>3, <1>4 DEF Saved, NoElements

(* A session writes a row: nobody else does, its parents are there and no  *)
(* one is removing them.                                                   *)
LEMMA WriteKeeps ==
  ASSUME IInv, TypeOK', OnlyKnown', NEW s \in Sessions, NEW k \in Target(s), WriteEffect(s, k)
  PROVE  IInv'
<1>1. /\ db' = db /\ pc' = pc /\ request' = request /\ at'[s] = at[s] + 1
      /\ \A t \in Sessions \ {s} : at'[t] = at[t] /\ writes'[t] = writes[t]
      /\ \A j \in DOMAIN writes[s] \ {k} : writes'[s][j] = writes[s][j]
      /\ DOMAIN writes'[s] = DOMAIN writes[s] \cup {k}
  BY DEF WriteEffect
<1>2. NoOrphans' /\ SubmittedIsLocked' /\ SubmissionFiled'
  BY <1>1 DEF IInv, NoOrphans, SubmittedIsLocked, SubmissionFiled, Payload
<1>3. OneWriter'
  <2>1. \A t \in Sessions : \A j \in Keys : Holds(t, j)' <=> Holds(t, j) \/ (t = s /\ j = k)
    BY WriteFacts
  <2>2. \A t \in Sessions \ {s} : ~Holds(t, k)
    BY WriteFacts
  <2> QED BY <2>1, <2>2 DEF IInv, OneWriter
<1>4. ParentsSeen'
  BY WriteKeepsParents
<1>5. DeletedBelow' /\ DeletedFor'
  BY WriteKeepsDeletions
<1>6. RowsHit'
  BY WriteKeepsHits
<1>7. Authors'
  <2>1. writes'[s][k].by = s
    BY WriteFacts
  <2> QED BY <1>1, <2>1 DEF IInv, Authors
<1>8. Named'
  <2>1. /\ at[s] \in DOMAIN request[s].steps /\ Reached(s) = request[s].steps[at[s]]
        /\ Writing(Reached(s)) /\ k \in Reached(s).rows
        /\ request[s].steps \in Seq(Statements) /\ at[s] \in Nat \ {0}
    BY WriteFacts
  <2>2. \A i \in DOMAIN request[s].steps : i <= at[s] => i < at'[s]
    BY <1>1, <2>1
  <2>3. ASSUME NEW j \in DOMAIN writes'[s], writes'[s][j] # None
        PROVE  \E i \in DOMAIN request[s].steps :
                 i < at'[s] /\ Writing(request[s].steps[i]) /\ j \in request[s].steps[i].rows
    <3>1. CASE j = k
      <4>1. at[s] <= at[s]
        BY <2>1
      <4> QED BY <2>1, <2>2, <3>1, <4>1
    <3>2. CASE j # k
      <4>1. PICK i \in DOMAIN request[s].steps :
              i < at[s] /\ Writing(request[s].steps[i]) /\ j \in request[s].steps[i].rows
        BY <1>1, <2>3, <3>2 DEF IInv, Named
      <4>2. i \in Nat
        BY <2>1
      <4> QED BY <2>1, <2>2, <4>1, <4>2
    <3> QED BY <3>1, <3>2
  <2> QED BY <1>1, <2>3 DEF IInv, Named
<1>9. TornRaises'
  BY WriteKeepsLocks
<1>10. Saved'
  BY WriteKeepsSaved
<1>11. AtFirst' /\ Passed'
  <2>1. /\ pc[s] = "running" /\ Reached(s) = request[s].steps[at[s]] /\ Writing(Reached(s))
        /\ request[s].steps \in Seq(Statements) /\ at[s] \in Nat \ {0}
    BY WriteFacts
  <2>2. ASSUME NEW i \in DOMAIN request[s].steps, i < at'[s]
        PROVE  request[s].steps[i].do # "raise"
    <3>1. i < at[s] \/ i = at[s]
      BY <1>1, <2>1, <2>2
    <3> QED BY <2>1, <3>1 DEF IInv, Passed, Writing
  <2>3. AtFirst'
    BY <1>1, <2>1 DEF IInv, AtFirst
  <2> QED BY <1>1, <2>2, <2>3 DEF IInv, Passed
<1> QED BY <1>2, <1>3, <1>4, <1>5, <1>6, <1>7, <1>8, <1>9, <1>10, <1>11 DEF IInv
-----------------------------------------------------------------------------
(* A session removes a row, with all it sees below it.                     *)
LEMMA RemoveFacts ==
  ASSUME IInv, NEW s \in Sessions, NEW k \in Target(s), RemoveEffect(s, k)
  PROVE  /\ k \in Keys /\ pc[s] = "running" /\ at[s] \in DOMAIN request[s].steps
         /\ request[s].steps[at[s]].do = "remove" /\ k \in request[s].steps[at[s]].rows
         /\ k \in RemovedWith(s, k) /\ RemovedWith(s, k) \subseteq Cascade[k]
         /\ Cascade[k] \subseteq Keys
         /\ \A t \in Sessions \ {s} : \A j \in Cascade[k] : ~Holds(t, j)
         /\ \A j \in RemovedWith(s, k) :
              Visible(s, j)' = None /\ Visible(s, j) # None /\ Holds(s, j)' /\ Deletes(s, j)'
         /\ \A j \in Keys \ RemovedWith(s, k) :
              /\ Visible(s, j)' = Visible(s, j) /\ (Holds(s, j)' <=> Holds(s, j))
              /\ Deletes(s, j)' <=> Deletes(s, j)
              /\ j \in Cascade[k] => Visible(s, j) = None
         /\ \A t \in Sessions \ {s} : \A j \in Keys :
              /\ Visible(t, j)' = Visible(t, j) /\ (Holds(t, j)' <=> Holds(t, j))
              /\ Deletes(t, j)' <=> Deletes(t, j)
<1>1. k \in Keys /\ pc[s] = "running" /\ k \in Reached(s).rows /\ at[s] \in DOMAIN request[s].steps
  BY Targets DEF IInv
<1>2. Reached(s) = request[s].steps[at[s]] /\ Reached(s).do = "remove" /\ Runs(s, "remove")
  BY DEF RemoveEffect, Reached, Runs
<1>3. \A t \in Sessions \ {s} : \A j \in Cascade[k] : ~Holds(t, j)
  BY <1>2 DEF RemoveEffect, Blocked, WaitsFor
<1>4. RemovedWith(s, k) = {j \in Cascade[k] : Visible(s, j) # None} /\ Cascade[k] \subseteq Keys
  BY <1>1, CascadeFacts DEF RemovedWith
<1>5. k \in RemovedWith(s, k)
  <2>1. Visible(s, k) # None
    BY <1>2 DEF RemoveEffect, Matches, Inserts
  <2> QED BY <1>1, <1>4, <2>1, CascadeFacts
<1>6. /\ DOMAIN writes'[s] = DOMAIN writes[s] \cup RemovedWith(s, k)
      /\ \A j \in RemovedWith(s, k) : writes'[s][j] = None
      /\ \A j \in DOMAIN writes[s] \ RemovedWith(s, k) : writes'[s][j] = writes[s][j]
      /\ \A t \in Sessions \ {s} : writes'[t] = writes[t]
      /\ db' = db
  BY DEF RemoveEffect
<1>7. \A j \in RemovedWith(s, k) :
        Visible(s, j)' = None /\ Visible(s, j) # None /\ Holds(s, j)' /\ Deletes(s, j)'
  BY <1>4, <1>6 DEF Visible, Holds, Deletes
<1>8. \A j \in Keys \ RemovedWith(s, k) :
        /\ Visible(s, j)' = Visible(s, j) /\ (Holds(s, j)' <=> Holds(s, j))
        /\ Deletes(s, j)' <=> Deletes(s, j)
        /\ j \in Cascade[k] => Visible(s, j) = None
  <2>1. \A j \in Keys \ RemovedWith(s, k) : j \in Cascade[k] => Visible(s, j) = None
    BY <1>4
  <2>2. \A j \in Keys \ RemovedWith(s, k) :
          /\ Visible(s, j)' = Visible(s, j) /\ (Holds(s, j)' <=> Holds(s, j))
          /\ Deletes(s, j)' <=> Deletes(s, j)
    BY <1>6 DEF Visible, Holds, Deletes
  <2> QED BY <2>1, <2>2
<1>9. \A t \in Sessions \ {s} : \A j \in Keys :
        /\ Visible(t, j)' = Visible(t, j) /\ (Holds(t, j)' <=> Holds(t, j))
        /\ Deletes(t, j)' <=> Deletes(t, j)
  BY <1>6 DEF Visible, Holds, Deletes
<1> QED BY <1>1, <1>2, <1>3, <1>4, <1>5, <1>7, <1>8, <1>9

LEMMA RemoveKeepsParents ==
  ASSUME IInv, NEW s \in Sessions, NEW k \in Target(s), RemoveEffect(s, k)
  PROVE  ParentsSeen'
<1>1. ASSUME NEW j \in DOMAIN writes'[s], writes'[s][j] # None
      PROVE  /\ \A p \in Parents[j] : Visible(s, p)' # None
             /\ IsElement(j) => Visible(s, Form(j[2]))'.id = writes'[s][j].form
  <2>1. j \in DOMAIN writes[s] /\ j \notin RemovedWith(s, k) /\ writes'[s][j] = writes[s][j]
    BY <1>1 DEF RemoveEffect
  <2>2. j \in Keys /\ Visible(s, j) # None
    BY <1>1, <2>1 DEF IInv, TypeOK, Visible
  <2>3. ASSUME NEW p \in Parents[j]
        PROVE  Visible(s, p)' = Visible(s, p)
    <3>1. p \in Keys
      BY <2>2, ParentsAreKeys
    <3>2. p \notin RemovedWith(s, k)
      BY <2>1, <2>2, CascadeCloses, RemoveFacts
    <3> QED BY <3>1, <3>2, RemoveFacts
  <2>4. /\ \A p \in Parents[j] : Visible(s, p) # None
        /\ IsElement(j) => Visible(s, Form(j[2])).id = writes[s][j].form
    BY <1>1, <2>1 DEF IInv, ParentsSeen
  <2> QED BY <2>1, <2>2, <2>3, <2>4, ElementParent
<1>2. ASSUME NEW t \in Sessions \ {s}, NEW j \in DOMAIN writes'[t], writes'[t][j] # None
      PROVE  /\ \A p \in Parents[j] : Visible(t, p)' # None
             /\ IsElement(j) => Visible(t, Form(j[2]))'.id = writes'[t][j].form
  <2>1. writes'[t] = writes[t]
    BY DEF RemoveEffect
  <2>2. \A p \in Keys : Visible(t, p)' = Visible(t, p)
    BY RemoveFacts
  <2>3. j \in Keys
    BY <2>1 DEF IInv, TypeOK
  <2>4. /\ \A p \in Parents[j] : Visible(t, p) # None
        /\ IsElement(j) => Visible(t, Form(j[2])).id = writes[t][j].form
    BY <1>2, <2>1 DEF IInv, ParentsSeen
  <2> QED BY <2>1, <2>2, <2>3, <2>4, ParentsAreKeys, ElementParent
<1> QED BY <1>1, <1>2 DEF ParentsSeen

LEMMA RemoveKeepsDeletions ==
  ASSUME IInv, NEW s \in Sessions, NEW k \in Target(s), RemoveEffect(s, k)
  PROVE  DeletedBelow' /\ DeletedFor'
<1>1. DeletedBelow'
  <2>1. ASSUME NEW t \in Sessions, NEW j \in Keys, NEW p \in Parents[j], Deletes(t, p)'
        PROVE  Visible(t, j)' = None /\ \A x \in Sessions \ {t} : ~Holds(x, j)'
    <3>1. p \in Keys
      BY ParentsAreKeys
    <3>2. CASE t = s /\ p \in RemovedWith(s, k)
      <4>1. j \in Cascade[k]
        BY <3>1, <3>2, CascadeCloses, RemoveFacts
      <4> QED BY <3>2, <4>1, RemoveFacts
    <3>3. CASE t = s /\ p \notin RemovedWith(s, k)
      <4>1. Deletes(s, p)
        BY <2>1, <3>1, <3>3, RemoveFacts
      <4>2. Visible(s, j) = None /\ \A x \in Sessions \ {s} : ~Holds(x, j)
        BY <4>1 DEF IInv, DeletedBelow
      <4> QED BY <3>3, <4>2, RemoveFacts
    <3>4. CASE t # s
      <4>1. Deletes(t, p)
        BY <2>1, <3>1, <3>4, RemoveFacts
      <4>2. Visible(t, j) = None /\ \A x \in Sessions \ {t} : ~Holds(x, j)
        BY <4>1 DEF IInv, DeletedBelow
      <4>3. j \notin RemovedWith(s, k)
        <5> SUFFICES ASSUME j \in RemovedWith(s, k) PROVE FALSE
          OBVIOUS
        <5>1. Visible(s, j) # None /\ ~Holds(t, j)
          BY <3>4, RemoveFacts
        <5>2. db[j] # None
          BY <3>4, <4>2, <5>1, Views
        <5> QED BY <4>2, <5>1, <5>2, Views
      <4> QED BY <3>4, <4>2, <4>3, RemoveFacts
    <3> QED BY <3>2, <3>3, <3>4
  <2> QED BY <2>1 DEF DeletedBelow
<1>2. DeletedFor'
  <2>1. ASSUME NEW t \in Sessions, NEW j \in Keys, Deletes(t, j)'
        PROVE  RemovesFirst(t, j) \/ \E p \in Parents[j] : Deletes(t, p)'
    <3>1. CASE t = s /\ j = k
      BY <3>1, RemoveFacts DEF RemovesFirst
    <3>2. CASE t = s /\ j # k /\ j \in RemovedWith(s, k)
      <4>1. j \in Cascade[k] /\ Visible(s, j) # None /\ k \in Keys
        BY <3>2, RemoveFacts
      <4>2. PICK p \in Parents[j] : p \in Cascade[k] /\ p \in Keys
        BY <3>2, <4>1, CascadeParents
      <4>3. Visible(s, p) # None
        BY <4>1, ViewWhole
      <4>4. p \in RemovedWith(s, k)
        BY <4>2, <4>3, RemoveFacts
      <4> QED BY <3>2, <4>4, RemoveFacts
    <3>3. CASE ~(t = s /\ j \in RemovedWith(s, k))
      <4>1. Deletes(t, j)
        BY <2>1, <3>3, RemoveFacts
      <4>2. ASSUME NEW p \in Parents[j], Deletes(t, p)
            PROVE  Deletes(t, p)'
        BY <4>2, ParentsAreKeys, RemoveFacts
      <4> QED BY <4>1, <4>2 DEF IInv, DeletedFor
    <3> QED BY <3>1, <3>2, <3>3
  <2>2. request' = request
    BY DEF RemoveEffect
  <2> QED BY <2>1, <2>2 DEF DeletedFor, RemovesFirst
<1> QED BY <1>1, <1>2

LEMMA RemoveKeeps ==
  ASSUME IInv, TypeOK', OnlyKnown', NEW s \in Sessions, NEW k \in Target(s), RemoveEffect(s, k)
  PROVE  IInv'
<1>1. /\ db' = db /\ pc' = pc /\ request' = request /\ at' = at
      /\ \A t \in Sessions \ {s} : writes'[t] = writes[t] /\ found'[t] = found[t]
  BY DEF RemoveEffect
<1>2. NoOrphans' /\ SubmittedIsLocked' /\ SubmissionFiled' /\ AtFirst' /\ Passed'
  BY <1>1 DEF IInv, NoOrphans, SubmittedIsLocked, SubmissionFiled, Payload, AtFirst, Passed
<1>3. OneWriter'
  <2>1. ASSUME NEW t \in Sessions, NEW j \in Keys, Holds(t, j)'
        PROVE  Holds(t, j) \/ (t = s /\ j \in Cascade[k])
    BY <2>1, RemoveFacts
  <2>2. \A t \in Sessions \ {s} : \A j \in Cascade[k] : ~Holds(t, j)
    BY RemoveFacts
  <2> QED BY <2>1, <2>2 DEF IInv, OneWriter
<1>4. ParentsSeen'
  BY RemoveKeepsParents
<1>5. DeletedBelow' /\ DeletedFor'
  BY RemoveKeepsDeletions
<1>6. \A t \in Sessions : \A j \in DOMAIN writes'[t] : writes'[t][j] # None =>
        j \in DOMAIN writes[t] /\ writes[t][j] = writes'[t][j] /\ ~(t = s /\ j = k)
  <2>1. k \in RemovedWith(s, k)
    BY RemoveFacts
  <2> QED BY <2>1 DEF RemoveEffect
<1>7. RowsHit'
  <2>1. \A t \in Sessions : \A j \in DOMAIN writes'[t] :
          writes'[t][j] # None => Found(t, j)' = Found(t, j)
    BY <1>1, <1>6 DEF Found, RemoveEffect
  <2> QED BY <1>1, <1>6, <2>1 DEF IInv, RowsHit, RemovesFirst
<1>8. Authors' /\ Named'
  BY <1>1, <1>6 DEF IInv, Authors, Named
<1>9. TornRaises'
  BY <1>1, <1>6 DEF IInv, TornRaises, Runs, Reached, Holds
<1>10. Saved'
  <2>1. NoElements(request[s])
    <3> SUFFICES ASSUME ~NoElements(request[s]) PROVE FALSE
      OBVIOUS
    <3>1. /\ at[s] \in DOMAIN request[s].steps /\ request[s].steps[at[s]].do = "remove"
          /\ pc[s] = "running"
      BY RemoveFacts
    <3>2. PICK d \in Documents, status \in Statuses : Files(request[s], d, status)
      BY <3>1, Submits
    <3> QED BY <3>1, <3>2 DEF Files, Failure, Statement, SaveForm, Save
  <2> QED BY <1>1, <2>1 DEF IInv, Saved, Holds, NoElements
<1> QED BY <1>2, <1>3, <1>4, <1>5, <1>7, <1>8, <1>9, <1>10 DEF IInv
-----------------------------------------------------------------------------
(* A session ends. What it commits is what it sees.                        *)
LEMMA LeaveFacts ==
  ASSUME IInv, NEW s \in Sessions, LeaveEffect(s)
  PROVE  /\ \A j \in Keys : ~Holds(s, j)' /\ ~Deletes(s, j)'
         /\ \A t \in Sessions \ {s} : \A j \in Keys :
              /\ (Holds(t, j)' <=> Holds(t, j)) /\ (Deletes(t, j)' <=> Deletes(t, j))
              /\ Visible(t, j)' = IF Holds(t, j) THEN writes[t][j] ELSE db'[j]
BY DEF LeaveEffect, Holds, Deletes, Visible

LEMMA CommitKeepsParents ==
  ASSUME IInv, NEW s \in Sessions, CommitEffect(s)
  PROVE  NoOrphans' /\ ParentsSeen' /\ DeletedBelow'
<1>1. /\ LeaveEffect(s) /\ \A j \in Keys : db'[j] = Visible(s, j)
      /\ DOMAIN writes'[s] = {} /\ \A t \in Sessions \ {s} : writes'[t] = writes[t]
  BY DEF CommitEffect, LeaveEffect
<1>2. NoOrphans'
  <2>1. ASSUME NEW k \in Keys, db'[k] # None
        PROVE  /\ \A p \in Parents[k] : db'[p] # None
               /\ k[1] = "element" => db'[Form(k[2])].id = db'[k].form
    <3>1. Visible(s, k) # None /\ db'[k] = Visible(s, k)
      BY <1>1, <2>1
    <3>2. \A p \in Parents[k] : p \in Keys /\ Visible(s, p) # None
      BY <3>1, ViewWhole, ParentsAreKeys
    <3>3. ASSUME k[1] = "element"
          PROVE  Form(k[2]) \in Keys /\ Visible(s, Form(k[2])).id = Visible(s, k).form
      BY <3>1, <3>3, ViewWhole, ElementParent DEF IsElement
    <3> QED BY <1>1, <3>1, <3>2, <3>3
  <2> QED BY <2>1 DEF NoOrphans
<1>3. ParentsSeen'
  <2>1. ASSUME NEW t \in Sessions \ {s}, NEW j \in DOMAIN writes[t], writes[t][j] # None
        PROVE  /\ \A p \in Parents[j] : Visible(t, p)' # None
               /\ IsElement(j) => Visible(t, Form(j[2]))'.id = writes[t][j].form
    <3>1. j \in Keys /\ Visible(t, j) # None
      BY <2>1 DEF IInv, TypeOK, Visible
    <3>2. /\ \A p \in Parents[j] : Visible(t, p) # None
          /\ IsElement(j) => Visible(t, Form(j[2])).id = writes[t][j].form
      BY <2>1 DEF IInv, ParentsSeen
    <3>3. ASSUME NEW p \in Parents[j]
          PROVE  Visible(t, p)' # None /\ Visible(t, p)'.id = Visible(t, p).id
      <4>1. p \in Keys
        BY <3>1, ParentsAreKeys
      <4>2. CASE Holds(t, p)
        BY <3>2, <4>1, <4>2, Views, LeaveFacts, <1>1
      <4>3. CASE ~Holds(t, p)
        <5>1. db[p] # None /\ Visible(t, p) = db[p]
          BY <3>2, <4>1, <4>3, Views
        <5>2. Visible(t, p)' = Visible(s, p)
          BY <1>1, <4>1, <4>3, LeaveFacts
        <5>3. Holds(t, j)
          BY <2>1 DEF Holds
        <5>4. ~Deletes(s, p)
          BY <3>1, <5>3 DEF IInv, DeletedBelow
        <5>5. Visible(s, p) # None
          BY <5>1, <5>4 DEF Visible, Deletes, Holds
        <5>6. Visible(s, p).id = db[p].id
          BY <3>1, <4>1, <5>1, <5>5, IdentityKept
        <5> QED BY <5>1, <5>2, <5>5, <5>6
      <4> QED BY <4>2, <4>3
    <3> QED BY <3>1, <3>2, <3>3, ElementParent
  <2> QED BY <1>1, <2>1 DEF ParentsSeen
<1>4. DeletedBelow'
  <2>1. ASSUME NEW t \in Sessions, NEW j \in Keys, NEW p \in Parents[j], Deletes(t, p)'
        PROVE  Visible(t, j)' = None /\ \A x \in Sessions \ {t} : ~Holds(x, j)'
    <3>1. p \in Keys
      BY ParentsAreKeys
    <3>2. t # s /\ Deletes(t, p)
      BY <1>1, <2>1, <3>1, LeaveFacts
    <3>3. Visible(t, j) = None /\ \A x \in Sessions \ {t} : ~Holds(x, j)
      BY <3>2 DEF IInv, DeletedBelow
    <3>4. db'[j] = db[j]
      BY <1>1, <3>2, <3>3, Views
    <3>5. Visible(t, j)' = None
      BY <1>1, <3>2, <3>3, <3>4, LeaveFacts, Views
    <3> QED BY <1>1, <3>3, <3>5, LeaveFacts
  <2> QED BY <2>1 DEF DeletedBelow
<1> QED BY <1>2, <1>3, <1>4

(* A submission that is committed has filed its form and its payload, and  *)
(* whatever else is committed touches none of another's.                   *)
LEMMA CommittedSubmission ==
  ASSUME IInv, NEW s \in Sessions, CommitEffect(s), ~NoElements(request[s])
  PROVE  \E d \in Documents, status \in Statuses :
           /\ Holds(s, Form(d)) /\ writes[s][Form(d)] # None /\ writes[s][Form(d)].status = status
           /\ \A i \in DOMAIN request[s].steps :
                /\ request[s].steps[i].do # "remove"
                /\ \A k \in request[s].steps[i].rows :
                     \/ k = Form(d)
                     \/ /\ IsElement(k) /\ k[2] = d
                        /\ Known(k) => /\ Holds(s, k) /\ writes[s][k] # None
                                       /\ writes[s][k].status = status
<1>1. pc[s] = "running" /\ at[s] > Len(request[s].steps) /\ at[s] \in Nat
  BY DEF CommitEffect, LeaveEffect, IInv, TypeOK
<1>2. request[s].steps \in Seq(Statements)
  BY <1>1, Submits
<1>3. PICK d \in Documents, status \in Statuses : Files(request[s], d, status)
  BY <1>1, Submits
<1> DEFINE n == Len(request[s].steps)
           st(x) == request[s].steps[x]
<1>4. n \in Nat /\ DOMAIN request[s].steps = 1 .. n
  BY <1>2
<1>5. \A x \in 1 .. n : x < at[s]
  BY <1>1, <1>4
<1>6. n \in 1 .. n
  <2>1. \E i \in DOMAIN request[s].steps : TRUE
    BY DEF NoElements
  <2> QED BY <1>4, <2>1
<1>7. st(n) = SaveForm(d, status)
  <2>1. st(n) = Failure \/ st(n) = SaveForm(d, status)
    BY <1>3, <1>4, <1>6 DEF Files
  <2>2. st(n).do # "raise"
    BY <1>1, <1>4, <1>5, <1>6 DEF IInv, Passed
  <2> QED BY <2>1, <2>2 DEF Failure, Statement
<1>8. /\ SaveForm(d, status).do = "save" /\ SaveForm(d, status).rows = {Form(d)}
      /\ SaveForm(d, status).set.status = status
  BY DEF SaveForm, Save
<1>9. ASSUME NEW i \in 1 .. n, st(i).do = "save", NEW k \in st(i).rows, Known(k)
      PROVE  Holds(s, k) /\ writes[s][k] # None /\ writes[s][k].status = st(i).set.status
  BY <1>1, <1>4, <1>5, <1>9 DEF IInv, Saved
<1>10. Holds(s, Form(d)) /\ writes[s][Form(d)] # None /\ writes[s][Form(d)].status = status
  <2>1. Known(Form(d))
    BY KeyNames DEF Known
  <2> QED BY <1>6, <1>7, <1>8, <1>9, <2>1
<1>11. ASSUME NEW i \in 1 .. n
       PROVE  /\ st(i).do # "remove"
              /\ \A k \in st(i).rows :
                   \/ k = Form(d)
                   \/ /\ IsElement(k) /\ k[2] = d
                      /\ Known(k) => /\ Holds(s, k) /\ writes[s][k] # None
                                     /\ writes[s][k].status = status
  <2>1. CASE i = n
    BY <1>7, <1>8, <2>1
  <2>2. CASE i # n
    <3>1. /\ st(i).do # "remove"
          /\ \A k \in st(i).rows :
               /\ IsElement(k) /\ k[2] = d
               /\ \E j \in 1 .. n : st(j).do = "save" /\ k \in st(j).rows
      BY <1>3, <1>4, <2>2 DEF Files
    <3>2. ASSUME NEW k \in st(i).rows, Known(k)
          PROVE  Holds(s, k) /\ writes[s][k] # None /\ writes[s][k].status = status
      <4>1. PICK j \in 1 .. n : st(j).do = "save" /\ k \in st(j).rows
        BY <3>1, <3>2
      <4>2. j # n
        <5>1. k # Form(d)
          BY <3>1, <3>2, KeyNames DEF IsElement
        <5> QED BY <1>7, <1>8, <4>1, <5>1
      <4>3. st(j).set = [status |-> status]
        BY <1>3, <1>4, <4>1, <4>2 DEF Files
      <4> QED BY <1>9, <3>2, <4>1, <4>3
    <3> QED BY <3>1, <3>2
  <2> QED BY <2>1, <2>2
<1> QED BY <1>4, <1>10, <1>11

LEMMA CommitKeepsSubmissions ==
  ASSUME IInv, NEW s \in Sessions, CommitEffect(s)
  PROVE  SubmissionFiled'
<1>1. /\ \A j \in Keys : db'[j] = Visible(s, j)
      /\ request' = request /\ pc[s] = "running"
  BY DEF CommitEffect, LeaveEffect
<1>2. ASSUME NEW d \in Documents, db'[Form(d)] # None, db'[Form(d)].by # None,
             NEW k \in Payload(db'[Form(d)].by)
      PROVE  /\ k[2] = d
             /\ Known(k) => /\ db'[k] # None /\ db'[k].by = db'[Form(d)].by
                            /\ db'[k].status = db'[Form(d)].status
  <2> DEFINE F == Form(d)
             x == db'[F].by
  <2>1. F \in Keys /\ F[1] = "form" /\ k \in Keys /\ IsElement(k)
    BY <1>2, KeyNames DEF Payload, IsElement
  <2>2. \E i \in DOMAIN request[x].steps : k \in request[x].steps[i].rows
    BY <1>2 DEF Payload
  <2>3. CASE Holds(s, F)
    <3>1. /\ F \in DOMAIN writes[s] /\ db'[F] = writes[s][F] /\ writes[s][F] # None
          /\ writes[s][F].by = s
      BY <1>1, <1>2, <2>1, <2>3, Views DEF Holds, IInv, Authors
    <3>2. ~NoElements(request[s])
      BY <2>1, <2>2, <3>1 DEF NoElements
    <3>3. PICK e \in Documents, status \in Statuses :
            /\ writes[s][Form(e)].status = status
            /\ \A i \in DOMAIN request[s].steps : \A j \in request[s].steps[i].rows :
                 \/ j = Form(e)
                 \/ /\ IsElement(j) /\ j[2] = e
                    /\ Known(j) => /\ Holds(s, j) /\ writes[s][j] # None
                                   /\ writes[s][j].status = status
      BY <3>2, CommittedSubmission
    <3>4. F = Form(e)
      <4>1. \E i \in DOMAIN request[s].steps : F \in request[s].steps[i].rows
        BY <3>1 DEF IInv, Named
      <4> QED BY <2>1, <3>3, <4>1 DEF IsElement
    <3>5. d = e
      BY <3>4, FormsDiffer
    <3>6. k # Form(e)
      BY <2>1, <3>4 DEF IsElement
    <3>7. /\ k[2] = e
          /\ Known(k) => /\ Holds(s, k) /\ writes[s][k] # None
                         /\ writes[s][k].status = status
      BY <2>2, <3>1, <3>3, <3>6
    <3>8. Known(k) => db'[k] = writes[s][k] /\ writes[s][k].by = s
      BY <1>1, <2>1, <3>7, Views DEF Holds, IInv, Authors
    <3> QED BY <3>1, <3>3, <3>4, <3>5, <3>7, <3>8
  <2>4. CASE ~Holds(s, F)
    <3>1. db'[F] = db[F]
      BY <1>1, <2>1, <2>4, Views
    <3>2. /\ k[2] = d
          /\ Known(k) => db[k] # None /\ db[k].by = x /\ db[k].status = db[F].status
      BY <1>2, <3>1 DEF IInv, SubmissionFiled
    <3>3. ~Holds(s, k)
      <4> SUFFICES ASSUME Holds(s, k) PROVE FALSE
        OBVIOUS
      <4>1. \E i \in DOMAIN request[s].steps : k \in request[s].steps[i].rows
        <5>1. CASE writes[s][k] # None
          BY <5>1 DEF Holds, IInv, Named
        <5>2. CASE writes[s][k] = None
          <6>1. Deletes(s, k)
            BY <5>2 DEF Deletes
          <6>2. Parents[k] = {F}
            BY <2>1, <3>2, ElementParent
          <6>3. RemovesFirst(s, k)
            BY <2>1, <2>4, <6>1, <6>2, Views DEF IInv, DeletedFor
          <6> QED BY <6>3 DEF RemovesFirst
        <5> QED BY <5>1, <5>2
      <4>2. ~NoElements(request[s])
        BY <2>1, <4>1 DEF NoElements
      <4>3. PICK e \in Documents :
              /\ Holds(s, Form(e))
              /\ \A i \in DOMAIN request[s].steps : \A j \in request[s].steps[i].rows :
                   j = Form(e) \/ j[2] = e
        BY <4>2, CommittedSubmission
      <4>4. k # Form(e)
        BY <2>1, <4>3, KeyNames DEF IsElement
      <4>5. d = e
        BY <3>2, <4>1, <4>3, <4>4
      <4> QED BY <2>4, <4>3, <4>5
    <3>4. db'[k] = db[k]
      BY <1>1, <2>1, <3>3, Views
    <3> QED BY <3>1, <3>2, <3>4
  <2> QED BY <2>3, <2>4
<1> QED BY <1>1, <1>2 DEF SubmissionFiled, Payload

LEMMA CommitKeeps ==
  ASSUME IInv, TypeOK', OnlyKnown', NEW s \in Sessions, CommitEffect(s)
  PROVE  IInv'
<1>1. /\ \A j \in Keys : db'[j] = Visible(s, j)
      /\ request' = request /\ pc[s] = "running" /\ pc'[s] = "done" /\ at'[s] = 1
      /\ DOMAIN writes'[s] = {} /\ LeaveEffect(s)
      /\ \A t \in Sessions \ {s} :
           /\ pc'[t] = pc[t] /\ at'[t] = at[t] /\ found'[t] = found[t] /\ writes'[t] = writes[t]
  BY DEF CommitEffect, LeaveEffect
<1>2. NoOrphans' /\ ParentsSeen' /\ DeletedBelow'
  BY CommitKeepsParents
<1>3. OneWriter' /\ DeletedFor'
  <2>1. ASSUME NEW t \in Sessions, NEW j \in Keys
        PROVE  (Holds(t, j)' => Holds(t, j) /\ t # s) /\ (Deletes(t, j)' => Deletes(t, j) /\ t # s)
    BY <1>1, LeaveFacts
  <2>2. OneWriter'
    BY <2>1 DEF IInv, OneWriter
  <2>3. ASSUME NEW t \in Sessions, NEW j \in Keys, Deletes(t, j)'
        PROVE  RemovesFirst(t, j) \/ \E p \in Parents[j] : Deletes(t, p)'
    <3>1. t # s /\ Deletes(t, j)
      BY <2>1, <2>3
    <3>2. \A p \in Parents[j] : Deletes(t, p) => Deletes(t, p)'
      BY <1>1, <3>1, LeaveFacts, ParentsAreKeys
    <3> QED BY <3>1, <3>2 DEF IInv, DeletedFor
  <2> QED BY <1>1, <2>2, <2>3 DEF DeletedFor, RemovesFirst
<1>4. RowsHit'
  <2>1. ASSUME NEW t \in Sessions \ {s}, NEW j \in DOMAIN writes[t]
        PROVE  db'[j] = db[j]
    <3>1. j \in Keys /\ Holds(t, j)
      BY <2>1 DEF IInv, TypeOK, Holds
    <3>2. ~Holds(s, j)
      BY <3>1 DEF IInv, OneWriter
    <3> QED BY <1>1, <3>1, <3>2, Views
  <2> QED BY <1>1, <2>1 DEF IInv, RowsHit, RemovesFirst, Found
<1>5. Authors'
  <2>1. ASSUME NEW k \in Keys, db'[k] # None, NEW x \in {db'[k].id, db'[k].by} \ {None}
        PROVE  pc'[x] = "done"
    <3>1. CASE Holds(s, k)
      <4>1. k \in DOMAIN writes[s] /\ db'[k] = writes[s][k] /\ writes[s][k] # None
        BY <1>1, <2>1, <3>1, Views DEF Holds
      <4>2. writes[s][k].by = s
        BY <4>1 DEF IInv, Authors
      <4>3. writes[s][k].id = s \/ (db[k] # None /\ db[k].id = writes[s][k].id)
        BY <4>1 DEF IInv, RowsHit
      <4>4. x = s \/ (db[k] # None /\ x = db[k].id)
        BY <2>1, <4>1, <4>2, <4>3
      <4>5. CASE x = s
        BY <1>1, <4>5
      <4>6. CASE x # s /\ db[k] # None /\ x = db[k].id
        <5>1. x \in Sessions
          BY <2>1, <4>6 DEF IInv, TypeOK, Rows
        <5>2. pc[x] = "done"
          BY <2>1, <4>6 DEF IInv, Authors
        <5> QED BY <1>1, <4>6, <5>1, <5>2
      <4> QED BY <4>4, <4>5, <4>6
    <3>2. CASE ~Holds(s, k)
      <4>1. db'[k] = db[k]
        BY <1>1, <3>2, Views
      <4>2. pc[x] = "done" /\ x \in Sessions
        BY <2>1, <4>1 DEF IInv, Authors, TypeOK, Rows
      <4> QED BY <1>1, <4>2
    <3> QED BY <3>1, <3>2
  <2>2. \A t \in Sessions : \A k \in DOMAIN writes'[t] :
          writes'[t][k] # None => writes'[t][k].by = t
    BY <1>1 DEF IInv, Authors
  <2> QED BY <2>1, <2>2 DEF Authors
<1>6. Named' /\ Saved' /\ Passed'
  BY <1>1 DEF IInv, Named, Saved, Passed, Holds, NoElements
<1>7. SubmittedIsLocked'
  <2>1. ASSUME NEW d \in Documents, db'[Form(d)] # None
        PROVE  ~Torn(db'[Form(d)])
    <3>1. CASE Holds(s, Form(d))
      <4>1. db'[Form(d)] = writes[s][Form(d)]
        BY <1>1, <3>1, KeyNames, Views
      <4>2. ~Runs(s, "raise")
        <5>1. at[s] > Len(request[s].steps) /\ at[s] \in Nat
          BY DEF CommitEffect, IInv, TypeOK
        <5>2. Len(request[s].steps) \in Nat
          BY <1>1, Reaches DEF IInv
        <5> QED BY <5>1, <5>2 DEF Runs
      <4> QED BY <2>1, <3>1, <4>1, <4>2 DEF IInv, TornRaises
    <3>2. CASE ~Holds(s, Form(d))
      <4>1. db'[Form(d)] = db[Form(d)]
        BY <1>1, <3>2, KeyNames, Views
      <4> QED BY <2>1, <4>1 DEF IInv, SubmittedIsLocked, Torn
    <3> QED BY <3>1, <3>2
  <2> QED BY <2>1 DEF SubmittedIsLocked, Torn
<1>8. TornRaises'
  BY <1>1 DEF IInv, TornRaises, Runs, Reached, Holds
<1>9. AtFirst'
  BY <1>1 DEF IInv, AtFirst
<1>10. SubmissionFiled'
  BY CommitKeepsSubmissions
<1> QED BY <1>2, <1>3, <1>4, <1>5, <1>6, <1>7, <1>8, <1>9, <1>10 DEF IInv

(* A session that fails leaves nothing behind.                             *)
LEMMA FailKeeps ==
  ASSUME IInv, TypeOK', OnlyKnown', NEW s \in Sessions, FailEffect(s)
  PROVE  IInv'
<1>1. /\ db' = db /\ pc[s] = "running" /\ pc'[s] = "failed" /\ at'[s] = 1
      /\ DOMAIN writes'[s] = {} /\ LeaveEffect(s)
      /\ \A t \in Sessions \ {s} :
           /\ pc'[t] = pc[t] /\ request'[t] = request[t] /\ at'[t] = at[t]
           /\ found'[t] = found[t] /\ writes'[t] = writes[t]
  BY DEF FailEffect, LeaveEffect
<1>2. NoOrphans' /\ SubmittedIsLocked'
  BY <1>1 DEF IInv, NoOrphans, SubmittedIsLocked
<1>3. ASSUME NEW t \in Sessions, NEW j \in Keys
      PROVE  /\ Holds(t, j)' <=> Holds(t, j) /\ t # s
             /\ Deletes(t, j)' <=> Deletes(t, j) /\ t # s
             /\ t # s => Visible(t, j)' = Visible(t, j)
  BY <1>1, LeaveFacts, Views
<1>4. OneWriter'
  BY <1>3 DEF IInv, OneWriter
<1>5. ParentsSeen'
  BY <1>1 DEF IInv, ParentsSeen, Visible
<1>6. DeletedBelow'
  BY <1>3, ParentsAreKeys DEF IInv, DeletedBelow
<1>7. DeletedFor'
  <2>1. ASSUME NEW t \in Sessions, NEW j \in Keys, Deletes(t, j)'
        PROVE  RemovesFirst(t, j)' \/ \E p \in Parents[j] : Deletes(t, p)'
    <3>1. t # s /\ Deletes(t, j)
      BY <1>3, <2>1
    <3>2. RemovesFirst(t, j)' <=> RemovesFirst(t, j)
      BY <1>1, <3>1 DEF RemovesFirst
    <3>3. \A p \in Parents[j] : Deletes(t, p) => Deletes(t, p)'
      BY <1>3, <3>1, ParentsAreKeys
    <3> QED BY <3>1, <3>2, <3>3 DEF IInv, DeletedFor
  <2> QED BY <2>1 DEF DeletedFor
<1>8. RowsHit'
  BY <1>1 DEF IInv, RowsHit, RemovesFirst, Found
<1>9. Authors'
  <2>1. \A x \in Sessions : pc[x] = "done" => pc'[x] = "done"
    BY <1>1
  <2>2. \A k \in Keys : db[k] # None => {db[k].id, db[k].by} \subseteq Sessions \cup {None}
    BY DEF IInv, TypeOK, Rows
  <2> QED BY <1>1, <2>1, <2>2 DEF IInv, Authors
<1>10. Named' /\ Saved' /\ Passed' /\ AtFirst'
  BY <1>1 DEF IInv, Named, Saved, Passed, AtFirst, Holds, NoElements
<1>11. TornRaises'
  BY <1>1 DEF IInv, TornRaises, Runs, Reached, Holds
<1>12. SubmissionFiled'
  <2>1. ASSUME NEW d \in Documents, db[Form(d)] # None, db[Form(d)].by # None
        PROVE  request'[db[Form(d)].by] = request[db[Form(d)].by]
    <3>1. db[Form(d)].by \in Sessions
      BY <2>1, KeyNames DEF IInv, TypeOK, Rows
    <3>2. pc[db[Form(d)].by] = "done"
      BY <2>1, <3>1, KeyNames DEF IInv, Authors
    <3> QED BY <1>1, <3>1, <3>2
  <2> QED BY <1>1, <2>1 DEF IInv, SubmissionFiled, Payload
<1> QED BY <1>2, <1>4, <1>5, <1>6, <1>7, <1>8, <1>9, <1>10, <1>11, <1>12 DEF IInv
-----------------------------------------------------------------------------
(* What the registry does not know stays out: nothing is found, so nothing *)
(* is written under such a name.                                           *)
LEMMA OnlyKnownStays ==
  ASSUME TypeOK, OnlyKnown, Next
  PROVE  OnlyKnown'
<1> SUFFICES ASSUME NEW k \in Keys, ~Known(k)
             PROVE  /\ db'[k] = None
                    /\ \A t \in Sessions : /\ Found(t, k)' = None
                                           /\ k \in DOMAIN writes'[t] => writes'[t][k] = None
  BY DEF OnlyKnown
<1>1. /\ db[k] = None
      /\ \A t \in Sessions : /\ Found(t, k) = None /\ Visible(t, k) = None
                             /\ k \in DOMAIN writes[t] => writes[t][k] = None
  BY DEF OnlyKnown, Visible
<1>2. PICK s \in Sessions : \/ \E c \in Menu[s] : BeginEffect(s, c)
                            \/ ReadEffect(s)
                            \/ \E j \in Target(s) : WriteEffect(s, j)
                            \/ \E j \in Target(s) : RemoveEffect(s, j)
                            \/ CommitEffect(s)
                            \/ FailEffect(s)
  BY Actions
<1>3. CASE \E c \in Menu[s] : BeginEffect(s, c)
  BY <1>1, <1>3 DEF BeginEffect, Found
<1>4. CASE ReadEffect(s)
  BY <1>1, <1>4 DEF ReadEffect, Found
<1>5. CASE \E j \in Target(s) : WriteEffect(s, j)
  <2>1. PICK j \in Target(s) : WriteEffect(s, j)
    BY <1>5
  <2>2. j # k
    BY <1>1, <2>1 DEF WriteEffect, Target, Runs
  <2> QED BY <1>1, <2>1, <2>2 DEF WriteEffect, Found
<1>6. CASE \E j \in Target(s) : RemoveEffect(s, j)
  BY <1>1, <1>6 DEF RemoveEffect, Found
<1>7. CASE CommitEffect(s)
  BY <1>1, <1>7 DEF CommitEffect, LeaveEffect, Found
<1>8. CASE FailEffect(s)
  BY <1>1, <1>8 DEF FailEffect, LeaveEffect, Found
<1> QED BY <1>2, <1>3, <1>4, <1>5, <1>6, <1>7, <1>8
-----------------------------------------------------------------------------
(* The theorems.                                                           *)
LEMMA FormsInit == Init => IInv
<1> SUFFICES ASSUME Init PROVE IInv
  OBVIOUS
<1>1. PICK seed \in Seeds, status \in {"draft", "submitted"} :
        db = [k \in Keys |-> IF k \in seed THEN Seeded(k, status) ELSE None]
  BY DEF Init
<1>2. \A s \in Sessions :
        pc[s] = "idle" /\ at[s] = 1 /\ DOMAIN writes[s] = {}
  BY NothingFacts DEF Init
<1>3. /\ seed \subseteq Keys /\ \A k \in seed : Parents[k] \subseteq seed
  BY ParameterAssumption
<1>4. ASSUME NEW k \in Keys
      PROVE  /\ Seeded(k, status) # None /\ Seeded(k, status).id = None
             /\ Seeded(k, status).by = None /\ Seeded(k, status).form = None
             /\ k[1] = "form" => ~Torn(Seeded(k, status))
  <2>1. Seeded(k, status) \in Rows
    BY DEF Seeded, Blank, Rows, Statuses
  <2> QED BY <2>1, ParameterAssumption DEF Seeded, Blank, Torn
<1>5. \A k \in Keys : db[k] # None => k \in seed /\ db[k] = Seeded(k, status)
  BY <1>1
<1>6. \A k \in seed : db[k] = Seeded(k, status) /\ db[k] # None
  BY <1>1, <1>3, <1>4
<1>7. NoOrphans
  <2>1. ASSUME NEW k \in Keys, db[k] # None
        PROVE  /\ \A p \in Parents[k] : db[p] # None
               /\ k[1] = "element" => db[Form(k[2])].id = db[k].form
    <3>1. k \in seed /\ Parents[k] \subseteq seed
      BY <1>3, <1>5, <2>1
    <3>2. k[1] = "element" => Form(k[2]) \in Parents[k]
      BY ElementParent DEF IsElement
    <3> QED BY <1>3, <1>4, <1>6, <3>1, <3>2
  <2> QED BY <2>1 DEF NoOrphans
<1>8. SubmittedIsLocked
  BY <1>4, <1>5, KeyNames DEF SubmittedIsLocked, Torn
<1>9. Authors /\ SubmissionFiled
  BY <1>2, <1>4, <1>5, KeyNames DEF Authors, SubmissionFiled
<1>10. \A s \in Sessions : \A k \in Keys : ~Holds(s, k) /\ ~Deletes(s, k)
  BY <1>2 DEF Holds, Deletes
<1>11. OneWriter /\ ParentsSeen /\ DeletedBelow /\ DeletedFor /\ RowsHit /\ Named /\ TornRaises
  BY <1>2, <1>10, KeyNames, ParentsAreKeys
     DEF OneWriter, ParentsSeen, DeletedBelow, DeletedFor, RowsHit, Named, TornRaises
<1>12. Saved /\ Passed /\ AtFirst
  BY <1>2 DEF Saved, Passed, AtFirst
<1>13. OnlyKnown
  <2>1. \A k \in Keys : ~Known(k) => db[k] = None
    BY <1>5, ParameterAssumption
  <2>2. \A s \in Sessions : DOMAIN found[s] = {}
    BY NothingFacts DEF Init
  <2> QED BY <1>2, <2>1, <2>2 DEF OnlyKnown, Found
<1> QED BY <1>7, <1>8, <1>9, <1>11, <1>12, <1>13, TypeInit DEF IInv

LEMMA FormsSteps == IInv /\ [Next]_vars => IInv'
<1> SUFFICES ASSUME IInv, [Next]_vars PROVE IInv'
  OBVIOUS
<1>1. TypeOK /\ TypeOK'
  BY TypeSteps DEF IInv
<1>2. CASE UNCHANGED vars
  <2>1. db' = db /\ pc' = pc /\ request' = request /\ at' = at /\ found' = found /\ writes' = writes
    BY <1>2 DEF vars
  <2>2. /\ NoOrphans' /\ OneWriter' /\ ParentsSeen' /\ DeletedBelow' /\ DeletedFor' /\ Authors'
    BY <2>1 DEF IInv, NoOrphans, OneWriter, ParentsSeen, DeletedBelow, DeletedFor, Authors,
                Visible, Deletes, Holds, RemovesFirst
  <2>3. RowsHit' /\ Named' /\ SubmittedIsLocked' /\ TornRaises' /\ Saved' /\ Passed' /\ AtFirst'
    BY <2>1 DEF IInv, RowsHit, Named, SubmittedIsLocked, TornRaises, Saved, Passed, AtFirst,
                Holds, RemovesFirst, Found, Runs, Reached, NoElements
  <2>4. SubmissionFiled' /\ OnlyKnown'
    BY <2>1 DEF IInv, SubmissionFiled, Payload, OnlyKnown, Found
  <2> QED BY <1>1, <2>2, <2>3, <2>4 DEF IInv
<1>3. CASE Next
  <2>1. PICK s \in Sessions : \/ \E c \in Menu[s] : BeginEffect(s, c)
                              \/ ReadEffect(s)
                              \/ \E k \in Target(s) : WriteEffect(s, k)
                              \/ \E k \in Target(s) : RemoveEffect(s, k)
                              \/ CommitEffect(s)
                              \/ FailEffect(s)
    BY <1>1, <1>3, Actions
  <2>2. OnlyKnown'
    BY <1>1, <1>3, OnlyKnownStays DEF IInv
  <2> QED BY <1>1, <2>1, <2>2, BeginKeeps, ReadKeeps, WriteKeeps, RemoveKeeps, CommitKeeps, FailKeeps
<1> QED BY <1>2, <1>3

THEOREM FormsInvariant == Spec => []IInv
<1>1. Init => IInv
  BY FormsInit
<1>2. IInv /\ [Next]_vars => IInv'
  BY FormsSteps
<1> QED BY <1>1, <1>2, PTL DEF Spec

(* No committed row is left without the rows it refers to, no element      *)
(* belongs to another form than the one it was made for.                   *)
THEOREM NoRowOrphaned == Spec => []NoOrphans
<1>1. IInv => NoOrphans
  BY DEF IInv
<1> QED BY <1>1, FormsInvariant, PTL

(* A committed form is locked exactly when it is submitted.                *)
THEOREM LockedWhenSubmitted == Spec => []SubmittedIsLocked
<1>1. IInv => SubmittedIsLocked
  BY DEF IInv
<1> QED BY <1>1, FormsInvariant, PTL

(* A form and its elements show one submission, the last, and all of it    *)
(* the registry knows; the names it does not know are nowhere.             *)
THEOREM SubmissionsStayWhole == Spec => []LastSubmissionWhole
<1>1. IInv => LastSubmissionWhole
  BY DEF IInv, SubmissionFiled, OnlyKnown, LastSubmissionWhole, Payload
<1> QED BY <1>1, FormsInvariant, PTL

(* A commit puts its rows where nothing was, or over the very rows the     *)
(* session found.                                                          *)
THEOREM CommitsHitTheirRows == Spec => WritesHitTheirRow
<1>1. IInv /\ [Next]_vars =>
        [\A s \in Sessions : Commits(s) =>
           \A k \in DOMAIN writes[s] : writes[s][k] # None => Replaces(s, k)]_vars
  <2> SUFFICES ASSUME IInv, NEW s \in Sessions, Commits(s),
                      NEW k \in DOMAIN writes[s], writes[s][k] # None
               PROVE  Replaces(s, k)
    OBVIOUS
  <2>1. IF writes[s][k].id = s THEN db[k] = None \/ RemovesFirst(s, k)
        ELSE db[k] # None /\ db[k].id = writes[s][k].id /\ Found(s, k) # None
             /\ Found(s, k).id = db[k].id
    BY DEF IInv, RowsHit
  <2>2. Found(s, k) # None => Found(s, k) = found[s][k]
    BY DEF Found
  <2> QED BY <2>1, <2>2 DEF Replaces
<1> QED BY <1>1, FormsInvariant, PTL DEF Spec, WritesHitTheirRow
=============================================================================

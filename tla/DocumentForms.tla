---------------------------- MODULE DocumentForms ----------------------------
(***************************************************************************)
(* FormAggregate (dform/domain/aggregate.py): collections, documents filed *)
(* in them, their nodes, form submissions and form elements. Every command *)
(* is a domain command of a session (DomainPipeline): its root object is   *)
(* fetched, its statements run one by one with an await between any two,   *)
(* then the session commits; an exception rolls it back.                   *)
(*                                                                         *)
(* An aggregate method is given by the statements it issues. The database  *)
(* is the one of DomainPipeline, with what schema.py adds: unique keys and *)
(* foreign keys that cascade. Orders, titles and contents are left out.    *)
(***************************************************************************)
EXTENDS Naturals, Sequences

CONSTANTS
  Sessions, Documents, Collections, NodeKeys,
  Elements,  \* the names an element may have
  Registered, \* those of the element registry
  Contents,  \* the sequences of nodes a document may be created with
  Payloads,  \* the sequences of elements a form may be submitted with
  Menu,      \* the commands a session may be sent
  Seeds,     \* the sets of rows the database may hold at first
  None

(* A row is named by its unique key (the __table_args__ of schema.py); the *)
(* only form registered has one submission per document.                   *)
Collection(c) == <<"collection", c>>
Document(d)   == <<"document", d>>
Filed(d, c)   == <<"in", d, c>>
Node(d, n)    == <<"node", d, n>>
Form(d)       == <<"form", d>>
Element(d, e) == <<"element", d, e>>
Keys ==
  {Collection(c) : c \in Collections} \cup {Document(d) : d \in Documents}
    \cup {Filed(d, c) : d \in Documents, c \in Collections}
    \cup {Node(d, n) : d \in Documents, n \in NodeKeys}
    \cup {Form(d) : d \in Documents}
    \cup {Element(d, e) : d \in Documents, e \in Elements}

(* The rows a row refers to by a foreign key, and those removed with it.   *)
Parents == [k \in Keys |->
  CASE k[1] = "in" -> {Document(k[2]), Collection(k[3])}
    [] k[1] \in {"node", "form"} -> {Document(k[2])}
    [] k[1] = "element" -> {Form(k[2])}
    [] OTHER -> {}]
DirectOnly == [k \in Keys |-> {k} \cup {j \in Keys : k \in Parents[j]}]
Cascade == [k \in Keys |->
  {k} \cup {j \in Keys : k \in Parents[j] \/ \E p \in Parents[j] : k \in Parents[p]}]

(* The row of a form or an element has a status; a form is locked by it.   *)
Statuses == {"draft", "submitted", "review"}
Rows == [id : Sessions \cup {None}, by : Sessions \cup {None},
         form : Sessions \cup {None}, status : Statuses, locked : BOOLEAN]

(* An element row refers to the registry's entry of its name, so there are *)
(* rows of known elements only (schema.py: elem_reg_id).                   *)
Known(k) == k[1] = "element" => k[3] \in Registered

ASSUME ParameterAssumption ==
  /\ None \notin Sessions /\ None \notin Rows /\ Registered \subseteq Elements
  /\ Contents \subseteq Seq(NodeKeys) /\ Payloads \subseteq Seq(Elements)
  /\ \A seed \in Seeds :
       seed \subseteq Keys /\ \A k \in seed : Known(k) /\ Parents[k] \subseteq seed
-----------------------------------------------------------------------------
(* What a method does: statements, each on some rows, with the columns it  *)
(* sets. "require" raises unless all rows are there, "absent" if one is,   *)
(* "find" remembers them; "insert" adds the row unless it was found,       *)
(* "save" updates it or adds it, but no element of a name the registry     *)
(* lacks; "remove" deletes all that were found.                            *)
Statement(do, rows) == [do |-> do, rows |-> rows, set |-> <<>>]
Save(k, columns)    == [do |-> "save", rows |-> {k}, set |-> columns]
Failure             == Statement("raise", {})
Each(do, q)         == [i \in DOMAIN q |-> Statement(do, {q[i]})]
Command(root, steps) == [root |-> root, steps |-> steps, submits |-> FALSE]

CreateCollection(c) == Command(None, <<Statement("insert", {Collection(c)})>>)
UpdateCollection(c) == Command(Collection(c), <<Save(Collection(c), <<>>)>>)
RemoveCollection(c) ==
  Command(Collection(c), <<Statement("remove", {Collection(c)})>>)

(* Filing a document: the collection must exist, and the document is added *)
(* to it unless it was found there.                                        *)
File(d, c) ==
  <<Statement("require", {Collection(c)}), Statement("find", {Filed(d, c)}),
    Statement("insert", {Filed(d, c)})>>

CreateDocument(d, nodes, c) ==
  Command(None, <<Statement("insert", {Document(d)})>> \o
                Each("insert", [i \in DOMAIN nodes |-> Node(d, nodes[i])]) \o
                IF c = None THEN <<>> ELSE File(d, c))
UpdateDocument(d) == Command(Document(d), <<Save(Document(d), <<>>)>>)
RemoveDocument(d) == Command(Document(d), <<Statement("remove", {Document(d)})>>)

(* The copies of nodes and forms read columns their tables do not have, so *)
(* a document with any of those it is to copy is not copied; for the same  *)
(* reason update_document_node fails when it is given a ctype.             *)
Uncopyable(d, nodes, forms) ==
  (IF nodes THEN {Node(d, n) : n \in NodeKeys} ELSE {})
    \cup (IF forms THEN {Form(d)} ELSE {})
CopyDocument(d, copy, nodes, forms, c) ==
  Command(Document(d), <<Statement("insert", {Document(copy)}),
                         Statement("absent", Uncopyable(d, nodes, forms))>> \o
                       IF c = None THEN <<>> ELSE File(copy, c))

(* Out of one collection or, without a source, out of all; then into the   *)
(* target. Its check comes before the removal.                             *)
SourceOf(d, source) ==
  IF source = None THEN {Filed(d, c) : c \in Collections} ELSE {Filed(d, source)}
MoveDocument(d, source, target) ==
  Command(Document(d),
          <<Statement("require", {Collection(target)})>> \o
          (IF source = None THEN <<>> ELSE <<Statement("require", {Collection(source)})>>) \o
          <<Statement("find", SourceOf(d, source)), Statement("remove", SourceOf(d, source)),
            Statement("find", {Filed(d, target)}), Statement("insert", {Filed(d, target)})>>)
AddToCollection(d, c) ==
  Command(Document(d), <<Statement("require", {Collection(c)}),
                         Statement("absent", {Filed(d, c)}),
                         Statement("insert", {Filed(d, c)})>>)

CreateNode(d, n, parent) ==
  Command(Document(d),
          (IF parent = None THEN <<>> ELSE
             <<Statement("require", {parent})>> \o
             IF parent[2] = d THEN <<>> ELSE <<Failure>>) \o
          <<Statement("insert", {Node(d, n)})>>)
UpdateNode(d, n, ctype) ==
  Command(Node(d, n), <<IF ctype THEN Failure ELSE Save(Node(d, n), <<>>)>>)
RemoveNode(d, n) == Command(Node(d, n), <<Statement("remove", {Node(d, n)})>>)

(* Initial data and the elements of another submission are asked for by a  *)
(* column the table does not have; update_form reads one in its result.    *)
InitializeForm(d, prefilled) ==
  Command(Document(d), <<Statement("absent", {Form(d)}), Statement("insert", {Form(d)})>> \o
                       IF prefilled THEN <<Failure>> ELSE <<>>)
UpdateSucceeds(d, status) == Command(Form(d), <<Save(Form(d), [status |-> status])>>)
UpdateForm(d, status) ==
  Command(Form(d), <<Save(Form(d), [status |-> status]), Failure>>)
RemoveForm(d) == Command(Form(d), <<Statement("remove", {Form(d)})>>)

(* Each element of the payload is looked up: one that is there is updated, *)
(* another added if the registry has its name, else passed over. Then the  *)
(* form is saved; with `replace` it fails before that.                     *)
AddElement(d, e, status) ==
  <<Statement("find", {Element(d, e)}), Statement("insert", {Element(d, e)})>>
SaveElement(d, e, status) ==
  <<Statement("find", {Element(d, e)}), Save(Element(d, e), [status |-> status])>>
SaveForm(d, status) ==
  Save(Form(d), [status |-> status, locked |-> status = "submitted"])
SubmitForm(d, payload, status, replace) ==
  LET step(i) == SaveElement(d, payload[(i + 1) \div 2], status)[2 - (i % 2)]
  IN [Command(Form(d), [i \in 1 .. 2 * Len(payload) |-> step(i)] \o
                       <<IF replace THEN Failure ELSE SaveForm(d, status)>>)
      EXCEPT !.submits = TRUE]

(* Whatever a session is sent, one of these methods answers.               *)
Methods ==
  {CreateCollection(c) : c \in Collections} \cup {UpdateCollection(c) : c \in Collections}
    \cup {RemoveCollection(c) : c \in Collections}
    \cup {CreateDocument(d, nodes, c) :
            d \in Documents, nodes \in Contents, c \in Collections \cup {None}}
    \cup {UpdateDocument(d) : d \in Documents} \cup {RemoveDocument(d) : d \in Documents}
    \cup {CopyDocument(d, copy, nodes, forms, c) : d \in Documents, copy \in Documents,
            nodes \in BOOLEAN, forms \in BOOLEAN, c \in Collections \cup {None}}
    \cup {MoveDocument(d, source, target) :
            d \in Documents, source \in Collections \cup {None}, target \in Collections}
    \cup {AddToCollection(d, c) : d \in Documents, c \in Collections}
    \cup {CreateNode(d, n, parent) : d \in Documents, n \in NodeKeys,
            parent \in {None} \cup {Node(e, m) : e \in Documents, m \in NodeKeys}}
    \cup {UpdateNode(d, n, ctype) : d \in Documents, n \in NodeKeys, ctype \in BOOLEAN}
    \cup {RemoveNode(d, n) : d \in Documents, n \in NodeKeys}
    \cup {InitializeForm(d, prefilled) : d \in Documents, prefilled \in BOOLEAN}
    \cup {RemoveForm(d) : d \in Documents}
    \cup {UpdateForm(d, status) : d \in Documents, status \in Statuses}
    \cup {SubmitForm(d, payload, status, replace) : d \in Documents,
            payload \in Payloads, status \in Statuses, replace \in BOOLEAN}
ASSUME MenuAssumption == \A s \in Sessions : Menu[s] \subseteq Methods
-----------------------------------------------------------------------------
VARIABLES
  db,      \* committed rows
  pc,      \* per session: idle, running, done or failed
  request, \* per session: its command
  at,      \* per session: the number of the statement it has reached
  found,   \* per session: rows its root object and queries gave it
  writes   \* per session: uncommitted rows
vars == <<db, pc, request, at, found, writes>>

Put(f, s, x) == [f EXCEPT ![s] = x]
Over(f, g)   == [k \in DOMAIN f \cup DOMAIN g |-> IF k \in DOMAIN g THEN g[k] ELSE f[k]]
Nothing      == [k \in {} |-> None]

(* `id` and `by` are the sessions that inserted and last wrote the row,    *)
(* `form` the id of the form an element belongs to.                        *)
Blank(s, form) ==
  [id |-> s, by |-> s, form |-> form, status |-> "draft", locked |-> FALSE]
Seeded(k, status) ==
  IF k[1] \in {"form", "element"}
    THEN [Blank(None, None) EXCEPT !.status = status,
                                   !.locked = (k[1] = "form" /\ status = "submitted")]
    ELSE Blank(None, None)

Init ==
  /\ \E seed \in Seeds, status \in {"draft", "submitted"} :
       db = [k \in Keys |-> IF k \in seed THEN Seeded(k, status) ELSE None]
  /\ pc = [s \in Sessions |-> "idle"] /\ at = [s \in Sessions |-> 1]
  /\ request = [s \in Sessions |-> None]
  /\ found = [s \in Sessions |-> Nothing] /\ writes = [s \in Sessions |-> Nothing]

Visible(s, k) == IF k \in DOMAIN writes[s] THEN writes[s][k] ELSE db[k]
Found(s, k)   == IF k \in DOMAIN found[s] THEN found[s][k] ELSE None
Reached(s)    == request[s].steps[at[s]]
Runs(s, do)   == pc[s] = "running" /\ at[s] <= Len(request[s].steps) /\ Reached(s).do = do
GoesOn(s)     == at' = Put(at, s, at[s] + 1) /\ UNCHANGED <<db, pc, request>>

(* fetch_command_rootobj; a form is submitted unless it is locked and not  *)
(* a draft, which is decided on the root object as it was fetched.         *)
Editable(row) == ~(row.locked /\ row.status # "draft")
Accepts(c, row) == row # None /\ (c.submits => Editable(row))
Begin(s, c) ==
  /\ pc[s] = "idle" /\ pc' = Put(pc, s, "running")
  /\ request' = Put(request, s, c)
  /\ \/ c.root = None /\ UNCHANGED found
     \/ /\ c.root # None /\ Accepts(c, db[c.root])
        /\ found' = Put(found, s, [k \in {c.root} |-> db[c.root]])
  /\ UNCHANGED <<db, at, writes>>
-----------------------------------------------------------------------------
(* Queries see what is committed now under the session's own writes.       *)
Remember(s) ==
  found' = Put(found, s, Over(found[s], [k \in Reached(s).rows |-> Visible(s, k)]))
Require(s) ==
  /\ Runs(s, "require") /\ \A k \in Reached(s).rows : Visible(s, k) # None
  /\ GoesOn(s) /\ UNCHANGED <<found, writes>>
CheckAbsent(s) ==
  /\ Runs(s, "absent") /\ \A k \in Reached(s).rows : Visible(s, k) = None
  /\ GoesOn(s) /\ UNCHANGED <<found, writes>>
Find(s) ==
  /\ Runs(s, "find") /\ Remember(s) /\ GoesOn(s) /\ UNCHANGED writes

(* The row the statement writes, or none: nothing is inserted when the row *)
(* was found or the registry does not know it, nothing removed when none   *)
(* was found.                                                              *)
Target(s) ==
  IF Runs(s, "insert") THEN {k \in Reached(s).rows : Found(s, k) = None /\ Known(k)}
  ELSE IF Runs(s, "save") THEN {k \in Reached(s).rows : Found(s, k) # None \/ Known(k)}
  ELSE IF Runs(s, "remove") THEN {k \in Reached(s).rows : Found(s, k) # None}
  ELSE {}
Inserts(s, k) == ~Runs(s, "remove") /\ Found(s, k) = None

(* Rows another session has written and not committed are waited for: the  *)
(* row itself; its parents, when they are being removed, by an insert; the *)
(* rows below it by a removal.                                             *)
Holds(t, k)     == k \in DOMAIN writes[t]
Deletes(t, k)   == Holds(t, k) /\ writes[t][k] = None
WaitsFor(s, k, t) ==
  \/ Holds(t, k)
  \/ Inserts(s, k) /\ \E p \in Parents[k] : Deletes(t, p)
  \/ Runs(s, "remove") /\ \E j \in Cascade[k] : Holds(t, j)
Blocked(s, k) == \E t \in Sessions \ {s} : WaitsFor(s, k, t)

(* An insert needs its key free and its parents there, an update or a      *)
(* removal the very row that was found.                                    *)
FormId(s, k) == IF k[1] = "element" THEN Found(s, Form(k[2])).id ELSE None
SameForm(s, k) == k[1] = "element" => Visible(s, Form(k[2])).id = FormId(s, k)
References(s, k) == (\A p \in Parents[k] : Visible(s, p) # None) /\ SameForm(s, k)
MatchesKey(s, k) ==
  IF Inserts(s, k) THEN Visible(s, k) = None /\ References(s, k) ELSE Visible(s, k) # None
Matches(s, k) ==
  IF Inserts(s, k) THEN Visible(s, k) = None /\ References(s, k)
  ELSE Visible(s, k) # None /\ Visible(s, k).id = Found(s, k).id

Written(s, k) ==
  LET row == IF Inserts(s, k) THEN Blank(s, FormId(s, k)) ELSE Visible(s, k)
  IN [Over(row, Reached(s).set) EXCEPT !.by = s]
Write(s) ==
  \E k \in Target(s) :
    /\ Runs(s, "insert") \/ Runs(s, "save")
    /\ ~Blocked(s, k) /\ Matches(s, k)
    /\ writes' = Put(writes, s, Over(writes[s], [j \in {k} |-> Written(s, k)]))
    /\ GoesOn(s) /\ UNCHANGED found

(* One row after the other, each with what refers to it.                   *)
RemovedWith(s, k) == {j \in Cascade[k] : Visible(s, j) # None}
Remove(s) ==
  \E k \in Target(s) :
    /\ Runs(s, "remove") /\ ~Blocked(s, k) /\ Matches(s, k)
    /\ writes' = Put(writes, s, Over(writes[s], [j \in RemovedWith(s, k) |-> None]))
    /\ found' = Put(found, s, Over(found[s], [j \in {k} |-> None]))
    /\ UNCHANGED <<db, pc, request, at>>

Skip(s) ==
  /\ Runs(s, "insert") \/ Runs(s, "save") \/ Runs(s, "remove")
  /\ Target(s) = {} /\ GoesOn(s) /\ UNCHANGED <<found, writes>>

LeaveOpen(s) ==
  UNCHANGED writes /\ found' = Put(found, s, Nothing) /\ at' = Put(at, s, 1)
Leave(s) ==
  writes' = Put(writes, s, Nothing) /\ found' = Put(found, s, Nothing) /\ at' = Put(at, s, 1)
Commit(s) ==
  /\ pc[s] = "running" /\ at[s] > Len(request[s].steps)
  /\ pc' = Put(pc, s, "done")
  /\ db' = Over(db, writes[s]) /\ Leave(s) /\ UNCHANGED request

(* An exception rolls the session back. It may come from anything awaited; *)
(* the method raises its own, and the data layer those of a write without  *)
(* a match and of sessions that wait for each other.                       *)
Fail(s) ==
  /\ pc' = Put(pc, s, "failed") /\ request' = Put(request, s, None)
  /\ Leave(s) /\ UNCHANGED db
Raise(s) == pc[s] = "running" /\ Fail(s)

CheckFails(s) ==
  \/ Runs(s, "raise")
  \/ Runs(s, "require") /\ \E k \in Reached(s).rows : Visible(s, k) = None
  \/ Runs(s, "absent") /\ \E k \in Reached(s).rows : Visible(s, k) # None
Unmatched(s) == \E k \in Target(s) : ~Blocked(s, k) /\ ~Matches(s, k)
Deadlocked(s) ==
  \E waiting \in SUBSET Sessions :
    /\ s \in waiting
    /\ \A t \in waiting : \E k \in Target(t), u \in waiting \ {t} : WaitsFor(t, k, u)
Refuse(s) ==
  /\ CheckFails(s) \/ Unmatched(s) \/ Deadlocked(s)
  /\ Fail(s)

Step(s) == \/ Require(s) \/ CheckAbsent(s) \/ Find(s) \/ Write(s) \/ Remove(s)
           \/ Skip(s) \/ Commit(s) \/ Refuse(s)
Next == \E s \in Sessions : (\E c \in Menu[s] : Begin(s, c)) \/ Step(s) \/ Raise(s)
Spec == Init /\ [][Next]_vars
-----------------------------------------------------------------------------
(* Only a running session has uncommitted writes.                          *)
TypeOK ==
  /\ db \in [Keys -> Rows \cup {None}]
  /\ pc \in [Sessions -> {"idle", "running", "done", "failed"}]
  /\ at \in [Sessions -> Nat \ {0}]
  /\ DOMAIN request = Sessions /\ DOMAIN found = Sessions /\ DOMAIN writes = Sessions
  /\ \A s \in Sessions :
       /\ pc[s] \in {"running", "done"} => request[s] \in Menu[s]
       /\ \A f \in {found[s], writes[s]} :
            DOMAIN f \subseteq Keys /\ \A k \in DOMAIN f : f[k] \in Rows \cup {None}
       /\ pc[s] # "running" => DOMAIN writes[s] = {}

(* No committed row refers to a row that is not there, an element to no    *)
(* other form than its own, although a document, collection or form may be *)
(* removed between a command's checks and its insert (schema.py: foreign   *)
(* keys, ondelete CASCADE).                                                *)
NoOrphans ==
  \A k \in Keys : db[k] # None =>
    /\ \A p \in Parents[k] : db[p] # None
    /\ k[1] = "element" => db[Form(k[2])].id = db[k].form

(* A form is locked exactly when it is submitted: what submit_form sets    *)
(* together, no other command tears apart.                                 *)
SubmittedIsLocked ==
  \A d \in Documents : LET form == db[Form(d)] IN
    form # None => (form.locked <=> form.status = "submitted")

(* A form shows one submission, the last one: every registered element of  *)
(* its payload has the data and status of that submission, never of        *)
(* another one that ran at the same time, and the rest of the payload was  *)
(* dropped, by this submission and every other (submit_form).              *)
Payload(s) ==
  {k \in Keys : k[1] = "element" /\ \E i \in DOMAIN request[s].steps :
                  k \in request[s].steps[i].rows}
LastSubmissionWhole ==
  \A d \in Documents : LET form == db[Form(d)] IN
    form # None /\ form.by # None =>
      \A k \in Payload(form.by) :
        IF Known(k) THEN db[k] # None /\ db[k].by = form.by /\ db[k].status = form.status
        ELSE db[k] = None

(* What a session commits are the rows it read: those it inserted were     *)
(* not there, unless it removed them itself; those it updated are the ones *)
(* it found and no successor of the same key (rows are matched by _id,     *)
(* keys are unique).                                                       *)
Commits(s) == pc[s] = "running" /\ pc'[s] = "done"
RemovesFirst(s, k) ==
  \E i \in DOMAIN request[s].steps :
    request[s].steps[i].do = "remove" /\ k \in request[s].steps[i].rows
Replaces(s, k) ==
  IF writes[s][k].id = s THEN db[k] = None \/ RemovesFirst(s, k)
  ELSE db[k] # None /\ db[k].id = writes[s][k].id /\ found[s][k].id = db[k].id
WritesHitTheirRow ==
  [][\A s \in Sessions : Commits(s) =>
       \A k \in DOMAIN writes[s] : writes[s][k] # None => Replaces(s, k)]_vars
-----------------------------------------------------------------------------
(* dform/domain/command.py:164: "Move a document from one collection to    *)
(* another". When a move commits, the document is in some collection,      *)
(* unless it or the target was removed meanwhile.                          *)
Moves(s, d, to) ==
  \E source \in Collections \cup {None} : request[s] = MoveDocument(d, source, to)
MovedDocumentStaysFiled ==
  [][\A s \in Sessions, d \in Documents, to \in Collections :
       /\ Commits(s) /\ Moves(s, d, to)
       /\ db'[Document(d)] # None /\ db'[Collection(to)] # None
       => \E c \in Collections : db'[Filed(d, c)] # None]_vars
=============================================================================

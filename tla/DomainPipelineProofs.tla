------------------------ MODULE DomainPipelineProofs ------------------------
(***************************************************************************)
(* DomainPipeline for all sessions, rows and batches: its types; that the  *)
(* log explains every committed row (IInv); the life of a row (RowInv);    *)
(* and the delivery of events and messages (OrderInv, LoggedInv).          *)
(***************************************************************************)
EXTENDS DomainPipeline, SequenceTheorems, TLAPS

USE ParameterAssumption DEF session, buffers, queues, shared, Put

Commanding == {"handler", "writing"}

(* Where the history of an uncommitted write is: its event still with the  *)
(* aggregate, logged by the transaction, or committed to the log.          *)
Explained(e, s) ==
  IF pc[s] = "outer" THEN {e, CommandOf(e)} \subseteq log
  ELSE e \in logged[s] \cup Members(acts[s]) /\ CommandOf(e) \in logged[s]

WritesExplainedOf(s) ==
  /\ pc[s] \in {"idle", "loaded", "command", "inner"} => acts[s] = <<>>
  /\ pc[s] \in Commanding => /\ Command(s) \in logged[s]
                             /\ \A e \in Members(acts[s]) : CommandOf(e) = Command(s)
  /\ pc[s] = "outer" => logged[s] = {}
  /\ \A r \in DOMAIN writes[s] : Explained(writes[s][r].etag, s)
WritesExplained == \A s \in Sessions : WritesExplainedOf(s)

IInv == TypeOK /\ LogCoversState /\ WritesExplained
-----------------------------------------------------------------------------
LEMMA MembersAppend ==
  ASSUME NEW S, NEW q \in Seq(S), NEW x \in S
  PROVE  Members(Append(q, x)) = Members(q) \cup {x}
<1>1. /\ DOMAIN Append(q, x) = DOMAIN q \cup {Len(q) + 1}
      /\ \A i \in DOMAIN q : Append(q, x)[i] = q[i]
      /\ Append(q, x)[Len(q) + 1] = x
  BY AppendProperties
<1>2. Members(Append(q, x)) \subseteq Members(q) \cup {x}
  BY <1>1 DEF Members
<1>3. Members(q) \cup {x} \subseteq Members(Append(q, x))
  BY <1>1 DEF Members
<1> QED BY <1>2, <1>3

LEMMA InitInv == Init => IInv
<1> SUFFICES ASSUME Init PROVE IInv
  OBVIOUS
<1>1. TypeOK
  BY DEF Init, TypeOK, Versions, Absent, NoWrites, Places, InTransaction
<1>2. LogCoversState
  BY DEF Init, LogCoversState, Absent
<1>3. WritesExplained
  BY DEF Init, WritesExplained, WritesExplainedOf, NoWrites, Commanding
<1> QED BY <1>1, <1>2, <1>3 DEF IInv
LEMMA TypeFacts ==
  ASSUME TypeOK, NEW s \in Sessions
  PROVE  /\ RowOf(s) \in Rows /\ at[s] \in Nat
         /\ \A n \in Nat : <<s, at[s], n>> \in Entries
         /\ Command(s) \in Entries /\ Command(s) = <<s, at[s], 0>>
         /\ \A r \in Rows : Visible(s, r) \in Versions
         /\ \A v \in Versions : v.etag \in Entries \cup {None}
<1>1. batch[s] \in Seq(Kinds \X Rows) /\ at[s] \in DOMAIN batch[s] /\ at[s] \in Nat
  BY DEF TypeOK
<1>2. batch[s][at[s]] \in Kinds \X Rows
  BY <1>1
<1>3. RowOf(s) \in Rows
  BY <1>2 DEF RowOf
<1>4. \A n \in Nat : <<s, at[s], n>> \in Entries
  BY <1>1 DEF Entries
<1>5. \A r \in Rows : Visible(s, r) \in Versions
  BY DEF Visible, TypeOK
<1> QED BY <1>1, <1>3, <1>4, <1>5 DEF Command, Versions

(* What the other sessions have written stays explained: the log grows.    *)
LEMMA Others ==
  ASSUME IInv, NEW s \in Sessions, log \subseteq log',
         \A t \in Sessions \ {s} :
           /\ pc'[t] = pc[t] /\ at'[t] = at[t] /\ acts'[t] = acts[t]
           /\ writes'[t] = writes[t] /\ logged'[t] = logged[t],
         WritesExplainedOf(s)'
  PROVE  WritesExplained'
<1> SUFFICES ASSUME NEW t \in Sessions, t # s PROVE WritesExplainedOf(t)'
  BY DEF WritesExplained
<1>1. /\ pc'[t] = pc[t] /\ at'[t] = at[t] /\ acts'[t] = acts[t]
      /\ writes'[t] = writes[t] /\ logged'[t] = logged[t]
  OBVIOUS
<1>2. WritesExplainedOf(t)
  BY DEF IInv, WritesExplained
<1>3. Command(t)' = Command(t) /\ Members(acts[t])' = Members(acts[t])
  BY <1>1 DEF Command, Members
<1>4. pc'[t] \in {"idle", "loaded", "command", "inner"} => acts'[t] = <<>>
  BY <1>1, <1>2 DEF WritesExplainedOf
<1>5. pc'[t] \in Commanding =>
        /\ Command(t)' \in logged'[t]
        /\ \A e \in Members(acts[t])' : CommandOf(e) = Command(t)'
  <2>1. pc[t] \in Commanding =>
          /\ Command(t) \in logged[t] /\ \A e \in Members(acts[t]) : CommandOf(e) = Command(t)
    BY <1>2 DEF WritesExplainedOf
  <2> QED BY <1>1, <1>3, <2>1
<1>6. pc'[t] = "outer" => logged'[t] = {}
  BY <1>1, <1>2 DEF WritesExplainedOf
<1>7. \A r \in DOMAIN writes'[t] : Explained(writes[t][r].etag, t)'
  <2>1. \A r \in DOMAIN writes[t] : Explained(writes[t][r].etag, t)
    BY <1>2 DEF WritesExplainedOf
  <2> QED BY <1>1, <1>3, <2>1 DEF Explained, CommandOf
<1> QED BY <1>4, <1>5, <1>6, <1>7 DEF WritesExplainedOf, CommandOf

(* A session that only moves on in the pipeline.                           *)
LEMMA MovesOn ==
  ASSUME IInv, NEW s \in Sessions, UNCHANGED <<at, acts, writes, logged, log>>,
         pc'[s] \in Commanding => pc[s] \in Commanding,
         pc'[s] \in {"idle", "loaded", "command", "inner"}
           => pc[s] \in {"idle", "loaded", "command", "inner"},
         pc'[s] = "outer" <=> pc[s] = "outer"
  PROVE  WritesExplainedOf(s)'
<1>1. WritesExplainedOf(s)
  BY DEF IInv, WritesExplained
<1>2. \A e : Explained(e, s) => Explained(e, s)'
  BY DEF Explained, CommandOf, Members
<1>3. Command(s)' = Command(s) /\ Members(acts[s])' = Members(acts[s])
  BY DEF Command, Members
<1>4. /\ pc'[s] \in {"idle", "loaded", "command", "inner"} => acts'[s] = <<>>
      /\ pc'[s] = "outer" => logged'[s] = {}
      /\ \A r \in DOMAIN writes'[s] : Explained(writes[s][r].etag, s)
  BY <1>1 DEF WritesExplainedOf
<1>5. pc'[s] \in Commanding =>
        /\ Command(s) \in logged[s] /\ \A e \in Members(acts[s]) : CommandOf(e) = Command(s)
  BY <1>1 DEF WritesExplainedOf
<1>6. \A r \in DOMAIN writes'[s] : Explained(writes[s][r].etag, s)'
  BY <1>2, <1>4 DEF Explained, CommandOf, Members
<1>7. pc'[s] \in Commanding =>
        /\ Command(s)' \in logged'[s]
        /\ \A e \in Members(acts[s])' : CommandOf(e) = Command(s)'
  BY <1>3, <1>5
<1> QED BY <1>4, <1>6, <1>7 DEF WritesExplainedOf, CommandOf

LEMMA Ended ==
  ASSUME NEW s \in Sessions, pc'[s] \in {"deliver", "failed"}, DOMAIN writes'[s] = {}
  PROVE  WritesExplainedOf(s)'
BY DEF WritesExplainedOf, Commanding

LEMMA ClientLoadsStep == ASSUME IInv, NEW s \in Sessions, ClientLoads(s) PROVE IInv'
<1>1. TypeOK'
  BY TypeFacts DEF IInv, TypeOK, ClientLoads, Places, InTransaction
<1>2. LogCoversState'
  BY DEF IInv, TypeOK, LogCoversState, WritesExplained, WritesExplainedOf, Explained,
         ClientLoads
<1>3. WritesExplainedOf(s)'
  BY MovesOn DEF IInv, TypeOK, Commanding, ClientLoads
<1>4. WritesExplained'
  BY <1>3, Others DEF IInv, TypeOK, ClientLoads
<1> QED BY <1>1, <1>2, <1>4 DEF IInv

LEMMA OpenStep == ASSUME IInv, NEW s \in Sessions, Open(s) PROVE IInv'
<1>1. TypeOK'
  BY TypeFacts DEF IInv, TypeOK, Open, Places, InTransaction
<1>2. LogCoversState'
  BY DEF IInv, TypeOK, LogCoversState, WritesExplained, WritesExplainedOf, Explained,
         Open
<1>3. WritesExplainedOf(s)'
  BY MovesOn DEF IInv, TypeOK, Commanding, Open
<1>4. WritesExplained'
  BY <1>3, Others DEF IInv, TypeOK, Open
<1> QED BY <1>1, <1>2, <1>4 DEF IInv

LEMMA BeginCommandStep == ASSUME IInv, NEW s \in Sessions, BeginCommand(s) PROVE IInv'
<1>1. TypeOK'
  BY TypeFacts DEF IInv, TypeOK, BeginCommand, Places, InTransaction, RootObject
<1>2. LogCoversState'
  BY DEF IInv, TypeOK, LogCoversState, WritesExplained, WritesExplainedOf, Explained,
         BeginCommand, RootObject
<1>3. WritesExplainedOf(s)'
  <2>1. /\ pc[s] = "command" /\ pc'[s] = "handler" /\ acts' = acts /\ acts[s] = <<>>
        /\ at' = at /\ writes' = writes /\ logged'[s] = logged[s] \cup {Command(s)}
    BY DEF BeginCommand, IInv, TypeOK, WritesExplained, WritesExplainedOf
  <2>2. \A r \in DOMAIN writes[s] :
          writes[s][r].etag \in logged[s] /\ CommandOf(writes[s][r].etag) \in logged[s]
    BY <2>1 DEF IInv, WritesExplained, WritesExplainedOf, Explained, Members
  <2> QED BY <2>1, <2>2 DEF WritesExplainedOf, Explained, Members, Command, CommandOf
<1>4. WritesExplained'
  BY <1>3, Others DEF IInv, TypeOK, BeginCommand, RootObject
<1> QED BY <1>1, <1>2, <1>4 DEF IInv

LEMMA IssueWriteStep == ASSUME IInv, NEW s \in Sessions, IssueWrite(s) PROVE IInv'
<1>1. TypeOK'
  BY TypeFacts DEF IInv, TypeOK, IssueWrite, Places, InTransaction
<1>2. LogCoversState'
  BY DEF IInv, TypeOK, LogCoversState, WritesExplained, WritesExplainedOf, Explained,
         IssueWrite
<1>3. WritesExplainedOf(s)'
  BY MovesOn DEF IInv, TypeOK, Commanding, IssueWrite
<1>4. WritesExplained'
  BY <1>3, Others DEF IInv, TypeOK, IssueWrite
<1> QED BY <1>1, <1>2, <1>4 DEF IInv

LEMMA WriteStep == ASSUME IInv, NEW s \in Sessions, Write(s) PROVE IInv'
<1>0. /\ RowOf(s) \in Rows /\ Len(acts[s]) + 1 \in Nat
      /\ Written(s).etag = <<s, at[s], Len(acts[s]) + 1>> /\ Written(s).etag \in Entries
      /\ Written(s) \in Versions
  <2>1. TypeOK /\ Len(acts[s]) \in Nat
    BY DEF IInv, TypeOK
  <2>2. RowOf(s) \in Rows /\ <<s, at[s], Len(acts[s]) + 1>> \in Entries
    BY <2>1, TypeFacts
  <2>3. /\ Written(s).etag = <<s, at[s], Len(acts[s]) + 1>>
        /\ Written(s).status \in {"deleted", "live"}
        /\ Written(s) = [status |-> Written(s).status, etag |-> Written(s).etag]
    BY DEF Written
  <2> QED BY <2>1, <2>2, <2>3 DEF Versions
<1>a. Append(acts[s], Written(s).etag) \in Seq(Entries)
  BY <1>0, AppendProperties DEF IInv, TypeOK
<1>b. /\ DOMAIN writes' = Sessions
      /\ \A t \in Sessions : /\ DOMAIN writes'[t] \subseteq Rows
                              /\ \A r \in DOMAIN writes'[t] : writes'[t][r] \in Versions
  BY <1>0 DEF Write, IInv, TypeOK
<1>c. \A t \in Sessions : t # s => writes'[t] = writes[t]
  BY DEF Write, IInv, TypeOK
<1>d. /\ acts' \in [Sessions -> Seq(Entries)] /\ pc' \in [Sessions -> Places]
      /\ \A t \in Sessions : InTransaction(t)' = InTransaction(t)
      /\ InTransaction(s) /\ UNCHANGED <<batch, at, seen, root, logged, queues, shared>>
  BY <1>a DEF Write, IInv, TypeOK, Places, InTransaction
<1>1. TypeOK'
  <2>1. /\ rows' \in [Rows -> Versions] /\ log' \subseteq Entries
        /\ handled' \in Seq(Entries) /\ sent' \in Seq(Entries) /\ committed' \subseteq Sessions
        /\ evtQueue' \in [Sessions -> Seq(Entries)] /\ msgQueue' \in [Sessions -> Seq(Entries)]
        /\ logged' \in [Sessions -> SUBSET Entries]
        /\ seen' \in [Sessions -> [Rows -> Entries \cup {None}]]
        /\ root' \in [Sessions -> Entries \cup {None}]
    BY <1>d DEF IInv, TypeOK
  <2>2. /\ batch' \in [Sessions -> Batches] /\ at' \in [Sessions -> Nat]
        /\ \A t \in Sessions : at'[t] \in DOMAIN batch'[t]
    BY <1>d DEF IInv, TypeOK
  <2>3. \A t \in Sessions : ~InTransaction(t)' => DOMAIN writes'[t] = {} /\ logged'[t] = {}
    <3>1. \A t \in Sessions : ~InTransaction(t) => DOMAIN writes[t] = {} /\ logged[t] = {}
      BY DEF IInv, TypeOK
    <3>2. /\ InTransaction(s) /\ logged' = logged
          /\ \A t \in Sessions : t # s => writes'[t] = writes[t]
      BY <1>d, <1>c
    <3>3. \A t \in Sessions : InTransaction(t)' = InTransaction(t)
      BY <1>d
    <3> QED BY <3>1, <3>2, <3>3
  <2> HIDE DEF session, buffers, queues, shared, Put
  <2> QED BY <1>b, <1>d, <2>1, <2>2, <2>3 DEF TypeOK, InTransaction, Versions, Entries
<1>2. LogCoversState'
  BY DEF IInv, TypeOK, LogCoversState, WritesExplained, WritesExplainedOf, Explained,
         Write, Written
<1>3. WritesExplainedOf(s)'
  <2>1. /\ pc[s] = "writing" /\ pc'[s] = "handler" /\ UNCHANGED <<at, logged>>
        /\ acts'[s] = Append(acts[s], Written(s).etag) /\ Command(s) \in logged[s]
        /\ \A e \in Members(acts[s]) : CommandOf(e) = Command(s)
    BY DEF Write, IInv, TypeOK, WritesExplained, WritesExplainedOf, Commanding
  <2>2. Members(acts'[s]) = Members(acts[s]) \cup {Written(s).etag}
    <3>1. acts[s] \in Seq(Entries)
      BY DEF IInv, TypeOK
    <3> QED BY <1>0, <2>1, <3>1, MembersAppend
  <2>3. CommandOf(Written(s).etag) = Command(s)
    BY <1>0 DEF CommandOf, Command
  <2>4. \A r \in DOMAIN writes'[s] :
          /\ writes'[s][r].etag \in logged[s] \cup Members(acts'[s])
          /\ CommandOf(writes'[s][r].etag) \in logged[s]
    <3> SUFFICES ASSUME NEW r \in DOMAIN writes'[s]
                 PROVE  /\ writes'[s][r].etag \in logged[s] \cup Members(acts'[s])
                        /\ CommandOf(writes'[s][r].etag) \in logged[s]
      OBVIOUS
    <3>1. CASE r = RowOf(s)
      <4>1. writes'[s][r] = Written(s)
        BY <3>1 DEF Write, IInv, TypeOK
      <4> QED BY <2>1, <2>2, <2>3, <4>1
    <3>2. CASE r # RowOf(s)
      <4>1. r \in DOMAIN writes[s] /\ writes'[s][r] = writes[s][r]
        BY <3>2 DEF Write, IInv, TypeOK
      <4> QED BY <2>1, <2>2, <4>1 DEF IInv, WritesExplained, WritesExplainedOf, Explained
    <3> QED BY <3>1, <3>2
  <2>5. Command(s)' = Command(s) /\ Members(acts[s])' = Members(acts'[s])
    BY <2>1 DEF Command, Members
  <2> QED BY <2>1, <2>2, <2>3, <2>4, <2>5 DEF WritesExplainedOf, Explained, CommandOf
<1>4. WritesExplained'
  BY <1>3, Others DEF IInv, TypeOK, Write, Written
<1> QED BY <1>1, <1>2, <1>4 DEF IInv

LEMMA YieldMessageStep == ASSUME IInv, NEW s \in Sessions, YieldMessage(s) PROVE IInv'
<1>0. Append(msgQueue[s], Command(s)) \in Seq(Entries)
  BY TypeFacts, AppendProperties DEF IInv, TypeOK
<1>1. TypeOK'
  BY <1>0 DEF IInv, TypeOK, YieldMessage, InTransaction
<1>2. LogCoversState'
  BY DEF IInv, TypeOK, LogCoversState, WritesExplained, WritesExplainedOf, Explained,
         YieldMessage
<1>3. WritesExplainedOf(s)'
  BY MovesOn DEF IInv, TypeOK, Commanding, YieldMessage
<1>4. WritesExplained'
  BY <1>3, Others DEF IInv, TypeOK, YieldMessage
<1> QED BY <1>1, <1>2, <1>4 DEF IInv

LEMMA EndCommandStep == ASSUME IInv, NEW s \in Sessions, EndCommand(s) PROVE IInv'
<1>0. /\ evtQueue[s] \o acts[s] \in Seq(Entries) /\ Members(acts[s]) \subseteq Entries
      /\ HasMore(s) => at[s] + 1 \in DOMAIN batch[s] /\ at[s] + 1 \in Nat
      /\ <<>> \in Seq(Entries)
  BY ConcatProperties DEF IInv, TypeOK, Members, HasMore
<1>a. /\ at' \in [Sessions -> Nat] /\ \A t \in Sessions : at'[t] \in DOMAIN batch[t]
      /\ pc' \in [Sessions -> Places] /\ \A t \in Sessions : InTransaction(t)' = InTransaction(t)
  <2>0. pc[s] = "handler" /\ batch' = batch
    BY DEF EndCommand
  <2>1. CASE HasMore(s)
    <3>1. at' = [at EXCEPT ![s] = at[s] + 1] /\ pc' = [pc EXCEPT ![s] = "command"]
      BY <2>1 DEF EndCommand
    <3>2. at' \in [Sessions -> Nat] /\ \A t \in Sessions : at'[t] \in DOMAIN batch[t]
      <4>1. at \in [Sessions -> Nat] /\ \A t \in Sessions : at[t] \in DOMAIN batch[t]
        BY DEF IInv, TypeOK
      <4>2. at[s] + 1 \in DOMAIN batch[s] /\ at[s] + 1 \in Nat
        BY <1>0, <2>1
      <4>3. \A t \in Sessions : at'[t] = IF t = s THEN at[s] + 1 ELSE at[t]
        BY <3>1, <4>1
      <4>4. at' \in [Sessions -> Nat]
        BY <3>1, <4>1, <4>2
      <4> QED BY <4>1, <4>2, <4>3, <4>4
    <3>3. pc' \in [Sessions -> Places]
      BY <3>1 DEF IInv, TypeOK, Places
    <3>4. \A t \in Sessions : InTransaction(t)' = InTransaction(t)
      <4>1. \A t \in Sessions : pc'[t] = IF t = s THEN "command" ELSE pc[t]
        BY <3>1 DEF IInv, TypeOK
      <4> QED BY <2>0, <4>1 DEF InTransaction
    <3> QED BY <3>2, <3>3, <3>4
  <2>2. CASE ~HasMore(s)
    <3>1. at' = at /\ pc' = [pc EXCEPT ![s] = "inner"]
      BY <2>2 DEF EndCommand
    <3> QED BY <2>0, <3>1 DEF IInv, TypeOK, Places, InTransaction
  <2> QED BY <2>1, <2>2
<1>b. /\ evtQueue' \in [Sessions -> Seq(Entries)] /\ acts' \in [Sessions -> Seq(Entries)]
      /\ logged' \in [Sessions -> SUBSET Entries] /\ root' \in [Sessions -> Entries \cup {None}]
      /\ \A t \in Sessions : ~InTransaction(t) => logged'[t] = logged[t]
      /\ UNCHANGED <<batch, seen, writes, msgQueue, rows, log, handled, sent, committed>>
  BY <1>0 DEF EndCommand, IInv, TypeOK, InTransaction
<1>1. TypeOK'
  BY <1>a, <1>b DEF IInv, TypeOK
<1>2. LogCoversState'
  BY DEF IInv, TypeOK, LogCoversState, WritesExplained, WritesExplainedOf, Explained,
         EndCommand
<1>3. WritesExplainedOf(s)'
  <2>1. /\ pc[s] = "handler" /\ pc'[s] \in {"command", "inner"} /\ acts'[s] = <<>>
        /\ writes' = writes /\ logged'[s] = logged[s] \cup Members(acts[s])
    BY DEF EndCommand, IInv, TypeOK
  <2> QED BY <2>1 DEF IInv, WritesExplained, WritesExplainedOf, Explained, Commanding,
                    CommandOf
<1>4. WritesExplained'
  BY <1>3, Others DEF IInv, TypeOK, EndCommand
<1> QED BY <1>1, <1>2, <1>4 DEF IInv

LEMMA CommitLogStep == ASSUME IInv, NEW s \in Sessions, CommitLog(s) PROVE IInv'
<1>1. TypeOK'
  BY TypeFacts DEF IInv, TypeOK, CommitLog, Places, InTransaction, Leaves, Inner, AfterExit
<1>2. LogCoversState'
  BY DEF IInv, TypeOK, LogCoversState, WritesExplained, WritesExplainedOf, Explained,
         CommitLog, Leaves, Inner, AfterExit
<1>3. WritesExplainedOf(s)'
  <2>1. /\ pc[s] = "inner" /\ pc'[s] = "outer" /\ acts[s] = <<>> /\ logged'[s] = {}
        /\ writes' = writes /\ log' = log \cup logged[s]
    BY DEF CommitLog, Leaves, Inner, AfterExit, IInv, TypeOK, WritesExplained, WritesExplainedOf
  <2>2. \A r \in DOMAIN writes[s] :
          writes[s][r].etag \in logged[s] /\ CommandOf(writes[s][r].etag) \in logged[s]
    BY <2>1 DEF IInv, WritesExplained, WritesExplainedOf, Explained, Members
  <2> QED BY <2>1, <2>2 DEF WritesExplainedOf, Explained, Commanding, CommandOf
<1>4. WritesExplained'
  BY <1>3, Others DEF IInv, TypeOK, CommitLog, Leaves, Inner, AfterExit
<1> QED BY <1>1, <1>2, <1>4 DEF IInv

LEMMA CommitStateStep == ASSUME IInv, NEW s \in Sessions, CommitState(s) PROVE IInv'
<1>0. /\ rows' \in [Rows -> Versions] /\ committed' \subseteq Sessions
      /\ pc[s] = "outer" /\ pc' = [pc EXCEPT ![s] = "deliver"]
      /\ writes' = [writes EXCEPT ![s] = NoWrites] /\ DOMAIN NoWrites = {}
  BY TypeFacts DEF CommitState, Leaves, Inner, AfterExit, NoWrites, IInv, TypeOK
<1>a. /\ pc' \in [Sessions -> Places] /\ DOMAIN writes' = Sessions
      /\ \A t \in Sessions : t # s => pc'[t] = pc[t] /\ writes'[t] = writes[t]
      /\ pc'[s] = "deliver" /\ writes'[s] = NoWrites
      /\ UNCHANGED <<batch, at, seen, root, acts, logged, queues, log, handled, sent>>
  BY <1>0 DEF CommitState, IInv, TypeOK, Places
<1>1. TypeOK'
  BY <1>0, <1>a DEF IInv, TypeOK, InTransaction, WritesExplained, WritesExplainedOf
<1>2. LogCoversState'
  BY DEF IInv, TypeOK, LogCoversState, WritesExplained, WritesExplainedOf, Explained,
         CommitState, Leaves, Inner, AfterExit, Visible
<1>3. WritesExplainedOf(s)'
  BY Ended DEF IInv, TypeOK, NoWrites, CommitState, Leaves, Inner, AfterExit
<1>4. WritesExplained'
  BY <1>3, Others DEF IInv, TypeOK, CommitState, Leaves, Inner, AfterExit
<1> QED BY <1>1, <1>2, <1>4 DEF IInv

LEMMA HandleEventStep == ASSUME IInv, NEW s \in Sessions, HandleEvent(s) PROVE IInv'
<1>0. /\ evtQueue[s] \in Seq(Entries) /\ evtQueue[s] # <<>> /\ handled \in Seq(Entries)
      /\ Head(evtQueue[s]) \in Entries /\ Tail(evtQueue[s]) \in Seq(Entries)
      /\ Append(handled, Head(evtQueue[s])) \in Seq(Entries)
  BY HeadTailProperties, AppendProperties DEF HandleEvent, IInv, TypeOK
<1>1. TypeOK'
  BY <1>0 DEF IInv, TypeOK, HandleEvent, InTransaction
<1>2. LogCoversState'
  BY DEF IInv, TypeOK, LogCoversState, WritesExplained, WritesExplainedOf, Explained,
         HandleEvent, Delivers
<1>3. WritesExplainedOf(s)'
  BY MovesOn DEF IInv, TypeOK, Commanding, HandleEvent, Delivers
<1>4. WritesExplained'
  BY <1>3, Others DEF IInv, TypeOK, HandleEvent, Delivers
<1> QED BY <1>1, <1>2, <1>4 DEF IInv

LEMMA DispatchMessageStep == ASSUME IInv, NEW s \in Sessions, DispatchMessage(s) PROVE IInv'
<1>0. /\ msgQueue[s] \in Seq(Entries) /\ msgQueue[s] # <<>> /\ sent \in Seq(Entries)
      /\ Head(msgQueue[s]) \in Entries /\ Tail(msgQueue[s]) \in Seq(Entries)
      /\ Append(sent, Head(msgQueue[s])) \in Seq(Entries)
  BY HeadTailProperties, AppendProperties DEF DispatchMessage, IInv, TypeOK
<1>1. TypeOK'
  BY <1>0 DEF IInv, TypeOK, DispatchMessage, InTransaction
<1>2. LogCoversState'
  BY DEF IInv, TypeOK, LogCoversState, WritesExplained, WritesExplainedOf, Explained,
         DispatchMessage, Delivers
<1>3. WritesExplainedOf(s)'
  BY MovesOn DEF IInv, TypeOK, Commanding, DispatchMessage, Delivers
<1>4. WritesExplained'
  BY <1>3, Others DEF IInv, TypeOK, DispatchMessage, Delivers
<1> QED BY <1>1, <1>2, <1>4 DEF IInv

LEMMA RespondStep == ASSUME IInv, NEW s \in Sessions, Respond(s) PROVE IInv'
<1>1. TypeOK'
  BY TypeFacts DEF IInv, TypeOK, Respond, Places, InTransaction
<1>2. LogCoversState'
  BY DEF IInv, TypeOK, LogCoversState, WritesExplained, WritesExplainedOf, Explained,
         Respond
<1>3. WritesExplainedOf(s)'
  BY MovesOn DEF IInv, TypeOK, Commanding, Respond
<1>4. WritesExplained'
  BY <1>3, Others DEF IInv, TypeOK, Respond
<1> QED BY <1>1, <1>2, <1>4 DEF IInv

LEMMA RaiseStep == ASSUME IInv, NEW s \in Sessions, Raise(s) PROVE IInv'
<1>1. TypeOK'
  BY TypeFacts DEF IInv, TypeOK, Raise, Places, InTransaction, Fail, RollBack, NoWrites
<1>2. LogCoversState'
  BY DEF IInv, TypeOK, LogCoversState, WritesExplained, WritesExplainedOf, Explained,
         Raise, Fail, RollBack, NoWrites
<1>3. WritesExplainedOf(s)'
  BY Ended DEF IInv, TypeOK, Raise, Fail, RollBack, NoWrites
<1>4. WritesExplained'
  BY <1>3, Others DEF IInv, TypeOK, Raise, Fail, RollBack, NoWrites
<1> QED BY <1>1, <1>2, <1>4 DEF IInv

LEMMA RefuseStep == ASSUME IInv, NEW s \in Sessions, Refuse(s) PROVE IInv'
<1>1. TypeOK'
  BY TypeFacts DEF IInv, TypeOK, Refuse, Places, InTransaction, Fail, RollBack, NoWrites
<1>2. LogCoversState'
  BY DEF IInv, TypeOK, LogCoversState, WritesExplained, WritesExplainedOf, Explained,
         Refuse, Fail, RollBack, NoWrites
<1>3. WritesExplainedOf(s)'
  BY Ended DEF IInv, TypeOK, Refuse, Fail, RollBack, NoWrites
<1>4. WritesExplained'
  BY <1>3, Others DEF IInv, TypeOK, Refuse, Fail, RollBack, NoWrites
<1> QED BY <1>1, <1>2, <1>4 DEF IInv

(* One step of any session keeps the invariant: the log only grows, and a  *)
(* row changes only where CommitState publishes writes already explained.  *)
LEMMA NextInv == IInv /\ [Next]_vars => IInv'
<1> SUFFICES ASSUME IInv, [Next]_vars PROVE IInv'
  OBVIOUS
<1>1. CASE UNCHANGED vars
  <2>1. TypeOK' BY <1>1 DEF IInv, TypeOK, InTransaction, vars
  <2>2. LogCoversState' BY <1>1 DEF IInv, LogCoversState, vars
  <2>3. WritesExplained'
    BY <1>1 DEF IInv, WritesExplained, WritesExplainedOf, Explained, Members, Command,
                CommandOf, vars
  <2> QED BY <2>1, <2>2, <2>3 DEF IInv
<1>2. ASSUME NEW s \in Sessions, ClientLoads(s) \/ Open(s) \/ Step(s) \/ Raise(s)
      PROVE  IInv'
  <2>1. CASE ClientLoads(s) \/ Open(s) \/ Raise(s)
    BY <2>1, ClientLoadsStep, OpenStep, RaiseStep
  <2>2. CASE BeginCommand(s) \/ IssueWrite(s) \/ Write(s) \/ YieldMessage(s) \/ EndCommand(s)
    BY <2>2, BeginCommandStep, IssueWriteStep, WriteStep, YieldMessageStep, EndCommandStep
  <2>3. CASE CommitLog(s) \/ CommitState(s)
    BY <2>3, CommitLogStep, CommitStateStep
  <2>4. CASE HandleEvent(s) \/ DispatchMessage(s) \/ Respond(s) \/ Refuse(s)
    BY <2>4, HandleEventStep, DispatchMessageStep, RespondStep, RefuseStep
  <2> QED BY <1>2, <2>1, <2>2, <2>3, <2>4 DEF Step
<1> QED BY <1>1, <1>2 DEF Next

(* The invariant holds in every reachable state, for any sessions, rows    *)
(* and batches of commands.                                                *)
THEOREM PipelineInvariant == Spec => []IInv
<1>1. Init => IInv BY InitInv
<1>2. IInv /\ [Next]_vars => IInv' BY NextInv
<1> QED BY <1>1, <1>2, PTL DEF Spec

(* Every variable keeps its type, and only a session inside its            *)
(* transactions has uncommitted writes or log entries (process_command).   *)
THEOREM TypeCorrect == Spec => []TypeOK
<1>1. IInv => TypeOK BY DEF IInv
<1> QED BY <1>1, PipelineInvariant, PTL

(* Every committed row is explained by committed log entries, whatever     *)
(* fails between the two commits that process_command ends with.           *)
THEOREM LogExplainsState == Spec => []LogCoversState
<1>1. IInv => LogCoversState BY DEF IInv
<1> QED BY <1>1, PipelineInvariant, PTL
-----------------------------------------------------------------------------
(* A row with an uncommitted write has one writer only, and is committed   *)
(* as absent or live until that writer ends: the database makes the others *)
(* wait, and update_data matches no deleted row.                           *)
OneWriter == \A s, t \in Sessions : s # t => DOMAIN writes[s] \cap DOMAIN writes[t] = {}
Replaceable(s) ==
  \A r \in DOMAIN writes[s] : /\ rows[r].status \in {"absent", "live"}
                              /\ writes[s][r].status \in {"live", "deleted"}
RowInv == OneWriter /\ \A s \in Sessions : Replaceable(s)

(* Steps that write no row, and give up their own writes or keep them.     *)
LEMMA RowsKept ==
  ASSUME RowInv, NEW s \in Sessions, rows' = rows,
         writes'[s] = writes[s] \/ writes'[s] = NoWrites,
         \A t \in Sessions \ {s} : writes'[t] = writes[t]
  PROVE  RowInv'
<1>1. \A t \in Sessions : writes'[t] = writes[t] \/ DOMAIN writes'[t] = {}
  BY DEF NoWrites
<1>2. OneWriter'
  BY <1>1 DEF RowInv, OneWriter
<1>3. ASSUME NEW t \in Sessions PROVE Replaceable(t)'
  BY <1>1 DEF RowInv, Replaceable
<1> QED BY <1>2, <1>3 DEF RowInv

LEMMA RowsWrite == ASSUME IInv, RowInv, NEW s \in Sessions, Write(s) PROVE RowInv'
<1> DEFINE x == RowOf(s)
<1>1. /\ rows' = rows /\ ~HeldByOther(s, x) /\ Matches(s, Visible(s, x))
      /\ DOMAIN writes'[s] = DOMAIN writes[s] \cup {x}
      /\ writes'[s][x] = Written(s)
      /\ \A r \in DOMAIN writes[s] \ {x} : writes'[s][r] = writes[s][r]
      /\ \A t \in Sessions \ {s} : writes'[t] = writes[t]
  BY DEF Write, shared, IInv, TypeOK
<1>2. \A t \in Sessions \ {s} : x \notin DOMAIN writes[t]
  BY <1>1 DEF HeldByOther, Holds
<1>3. Written(s).status \in {"live", "deleted"}
  BY DEF Written
<1>4. rows[x].status \in {"absent", "live"}
  BY <1>1 DEF RowInv, Replaceable, Matches, Visible
<1> HIDE DEF x
<1>5. OneWriter'
  <2> SUFFICES ASSUME NEW t \in Sessions, NEW u \in Sessions, t # u
               PROVE  DOMAIN writes'[t] \cap DOMAIN writes'[u] = {}
    BY DEF OneWriter
  <2> QED BY <1>1, <1>2 DEF RowInv, OneWriter
<1>6. ASSUME NEW t \in Sessions PROVE Replaceable(t)'
  <2>1. CASE t = s
    BY <1>1, <1>3, <1>4, <2>1 DEF RowInv, Replaceable
  <2>2. CASE t # s
    BY <1>1, <2>2 DEF RowInv, Replaceable
  <2> QED BY <2>1, <2>2
<1> QED BY <1>5, <1>6 DEF RowInv

LEMMA RowsCommit == ASSUME IInv, RowInv, NEW s \in Sessions, CommitState(s) PROVE RowInv'
<1>1. /\ \A r \in Rows : rows'[r] = IF r \in DOMAIN writes[s] THEN writes[s][r] ELSE rows[r]
      /\ DOMAIN writes'[s] = {}
      /\ \A t \in Sessions \ {s} : writes'[t] = writes[t]
  BY DEF CommitState, Visible, NoWrites, IInv, TypeOK
<1>2. OneWriter'
  BY <1>1 DEF RowInv, OneWriter
<1>3. ASSUME NEW t \in Sessions PROVE Replaceable(t)'
  <2>1. CASE t = s
    BY <1>1, <2>1 DEF Replaceable
  <2>2. CASE t # s
    <3>1. \A r \in DOMAIN writes[t] : r \in Rows /\ r \notin DOMAIN writes[s]
      BY <2>2 DEF RowInv, OneWriter, IInv, TypeOK
    <3> QED BY <1>1, <2>2, <3>1 DEF RowInv, Replaceable
  <2> QED BY <2>1, <2>2
<1> QED BY <1>2, <1>3 DEF RowInv

LEMMA RowsMoves ==
  ASSUME IInv, RowInv, NEW s \in Sessions,
         \/ ClientLoads(s) \/ Open(s) \/ BeginCommand(s) \/ IssueWrite(s) \/ YieldMessage(s)
         \/ EndCommand(s) \/ CommitLog(s) \/ HandleEvent(s) \/ DispatchMessage(s)
         \/ Respond(s) \/ Raise(s) \/ Refuse(s)
  PROVE  RowInv' /\ rows' = rows
<1>1. rows' = rows
  BY DEF ClientLoads, Open, BeginCommand, IssueWrite, YieldMessage, EndCommand, CommitLog,
         HandleEvent, DispatchMessage, Respond, Raise, Refuse, Fail, shared
<1>2. /\ writes'[s] = writes[s] \/ writes'[s] = NoWrites
      /\ \A t \in Sessions \ {s} : writes'[t] = writes[t]
  BY DEF ClientLoads, Open, BeginCommand, IssueWrite, YieldMessage, EndCommand, CommitLog,
         HandleEvent, DispatchMessage, Respond, Raise, Refuse, Fail, RollBack, buffers,
         IInv, TypeOK
<1> QED BY <1>1, <1>2, RowsKept

LEMMA RowsInit == Init => RowInv
<1> SUFFICES ASSUME Init PROVE RowInv
  OBVIOUS
<1>1. \A s \in Sessions : DOMAIN writes[s] = {}
  BY DEF Init, NoWrites
<1> QED BY <1>1 DEF RowInv, OneWriter, Replaceable

LEMMA RowsNext == IInv /\ RowInv /\ [Next]_vars => RowInv'
<1> SUFFICES ASSUME IInv, RowInv, [Next]_vars PROVE RowInv'
  OBVIOUS
<1>1. CASE UNCHANGED vars
  <2>1. rows' = rows /\ writes' = writes
    BY <1>1 DEF vars, buffers, shared
  <2> QED BY <2>1 DEF RowInv, OneWriter, Replaceable
<1>2. ASSUME NEW s \in Sessions, ClientLoads(s) \/ Open(s) \/ Step(s) \/ Raise(s)
      PROVE  RowInv'
  BY <1>2, RowsWrite, RowsCommit, RowsMoves DEF Step
<1> QED BY <1>1, <1>2 DEF Next

(* The committed rows change with a commit of the state transaction only.  *)
LEMMA RowChange ==
  ASSUME IInv, RowInv, Next, NEW r \in Rows, rows'[r] # rows[r]
  PROVE  <<rows[r].status, rows'[r].status>> \in Life
<1> PICK s \in Sessions : ClientLoads(s) \/ Open(s) \/ Step(s) \/ Raise(s)
  BY DEF Next
<1>1. CASE CommitState(s)
  <2>1. r \in DOMAIN writes[s] /\ rows'[r] = writes[s][r]
    BY <1>1 DEF CommitState, Visible
  <2>2. rows[r].status \in {"absent", "live"} /\ rows'[r].status \in {"live", "deleted"}
    BY <2>1 DEF RowInv, Replaceable
  <2> QED BY <2>2 DEF Life
<1>2. CASE Write(s)
  BY <1>2 DEF Write, shared
<1> QED BY <1>1, <1>2, RowsMoves DEF Step

(* A removed row never comes back and no row is created twice: the         *)
(* statements of the driver (insert, and update_data with `_deleted is     *)
(* null`) and the row lock of an uncommitted write see to it, whatever     *)
(* fetch_command_rootobj has read before.                                  *)
THEOREM RowsLiveOnce == Spec => RowLifecycle
<1>1. IInv /\ RowInv /\ [Next]_vars =>
        [\A r \in Rows : rows'[r] # rows[r] => <<rows[r].status, rows'[r].status>> \in Life]_vars
  BY RowChange
<1>2. Init => RowInv BY RowsInit
<1>3. IInv /\ RowInv /\ [Next]_vars => RowInv' BY RowsNext
<1> QED BY <1>1, <1>2, <1>3, PipelineInvariant, PTL DEF Spec, RowLifecycle
-----------------------------------------------------------------------------
(* What is promised to those that events and messages are handed to:       *)
(* committed first, each once, in order (OrderInv), and all of them before *)
(* the response (LoggedInv). Both rest on IInv.                            *)
-----------------------------------------------------------------------------
(* Events and messages are made, queued and handed over in the order of    *)
(* their commands: those of the present command are still with the         *)
(* aggregate, and a queue follows what was handed over from it.            *)
Sorted(q) == \A i, j \in DOMAIN q : i < j => Before(q[i], q[j])
EventOf(s, e) ==
  /\ e[1] = s /\ e[3] > 0 /\ e[2] <= at[s]
  /\ pc[s] \in Commanding \cup {"command"} => e[2] < at[s]
MessageOf(s, e) ==
  /\ e[1] = s /\ e[3] = 0 /\ e[2] <= at[s]
  /\ pc[s] = "command" => e[2] < at[s]
Queued(s) ==
  /\ \A i \in DOMAIN acts[s] : acts[s][i] = <<s, at[s], i>>
  /\ \A i \in DOMAIN evtQueue[s] : EventOf(s, evtQueue[s][i])
  /\ \A i \in DOMAIN msgQueue[s] : MessageOf(s, msgQueue[s][i])
  /\ Sorted(evtQueue[s]) /\ Sorted(msgQueue[s])
  /\ pc[s] \in {"idle", "loaded", "done"} => evtQueue[s] = <<>> /\ msgQueue[s] = <<>>
HandedBefore(q, queue, s) ==
  \A i \in DOMAIN q : q[i][1] = s =>
    s \in committed /\ \A j \in DOMAIN queue : Before(q[i], queue[j])
Handed(s) == HandedBefore(handled, evtQueue[s], s) /\ HandedBefore(sent, msgQueue[s], s)
InOrder(q) == \A i, j \in DOMAIN q : i < j /\ q[i][1] = q[j][1] => Before(q[i], q[j])
AfterCommit(s) ==
  /\ pc[s] \in {"deliver", "done"} => s \in committed
  /\ s \in committed => pc[s] \in {"deliver", "done", "failed"}
OrderInv ==
  /\ InOrder(handled) /\ InOrder(sent)
  /\ \A s \in Sessions : Queued(s) /\ Handed(s) /\ AfterCommit(s)

(* What the sequence operators do to order and to members.                 *)
LEMMA QueueHead ==
  ASSUME NEW S, NEW q \in Seq(S), q # <<>>
  PROVE  /\ Members(q) = {Head(q)} \cup Members(Tail(q))
         /\ Head(q) = q[1] /\ 1 \in DOMAIN q
         /\ \A i \in DOMAIN Tail(q) : i \in Nat /\ i + 1 \in DOMAIN q /\ Tail(q)[i] = q[i + 1]
<1>1. /\ Tail(q) \in Seq(S) /\ Len(q) \in Nat /\ Len(q) # 0 /\ Len(Tail(q)) = Len(q) - 1
      /\ \A i \in 1 .. Len(Tail(q)) : Tail(q)[i] = q[i + 1]
      /\ DOMAIN q = 1 .. Len(q) /\ DOMAIN Tail(q) = 1 .. Len(Tail(q))
  BY HeadTailProperties, LenProperties, EmptySeq
<1>2. Head(q) = q[1]
  OBVIOUS
<1>3. /\ 1 \in DOMAIN q
      /\ \A i \in DOMAIN Tail(q) : i \in Nat /\ i + 1 \in DOMAIN q /\ Tail(q)[i] = q[i + 1]
  BY <1>1
<1>4. \A i \in DOMAIN q : i = 1 \/ (i - 1 \in DOMAIN Tail(q) /\ Tail(q)[i - 1] = q[i])
  BY <1>1
<1>5. Members(q) \subseteq {Head(q)} \cup Members(Tail(q))
  BY <1>2, <1>4 DEF Members
<1>6. {Head(q)} \cup Members(Tail(q)) \subseteq Members(q)
  BY <1>2, <1>3 DEF Members
<1> QED BY <1>2, <1>3, <1>5, <1>6

LEMMA SortedTail ==
  ASSUME NEW S, NEW q \in Seq(S), q # <<>>, Sorted(q)
  PROVE  Sorted(Tail(q)) /\ \A i \in DOMAIN Tail(q) : Before(Head(q), Tail(q)[i])
<1>1. \A i, j \in DOMAIN Tail(q) : i < j => i + 1 < j + 1
  BY QueueHead
<1>2. \A i \in DOMAIN Tail(q) : 1 < i + 1
  BY QueueHead, LenProperties, HeadTailProperties
<1>3. Sorted(Tail(q))
  BY <1>1, QueueHead DEF Sorted
<1>4. \A i \in DOMAIN Tail(q) : Before(Head(q), Tail(q)[i])
  BY <1>2, QueueHead DEF Sorted
<1> QED BY <1>3, <1>4

LEMMA Appended ==
  ASSUME NEW S, NEW q \in Seq(S), NEW x \in S
  PROVE  /\ DOMAIN q \subseteq Nat /\ Len(q) + 1 \notin DOMAIN q /\ Len(q) + 1 \in Nat
         /\ DOMAIN Append(q, x) = DOMAIN q \cup {Len(q) + 1}
         /\ \A i \in DOMAIN q : Append(q, x)[i] = q[i] /\ i < Len(q) + 1
         /\ Append(q, x)[Len(q) + 1] = x
<1>1. Len(q) \in Nat /\ DOMAIN q = 1 .. Len(q)
  BY LenProperties
<1>2. /\ Append(q, x) \in Seq(S) /\ Len(Append(q, x)) = Len(q) + 1
      /\ \A i \in 1 .. Len(q) : Append(q, x)[i] = q[i]
      /\ Append(q, x)[Len(q) + 1] = x
  BY AppendProperties
<1>3. DOMAIN Append(q, x) = 1 .. (Len(q) + 1)
  BY <1>2, LenProperties
<1> QED BY <1>1, <1>2, <1>3

LEMMA SortedAppend ==
  ASSUME NEW S, NEW q \in Seq(S), NEW x \in S, Sorted(q), \A i \in DOMAIN q : Before(q[i], x)
  PROVE  Sorted(Append(q, x))
<1>1. \A i, j \in DOMAIN Append(q, x) : i < j => i \in DOMAIN q
  BY Appended
<1> QED BY <1>1, Appended DEF Sorted

LEMMA Concatenated ==
  ASSUME NEW S, NEW p \in Seq(S), NEW q \in Seq(S)
  PROVE  /\ \A i \in DOMAIN (p \o q) :
              \/ i \in DOMAIN p /\ (p \o q)[i] = p[i]
              \/ i > Len(p) /\ i - Len(p) \in DOMAIN q /\ (p \o q)[i] = q[i - Len(p)]
         /\ \A i \in DOMAIN p : i \in DOMAIN (p \o q) /\ (p \o q)[i] = p[i] /\ i <= Len(p)
         /\ \A i \in DOMAIN q :
              i + Len(p) \in DOMAIN (p \o q) /\ (p \o q)[i + Len(p)] = q[i]
<1>1. /\ Len(p) \in Nat /\ DOMAIN p = 1 .. Len(p) /\ Len(q) \in Nat /\ DOMAIN q = 1 .. Len(q)
  BY LenProperties
<1>2. /\ p \o q \in Seq(S) /\ Len(p \o q) = Len(p) + Len(q)
      /\ \A i \in 1 .. Len(p) + Len(q) :
           (p \o q)[i] = IF i <= Len(p) THEN p[i] ELSE q[i - Len(p)]
  BY ConcatProperties
<1>3. DOMAIN (p \o q) = 1 .. Len(p) + Len(q)
  BY <1>2, LenProperties
<1> QED BY <1>1, <1>2, <1>3

LEMMA ConcatenatedAt ==
  ASSUME NEW S, NEW p \in Seq(S), NEW q \in Seq(S), NEW r, r = p \o q, NEW i \in DOMAIN r
  PROVE  \/ i \in DOMAIN p /\ r[i] = p[i]
         \/ i - Len(p) \in DOMAIN q /\ r[i] = q[i - Len(p)]
BY Concatenated

LEMMA MembersConcat ==
  ASSUME NEW S, NEW p \in Seq(S), NEW q \in Seq(S)
  PROVE  Members(p \o q) = Members(p) \cup Members(q)
<1>1. Members(p \o q) \subseteq Members(p) \cup Members(q)
  BY Concatenated DEF Members
<1>2. Members(p) \subseteq Members(p \o q)
  BY Concatenated DEF Members
<1>3. ASSUME NEW i \in DOMAIN q PROVE q[i] \in Members(p \o q)
  <2>1. i + Len(p) \in DOMAIN (p \o q) /\ (p \o q)[i + Len(p)] = q[i]
    BY Concatenated
  <2> QED BY <2>1 DEF Members
<1>4. Members(q) \subseteq Members(p \o q)
  BY <1>3 DEF Members
<1> QED BY <1>1, <1>2, <1>4

LEMMA SortedConcat ==
  ASSUME NEW S, NEW p \in Seq(S), NEW q \in Seq(S), Sorted(p), Sorted(q),
         \A i \in DOMAIN p, j \in DOMAIN q : Before(p[i], q[j])
  PROVE  Sorted(p \o q)
<1> SUFFICES ASSUME NEW i \in DOMAIN (p \o q), NEW j \in DOMAIN (p \o q), i < j
             PROVE  Before((p \o q)[i], (p \o q)[j])
  BY DEF Sorted
<1>1. Len(p) \in Nat /\ DOMAIN (p \o q) \subseteq Nat
  BY ConcatProperties, LenProperties
<1>2. CASE j \in DOMAIN p
  <2>1. i \in DOMAIN p
    BY <1>1, <1>2, Concatenated
  <2> QED BY <1>2, <2>1, Concatenated DEF Sorted
<1>3. CASE j \notin DOMAIN p
  <2>1. j - Len(p) \in DOMAIN q /\ (p \o q)[j] = q[j - Len(p)]
    BY <1>3, Concatenated
  <2>2. CASE i \in DOMAIN p
    BY <2>1, <2>2, Concatenated
  <2>3. CASE i \notin DOMAIN p
    <3>1. i - Len(p) \in DOMAIN q /\ (p \o q)[i] = q[i - Len(p)]
      BY <2>3, Concatenated
    <3>2. i - Len(p) < j - Len(p)
      BY <1>1
    <3> QED BY <2>1, <3>1, <3>2 DEF Sorted
  <2> QED BY <2>2, <2>3
<1> QED BY <1>2, <1>3

(* Steps that leave the queues, and what was taken from them, alone.       *)
LEMMA OrderQuiet ==
  ASSUME OrderInv, NEW s \in Sessions,
         UNCHANGED <<at, acts, evtQueue, msgQueue, handled, sent>>, committed \subseteq committed',
         committed' \subseteq committed \cup {s}, AfterCommit(s)',
         \A t \in Sessions \ {s} : pc'[t] = pc[t],
         pc'[s] \in {"idle", "loaded", "done"} => evtQueue[s] = <<>> /\ msgQueue[s] = <<>>,
         pc'[s] \in Commanding
           => pc[s] \in Commanding \cup {"command"} \/ (evtQueue[s] = <<>> /\ msgQueue[s] = <<>>),
         pc'[s] = "command" => pc[s] = "command" \/ (evtQueue[s] = <<>> /\ msgQueue[s] = <<>>)
  PROVE  OrderInv'
<1>1. InOrder(handled)' /\ InOrder(sent)'
  BY DEF OrderInv, InOrder, Before
<1>2. ASSUME NEW t \in Sessions PROVE Handed(t)'
  BY DEF OrderInv, Handed, HandedBefore, Before
<1>3. ASSUME NEW t \in Sessions PROVE Queued(t)' /\ AfterCommit(t)'
  <2>1. Queued(t) /\ AfterCommit(t)
    BY DEF OrderInv
  <2>2. Sorted(evtQueue[t])' /\ Sorted(msgQueue[t])'
    BY <2>1 DEF Queued, Sorted, Before
  <2>3. CASE t # s
    BY <2>1, <2>2, <2>3 DEF Queued, EventOf, MessageOf, AfterCommit, Commanding
  <2>4. CASE t = s
    <3>1. \A i \in DOMAIN evtQueue[s] : EventOf(s, evtQueue[s][i])'
      BY <2>1, <2>4 DEF Queued, EventOf, Commanding
    <3>2. \A i \in DOMAIN msgQueue[s] : MessageOf(s, msgQueue[s][i])'
      BY <2>1, <2>4 DEF Queued, MessageOf, Commanding
    <3> QED BY <2>1, <2>2, <2>4, <3>1, <3>2 DEF Queued, EventOf, MessageOf
  <2> QED BY <2>3, <2>4
<1> QED BY <1>1, <1>2, <1>3 DEF OrderInv

LEMMA OrderWrite == ASSUME IInv, OrderInv, NEW s \in Sessions, Write(s) PROVE OrderInv'
<1>1. /\ UNCHANGED <<at, evtQueue, msgQueue, handled, sent, committed>>
      /\ pc[s] = "writing" /\ pc'[s] = "handler"
      /\ \A t \in Sessions \ {s} : pc'[t] = pc[t] /\ acts'[t] = acts[t]
      /\ acts'[s] = Append(acts[s], <<s, at[s], Len(acts[s]) + 1>>)
  BY DEF Write, Written, IInv, TypeOK
<1>2. acts[s] \in Seq(Entries) /\ <<s, at[s], Len(acts[s]) + 1>> \in Entries
  <2>1. acts[s] \in Seq(Entries)
    BY DEF IInv, TypeOK
  <2>2. Len(acts[s]) + 1 \in Nat
    BY <2>1, LenProperties
  <2> QED BY <2>1, <2>2, TypeFacts DEF IInv
<1>3. \A i \in DOMAIN acts'[s] : acts'[s][i] = <<s, at[s], i>>
  BY <1>1, <1>2, Appended DEF OrderInv, Queued
<1>4. InOrder(handled)' /\ InOrder(sent)' /\ \A t \in Sessions : Handed(t)'
  BY <1>1 DEF OrderInv, InOrder, Handed, HandedBefore, Before
<1>5. ASSUME NEW t \in Sessions PROVE Queued(t)' /\ AfterCommit(t)'
  <2>1. Queued(t) /\ AfterCommit(t)
    BY DEF OrderInv
  <2>2. \A i \in DOMAIN acts'[t] : acts'[t][i] = <<t, at'[t], i>>
    BY <1>1, <1>3, <2>1 DEF Queued
  <2>3. Sorted(evtQueue[t])' /\ Sorted(msgQueue[t])'
    BY <1>1, <2>1 DEF Queued, Sorted, Before
  <2>4. /\ \A i \in DOMAIN evtQueue[t] : EventOf(t, evtQueue[t][i])'
        /\ \A i \in DOMAIN msgQueue[t] : MessageOf(t, msgQueue[t][i])'
    BY <1>1, <2>1 DEF Queued, EventOf, MessageOf, Commanding
  <2> QED BY <1>1, <2>1, <2>2, <2>3, <2>4 DEF Queued, AfterCommit
<1> QED BY <1>4, <1>5 DEF OrderInv

LEMMA OrderYield == ASSUME IInv, OrderInv, NEW s \in Sessions, YieldMessage(s) PROVE OrderInv'
<1>1. /\ UNCHANGED <<at, acts, pc, evtQueue, handled, sent, committed>>
      /\ pc[s] = "handler" /\ Command(s) \notin Members(msgQueue[s])
      /\ msgQueue'[s] = Append(msgQueue[s], Command(s))
      /\ \A t \in Sessions \ {s} : msgQueue'[t] = msgQueue[t]
  BY DEF YieldMessage, IInv, TypeOK
<1>2. /\ msgQueue[s] \in Seq(Entries) /\ Command(s) \in Entries /\ Command(s) = <<s, at[s], 0>>
      /\ at[s] \in Nat
  BY TypeFacts DEF IInv, TypeOK
<1>3. s \notin committed
  BY <1>1 DEF OrderInv, AfterCommit
<1>4. ASSUME NEW i \in DOMAIN msgQueue[s] PROVE Before(msgQueue[s][i], Command(s))
  <2>1. MessageOf(s, msgQueue[s][i]) /\ msgQueue[s][i] # Command(s)
    BY <1>1 DEF OrderInv, Queued, Members
  <2>2. msgQueue[s][i] \in Entries
    BY <1>2, ElementOfSeq, LenProperties
  <2>3. msgQueue[s][i] = <<msgQueue[s][i][1], msgQueue[s][i][2], msgQueue[s][i][3]>>
        /\ msgQueue[s][i][2] \in Nat
    BY <2>2 DEF Entries
  <2> QED BY <1>2, <2>1, <2>3 DEF MessageOf, Before
<1>5. Sorted(msgQueue'[s])
  <2>1. Sorted(msgQueue[s])
    BY DEF OrderInv, Queued
  <2> QED BY <1>1, <1>2, <1>4, <2>1, SortedAppend
<1>6. InOrder(handled)' /\ InOrder(sent)'
  BY <1>1 DEF OrderInv, InOrder, Before
<1>7. ASSUME NEW t \in Sessions PROVE Handed(t)'
  <2>1. Handed(t)
    BY DEF OrderInv
  <2> QED BY <1>1, <1>3, <2>1 DEF Handed, HandedBefore, Before
<1>8. ASSUME NEW t \in Sessions PROVE Queued(t)' /\ AfterCommit(t)'
  <2>1. Queued(t) /\ AfterCommit(t)
    BY DEF OrderInv
  <2>2. CASE t # s
    BY <1>1, <2>1, <2>2 DEF Queued, Sorted, Before, EventOf, MessageOf, AfterCommit
  <2>3. CASE t = s
    <3>1. \A i \in DOMAIN msgQueue'[s] : MessageOf(s, msgQueue[s][i])'
      BY <1>1, <1>2, <2>1, <2>3, Appended DEF Queued, MessageOf
    <3>2. /\ \A i \in DOMAIN evtQueue'[s] : EventOf(s, evtQueue[s][i])'
          /\ Sorted(evtQueue[s])' /\ Sorted(msgQueue[s])'
      BY <1>1, <1>5, <2>1, <2>3 DEF Queued, Sorted, Before, EventOf
    <3> QED BY <1>1, <2>1, <2>3, <3>1, <3>2 DEF Queued, AfterCommit
  <2> QED BY <2>2, <2>3
<1> QED BY <1>6, <1>7, <1>8 DEF OrderInv

LEMMA OrderEnd == ASSUME IInv, OrderInv, NEW s \in Sessions, EndCommand(s) PROVE OrderInv'
<1>1. /\ UNCHANGED <<msgQueue, handled, sent, committed>>
      /\ pc[s] = "handler" /\ s \notin committed
      /\ \/ pc'[s] = "command" /\ at'[s] = at[s] + 1
         \/ pc'[s] = "inner" /\ at'[s] = at[s]
      /\ evtQueue'[s] = evtQueue[s] \o acts[s] /\ acts'[s] = <<>>
      /\ \A t \in Sessions \ {s} : /\ pc'[t] = pc[t] /\ at'[t] = at[t] /\ acts'[t] = acts[t]
                                   /\ evtQueue'[t] = evtQueue[t]
  BY DEF EndCommand, IInv, TypeOK, OrderInv, AfterCommit
<1>2. /\ evtQueue[s] \in Seq(Entries) /\ acts[s] \in Seq(Entries) /\ at[s] \in Nat
      /\ \A i \in DOMAIN evtQueue[s] : evtQueue[s][i] \in Entries
      /\ \A i \in DOMAIN acts[s] : i \in Nat /\ i > 0
  <2>1. evtQueue[s] \in Seq(Entries) /\ acts[s] \in Seq(Entries) /\ at[s] \in Nat
    BY DEF IInv, TypeOK
  <2> QED BY <2>1, LenProperties, ElementOfSeq
<1>3. Queued(s)
  BY DEF OrderInv
<1>4. Sorted(evtQueue'[s])
  <2>1. Sorted(acts[s])
    BY <1>2, <1>3 DEF Queued, Sorted, Before
  <2>2. \A i \in DOMAIN evtQueue[s], j \in DOMAIN acts[s] : Before(evtQueue[s][i], acts[s][j])
    BY <1>1, <1>3 DEF Queued, EventOf, Commanding, Before
  <2> QED BY <1>1, <1>2, <1>3, <2>1, <2>2, SortedConcat DEF Queued
<1>5. \A i \in DOMAIN evtQueue'[s] : EventOf(s, evtQueue[s][i])'
  <2>1. \A i \in DOMAIN evtQueue[s] :
          /\ evtQueue[s][i][1] = s /\ evtQueue[s][i][3] > 0 /\ evtQueue[s][i][2] < at[s]
          /\ evtQueue[s][i][2] \in Nat
    BY <1>1, <1>2, <1>3 DEF Queued, EventOf, Commanding, Entries
  <2>2. \A j \in DOMAIN acts[s] : acts[s][j] = <<s, at[s], j>> /\ j > 0
    BY <1>2, <1>3 DEF Queued
  <2>3. ASSUME NEW i \in DOMAIN evtQueue'[s]
        PROVE  /\ evtQueue'[s][i][1] = s /\ evtQueue'[s][i][3] > 0
               /\ evtQueue'[s][i][2] <= at[s]
    <3>1. CASE i \in DOMAIN evtQueue[s] /\ evtQueue'[s][i] = evtQueue[s][i]
      BY <1>2, <2>1, <3>1
    <3>2. CASE i - Len(evtQueue[s]) \in DOMAIN acts[s]
               /\ evtQueue'[s][i] = acts[s][i - Len(evtQueue[s])]
      BY <1>2, <2>2, <3>2
    <3>3. \/ i \in DOMAIN evtQueue[s] /\ evtQueue'[s][i] = evtQueue[s][i]
          \/ /\ i - Len(evtQueue[s]) \in DOMAIN acts[s]
             /\ evtQueue'[s][i] = acts[s][i - Len(evtQueue[s])]
      <4> DEFINE p == evtQueue[s]
                 q == acts[s]
                 r == evtQueue'[s]
      <4>1. p \in Seq(Entries) /\ q \in Seq(Entries) /\ r = p \o q /\ i \in DOMAIN r
        BY <1>1, <1>2
      <4> HIDE DEF p, q, r
      <4>2. \/ i \in DOMAIN p /\ r[i] = p[i]
            \/ i - Len(p) \in DOMAIN q /\ r[i] = q[i - Len(p)]
        BY <4>1, ConcatenatedAt
      <4> QED BY <4>2 DEF p, q, r
    <3> QED BY <3>1, <3>2, <3>3
  <2>4. ASSUME NEW i \in DOMAIN evtQueue'[s] PROVE evtQueue'[s][i][2] \in Nat
    <3>1. evtQueue'[s] \in Seq(Entries)
      BY <1>1, <1>2, ConcatProperties
    <3>2. evtQueue'[s][i] \in Entries
      BY <3>1, LenProperties, ElementOfSeq
    <3> QED BY <3>2 DEF Entries
  <2>5. \A n \in Nat : n <= at[s] => n <= at'[s] /\ (pc'[s] = "command" => n < at'[s])
    BY <1>1, <1>2
  <2>6. pc'[s] \notin Commanding
    BY <1>1 DEF Commanding
  <2> QED BY <2>3, <2>4, <2>5, <2>6 DEF EventOf
<1>6. \A i \in DOMAIN msgQueue'[s] : MessageOf(s, msgQueue[s][i])'
  <2>1. \A i \in DOMAIN msgQueue[s] : msgQueue[s][i][2] \in Nat
    <3>1. msgQueue[s] \in Seq(Entries)
      BY DEF IInv, TypeOK
    <3>2. \A i \in DOMAIN msgQueue[s] : msgQueue[s][i] \in Entries
      BY <3>1, LenProperties, ElementOfSeq
    <3> QED BY <3>2 DEF Entries
  <2> QED BY <1>1, <1>2, <1>3, <2>1 DEF Queued, MessageOf
<1>7. InOrder(handled)' /\ InOrder(sent)'
  BY <1>1 DEF OrderInv, InOrder, Before
<1>8. ASSUME NEW t \in Sessions PROVE Handed(t)'
  <2>1. Handed(t)
    BY DEF OrderInv
  <2> QED BY <1>1, <2>1 DEF Handed, HandedBefore, Before
<1>9. ASSUME NEW t \in Sessions PROVE Queued(t)' /\ AfterCommit(t)'
  <2>1. Queued(t) /\ AfterCommit(t)
    BY DEF OrderInv
  <2>2. CASE t # s
    BY <1>1, <2>1, <2>2 DEF Queued, Sorted, Before, EventOf, MessageOf, AfterCommit
  <2>3. CASE t = s
    <3>1. Sorted(evtQueue[s])'
      BY <1>4 DEF Sorted, Before
    <3>2. Sorted(msgQueue[s])'
      <4>1. Sorted(msgQueue[s]) /\ msgQueue' = msgQueue
        BY <1>1, <1>3 DEF Queued
      <4> QED BY <4>1 DEF Sorted, Before
    <3>3. \A i \in DOMAIN acts'[s] : acts'[s][i] = <<s, at'[s], i>>
      BY <1>1
    <3>4. Queued(s)'
      BY <1>1, <1>5, <1>6, <3>1, <3>2, <3>3 DEF Queued
    <3> QED BY <1>1, <2>1, <2>3, <3>4 DEF AfterCommit
  <2> QED BY <2>2, <2>3
<1> QED BY <1>7, <1>8, <1>9 DEF OrderInv

(* The oldest of a queue goes to the end of what was handed over.          *)
LEMMA HandOver ==
  ASSUME NEW s \in Sessions, NEW queue \in Seq(Entries), queue # <<>>, NEW q \in Seq(Entries),
         InOrder(q), Sorted(queue), HandedBefore(q, queue, s), s \in committed,
         Head(queue)[1] = s
  PROVE  /\ InOrder(Append(q, Head(queue)))
         /\ HandedBefore(Append(q, Head(queue)), Tail(queue), s)
         /\ \A t \in Sessions \ {s} : \A other :
              HandedBefore(q, other, t) => HandedBefore(Append(q, Head(queue)), other, t)
<1> DEFINE x == Head(queue)
           r == Append(q, x)
<1>1. x \in Entries /\ x = queue[1] /\ 1 \in DOMAIN queue
  BY HeadTailProperties, QueueHead
<1>2. /\ DOMAIN q \subseteq Nat /\ Len(q) + 1 \notin DOMAIN q /\ Len(q) + 1 \in Nat
      /\ DOMAIN r = DOMAIN q \cup {Len(q) + 1}
      /\ \A i \in DOMAIN q : r[i] = q[i] /\ i < Len(q) + 1
      /\ r[Len(q) + 1] = x
  BY <1>1, Appended
<1>3. \A i \in DOMAIN q : q[i][1] = s => Before(q[i], x)
  BY <1>1 DEF HandedBefore
<1> HIDE DEF x, r
<1>4. InOrder(r)
  <2> SUFFICES ASSUME NEW i \in DOMAIN r, NEW j \in DOMAIN r, i < j, r[i][1] = r[j][1]
               PROVE  Before(r[i], r[j])
    BY DEF InOrder
  <2>1. i \in DOMAIN q /\ r[i] = q[i]
    BY <1>2
  <2>2. CASE j \in DOMAIN q
    BY <1>2, <2>1, <2>2 DEF InOrder
  <2>3. CASE j = Len(q) + 1
    <3>1. x[1] = s
      BY DEF x
    <3> QED BY <1>2, <1>3, <2>1, <2>3, <3>1
  <2> QED BY <1>2, <2>2, <2>3
<1>5. HandedBefore(r, Tail(queue), s)
  <2>1. \A j \in DOMAIN Tail(queue) : j + 1 \in DOMAIN queue /\ Tail(queue)[j] = queue[j + 1]
    BY QueueHead
  <2>2. \A j \in DOMAIN Tail(queue) : Before(x, Tail(queue)[j])
    BY SortedTail DEF x
  <2> QED BY <1>2, <2>1, <2>2 DEF HandedBefore
<1>6. ASSUME NEW t \in Sessions \ {s}, NEW other, HandedBefore(q, other, t)
      PROVE  HandedBefore(r, other, t)
  <2>1. x[1] = s
    BY DEF x
  <2> QED BY <1>2, <1>6, <2>1 DEF HandedBefore
<1> QED BY <1>4, <1>5, <1>6 DEF x, r

LEMMA OrderHandle == ASSUME IInv, OrderInv, NEW s \in Sessions, HandleEvent(s) PROVE OrderInv'
<1>1. /\ UNCHANGED <<at, acts, pc, msgQueue, sent, committed>>
      /\ pc[s] = "deliver" /\ evtQueue[s] # <<>>
      /\ handled' = Append(handled, Head(evtQueue[s])) /\ evtQueue'[s] = Tail(evtQueue[s])
      /\ \A t \in Sessions \ {s} : evtQueue'[t] = evtQueue[t]
  BY DEF HandleEvent, Delivers, IInv, TypeOK
<1>2. evtQueue[s] \in Seq(Entries) /\ handled \in Seq(Entries)
  BY DEF IInv, TypeOK
<1>3. Queued(s) /\ Handed(s) /\ s \in committed /\ InOrder(handled)
  BY <1>1 DEF OrderInv, AfterCommit
<1>4. Head(evtQueue[s])[1] = s
  BY <1>1, <1>2, <1>3, QueueHead DEF Queued, EventOf
<1>5. /\ InOrder(handled') /\ HandedBefore(handled', evtQueue'[s], s)
      /\ \A t \in Sessions \ {s} : \A other :
           HandedBefore(handled, other, t) => HandedBefore(handled', other, t)
  BY <1>1, <1>2, <1>3, <1>4, HandOver DEF Queued, Handed
<1>6. InOrder(handled)' /\ InOrder(sent)'
  BY <1>1, <1>5 DEF OrderInv, InOrder, Before
<1>7. ASSUME NEW t \in Sessions PROVE Handed(t)'
  <2>1. HandedBefore(sent, msgQueue[t], t) /\ HandedBefore(handled, evtQueue[t], t)
    BY DEF OrderInv, Handed
  <2>2. HandedBefore(handled', evtQueue'[t], t)
    BY <1>1, <1>5, <2>1
  <2>3. HandedBefore(handled, evtQueue[t], t)' /\ HandedBefore(sent, msgQueue[t], t)'
    BY <1>1, <2>1, <2>2 DEF HandedBefore, Before
  <2> QED BY <2>3 DEF Handed
<1>8. ASSUME NEW t \in Sessions PROVE Queued(t)' /\ AfterCommit(t)'
  <2>1. Queued(t) /\ AfterCommit(t)
    BY DEF OrderInv
  <2>2. CASE t # s
    BY <1>1, <2>1, <2>2 DEF Queued, Sorted, Before, EventOf, MessageOf, AfterCommit
  <2>3. CASE t = s
    <3>1. Sorted(evtQueue'[s])
      BY <1>1, <1>2, <1>3, SortedTail DEF Queued
    <3>2. \A i \in DOMAIN evtQueue'[s] : \E j \in DOMAIN evtQueue[s] :
            evtQueue'[s][i] = evtQueue[s][j]
      BY <1>1, <1>2, QueueHead
    <3>3. \A i \in DOMAIN evtQueue'[s] : EventOf(s, evtQueue[s][i])'
      BY <1>1, <1>3, <3>2 DEF Queued, EventOf, Commanding
    <3>4. \A i \in DOMAIN msgQueue'[s] : MessageOf(s, msgQueue[s][i])'
      BY <1>1, <1>3 DEF Queued, MessageOf
    <3>5. Sorted(evtQueue[s])'
      BY <3>1 DEF Sorted, Before
    <3>6. Sorted(msgQueue[s])'
      BY <1>1, <1>3 DEF Queued, Sorted, Before
    <3> QED BY <1>1, <1>3, <2>1, <2>3, <3>3, <3>4, <3>5, <3>6 DEF Queued, AfterCommit
  <2> QED BY <2>2, <2>3
<1> QED BY <1>6, <1>7, <1>8 DEF OrderInv

LEMMA OrderDispatch ==
  ASSUME IInv, OrderInv, NEW s \in Sessions, DispatchMessage(s) PROVE OrderInv'
<1>1. /\ UNCHANGED <<at, acts, pc, evtQueue, handled, committed>>
      /\ pc[s] = "deliver" /\ msgQueue[s] # <<>>
      /\ sent' = Append(sent, Head(msgQueue[s])) /\ msgQueue'[s] = Tail(msgQueue[s])
      /\ \A t \in Sessions \ {s} : msgQueue'[t] = msgQueue[t]
  BY DEF DispatchMessage, Delivers, IInv, TypeOK
<1>2. msgQueue[s] \in Seq(Entries) /\ sent \in Seq(Entries)
  BY DEF IInv, TypeOK
<1>3. Queued(s) /\ Handed(s) /\ s \in committed /\ InOrder(sent)
  BY <1>1 DEF OrderInv, AfterCommit
<1>4. Head(msgQueue[s])[1] = s
  BY <1>1, <1>2, <1>3, QueueHead DEF Queued, MessageOf
<1>5. /\ InOrder(sent') /\ HandedBefore(sent', msgQueue'[s], s)
      /\ \A t \in Sessions \ {s} : \A other :
           HandedBefore(sent, other, t) => HandedBefore(sent', other, t)
  BY <1>1, <1>2, <1>3, <1>4, HandOver DEF Queued, Handed
<1>6. InOrder(handled)' /\ InOrder(sent)'
  BY <1>1, <1>5 DEF OrderInv, InOrder, Before
<1>7. ASSUME NEW t \in Sessions PROVE Handed(t)'
  <2>1. HandedBefore(sent, msgQueue[t], t) /\ HandedBefore(handled, evtQueue[t], t)
    BY DEF OrderInv, Handed
  <2>2. HandedBefore(sent', msgQueue'[t], t)
    BY <1>1, <1>5, <2>1
  <2>3. HandedBefore(handled, evtQueue[t], t)' /\ HandedBefore(sent, msgQueue[t], t)'
    BY <1>1, <2>1, <2>2 DEF HandedBefore, Before
  <2> QED BY <2>3 DEF Handed
<1>8. ASSUME NEW t \in Sessions PROVE Queued(t)' /\ AfterCommit(t)'
  <2>1. Queued(t) /\ AfterCommit(t)
    BY DEF OrderInv
  <2>2. CASE t # s
    BY <1>1, <2>1, <2>2 DEF Queued, Sorted, Before, EventOf, MessageOf, AfterCommit
  <2>3. CASE t = s
    <3>1. Sorted(msgQueue'[s])
      BY <1>1, <1>2, <1>3, SortedTail DEF Queued
    <3>2. \A i \in DOMAIN msgQueue'[s] : \E j \in DOMAIN msgQueue[s] :
            msgQueue'[s][i] = msgQueue[s][j]
      BY <1>1, <1>2, QueueHead
    <3>3. \A i \in DOMAIN msgQueue'[s] : MessageOf(s, msgQueue[s][i])'
      BY <1>1, <1>3, <3>2 DEF Queued, MessageOf
    <3>4. \A i \in DOMAIN evtQueue'[s] : EventOf(s, evtQueue[s][i])'
      BY <1>1, <1>3 DEF Queued, EventOf
    <3>5. Sorted(msgQueue[s])'
      BY <3>1 DEF Sorted, Before
    <3>6. Sorted(evtQueue[s])'
      BY <1>1, <1>3 DEF Queued, Sorted, Before
    <3> QED BY <1>1, <1>3, <2>1, <2>3, <3>3, <3>4, <3>5, <3>6 DEF Queued, AfterCommit
  <2> QED BY <2>2, <2>3
<1> QED BY <1>6, <1>7, <1>8 DEF OrderInv

(* The steps that only move a session, commit, answer or fail.             *)
LEMMA OrderMoves ==
  ASSUME IInv, OrderInv, NEW s \in Sessions,
         \/ ClientLoads(s) \/ Open(s) \/ BeginCommand(s) \/ IssueWrite(s)
         \/ CommitLog(s) \/ CommitState(s) \/ Respond(s) \/ Raise(s) \/ Refuse(s)
  PROVE  OrderInv'
<1>1. UNCHANGED <<at, acts, evtQueue, msgQueue, handled, sent>>
  BY DEF ClientLoads, Open, BeginCommand, IssueWrite, CommitLog, CommitState, Respond,
         Raise, Refuse, Fail, queues, shared
<1>2. /\ committed' = committed \/ (committed' = committed \cup {s} /\ pc'[s] = "deliver")
      /\ \A t \in Sessions \ {s} : pc'[t] = pc[t]
      /\ \/ pc'[s] = "failed"
         \/ pc[s] = "idle" /\ pc'[s] = "loaded"
         \/ pc[s] = "loaded" /\ pc'[s] = "command"
         \/ pc[s] = "command" /\ pc'[s] = "handler"
         \/ pc[s] = "handler" /\ pc'[s] = "writing"
         \/ pc[s] = "inner" /\ pc'[s] = "outer"
         \/ pc[s] = "outer" /\ pc'[s] = "deliver" /\ committed' = committed \cup {s}
         \/ pc[s] = "deliver" /\ pc'[s] = "done" /\ Delivered(s)
  <2>1. CASE ClientLoads(s) \/ Open(s) \/ BeginCommand(s) \/ IssueWrite(s)
    BY <2>1 DEF ClientLoads, Open, BeginCommand, IssueWrite, shared, IInv, TypeOK
  <2>2. CASE CommitLog(s) \/ CommitState(s)
    BY <2>2 DEF CommitLog, CommitState, Leaves, Inner, AfterExit, IInv, TypeOK
  <2>3. CASE Respond(s) \/ Raise(s) \/ Refuse(s)
    BY <2>3 DEF Respond, Raise, Refuse, Fail, shared, IInv, TypeOK
  <2> QED BY <2>1, <2>2, <2>3
<1>3. Queued(s) /\ AfterCommit(s)
  BY DEF OrderInv
<1>4. AfterCommit(s)'
  BY <1>2, <1>3 DEF AfterCommit
<1>5. /\ pc'[s] \in {"idle", "loaded", "done"} => evtQueue[s] = <<>> /\ msgQueue[s] = <<>>
      /\ pc'[s] \in Commanding
           => pc[s] \in Commanding \cup {"command"} \/ (evtQueue[s] = <<>> /\ msgQueue[s] = <<>>)
      /\ pc'[s] = "command"
           => pc[s] = "command" \/ (evtQueue[s] = <<>> /\ msgQueue[s] = <<>>)
  <2>1. pc[s] \in {"idle", "loaded"} => evtQueue[s] = <<>> /\ msgQueue[s] = <<>>
    BY <1>3 DEF Queued
  <2>2. pc'[s] \in {"idle", "loaded", "done"} => evtQueue[s] = <<>> /\ msgQueue[s] = <<>>
    BY <1>2, <2>1 DEF Delivered
  <2>3. pc'[s] = "command"
          => pc[s] = "command" \/ (evtQueue[s] = <<>> /\ msgQueue[s] = <<>>)
    BY <1>2, <2>1
  <2>4. pc'[s] \in {"handler", "writing"} => pc[s] \in {"handler", "writing", "command"}
    BY <1>2
  <2> QED BY <2>2, <2>3, <2>4 DEF Commanding
<1> QED BY <1>1, <1>2, <1>4, <1>5, OrderQuiet

LEMMA OrderInit == Init => OrderInv
<1> SUFFICES ASSUME Init PROVE OrderInv
  OBVIOUS
<1>1. /\ handled = <<>> /\ sent = <<>> /\ committed = {}
      /\ \A s \in Sessions : /\ pc[s] = "idle" /\ acts[s] = <<>>
                             /\ evtQueue[s] = <<>> /\ msgQueue[s] = <<>>
  BY DEF Init
<1>2. DOMAIN handled = {} /\ DOMAIN sent = {}
  BY <1>1
<1>3. InOrder(handled) /\ InOrder(sent)
  BY <1>2 DEF InOrder
<1>4. ASSUME NEW s \in Sessions PROVE Queued(s) /\ Handed(s) /\ AfterCommit(s)
  <2>1. Handed(s)
    BY <1>2 DEF Handed, HandedBefore
  <2>2. DOMAIN acts[s] = {} /\ DOMAIN evtQueue[s] = {} /\ DOMAIN msgQueue[s] = {}
    BY <1>1
  <2>3. Queued(s) /\ AfterCommit(s)
    BY <1>1, <2>2 DEF Queued, Sorted, AfterCommit
  <2> QED BY <2>1, <2>3
<1> QED BY <1>3, <1>4 DEF OrderInv

LEMMA OrderNext == IInv /\ OrderInv /\ [Next]_vars => OrderInv'
<1> SUFFICES ASSUME IInv, OrderInv, [Next]_vars PROVE OrderInv'
  OBVIOUS
<1>1. CASE UNCHANGED vars
  <2>1. UNCHANGED <<at, pc, acts, evtQueue, msgQueue, handled, sent, committed>>
    BY <1>1 DEF vars, session, queues, shared
  <2>2. InOrder(handled)' /\ InOrder(sent)'
    BY <2>1 DEF OrderInv, InOrder, Before
  <2>3. ASSUME NEW s \in Sessions PROVE Queued(s)' /\ Handed(s)' /\ AfterCommit(s)'
    <3>1. Queued(s) /\ Handed(s) /\ AfterCommit(s)
      BY DEF OrderInv
    <3>2. Queued(s)'
      BY <2>1, <3>1 DEF Queued, Sorted, Before, EventOf, MessageOf
    <3> QED BY <2>1, <3>1, <3>2 DEF Handed, HandedBefore, AfterCommit, Before
  <2> QED BY <2>2, <2>3 DEF OrderInv
<1>2. ASSUME NEW s \in Sessions, ClientLoads(s) \/ Open(s) \/ Step(s) \/ Raise(s)
      PROVE  OrderInv'
  BY <1>2, OrderWrite, OrderYield, OrderEnd, OrderHandle, OrderDispatch, OrderMoves DEF Step
<1> QED BY <1>1, <1>2 DEF Next

(* Events and messages are handed over only after their session's          *)
(* transactions have committed, each once and in the order of its commands *)
(* and actions (process_command, then handle_events and                    *)
(* dispatch_messages, which consume_queue empties from the front).         *)
THEOREM DeliveryInOrder == Spec => []DeliveredInOrder
<1>1. ASSUME IInv, OrderInv PROVE DeliveredInOrder
  <2> SUFFICES ASSUME NEW q \in {handled, sent}, NEW i \in DOMAIN q
               PROVE  /\ q[i][1] \in committed
                      /\ \A j \in 1 .. i - 1 : q[j][1] = q[i][1] => Before(q[j], q[i])
    BY DEF DeliveredInOrder
  <2>1. q \in Seq(Entries) /\ InOrder(q)
    BY <1>1 DEF IInv, TypeOK, OrderInv
  <2>2. DOMAIN q = 1 .. Len(q) /\ Len(q) \in Nat /\ q[i] \in Entries
    BY <2>1, LenProperties, ElementOfSeq
  <2>3. q[i][1] \in Sessions
    BY <2>2 DEF Entries
  <2>4. q[i][1] \in committed
    BY <1>1, <2>3 DEF OrderInv, Handed, HandedBefore
  <2>5. ASSUME NEW j \in 1 .. i - 1, q[j][1] = q[i][1] PROVE Before(q[j], q[i])
    <3>1. i \in Nat /\ i \in 1 .. Len(q)
      BY <2>2
    <3>2. j \in DOMAIN q /\ j < i
      BY <2>2, <3>1
    <3> QED BY <2>1, <2>5, <3>2 DEF InOrder
  <2> QED BY <2>4, <2>5
<1>2. Init => OrderInv BY OrderInit
<1>3. IInv /\ IInv' /\ OrderInv /\ [Next]_vars => OrderInv' BY OrderNext
<1>4. IInv /\ OrderInv => DeliveredInOrder BY <1>1
<1> QED BY <1>2, <1>3, <1>4, PipelineInvariant, PTL DEF Spec
-----------------------------------------------------------------------------
(* What the log has of a session is what its transaction logged: nothing   *)
(* before that commits, then the events still queued and those handled.    *)
Of(s, entries)     == {e \in entries : e[1] = s}
Events(s, entries) == {e \in Of(s, entries) : e[3] > 0}
Working == {"command", "handler", "writing", "inner"}
Logged(s) ==
  /\ logged[s] = Of(s, logged[s])
  /\ pc[s] \in {"idle", "loaded"} \cup Working => Of(s, log) = {}
  /\ pc[s] \in Working => Events(s, logged[s]) = Members(evtQueue[s])
  /\ pc[s] \in {"outer", "deliver", "done"} =>
       Events(s, log) = Members(evtQueue[s]) \cup Of(s, Members(handled))
LoggedInv ==
  /\ \A e \in Members(handled) : e[3] > 0
  /\ \A s \in Sessions : Logged(s)

(* What a step of one session does not touch of the others.                *)
LEMMA LoggedElsewhere ==
  ASSUME NEW t \in Sessions, Logged(t), pc'[t] = pc[t], logged'[t] = logged[t],
         evtQueue'[t] = evtQueue[t], Of(t, log') = Of(t, log),
         Of(t, Members(handled')) = Of(t, Members(handled))
  PROVE  Logged(t)'
<1> DEFINE L == log
           H == Members(handled)
<1>1. Members(evtQueue'[t]) = Members(evtQueue[t])
  OBVIOUS
<1>2. Events(t, log') = Events(t, log) /\ Events(t, logged'[t]) = Events(t, logged[t])
  BY DEF Events
<1>3. /\ logged'[t] = Of(t, logged'[t])
      /\ pc'[t] \in {"idle", "loaded"} \cup Working => Of(t, log') = {}
      /\ pc'[t] \in Working => Events(t, logged'[t]) = Members(evtQueue'[t])
      /\ pc'[t] \in {"outer", "deliver", "done"} =>
           Events(t, log') = Members(evtQueue'[t]) \cup Of(t, Members(handled'))
  BY <1>1, <1>2 DEF Logged
<1> QED BY <1>3 DEF Logged, Of, Events, Members

(* A step that logs and handles nothing: the session moves on, or fails.   *)
LEMMA LoggedMoves ==
  ASSUME IInv, OrderInv, LoggedInv, NEW s \in Sessions,
         UNCHANGED <<log, handled, evtQueue>>,
         \A t \in Sessions \ {s} : pc'[t] = pc[t] /\ logged'[t] = logged[t],
         \/ pc'[s] = "failed" /\ logged'[s] = {}
         \/ logged'[s] = logged[s] /\ \/ pc[s] = "idle" /\ pc'[s] = "loaded"
                                      \/ pc[s] = "loaded" /\ pc'[s] = "command"
                                      \/ {pc[s], pc'[s]} \subseteq Working
                                      \/ {pc[s], pc'[s]} \subseteq {"outer", "deliver", "done"}
  PROVE  LoggedInv'
<1>1. Logged(s) /\ Queued(s)
  BY DEF LoggedInv, OrderInv
<1>2. Logged(s)'
  <2>1. CASE pc'[s] = "failed" /\ logged'[s] = {}
    BY <2>1 DEF Logged, Working, Of
  <2>2. CASE logged'[s] = logged[s] /\ pc[s] = "idle" /\ pc'[s] = "loaded"
    BY <1>1, <2>2 DEF Logged, Working, Of
  <2>3. CASE logged'[s] = logged[s] /\ pc[s] = "loaded" /\ pc'[s] = "command"
    <3>1. logged[s] = {} /\ evtQueue[s] = <<>>
      BY <1>1, <2>3 DEF IInv, TypeOK, InTransaction, Queued
    <3>2. Members(<<>>) = {}
      BY DEF Members
    <3>3. Events(s, logged[s]) = Members(evtQueue[s])
      BY <3>1, <3>2 DEF Events, Of
    <3> QED BY <1>1, <2>3, <3>3 DEF Logged, Working, Of, Events, Members
  <2>4. CASE logged'[s] = logged[s] /\ {pc[s], pc'[s]} \subseteq Working
    BY <1>1, <2>4 DEF Logged, Working, Of, Events, Members
  <2>5. CASE logged'[s] = logged[s] /\ {pc[s], pc'[s]} \subseteq {"outer", "deliver", "done"}
    BY <1>1, <2>5 DEF Logged, Working, Of, Events, Members
  <2> QED BY <2>1, <2>2, <2>3, <2>4, <2>5
<1>3. ASSUME NEW t \in Sessions \ {s} PROVE Logged(t)'
  BY LoggedElsewhere DEF LoggedInv
<1>4. \A e \in Members(handled)' : e[3] > 0
  BY DEF LoggedInv, Members
<1> QED BY <1>2, <1>3, <1>4 DEF LoggedInv

LEMMA LoggedQuiet ==
  ASSUME IInv, OrderInv, LoggedInv, NEW s \in Sessions,
         \/ ClientLoads(s) \/ Open(s) \/ IssueWrite(s) \/ Write(s) \/ YieldMessage(s)
         \/ CommitState(s) \/ DispatchMessage(s) \/ Respond(s) \/ Raise(s) \/ Refuse(s)
  PROVE  LoggedInv'
<1>1. UNCHANGED <<log, handled, evtQueue>>
  BY DEF ClientLoads, Open, IssueWrite, Write, YieldMessage, CommitState, DispatchMessage,
         Respond, Raise, Refuse, Fail, queues, shared
<1>2. CASE ClientLoads(s) \/ Open(s) \/ IssueWrite(s) \/ Write(s) \/ YieldMessage(s)
  <2>1. /\ \A t \in Sessions : logged'[t] = logged[t]
        /\ \A t \in Sessions \ {s} : pc'[t] = pc[t]
        /\ \/ pc[s] = "idle" /\ pc'[s] = "loaded"
           \/ pc[s] = "loaded" /\ pc'[s] = "command"
           \/ {pc[s], pc'[s]} \subseteq Working
    BY <1>2 DEF ClientLoads, Open, IssueWrite, Write, YieldMessage, session, buffers, IInv,
                TypeOK, Working
  <2> QED BY <1>1, <2>1, LoggedMoves
<1>3. CASE CommitState(s) \/ DispatchMessage(s) \/ Respond(s)
  <2>1. /\ \A t \in Sessions : logged'[t] = logged[t]
        /\ \A t \in Sessions \ {s} : pc'[t] = pc[t]
        /\ {pc[s], pc'[s]} \subseteq {"outer", "deliver", "done"}
    BY <1>3 DEF CommitState, Leaves, Inner, AfterExit, DispatchMessage, Delivers, Respond,
                session, buffers, IInv, TypeOK
  <2> QED BY <1>1, <2>1, LoggedMoves
<1>4. CASE Raise(s) \/ Refuse(s)
  <2>1. /\ \A t \in Sessions \ {s} : pc'[t] = pc[t] /\ logged'[t] = logged[t]
        /\ pc'[s] = "failed" /\ logged'[s] = {}
    BY <1>4 DEF Raise, Refuse, Fail, RollBack, IInv, TypeOK
  <2> QED BY <1>1, <2>1, LoggedMoves
<1> QED BY <1>2, <1>3, <1>4

LEMMA LoggedBegin ==
  ASSUME IInv, OrderInv, LoggedInv, NEW s \in Sessions, BeginCommand(s) PROVE LoggedInv'
<1>1. /\ UNCHANGED <<log, handled, evtQueue>>
      /\ pc[s] = "command" /\ pc'[s] = "handler"
      /\ logged'[s] = logged[s] \cup {<<s, at[s], 0>>}
      /\ \A t \in Sessions \ {s} : pc'[t] = pc[t] /\ logged'[t] = logged[t]
  BY DEF BeginCommand, Command, queues, shared, IInv, TypeOK
<1>2. Logged(s)
  BY DEF LoggedInv
<1>3. logged'[s] = Of(s, logged'[s]) /\ Events(s, logged'[s]) = Events(s, logged[s])
  BY <1>1, <1>2 DEF Logged, Events, Of
<1>4. Logged(s)'
  <2>1. Events(s, logged'[s]) = Members(evtQueue'[s]) /\ Of(s, log') = {}
    BY <1>1, <1>2, <1>3 DEF Logged, Working
  <2> QED BY <1>1, <1>3, <2>1 DEF Logged, Working, Of, Events, Members
<1>5. ASSUME NEW t \in Sessions \ {s} PROVE Logged(t)'
  BY <1>1, LoggedElsewhere DEF LoggedInv
<1>6. \A e \in Members(handled)' : e[3] > 0
  BY <1>1 DEF LoggedInv, Members
<1> QED BY <1>4, <1>5, <1>6 DEF LoggedInv

LEMMA LoggedEnd ==
  ASSUME IInv, OrderInv, LoggedInv, NEW s \in Sessions, EndCommand(s) PROVE LoggedInv'
<1>1. /\ UNCHANGED <<log, handled>>
      /\ pc[s] = "handler" /\ pc'[s] \in {"command", "inner"}
      /\ logged'[s] = logged[s] \cup Members(acts[s])
      /\ evtQueue'[s] = evtQueue[s] \o acts[s]
      /\ \A t \in Sessions \ {s} : /\ pc'[t] = pc[t] /\ logged'[t] = logged[t]
                                   /\ evtQueue'[t] = evtQueue[t]
  BY DEF EndCommand, IInv, TypeOK
<1>2. Logged(s) /\ Queued(s)
  BY DEF LoggedInv, OrderInv
<1>3. \A e \in Members(acts[s]) : e[1] = s /\ e[3] > 0
  <2>1. acts[s] \in Seq(Entries)
    BY DEF IInv, TypeOK
  <2>2. \A i \in DOMAIN acts[s] : i > 0 /\ acts[s][i] = <<s, at[s], i>>
    BY <1>2, <2>1, LenProperties DEF Queued
  <2> QED BY <2>2 DEF Members
<1>4. Members(evtQueue'[s]) = Members(evtQueue[s]) \cup Members(acts[s])
  BY <1>1, MembersConcat DEF IInv, TypeOK
<1>5. /\ logged'[s] = Of(s, logged'[s])
      /\ Events(s, logged'[s]) = Events(s, logged[s]) \cup Members(acts[s])
  BY <1>1, <1>2, <1>3 DEF Logged, Events, Of
<1>6. Logged(s)'
  <2>1. Events(s, logged'[s]) = Members(evtQueue'[s]) /\ Of(s, log') = {}
    BY <1>1, <1>2, <1>4, <1>5 DEF Logged, Working
  <2> QED BY <1>1, <1>5, <2>1 DEF Logged, Working, Of, Events, Members
<1>7. ASSUME NEW t \in Sessions \ {s} PROVE Logged(t)'
  BY <1>1, LoggedElsewhere DEF LoggedInv
<1>8. \A e \in Members(handled)' : e[3] > 0
  BY <1>1 DEF LoggedInv, Members
<1> QED BY <1>6, <1>7, <1>8 DEF LoggedInv

LEMMA LoggedCommit ==
  ASSUME IInv, OrderInv, LoggedInv, NEW s \in Sessions, CommitLog(s) PROVE LoggedInv'
<1>1. /\ UNCHANGED <<handled, evtQueue>>
      /\ pc[s] = "inner" /\ pc'[s] = "outer"
      /\ logged'[s] = {} /\ log' = log \cup logged[s]
      /\ \A t \in Sessions \ {s} : pc'[t] = pc[t] /\ logged'[t] = logged[t]
  BY DEF CommitLog, Leaves, Inner, AfterExit, queues, IInv, TypeOK
<1>2. Logged(s) /\ Handed(s) /\ AfterCommit(s)
  BY DEF LoggedInv, OrderInv
<1>3. Of(s, Members(handled)) = {}
  <2>1. s \notin committed
    BY <1>1, <1>2 DEF AfterCommit
  <2> QED BY <1>2, <2>1 DEF Handed, HandedBefore, Of, Members
<1>4. Events(s, log') = Events(s, logged[s])
  BY <1>1, <1>2 DEF Logged, Working, Events, Of
<1>5. Logged(s)'
  <2>1. Events(s, log') = Members(evtQueue'[s]) \cup Of(s, Members(handled'))
    BY <1>1, <1>2, <1>3, <1>4 DEF Logged, Working
  <2> QED BY <1>1, <2>1 DEF Logged, Working, Of, Events, Members
<1>6. ASSUME NEW t \in Sessions \ {s} PROVE Logged(t)'
  <2>1. Of(t, log') = Of(t, log)
    BY <1>1, <1>2 DEF Logged, Of
  <2> QED BY <1>1, <2>1, LoggedElsewhere DEF LoggedInv
<1>7. \A e \in Members(handled)' : e[3] > 0
  BY <1>1 DEF LoggedInv, Members
<1> QED BY <1>5, <1>6, <1>7 DEF LoggedInv

LEMMA LoggedHandle ==
  ASSUME IInv, OrderInv, LoggedInv, NEW s \in Sessions, HandleEvent(s) PROVE LoggedInv'
<1> DEFINE x == Head(evtQueue[s])
<1>1. /\ UNCHANGED <<pc, log, logged>> /\ pc[s] = "deliver" /\ evtQueue[s] # <<>>
      /\ handled' = Append(handled, x) /\ evtQueue'[s] = Tail(evtQueue[s])
      /\ \A t \in Sessions \ {s} : evtQueue'[t] = evtQueue[t]
  BY DEF HandleEvent, Delivers, session, buffers, IInv, TypeOK
<1>2. evtQueue[s] \in Seq(Entries) /\ handled \in Seq(Entries) /\ x \in Entries
  BY <1>1, HeadTailProperties DEF IInv, TypeOK
<1>3. Logged(s) /\ Queued(s)
  BY DEF LoggedInv, OrderInv
<1>4. x[1] = s /\ x[3] > 0
  BY <1>1, <1>2, <1>3, QueueHead DEF Queued, EventOf
<1>5. Members(evtQueue[s]) = {x} \cup Members(evtQueue'[s])
  BY <1>1, <1>2, QueueHead
<1>6. Members(handled') = Members(handled) \cup {x}
  <2> HIDE DEF x
  <2> QED BY <1>1, <1>2, Appended DEF Members
<1> HIDE DEF x
<1>7. Logged(s)'
  <2>1. Of(s, Members(handled')) = Of(s, Members(handled)) \cup {x}
    BY <1>4, <1>6 DEF Of
  <2>2. Events(s, log') = Members(evtQueue'[s]) \cup Of(s, Members(handled'))
    BY <1>1, <1>3, <1>5, <2>1 DEF Logged
  <2>3. logged'[s] = Of(s, logged'[s])
    BY <1>1, <1>3 DEF Logged
  <2> QED BY <1>1, <2>2, <2>3 DEF Logged, Working, Of, Events, Members
<1>8. ASSUME NEW t \in Sessions \ {s} PROVE Logged(t)'
  <2>1. Of(t, Members(handled')) = Of(t, Members(handled))
    BY <1>4, <1>6 DEF Of
  <2> QED BY <1>1, <2>1, LoggedElsewhere DEF LoggedInv
<1>9. \A e \in Members(handled)' : e[3] > 0
  <2>1. \A e \in Members(handled') : e[3] > 0
    BY <1>4, <1>6 DEF LoggedInv
  <2> QED BY <2>1 DEF Members
<1> QED BY <1>7, <1>8, <1>9 DEF LoggedInv

LEMMA LoggedInit == Init => LoggedInv
<1> SUFFICES ASSUME Init PROVE LoggedInv
  OBVIOUS
<1>1. /\ handled = <<>> /\ log = {}
      /\ \A s \in Sessions : pc[s] = "idle" /\ logged[s] = {}
  BY DEF Init
<1>2. Members(handled) = {}
  BY <1>1 DEF Members
<1> QED BY <1>1, <1>2 DEF LoggedInv, Logged, Of, Working

LEMMA LoggedNext == IInv /\ OrderInv /\ LoggedInv /\ [Next]_vars => LoggedInv'
<1> SUFFICES ASSUME IInv, OrderInv, LoggedInv, [Next]_vars PROVE LoggedInv'
  OBVIOUS
<1>1. CASE UNCHANGED vars
  <2>1. UNCHANGED <<pc, log, logged, evtQueue, handled>>
    BY <1>1 DEF vars, session, buffers, queues, shared
  <2>2. \A s \in Sessions : Logged(s)'
    BY <2>1, LoggedElsewhere DEF LoggedInv
  <2> QED BY <2>1, <2>2 DEF LoggedInv, Members
<1>2. ASSUME NEW s \in Sessions, ClientLoads(s) \/ Open(s) \/ Step(s) \/ Raise(s)
      PROVE  LoggedInv'
  BY <1>2, LoggedQuiet, LoggedBegin, LoggedEnd, LoggedCommit, LoggedHandle DEF Step
<1> QED BY <1>1, <1>2 DEF Next

(* A response means that every event the session logged has been handled   *)
(* and that its messages are gone (process_command returns after           *)
(* handle_events and dispatch_messages have emptied the queues).           *)
THEOREM ResponseMeansDelivered == Spec => []DoneMeansDelivered
<1>1. ASSUME OrderInv, LoggedInv PROVE DoneMeansDelivered
  <2> SUFFICES ASSUME NEW s \in Sessions, pc[s] = "done"
               PROVE  /\ {e \in log : e[1] = s /\ e[3] > 0} = {e \in Members(handled) : e[1] = s}
                      /\ msgQueue[s] = <<>>
    BY DEF DoneMeansDelivered
  <2>1. evtQueue[s] = <<>> /\ msgQueue[s] = <<>>
    BY <1>1 DEF OrderInv, Queued
  <2>2. Events(s, log) = Of(s, Members(handled))
    <3>1. Members(<<>>) = {}
      BY DEF Members
    <3> QED BY <1>1, <2>1, <3>1 DEF LoggedInv, Logged
  <2> QED BY <2>1, <2>2 DEF Events, Of
<1>2. Init => OrderInv /\ LoggedInv BY OrderInit, LoggedInit
<1>3. IInv /\ OrderInv /\ LoggedInv /\ [Next]_vars => (OrderInv /\ LoggedInv)'
  BY OrderNext, LoggedNext
<1>4. OrderInv /\ LoggedInv => DoneMeansDelivered BY <1>1
<1> QED BY <1>2, <1>3, <1>4, PipelineInvariant, PTL DEF Spec
=============================================================================

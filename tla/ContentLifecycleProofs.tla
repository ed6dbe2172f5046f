----------------------- MODULE ContentLifecycleProofs -----------------------
(***************************************************************************)
(* Proofs about ContentLifecycle for every number of contents, requests,   *)
(* idempotency keys and revisions.                                         *)
(***************************************************************************)
EXTENDS ContentLifecycle, TLAPS

Version == [content : Contents, number : Nat, parent : Nat]
Outcome == [cmd : Command, content : Contents, revision : Nat]

Types == /\ heads \in [Contents -> Head]
         /\ versions \in SUBSET Version
         /\ decisions \in SUBSET [content : Contents, version : Nat, code : Codes]
         /\ publications \in SUBSET [content : Contents, version : Nat]
         /\ intents \in SUBSET [content : Contents, version : Nat, kind : {"start"} \cup Codes]
         /\ outbox \in SUBSET [content : Contents, revision : Nat, type : Ops]
         /\ audits \in SUBSET [content : Contents, revision : Nat]
         /\ outcomes \in SUBSET Outcome
         /\ txns \in [Txns -> Txn]
         /\ \A t \in Txns : txns[t].pc # "idle" => txns[t].cmd \in Command

\* A command names a content exactly when it is not a create.
WellFormed(cmd) == (cmd.op = "create") <=> (cmd.content = NoContent)
AllWellFormed == /\ \A t \in Txns : txns[t].pc # "idle" => WellFormed(txns[t].cmd)
                 /\ \A o \in outcomes : WellFormed(o.cmd)

Holds(t) == txns[t].pc \in {"head", "body"}    \* t holds its idempotency scope

\* Who holds a scope has it alone, and the scope has no outcome yet.
ScopesAlone == /\ \A t, u \in Txns : t # u /\ Holds(t) /\ Holds(u) =>
                                        ~SameScope(txns[t].cmd, txns[u].cmd)
               /\ \A t \in Txns, o \in outcomes : Holds(t) => ~SameScope(o.cmd, txns[t].cmd)

OneOutcome == \A o1, o2 \in outcomes : SameScope(o1.cmd, o2.cmd) => o1 = o2

Commit(t) == \/ \E c \in Contents : Create(t, c)
             \/ Append(t) \/ Submit(t) \/ Decide(t) \/ Publish(t)

\* The revision a committing command makes, and of which content.
Commits(t, c, rev) == /\ txns[t].pc = "body"
                      /\ c \in Contents /\ rev \in Nat
                      /\ Record(t, c, rev)

Base == Types /\ AllWellFormed /\ ScopesAlone /\ OneOutcome

LEMMA BaseIsTypeOK == Base => TypeOK
  BY DEF Base, Types, TypeOK, Version, Outcome, OneOutcome, SameScope

\* Answering a request.
LEMMA AnswerTyped ==
  ASSUME Types, NEW t \in Txns, NEW a \in Answers, Answer(t, a)
  PROVE  /\ txns' \in [Txns -> Txn]
         /\ txns'[t].pc = "idle"
         /\ \A u \in Txns \ {t} : txns'[u] = txns[u]
  BY DEF Types, Txn, Answer, Version

\* A step either leaves the tables alone or is the commit of one command.
LEMMA DbSteps ==
  ASSUME [Next]_vars
  PROVE  \/ UNCHANGED vars
         \/ \E t \in Txns : \/ \E cmd \in Requests : Begin(t, cmd)
                            \/ AcquireScope(t) \/ LockHead(t) \/ Refuse(t) \/ Fail(t)
         \/ \E t \in Txns : Commit(t)
  BY DEF Next, Serve, Commit

LEMMA CommandOfBody ==
  ASSUME Types, AllWellFormed, NEW t \in Txns, txns[t].pc = "body"
  PROVE  /\ txns[t].cmd \in Command
         /\ txns[t].cmd.op # "create" => txns[t].cmd.content \in Contents
  BY DEF Types, AllWellFormed, WellFormed, Command

\* Whatever it does, a committing command records one revision of one content.
LEMMA CommitRecords ==
  ASSUME Types, AllWellFormed, NEW t \in Txns, Commit(t)
  PROVE  \E c \in Contents, rev \in Nat : Commits(t, c, rev)
<1>1. ASSUME NEW c \in Contents, Create(t, c) PROVE Commits(t, c, 0)
  BY <1>1 DEF Create, Commits
<1>2. ASSUME Append(t) \/ Submit(t) \/ Decide(t) \/ Publish(t)
      PROVE  \E c \in Contents, rev \in Nat : Commits(t, c, rev)
  <2>1. txns[t].pc = "body" /\ txns[t].cmd.content \in Contents
    BY <1>2, CommandOfBody DEF Append, Submit, Decide, Publish, MayCommit, OnHead
  <2>2. heads[txns[t].cmd.content].revision + 1 \in Nat
    BY <2>1 DEF Types, Head
  <2> QED
    <3>1. Commits(t, txns[t].cmd.content, heads[txns[t].cmd.content].revision + 1)
      BY <1>2, <2>1, <2>2 DEF Commits, Append, Submit, Decide, Publish
    <3> QED
      BY <2>1, <2>2, <3>1
<1> QED
  BY <1>1, <1>2 DEF Commit

\* The version row, and the revision, a committing command makes are typed.
LEMMA CommitTypes ==
  ASSUME Types, AllWellFormed, NEW t \in Txns, Commit(t)
  PROVE  /\ heads' \in [Contents -> Head]
         /\ versions' \in SUBSET Version
         /\ decisions' \in SUBSET [content : Contents, version : Nat, code : Codes]
         /\ publications' \in SUBSET [content : Contents, version : Nat]
         /\ intents' \in SUBSET [content : Contents, version : Nat, kind : {"start"} \cup Codes]
<1> DEFINE c == txns[t].cmd.content
           Goal == /\ heads' \in [Contents -> Head]
                   /\ versions' \in SUBSET Version
                   /\ decisions' \in SUBSET [content : Contents, version : Nat, code : Codes]
                   /\ publications' \in SUBSET [content : Contents, version : Nat]
                   /\ intents' \in SUBSET [content : Contents, version : Nat,
                                           kind : {"start"} \cup Codes]
<1>1. ASSUME NEW x \in Contents, Create(t, x) PROVE Goal
  BY <1>1 DEF Create, Types, Head, States
<1>2. ASSUME Append(t) \/ Submit(t) \/ Decide(t) \/ Publish(t)
      PROVE  /\ c \in Contents /\ txns[t].cmd.version \in Nat
             /\ heads[c].current \in Nat /\ heads[c].revision \in Nat
             /\ heads[c].published \in Nat /\ heads[c].state \in States
             /\ heads[c] \in Head /\ heads \in [Contents -> Head]
  BY <1>2, CommandOfBody
     DEF Append, Submit, Decide, Publish, MayCommit, OnHead, Types, Head, Command
<1>3. CASE Append(t)
  <2>1. heads' = [heads EXCEPT ![c] =
                    Moved(heads[c], "GENERATED", heads[c].current + 1, heads[c].published)]
    BY <1>3 DEF Append, Advanced
  <2>2. heads' \in [Contents -> Head]
    <3>1. /\ c \in Contents /\ heads[c] \in Head /\ heads \in [Contents -> Head]
          /\ heads[c].current \in Nat /\ heads[c].published \in Nat
          /\ heads[c].state \in States /\ txns[t].cmd.version \in Nat
      BY <1>2, <1>3
    <3> HIDE DEF c
    <3>2. Moved(heads[c], "GENERATED", heads[c].current + 1, heads[c].published) \in Head
      BY <3>1 DEF Moved, Head, States
    <3> QED BY <2>1, <3>1, <3>2
  <2>3. versions' = versions \cup {[content |-> c, number |-> heads[c].current + 1,
                                   parent |-> heads[c].current]}
    BY <1>3 DEF Append
  <2>4. UNCHANGED <<decisions, publications, intents>>
    BY <1>3 DEF Append
  <2>5. versions' \in SUBSET Version
    BY <1>2, <1>3, <2>3 DEF Types, Version
  <2> QED
    BY <2>2, <2>4, <2>5 DEF Types
<1>4. CASE Submit(t)
  <2>1. heads' = [heads EXCEPT ![c] =
                    Moved(heads[c], "IN_REVIEW", heads[c].current, heads[c].published)]
    BY <1>4 DEF Submit
  <2>2. heads' \in [Contents -> Head]
    <3>1. /\ c \in Contents /\ heads[c] \in Head /\ heads \in [Contents -> Head]
          /\ heads[c].current \in Nat /\ heads[c].published \in Nat
          /\ heads[c].state \in States /\ txns[t].cmd.version \in Nat
      BY <1>2, <1>4
    <3> HIDE DEF c
    <3>2. Moved(heads[c], "IN_REVIEW", heads[c].current, heads[c].published) \in Head
      BY <3>1 DEF Moved, Head, States
    <3> QED BY <2>1, <3>1, <3>2
  <2>3. /\ intents' = intents \cup
             {[content |-> c, version |-> heads[c].current, kind |-> "start"]}
        /\ UNCHANGED <<versions, decisions, publications>>
    BY <1>4 DEF Submit
  <2>4. intents' \in SUBSET [content : Contents, version : Nat, kind : {"start"} \cup Codes]
    BY <1>2, <1>4, <2>3 DEF Types
  <2> QED
    BY <2>2, <2>3, <2>4 DEF Types
<1>5. CASE Decide(t)
  <2>1. /\ heads' = [heads EXCEPT ![c] = Moved(heads[c], StateAfter(txns[t].cmd.op),
                                              heads[c].current, heads[c].published)]
        /\ StateAfter(txns[t].cmd.op) \in States
    BY <1>5 DEF Decide, StateAfter, States
  <2>2. heads' \in [Contents -> Head]
    <3>1. /\ c \in Contents /\ heads[c] \in Head /\ heads \in [Contents -> Head]
          /\ heads[c].current \in Nat /\ heads[c].published \in Nat
          /\ heads[c].state \in States /\ txns[t].cmd.version \in Nat
      BY <1>2, <1>5
    <3> HIDE DEF c
    <3>2. Moved(heads[c], StateAfter(txns[t].cmd.op), heads[c].current, heads[c].published) \in Head
      BY <2>1, <3>1 DEF Moved, Head
    <3> QED BY <2>1, <3>1, <3>2
  <2>3. /\ txns[t].cmd.op \in Codes
        /\ decisions' = decisions \cup
             {[content |-> c, version |-> heads[c].current, code |-> txns[t].cmd.op]}
        /\ intents' = intents \cup
             {[content |-> c, version |-> heads[c].current, kind |-> txns[t].cmd.op]}
    BY <1>5 DEF Decide
  <2>4. decisions' \in SUBSET [content : Contents, version : Nat, code : Codes]
    BY <1>2, <1>5, <2>3 DEF Types
  <2>5. intents' \in SUBSET [content : Contents, version : Nat, kind : {"start"} \cup Codes]
    BY <1>2, <1>5, <2>3 DEF Types
  <2>6. UNCHANGED <<versions, publications>>
    BY <1>5 DEF Decide
  <2> QED
    BY <2>2, <2>4, <2>5, <2>6 DEF Types
<1>6. CASE Publish(t)
  <2>1. heads' = [heads EXCEPT ![c] =
                    Moved(heads[c], heads[c].state, heads[c].current, txns[t].cmd.version)]
    BY <1>6 DEF Publish
  <2>2. heads' \in [Contents -> Head]
    <3>1. /\ c \in Contents /\ heads[c] \in Head /\ heads \in [Contents -> Head]
          /\ heads[c].current \in Nat /\ heads[c].published \in Nat
          /\ heads[c].state \in States /\ txns[t].cmd.version \in Nat
      BY <1>2, <1>6
    <3> HIDE DEF c
    <3>2. Moved(heads[c], heads[c].state, heads[c].current, txns[t].cmd.version) \in Head
      BY <2>1, <3>1 DEF Moved, Head
    <3> QED BY <2>1, <3>1, <3>2
  <2>3. /\ publications' = publications \cup
             {[content |-> c, version |-> txns[t].cmd.version]}
        /\ UNCHANGED <<versions, decisions, intents>>
    BY <1>6 DEF Publish
  <2>4. publications' \in SUBSET [content : Contents, version : Nat]
    BY <1>2, <1>6, <2>3 DEF Types
  <2> QED
    BY <2>2, <2>3, <2>4 DEF Types
<1> QED
  BY <1>1, <1>3, <1>4, <1>5, <1>6 DEF Commit

LEMMA CommitBase == ASSUME Base, NEW t \in Txns, Commit(t) PROVE Base'
<1> USE DEF Base
<1>1. PICK c \in Contents, rev \in Nat : Commits(t, c, rev)
  BY CommitRecords
<1>2. /\ txns' \in [Txns -> Txn] /\ txns'[t].pc = "idle"
      /\ \A u \in Txns \ {t} : txns'[u] = txns[u]
  BY <1>1, AnswerTyped DEF Commits, Record, Answers
<1>3. outcomes' = outcomes \cup {[cmd |-> txns[t].cmd, content |-> c, revision |-> rev]}
  BY <1>1 DEF Commits, Record
<1>4. txns[t].cmd \in Command /\ txns[t].pc = "body"
  BY <1>1, CommandOfBody DEF Commits
<1>5. outbox' \in SUBSET [content : Contents, revision : Nat, type : Ops]
  BY <1>1, <1>4 DEF Commits, Record, Types, Command
<1>6. audits' \in SUBSET [content : Contents, revision : Nat]
  BY <1>1 DEF Commits, Record, Types
<1>7. outcomes' \in SUBSET Outcome
  BY <1>3, <1>4 DEF Outcome, Types
<1>8. Types'
  BY <1>2, <1>5, <1>6, <1>7, CommitTypes DEF Types
<1>9. AllWellFormed'
  BY <1>2, <1>3, <1>4 DEF AllWellFormed
<1>10. ScopesAlone'
  BY <1>2, <1>3, <1>4 DEF ScopesAlone, Holds, SameScope
<1>11. OneOutcome'
  BY <1>3, <1>4 DEF OneOutcome, ScopesAlone, Holds, SameScope
<1> QED
  BY <1>8, <1>9, <1>10, <1>11

LEMMA WaitBase ==
  ASSUME Base, NEW t \in Txns,
         \/ \E cmd \in Requests : Begin(t, cmd)
         \/ AcquireScope(t) \/ LockHead(t) \/ Refuse(t) \/ Fail(t)
  PROVE  Base' /\ UNCHANGED db
<1> USE DEF Base
<1>0. UNCHANGED db
  BY DEF Begin, AcquireScope, LockHead, Refuse, Fail
<1>1. SUFFICES /\ txns' \in [Txns -> Txn]
               /\ \A u \in Txns : txns'[u].pc # "idle" =>
                     txns'[u].cmd \in Command /\ WellFormed(txns'[u].cmd)
               /\ ScopesAlone'
  BY <1>0 DEF db, Types, AllWellFormed, OneOutcome
<1> DEFINE Goal == /\ txns' \in [Txns -> Txn]
                   /\ \A u \in Txns : txns'[u].pc # "idle" =>
                         txns'[u].cmd \in Command /\ WellFormed(txns'[u].cmd)
                   /\ ScopesAlone'
<1>2. ASSUME NEW cmd \in Requests, Begin(t, cmd) PROVE Goal
  <2>1. cmd \in Command /\ WellFormed(cmd)
    BY <1>2, ContentAssumption
       DEF Begin, Askable, Requests, Command, Numbers, WellFormed, AllWellFormed
  <2>2. txns' = [txns EXCEPT ![t] = [pc |-> "scope", cmd |-> cmd, answer |-> "none",
                                     snapshot |-> {}]]
    BY <1>2 DEF Begin
  <2>3. txns' \in [Txns -> Txn]
    BY <2>1, <2>2 DEF Types, Txn, Answers, Version
  <2> QED
    BY <1>0, <2>1, <2>2, <2>3 DEF Types, AllWellFormed, ScopesAlone, Holds, db
<1>3. ASSUME NEW a \in Answers, Answer(t, a) PROVE Goal
  BY <1>0, <1>3, AnswerTyped DEF Types, AllWellFormed, ScopesAlone, Holds, db
<1>4. ASSUME AcquireScope(t), {o \in outcomes : SameScope(o.cmd, txns[t].cmd)} = {},
             txns' = [txns EXCEPT ![t].pc = IF txns[t].cmd.op = "create" THEN "body"
                                            ELSE "head",
                                  ![t].snapshot = versions]
      PROVE  Goal
  <2>1. txns' = [txns EXCEPT ![t] = [txns[t] EXCEPT
                    !.pc = IF txns[t].cmd.op = "create" THEN "body" ELSE "head",
                    !.snapshot = versions]]
    BY <1>4 DEF Types
  <2>0. \A q \in Txn, pc \in {"body", "head"} :
              [q EXCEPT !.pc = pc, !.snapshot = versions] \in Txn
    BY DEF Types, Txn, Version
  <2>2. txns' \in [Txns -> Txn]
    BY <2>0, <2>1 DEF Types
  <2>3. /\ txns'[t].cmd = txns[t].cmd
        /\ \A u \in Txns \ {t} : txns'[u] = txns[u]
    BY <2>1 DEF Types, Txn
  <2>4. txns[t].pc = "scope" /\ ScopeFree(t)
    BY <1>4 DEF AcquireScope
  <2>5. \A u \in Txns \ {t} : Holds(u) => ~SameScope(txns[u].cmd, txns[t].cmd)
    BY <2>4 DEF ScopeFree, Holds
  <2>6. outcomes' = outcomes /\ \A o \in outcomes : ~SameScope(o.cmd, txns[t].cmd)
    BY <1>0, <1>4 DEF db
  <2>7. /\ \A u \in Txns : txns'[u].cmd = txns[u].cmd
        /\ \A u \in Txns \ {t} : Holds(u)' <=> Holds(u)
    BY <2>3 DEF Holds
  <2>8. ScopesAlone'
    BY <2>5, <2>6, <2>7 DEF ScopesAlone, SameScope
  <2> QED
    BY <2>2, <2>3, <2>4, <2>8 DEF Types, AllWellFormed
<1>5. CASE LockHead(t)
  <2>1. txns' = [txns EXCEPT ![t].pc = "body"] /\ txns[t].pc = "head"
    BY <1>5 DEF LockHead
  <2>2. txns' \in [Txns -> Txn] /\ \A u \in Txns : txns'[u].cmd = txns[u].cmd
    BY <2>1 DEF Types, Txn
  <2> QED
    BY <1>0, <2>1, <2>2 DEF Types, Txn, AllWellFormed, ScopesAlone, Holds, SameScope, db
<1>6. CASE AcquireScope(t)
  BY <1>3, <1>4, <1>6 DEF AcquireScope, Answers
<1>7. CASE Refuse(t) \/ Fail(t)
  BY <1>3, <1>7 DEF Refuse, Fail, Answers
<1> QED
  BY <1>2, <1>5, <1>6, <1>7

LEMMA BaseStep == ASSUME Base, [Next]_vars PROVE Base'
<1>1. CASE UNCHANGED vars
  BY <1>1 DEF vars, db, Base, Types, AllWellFormed, ScopesAlone, Holds, OneOutcome, SameScope
<1> QED
  BY <1>1, WaitBase, CommitBase, DbSteps

LEMMA BaseAlways == Spec => []Base
<1>1. Init => Base
  BY DEF Init, Base, Types, AllWellFormed, ScopesAlone, Holds, OneOutcome, NoHead, Head,
         States, Txn, Answers, Version, Outcome
<1> QED
  BY <1>1, BaseStep, PTL DEF Spec

\* The tables keep their types, and an idempotency scope has one outcome at
\* most: the transaction that inserts it held the scope since it looked.
THEOREM TypeCorrect == Spec => []TypeOK
  BY BaseAlways, BaseIsTypeOK, PTL
----------------------------------------------------------------------------
(* Safety.  Each property reads the head of a content and its facts; a      *)
(* commit touches those of one content.                                     *)

\* A property of the tables needs a look at the commits only.
LEMMA OnlyCommits ==
  ASSUME Base, [Next]_vars
  PROVE  UNCHANGED db \/ \E t \in Txns : Commit(t)
  BY DbSteps, WaitBase DEF vars

\* What a command that is not a create may rely on.
LEMMA CommitChecked ==
  ASSUME Base, NEW t \in Txns, Append(t) \/ Submit(t) \/ Decide(t) \/ Publish(t)
  PROVE  /\ txns[t].cmd.content \in Contents /\ MayCommit(t)
         /\ txns[t].cmd.op # "create" /\ txns[t].pc = "body"
         /\ txns[t].cmd.expected = heads[txns[t].cmd.content].revision
         /\ heads[txns[t].cmd.content].revision \in Nat
         /\ heads[txns[t].cmd.content].current \in Nat
  BY CommandOfBody
     DEF Base, Append, Submit, Decide, Publish, MayCommit, OnHead, Fresh, HeadOf, Types, Head

\* The one head each command moves, and how.
LEMMA AppendMoves ==
  ASSUME Base, NEW t \in Txns, Append(t)
  PROVE  LET c == txns[t].cmd.content IN
         /\ \A x \in Contents \ {c} : heads'[x] = heads[x]
         /\ heads'[c].revision = heads[c].revision + 1
         /\ heads'[c].state = "GENERATED"
         /\ heads'[c].current = heads[c].current + 1
         /\ heads'[c].published = heads[c].published
  BY CommitChecked DEF Append, Advanced, Moved, Base, Types

LEMMA SubmitMoves ==
  ASSUME Base, NEW t \in Txns, Submit(t)
  PROVE  LET c == txns[t].cmd.content IN
         /\ \A x \in Contents \ {c} : heads'[x] = heads[x]
         /\ heads'[c].revision = heads[c].revision + 1
         /\ heads'[c].state = "IN_REVIEW"
         /\ heads'[c].current = heads[c].current
         /\ heads'[c].published = heads[c].published
  BY CommitChecked DEF Submit, Moved, Base, Types

LEMMA DecideMoves ==
  ASSUME Base, NEW t \in Txns, Decide(t)
  PROVE  LET c == txns[t].cmd.content IN
         /\ \A x \in Contents \ {c} : heads'[x] = heads[x]
         /\ heads'[c].revision = heads[c].revision + 1
         /\ heads'[c].state = StateAfter(txns[t].cmd.op)
         /\ heads'[c].current = heads[c].current
         /\ heads'[c].published = heads[c].published
  BY CommitChecked DEF Decide, Moved, Base, Types

LEMMA PublishMoves ==
  ASSUME Base, NEW t \in Txns, Publish(t)
  PROVE  LET c == txns[t].cmd.content IN
         /\ \A x \in Contents \ {c} : heads'[x] = heads[x]
         /\ heads'[c].revision = heads[c].revision + 1
         /\ heads'[c].state = heads[c].state
         /\ heads'[c].current = heads[c].current
         /\ heads'[c].published = txns[t].cmd.version
  BY CommitChecked DEF Publish, Moved, Base, Types

\* What StateRestsOnFacts says of one content.
RestsOnFacts(x) == /\ heads[x].state = "APPROVED" => Approved(x, heads[x].current)
                   /\ heads[x].state = "IN_REVIEW" => /\ InCycle(x, heads[x].current)
                                                      /\ ~Decided(x, heads[x].current)

LEMMA RestsStep == ASSUME Base, StateRestsOnFacts, [Next]_vars PROVE StateRestsOnFacts'
<1> SUFFICES ASSUME NEW x \in Contents PROVE RestsOnFacts(x)'
  BY DEF StateRestsOnFacts, RestsOnFacts
<1>0. RestsOnFacts(x)
  BY DEF StateRestsOnFacts, RestsOnFacts
<1> USE DEF RestsOnFacts, Approved, Decided, InCycle
<1>1. CASE UNCHANGED db
  BY <1>0, <1>1 DEF db
<1>2. ASSUME NEW t \in Txns, NEW c \in Contents, Create(t, c) PROVE RestsOnFacts(x)'
  BY <1>0, <1>2 DEF Create, Base, Types, Head
<1>3. ASSUME NEW t \in Txns, Append(t) PROVE RestsOnFacts(x)'
  <2>1. UNCHANGED <<decisions, intents>>
    BY <1>3 DEF Append
  <2> QED
    BY <1>0, <1>3, <2>1, AppendMoves
<1>4. ASSUME NEW t \in Txns, Submit(t) PROVE RestsOnFacts(x)'
  <2> DEFINE c == txns[t].cmd.content
  <2>1. ~Decided(c, heads[c].current)
    BY <1>4, CommitChecked DEF Submit, MayCommit, Acceptable, SubmitOK, Current, HeadOf
  <2>2. /\ decisions' = decisions
        /\ intents' = intents \cup {[content |-> c, version |-> heads[c].current,
                                    kind |-> "start"]}
    BY <1>4 DEF Submit
  <2>3. CASE x = c
    <3>1. heads'[x].state = "IN_REVIEW" /\ heads'[x].current = heads[x].current
      BY <1>4, <2>3, SubmitMoves
    <3> QED
      BY <2>1, <2>2, <2>3, <3>1
  <2>4. CASE x # c
    <3>1. heads'[x] = heads[x]
      BY <1>4, <2>4, SubmitMoves
    <3> QED
      BY <1>0, <2>2, <3>1
  <2> QED
    BY <2>3, <2>4
<1>5. ASSUME NEW t \in Txns, Decide(t) PROVE RestsOnFacts(x)'
  <2> DEFINE c == txns[t].cmd.content
  <2>1. /\ decisions' = decisions \cup {[content |-> c, version |-> heads[c].current,
                                        code |-> txns[t].cmd.op]}
        /\ intents \subseteq intents'
    BY <1>5 DEF Decide
  <2>2. CASE x = c
    BY <1>5, <2>1, <2>2, DecideMoves DEF StateAfter
  <2>3. CASE x # c
    <3>1. heads'[x] = heads[x]
      BY <1>5, <2>3, DecideMoves
    <3> QED
      BY <1>0, <2>1, <2>3, <3>1
  <2> QED
    BY <2>2, <2>3
<1>6. ASSUME NEW t \in Txns, Publish(t) PROVE RestsOnFacts(x)'
  <2>1. UNCHANGED <<decisions, intents>>
    BY <1>6 DEF Publish
  <2> QED
    BY <1>0, <1>6, <2>1, PublishMoves
<1> QED
  BY <1>1, <1>2, <1>3, <1>4, <1>5, <1>6, OnlyCommits DEF Commit

\* The state never claims an approval or a review the facts do not carry.
THEOREM StateSound == Spec => []StateRestsOnFacts
<1>1. Init => StateRestsOnFacts
  BY DEF Init, StateRestsOnFacts, NoHead
<1> QED
  BY <1>1, RestsStep, BaseAlways, PTL DEF Spec

LEMMA PublishedStep == ASSUME Base, PublishedWasApproved, [Next]_vars PROVE PublishedWasApproved'
<1> USE DEF PublishedWasApproved, Approved
<1>1. CASE UNCHANGED db
  BY <1>1 DEF db
<1>2. ASSUME NEW t \in Txns, NEW c \in Contents, Create(t, c) PROVE PublishedWasApproved'
  BY <1>2 DEF Create, Base, Types, Head
<1>3. ASSUME NEW t \in Txns, Append(t) \/ Submit(t) \/ Decide(t)
      PROVE  PublishedWasApproved'
  <2>1. decisions \subseteq decisions' /\ publications' = publications
    BY <1>3 DEF Append, Submit, Decide
  <2>2. \A c \in Contents : heads'[c].published = heads[c].published
    BY <1>3, AppendMoves, SubmitMoves, DecideMoves
  <2> QED
    BY <2>1, <2>2
<1>4. ASSUME NEW t \in Txns, Publish(t) PROVE PublishedWasApproved'
  <2> DEFINE new == [content |-> txns[t].cmd.content, version |-> txns[t].cmd.version]
  <2>1. Approved(txns[t].cmd.content, txns[t].cmd.version)
    BY <1>4, CommitChecked DEF Publish, MayCommit, Acceptable, PublishOK, Codes
  <2>2. decisions' = decisions /\ publications' = publications \cup {new}
    BY <1>4 DEF Publish
  <2>3. ASSUME NEW p \in publications' PROVE Approved(p.content, p.version)
    <3>1. CASE p \in publications
      BY <3>1
    <3>2. CASE p = new
      BY <2>1, <3>2
    <3> QED
      BY <2>2, <3>1, <3>2
  <2>4. ASSUME NEW c \in Contents, heads'[c].published # 0
        PROVE  [content |-> c, version |-> heads'[c].published] \in publications'
    BY <1>4, <2>2, <2>4, PublishMoves
  <2> QED
    BY <2>2, <2>3, <2>4
<1> QED
  BY <1>1, <1>2, <1>3, <1>4, OnlyCommits DEF Commit

\* What is published was approved, that very version.
THEOREM PublicationSound == Spec => []PublishedWasApproved
<1>1. Init => PublishedWasApproved
  BY DEF Init, PublishedWasApproved, NoHead
<1> QED
  BY <1>1, PublishedStep, BaseAlways, PTL DEF Spec

LEMMA SignalStep ==
  ASSUME Base, DecisionsAreSignalled, [Next]_vars
  PROVE  DecisionsAreSignalled'
<1> DEFINE Signal(d) == [content |-> d.content, version |-> d.version, kind |-> d.code]
<1> USE DEF DecisionsAreSignalled, InCycle
<1>1. CASE UNCHANGED <<decisions, intents>>
  BY <1>1
<1>2. ASSUME NEW t \in Txns, Submit(t) PROVE DecisionsAreSignalled'
  <2>1. PICK start : /\ start.kind = "start"
                     /\ intents' = intents \cup {start} /\ decisions' = decisions
    BY <1>2 DEF Submit
  <2> QED
    BY <2>1
<1>3. ASSUME NEW t \in Txns, Decide(t) PROVE DecisionsAreSignalled'
  <2> DEFINE c == txns[t].cmd.content
             new == [content |-> c, version |-> heads[c].current, code |-> txns[t].cmd.op]
  <2>1. /\ decisions' = decisions \cup {new} /\ intents' = intents \cup {Signal(new)}
        /\ new.code # "start"
    BY <1>3 DEF Decide, Codes
  <2>2. ~Decided(new.content, new.version) /\ InCycle(new.content, new.version)
    BY <1>3, CommitChecked
       DEF Decide, MayCommit, Acceptable, DecideOK, Current, HeadOf, Codes
  <2>3. /\ \A d1, d2 \in decisions' :
                d1.content = d2.content /\ d1.version = d2.version => d1 = d2
        /\ \A d \in decisions' : InCycle(d.content, d.version)'
    <3> HIDE DEF new, Signal
    <3>1. intents \subseteq intents' /\ decisions' = decisions \cup {new}
      BY <2>1
    <3>2. \A d \in decisions : ~(d.content = new.content /\ d.version = new.version)
      BY <2>2 DEF Decided
    <3>3. \A d \in decisions' : d \in decisions \/ d = new
      BY <3>1
    <3> QED
      BY <2>2, <3>1, <3>2, <3>3
  <2>4. {i \in intents' : i.kind # "start"} = {Signal(d) : d \in decisions'}
    <3> DEFINE Kept(set) == {i \in set : i.kind # "start"}
               Signals(set) == {Signal(d) : d \in set}
    <3>1. Kept(intents) = Signals(decisions)
      OBVIOUS
    <3>2. Signal(new).kind # "start"
      BY <2>1
    <3>3. Kept(intents') = Kept(intents) \cup {Signal(new)}
      BY <2>1, <3>2
    <3>4. Signals(decisions') = Signals(decisions) \cup {Signal(new)}
      BY <2>1
    <3> QED
      BY <3>1, <3>3, <3>4
  <2> QED
    BY <2>3, <2>4
<1>4. ASSUME NEW t \in Txns, Append(t) \/ Publish(t) \/ \E c \in Contents : Create(t, c)
      PROVE  UNCHANGED <<decisions, intents>>
  BY <1>4 DEF Append, Publish, Create
<1> QED
  BY <1>1, <1>2, <1>3, <1>4, OnlyCommits DEF Commit, db

\* A version is decided once, and its decision has its one signal, in a cycle that
\* was started.
THEOREM SignalsSound == Spec => []DecisionsAreSignalled
<1>1. Init => DecisionsAreSignalled
  BY DEF Init, DecisionsAreSignalled
<1> QED
  BY <1>1, SignalStep, BaseAlways, PTL DEF Spec

\* What EveryRevisionAccounted says of one content, of all revisions.
Exists(c) == heads[c].state # "ABSENT"
Accounted(c) ==
    /\ ~Exists(c) => heads[c].revision = 0
    /\ \A a \in audits : a.content = c => Exists(c) /\ a.revision <= heads[c].revision
    /\ \A e \in outbox : e.content = c => Exists(c) /\ e.revision <= heads[c].revision
    /\ Exists(c) => \A r \in 0..heads[c].revision :
                        /\ [content |-> c, revision |-> r] \in audits
                        /\ \E e \in outbox : e.content = c /\ e.revision = r
    /\ \A e1, e2 \in outbox :
            e1.content = c /\ e2.content = c /\ e1.revision = e2.revision => e1 = e2

AllAccounted == \A c \in Contents : Accounted(c)

\* A commit makes the next revision of one content, or the first of a new one.
LEMMA CommitCounts ==
  ASSUME Base, AllAccounted, NEW t \in Txns, Commit(t)
  PROVE  \E c \in Contents :
            /\ Record(t, c, heads'[c].revision) /\ Exists(c)'
            /\ heads'[c].revision = IF Exists(c) THEN heads[c].revision + 1 ELSE 0
            /\ \A x \in Contents \ {c} : heads'[x] = heads[x]
<1>1. ASSUME NEW c \in Contents, Create(t, c)
      PROVE  /\ Record(t, c, heads'[c].revision) /\ Exists(c)'
             /\ heads'[c].revision = IF Exists(c) THEN heads[c].revision + 1 ELSE 0
             /\ \A x \in Contents \ {c} : heads'[x] = heads[x]
  <2>1. heads[c].revision = 0 /\ ~Exists(c)
    BY <1>1 DEF Create, AllAccounted, Accounted, Exists
  <2>2. /\ heads'[c].revision = heads[c].revision /\ heads'[c].state = "DRAFT"
        /\ \A x \in Contents \ {c} : heads'[x] = heads[x]
    BY <1>1 DEF Create, Base, Types, Head
  <2> QED
    BY <1>1, <2>1, <2>2 DEF Create, Exists
<1>2. ASSUME Append(t) \/ Submit(t) \/ Decide(t) \/ Publish(t)
      PROVE  LET c == txns[t].cmd.content IN
             /\ c \in Contents /\ Exists(c) /\ heads'[c].state # "ABSENT"
             /\ Record(t, c, heads'[c].revision)
             /\ heads'[c].revision = heads[c].revision + 1
             /\ \A x \in Contents \ {c} : heads'[x] = heads[x]
  <2> DEFINE c == txns[t].cmd.content
  <2>1. c \in Contents /\ Acceptable(t)
    BY <1>2, CommitChecked DEF MayCommit
  <2>2. Exists(c)
    BY <1>2, <2>1
       DEF Append, Submit, Decide, Publish, Acceptable, AppendOK, SubmitOK, DecideOK, PublishOK,
           HeadOf, Exists, Codes
  <2>3. /\ heads'[c].revision = heads[c].revision + 1
        /\ \A x \in Contents \ {c} : heads'[x] = heads[x]
        /\ Record(t, c, heads[c].revision + 1)
    BY <1>2, AppendMoves, SubmitMoves, DecideMoves, PublishMoves DEF Append, Submit, Decide, Publish
  <2>4. heads'[c].state \in {"GENERATED", "IN_REVIEW", "APPROVED", heads[c].state}
    <3>1. CASE Append(t)
      BY <3>1, AppendMoves
    <3>2. CASE Submit(t)
      BY <3>2, SubmitMoves
    <3>3. CASE Decide(t)
      BY <3>3, DecideMoves DEF StateAfter
    <3>4. CASE Publish(t)
      BY <3>4, PublishMoves
    <3> QED
      BY <1>2, <3>1, <3>2, <3>3, <3>4
  <2>5. heads'[c].state # "ABSENT"
    BY <2>2, <2>4 DEF Exists
  <2> QED
    BY <2>1, <2>2, <2>3, <2>5
<1>3. CASE \E c \in Contents : Create(t, c)
  BY <1>1, <1>3
<1>4. CASE Append(t) \/ Submit(t) \/ Decide(t) \/ Publish(t)
  BY <1>2, <1>4 DEF Exists
<1> QED
  BY <1>3, <1>4 DEF Commit

LEMMA AccountedStep == ASSUME Base, AllAccounted, [Next]_vars PROVE AllAccounted'
<1>1. CASE UNCHANGED db
  BY <1>1 DEF db, AllAccounted, Accounted, Exists
<1>2. ASSUME NEW t \in Txns, Commit(t) PROVE AllAccounted'
  <2>1. PICK c \in Contents :
            /\ Record(t, c, heads'[c].revision) /\ Exists(c)'
            /\ heads'[c].revision = IF Exists(c) THEN heads[c].revision + 1 ELSE 0
            /\ \A x \in Contents \ {c} : heads'[x] = heads[x]
    BY <1>2, CommitCounts
  <2> DEFINE n == heads'[c].revision
             event == [content |-> c, revision |-> n, type |-> txns[t].cmd.op]
  <2>2. /\ audits' = audits \cup {[content |-> c, revision |-> n]}
        /\ outbox' = outbox \cup {event}
    BY <2>1 DEF Record
  <2>3. \A x \in Contents : Accounted(x) /\ heads[x].revision \in Nat
    BY DEF AllAccounted, Base, Types, Head
  <2>4. ASSUME NEW x \in Contents \ {c} PROVE Accounted(x)'
    BY <2>1, <2>2, <2>3 DEF Accounted, Exists
  <2>5. Accounted(c)'
    <3>1. /\ \A a \in audits : a.content = c => a.revision \in Nat /\ a.revision < n
          /\ \A e \in outbox : e.content = c => e.revision \in Nat /\ e.revision < n
      BY <2>1, <2>3 DEF Accounted, Base, Types
    <3>2. 0..n = (0..(n - 1)) \cup {n} /\ n \in Nat
      BY <2>1, <2>3
    <3>3. /\ \A a \in audits' : a.content = c => a.revision <= n
          /\ \A e \in outbox' : e.content = c => e.revision <= n
      BY <2>2, <3>1, <3>2
    <3>4. ASSUME NEW r \in 0..n
          PROVE  /\ [content |-> c, revision |-> r] \in audits'
                 /\ \E e \in outbox' : e.content = c /\ e.revision = r
      <4>1. CASE r = n
        <5>1. event \in outbox' /\ event.content = c /\ event.revision = n
          BY <2>2
        <5> HIDE DEF event
        <5> QED
          BY <2>2, <4>1, <5>1
      <4>2. CASE r \in 0..(n - 1)
        BY <2>1, <2>2, <2>3, <4>2 DEF Accounted
      <4> QED
        BY <3>2, <4>1, <4>2
    <3>5. \A e1, e2 \in outbox' :
              e1.content = c /\ e2.content = c /\ e1.revision = e2.revision => e1 = e2
      BY <2>2, <2>3, <3>1 DEF Accounted
    <3> QED
      BY <2>1, <3>3, <3>4, <3>5 DEF Accounted
  <2> QED
    BY <2>4, <2>5 DEF AllAccounted
<1> QED
  BY <1>1, <1>2, OnlyCommits

\* Commands neither share, skip nor lose a revision, nor its event or audit record.
THEOREM RevisionsSound == Spec => []EveryRevisionAccounted
<1>1. Init => AllAccounted
  BY DEF Init, AllAccounted, Accounted, Exists, NoHead
<1>2. ASSUME Base, AllAccounted PROVE EveryRevisionAccounted
  <2> SUFFICES ASSUME NEW c \in Contents, Exists(c), NEW r \in 0..(MaxRevision + 1)
               PROVE  /\ r <= heads[c].revision <=> [content |-> c, revision |-> r] \in audits
                      /\ r <= heads[c].revision <=>
                            \E e \in outbox : e.content = c /\ e.revision = r
                      /\ \A e1, e2 \in outbox : (e1.content = c /\ e2.content = c
                                      /\ e1.revision = r /\ e2.revision = r) => e1 = e2
    BY DEF EveryRevisionAccounted, Exists
  <2>1. Accounted(c) /\ heads[c].revision \in Nat /\ r \in Nat
    BY <1>2, ContentAssumption DEF AllAccounted, Base, Types, Head
  <2>2. r <= heads[c].revision => r \in 0..heads[c].revision
    BY <2>1
  <2> QED
    BY <2>1, <2>2 DEF Accounted
<1> QED
  BY <1>1, <1>2, AccountedStep, BaseAlways, PTL DEF Spec

\* The published version is not ahead of the current one.
PublishedBehind == \A c \in Contents : heads[c].published <= heads[c].current

LEMMA BehindStep ==
  ASSUME Base, PublishedBehind, [Next]_vars
  PROVE  /\ PublishedBehind'
         /\ \A c \in Contents : heads'[c].published >= heads[c].published
<1> DEFINE Goal == /\ PublishedBehind'
                   /\ \A c \in Contents : heads'[c].published >= heads[c].published
<1>0. \A c \in Contents : heads[c].published \in Nat /\ heads[c].current \in Nat
  BY DEF Base, Types, Head
<1> USE DEF PublishedBehind
<1>1. CASE UNCHANGED db
  BY <1>0, <1>1 DEF db
<1>2. ASSUME NEW t \in Txns, NEW c \in Contents, Create(t, c) PROVE Goal
  BY <1>0, <1>2 DEF Create, Base, Types, Head
<1>3. ASSUME NEW t \in Txns, Append(t) \/ Submit(t) \/ Decide(t) PROVE Goal
  <2>1. \A x \in Contents : /\ heads'[x].published = heads[x].published
                            /\ heads'[x].current \in {heads[x].current, heads[x].current + 1}
    BY <1>3, AppendMoves, SubmitMoves, DecideMoves
  <2> QED
    BY <1>0, <2>1
<1>4. ASSUME NEW t \in Txns, Publish(t) PROVE Goal
  <2>1. txns[t].cmd.version = heads[txns[t].cmd.content].current
    BY <1>4, CommitChecked DEF Publish, MayCommit, Acceptable, PublishOK, Current, HeadOf
  <2>2. \A x \in Contents : /\ heads'[x].published \in {heads[x].published, heads[x].current}
                            /\ heads'[x].current = heads[x].current
    BY <1>4, <2>1, PublishMoves
  <2> QED
    BY <1>0, <2>2
<1> QED
  BY <1>1, <1>2, <1>3, <1>4, OnlyCommits DEF Commit

\* The published pointer only moves to a newer version, however appends, reviews
\* and publications follow each other.
THEOREM PublicationForward == Spec => PublishedMovesForward
<1>1. Init => PublishedBehind
  BY DEF Init, PublishedBehind, NoHead
<1>2. Spec => [](Base /\ PublishedBehind)
  BY <1>1, BehindStep, BaseAlways, PTL DEF Spec
<1>3. Base /\ PublishedBehind /\ [Next]_vars =>
        [\A c \in Contents : heads'[c].published >= heads[c].published]_vars
  BY BehindStep
<1> QED
  BY <1>2, <1>3, PTL DEF Spec, PublishedMovesForward

\* A command that succeeded has used its revision up.
Spent == \A o \in outcomes : o.cmd.op # "create" =>
            /\ o.cmd.content \in Contents
            /\ o.cmd.expected < heads[o.cmd.content].revision

LEMMA SpentStep ==
  ASSUME Base, Spent, OneWinnerPerRevision, [Next]_vars
  PROVE  Spent' /\ OneWinnerPerRevision'
<1>1. CASE UNCHANGED db
  BY <1>1 DEF db, Spent, OneWinnerPerRevision
<1>2. ASSUME NEW t \in Txns, NEW c \in Contents, Create(t, c)
      PROVE  Spent' /\ OneWinnerPerRevision'
  BY <1>2 DEF Create, Record, Base, Types, Head, Spent, OneWinnerPerRevision
<1>3. ASSUME NEW t \in Txns, Append(t) \/ Submit(t) \/ Decide(t) \/ Publish(t)
      PROVE  Spent' /\ OneWinnerPerRevision'
  <2> DEFINE c == txns[t].cmd.content
             new == [cmd |-> txns[t].cmd, content |-> c, revision |-> heads[c].revision + 1]
  <2>1. outcomes' = outcomes \cup {new}
    BY <1>3 DEF Append, Submit, Decide, Publish, Record
  <2>2. \A x \in Contents : /\ heads[x].revision \in Nat
                            /\ heads'[x].revision = heads[x].revision + (IF x = c THEN 1 ELSE 0)
    <3>1. \A x \in Contents : heads[x].revision \in Nat
      BY DEF Base, Types, Head
    <3>2. /\ heads'[c].revision = heads[c].revision + 1
          /\ \A x \in Contents \ {c} : heads'[x] = heads[x]
      BY <1>3, AppendMoves, SubmitMoves, DecideMoves, PublishMoves
    <3> QED
      BY <3>1, <3>2
  <2>3. txns[t].cmd.expected = heads[c].revision /\ c \in Contents
    BY <1>3, CommitChecked
  <2>4. \A o \in outcomes : o.cmd.expected \in Nat
    BY DEF Base, Types, Outcome, Command
  <2>5. Spent'
    BY <2>1, <2>2, <2>3, <2>4 DEF Spent
  <2>6. \A o \in outcomes : o.cmd.op # "create" /\ o.cmd.content = c =>
                                o.cmd.expected # new.cmd.expected
    BY <2>2, <2>3, <2>4 DEF Spent
  <2> QED
    BY <2>1, <2>5, <2>6 DEF OneWinnerPerRevision
<1> QED
  BY <1>1, <1>2, <1>3, OnlyCommits DEF Commit

\* Of the commands that expect one revision at most one succeeds.
THEOREM OneWinner == Spec => []OneWinnerPerRevision
<1>1. Init => Spent /\ OneWinnerPerRevision
  BY DEF Init, Spent, OneWinnerPerRevision
<1> QED
  BY <1>1, SpentStep, BaseAlways, PTL DEF Spec

\* What LinearHistory says of one content, without the range of numbers.
Line(c) == /\ \A v \in versions : v.content = c =>
                   /\ v.number \in 1..heads[c].current
                   /\ v.parent = v.number - 1
           /\ \A n \in 1..heads[c].current :
                   [content |-> c, number |-> n, parent |-> n - 1] \in versions

AllLines == \A c \in Contents : Line(c)

LEMMA LineIsLinear == ASSUME Types PROVE AllLines <=> LinearHistory
<1> SUFFICES ASSUME NEW c \in Contents
             PROVE  Line(c) <=> {v \in versions : v.content = c} =
                        {[content |-> c, number |-> n, parent |-> n - 1] :
                             n \in 1..heads[c].current}
  BY DEF LinearHistory, AllLines
<1>1. \A v \in versions : v = [content |-> v.content, number |-> v.number,
                               parent |-> v.parent]
  BY DEF Types, Version
<1> QED
  BY <1>1 DEF Line

LEMMA LineStep == ASSUME Base, AllLines, [Next]_vars PROVE AllLines'
<1> USE DEF Line, AllLines
<1>1. CASE UNCHANGED db
  BY <1>1 DEF db
<1>2. ASSUME NEW t \in Txns, NEW x \in Contents, Create(t, x)
      PROVE  AllLines'
  BY <1>2 DEF Create, Base, Types, Head
<1>3. ASSUME NEW t \in Txns, Append(t) PROVE AllLines'
  <2>0. PICK x \in Contents : x = txns[t].cmd.content
    BY <1>3, CommitChecked
  <2>1. /\ versions' = versions \cup {[content |-> x, number |-> heads[x].current + 1,
                                      parent |-> heads[x].current]}
        /\ heads[x].current \in Nat
    BY <1>3, <2>0, CommitChecked DEF Append
  <2>2. ASSUME NEW c \in Contents \ {x} PROVE Line(c)'
    BY <1>3, <2>0, <2>1, <2>2, AppendMoves
  <2>3. Line(x)'
    <3>1. heads'[x].current = heads[x].current + 1
      BY <1>3, <2>0, AppendMoves
    <3>2. 1..heads'[x].current = (1..heads[x].current) \cup {heads[x].current + 1}
      BY <2>1, <3>1
    <3>3. \A v \in versions' : v.content = x =>
              v.number \in 1..heads'[x].current /\ v.parent = v.number - 1
      BY <2>1, <3>2
    <3>4. ASSUME NEW n \in 1..heads'[x].current
          PROVE  [content |-> x, number |-> n, parent |-> n - 1] \in versions'
      <4>1. CASE n \in 1..heads[x].current
        BY <2>1, <4>1
      <4>2. CASE n = heads[x].current + 1
        BY <2>1, <4>2
      <4> QED
        BY <3>2, <4>1, <4>2
    <3> QED
      BY <3>3, <3>4
  <2> QED
    BY <2>2, <2>3
<1>4. ASSUME NEW t \in Txns, Submit(t) \/ Decide(t) \/ Publish(t)
      PROVE  AllLines'
  <2>1. versions' = versions
    BY <1>4 DEF Submit, Decide, Publish
  <2>2. \A c \in Contents : heads'[c].current = heads[c].current
    BY <1>4, SubmitMoves, DecideMoves, PublishMoves
  <2> QED
    BY <2>1, <2>2
<1> QED
  BY <1>1, <1>2, <1>3, <1>4, OnlyCommits DEF Commit

LEMMA LineAlways == Spec => [](Base /\ AllLines)
<1>1. Init => AllLines
  BY DEF Init, AllLines, Line, NoHead
<1> QED
  BY <1>1, LineStep, BaseAlways, PTL DEF Spec

\* Versions form one line that ends at the head.
THEOREM LineSound == Spec => []LinearHistory
<1>1. Base /\ AllLines => LinearHistory
  BY LineIsLinear DEF Base
<1> QED
  BY <1>1, LineAlways, PTL

\* Whoever gets the head lock can read the number of the head's version: the
\* statement that reads it sees what was committed before the lock was granted.
LEMMA LockedHeadReadable ==
  ASSUME Base, AllLines, NEW t \in Txns, OnHead(t)
  PROVE  NumberReadable(t)
<1> DEFINE c == txns[t].cmd.content
           n == heads[c].current
<1>1. c \in Contents /\ n \in Nat
  BY CommandOfBody DEF OnHead, Base, Types, Head
<1>2. CASE n = 0
  BY <1>2 DEF NumberReadable, HasNumber, HeadOf
<1>3. CASE n # 0
  <2>1. [content |-> c, number |-> n, parent |-> n - 1] \in versions
    BY <1>1, <1>3 DEF AllLines, Line
  <2> QED
    BY <2>1 DEF NumberReadable, HasNumber, HeadOf
<1> QED
  BY <1>2, <1>3

LEMMA LoserStep ==
  ASSUME Base, AllLines, LoserSeesConflict, [Next]_vars
  PROVE  LoserSeesConflict'
<1> USE DEF LoserSeesConflict
<1>1. CASE UNCHANGED vars
  BY <1>1 DEF vars
<1>2. ASSUME NEW t \in Txns, NEW a \in Answers \ {"invariant_violation"}, Answer(t, a)
      PROVE  LoserSeesConflict'
  BY <1>2 DEF Answer, Base, Types
<1>3. ASSUME NEW t \in Txns, NEW cmd \in Requests, Begin(t, cmd) PROVE LoserSeesConflict'
  BY <1>3 DEF Begin, Base, Types
<1>4. ASSUME NEW t \in Txns, LockHead(t) PROVE LoserSeesConflict'
  BY <1>4 DEF LockHead, Base, Types, Txn
<1>5. ASSUME NEW t \in Txns, AcquireScope(t) PROVE LoserSeesConflict'
  <2>1. CASE txns' = [txns EXCEPT ![t].pc = IF txns[t].cmd.op = "create" THEN "body" ELSE "head",
                                  ![t].snapshot = versions]
    <3>1. \A u \in Txns : txns'[u].answer = txns[u].answer
      BY <2>1 DEF Base, Types, Txn
    <3> QED
      BY <3>1
  <2> QED
    BY <1>2, <1>5, <2>1 DEF AcquireScope, Answers
<1>6. ASSUME NEW t \in Txns, Refuse(t) PROVE LoserSeesConflict'
  BY <1>2, <1>6, LockedHeadReadable DEF Refuse, Answers
<1>7. ASSUME NEW t \in Txns, Fail(t) PROVE LoserSeesConflict'
  BY <1>2, <1>7 DEF Fail, Answers
<1>8. ASSUME NEW t \in Txns, Commit(t) PROVE LoserSeesConflict'
  BY <1>2, <1>8, CommitRecords DEF Commits, Record, Answers, Base
<1> QED
  BY <1>1, <1>3, <1>4, <1>5, <1>6, <1>7, <1>8, DbSteps

\* The loser of a race for a revision never meets the invariant violation.
THEOREM LoserSound == Spec => []LoserSeesConflict
<1>1. Init => LoserSeesConflict
  BY DEF Init, LoserSeesConflict
<1> QED
  BY <1>1, LoserStep, LineAlways, PTL DEF Spec

\* A request whose outcome is committed is answered with it, unless the
\* attempt to do so fails.
LEMMA ReplayStep ==
  ASSUME Base, [Next]_vars, NEW t \in Txns, txns[t].pc # "idle", txns'[t].pc = "idle",
         NEW o \in outcomes, o.cmd = txns[t].cmd
  PROVE  txns'[t].answer \in {"replayed", "failed"}
<1>1. ~Holds(t)
  BY DEF Base, ScopesAlone, SameScope
<1>2. txns[t].pc = "scope"
  BY <1>1 DEF Base, Types, Txn, Holds
<1>3. ASSUME NEW u \in Txns \ {t}, NEW a \in Answers, Answer(u, a) PROVE FALSE
  BY <1>2, <1>3, AnswerTyped DEF Base
<1>4. ASSUME NEW u \in Txns, Commit(u) PROVE FALSE
  <2>1. u # t
    BY <1>2, <1>4, CommitRecords DEF Commits, Base
  <2> QED
    BY <1>3, <1>4, <2>1, CommitRecords DEF Commits, Record, Answers, Base
<1>5. ASSUME NEW u \in Txns, AcquireScope(u) PROVE txns'[t].answer \in {"replayed", "failed"}
  <2>1. CASE u = t
    <3>1. \A x \in outcomes : SameScope(x.cmd, txns[t].cmd) => x = o
      BY DEF Base, OneOutcome, SameScope
    <3>2. Answer(t, "replayed")
      BY <1>5, <2>1, <3>1 DEF AcquireScope, SameScope
    <3> QED
      BY <3>2 DEF Answer, Base, Types
  <2>2. CASE u # t
    BY <1>2, <1>3, <1>5, <2>2 DEF AcquireScope, Answers, Base, Types, Txn
  <2> QED
    BY <2>1, <2>2
<1>6. ASSUME NEW u \in Txns, Fail(u) PROVE txns'[t].answer \in {"replayed", "failed"}
  BY <1>3, <1>6 DEF Fail, Answer, Answers, Base, Types
<1>7. ASSUME NEW u \in Txns, NEW cmd \in Requests, Begin(u, cmd) PROVE FALSE
  BY <1>2, <1>7 DEF Begin, Base, Types, Txn
<1>8. ASSUME NEW u \in Txns, LockHead(u) PROVE FALSE
  BY <1>2, <1>8 DEF LockHead, Base, Types, Txn
<1>9. ASSUME NEW u \in Txns, Refuse(u) PROVE FALSE
  <2>1. u # t
    BY <1>2, <1>9 DEF Refuse, OnHead
  <2> QED
    BY <1>3, <1>9, <2>1 DEF Refuse, Answers
<1>10. CASE UNCHANGED vars
  BY <1>10 DEF vars
<1> QED
  BY <1>4, <1>5, <1>6, <1>7, <1>8, <1>9, <1>10, DbSteps

\* A repetition of a request that was carried out is replayed, or fails.
THEOREM ReplaySound == Spec => CommittedNeverRefused
<1>1. Base /\ [Next]_vars =>
        [\A t \in Txns :
            (txns[t].pc # "idle" /\ txns'[t].pc = "idle"
                /\ \E o \in outcomes : o.cmd = txns[t].cmd)
                    => txns'[t].answer \in {"replayed", "failed"}]_vars
  BY ReplayStep
<1> QED
  BY <1>1, BaseAlways, PTL DEF Spec, CommittedNeverRefused
=============================================================================

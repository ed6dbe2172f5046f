--------------------- MODULE AttemptsAndEventsProofs ---------------------
(***************************************************************************)
(* Proofs about LearningAttempts, for every number of learners, keys,      *)
(* requests and revisions, and about OutboxDispatch, for every number of   *)
(* events, dispatchers, attempts, crashes and premature expiries.  The     *)
(* first is where a command leaves its facts in the outbox, the second is  *)
(* what becomes of them.                                                   *)
(*                                                                         *)
(* All of the first rests on one fact: a request that has a row lock has   *)
(* the assignment's, so that one request at most has any, and what it has  *)
(* read is still so when it writes.                                        *)
(***************************************************************************)
EXTENDS LearningAttempts, OutboxDispatch, FiniteSetTheorems, TLAPS

Tables == /\ assignment \in Assignment
          /\ attempts \in [Learners -> Attempt]
          /\ responses \in [Learners -> Nat]
          /\ submissions \in SUBSET Submission
          /\ outbox \in SUBSET [user : Users, revision : Nat, op : Ops]
          /\ audits \in SUBSET [user : Users, revision : Nat]
          /\ outcomes \in SUBSET [cmd : Command, revision : Nat]

\* The teacher's commands are the teacher's.
WellFormed(cmd) == cmd.op \in TeacherOps <=> cmd.user = Teacher

Inside(txn) == txn.pc \in {"locking", "writing"}

\* A request by itself: it takes no more locks than its command has, and writes
\* with all of them.
TxnOK(txn) ==
    /\ txn \in Txn
    /\ txn.pc # "idle" => txn.cmd \in Command /\ WellFormed(txn.cmd)
    /\ ~Inside(txn) => txn.locks = 0
    /\ Inside(txn) => txn.locks <= Len(LockOrder(txn.cmd.op))
    /\ txn.pc = "writing" => txn.locks = Len(LockOrder(txn.cmd.op))

\* What a request has read and checked before it writes.
ReadsOK(txn) ==
    /\ txn.readAssignment = assignment /\ assignment.state = "ACTIVE"
    /\ txn.cmd.op \in Editing => /\ txn.readResponses = responses[txn.cmd.user]
                                 /\ attempts[txn.cmd.user].revision = txn.cmd.expected
    /\ txn.cmd.op \in TeacherOps => assignment.revision = txn.cmd.expected

RequestsOK == /\ txns \in [Txns -> Txn] /\ answer \in Answers
              /\ \A t \in Txns : TxnOK(txns[t])
OutcomesOK == /\ \A o \in outcomes : WellFormed(o.cmd)
              /\ \A o1, o2 \in outcomes : SameScope(o1.cmd, o2.cmd) => o1 = o2

\* Who is inside its transaction has its scope alone, and without an outcome.
ScopesAlone == /\ \A t, u \in Txns : t # u /\ Inside(txns[t]) /\ Inside(txns[u]) =>
                                        ~SameScope(txns[t].cmd, txns[u].cmd)
               /\ \A t \in Txns, o \in outcomes :
                     Inside(txns[t]) => ~SameScope(o.cmd, txns[t].cmd)

\* One request at most has a row lock.
OneHolder == \A t, u \in Txns : txns[t].locks # 0 /\ txns[u].locks # 0 => t = u

ReadsHold == \A t \in Txns : txns[t].pc = "writing" => ReadsOK(txns[t])

Base == Tables /\ RequestsOK /\ OutcomesOK /\ ScopesAlone /\ OneHolder /\ ReadsHold

LEMMA BaseIsTypeOK == Base => TypeOK
  BY DEF Base, Tables, RequestsOK, OutcomesOK, TxnOK, TypeOK, SameScope

\* Every command locks the assignment first; saves and submissions their attempt then.
LEMMA Orders ==
  ASSUME NEW op \in Ops
  PROVE  /\ LockOrder(op)[1] = "assignment"
         /\ op \in Editing => Len(LockOrder(op)) = 2 /\ LockOrder(op)[2] = "attempt"
         /\ op \notin Editing => Len(LockOrder(op)) = 1
  BY DEF LockOrder

LEMMA NoTxnOK == TxnOK(NoTxn) /\ ~Inside(NoTxn)
  BY DEF TxnOK, NoTxn, Txn, Inside, NewAssignment, Assignment
-----------------------------------------------------------------------------
(* Steps that write nothing. *)

\* A request goes on, alone in its scope and with its locks.
LEMMA Becoming ==
  ASSUME Base, UNCHANGED db, answer' \in Answers,
         NEW t \in Txns, NEW txn, txns' = [txns EXCEPT ![t] = txn],
         TxnOK(txn), txn.pc = "writing" => ReadsOK(txn),
         Inside(txn) => /\ \A u \in Txns \ {t} :
                              Inside(txns[u]) => ~SameScope(txns[u].cmd, txn.cmd)
                        /\ Known(txn.cmd) = {},
         txn.locks # 0 => \A u \in Txns \ {t} : txns[u].locks = 0
  PROVE  Base'
<1>1. /\ txns'[t] = txn /\ txns' \in [Txns -> Txn]
      /\ \A u \in Txns \ {t} : txns'[u] = txns[u]
  BY DEF Base, RequestsOK, TxnOK
<1>2. Tables' /\ OutcomesOK'
  BY DEF Base, Tables, OutcomesOK, db
<1>3. RequestsOK'
  BY <1>1 DEF Base, RequestsOK
<1>4. ScopesAlone'
  <2>1. outcomes' = outcomes
    BY DEF db
  <2>2. ASSUME NEW u \in Txns, NEW o \in outcomes', Inside(txns'[u])
        PROVE  ~SameScope(o.cmd, txns'[u].cmd)
    BY <1>1, <2>1, <2>2 DEF Base, ScopesAlone, Known
  <2>3. ASSUME NEW u \in Txns, NEW v \in Txns, u # v, Inside(txns'[u]), Inside(txns'[v])
        PROVE  ~SameScope(txns'[u].cmd, txns'[v].cmd)
    BY <1>1, <2>3 DEF Base, ScopesAlone, SameScope
  <2> QED
    BY <2>2, <2>3 DEF ScopesAlone
<1>5. OneHolder'
  BY <1>1 DEF Base, OneHolder
<1>6. ReadsHold'
  <2>1. \A x : ReadsOK(x)' <=> ReadsOK(x)
    BY DEF ReadsOK, db
  <2> QED
    BY <1>1, <2>1 DEF Base, ReadsHold
<1> QED
  BY <1>2, <1>3, <1>4, <1>5, <1>6 DEF Base

LEMMA Answering ==
  ASSUME Base, UNCHANGED db, NEW t \in Txns, NEW a \in Answers, Answer(t, a)
  PROVE  Base'
<1>1. NoTxn.locks = 0 /\ NoTxn.pc = "idle"
  BY DEF NoTxn
<1> QED
  BY <1>1, NoTxnOK, Becoming DEF Answer

LEMMA BeginOK == ASSUME Base, NEW t \in Txns, NEW cmd \in Requests, Begin(t, cmd) PROVE Base'
<1>1. UNCHANGED db
  BY DEF Begin
<1>2. cmd \in Command /\ WellFormed(cmd)
  BY LearningAssumption
     DEF Begin, Askable, Requests, Command, WellFormed, Base, OutcomesOK, TeacherOps, Editing
<1>3. CASE Replay(t, cmd)
  BY <1>1, <1>3, Answering DEF Replay, Answers
<1>4. CASE \E pc \in {"authority", "scope"} : Become(t, [NoTxn EXCEPT !.cmd = cmd, !.pc = pc])
  <2>1. PICK pc \in {"authority", "scope"} : Become(t, [NoTxn EXCEPT !.cmd = cmd, !.pc = pc])
    BY <1>4
  <2> DEFINE txn == [NoTxn EXCEPT !.cmd = cmd, !.pc = pc]
  <2>2. NoTxn \in Txn /\ NoTxn.locks = 0
    BY NoTxnOK DEF TxnOK, NoTxn
  <2>3. txn \in Txn /\ txn.pc = pc /\ txn.cmd = cmd /\ txn.locks = 0
    BY <1>2, <2>2 DEF Txn
  <2> HIDE DEF txn
  <2>4. TxnOK(txn) /\ ~Inside(txn) /\ txn.pc # "writing" /\ txn.locks = 0
    BY <1>2, <2>3 DEF TxnOK, Inside
  <2> QED
    BY <1>1, <2>1, <2>4, Becoming DEF Become, Answers, txn
<1> QED
  BY <1>3, <1>4 DEF Begin

\* A request that goes on with its command.
LEMMA TxnFields ==
  ASSUME Base, NEW t \in Txns, txns[t].pc # "idle"
  PROVE  /\ txns[t] \in Txn /\ txns[t].cmd \in Command /\ WellFormed(txns[t].cmd)
         /\ txns[t].cmd.op \in Ops /\ txns[t].cmd.user \in Users
         /\ txns[t].locks \in 0 .. 2
  BY DEF Base, RequestsOK, TxnOK, Command, Txn

LEMMA AskSchoolOK == ASSUME Base, NEW t \in Txns, AskSchool(t) PROVE Base'
<1>1. UNCHANGED db
  BY DEF AskSchool
<1>2. CASE Answer(t, "denied")
  BY <1>1, <1>2, Answering DEF Answers
<1>3. CASE Go(t, "scope")
  <2> DEFINE txn == [txns[t] EXCEPT !.pc = "scope"]
  <2>1. TxnOK(txns[t]) /\ txns[t].pc = "authority"
    BY DEF AskSchool, Base, RequestsOK
  <2>2. TxnOK(txn) /\ ~Inside(txn) /\ txn.pc # "writing" /\ txn.locks = 0
    BY <2>1 DEF TxnOK, Txn, Inside
  <2> HIDE DEF txn
  <2> QED
    BY <1>1, <1>3, <2>2, Becoming DEF Go, Become, Answers, txn
<1> QED
  BY <1>2, <1>3 DEF AskSchool

LEMMA AcquireScopeOK == ASSUME Base, NEW t \in Txns, AcquireScope(t) PROVE Base'
<1>1. UNCHANGED db
  BY DEF AcquireScope
<1>2. CASE Replay(t, txns[t].cmd)
  BY <1>1, <1>2, Answering DEF Replay, Answers
<1>3. CASE Known(txns[t].cmd) = {} /\ Go(t, "locking")
  <2> DEFINE txn == [txns[t] EXCEPT !.pc = "locking"]
  <2>1. TxnOK(txns[t]) /\ txns[t].pc = "scope" /\ txns[t].cmd.op \in Ops
    BY TxnFields DEF AcquireScope, Base, RequestsOK
  <2>2. Len(LockOrder(txns[t].cmd.op)) \in {1, 2}
    BY <2>1, Orders
  <2>3. /\ TxnOK(txn) /\ txn.pc # "writing" /\ txn.locks = 0
        /\ txn.cmd = txns[t].cmd
    BY <2>1, <2>2 DEF TxnOK, Txn, Inside
  <2>4. \A u \in Txns \ {t} : Inside(txns[u]) => ~SameScope(txns[u].cmd, txn.cmd)
    BY <2>3 DEF AcquireScope, ScopeFree, InTransaction, Inside
  <2> HIDE DEF txn
  <2> QED
    BY <1>1, <1>3, <2>3, <2>4, Becoming DEF Go, Become, Answers, txn
<1> QED
  BY <1>2, <1>3 DEF AcquireScope

\* Whoever has a row lock has the assignment's.
LEMMA OwnersHoldAssignment ==
  ASSUME Base, NEW u \in Txns, txns[u].locks # 0, NEW user
  PROVE  Holds(u, "assignment", user)
<1>1. Inside(txns[u]) /\ txns[u].locks \in 0 .. 2 /\ txns[u].cmd.op \in Ops
  BY TxnFields DEF Base, RequestsOK, TxnOK, Inside, Txn
<1>2. 1 \in 1 .. txns[u].locks /\ Order(u)[1] = "assignment"
  BY <1>1, Orders DEF Order
<1> QED
  BY <1>1, <1>2 DEF Holds, InTransaction, Inside

LEMMA LockOK == ASSUME Base, NEW t \in Txns, Lock(t) PROVE Base'
<1> DEFINE txn == [txns[t] EXCEPT !.locks = @ + 1]
<1>1. UNCHANGED db /\ Become(t, txn)
  BY DEF Lock
<1>2. /\ TxnOK(txns[t]) /\ txns[t].pc = "locking" /\ txns[t].cmd.op \in Ops
      /\ txns[t].locks \in 0 .. 2 /\ txns[t].locks # Len(LockOrder(txns[t].cmd.op))
  BY TxnFields DEF Lock, AllLocked, Order, Base, RequestsOK
<1>3. Len(LockOrder(txns[t].cmd.op)) \in {1, 2} /\ LockOrder(txns[t].cmd.op)[1] = "assignment"
  BY <1>2, Orders
<1>4. txns[t].locks + 1 <= Len(LockOrder(txns[t].cmd.op)) /\ txns[t].locks + 1 \in 0 .. 2
  <2> DEFINE n == txns[t].locks
             m == Len(LockOrder(txns[t].cmd.op))
  <2>1. n <= m /\ n # m /\ n \in 0 .. 2 /\ m \in {1, 2}
    BY <1>2, <1>3 DEF TxnOK, Inside
  <2> HIDE DEF n, m
  <2>2. n + 1 <= m /\ n + 1 \in 0 .. 2
    BY <2>1
  <2> QED
    BY <2>2 DEF n, m
<1>5. TxnOK(txn) /\ txn.pc # "writing" /\ txn.cmd = txns[t].cmd
  BY <1>2, <1>4 DEF TxnOK, Txn, Inside
<1>6. /\ \A u \in Txns \ {t} : Inside(txns[u]) => ~SameScope(txns[u].cmd, txn.cmd)
      /\ Known(txn.cmd) = {}
  BY <1>2, <1>5 DEF Base, ScopesAlone, Inside, Known
<1>7. ASSUME NEW u \in Txns \ {t}, txns[u].locks # 0 PROVE FALSE
  <2>1. CASE txns[t].locks = 0
    <3>1. Holds(u, "assignment", txns[t].cmd.user)
      BY <1>7, OwnersHoldAssignment
    <3>2. Free(t, "assignment")
      BY <1>3, <2>1 DEF Lock, Order
    <3> QED
      BY <3>1, <3>2 DEF Free
  <2>2. CASE txns[t].locks # 0
    BY <1>7, <2>2 DEF Base, OneHolder
  <2> QED
    BY <2>1, <2>2
<1> HIDE DEF txn
<1> QED
  BY <1>1, <1>5, <1>6, <1>7, Becoming DEF Become, Answers

\* Who has all locks, and is not refused, is the only owner: it reads what it
\* will write on.
LEMMA CheckOK == ASSUME Base, NEW t \in Txns, Check(t) PROVE Base'
<1>1. UNCHANGED db /\ txns[t].pc = "locking"
  BY DEF Check
<1>2. /\ TxnOK(txns[t]) /\ txns[t].cmd.op \in Ops /\ txns[t].cmd.user \in Users
      /\ WellFormed(txns[t].cmd) /\ txns[t].locks \in 0 .. 2
  BY <1>1, TxnFields DEF Base, RequestsOK
<1>3. CASE Answer(t, "refused")
  BY <1>1, <1>3, Answering DEF Answers
<1>4. CASE Verdict(t) # "ok" /\ Answer(t, Verdict(t))
  <2>1. Verdict(t) \in Answers
    BY DEF Verdict, Answers
  <2> QED
    BY <1>1, <1>4, <2>1, Answering
<1>5. CASE AllLocked(t) /\ Verdict(t) = "ok" /\ Read(t)
  <2> DEFINE read == IF txns[t].cmd.op \in Editing THEN responses[txns[t].cmd.user] ELSE 0
             txn == [txns[t] EXCEPT !.pc = "writing", !.readAssignment = assignment,
                                    !.readResponses = read]
  <2>1. txns[t].cmd.op \in Editing => txns[t].cmd.user \in Learners
    BY <1>2 DEF WellFormed, Users, Editing, TeacherOps
  <2>2. read \in Nat /\ assignment \in Assignment
    BY <2>1 DEF Base, Tables
  <2>3. /\ txn.pc = "writing" /\ txn.cmd = txns[t].cmd /\ txn.locks = txns[t].locks
        /\ txn.readAssignment = assignment /\ txn.readResponses = read /\ txn \in Txn
    BY <1>2, <2>2 DEF TxnOK, Txn
  <2>4. TxnOK(txn)
    BY <1>1, <1>2, <1>5, <2>3 DEF TxnOK, Inside, AllLocked, Order
  <2>5. ReadsOK(txn)
    BY <1>2, <1>5, <2>3
       DEF ReadsOK, Verdict, AttemptOf, Expected, Ops, Editing, TeacherOps
  <2>6. /\ \A u \in Txns \ {t} : Inside(txns[u]) => ~SameScope(txns[u].cmd, txn.cmd)
        /\ Known(txn.cmd) = {}
    BY <1>1, <2>3 DEF Base, ScopesAlone, Inside, Known
  <2>7. \A u \in Txns \ {t} : txn.locks # 0 => txns[u].locks = 0
    BY <2>3 DEF Base, OneHolder
  <2>8. txns' = [txns EXCEPT ![t] = txn] /\ answer' \in Answers
    BY <1>5 DEF Read, Become, Answers
  <2> HIDE DEF txn, read
  <2> QED
    BY <1>1, <2>4, <2>5, <2>6, <2>7, <2>8, Becoming
<1> QED
  BY <1>3, <1>4, <1>5 DEF Check
-----------------------------------------------------------------------------
(* Steps that write. *)

\* The one who writes has a lock: no one else has one, or is writing.
LEMMA WritesAlone ==
  ASSUME Base, NEW t \in Txns, txns[t].pc = "writing"
  PROVE  /\ txns[t].locks = Len(LockOrder(txns[t].cmd.op)) /\ txns[t].locks \in {1, 2}
         /\ \A u \in Txns \ {t} : txns[u].locks = 0 /\ txns[u].pc # "writing"
<1>1. \A u \in Txns : txns[u].pc = "writing" =>
        txns[u].locks = Len(LockOrder(txns[u].cmd.op)) /\ txns[u].locks \in {1, 2}
  BY TxnFields, Orders DEF Base, RequestsOK, TxnOK
<1> QED
  BY <1>1 DEF Base, OneHolder

\* What a commit leaves behind, for the tables as the command has written them.
LEMMA Committing ==
  ASSUME Base, NEW t \in Txns, txns[t].pc = "writing", NEW revision \in Nat,
         NEW event \in BOOLEAN, Record(t, revision, event),
         assignment' \in Assignment, attempts' \in [Learners -> Attempt],
         responses' \in [Learners -> Nat], submissions' \in SUBSET Submission
  PROVE  Base'
<1> DEFINE outcome == [cmd |-> txns[t].cmd, revision |-> revision]
<1>1. /\ txns[t].cmd \in Command /\ WellFormed(txns[t].cmd)
      /\ txns[t].cmd.op \in Ops /\ txns[t].cmd.user \in Users
  BY TxnFields
<1>2. outcomes' = outcomes \cup {outcome} /\ outcome.cmd = txns[t].cmd
  BY DEF Record
<1>3. /\ txns' \in [Txns -> Txn] /\ txns'[t] = NoTxn /\ answer' = "ok"
      /\ \A u \in Txns \ {t} : txns'[u] = txns[u]
  BY NoTxnOK DEF Record, Answer, Base, RequestsOK, TxnOK
<1>4. Tables'
  <2>1. outcomes' \in SUBSET [cmd : Command, revision : Nat]
    BY <1>1, <1>2 DEF Base, Tables
  <2>2. audits' \in SUBSET [user : Users, revision : Nat]
    BY <1>1 DEF Base, Tables, Record
  <2>3. outbox' \in SUBSET [user : Users, revision : Nat, op : Ops]
    BY <1>1 DEF Base, Tables, Record
  <2> QED
    BY <2>1, <2>2, <2>3 DEF Tables
<1>5. RequestsOK'
  BY <1>3, NoTxnOK DEF Base, RequestsOK, Answers
<1>6. \A o \in outcomes : ~SameScope(o.cmd, txns[t].cmd)
  BY DEF Base, ScopesAlone, Inside
<1>7. OutcomesOK'
  <2>1. \A o \in outcomes' : WellFormed(o.cmd)
    BY <1>1, <1>2 DEF Base, OutcomesOK
  <2>2. ASSUME NEW o1 \in outcomes', NEW o2 \in outcomes', SameScope(o1.cmd, o2.cmd)
        PROVE  o1 = o2
    BY <1>2, <1>6, <2>2 DEF Base, OutcomesOK, SameScope
  <2> QED
    BY <2>1, <2>2 DEF OutcomesOK
<1>8. ScopesAlone'
  <2>1. ASSUME NEW u \in Txns, Inside(txns'[u])
        PROVE  u # t /\ txns'[u] = txns[u] /\ Inside(txns[u])
    BY <1>3, <2>1, NoTxnOK
  <2>2. ASSUME NEW u \in Txns, NEW o \in outcomes', Inside(txns'[u])
        PROVE  ~SameScope(o.cmd, txns'[u].cmd)
    BY <1>2, <2>1, <2>2 DEF Base, ScopesAlone, Inside
  <2> QED
    BY <2>1, <2>2 DEF Base, ScopesAlone
<1>9. OneHolder'
  BY <1>3 DEF Base, OneHolder, NoTxn
<1>10. ReadsHold'
  BY <1>3, WritesAlone DEF ReadsHold, NoTxn
<1> QED
  BY <1>4, <1>5, <1>7, <1>8, <1>9, <1>10 DEF Base

\* What a command under way is about.
LEMMA CommandParts ==
  ASSUME Base, NEW t \in Txns, txns[t].pc # "idle"
  PROVE  /\ Expected(t) \in Nat /\ Expected(t) + 1 \in Nat
         /\ txns[t].cmd.op \notin TeacherOps => txns[t].cmd.user \in Learners
         /\ txns[t].readResponses \in Nat /\ txns[t].readAssignment \in Assignment
         /\ txns[t].readAssignment.due \in Nat /\ txns[t].readAssignment.revision \in Nat
  BY TxnFields DEF Expected, Command, Txn, Assignment, WellFormed, Users

LEMMA StartOK == ASSUME Base, NEW t \in Txns, Start(t) PROVE Base'
<1>1. txns[t].pc = "writing" /\ txns[t].cmd.user \in Learners
  BY CommandParts DEF Start, Writing, TeacherOps
<1>2. CASE AttemptOf(t).state = "none"
  <2>1. /\ attempts' = [attempts EXCEPT ![txns[t].cmd.user] =
                              [state |-> "IN_PROGRESS", revision |-> 0]]
        /\ Record(t, 0, TRUE)
        /\ assignment' = assignment /\ responses' = responses /\ submissions' = submissions
    BY <1>2 DEF Start
  <2>2. attempts' \in [Learners -> Attempt]
    BY <1>1, <2>1 DEF Base, Tables, Attempt
  <2> QED
    BY <1>1, <2>1, <2>2, Committing DEF Base, Tables
<1>3. CASE AttemptOf(t).state # "none"
  BY <1>3, Answering DEF Start, Answers
<1> QED
  BY <1>2, <1>3

LEMMA SaveOK == ASSUME Base, NEW t \in Txns, Save(t) PROVE Base'
<1>1. /\ txns[t].pc = "writing" /\ txns[t].cmd.user \in Learners
      /\ Expected(t) + 1 \in Nat
  BY CommandParts DEF Save, Writing, TeacherOps
<1>2. CASE Swappable(t)
  <2>1. /\ attempts' = [attempts EXCEPT ![txns[t].cmd.user] =
                              [state |-> "IN_PROGRESS", revision |-> Expected(t) + 1]]
        /\ responses' = [responses EXCEPT ![txns[t].cmd.user] = Expected(t) + 1]
        /\ Record(t, Expected(t) + 1, FALSE)
        /\ assignment' = assignment /\ submissions' = submissions
    BY <1>2 DEF Save
  <2>2. attempts' \in [Learners -> Attempt] /\ responses' \in [Learners -> Nat]
    BY <1>1, <2>1 DEF Base, Tables, Attempt
  <2> QED
    BY <1>1, <2>1, <2>2, Committing DEF Base, Tables
<1>3. CASE ~Swappable(t)
  BY <1>3, Answering DEF Save, Answers
<1> QED
  BY <1>2, <1>3

LEMMA SubmitOK == ASSUME Base, NEW t \in Txns, Submit(t) PROVE Base'
<1>1. /\ txns[t].pc = "writing" /\ txns[t].cmd.user \in Learners
      /\ Expected(t) + 1 \in Nat
  BY CommandParts DEF Submit, Writing, TeacherOps
<1>2. CASE Swappable(t)
  <2>1. /\ attempts' = [attempts EXCEPT ![txns[t].cmd.user] =
                              [state |-> "SUBMITTED", revision |-> Expected(t) + 1]]
        /\ submissions' = submissions \cup
              {[learner |-> txns[t].cmd.user, responses |-> txns[t].readResponses,
                due |-> txns[t].readAssignment.due,
                assignmentRevision |-> txns[t].readAssignment.revision]}
        /\ Record(t, Expected(t) + 1, TRUE)
        /\ responses' = responses /\ assignment' = assignment
    BY <1>2 DEF Submit
  <2>2. attempts' \in [Learners -> Attempt]
    BY <1>1, <2>1 DEF Base, Tables, Attempt
  <2>3. submissions' \in SUBSET Submission
    BY <1>1, <2>1, CommandParts DEF Base, Tables, Submission
  <2> QED
    BY <1>1, <2>1, <2>2, <2>3, Committing DEF Base, Tables
<1>3. CASE ~Swappable(t)
  BY <1>3, Answering DEF Submit, Answers
<1> QED
  BY <1>2, <1>3

LEMMA MutateOK == ASSUME Base, NEW t \in Txns, MutateActive(t) PROVE Base'
<1>1. txns[t].pc = "writing" /\ Expected(t) + 1 \in Nat
  BY CommandParts DEF MutateActive
<1>2. CASE assignment.revision = Expected(t)
  <2>1. /\ Record(t, Expected(t) + 1, TRUE) /\ attempts' = attempts
        /\ responses' = responses /\ submissions' = submissions
        /\ assignment' = Mutated(txns[t].cmd.op, Expected(t) + 1)
    BY <1>2 DEF MutateActive
  <2>2. assignment' \in Assignment
    BY <1>1, <2>1 DEF Mutated, Assignment, Base, Tables
  <2> QED
    BY <1>1, <2>1, <2>2, Committing DEF Base, Tables
<1>3. CASE assignment.revision # Expected(t)
  BY <1>3, Answering DEF MutateActive, Answers
<1> QED
  BY <1>2, <1>3
-----------------------------------------------------------------------------
LEMMA BaseInit == Init => Base
<1> SUFFICES ASSUME Init PROVE Base
  OBVIOUS
<1>1. Tables
  BY DEF Init, Tables, NewAssignment, Assignment, Attempt
<1>2. \A t \in Txns : txns[t] = NoTxn
  BY DEF Init
<1>3. RequestsOK
  BY <1>2, NoTxnOK DEF Init, RequestsOK, Answers, TxnOK
<1>4. OutcomesOK /\ ScopesAlone
  BY <1>2, NoTxnOK DEF Init, OutcomesOK, ScopesAlone
<1>5. OneHolder /\ ReadsHold
  BY <1>2 DEF OneHolder, ReadsHold, NoTxn
<1> QED
  BY <1>1, <1>3, <1>4, <1>5 DEF Base

LEMMA BaseStep == Base /\ [Next]_vars => Base'
<1> SUFFICES ASSUME Base, [Next]_vars PROVE Base'
  OBVIOUS
<1>1. ASSUME NEW t \in Txns, NEW cmd \in Requests, Begin(t, cmd) PROVE Base'
  BY <1>1, BeginOK
<1>2. ASSUME NEW t \in Txns, AskSchool(t) PROVE Base'
  BY <1>2, AskSchoolOK
<1>3. ASSUME NEW t \in Txns, AcquireScope(t) PROVE Base'
  BY <1>3, AcquireScopeOK
<1>4. ASSUME NEW t \in Txns, Lock(t) PROVE Base'
  BY <1>4, LockOK
<1>5. ASSUME NEW t \in Txns, Check(t) PROVE Base'
  BY <1>5, CheckOK
<1>6. ASSUME NEW t \in Txns, Start(t) PROVE Base'
  BY <1>6, StartOK
<1>7. ASSUME NEW t \in Txns, Save(t) PROVE Base'
  BY <1>7, SaveOK
<1>8. ASSUME NEW t \in Txns, Submit(t) PROVE Base'
  BY <1>8, SubmitOK
<1>9. ASSUME NEW t \in Txns, MutateActive(t) PROVE Base'
  BY <1>9, MutateOK
<1>10. ASSUME NEW t \in Txns, Fail(t) PROVE Base'
  BY <1>10, Answering DEF Fail, Answers
<1>11. CASE UNCHANGED vars
  BY <1>11 DEF vars, db, Base, Tables, RequestsOK, OutcomesOK, ScopesAlone, OneHolder,
               ReadsHold, ReadsOK
<1> QED
  BY <1>1, <1>2, <1>3, <1>4, <1>5, <1>6, <1>7, <1>8, <1>9, <1>10, <1>11 DEF Next, Serve

LEMMA BaseAlways == Spec => []Base
  BY BaseInit, BaseStep, PTL DEF Spec

\* The rows and the requests under way have the types the tables declare, and a
\* scope has one outcome.
THEOREM TypeCorrect == Spec => []TypeOK
  BY BaseAlways, BaseIsTypeOK, PTL
-----------------------------------------------------------------------------
(* What commands take from the rows they have locked. *)

\* Only a command that writes and commits changes the tables.
Commits(t) == \/ Start(t) /\ AttemptOf(t).state = "none"
              \/ Save(t) /\ Swappable(t)
              \/ Submit(t) /\ Swappable(t)
              \/ MutateActive(t) /\ assignment.revision = Expected(t)

LEMMA Writers ==
  ASSUME Base, [Next]_vars, ~UNCHANGED db
  PROVE  \E t \in Txns : Commits(t) /\ ReadsOK(txns[t])
<1>1. PICK t \in Txns : (\E cmd \in Requests : Begin(t, cmd)) \/ Serve(t) \/ Fail(t)
  BY DEF Next, vars
<1>2. Start(t) \/ Save(t) \/ Submit(t) \/ MutateActive(t)
  BY <1>1 DEF Serve, Begin, AskSchool, AcquireScope, Lock, Check, Fail
<1>3. Commits(t)
  BY <1>2 DEF Commits, Start, Save, Submit, MutateActive
<1>4. txns[t].pc = "writing"
  BY <1>2 DEF Start, Save, Submit, MutateActive, Writing
<1> QED
  BY <1>3, <1>4 DEF Base, ReadsHold

\* The one who writes has read what is still there.
LEMMA SubmitStep ==
  ASSUME Base, [Next]_vars, NEW s \in submissions' \ submissions
  PROVE  \E t \in Txns : /\ Submit(t) /\ Swappable(t) /\ ReadsOK(txns[t])
                         /\ s = [learner |-> txns[t].cmd.user,
                                 responses |-> txns[t].readResponses,
                                 due |-> txns[t].readAssignment.due,
                                 assignmentRevision |-> txns[t].readAssignment.revision]
<1>1. PICK t \in Txns : Commits(t) /\ ReadsOK(txns[t])
  BY Writers DEF db
<1>2. Submit(t) /\ Swappable(t)
  BY <1>1 DEF Commits, Start, Save, MutateActive
<1> QED
  BY <1>1, <1>2 DEF Submit

\* A submission is a snapshot, however saves and due updates raced it.
THEOREM SnapshotSound == Spec => SubmissionIsSnapshot
<1> DEFINE Snapshot == \A s \in submissions' \ submissions :
                          /\ s.responses = responses[s.learner]
                          /\ s.due = assignment.due /\ s.assignmentRevision = assignment.revision
<1>1. ASSUME Base, [Next]_vars PROVE Snapshot
  <2> TAKE s \in submissions' \ submissions
  <2>1. PICK t \in Txns :
          /\ Submit(t) /\ ReadsOK(txns[t])
          /\ s = [learner |-> txns[t].cmd.user,
                  responses |-> txns[t].readResponses,
                  due |-> txns[t].readAssignment.due,
                  assignmentRevision |-> txns[t].readAssignment.revision]
    BY <1>1, SubmitStep
  <2> QED
    BY <2>1 DEF ReadsOK, Submit, Writing, Editing
<1>2. Base /\ [Next]_vars => [Snapshot]_vars
  BY <1>1
<1> QED
  BY <1>2, BaseAlways, PTL DEF Spec, SubmissionIsSnapshot

\* Nothing moves after the assignment is over, no attempt after its submission.
THEOREM EvidenceSound == Spec => EvidenceIsFrozen
<1> DEFINE Frozen(l) == /\ attempts'[l] = attempts[l] /\ responses'[l] = responses[l]
                        /\ {s \in submissions' : s.learner = l}
                              = {s \in submissions : s.learner = l}
           Evidence == /\ assignment.state # "ACTIVE" =>
                            /\ assignment' = assignment
                            /\ UNCHANGED <<attempts, responses, submissions>>
                       /\ \A l \in Learners : attempts[l].state = "SUBMITTED" => Frozen(l)
<1>1. ASSUME Base, [Next]_vars PROVE Evidence
  <2>1. CASE UNCHANGED <<assignment, attempts, responses, submissions>>
    BY <2>1
  <2>2. CASE ~UNCHANGED <<assignment, attempts, responses, submissions>>
    <3>1. PICK t \in Txns : Commits(t) /\ ReadsOK(txns[t])
      BY <1>1, <2>2, Writers DEF db
    <3>2. assignment.state = "ACTIVE"
      BY <3>1 DEF ReadsOK
    <3>3. ASSUME NEW l \in Learners, attempts[l].state = "SUBMITTED" PROVE Frozen(l)
      <4>1. CASE Start(t) /\ AttemptOf(t).state = "none"
        <5>1. l # txns[t].cmd.user
          BY <3>3, <4>1 DEF AttemptOf
        <5> QED
          BY <1>1, <4>1, <5>1 DEF Start, Base, Tables
      <4>2. CASE Save(t) /\ Swappable(t)
        <5>1. l # txns[t].cmd.user
          BY <3>3, <4>2 DEF AttemptOf, Swappable
        <5> QED
          BY <1>1, <4>2, <5>1 DEF Save, Base, Tables
      <4>3. CASE Submit(t) /\ Swappable(t)
        <5>1. l # txns[t].cmd.user
          BY <3>3, <4>3 DEF AttemptOf, Swappable
        <5> QED
          BY <1>1, <4>3, <5>1 DEF Submit, Base, Tables
      <4>4. CASE MutateActive(t) /\ assignment.revision = Expected(t)
        BY <4>4 DEF MutateActive
      <4> QED
        BY <3>1, <4>1, <4>2, <4>3, <4>4 DEF Commits
    <3> QED
      BY <3>2, <3>3
  <2> QED
    BY <2>1, <2>2
<1>2. Base /\ [Next]_vars => [Evidence]_vars
  BY <1>1
<1> QED
  BY <1>2, BaseAlways, PTL DEF Spec, EvidenceIsFrozen
-----------------------------------------------------------------------------
(* Replays. *)

\* A request carried out is not inside its transaction: it answers before.
LEMMA RepeatIsOutside ==
  ASSUME Base, NEW t \in Txns, NEW o \in outcomes, o.cmd = txns[t].cmd
  PROVE  ~Inside(txns[t])
  BY DEF Base, ScopesAlone, SameScope

\* A request carried out before is replayed once the school has let it pass.
THEOREM ReplaySound == Spec => CommittedNeverRefused
<1> DEFINE Ended(t) ==
             (/\ txns[t].pc \in {"scope", "locking", "writing"} /\ txns'[t].pc = "idle"
              /\ \E o \in outcomes : o.cmd = txns[t].cmd)
           Replays == \A t \in Txns : Ended(t) => answer' \in {"replayed", "failed"}
<1>1. ASSUME Base, [Next]_vars PROVE Replays
  <2> SUFFICES ASSUME NEW t \in Txns, Ended(t) PROVE answer' \in {"replayed", "failed"}
    OBVIOUS
  <2>1. PICK o \in outcomes : o.cmd = txns[t].cmd
    OBVIOUS
  <2>2. txns[t].pc = "scope" /\ o \in Known(txns[t].cmd)
    BY <1>1, <2>1, RepeatIsOutside DEF Inside, Known, SameScope
  <2>3. PICK u \in Txns : (\E cmd \in Requests : Begin(u, cmd)) \/ Serve(u) \/ Fail(u)
    BY <1>1, <2>2 DEF Next, vars
  <2>4. u = t
    <3>1. txns'[t] # txns[t]
      BY <2>2
    <3>2. \A v \in Txns \ {u} : txns'[v] = txns[v]
      BY <1>1, <2>3 DEF Base, RequestsOK, Serve, Begin, AskSchool, AcquireScope, Lock, Check,
         Start, Save, Submit, MutateActive, Fail, Replay, Read, Record, Go, Become, Answer
    <3> QED
      BY <3>1, <3>2
  <2>5. CASE AcquireScope(u)
    BY <2>1, <2>2, <2>4, <2>5 DEF AcquireScope, Replay, Answer
  <2>6. CASE Fail(u)
    BY <2>6 DEF Fail, Answer
  <2> QED
    BY <2>2, <2>3, <2>4, <2>5, <2>6 DEF Begin, Serve, AskSchool, Lock, Check, Start, Save,
       Submit, MutateActive, Writing
<1>2. Base /\ [Next]_vars => [Replays]_vars
  BY <1>1
<1> QED
  BY <1>2, BaseAlways, PTL DEF Spec, CommittedNeverRefused
-----------------------------------------------------------------------------
(* Waiting. *)

\* A request without a row lock waits for one inside its transaction; inside it,
\* for one that has a row lock.
LEMMA Waiting ==
  ASSUME Base, NEW t \in Txns, NEW u \in Txns, WaitsFor(t, u)
  PROVE  /\ txns[t].locks = 0 /\ Inside(txns[u])
         /\ Inside(txns[t]) => txns[u].locks # 0
<1>1. t # u /\ Inside(txns[u])
  BY DEF WaitsFor, InTransaction, Inside
<1>2. CASE txns[t].pc = "scope"
  BY <1>1, <1>2 DEF Base, RequestsOK, TxnOK, Inside
<1>3. CASE /\ txns[t].pc = "locking"
           /\ Holds(u, Order(t)[txns[t].locks + 1], txns[t].cmd.user)
  <2>1. txns[u].locks # 0
    <3>1. PICK i \in 1 .. txns[u].locks : TRUE
      BY <1>3 DEF Holds
    <3>2. \A n \in 0 .. 2 : i \in 1 .. n => n # 0
      OBVIOUS
    <3> QED
      BY <1>1, <3>1, <3>2, TxnFields DEF Inside
  <2> QED
    BY <1>1, <2>1 DEF Base, OneHolder
<1> QED
  BY <1>2, <1>3 DEF WaitsFor

\* No set of requests waits for itself: scopes, the assignment and attempts are
\* taken in one order by all commands.
THEOREM NoDeadlock == Spec => []NoWaitCycle
<1>1. ASSUME Base PROVE NoWaitCycle
  <2> SUFFICES ASSUME NEW S \in (SUBSET Txns) \ {{}}
               PROVE  \E t \in S : \A u \in S : ~WaitsFor(t, u)
    BY DEF NoWaitCycle
  <2> USE <1>1
  <2>1. CASE \E t \in S : txns[t].locks # 0
    BY <2>1, Waiting
  <2>2. CASE /\ \A t \in S : txns[t].locks = 0
             /\ \E t \in S : Inside(txns[t])
    BY <2>2, Waiting
  <2>3. CASE \A t \in S : ~Inside(txns[t])
    <3>1. S # {}
      OBVIOUS
    <3> QED
      BY <2>3, <3>1, Waiting
  <2> QED
    BY <2>1, <2>2, <2>3
<1> QED
  BY <1>1, BaseAlways, PTL
-----------------------------------------------------------------------------
(* The audit trail. *)

\* EveryRevisionAudited for the revisions beyond every bound, and: an attempt
\* that has not been started has no revision.
AttemptAudited(l) ==
    /\ attempts[l].state = "none" => attempts[l].revision = 0
    /\ \A r \in Nat : [user |-> l, revision |-> r] \in audits
                         <=> attempts[l].state # "none" /\ r <= attempts[l].revision
Told(messages, user, op) == \E e \in messages : e.user = user /\ e.op = op
AttemptPublished(l) ==
    /\ [user |-> l, revision |-> 0, op |-> "start"] \in outbox
          <=> attempts[l].state # "none"
    /\ Told(outbox, l, "submit") <=> \E s \in submissions : s.learner = l
AssignmentAudited ==
    \A r \in Nat : [user |-> Teacher, revision |-> r] \in audits
                      <=> r \in 1 .. assignment.revision
Audited == /\ \A l \in Learners : AttemptAudited(l) /\ AttemptPublished(l)
           /\ AssignmentAudited

\* What a commit adds to the audit trail and the outbox.
Added(cmd, revision, event) ==
    /\ \A user, r : [user |-> user, revision |-> r] \in audits'
                       <=> \/ [user |-> user, revision |-> r] \in audits
                           \/ user = cmd.user /\ r = revision
    /\ \A user, r, op : [user |-> user, revision |-> r, op |-> op] \in outbox'
                           <=> \/ [user |-> user, revision |-> r, op |-> op] \in outbox
                               \/ event /\ user = cmd.user /\ r = revision /\ op = cmd.op
    /\ \A user, op : Told(outbox', user, op)
                        <=> \/ Told(outbox, user, op)
                            \/ event /\ user = cmd.user /\ op = cmd.op

LEMMA RecordAdds ==
  ASSUME NEW t, NEW revision, NEW event \in BOOLEAN, Record(t, revision, event)
  PROVE  Added(txns[t].cmd, revision, event)
<1> DEFINE audit == [user |-> txns[t].cmd.user, revision |-> revision]
           message == [user |-> txns[t].cmd.user, revision |-> revision, op |-> txns[t].cmd.op]
<1>1. \A user, r : [user |-> user, revision |-> r] = audit
                      <=> user = txns[t].cmd.user /\ r = revision
  OBVIOUS
<1>2. \A user, r, op : [user |-> user, revision |-> r, op |-> op] = message
                          <=> /\ user = txns[t].cmd.user /\ r = revision
                              /\ op = txns[t].cmd.op
  OBVIOUS
<1>3. message.user = txns[t].cmd.user /\ message.op = txns[t].cmd.op
  OBVIOUS
<1>4. /\ audits' = audits \cup {audit}
      /\ outbox' = IF event THEN outbox \cup {message} ELSE outbox
  BY DEF Record
<1> HIDE DEF audit, message
<1>5. \A user, op : Told(outbox', user, op)
                       <=> \/ Told(outbox, user, op)
                           \/ event /\ user = txns[t].cmd.user /\ op = txns[t].cmd.op
  <2>1. CASE event
    BY <1>3, <1>4, <2>1 DEF Told
  <2>2. CASE ~event
    BY <1>4, <2>2 DEF Told
  <2> QED
    BY <2>1, <2>2
<1>6. \A user, r, op : [user |-> user, revision |-> r, op |-> op] \in outbox'
                          <=> \/ [user |-> user, revision |-> r, op |-> op] \in outbox
                              \/ /\ event /\ user = txns[t].cmd.user /\ r = revision
                                 /\ op = txns[t].cmd.op
  <2>1. CASE event
    BY <1>2, <1>4, <2>1
  <2>2. CASE ~event
    BY <1>4, <2>2
  <2> QED
    BY <2>1, <2>2
<1> QED
  BY <1>1, <1>4, <1>5, <1>6 DEF Added

LEMMA StartAudits ==
  ASSUME Base, Audited, NEW t \in Txns, Start(t), AttemptOf(t).state = "none"
  PROVE  Audited'
<1>1. /\ txns[t].cmd.user \in Learners /\ txns[t].cmd.user # Teacher
      /\ txns[t].cmd.op = "start" /\ Added(txns[t].cmd, 0, TRUE)
      /\ attempts' = [attempts EXCEPT ![txns[t].cmd.user] =
                          [state |-> "IN_PROGRESS", revision |-> 0]]
      /\ UNCHANGED <<assignment, responses, submissions>>
  BY CommandParts, LearningAssumption, RecordAdds DEF Start, Writing, TeacherOps
<1>2. ASSUME NEW l \in Learners PROVE AttemptAudited(l)'
  <2>1. CASE l = txns[t].cmd.user
    <3>1. attempts[l].state = "none" /\ attempts'[l] = [state |-> "IN_PROGRESS", revision |-> 0]
      BY <1>1, <2>1 DEF AttemptOf, Base, Tables
    <3>2. \A r \in Nat : r = 0 <=> r <= 0
      OBVIOUS
    <3> QED
      BY <1>1, <2>1, <3>1, <3>2 DEF Added, Audited, AttemptAudited
  <2>2. CASE l # txns[t].cmd.user
    <3>1. attempts'[l] = attempts[l]
      BY <1>1, <2>2 DEF Base, Tables
    <3> QED
      BY <1>1, <2>2, <3>1 DEF Added, Audited, AttemptAudited
  <2> QED
    BY <2>1, <2>2
<1>3. ASSUME NEW l \in Learners PROVE AttemptPublished(l)'
  <2>1. CASE l = txns[t].cmd.user
    <3>1. attempts'[l].state = "IN_PROGRESS"
      BY <1>1, <2>1 DEF Base, Tables
    <3>2. [user |-> l, revision |-> 0, op |-> "start"] \in outbox'
      BY <1>1, <2>1 DEF Added
    <3>3. Told(outbox', l, "submit") <=> Told(outbox, l, "submit")
      BY <1>1 DEF Added
    <3> QED
      BY <1>1, <3>1, <3>2, <3>3 DEF Audited, AttemptPublished
  <2>2. CASE l # txns[t].cmd.user
    <3>1. attempts'[l] = attempts[l]
      BY <1>1, <2>2 DEF Base, Tables
    <3> QED
      BY <1>1, <2>2, <3>1 DEF Added, Audited, AttemptPublished
  <2> QED
    BY <2>1, <2>2
<1>4. AssignmentAudited'
  BY <1>1 DEF Added, Audited, AssignmentAudited
<1> QED
  BY <1>2, <1>3, <1>4 DEF Audited

\* A save or a submission: the attempt's next revision.
LEMMA EditAudits ==
  ASSUME Base, Audited, NEW t \in Txns, NEW state \in {"IN_PROGRESS", "SUBMITTED"},
         NEW event \in BOOLEAN, txns[t].pc = "writing", txns[t].cmd.op \in Editing,
         event <=> txns[t].cmd.op = "submit",
         Swappable(t), Added(txns[t].cmd, Expected(t) + 1, event),
         attempts' = [attempts EXCEPT ![txns[t].cmd.user] =
                          [state |-> state, revision |-> Expected(t) + 1]],
         assignment' = assignment,
         \A l \in Learners : (\E s \in submissions' : s.learner = l)
                                <=> \/ \E s \in submissions : s.learner = l
                                    \/ event /\ l = txns[t].cmd.user
  PROVE  Audited'
<1>1. /\ txns[t].cmd.user \in Learners /\ txns[t].cmd.user # Teacher
      /\ Expected(t) \in Nat /\ txns[t].cmd.op # "start"
      /\ AttemptOf(t).state = "IN_PROGRESS" /\ AttemptOf(t).revision = Expected(t)
  BY CommandParts, LearningAssumption DEF Editing, TeacherOps, Swappable
<1>2. ASSUME NEW l \in Learners PROVE AttemptAudited(l)'
  <2>1. CASE l = txns[t].cmd.user
    <3>1. /\ attempts'[l] = [state |-> state, revision |-> Expected(t) + 1]
          /\ attempts[l].state = "IN_PROGRESS" /\ attempts[l].revision = Expected(t)
      BY <1>1, <2>1 DEF AttemptOf, Base, Tables
    <3>2. \A r \in Nat : r <= Expected(t) + 1 <=> r <= Expected(t) \/ r = Expected(t) + 1
      BY <1>1
    <3>3. \A r \in Nat : [user |-> l, revision |-> r] \in audits'
                            <=> r <= Expected(t) \/ r = Expected(t) + 1
      BY <2>1, <3>1 DEF Added, Audited, AttemptAudited
    <3> QED
      BY <3>1, <3>2, <3>3 DEF AttemptAudited
  <2>2. CASE l # txns[t].cmd.user
    <3>1. attempts'[l] = attempts[l]
      BY <2>2 DEF Base, Tables
    <3> QED
      BY <2>2, <3>1 DEF Added, Audited, AttemptAudited
  <2> QED
    BY <2>1, <2>2
<1>3. ASSUME NEW l \in Learners PROVE AttemptPublished(l)'
  <2>1. attempts'[l].state = "none" <=> attempts[l].state = "none"
    BY <1>1 DEF AttemptOf, Base, Tables
  <2>2. [user |-> l, revision |-> 0, op |-> "start"] \in outbox'
          <=> [user |-> l, revision |-> 0, op |-> "start"] \in outbox
    BY <1>1 DEF Added
  <2>3. Told(outbox', l, "submit")
          <=> \/ Told(outbox, l, "submit")
              \/ event /\ l = txns[t].cmd.user
    BY DEF Added
  <2> QED
    BY <2>1, <2>2, <2>3 DEF Audited, AttemptPublished
<1>4. AssignmentAudited'
  BY <1>1 DEF Added, Audited, AssignmentAudited
<1> QED
  BY <1>2, <1>3, <1>4 DEF Audited

LEMMA SaveAudits ==
  ASSUME Base, Audited, NEW t \in Txns, Save(t), Swappable(t)
  PROVE  Audited'
<1>1. /\ txns[t].pc = "writing" /\ txns[t].cmd.op = "save"
      /\ Added(txns[t].cmd, Expected(t) + 1, FALSE)
      /\ attempts' = [attempts EXCEPT ![txns[t].cmd.user] =
                          [state |-> "IN_PROGRESS", revision |-> Expected(t) + 1]]
      /\ assignment' = assignment /\ submissions' = submissions
  BY RecordAdds DEF Save, Writing
<1> QED
  BY <1>1, EditAudits DEF Editing

LEMMA SubmitAudits ==
  ASSUME Base, Audited, NEW t \in Txns, Submit(t), Swappable(t)
  PROVE  Audited'
<1>1. /\ txns[t].pc = "writing" /\ txns[t].cmd.op = "submit"
      /\ Added(txns[t].cmd, Expected(t) + 1, TRUE)
      /\ attempts' = [attempts EXCEPT ![txns[t].cmd.user] =
                          [state |-> "SUBMITTED", revision |-> Expected(t) + 1]]
      /\ assignment' = assignment
      /\ submissions' = submissions \cup
            {[learner |-> txns[t].cmd.user, responses |-> txns[t].readResponses,
              due |-> txns[t].readAssignment.due,
              assignmentRevision |-> txns[t].readAssignment.revision]}
  BY RecordAdds DEF Submit, Writing
<1>2. \A l \in Learners : (\E s \in submissions' : s.learner = l)
                             <=> \/ \E s \in submissions : s.learner = l
                                 \/ l = txns[t].cmd.user
  <2> DEFINE submission == [learner |-> txns[t].cmd.user, responses |-> txns[t].readResponses,
                            due |-> txns[t].readAssignment.due,
                            assignmentRevision |-> txns[t].readAssignment.revision]
  <2>1. submission.learner = txns[t].cmd.user
    OBVIOUS
  <2>2. submissions' = submissions \cup {submission}
    BY <1>1
  <2> HIDE DEF submission
  <2> QED
    BY <2>1, <2>2
<1> QED
  BY <1>1, <1>2, EditAudits DEF Editing

LEMMA MutateAudits ==
  ASSUME Base, Audited, NEW t \in Txns, MutateActive(t), assignment.revision = Expected(t)
  PROVE  Audited'
<1>1. /\ txns[t].pc = "writing" /\ txns[t].cmd.op \in TeacherOps
      /\ Added(txns[t].cmd, Expected(t) + 1, TRUE)
      /\ UNCHANGED <<attempts, responses, submissions>>
      /\ assignment'.revision = Expected(t) + 1
  <2>1. Record(t, Expected(t) + 1, TRUE)
    BY DEF MutateActive
  <2>2. Added(txns[t].cmd, Expected(t) + 1, TRUE)
    BY <2>1, RecordAdds
  <2>3. /\ txns[t].pc = "writing" /\ txns[t].cmd.op \in TeacherOps
        /\ assignment' = Mutated(txns[t].cmd.op, Expected(t) + 1)
        /\ UNCHANGED <<attempts, responses, submissions>>
    BY DEF MutateActive
  <2>4. Mutated(txns[t].cmd.op, Expected(t) + 1).revision = Expected(t) + 1
    BY DEF Mutated
  <2> QED
    BY <2>2, <2>3, <2>4
<1>2. /\ txns[t].cmd.user = Teacher /\ Teacher \notin Learners /\ Expected(t) \in Nat
      /\ txns[t].cmd.op \notin {"start", "submit"}
  BY <1>1, TxnFields, CommandParts, LearningAssumption DEF WellFormed, TeacherOps
<1>3. ASSUME NEW l \in Learners PROVE AttemptAudited(l)'
  BY <1>1, <1>2 DEF Added, Audited, AttemptAudited
<1>4. ASSUME NEW l \in Learners PROVE AttemptPublished(l)'
  BY <1>1, <1>2 DEF Added, Audited, AttemptPublished
<1>5. AssignmentAudited'
  <2>1. \A r \in Nat : r \in 1 .. (Expected(t) + 1)
                          <=> r \in 1 .. Expected(t) \/ r = Expected(t) + 1
    BY <1>2
  <2>2. \A r \in Nat : [user |-> Teacher, revision |-> r] \in audits'
                          <=> r \in 1 .. Expected(t) \/ r = Expected(t) + 1
    BY <1>1, <1>2 DEF Added, Audited, AssignmentAudited
  <2> QED
    BY <1>1, <2>1, <2>2 DEF AssignmentAudited
<1> QED
  BY <1>3, <1>4, <1>5 DEF Audited

\* Only commits touch the trail.
LEMMA AuditedStep == Base /\ Audited /\ [Next]_vars => Audited'
<1> SUFFICES ASSUME Base, Audited, [Next]_vars PROVE Audited'
  OBVIOUS
<1>1. CASE UNCHANGED db
  BY <1>1 DEF db, Audited, AttemptAudited, AttemptPublished, AssignmentAudited
<1>2. CASE ~UNCHANGED db
  <2>1. PICK t \in Txns : Commits(t)
    BY <1>2, Writers
  <2> QED
    BY <2>1, StartAudits, SaveAudits, SubmitAudits, MutateAudits DEF Commits
<1> QED
  BY <1>1, <1>2

\* Every revision has its audit record, and starts and submissions their event.
THEOREM AuditSound == Spec => []EveryRevisionAudited
<1>1. Init => Audited
  <2> SUFFICES ASSUME Init PROVE Audited
    OBVIOUS
  <2>1. \A r \in Nat : r \notin 1 .. 0
    OBVIOUS
  <2> QED
    BY <2>1 DEF Init, Audited, AttemptAudited, AttemptPublished, Told, AssignmentAudited,
                NewAssignment
<1>2. Audited => EveryRevisionAudited
  <2> SUFFICES ASSUME Audited PROVE EveryRevisionAudited
    OBVIOUS
  <2>1. 0 .. MaxRevision \subseteq Nat
    OBVIOUS
  <2>2. \A l \in Learners, r \in 0 .. MaxRevision :
           [user |-> l, revision |-> r] \in audits
              <=> attempts[l].state # "none" /\ r <= attempts[l].revision
    BY <2>1 DEF Audited, AttemptAudited
  <2>3. \A r \in 0 .. MaxRevision :
           [user |-> Teacher, revision |-> r] \in audits <=> r \in 1 .. assignment.revision
    BY <2>1 DEF Audited, AssignmentAudited
  <2> QED
    BY <2>2, <2>3 DEF Audited, AttemptPublished, Told, EveryRevisionAudited
<1> QED
  BY <1>1, <1>2, AuditedStep, BaseAlways, PTL DEF Spec
-----------------------------------------------------------------------------
(* The outbox. *)

ClaimColumns == \A m \in Msgs : (rows[m].status = "CLAIMED") <=> (rows[m].owner # NoProc)
InHand == \A p \in Procs : (work[p].pc = "idle") <=> (work[p].msg = NoMsg)
Final == {"PENDING", "PUBLISHED", "QUARANTINED"}   \* what a fenced UPDATE writes

\* The row a fenced UPDATE leaves.
Released(r, status) == [status |-> status, attempts |-> r.attempts, due |-> FALSE,
                        owner |-> NoProc, expired |-> FALSE]

\* A finalizing process either finds its claim gone or releases the row.
LEMMA FinalizeCases ==
  ASSUME NEW p \in Procs, NEW s, Finalize(p, s)
  PROVE  \/ rows' = rows
         \/ Fence(p) /\ rows' = [rows EXCEPT ![work[p].msg] = Released(rows[work[p].msg], s)]
  BY DEF Finalize, Released

\* Recording the broker's answer keeps the type of the processes' state.
LEMMA ReplyTyped ==
  ASSUME DispatchTypeOK, NEW pub \in Publish, NEW r \in Replies, Reply(pub, r)
  PROVE  work' \in [Procs -> Job] /\ InHand'
  BY DEF DispatchTypeOK, Job, Reply, Publish, InHand

LEMMA InsertType == ASSUME DispatchTypeOK, NEW m \in Msgs, Insert(m) PROVE DispatchTypeOK'
<1>1. rows' = [rows EXCEPT ![m] = [rows[m] EXCEPT !.status = "PENDING", !.due = TRUE]]
  BY DEF Insert, DispatchTypeOK
<1>2. [rows[m] EXCEPT !.status = "PENDING", !.due = TRUE] \in Row
  BY DEF DispatchTypeOK, Row, RowStatus
<1>3. rows' \in [Msgs -> Row]
  BY <1>1, <1>2 DEF DispatchTypeOK
<1>4. ClaimColumns'
  BY <1>1 DEF Insert, DispatchTypeOK, Row, ClaimColumns
<1> QED
  BY <1>3, <1>4 DEF Insert, broker, DispatchTypeOK, ClaimColumns

\* Time passes over one row: its clocks move, and nothing else of it.
LEMMA ElapseRow ==
  ASSUME DispatchTypeOK, NEW m \in Msgs, BecomeDue(m) \/ LeaseExpires(m)
  PROVE  /\ rows' \in [Msgs -> Row]
         /\ \A x \in Msgs : /\ rows'[x].status = rows[x].status
                            /\ rows'[x].owner = rows[x].owner
                            /\ rows'[x].attempts = rows[x].attempts
<1> DEFINE moved == IF BecomeDue(m) THEN [rows[m] EXCEPT !.due = TRUE]
                    ELSE [rows[m] EXCEPT !.expired = TRUE]
<1>1. rows[m] \in Row
  BY DEF DispatchTypeOK
<1>2. rows' = [rows EXCEPT ![m] = moved]
  <2>1. CASE BecomeDue(m)
    BY <2>1 DEF BecomeDue
  <2>2. CASE ~BecomeDue(m)
    BY <2>2 DEF LeaseExpires
  <2> QED BY <2>1, <2>2
<1>3. /\ moved \in Row /\ moved.status = rows[m].status
      /\ moved.owner = rows[m].owner /\ moved.attempts = rows[m].attempts
  BY <1>1 DEF Row
<1>4. rows \in [Msgs -> Row]
  BY DEF DispatchTypeOK
<1> HIDE DEF moved
<1> QED
  BY <1>2, <1>3, <1>4

LEMMA BecomeDueType == ASSUME DispatchTypeOK, NEW m \in Msgs, BecomeDue(m) PROVE DispatchTypeOK'
<1>1. rows' \in [Msgs -> Row] /\ ClaimColumns'
  BY ElapseRow DEF DispatchTypeOK, ClaimColumns
<1> QED
  BY <1>1 DEF BecomeDue, broker, DispatchTypeOK, ClaimColumns

LEMMA LeaseExpiresType == ASSUME DispatchTypeOK, NEW m \in Msgs, LeaseExpires(m)
  PROVE DispatchTypeOK'
<1>1. slips' \in Nat
  BY DEF LeaseExpires, DispatchTypeOK
<1>2. rows' \in [Msgs -> Row]
  BY ElapseRow
<1>3. ClaimColumns'
  BY ElapseRow DEF DispatchTypeOK, ClaimColumns
<1> QED
  BY <1>1, <1>2, <1>3 DEF LeaseExpires, broker, DispatchTypeOK, ClaimColumns

LEMMA ClaimType ==
  ASSUME DispatchTypeOK, NEW p \in Procs, NEW m \in Msgs, ClaimAndPublish(p, m)
          PROVE DispatchTypeOK'
<1>1. rows' \in [Msgs -> Row] /\ ClaimColumns'
  BY OutboxAssumption DEF ClaimAndPublish, DispatchTypeOK, Row, RowStatus, ClaimColumns
<1>2. work' \in [Procs -> Job] /\ InHand'
  BY OutboxAssumption DEF ClaimAndPublish, DispatchTypeOK, Row, Job, Replies, InHand
<1>3. wire' \in SUBSET Publish
  BY DEF ClaimAndPublish, DispatchTypeOK, Row, Publish
<1> QED
  BY <1>1, <1>2, <1>3 DEF ClaimAndPublish, DispatchTypeOK, ClaimColumns, InHand

LEMMA ReceiveType == ASSUME DispatchTypeOK, NEW p \in Procs, Receive(p) PROVE DispatchTypeOK'
<1>1. work' \in [Procs -> Job] /\ InHand'
  BY DEF Receive, DispatchTypeOK, Job, Replies, InHand
<1> QED
  BY <1>1 DEF Receive, broker, DispatchTypeOK, InHand

LEMMA GiveUpType == ASSUME DispatchTypeOK, NEW p \in Procs, GiveUp(p) PROVE DispatchTypeOK'
<1>1. work' = [work EXCEPT ![p] = [work[p] EXCEPT !.pc = "failed", !.reply = "none"]]
  BY DEF GiveUp, DispatchTypeOK
<1>2. work' \in [Procs -> Job] /\ InHand'
  BY <1>1 DEF GiveUp, DispatchTypeOK, Job, Replies, InHand
<1> QED
  BY <1>2 DEF GiveUp, broker, DispatchTypeOK, InHand

LEMMA FinalizeType ==
  ASSUME DispatchTypeOK, NEW p \in Procs, work[p].pc # "idle", NEW s \in Final, Finalize(p, s)
  PROVE  DispatchTypeOK'
<1>1. work[p].msg \in Msgs
  BY DEF DispatchTypeOK, Job
<1>2. rows' = rows \/ rows' = [rows EXCEPT ![work[p].msg] = Released(rows[work[p].msg], s)]
  BY FinalizeCases
<1>3. Released(rows[work[p].msg], s) \in Row
  BY <1>1 DEF DispatchTypeOK, Row, RowStatus, Released, Final
<1>4. rows' \in [Msgs -> Row]
  BY <1>2, <1>3 DEF DispatchTypeOK
<1>5. ClaimColumns'
  BY <1>1, <1>2 DEF DispatchTypeOK, Released, Final, ClaimColumns
<1>6. work' \in [Procs -> Job] /\ InHand'
  BY DEF Finalize, DispatchTypeOK, Job, Idle, Replies, InHand
<1> QED
  BY <1>4, <1>5, <1>6 DEF Finalize, broker, DispatchTypeOK, ClaimColumns, InHand

LEMMA CrashType == ASSUME DispatchTypeOK, NEW p \in Procs, Crash(p) PROVE DispatchTypeOK'
<1>1. work' \in [Procs -> Job] /\ InHand'
  BY DEF Crash, DispatchTypeOK, Job, Idle, Replies, InHand
<1> QED
  BY <1>1 DEF Crash, broker, DispatchTypeOK, InHand

LEMMA BrokerType == ASSUME DispatchTypeOK, NEW pub \in wire, Broker(pub) PROVE DispatchTypeOK'
<1> USE DEF Broker, BrokerStores, BrokerMisroutes, BrokerRejects, WireLoses, MsgId
<1>1. pub \in Publish /\ pub.msg \in Msgs
  BY DEF DispatchTypeOK, Publish
<1>2. work' \in [Procs -> Job] /\ InHand'
  BY <1>1, ReplyTyped DEF DispatchTypeOK, Replies, InHand
<1>3. wire' \in SUBSET Publish /\ seen' \in SUBSET Msgs /\ refused' \in SUBSET Msgs
  BY <1>1 DEF DispatchTypeOK
<1>4. copies' \in [Msgs -> Nat]
  BY <1>1 DEF DispatchTypeOK
<1>5. UNCHANGED <<rows, alive, lapsed, reclaims, slips>>
  OBVIOUS
<1> QED
  BY <1>2, <1>3, <1>4, <1>5 DEF DispatchTypeOK, InHand

LEMMA WindowType == ASSUME DispatchTypeOK, WindowEnds PROVE DispatchTypeOK'
<1>1. seen' \in SUBSET Msgs /\ lapsed' \in SUBSET Msgs
  BY DEF WindowEnds, DispatchTypeOK
<1> QED
  BY <1>1 DEF WindowEnds, DispatchTypeOK

\* Every step keeps the types and the claim columns of the rows.
LEMMA TypeStep == ASSUME DispatchTypeOK, [DispatchNext]_dispatchVars PROVE DispatchTypeOK'
<1>1. CASE UNCHANGED dispatchVars
  BY <1>1 DEF dispatchVars, DispatchTypeOK
<1>2. ASSUME NEW m \in Msgs, Insert(m) \/ Elapse(m) PROVE DispatchTypeOK'
  BY <1>2, InsertType, BecomeDueType, LeaseExpiresType DEF Elapse
<1>3. ASSUME NEW p \in Procs, MarkPublished(p) \/ ReleaseForRetry(p) PROVE DispatchTypeOK'
  BY <1>3, FinalizeType DEF MarkPublished, ReleaseForRetry, Final
<1>4. ASSUME NEW p \in Procs, Dispatch(p) \/ Crash(p) PROVE DispatchTypeOK'
  BY <1>3, <1>4, ClaimType, ReceiveType, GiveUpType, CrashType DEF Dispatch
<1> QED
  BY <1>1, <1>2, <1>4, BrokerType, WindowType DEF DispatchNext

\* The rows, the processes and the broker keep their types, a row has a
\* claimant exactly while it is CLAIMED, and a process that is dispatching
\* knows which event.
THEOREM DispatchTypeCorrect == DispatchSpec => []DispatchTypeOK
<1>1. DispatchInit => DispatchTypeOK
  BY OutboxAssumption
     DEF DispatchInit, DispatchTypeOK, Row, Job, Publish, Replies, RowStatus, Idle
<1> QED
  BY <1>1, TypeStep, PTL DEF DispatchSpec
----------------------------------------------------------------------------
(* Safety.  The properties are inductive together with the types and        *)
(* BrokerView.  IInv is proved one component of the state at a time: every  *)
(* part reads few variables, so most actions leave it alone.                *)

Budget == /\ AttemptBudget
          /\ \A m \in Msgs : rows[m].status = "ABSENT" => rows[m].attempts = 0
Dedup == Stored = seen \cup lapsed /\ \A m \in Msgs : copies[m] > 1 => m \in lapsed
Counted == IsFiniteSet(wire) /\ \A m \in Msgs : Copies(m) <= rows[m].attempts
Acks == \A p \in Procs : work[p].pc = "acked" \/ work[p].reply = "stream" =>
                              work[p].msg \in Stored
Refusals == \A p \in Procs : Permanent(p) => work[p].msg \in refused
Recorded == \A pub \in wire : rows[pub.msg].status # "ABSENT"
Published == \A m \in Msgs : rows[m].status = "PUBLISHED" => m \in Stored

IInv == /\ DispatchTypeOK /\ Budget /\ Dedup /\ Counted /\ Acks /\ Refusals /\ Recorded
        /\ Published /\ QuarantineJustified

\* A row changes only by one of these steps.
LEMMA RowSteps ==
  ASSUME DispatchTypeOK, [DispatchNext]_dispatchVars
  PROVE  \/ rows' = rows
         \/ \E m \in Msgs : Insert(m) \/ BecomeDue(m) \/ LeaseExpires(m)
         \/ \E p \in Procs, m \in Msgs : ClaimAndPublish(p, m)
         \/ \E p \in Procs : MarkPublished(p) \/ ReleaseForRetry(p)
  BY DEF DispatchNext, dispatchVars, Dispatch, Elapse, Receive, GiveUp, Crash, Broker,
     BrokerStores,
         BrokerMisroutes, BrokerRejects, WireLoses, WindowEnds

\* The history variables and the stream only grow.
LEMMA Monotone ==
  ASSUME DispatchTypeOK, [DispatchNext]_dispatchVars
  PROVE  /\ Stored \subseteq Stored' /\ refused \subseteq refused'
         /\ \A m \in Msgs : reclaims[m] <= reclaims'[m]
<1>1. \A p \in Procs, m \in Msgs : ClaimAndPublish(p, m) =>
                                  \A x \in Msgs : reclaims[x] <= reclaims'[x]
  BY DEF ClaimAndPublish, DispatchTypeOK
<1>2. \A x \in Msgs : copies[x] <= copies[x] /\ reclaims[x] <= reclaims[x]
  BY DEF DispatchTypeOK
<1>3. ASSUME NEW p \in Procs, MarkPublished(p) \/ ReleaseForRetry(p)
      PROVE  UNCHANGED <<copies, refused, reclaims>>
  BY <1>3 DEF MarkPublished, ReleaseForRetry, Finalize, broker
<1>4. ASSUME NEW p \in Procs, Dispatch(p) \/ Crash(p)
      PROVE  /\ copies' = copies /\ refused' = refused
             /\ \A m \in Msgs : reclaims[m] <= reclaims'[m]
  BY <1>1, <1>2, <1>3, <1>4 DEF Dispatch, Crash, Receive, GiveUp, ClaimAndPublish, broker
<1>5. ASSUME NEW pub \in wire, Broker(pub)
      PROVE  refused \subseteq refused' /\ reclaims' = reclaims
  BY <1>5 DEF Broker, BrokerStores, BrokerMisroutes, BrokerRejects, WireLoses
<1>6. ASSUME NEW pub \in wire, Broker(pub), NEW m \in Msgs PROVE copies[m] <= copies'[m]
  BY <1>6 DEF Broker, BrokerStores, BrokerMisroutes, BrokerRejects, WireLoses, DispatchTypeOK
<1>7. ASSUME NEW m \in Msgs, Insert(m) \/ Elapse(m)
      PROVE  UNCHANGED <<copies, refused, reclaims>>
  BY <1>7 DEF Insert, Elapse, BecomeDue, LeaseExpires, broker
<1>8. WindowEnds \/ UNCHANGED dispatchVars => UNCHANGED <<copies, refused, reclaims>>
  BY DEF WindowEnds, dispatchVars
<1>9. ASSUME NEW m \in Msgs PROVE copies[m] <= copies'[m]
  <2>1. copies' = copies \/ \E pub \in wire : Broker(pub)
    BY <1>4, <1>7, <1>8 DEF DispatchNext
  <2> QED
    BY <2>1, <1>2, <1>6
<1>10. Stored \subseteq Stored'
  BY <1>9, TypeStep DEF Stored, DispatchTypeOK
<1> QED
  BY <1>2, <1>4, <1>5, <1>7, <1>8, <1>10 DEF DispatchNext

LEMMA FinalizeBudget ==
  ASSUME DispatchTypeOK, Budget, NEW p \in Procs, MarkPublished(p) \/ ReleaseForRetry(p)
  PROVE  Budget'
<1>1. work[p].msg \in Msgs
  BY DEF DispatchTypeOK, Job, MarkPublished, ReleaseForRetry
<1> DEFINE m == work[p].msg
<1>2. PICK s \in Final : Finalize(p, s) /\ (s = "PENDING" => work[p].attempt < MaxAttempts)
  BY OutboxAssumption
     DEF MarkPublished, ReleaseForRetry, Final, GivesUpForGood, DispatchTypeOK, Job
<1>3. CASE rows' = rows
  BY <1>2, <1>3 DEF Finalize, Budget, AttemptBudget
<1>4. CASE Fence(p) /\ rows' = [rows EXCEPT ![m] = Released(rows[m], s)]
  <2>1. /\ rows'[m].attempts = rows[m].attempts /\ rows'[m].status = s
        /\ rows[m].attempts = work[p].attempt
    BY <1>1, <1>4 DEF Released, DispatchTypeOK, Fence
  <2>2. \A x \in Msgs \ {m} : rows'[x] = rows[x]
    BY <1>4 DEF DispatchTypeOK
  <2>3. reclaims' = reclaims
    BY <1>2 DEF Finalize
  <2> QED
    BY <1>1, <1>2, <2>1, <2>2, <2>3 DEF Final, Budget, AttemptBudget
<1> QED
  BY <1>2, <1>3, <1>4, FinalizeCases

LEMMA BudgetStep == ASSUME DispatchTypeOK, Budget, [DispatchNext]_dispatchVars PROVE Budget'
<1>1. CASE rows' = rows
  BY <1>1, Monotone, OutboxAssumption, TypeStep DEF Budget, AttemptBudget, DispatchTypeOK, Row
<1>2. ASSUME NEW m \in Msgs, Insert(m) PROVE Budget'
  BY <1>2, OutboxAssumption DEF Insert, Budget, AttemptBudget, DispatchTypeOK, Row
<1>3. ASSUME NEW m \in Msgs, BecomeDue(m) \/ LeaseExpires(m) PROVE Budget'
  <2>1. reclaims' = reclaims
    BY <1>3 DEF BecomeDue, LeaseExpires
  <2> QED BY <1>3, <2>1, ElapseRow DEF Budget, AttemptBudget
<1>4. ASSUME NEW p \in Procs, NEW m \in Msgs, ClaimAndPublish(p, m) PROVE Budget'
  BY <1>4, OutboxAssumption
     DEF ClaimAndPublish, Claimable, Budget, AttemptBudget, DispatchTypeOK, Row
<1> QED
  BY <1>1, <1>2, <1>3, <1>4, FinalizeBudget, RowSteps

\* The broker's memory changes only when it stores a publish.
LEMMA StoreSteps ==
  ASSUME DispatchTypeOK, [DispatchNext]_dispatchVars
  PROVE  \/ UNCHANGED <<seen, copies, lapsed>>
         \/ \E pub \in wire : BrokerStores(pub)
         \/ WindowEnds
<1>1. ASSUME NEW p \in Procs, MarkPublished(p) \/ ReleaseForRetry(p)
      PROVE  UNCHANGED <<seen, copies, lapsed>>
  BY <1>1 DEF MarkPublished, ReleaseForRetry, Finalize, broker
<1>2. ASSUME NEW p \in Procs, Dispatch(p) \/ Crash(p)
      PROVE  UNCHANGED <<seen, copies, lapsed>>
  BY <1>1, <1>2 DEF Dispatch, Crash, Receive, GiveUp, ClaimAndPublish, broker
<1>3. ASSUME NEW m \in Msgs, Insert(m) \/ Elapse(m)
      PROVE  UNCHANGED <<seen, copies, lapsed>>
  BY <1>3 DEF Insert, Elapse, BecomeDue, LeaseExpires, broker
<1>4. ASSUME NEW pub \in wire, Broker(pub)
      PROVE  UNCHANGED <<seen, copies, lapsed>> \/ BrokerStores(pub)
  BY <1>4 DEF Broker, BrokerMisroutes, BrokerRejects, WireLoses
<1>5. CASE UNCHANGED dispatchVars
  BY <1>5 DEF dispatchVars
<1> QED
  BY <1>2, <1>3, <1>4, <1>5 DEF DispatchNext

\* A second copy gets into the stream only once the window of the id has ended.
LEMMA DedupStep == ASSUME DispatchTypeOK, Dedup, [DispatchNext]_dispatchVars PROVE Dedup'
<1>1. ASSUME NEW pub \in wire, BrokerStores(pub) PROVE Dedup'
  <2>1. pub.msg \in Msgs
    BY DEF DispatchTypeOK, Publish
  <2>2. \A m \in Msgs \ {pub.msg} : copies'[m] = copies[m]
    BY <1>1 DEF BrokerStores, MsgId, DispatchTypeOK
  <2>3. /\ seen' = seen \cup {pub.msg} /\ lapsed' = lapsed
        /\ copies'[pub.msg] = IF pub.msg \in seen THEN copies[pub.msg] ELSE copies[pub.msg] + 1
        /\ copies[pub.msg] \in Nat
    BY <1>1, <2>1 DEF BrokerStores, MsgId, DispatchTypeOK
  <2>4. /\ pub.msg \in seen => copies[pub.msg] > 0
        /\ copies[pub.msg] > 0 => pub.msg \in seen \cup lapsed
        /\ copies[pub.msg] > 1 => pub.msg \in lapsed
    BY <2>1 DEF Dedup, Stored
  <2>5. copies'[pub.msg] > 0 /\ (copies'[pub.msg] > 1 => pub.msg \in lapsed)
    BY <2>3, <2>4
  <2>6. Stored' = Stored \cup {pub.msg}
    BY <2>1, <2>2, <2>5 DEF Stored
  <2> QED
    BY <2>2, <2>3, <2>5, <2>6 DEF Dedup
<1>2. CASE WindowEnds
  BY <1>2 DEF WindowEnds, Dedup, Stored
<1> QED
  BY <1>1, <1>2, StoreSteps DEF Dedup, Stored

\* A process's state changes by its own step or by the broker's answer.
LEMMA WorkSteps ==
  ASSUME DispatchTypeOK, [DispatchNext]_dispatchVars
  PROVE  \/ work' = work
         \/ \E p \in Procs, m \in Msgs : ClaimAndPublish(p, m)
         \/ \E p \in Procs : Receive(p) \/ GiveUp(p)
         \/ \E p \in Procs : work' = [work EXCEPT ![p] = Idle]
         \/ \E pub \in wire : Broker(pub)
  BY DEF DispatchNext, dispatchVars, Dispatch, Elapse, Insert, BecomeDue, LeaseExpires, Crash,
         MarkPublished, ReleaseForRetry, Finalize, WindowEnds

\* An accepted ack and a permanent refusal both rest on the broker's answer.
LEMMA AnswersStep ==
  ASSUME DispatchTypeOK, Dedup, Acks, Refusals, [DispatchNext]_dispatchVars
  PROVE  Acks' /\ Refusals'
<1> USE DEF Acks, Refusals, Permanent
<1>0. copies' = copies => Stored' = Stored
  BY DEF Stored
<1>1. CASE work' = work
  BY <1>1, Monotone
<1>2. ASSUME NEW p \in Procs, NEW m \in Msgs, ClaimAndPublish(p, m)
      PROVE  Acks' /\ Refusals'
  BY <1>0, <1>2 DEF ClaimAndPublish, DispatchTypeOK
<1>3. ASSUME NEW p \in Procs, Receive(p) PROVE Acks' /\ Refusals'
  BY <1>0, <1>3 DEF Receive, Accepted, broker, DispatchTypeOK, Job
<1>4. ASSUME NEW p \in Procs, GiveUp(p) PROVE Acks' /\ Refusals'
  <2>1. work' = [work EXCEPT ![p] = [work[p] EXCEPT !.pc = "failed", !.reply = "none"]]
    BY <1>4 DEF GiveUp, DispatchTypeOK
  <2> QED
    BY <1>0, <1>4, <2>1 DEF GiveUp, broker, DispatchTypeOK, Job
<1>5. ASSUME NEW p \in Procs, work' = [work EXCEPT ![p] = Idle] PROVE Acks' /\ Refusals'
  BY <1>5, Monotone DEF Idle, DispatchTypeOK
<1>6. ASSUME NEW pub \in wire, Broker(pub) PROVE Acks' /\ Refusals'
  <2>1. ASSUME NEW r \in Replies, Reply(pub, r), NEW p \in Procs
        PROVE  \/ work'[p] = work[p]
               \/ /\ work'[p].reply = r /\ work'[p].pc = "publishing"
                  /\ work'[p].msg = pub.msg
    BY <2>1 DEF Reply, DispatchTypeOK, Job
  <2>2. CASE BrokerStores(pub)
    <3>1. pub.msg \in Stored'
      <4>1. pub.msg \in Msgs /\ copies[pub.msg] \in Nat /\ MsgId(pub) = pub.msg
        BY DEF DispatchTypeOK, Publish, MsgId
      <4>2. CASE pub.msg \in seen
        BY <4>2, Monotone DEF Dedup
      <4>3. CASE pub.msg \notin seen
        BY <2>2, <4>1, <4>3 DEF BrokerStores, Stored, DispatchTypeOK
      <4> QED BY <4>2, <4>3
    <3> QED
      BY <2>1, <2>2, <3>1, Monotone DEF BrokerStores, Replies
  <2>3. CASE BrokerMisroutes(pub)
    BY <2>1, <2>3, Monotone DEF BrokerMisroutes, Replies
  <2>4. CASE BrokerRejects(pub)
    BY <2>1, <2>4, Monotone DEF BrokerRejects, Replies
  <2> QED
    BY <1>6, <2>2, <2>3, <2>4, <1>1 DEF Broker, WireLoses
<1> QED
  BY <1>1, <1>2, <1>3, <1>4, <1>5, <1>6, WorkSteps

\* What the fenced UPDATE of a finalizing process leaves of each row.
LEMMA FinalizeRows ==
  ASSUME DispatchTypeOK, NEW p \in Procs, MarkPublished(p) \/ ReleaseForRetry(p), NEW x \in Msgs
  PROVE  \/ rows'[x] = rows[x]
         \/ /\ x = work[p].msg /\ rows[x].status = "CLAIMED"
            /\ rows'[x].attempts = rows[x].attempts
            /\ rows[x].attempts = work[p].attempt
            /\ \/ rows'[x].status = "PUBLISHED" /\ work[p].pc = "acked"
               \/ rows'[x].status = "PENDING"
               \/ rows'[x].status = "QUARANTINED" /\ GivesUpForGood(p)
<1>1. PICK s \in Final : /\ Finalize(p, s)
                         /\ s = "PUBLISHED" => work[p].pc = "acked"
                         /\ s = "QUARANTINED" => GivesUpForGood(p)
  BY DEF MarkPublished, ReleaseForRetry, Final
<1>2. CASE Fence(p) /\ rows' = [rows EXCEPT ![work[p].msg] = Released(rows[work[p].msg], s)]
  BY <1>1, <1>2 DEF Fence, Released, Final, DispatchTypeOK
<1> QED
  BY <1>1, <1>2, FinalizeCases

\* How the status of a row may move in one step.
LEMMA StatusMoves ==
  ASSUME DispatchTypeOK, [DispatchNext]_dispatchVars, NEW x \in Msgs
  PROVE  \/ rows'[x].status = rows[x].status /\ rows'[x].attempts = rows[x].attempts
         \/ rows[x].status = "ABSENT" /\ rows'[x].status = "PENDING"
         \/ rows[x].status \in {"PENDING", "CLAIMED"} /\ rows'[x].status = "CLAIMED"
         \/ \E p \in Procs :
              /\ x = work[p].msg /\ rows[x].status = "CLAIMED"
              /\ rows'[x].attempts = rows[x].attempts
              /\ rows[x].attempts = work[p].attempt
              /\ \/ rows'[x].status = "PUBLISHED" /\ work[p].pc = "acked"
                 \/ rows'[x].status = "PENDING"
                 \/ rows'[x].status = "QUARANTINED" /\ GivesUpForGood(p)
<1> DEFINE Same == rows'[x].status = rows[x].status /\ rows'[x].attempts = rows[x].attempts
<1>1. ASSUME NEW m \in Msgs, Insert(m)
      PROVE  Same \/ (rows[x].status = "ABSENT" /\ rows'[x].status = "PENDING")
  BY <1>1 DEF Insert, DispatchTypeOK, Row
<1>2. ASSUME NEW m \in Msgs, BecomeDue(m) \/ LeaseExpires(m) PROVE Same
  BY <1>2 DEF BecomeDue, LeaseExpires, DispatchTypeOK, Row
<1>3. ASSUME NEW p \in Procs, NEW m \in Msgs, ClaimAndPublish(p, m)
      PROVE  \/ Same
             \/ rows[x].status \in {"PENDING", "CLAIMED"} /\ rows'[x].status = "CLAIMED"
  <2>1. CASE x # m
    BY <1>3, <2>1 DEF ClaimAndPublish, DispatchTypeOK
  <2>2. rows'[m].status = "CLAIMED"
    BY <1>3 DEF ClaimAndPublish, DispatchTypeOK
  <2>3. rows[m].status \in {"PENDING", "CLAIMED"}
    BY <1>3 DEF ClaimAndPublish, Claimable
  <2> QED
    BY <2>1, <2>2, <2>3
<1>4. ASSUME NEW p \in Procs, MarkPublished(p) \/ ReleaseForRetry(p)
      PROVE  \/ Same
             \/ /\ x = work[p].msg /\ rows[x].status = "CLAIMED"
                /\ rows'[x].attempts = rows[x].attempts
                /\ rows[x].attempts = work[p].attempt
                /\ \/ rows'[x].status = "PUBLISHED" /\ work[p].pc = "acked"
                   \/ rows'[x].status = "PENDING"
                   \/ rows'[x].status = "QUARANTINED" /\ GivesUpForGood(p)
  BY <1>4, FinalizeRows
<1>5. CASE rows' = rows
  BY <1>5
<1> QED
  BY <1>1, <1>2, <1>3, <1>4, <1>5, RowSteps

\* No step takes attempts back, and one that sends a publish adds an attempt.
LEMMA AttemptsGrow ==
  ASSUME DispatchTypeOK, [DispatchNext]_dispatchVars, NEW x \in Msgs
  PROVE  rows[x].attempts <= rows'[x].attempts
<1>1. rows[x].attempts \in Nat
  BY DEF DispatchTypeOK, Row
<1>2. ASSUME NEW m \in Msgs, Insert(m) \/ BecomeDue(m) \/ LeaseExpires(m)
      PROVE  rows'[x].attempts = rows[x].attempts
  BY <1>2 DEF Insert, BecomeDue, LeaseExpires, DispatchTypeOK, Row
<1>3. ASSUME NEW p \in Procs, NEW m \in Msgs, ClaimAndPublish(p, m)
      PROVE  rows[x].attempts <= rows'[x].attempts
  BY <1>1, <1>3 DEF ClaimAndPublish, DispatchTypeOK, Row
<1>4. ASSUME NEW p \in Procs, MarkPublished(p) \/ ReleaseForRetry(p)
      PROVE  rows'[x].attempts = rows[x].attempts
  BY <1>4, FinalizeRows
<1> QED
  BY <1>1, <1>2, <1>3, <1>4, RowSteps

InFlight(w, m) == {pub \in w : pub.msg = m}

\* A set gains or loses an element.
LEMMA OneMore ==
  ASSUME NEW S, NEW U, NEW x, IsFiniteSet(S), U = S \cup {x}
  PROVE  /\ IsFiniteSet(U) /\ Cardinality(U) \in Nat
         /\ Cardinality(U) <= Cardinality(S) + 1
<1>1. Cardinality(S) \in Nat
  BY FS_CardinalityType
<1>2. IsFiniteSet(U) /\ Cardinality(U) = IF x \in S THEN Cardinality(S) ELSE Cardinality(S) + 1
  BY FS_AddElement
<1> QED
  BY <1>1, <1>2

LEMMA OneLess ==
  ASSUME NEW S, NEW U, NEW x \in S, IsFiniteSet(S), U = S \ {x}
  PROVE  IsFiniteSet(U) /\ Cardinality(U) \in Nat /\ Cardinality(U) = Cardinality(S) - 1
<1>1. IsFiniteSet(U) /\ Cardinality(U) = IF x \in S THEN Cardinality(S) - 1 ELSE Cardinality(S)
  BY FS_RemoveElement
<1>2. Cardinality(U) \in Nat
  BY <1>1, FS_CardinalityType
<1> QED
  BY <1>1, <1>2

\* A copy comes out of the wire, and into the wire only with a claim.
LEMMA CountedStep ==
  ASSUME DispatchTypeOK, Counted, [DispatchNext]_dispatchVars PROVE Counted'
<1> DEFINE flying(m) == InFlight(wire, m)
           flyingNext(m) == InFlight(wire', m)
<1>1. \A m \in Msgs : /\ copies[m] \in Nat /\ rows[m].attempts \in Nat
                      /\ copies'[m] \in Nat /\ rows'[m].attempts \in Nat
  BY TypeStep DEF DispatchTypeOK, Row
<1>2. ASSUME NEW m \in Msgs
      PROVE  /\ IsFiniteSet(flying(m)) /\ Cardinality(flying(m)) \in Nat
             /\ copies[m] + Cardinality(flying(m)) <= rows[m].attempts
  <2>1. IsFiniteSet(flying(m))
    BY FS_Subset DEF InFlight, Counted
  <2> QED
    BY <2>1, FS_CardinalityType DEF InFlight, Counted, Copies
<1>3. SUFFICES /\ IsFiniteSet(wire')
               /\ \A m \in Msgs : copies'[m] + Cardinality(flyingNext(m)) <= rows'[m].attempts
  BY DEF Counted, Copies, InFlight
<1>4. \A m \in Msgs : flyingNext(m) = flying(m) /\ copies'[m] = copies[m] =>
                         copies'[m] + Cardinality(flyingNext(m)) <= rows'[m].attempts
  <2> HIDE DEF flying, flyingNext
  <2> QED
    BY <1>1, <1>2, AttemptsGrow
<1>5. CASE wire' \subseteq wire /\ copies' = copies
  <2>1. IsFiniteSet(wire')
    BY <1>5, FS_Subset DEF Counted
  <2>2. ASSUME NEW m \in Msgs
        PROVE  copies'[m] + Cardinality(flyingNext(m)) <= rows'[m].attempts
    <3>1. flyingNext(m) \in SUBSET flying(m)
      BY <1>5 DEF InFlight
    <3> HIDE DEF flying, flyingNext
    <3>2. /\ Cardinality(flyingNext(m)) <= Cardinality(flying(m))
          /\ Cardinality(flyingNext(m)) \in Nat
      BY <3>1, <1>2, FS_Subset, FS_CardinalityType
    <3> QED
      BY <1>1, <1>2, <1>5, <3>2, AttemptsGrow
  <2> QED BY <2>1, <2>2
<1>6. ASSUME NEW p \in Procs, NEW m \in Msgs, ClaimAndPublish(p, m)
      PROVE  /\ IsFiniteSet(wire')
             /\ \A x \in Msgs : copies'[x] + Cardinality(flyingNext(x)) <= rows'[x].attempts
  <2> DEFINE pub == [msg |-> m, from |-> p, attempt |-> rows[m].attempts + 1]
  <2>1. /\ wire' = wire \cup {pub} /\ copies' = copies /\ pub.msg = m
        /\ rows'[m].attempts = rows[m].attempts + 1
    BY <1>6 DEF ClaimAndPublish, DispatchTypeOK
  <2> HIDE DEF pub
  <2>2. IsFiniteSet(wire')
    BY <2>1, OneMore DEF Counted
  <2>3. /\ flyingNext(m) = flying(m) \cup {pub}
        /\ \A x \in Msgs \ {m} : flyingNext(x) = flying(x)
    BY <2>1 DEF InFlight
  <2> HIDE DEF flying, flyingNext
  <2>4. /\ Cardinality(flyingNext(m)) <= Cardinality(flying(m)) + 1
        /\ Cardinality(flyingNext(m)) \in Nat
    BY <2>3, <1>2, OneMore
  <2>5. copies'[m] + Cardinality(flyingNext(m)) <= rows'[m].attempts
    BY <1>1, <1>2, <2>1, <2>4
  <2> QED BY <1>4, <2>1, <2>2, <2>3, <2>5
<1>7. ASSUME NEW pub \in wire, BrokerStores(pub)
      PROVE  /\ IsFiniteSet(wire')
             /\ \A x \in Msgs : copies'[x] + Cardinality(flyingNext(x)) <= rows'[x].attempts
  <2>1. pub.msg \in Msgs /\ wire' = wire \ {pub} /\ rows' = rows
    BY <1>7 DEF BrokerStores, DispatchTypeOK, Publish
  <2>2. IsFiniteSet(wire')
    BY <2>1, OneLess DEF Counted
  <2>3. /\ flyingNext(pub.msg) = flying(pub.msg) \ {pub} /\ pub \in flying(pub.msg)
        /\ \A x \in Msgs \ {pub.msg} : flyingNext(x) = flying(x)
    BY <2>1 DEF InFlight
  <2>4. /\ copies'[pub.msg] <= copies[pub.msg] + 1
        /\ \A x \in Msgs \ {pub.msg} : copies'[x] = copies[x]
    BY <1>7, <2>1 DEF BrokerStores, MsgId, DispatchTypeOK
  <2> HIDE DEF flying, flyingNext
  <2>5. /\ Cardinality(flyingNext(pub.msg)) = Cardinality(flying(pub.msg)) - 1
        /\ Cardinality(flyingNext(pub.msg)) \in Nat
    BY <2>1, <2>3, <1>2, OneLess
  <2>6. copies'[pub.msg] + Cardinality(flyingNext(pub.msg)) <= rows'[pub.msg].attempts
    BY <1>1, <1>2, <2>1, <2>4, <2>5
  <2> QED BY <1>4, <2>2, <2>3, <2>4, <2>6
<1>8. \/ wire' \subseteq wire /\ copies' = copies
      \/ \E p \in Procs, m \in Msgs : ClaimAndPublish(p, m)
      \/ \E pub \in wire : BrokerStores(pub)
  BY DEF DispatchNext, dispatchVars, Dispatch, Elapse, Insert, BecomeDue, LeaseExpires, Receive,
         GiveUp, MarkPublished, ReleaseForRetry, Finalize, Crash, Broker, BrokerMisroutes,
         BrokerRejects, WireLoses, WindowEnds, broker
<1> QED
  BY <1>5, <1>6, <1>7, <1>8

LEMMA RecordedStep == ASSUME DispatchTypeOK, Recorded, [DispatchNext]_dispatchVars PROVE Recorded'
<1>1. \A pub \in wire : pub.msg \in Msgs
  BY DEF DispatchTypeOK, Publish
<1>2. ASSUME NEW x \in Msgs, rows[x].status # "ABSENT" PROVE rows'[x].status # "ABSENT"
  BY <1>2, StatusMoves
<1>3. ASSUME NEW p \in Procs, NEW m \in Msgs, ClaimAndPublish(p, m) PROVE Recorded'
  BY <1>1, <1>2, <1>3 DEF ClaimAndPublish, Recorded, DispatchTypeOK
<1>4. \/ wire' \subseteq wire
      \/ \E p \in Procs, m \in Msgs : ClaimAndPublish(p, m)
  BY DEF DispatchNext, dispatchVars, Dispatch, Elapse, Insert, BecomeDue, LeaseExpires, Receive,
     GiveUp,
         MarkPublished, ReleaseForRetry, Finalize, Crash, Broker, BrokerStores,
         BrokerMisroutes, BrokerRejects, WireLoses, WindowEnds, broker
<1> QED
  BY <1>1, <1>2, <1>3, <1>4 DEF Recorded

LEMMA PublishedStep ==
  ASSUME DispatchTypeOK, Acks, Published, [DispatchNext]_dispatchVars PROVE Published'
<1> SUFFICES ASSUME NEW x \in Msgs, rows'[x].status = "PUBLISHED" PROVE x \in Stored'
  BY DEF Published
<1>1. x \in Stored
  BY StatusMoves DEF Published, Acks
<1> QED
  BY <1>1, Monotone

LEMMA QuarantineStep ==
  ASSUME DispatchTypeOK, Refusals, QuarantineJustified, [DispatchNext]_dispatchVars
          PROVE QuarantineJustified'
<1> SUFFICES ASSUME NEW x \in Msgs, rows'[x].status = "QUARANTINED"
             PROVE  rows'[x].attempts >= MaxAttempts \/ x \in refused'
  BY DEF QuarantineJustified
<1>1. CASE rows[x].status = "QUARANTINED"
  BY <1>1, StatusMoves, Monotone DEF QuarantineJustified
<1>2. CASE rows[x].status # "QUARANTINED"
  BY <1>2, StatusMoves, Monotone DEF GivesUpForGood, Refusals
<1> QED
  BY <1>1, <1>2

THEOREM Invariance == DispatchSpec => []IInv
<1>0. DispatchInit => Counted
  BY FS_EmptySet DEF DispatchInit, Counted, Copies
<1>1. DispatchInit => IInv
  BY <1>0, OutboxAssumption
     DEF DispatchInit, IInv, DispatchTypeOK, Row, Job, Publish, Replies, RowStatus, Idle, Budget,
         AttemptBudget, Dedup, Stored, Acks, Refusals, Permanent, Recorded, Published,
         QuarantineJustified
<1>2. IInv /\ [DispatchNext]_dispatchVars => IInv'
  BY TypeStep, BudgetStep, DedupStep, CountedStep, AnswersStep, RecordedStep, PublishedStep,
     QuarantineStep DEF IInv
<1> QED
  BY <1>1, <1>2, PTL DEF DispatchSpec

\* A row says PUBLISHED only of an event the expected stream holds.
THEOREM PublishedSound == DispatchSpec => []PublishedReachedStream
<1>1. IInv => PublishedReachedStream
  BY DEF IInv, Published, Stored, DispatchTypeOK, PublishedReachedStream
<1> QED
  BY <1>1, Invariance, PTL

\* Quarantine is earned by max_attempts claims or by a refusal of the broker.
THEOREM QuarantineSound == DispatchSpec => []QuarantineJustified
<1>1. IInv => QuarantineJustified
  BY DEF IInv
<1> QED
  BY <1>1, Invariance, PTL

\* attempt_count stays within max_attempts plus one for each take-over.
THEOREM BudgetSound == DispatchSpec => []AttemptBudget
<1>1. IInv => AttemptBudget
  BY DEF IInv, Budget
<1> QED
  BY <1>1, Invariance, PTL

\* However the duplicate window, leases and retries lie in time, a claim adds one
\* copy to the stream at most, and within the window a retry adds none.
THEOREM DuplicatesSound == DispatchSpec => []DuplicatesAccounted
<1>1. IInv => DuplicatesAccounted
  BY DEF IInv, Dedup, Counted, DuplicatesAccounted
<1> QED
  BY <1>1, Invariance, PTL

THEOREM BrokerViewSound == DispatchSpec => []BrokerView
<1>1. IInv => BrokerView
  BY DEF IInv, Budget, Dedup, Acks, Refusals, Recorded, BrokerView
<1> QED
  BY <1>1, Invariance, PTL

\* No answer, however late and of whatever process, revises an outcome.
THEOREM SettledFinal == DispatchSpec => SettledIsFinal
<1>1. DispatchTypeOK /\ [DispatchNext]_dispatchVars =>
        [\A m \in Msgs : rows[m].status \in {"PUBLISHED", "QUARANTINED"} =>
                             rows'[m].status = rows[m].status]_dispatchVars
  BY StatusMoves
<1> QED
  BY <1>1, DispatchTypeCorrect, PTL DEF DispatchSpec, SettledIsFinal

\* A running lease of a live owner is undone by nobody but that owner.
LEMMA LiveClaimStep ==
  ASSUME DispatchTypeOK, [DispatchNext]_dispatchVars, NEW m \in Msgs,
         rows[m].status = "CLAIMED", ~rows[m].expired, rows'[m].owner # rows[m].owner
  PROVE  LET p == rows[m].owner IN p \in alive /\ work[p].msg = m /\ work'[p] = Idle
<1>1. ASSUME NEW x \in Msgs, Insert(x) \/ BecomeDue(x) \/ LeaseExpires(x) PROVE FALSE
  BY <1>1 DEF Insert, BecomeDue, LeaseExpires, DispatchTypeOK, Row
<1>2. ASSUME NEW q \in Procs, NEW x \in Msgs, ClaimAndPublish(q, x) PROVE FALSE
  <2>1. x # m
    BY <1>2 DEF ClaimAndPublish, Claimable
  <2> QED
    BY <1>2, <2>1 DEF ClaimAndPublish, DispatchTypeOK
<1>3. ASSUME NEW q \in Procs, MarkPublished(q) \/ ReleaseForRetry(q)
      PROVE  q = rows[m].owner /\ q \in alive /\ work[q].msg = m /\ work'[q] = Idle
  <2>1. PICK s : Finalize(q, s)
    BY <1>3 DEF MarkPublished, ReleaseForRetry
  <2>2. Fence(q) /\ rows' = [rows EXCEPT ![work[q].msg] = Released(rows[work[q].msg], s)]
    BY <2>1, FinalizeCases
  <2>3. work[q].msg = m
    BY <2>2 DEF DispatchTypeOK
  <2> QED
    BY <1>3, <2>1, <2>2, <2>3 DEF Finalize, Fence, DispatchTypeOK, MarkPublished, ReleaseForRetry
<1> QED
  BY <1>1, <1>2, <1>3, RowSteps

\* A stale process cannot undo its successor's claim.
THEOREM LiveClaim == DispatchSpec => LiveClaimRespected
<1>1. DispatchTypeOK /\ [DispatchNext]_dispatchVars =>
        [\A m \in Msgs : LET p == rows[m].owner IN
            rows[m].status = "CLAIMED" /\ ~rows[m].expired /\ rows'[m].owner # p
               => p \in alive /\ work[p].msg = m /\ work'[p] = Idle]_dispatchVars
  BY LiveClaimStep
<1> QED
  BY <1>1, DispatchTypeCorrect, PTL DEF DispatchSpec, LiveClaimRespected
----------------------------------------------------------------------------
(* OutboxDispatch implements AtLeastOnceDelivery.                           *)

Outcomes == [m \in Msgs |-> Outcome(rows[m].status)]

\* A step that leaves the stream alone settles or records at most one event.
LEMMA RowRefinement ==
  ASSUME IInv, [DispatchNext]_dispatchVars, UNCHANGED copies
  PROVE  Delivery!Next \/ UNCHANGED <<Outcomes, Stored>>
<1> USE DEF IInv
<1>1. Stored' = Stored
  BY DEF Stored
<1>2. CASE Outcomes' = Outcomes
  BY <1>1, <1>2
<1>3. ASSUME NEW m \in Msgs, \A x \in Msgs \ {m} : rows'[x].status = rows[x].status
      PROVE  Delivery!Next \/ UNCHANGED <<Outcomes, Stored>>
  <2>1. \A x \in Msgs \ {m} : Outcomes'[x] = Outcomes[x]
    BY <1>3 DEF Outcomes
  <2>2. Outcomes' = [Outcomes EXCEPT ![m] = Outcome(rows'[m].status)]
    BY <2>1 DEF Outcomes
  <2>3. Outcomes[m] = Outcome(rows[m].status)
    BY DEF Outcomes
  <2>4. CASE Outcome(rows'[m].status) = Outcome(rows[m].status)
    BY <2>2, <2>3, <2>4, <1>1 DEF Outcomes
  <2>5. CASE rows[m].status = "ABSENT" /\ rows'[m].status = "PENDING"
    <3>1. Delivery!Record(m)
      BY <2>2, <2>3, <2>5, <1>1 DEF Delivery!Record, Outcomes, Stored, Outcome
    <3> QED
      BY <3>1 DEF Delivery!Next
  <2>6. CASE rows[m].status = "CLAIMED" /\ rows'[m].status = "PUBLISHED"
    <3>1. m \in Stored
      BY <2>6, <1>1, PublishedStep DEF Published
    <3>2. Delivery!Publish(m)
      BY <2>2, <2>3, <2>6, <3>1, <1>1 DEF Delivery!Publish, Outcomes, Stored, Outcome
    <3> QED
      BY <3>2 DEF Delivery!Next
  <2>7. CASE rows[m].status = "CLAIMED" /\ rows'[m].status = "QUARANTINED"
    <3>1. Delivery!Quarantine(m)
      BY <2>2, <2>3, <2>7, <1>1 DEF Delivery!Quarantine, Outcomes, Stored, Outcome
    <3> QED
      BY <3>1 DEF Delivery!Next
  <2> QED
    BY <2>4, <2>5, <2>6, <2>7, StatusMoves DEF Outcome
<1>4. \/ rows' = rows
      \/ \E m \in Msgs : \A x \in Msgs \ {m} : rows'[x].status = rows[x].status
  <2>1. ASSUME NEW p \in Procs, MarkPublished(p) \/ ReleaseForRetry(p)
        PROVE  \E m \in Msgs : \A x \in Msgs \ {m} : rows'[x].status = rows[x].status
    <3>1. work[p].msg \in Msgs
      BY <2>1 DEF DispatchTypeOK, Job, MarkPublished, ReleaseForRetry
    <3> QED
      BY <2>1, <3>1, FinalizeRows
  <2>2. ASSUME NEW p \in Procs, NEW m \in Msgs, ClaimAndPublish(p, m)
        PROVE  \A x \in Msgs \ {m} : rows'[x].status = rows[x].status
    BY <2>2 DEF ClaimAndPublish, DispatchTypeOK
  <2>3. ASSUME NEW m \in Msgs, Insert(m) \/ BecomeDue(m) \/ LeaseExpires(m)
        PROVE  \A x \in Msgs \ {m} : rows'[x].status = rows[x].status
    BY <2>3 DEF Insert, BecomeDue, LeaseExpires, DispatchTypeOK
  <2> QED
    BY <2>1, <2>2, <2>3, RowSteps
<1>5. rows' = rows => Outcomes' = Outcomes
  BY DEF Outcomes
<1> QED
  BY <1>2, <1>3, <1>4, <1>5

\* The broker taking an event is a Store, or a stutter when it has it already.
LEMMA StoreRefinement ==
  ASSUME IInv, NEW pub \in wire, BrokerStores(pub)
  PROVE  Delivery!Next \/ UNCHANGED <<Outcomes, Stored>>
<1> USE DEF IInv
<1>1. pub.msg \in Msgs /\ rows' = rows
  BY DEF DispatchTypeOK, Publish, BrokerStores
<1>2. Outcomes' = Outcomes
  BY <1>1 DEF Outcomes
<1>3. Stored' = Stored \cup {pub.msg}
  BY <1>1 DEF BrokerStores, MsgId, Stored, Dedup, DispatchTypeOK
<1>4. Outcomes[pub.msg] # "absent"
  BY <1>1 DEF Outcomes, Outcome, Recorded
<1>5. CASE pub.msg \notin Stored
  BY <1>1, <1>2, <1>3, <1>4, <1>5 DEF Delivery!Next, Delivery!Store, Outcomes, Stored
<1> QED
  BY <1>2, <1>3, <1>5

\* Claims, leases, retries and lost replies add nothing to what the outbox
\* promises and lose nothing of it.
THEOREM Refinement == DispatchSpec => DeliveryRefinement
<1>1. DispatchInit => Delivery!Init
  BY DEF DispatchInit, Delivery!Init, Outcome, Stored
<1>2. IInv /\ [DispatchNext]_dispatchVars => [Delivery!Next]_<<Outcomes, Stored>>
  <2>1. CASE UNCHANGED copies
    BY <2>1, RowRefinement
  <2> QED
    BY <2>1, StoreRefinement, StoreSteps DEF IInv, WindowEnds
<1> QED
  BY <1>1, <1>2, Invariance, PTL
     DEF DispatchSpec, DeliveryRefinement, Delivery!Spec, Outcomes, Stored
=============================================================================

-------------------------- MODULE LearningAttempts --------------------------
(***************************************************************************)
(* One teaching assignment and its learners' attempts: the teacher moves   *)
(* the due date, closes or cancels; learners start, save and submit.       *)
(*                                                                         *)
(* A request looks a learner's outcome up and asks the school for the      *)
(* learner's membership outside any transaction.  Its transaction then     *)
(* takes the idempotency scope, looks again, locks the assignment row and, *)
(* for a save or a submission, the attempt row, reads and checks, and      *)
(* writes and commits by compare-and-swap.  The reads and the writes are   *)
(* steps of their own: what holds them together is the locks.              *)
(***************************************************************************)
EXTENDS Naturals, Sequences

CONSTANTS Learners, Teacher, Keys, Txns, NoCommand,
          MaxRevision   \* bound: no command expects this revision or a later one

ASSUME LearningAssumption == /\ MaxRevision \in Nat
                             /\ Teacher \notin Learners

VARIABLES assignment,   \* teaching.assignments, one row
          attempts,     \* learning.attempts, by learner
          responses,    \* learning.attempt_response_items: the revision that saved them
          submissions,  \* learning.submissions
          outbox, audits, outcomes,
          txns,         \* the requests being served
          answer        \* what the last step answered, if it did

db == <<assignment, attempts, responses, submissions, outbox, audits, outcomes>>
vars == <<db, txns, answer>>

Editing == {"save", "submit"}
TeacherOps == {"due", "close", "cancel"}
Ops == {"start"} \cup Editing \cup TeacherOps
Users == Learners \cup {Teacher}

Assignment == [state : {"ACTIVE", "CLOSED", "CANCELLED"}, revision : Nat,
               due : Nat]      \* the revision that set the due date
Attempt == [state : {"none", "IN_PROGRESS", "SUBMITTED"}, revision : Nat]
Submission == [learner : Learners, responses : Nat, due : Nat, assignmentRevision : Nat]
Command == [op : Ops, user : Users, key : Keys, expected : Nat]
Answers == {"none", "ok", "replayed", "key_reused", "denied", "conflict", "refused",
            "integrity", "failed"}
Txn == [pc : {"idle", "authority", "scope", "locking", "writing"},
        cmd : Command \cup {NoCommand}, locks : 0 .. 2,
        readAssignment : Assignment, readResponses : Nat]

NewAssignment == [state |-> "ACTIVE", revision |-> 0, due |-> 0]
NoTxn == [pc |-> "idle", cmd |-> NoCommand, locks |-> 0,
          readAssignment |-> NewAssignment, readResponses |-> 0]

\* Types; and an idempotency scope has one outcome.
TypeOK == /\ assignment \in Assignment
          /\ attempts \in [Learners -> Attempt]
          /\ responses \in [Learners -> Nat]
          /\ submissions \in SUBSET Submission
          /\ outbox \in SUBSET [user : Users, revision : Nat, op : Ops]
          /\ audits \in SUBSET [user : Users, revision : Nat]
          /\ outcomes \in SUBSET [cmd : Command, revision : Nat]
          /\ txns \in [Txns -> Txn]
          /\ answer \in Answers
          /\ \A t \in Txns : txns[t].pc # "idle" => txns[t].cmd \in Command
          /\ \A o1, o2 \in outcomes :
                (/\ o1.cmd.op = o2.cmd.op /\ o1.cmd.user = o2.cmd.user
                 /\ o1.cmd.key = o2.cmd.key) => o1 = o2

Init == /\ assignment = NewAssignment
        /\ attempts = [l \in Learners |-> [state |-> "none", revision |-> 0]]
        /\ responses = [l \in Learners |-> 0]
        /\ submissions = {} /\ outbox = {} /\ audits = {} /\ outcomes = {}
        /\ txns = [t \in Txns |-> NoTxn]
        /\ answer = "none"
----------------------------------------------------------------------------
(* A request, up to its transaction. *)

Become(t, txn) == txns' = [txns EXCEPT ![t] = txn] /\ answer' = "none"
Go(t, pc) == Become(t, [txns[t] EXCEPT !.pc = pc])
Answer(t, a) == txns' = [txns EXCEPT ![t] = NoTxn] /\ answer' = a

\* A user asks on the basis of what the last answer showed, which may be out of
\* date when the request gets its locks, or repeats a request carried out.
Askable(cmd) ==
    \/ cmd.op = "start" /\ cmd.user \in Learners /\ cmd.expected = 0
    \/ /\ cmd.op \in Editing /\ cmd.user \in Learners
       /\ attempts[cmd.user].state # "none"
       /\ cmd.expected = attempts[cmd.user].revision /\ cmd.expected < MaxRevision
    \/ /\ cmd.op \in TeacherOps /\ cmd.user = Teacher
       /\ cmd.expected = assignment.revision /\ cmd.expected < MaxRevision
    \/ \E o \in outcomes : o.cmd = cmd

Requests == [op : Ops, user : Users, key : Keys, expected : 0 .. MaxRevision]

SameScope(cmd1, cmd2) == cmd1.op = cmd2.op /\ cmd1.user = cmd2.user /\ cmd1.key = cmd2.key

\* The outcome that holds the scope.
Known(cmd) == {o \in outcomes : SameScope(o.cmd, cmd)}
Replay(t, cmd) == Answer(t, IF \E o \in Known(cmd) : o.cmd = cmd THEN "replayed"
                            ELSE "key_reused")

\* Learners' requests are looked up without a lock, the teacher's are not.
Begin(t, cmd) ==
    /\ txns[t].pc = "idle" /\ Askable(cmd)
    /\ IF cmd.user \in Learners /\ Known(cmd) # {} THEN Replay(t, cmd)
       ELSE Become(t, [NoTxn EXCEPT !.cmd = cmd, !.pc =
                       IF cmd.user \in Learners THEN "authority" ELSE "scope"])
    /\ UNCHANGED db

\* require_membership: the school answers, and may change its mind afterwards.
AskSchool(t) ==
    /\ txns[t].pc = "authority"
    /\ Go(t, "scope") \/ Answer(t, "denied")
    /\ UNCHANGED db
----------------------------------------------------------------------------
(* Locks. *)

InTransaction(t) == txns[t].pc \in {"locking", "writing"}

\* Mutant: the advisory lock is not taken.
ScopeFreeUnlocked(t) == txns[t].pc = "scope"
ScopeFree(t) == \A u \in Txns \ {t} : InTransaction(u) => ~SameScope(txns[u].cmd, txns[t].cmd)

\* acquire_scope, and the second look at the outcome.
AcquireScope(t) ==
    /\ txns[t].pc = "scope" /\ ScopeFree(t)
    /\ IF Known(txns[t].cmd) # {} THEN Replay(t, txns[t].cmd) ELSE Go(t, "locking")
    /\ UNCHANGED db

\* Mutants: a learner locks no assignment; a submission locks its attempt first.
LockOrderOfOwner(op) == IF op \in Editing THEN <<"attempt">>
                        ELSE IF op = "start" THEN <<>> ELSE <<"assignment">>
LockOrderAttemptFirst(op) == IF op = "submit" THEN <<"attempt", "assignment">>
                             ELSE IF op = "save" THEN <<"assignment", "attempt">>
                             ELSE <<"assignment">>

\* The rows a command locks, one after the other.
LockOrder(op) == IF op \in Editing THEN <<"assignment", "attempt">> ELSE <<"assignment">>

Order(t) == LockOrder(txns[t].cmd.op)
AllLocked(t) == txns[t].locks = Len(Order(t))
Holds(t, row, user) == /\ InTransaction(t)
                       /\ \E i \in 1 .. txns[t].locks : Order(t)[i] = row
                       /\ row = "attempt" => txns[t].cmd.user = user
Free(t, row) == \A u \in Txns \ {t} : ~Holds(u, row, txns[t].cmd.user)

\* Everyone but the teacher is refused at once when the assignment is over.
Over(t) == /\ txns[t].cmd.user \in Learners
           /\ Holds(t, "assignment", txns[t].cmd.user)
           /\ assignment.state # "ACTIVE"

Lock(t) ==
    /\ txns[t].pc = "locking" /\ ~AllLocked(t) /\ ~Over(t)
    /\ Free(t, Order(t)[txns[t].locks + 1])
    /\ Become(t, [txns[t] EXCEPT !.locks = @ + 1])
    /\ UNCHANGED db

\* An exception, a lost connection or a crash of the server: roll back.
Fail(t) ==
    /\ txns[t].pc # "idle"
    /\ Answer(t, "failed")
    /\ UNCHANGED db
----------------------------------------------------------------------------
(* Reads and checks. *)

AttemptOf(t) == attempts[txns[t].cmd.user]
Expected(t) == txns[t].cmd.expected

\* require_locked_assignment_consumable and the prior attempts; the state and
\* the revision of the attempt; the revision and the state of the assignment.
Verdict(t) ==
    LET op == txns[t].cmd.op IN
    IF op = "start" THEN
        IF assignment.state # "ACTIVE" \/ AttemptOf(t).state # "none" THEN "refused" ELSE "ok"
    ELSE IF op \in Editing THEN
        IF assignment.state # "ACTIVE" \/ AttemptOf(t).state = "SUBMITTED" THEN "refused"
        ELSE IF AttemptOf(t).revision # Expected(t) THEN "conflict" ELSE "ok"
    ELSE IF assignment.revision # Expected(t) THEN "conflict"
    ELSE IF assignment.state # "ACTIVE" THEN "refused" ELSE "ok"

Read(t) ==
    Become(t, [txns[t] EXCEPT !.pc = "writing", !.readAssignment = assignment, !.readResponses =
                  IF txns[t].cmd.op \in Editing THEN responses[txns[t].cmd.user] ELSE 0])

Check(t) ==
    /\ txns[t].pc = "locking"
    /\ \/ Over(t) /\ Answer(t, "refused")
       \/ /\ AllLocked(t) /\ ~Over(t)
          /\ IF Verdict(t) = "ok" THEN Read(t) ELSE Answer(t, Verdict(t))
    /\ UNCHANGED db
----------------------------------------------------------------------------
(* Writes and commit. *)

Writing(t, op) == txns[t].pc = "writing" /\ txns[t].cmd.op = op

\* Mutant: the audit record is written for what is also an event.
RecordEvents(t, revision, event) ==
    /\ audits' = IF event THEN audits \cup {[user |-> txns[t].cmd.user, revision |-> revision]}
                 ELSE audits
    /\ outbox' = IF event THEN outbox \cup {[user |-> txns[t].cmd.user, revision |-> revision,
                                             op |-> txns[t].cmd.op]} ELSE outbox
    /\ outcomes' = outcomes \cup {[cmd |-> txns[t].cmd, revision |-> revision]}
    /\ Answer(t, "ok")

\* Audit record, idempotency outcome, commit, answer, and an outbox event but
\* for a save.
Record(t, revision, event) ==
    /\ audits' = audits \cup {[user |-> txns[t].cmd.user, revision |-> revision]}
    /\ outbox' = IF event THEN outbox \cup {[user |-> txns[t].cmd.user, revision |-> revision,
                                             op |-> txns[t].cmd.op]} ELSE outbox
    /\ outcomes' = outcomes \cup {[cmd |-> txns[t].cmd, revision |-> revision]}
    /\ Answer(t, "ok")

\* The INSERT meets the unique keys of an earlier attempt.
Start(t) ==
    /\ Writing(t, "start")
    /\ IF AttemptOf(t).state = "none"
       THEN /\ attempts' = [attempts EXCEPT ![txns[t].cmd.user] =
                                [state |-> "IN_PROGRESS", revision |-> 0]]
            /\ Record(t, 0, TRUE)
            /\ UNCHANGED <<assignment, responses, submissions>>
       ELSE Answer(t, "integrity") /\ UNCHANGED db

\* The WHERE clause of the attempt's UPDATE.
Swappable(t) == AttemptOf(t).state = "IN_PROGRESS" /\ AttemptOf(t).revision = Expected(t)

Save(t) ==
    LET l == txns[t].cmd.user  next == Expected(t) + 1 IN
    /\ Writing(t, "save")
    /\ IF Swappable(t)
       THEN /\ attempts' = [attempts EXCEPT ![l] = [state |-> "IN_PROGRESS", revision |-> next]]
            /\ responses' = [responses EXCEPT ![l] = next]
            /\ Record(t, next, FALSE)
            /\ UNCHANGED <<assignment, submissions>>
       ELSE Answer(t, "conflict") /\ UNCHANGED db

\* The working responses and the assignment's due date are copied as read.
Submit(t) ==
    LET l == txns[t].cmd.user  next == Expected(t) + 1 IN
    /\ Writing(t, "submit")
    /\ IF Swappable(t)
       THEN /\ attempts' = [attempts EXCEPT ![l] = [state |-> "SUBMITTED", revision |-> next]]
            /\ submissions' = submissions \cup
                  {[learner |-> l, responses |-> txns[t].readResponses,
                    due |-> txns[t].readAssignment.due,
                    assignmentRevision |-> txns[t].readAssignment.revision]}
            /\ Record(t, next, TRUE)
            /\ UNCHANGED <<assignment, responses>>
       ELSE Answer(t, "conflict") /\ UNCHANGED db

\* The assignment after the teacher's command.
Mutated(op, next) ==
    [state |-> IF op = "close" THEN "CLOSED" ELSE IF op = "cancel" THEN "CANCELLED" ELSE "ACTIVE",
     revision |-> next, due |-> IF op = "due" THEN next ELSE assignment.due]

\* update_due, close and cancel.
MutateActive(t) ==
    LET next == Expected(t) + 1 IN
    /\ txns[t].pc = "writing" /\ txns[t].cmd.op \in TeacherOps
    /\ IF assignment.revision = Expected(t)
       THEN /\ assignment' = Mutated(txns[t].cmd.op, next)
            /\ Record(t, next, TRUE)
            /\ UNCHANGED <<attempts, responses, submissions>>
       ELSE Answer(t, "conflict") /\ UNCHANGED db
----------------------------------------------------------------------------
Serve(t) == \/ AskSchool(t) \/ AcquireScope(t) \/ Lock(t) \/ Check(t)
            \/ Start(t) \/ Save(t) \/ Submit(t) \/ MutateActive(t)

Next == \E t \in Txns : \/ \E cmd \in Requests : Begin(t, cmd)
                        \/ Serve(t) \/ Fail(t)

Spec == Init /\ [][Next]_vars

----------------------------------------------------------------------------
(* Properties. *)

\* Every revision of an attempt and of the assignment has an audit record, and
\* no other; events tell of the start and the submission of just those attempts.
EveryRevisionAudited ==
    /\ \A l \in Learners, r \in 0 .. MaxRevision :
          [user |-> l, revision |-> r] \in audits
              <=> attempts[l].state # "none" /\ r <= attempts[l].revision
    /\ \A r \in 0 .. MaxRevision :
          [user |-> Teacher, revision |-> r] \in audits <=> r \in 1 .. assignment.revision
    /\ \A l \in Learners :
          /\ [user |-> l, revision |-> 0, op |-> "start"] \in outbox
                <=> attempts[l].state # "none"
          /\ (\E e \in outbox : e.user = l /\ e.op = "submit")
                <=> \E s \in submissions : s.learner = l

\* A submission holds the last responses saved and the due date and revision
\* the assignment has at its commit, however saves and due updates raced it
\* (I03: snapshots from the locked TeachingAssignment).
SubmissionIsSnapshot ==
    [][\A s \in submissions' \ submissions :
          /\ s.responses = responses[s.learner]
          /\ s.due = assignment.due /\ s.assignmentRevision = assignment.revision]_vars

WaitsFor(t, u) ==
    /\ t # u /\ InTransaction(u)
    /\ \/ txns[t].pc = "scope" /\ SameScope(txns[u].cmd, txns[t].cmd)
       \/ /\ txns[t].pc = "locking" /\ ~AllLocked(t) /\ ~Over(t)
          /\ Holds(u, Order(t)[txns[t].locks + 1], txns[t].cmd.user)

\* Scopes, the assignment and attempts are taken in one order by all commands:
\* no set of requests waits for itself, whichever of them came first.
NoWaitCycle ==
    \A S \in (SUBSET Txns) \ {{}} : \E t \in S : \A u \in S : ~WaitsFor(t, u)

\* Once the assignment is closed or cancelled no attempt moves: a submission
\* that waited behind the close fails, one that got ahead of it stands.  Nor
\* does a submitted attempt, against saves that were on their way.
EvidenceIsFrozen ==
    [][/\ assignment.state # "ACTIVE" =>
            assignment' = assignment /\ UNCHANGED <<attempts, responses, submissions>>
       /\ \A l \in Learners : attempts[l].state = "SUBMITTED" =>
            /\ attempts'[l] = attempts[l] /\ responses'[l] = responses[l]
            /\ {s \in submissions' : s.learner = l} = {s \in submissions : s.learner = l}]_vars

\* A request that has been carried out, and whose repetition has passed the
\* school, is replayed, be the assignment over or the attempt submitted by then.
CommittedNeverRefused ==
    [][\A t \in Txns :
          (/\ txns[t].pc \in {"scope", "locking", "writing"} /\ txns'[t].pc = "idle"
           /\ \E o \in outcomes : o.cmd = txns[t].cmd)
                  => answer' \in {"replayed", "failed"}]_vars

=============================================================================

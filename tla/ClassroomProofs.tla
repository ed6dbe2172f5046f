---------------------------- MODULE ClassroomProofs ----------------------------
(***************************************************************************)
(* Proofs about Classroom for any number of requests, keys, works, levels, *)
(* withdrawals and settings.  A command reads most of what it decides on   *)
(* without a lock; the proofs say which of it can no longer change until   *)
(* the command is committed, and why.                                      *)
(***************************************************************************)
EXTENDS Classroom, FiniteSetTheorems, WellFoundedInduction, TLAPS

RowFields == {"state", "revision", "owner", "work", "execution", "assignment", "bound", "level"}
Changing ==
    {"teaching_work_refine", "teacher_os_memory_update", "teaching_execution_observation_correct"}
    \cup AssignmentChanges \cup ExecutionEnding \cup AssessmentChanges
Operations == Creating \cup Changing \cup {Remediation}
\* The operation that creates the row of a kind.
Maker(kind) ==
    IF kind = "work" THEN "teaching_work_create"
    ELSE IF kind = "assignment" THEN "teaching_assignment_create"
    ELSE IF kind = "execution" THEN "teaching_execution_start"
    ELSE IF kind = "observation" THEN "teaching_execution_observation_create"
    ELSE IF kind = "assessment" THEN "assessment_classroom_record"
    ELSE "teacher_os_memory_create"
InTransaction == {"work", "insert", "staged"}

-----------------------------------------------------------------------------
(* What is said of rows, of requests and of what they have written. *)

RowSound(row) == /\ DOMAIN row = RowFields /\ row.revision \in Nat
                 /\ row.state = "NONE" => row.bound = FALSE
RowsSound(rws) == rws = [k \in Kinds |-> rws[k]] /\ \A k \in Kinds : RowSound(rws[k])

\* A row that is new, and one that follows on the committed one.
Begins(row, old) == old.state = "NONE" /\ row.state # "NONE" /\ row.revision = 0
Continues(row, old) ==
    /\ old.state # "NONE" /\ row.state # "NONE" /\ row.revision = old.revision + 1
    /\ row.work = old.work /\ row.execution = old.execution
    /\ row.assignment = old.assignment /\ row.bound = old.bound

\* AssessedWasTaught of an assessment a among rows rws.
Taught(a, rws) ==
    /\ a.execution => /\ rws["execution"].state = "COMPLETED" /\ rws["execution"].bound
                      /\ a.work \in {"none", rws["execution"].work}
    /\ a.assignment => rws["assignment"].bound
    /\ a.execution /\ a.assignment => rws["assignment"].work \in {"none", rws["execution"].work}

StagedSound(r, row, rws) ==
    /\ r.operation \in Operations /\ RowSound(row)
    /\ r.operation \in Creating => Begins(row, rws[Subject(r.operation)])
    /\ r.operation \in Changing => Continues(row, rws[Subject(r.operation)])
    /\ r.operation = "teaching_execution_start" => row.state = "IN_PROGRESS"
    /\ r.operation \in ExecutionEnding \cup ObservationOps
            => rws["execution"].state = "IN_PROGRESS"
    /\ Subject(r.operation) = "assessment" => Taught(row, rws)
    /\ r.operation = Remediation => row = rws["assessment"] /\ row.state = "RECORDED"

\* The requests that create a row are repetitions of one.
Bounded(r) == r.operation \in Creating \ {"teacher_os_memory_create"} =>
                  r.key = CreationKey /\ r.principal = Teacher

\* One request, in its state p, among committed rows and outcomes.
Solo(p, r, row, rws, os) ==
    /\ Bounded(r)
    /\ p \in {"idle", "answered"} => r = NoRequest
    /\ p \in InTransaction => \A o \in os : ~ SameScope(o, r)
    /\ p = "insert" => r.operation = "teacher_os_memory_create"
    /\ p = "staged" => StagedSound(r, row, rws)
\* Two requests: they are in different scopes, and hold different rows.
Pair(p, r, q, s) ==
    /\ p \in InTransaction /\ q \in InTransaction => ~ SameScope(r, s)
    /\ p = "staged" /\ q = "staged" =>
          /\ Locks(r.operation) \cap Locks(s.operation) = {}
          /\ ~ (/\ r.operation = "teacher_os_memory_create"
                /\ s.operation = "teacher_os_memory_create")
\* Who has made a row has left its outcome.
MakerKnown(rws, os) ==
    \A k \in Kinds \ {"memory"} : rws[k].state # "NONE" =>
        \E o \in os : o.operation = Maker(k) /\ o.principal = Teacher /\ o.key = CreationKey

Functions == /\ pc = [j \in Jobs |-> pc[j]] /\ request = [j \in Jobs |-> request[j]]
             /\ staged = [j \in Jobs |-> staged[j]] /\ due = [j \in Jobs |-> due[j]]
             /\ answer = [j \in Jobs |-> answer[j]] /\ late = [j \in Jobs |-> late[j]]
Transactions ==
    /\ \A j \in Jobs : Solo(pc[j], request[j], staged[j], rows, outcomes)
    /\ \A i, j \in Jobs : i # j => Pair(pc[i], request[i], pc[j], request[j])
IInv ==
    /\ Functions /\ RowsSound(rows) /\ MakerKnown(rows, outcomes) /\ Transactions
    /\ rows["assessment"].state # "NONE" => Taught(rows["assessment"], rows)
-----------------------------------------------------------------------------
(* The checks of a command, in their order. *)

\* A list of checks that gives "ok" has no failing check.
LEMMA FirstPassed ==
  ASSUME NEW checks, DOMAIN checks \subseteq Nat,
         \A n \in DOMAIN checks : ~ checks[n][1] => checks[n][2] # "ok",
         First(checks) = "ok"
  PROVE  \A n \in DOMAIN checks : checks[n][1]
<1> DEFINE failing == {n \in DOMAIN checks : ~ checks[n][1]}
           least == CHOOSE n \in failing : \A k \in failing : n <= k
<1>1. SUFFICES ASSUME failing # {} PROVE FALSE
  BY Zenon
<1>2. failing \subseteq Nat OBVIOUS
<1>3. \E n \in failing : \A k \in failing : n <= k
  <2> HIDE DEF failing
  <2>1. PICK n \in failing : \A k \in failing : <<k, n>> \notin OpToRel(<, Nat)
    BY <1>1, <1>2, NatLessThanWellFounded, WFMin, Zenon
  <2>2. \A k \in failing : ~ (k < n)
    BY <1>2, <2>1, Zenon DEF OpToRel
  <2> QED BY <1>2, <2>2
<1>4. least \in failing
  BY <1>3
<1>5. First(checks) = checks[least][2]
  BY <1>1, Zenon DEF First
<1> QED BY <1>4, <1>5

\* The operations and the rows they are about.
LEMMA SubjectOf ==
  ASSUME NEW op \in Operations
  PROVE  /\ Subject(op) \in Kinds \cup {"origin"}
         /\ Subject(op) = "origin" <=> op = Remediation
         /\ op \in Creating => Maker(Subject(op)) = op
         /\ op \in Changing \ ObservationOps => Locks(op) = {Subject(op)}
         /\ op \in ObservationOps => Locks(op) = {"execution"} /\ Subject(op) = "observation"
         /\ op = Remediation => Locks(op) = {"assessment"}
         /\ Subject(op) = "observation" <=> op \in ObservationOps
         /\ Subject(op) = "execution" <=> op \in ExecutionEnding \cup {"teaching_execution_start"}
         /\ op \notin Creating \/ op \notin Changing
         /\ Remediation \notin Creating \cup Changing
  BY DEF Operations, Creating, Changing, AssignmentChanges, ExecutionEnding, AssessmentChanges,
         ObservationOps, Remediation, Subject, Maker, Locks, Kinds

\* Two requests that both create a row of one kind, or both change it, exclude
\* each other.
LEMMA SameKind ==
  ASSUME NEW r, NEW s, NEW x, NEW y, NEW rws,
         Bounded(r), Bounded(s), Pair("staged", r, "staged", s),
         StagedSound(r, x, rws), StagedSound(s, y, rws),
         Subject(r.operation) \in Kinds, Subject(r.operation) = Subject(s.operation)
  PROVE  FALSE
<1> DEFINE k == Subject(r.operation)
<1>1. r.operation \in Operations \ {Remediation} /\ s.operation \in Operations \ {Remediation}
  BY SubjectOf DEF StagedSound, Kinds
<1>2. r.operation \in Creating <=> s.operation \in Creating
  BY <1>1, SubjectOf DEF StagedSound, Begins, Continues, Operations
<1>3. CASE r.operation \in Creating
  <2>1. r.operation = s.operation
    BY <1>1, <1>2, <1>3, SubjectOf
  <2>2. r.operation # "teacher_os_memory_create"
    BY <2>1 DEF Pair
  <2>3. r.key = s.key /\ r.principal = s.principal
    BY <1>3, <2>1, <2>2 DEF Bounded
  <2> QED BY <2>1, <2>3 DEF Pair, SameScope, InTransaction
<1>4. CASE r.operation \notin Creating
  <2>1. r.operation \in Changing /\ s.operation \in Changing
    BY <1>1, <1>2, <1>4 DEF Operations
  <2>2. Locks(r.operation) = Locks(s.operation) /\ Locks(r.operation) # {}
    BY <1>1, <2>1, SubjectOf
  <2> QED BY <2>2 DEF Pair
<1> QED BY <1>3, <1>4

\* What the commit of one request leaves of what another has written.
LEMMA TaughtStays ==
  ASSUME NEW r, NEW x, NEW rws, NEW rws2, NEW a, RowsSound(rws), StagedSound(r, x, rws),
         Taught(a, rws), Subject(r.operation) \in Kinds, rws2[Subject(r.operation)] = x,
         \A k \in Kinds \ {Subject(r.operation)} : rws2[k] = rws[k]
  PROVE  Taught(a, rws2)
<1>0. "execution" \in Kinds /\ "assignment" \in Kinds BY DEF Kinds
<1>1. r.operation \in Operations \ {Remediation}
  BY SubjectOf DEF StagedSound, Kinds
<1>2. a.execution => rws2["execution"] = rws["execution"]
  <2>1. Subject(r.operation) = "execution" => rws["execution"].state # "COMPLETED"
    BY <1>1, SubjectOf DEF StagedSound, Begins, ExecutionEnding, Creating
  <2> QED BY <1>0, <2>1 DEF Taught
<1>3. a.assignment => /\ rws2["assignment"].bound = rws["assignment"].bound
                      /\ rws2["assignment"].work = rws["assignment"].work
  <2>1. CASE Subject(r.operation) = "assignment"
    <3>1. CASE r.operation \in Creating
      <4>1. rws["assignment"].bound = FALSE
        BY <1>0, <2>1, <3>1 DEF StagedSound, Begins, RowsSound, RowSound
      <4> QED BY <4>1, Zenon DEF Taught
    <3>2. CASE r.operation \in Changing
      BY <2>1, <3>2 DEF StagedSound, Continues
    <3> QED BY <1>1, <3>1, <3>2 DEF Operations
  <2>2. CASE Subject(r.operation) # "assignment" BY <1>0, <2>2
  <2> QED BY <2>1, <2>2
<1>4. a.execution => /\ rws2["execution"].state = "COMPLETED" /\ rws2["execution"].bound
                     /\ a.work \in {"none", rws2["execution"].work}
  BY <1>2, Zenon DEF Taught
<1>5. a.assignment => rws2["assignment"].bound
  BY <1>3, Zenon DEF Taught
<1>6. a.execution /\ a.assignment => rws2["assignment"].work \in {"none", rws2["execution"].work}
  BY <1>2, <1>3, Zenon DEF Taught
<1> QED BY <1>4, <1>5, <1>6, Zenon DEF Taught

LEMMA CommitStable ==
  ASSUME NEW r, NEW s, NEW x, NEW y, NEW rws, NEW rws2, RowsSound(rws),
         Bounded(r), Bounded(s), Pair("staged", r, "staged", s),
         StagedSound(r, x, rws), StagedSound(s, y, rws),
         Subject(r.operation) \in Kinds, rws2[Subject(r.operation)] = x,
         \A k \in Kinds \ {Subject(r.operation)} : rws2[k] = rws[k]
  PROVE  StagedSound(s, y, rws2)
<1> DEFINE k == Subject(r.operation)
           l == Subject(s.operation)
<1>1. r.operation \in Operations \ {Remediation} /\ s.operation \in Operations
  BY SubjectOf DEF StagedSound, Kinds
<1>2. k # l BY SameKind
<1>3. l \in Kinds => rws2[l] = rws[l] BY <1>2
<1>4. s.operation \in Creating \cup Changing => l \in Kinds
  BY <1>1, SubjectOf
<1>5. s.operation \in Creating => Begins(y, rws2[l])
  BY <1>3, <1>4 DEF StagedSound
<1>6. s.operation \in Changing => Continues(y, rws2[l])
  BY <1>3, <1>4 DEF StagedSound
<1>7. s.operation \in ExecutionEnding \cup ObservationOps
    => rws2["execution"].state = "IN_PROGRESS"
  <2> SUFFICES ASSUME s.operation \in ExecutionEnding \cup ObservationOps, k = "execution"
               PROVE  FALSE
    BY DEF StagedSound, Kinds
  <2>1. rws["execution"].state = "IN_PROGRESS" BY DEF StagedSound
  <2>2. r.operation \in ExecutionEnding
    BY <1>1, <2>1, SubjectOf DEF StagedSound, Begins, Creating
  <2>3. ASSUME NEW op \in ExecutionEnding \cup ObservationOps PROVE Locks(op) = {"execution"}
    <3>1. op \in Operations /\ (op \in ExecutionEnding => op \in Changing \ ObservationOps)
      BY DEF Operations, Changing, Creating, ExecutionEnding, ObservationOps
    <3> QED BY <3>1, SubjectOf
  <2>4. Locks(r.operation) = {"execution"} /\ Locks(s.operation) = {"execution"}
    BY <2>2, <2>3
  <2> QED BY <2>4 DEF Pair
<1>8. l = "assessment" => Taught(y, rws2)
  BY TaughtStays DEF StagedSound
<1>9. s.operation = Remediation => y = rws2["assessment"] /\ y.state = "RECORDED"
  <2> SUFFICES ASSUME s.operation = Remediation, k = "assessment"
               PROVE  FALSE
    BY DEF StagedSound, Kinds
  <2>1. rws["assessment"].state = "RECORDED" BY DEF StagedSound
  <2>2. r.operation \in Changing
    BY <1>1, <2>1 DEF StagedSound, Begins, Operations
  <2>3. "assessment" \in Locks(r.operation) /\ "assessment" \in Locks(s.operation)
    BY <1>1, <2>2, SubjectOf
  <2> QED BY <2>3 DEF Pair
<1> QED BY <1>5, <1>6, <1>7, <1>8, <1>9 DEF StagedSound
-----------------------------------------------------------------------------
(* One request moves, the others stand by. *)

LEMMA PairSymmetric == ASSUME NEW p, NEW r, NEW q, NEW s, Pair(p, r, q, s) PROVE Pair(q, s, p, r)
  BY DEF Pair, SameScope

LEMMA JobStep ==
  ASSUME IInv, NEW j \in Jobs, Functions', rows' = rows, outcomes' = outcomes,
         \A i \in Jobs \ {j} : /\ pc'[i] = pc[i] /\ request'[i] = request[i]
                               /\ staged'[i] = staged[i],
         Solo(pc'[j], request'[j], staged'[j], rows, outcomes),
         \A i \in Jobs \ {j} : Pair(pc[i], request[i], pc'[j], request'[j])
  PROVE  IInv'
<1>1. \A i \in Jobs : Solo(pc'[i], request'[i], staged'[i], rows', outcomes')
  BY DEF IInv, Transactions
<1>2. ASSUME NEW i \in Jobs, NEW k \in Jobs, i # k
      PROVE  Pair(pc'[i], request'[i], pc'[k], request'[k])
  <2>1. CASE i # j /\ k # j BY <1>2, <2>1 DEF IInv, Transactions
  <2>2. CASE k = j BY <1>2, <2>2
  <2>3. CASE i = j BY <1>2, <2>3, PairSymmetric
  <2> QED BY <2>1, <2>2, <2>3
<1>3. Transactions' BY <1>1, <1>2 DEF Transactions
<1> QED BY <1>3 DEF IInv

\* A request that is not in its transaction.
LEMMA OutsideStep ==
  ASSUME IInv, NEW j \in Jobs, Functions', rows' = rows, outcomes' = outcomes,
         \A i \in Jobs \ {j} : /\ pc'[i] = pc[i] /\ request'[i] = request[i]
                               /\ staged'[i] = staged[i],
         pc'[j] \notin InTransaction, Bounded(request'[j]),
         pc'[j] \in {"idle", "answered"} => request'[j] = NoRequest
  PROVE  IInv'
<1>1. Solo(pc'[j], request'[j], staged'[j], rows, outcomes)
  BY DEF Solo, InTransaction
<1>2. \A i \in Jobs \ {j} : Pair(pc[i], request[i], pc'[j], request'[j])
  BY DEF Pair, InTransaction
<1> QED BY <1>1, <1>2, JobStep

LEMMA AnsweredIs ==
  ASSUME Functions, NEW j \in Jobs, NEW code, Answered(j, code)
  PROVE  /\ pc' = [i \in Jobs |-> pc'[i]] /\ request' = [i \in Jobs |-> request'[i]]
         /\ staged' = [i \in Jobs |-> staged'[i]] /\ due' = [i \in Jobs |-> due'[i]]
         /\ answer' = [i \in Jobs |-> answer'[i]]
         /\ pc'[j] = "answered" /\ request'[j] = NoRequest
         /\ answer'[j] = StatusOf(request[j].operation, code)
         /\ \A i \in Jobs \ {j} : /\ pc'[i] = pc[i] /\ request'[i] = request[i]
                                  /\ staged'[i] = staged[i] /\ answer'[i] = answer[i]
                                  /\ due'[i] = due[i]
  BY DEF Functions, Answered

LEMMA NoRequestBounded == Bounded(NoRequest)
  BY DEF Bounded, NoRequest, Creating

LEMMA AnsweredStep ==
  ASSUME IInv, NEW j \in Jobs, NEW code, Answered(j, code), rows' = rows, outcomes' = outcomes,
         late' = [i \in Jobs |-> late'[i]]
  PROVE  IInv'
<1>1. Functions BY DEF IInv
<1>2. Functions' /\ pc'[j] = "answered" /\ request'[j] = NoRequest
      /\ \A i \in Jobs \ {j} : pc'[i] = pc[i] /\ request'[i] = request[i] /\ staged'[i] = staged[i]
  BY <1>1, AnsweredIs DEF Functions
<1>3. pc'[j] \notin InTransaction BY <1>2 DEF InTransaction
<1> QED BY <1>2, <1>3, NoRequestBounded, OutsideStep

LEMMA LateKept == ASSUME Functions, UNCHANGED late PROVE late' = [i \in Jobs |-> late'[i]]
  BY DEF Functions

LEMMA RefusedStep ==
  ASSUME IInv, NEW j \in Jobs, NEW code, Answered(j, code), UNCHANGED Uncommitted
  PROVE  IInv'
<1>1. rows' = rows /\ outcomes' = outcomes /\ UNCHANGED late BY DEF Uncommitted
<1>2. Functions BY DEF IInv
<1> QED BY <1>1, <1>2, LateKept, AnsweredStep

NoMemoryStaged ==
    \A i \in Jobs : pc[i] = "staged" => request[i].operation # "teacher_os_memory_create"

Stages(j, row) ==
    /\ pc[j] \in {"work", "insert"} /\ pc' = [pc EXCEPT ![j] = "staged"]
    /\ staged' = [staged EXCEPT ![j] = row]
    /\ UNCHANGED <<answer, request, due>> /\ UNCHANGED Uncommitted
\* A command whose row is written.
LEMMA StagedStep ==
  ASSUME IInv, NEW j \in Jobs, NEW row, Stages(j, row),
         StagedSound(request[j], row, rows), LockFree(j),
         request[j].operation = "teacher_os_memory_create" => NoMemoryStaged
  PROVE  IInv'
<1>1. rows' = rows /\ outcomes' = outcomes /\ late' = late /\ request' = request
      /\ due' = due /\ answer' = answer
  BY DEF Stages, Uncommitted
<1>2. /\ Functions' /\ pc'[j] = "staged" /\ staged'[j] = row
      /\ \A i \in Jobs \ {j} : pc'[i] = pc[i] /\ staged'[i] = staged[i]
  BY <1>1 DEF Stages, IInv, Functions
<1>3. Solo(pc[j], request[j], staged[j], rows, outcomes) BY DEF IInv, Transactions
<1>4. Solo(pc'[j], request'[j], staged'[j], rows, outcomes)
  BY <1>1, <1>2, <1>3 DEF Stages, Solo, InTransaction
<1>5. ASSUME NEW i \in Jobs \ {j} PROVE Pair(pc[i], request[i], pc'[j], request'[j])
  <2>1. Pair(pc[i], request[i], pc[j], request[j]) BY DEF IInv, Transactions
  <2>2. pc[j] \in InTransaction /\ pc'[j] \in InTransaction BY <1>2 DEF Stages, InTransaction
  <2>3. pc[i] \in InTransaction => ~ SameScope(request[i], request[j])
    BY <2>1, <2>2 DEF Pair
  <2>4. pc[i] = "staged" => Locks(request[i].operation) \cap Locks(request[j].operation) = {}
    BY DEF LockFree
  <2> QED BY <1>1, <2>2, <2>3, <2>4 DEF Pair, NoMemoryStaged
<1> QED BY <1>1, <1>2, <1>4, <1>5, JobStep

\* A decision of a command that is no creation of a memory.
LEMMA DecideStep ==
  ASSUME IInv, NEW j \in Jobs, NEW verdict, NEW row, Decide(j, verdict, row),
         request[j].operation # "teacher_os_memory_create",
         verdict = "ok" => StagedSound(request[j], row, rows)
  PROVE  IInv'
<1>1. CASE verdict = "ok"
  BY <1>1, StagedStep DEF Decide, Stages
<1>2. CASE verdict # "ok"
  BY <1>2, RefusedStep DEF Decide
<1> QED BY <1>1, <1>2
-----------------------------------------------------------------------------
(* A request that is not in its transaction. *)

LEMMA InitOK == ASSUME Init PROVE IInv
<1>1. /\ rows = [k \in Kinds |-> NoRow] /\ outcomes = {}
      /\ pc = [j \in Jobs |-> "idle"] /\ request = [j \in Jobs |-> NoRequest]
      /\ due = [j \in Jobs |-> 0] /\ staged = [j \in Jobs |-> NoRow]
      /\ answer = [j \in Jobs |-> 0] /\ late = [j \in Jobs |-> FALSE]
  BY DEF Init
<1>2. Functions BY <1>1 DEF Functions
<1>3. RowSound(NoRow) /\ NoRow.state = "NONE" BY DEF RowSound, NoRow, RowFields
<1>4. RowsSound(rows) BY <1>1, <1>3 DEF RowsSound
<1>5. MakerKnown(rows, outcomes) BY <1>1, <1>3 DEF MakerKnown
<1>6. Transactions
  BY <1>1, NoRequestBounded DEF Transactions, Solo, Pair, InTransaction
<1>7. "assessment" \in Kinds BY DEF Kinds
<1> QED BY <1>1, <1>2, <1>3, <1>4, <1>5, <1>6, <1>7 DEF IInv

LEMMA StutterOK ==
  ASSUME IInv, UNCHANGED <<rows, outcomes, pc, request, due, staged, answer>>,
         late' = [i \in Jobs |-> late'[i]]
  PROVE  IInv'
<1>1. Functions' BY DEF IInv, Functions
<1>2. Transactions' BY DEF IInv, Transactions
<1> QED BY <1>1, <1>2 DEF IInv

LEMMA WithdrawOK == ASSUME IInv, Withdraw PROVE IInv'
<1>1. /\ UNCHANGED <<rows, outcomes, pc, request, due, staged, answer>>
      /\ late' = [i \in Jobs |-> late'[i]]
  BY DEF Withdraw
<1> QED BY <1>1, StutterOK

LEMMA TurnAwayOK == ASSUME IInv, NEW j \in Jobs, TurnAway(j) PROVE IInv'
<1>1. PICK op \in desk.operations, e \in Envelopes :
         /\ Answered(j, Path(op, e, authority, gate))
         /\ late' = [late EXCEPT ![j] = ~ EntitledTo(authority, op)]
  BY DEF TurnAway
<1>2. rows' = rows /\ outcomes' = outcomes BY DEF TurnAway
<1>3. late' = [i \in Jobs |-> late'[i]] BY <1>1 DEF IInv, Functions
<1> QED BY <1>1, <1>2, <1>3, AnsweredStep

LEMMA AskOK == ASSUME IInv, NEW j \in Jobs, Ask(j) PROVE IInv'
<1>1. PICK op \in desk.operations, p \in {Teacher, Stranger}, k \in Keys, e \in Envelopes :
         /\ op \in Creating \ {"teacher_os_memory_create"} => k = CreationKey /\ p = Teacher
         /\ p = Stranger => op \in Conditional /\ k = CreationKey
         /\ Path(op, e, AuthorityOf(p), gate) = "ok"
         /\ \E i \in Inputs(op), n \in Expected(op) :
               request' = [request EXCEPT ![j] =
                   [operation |-> op, principal |-> p, key |-> k, input |-> i, expected |-> n]]
         /\ pc' = [pc EXCEPT ![j] = IF Needs(op) = <<>> THEN "scope" ELSE "authorize"]
         /\ late' = [late EXCEPT ![j] = p = Teacher /\ ~ EntitledTo(authority, op)]
  BY Zenon DEF Ask
<1>2. PICK i \in Inputs(op), n \in Expected(op) :
         request' = [request EXCEPT ![j] =
             [operation |-> op, principal |-> p, key |-> k, input |-> i, expected |-> n]]
  BY <1>1
<1>3. /\ rows' = rows /\ outcomes' = outcomes /\ staged' = staged /\ answer' = answer
      /\ due' = [due EXCEPT ![j] = 1]
  BY DEF Ask
<1>4. /\ Functions' /\ pc'[j] \in {"scope", "authorize"}
      /\ request'[j] = [operation |-> op, principal |-> p, key |-> k, input |-> i, expected |-> n]
      /\ \A x \in Jobs \ {j} : pc'[x] = pc[x] /\ request'[x] = request[x] /\ staged'[x] = staged[x]
  BY <1>1, <1>2, <1>3 DEF IInv, Functions
<1>5. Bounded(request'[j]) BY <1>1, <1>4 DEF Bounded
<1>6. pc'[j] \notin InTransaction \cup {"idle", "answered"} BY <1>4 DEF InTransaction
<1> QED BY <1>3, <1>4, <1>5, <1>6, OutsideStep

LEMMA AuthorizeOK == ASSUME IInv, NEW j \in Jobs, Authorize(j) PROVE IInv'
<1>0. UNCHANGED <<rows, outcomes, late>> BY DEF Authorize
<1>1. CASE \E code : Answered(j, code)
  <2>1. PICK code : Answered(j, code) BY <1>1
  <2>2. Functions BY DEF IInv
  <2> QED BY <1>0, <2>1, <2>2, LateKept, AnsweredStep
<1>2. CASE ~ \E code : Answered(j, code)
  <2>1. /\ due' = [due EXCEPT ![j] = due[j] + 1] /\ UNCHANGED <<staged, answer, request>>
        /\ \E p \in {"scope", "authorize"} : pc' = [pc EXCEPT ![j] = p]
    BY <1>2 DEF Authorize
  <2>2. /\ Functions' /\ pc'[j] \in {"scope", "authorize"} /\ request' = request
        /\ \A x \in Jobs \ {j} : pc'[x] = pc[x] /\ staged'[x] = staged[x]
    BY <1>0, <2>1 DEF IInv, Functions
  <2>3. Bounded(request[j]) BY DEF IInv, Transactions, Solo
  <2>4. pc'[j] \notin InTransaction \cup {"idle", "answered"} BY <2>2 DEF InTransaction
  <2> QED BY <1>0, <2>2, <2>3, <2>4, OutsideStep
<1> QED BY <1>1, <1>2

LEMMA LeaveOK == ASSUME IInv, NEW j \in Jobs, Leave(j) PROVE IInv'
<1>1. /\ pc[j] = "answered" /\ pc' = [pc EXCEPT ![j] = "idle"]
      /\ answer' = [answer EXCEPT ![j] = 0] /\ late' = [late EXCEPT ![j] = FALSE]
      /\ rows' = rows /\ outcomes' = outcomes /\ request' = request /\ due' = due
      /\ staged' = staged
  BY DEF Leave
<1>2. /\ Functions' /\ pc'[j] = "idle" /\ \A x \in Jobs \ {j} : pc'[x] = pc[x]
  BY <1>1 DEF IInv, Functions
<1>3. request[j] = NoRequest BY <1>1 DEF IInv, Transactions, Solo
<1>4. pc'[j] \notin InTransaction BY <1>2 DEF InTransaction
<1> QED BY <1>1, <1>2, <1>3, <1>4, NoRequestBounded, OutsideStep

LEMMA AcquireOK == ASSUME IInv, NEW j \in Jobs, Acquire(j) PROVE IInv'
<1>0. /\ pc[j] = "scope" /\ UNCHANGED Uncommitted
      /\ \A i \in Jobs : Running(i) => ~ SameScope(request[i], request[j])
  BY DEF Acquire
<1>1. CASE \E code : Answered(j, code)
  BY <1>0, <1>1, RefusedStep
<1>2. CASE ~ \E code : Answered(j, code)
  <2>1. /\ Established(request[j]) = {} /\ pc' = [pc EXCEPT ![j] = "work"]
        /\ UNCHANGED <<staged, answer, request, due>>
    BY <1>2 DEF Acquire
  <2>2. rows' = rows /\ outcomes' = outcomes /\ late' = late BY <1>0 DEF Uncommitted
  <2>3. /\ Functions' /\ pc'[j] = "work" /\ request' = request /\ staged' = staged
        /\ \A x \in Jobs \ {j} : pc'[x] = pc[x]
    BY <2>1, <2>2 DEF IInv, Functions
  <2>4. \A o \in outcomes : ~ SameScope(o, request[j]) BY <2>1 DEF Established
  <2>5. Bounded(request[j]) BY DEF IInv, Transactions, Solo
  <2>6. Solo(pc'[j], request'[j], staged'[j], rows, outcomes)
    BY <2>3, <2>4, <2>5 DEF Solo
  <2>7. \A i \in Jobs \ {j} : Pair(pc[i], request[i], pc'[j], request'[j])
    BY <1>0, <2>3 DEF Pair, Running, InTransaction
  <2> QED BY <2>2, <2>3, <2>6, <2>7, JobStep
<1> QED BY <1>1, <1>2

LEMMA FailOK == ASSUME IInv, NEW j \in Jobs, Fail(j) PROVE IInv'
  BY RefusedStep DEF Fail
-----------------------------------------------------------------------------
(* What the commands decide. *)

LEMMA MadeSound ==
  ASSUME NEW r, NEW state, state # "NONE"
  PROVE  RowSound(Made(r, state)) /\ Made(r, state).state = state /\ Made(r, state).revision = 0
  BY DEF RowSound, Made, RowFields

LEMMA MovedSound ==
  ASSUME RowsSound(rows), NEW kind \in Kinds, Exists(kind), NEW state, state # "NONE"
  PROVE  /\ RowSound(Moved(kind, state)) /\ Continues(Moved(kind, state), rows[kind])
         /\ Moved(kind, state).state = state
<1> DEFINE row == rows[kind]
           next == Moved(kind, state)
<1>1. DOMAIN row = RowFields /\ row.revision \in Nat BY DEF RowsSound, RowSound
<1>2. next = [[row EXCEPT !.state = state] EXCEPT !.revision = row.revision + 1]
  BY <1>1 DEF Moved, RowFields
<1>3. /\ DOMAIN next = RowFields /\ next.state = state /\ next.revision = row.revision + 1
      /\ \A f \in RowFields \ {"state", "revision"} : next[f] = row[f]
  BY <1>1, <1>2 DEF RowFields
<1> QED BY <1>1, <1>3 DEF RowSound, Continues, Exists, RowFields

\* No row is there before its creation, however often that is asked for.
LEMMA NothingYet ==
  ASSUME IInv, NEW j \in Jobs, pc[j] = "work",
         request[j].operation \in Creating \ {"teacher_os_memory_create"}
  PROVE  rows[Subject(request[j].operation)].state = "NONE"
<1> DEFINE r == request[j]
<1>1. Solo(pc[j], r, staged[j], rows, outcomes) BY DEF IInv, Transactions
<1>2. r.key = CreationKey /\ r.principal = Teacher BY <1>1 DEF Solo, Bounded
<1>3. \A o \in outcomes : ~ SameScope(o, r) BY <1>1 DEF Solo, InTransaction
<1>4. Subject(r.operation) \in Kinds \ {"memory"} /\ Maker(Subject(r.operation)) = r.operation
  BY DEF Subject, Maker, Kinds, Creating, AssignmentChanges, ExecutionEnding, ObservationOps,
         AssessmentChanges, Remediation
<1> QED BY <1>2, <1>3, <1>4 DEF IInv, MakerKnown, SameScope

\* A creation that asks nothing of an execution.
LEMMA CreationSound ==
  ASSUME IInv, NEW j \in Jobs, pc[j] = "work", NEW state, state # "NONE",
         request[j].operation \in Creating \ {"teacher_os_memory_create"},
         request[j].operation = "teaching_execution_start" => state = "IN_PROGRESS",
         request[j].operation \in ObservationOps => rows["execution"].state = "IN_PROGRESS",
         request[j].operation = "assessment_classroom_record"
                 => Taught(Made(request[j], state), rows)
  PROVE  StagedSound(request[j], Made(request[j], state), rows)
<1> DEFINE r == request[j]
<1>1. /\ RowSound(Made(r, state)) /\ Made(r, state).state = state /\ Made(r, state).revision = 0
  BY MadeSound
<1>2. Begins(Made(r, state), rows[Subject(r.operation)])
  BY <1>1, NothingYet DEF Begins
<1>3. r.operation \in Operations /\ r.operation \notin Changing
    /\ r.operation \notin ExecutionEnding
      /\ (Subject(r.operation) = "assessment" => r.operation = "assessment_classroom_record")
      /\ r.operation # Remediation
  BY DEF Operations, Creating, Changing, AssignmentChanges, ExecutionEnding, AssessmentChanges,
         ObservationOps, Remediation, Subject
<1> QED BY <1>1, <1>2, <1>3 DEF StagedSound

\* A change that asks nothing of an execution, but of the class assessment.
LEMMA ChangeSound ==
  ASSUME IInv, NEW j \in Jobs, NEW row, request[j].operation \in Changing,
         RowSound(row), Continues(row, rows[Subject(request[j].operation)]),
         request[j].operation \in ExecutionEnding \cup ObservationOps
                 => rows["execution"].state = "IN_PROGRESS"
  PROVE  StagedSound(request[j], row, rows)
<1> DEFINE r == request[j]
<1>1. r.operation \in Operations /\ r.operation \notin Creating /\ r.operation # Remediation
  BY DEF Operations, Creating, Changing, AssignmentChanges, ExecutionEnding, AssessmentChanges,
         ObservationOps, Remediation
<1>2. ASSUME Subject(r.operation) = "assessment" PROVE Taught(row, rows)
  <2>1. rows["assessment"].state # "NONE" /\ row.work = rows["assessment"].work
        /\ row.execution = rows["assessment"].execution /\ row.assignment = rows["assessment"].assignment
    BY <1>2 DEF Continues
  <2>2. Taught(rows["assessment"], rows) BY <2>1 DEF IInv
  <2> QED BY <2>1, <2>2, Zenon DEF Taught
<1>3. r.operation # "teaching_execution_start" BY <1>1 DEF Creating
<1> QED BY <1>1, <1>2, <1>3 DEF StagedSound
-----------------------------------------------------------------------------
(* Works and assignments. *)

LEMMA CreateWorkOK == ASSUME IInv, NEW j \in Jobs, CreateWork(j) PROVE IInv'
<1>1. PICK verdict : Decide(j, verdict, NewWork(request[j]))
  BY Zenon DEF CreateWork
<1>2. pc[j] = "work" /\ request[j].operation = "teaching_work_create"
    BY <1>1 DEF CreateWork, Decide
<1>3. StagedSound(request[j], NewWork(request[j]), rows)
  BY <1>2, CreationSound DEF NewWork, Creating, ObservationOps
<1> QED BY <1>1, <1>2, <1>3, DecideStep

LEMMA RefineWorkOK == ASSUME IInv, NEW j \in Jobs, RefineWork(j) PROVE IInv'
<1> DEFINE r == request[j]
           checks(payload) == << <<Exists("work"), "teaching_work_not_found">>,
                                 <<rows["work"].owner = r.principal, "forbidden">>,
                                 <<rows["work"].revision = r.expected,
                                         "resource_revision_conflict">>,
                                 <<payload = "ok", payload>> >>
<1>1. PICK payload \in PayloadAnswers("invalid_teaching_work_request") :
         Decide(j, First(checks(payload)), Moved("work", "READY"))
  BY Zenon DEF RefineWork
<1>2. pc[j] = "work" /\ r.operation = "teaching_work_refine"
  BY <1>1 DEF RefineWork, Decide
<1>3. ASSUME First(checks(payload)) = "ok" PROVE Exists("work")
  <2>1. DOMAIN checks(payload) = 1 .. 4 OBVIOUS
  <2>2. checks(payload)[1][2] # "ok" /\ checks(payload)[2][2] # "ok"
      /\ checks(payload)[3][2] # "ok" OBVIOUS
  <2>3. checks(payload)[4][1] = (payload = "ok") /\ checks(payload)[4][2] = payload
    OBVIOUS
  <2>4. (checks(payload)[4][1] \/ checks(payload)[4][2] # "ok")
    BY <2>3, Zenon
  <2>5. checks(payload)[1][1] = (Exists("work"))
    OBVIOUS
  <2> HIDE DEF checks
  <2>6. checks(payload)[1][1]
    BY <1>3, <2>1, <2>2, <2>4, FirstPassed
  <2> QED BY <2>5, <2>6, Zenon
<1>4. First(checks(payload)) = "ok" => StagedSound(r, Moved("work", "READY"), rows)
  <2> HIDE DEF checks
  <2> QED BY <1>2, <1>3, MovedSound, ChangeSound
         DEF IInv, Kinds, Changing, Subject, AssignmentChanges, AssessmentChanges,
                 ExecutionEnding,
             ObservationOps
<1> HIDE DEF checks
<1> QED BY <1>1, <1>2, <1>4, DecideStep

LEMMA CreateAssignmentOK == ASSUME IInv, NEW j \in Jobs, CreateAssignment(j) PROVE IInv'
<1>1. PICK verdict : Decide(j, verdict, NewAssignment(request[j]))
  BY Zenon DEF CreateAssignment
<1>2. pc[j] = "work" /\ request[j].operation = "teaching_assignment_create"
    BY <1>1 DEF CreateAssignment, Decide
<1>3. StagedSound(request[j], NewAssignment(request[j]), rows)
  BY <1>2, CreationSound DEF NewAssignment, Creating, ObservationOps
<1> QED BY <1>1, <1>2, <1>3, DecideStep

LEMMA MutateActiveOK ==
  ASSUME IInv, NEW j \in Jobs, NEW sound, NEW state, state # "NONE",
         request[j].operation \in AssignmentChanges, MutateActive(j, sound, state)
  PROVE  IInv'
<1> DEFINE r == request[j]
           checks == << <<Exists("assignment"), "teaching_assignment_not_found">>,
                        <<rows["assignment"].owner = r.principal,
                                "teaching_assignment_forbidden">>,
                        <<rows["assignment"].revision = r.expected,
                                "resource_revision_conflict">>,
                        <<rows["assignment"].state = "ACTIVE" /\ sound,
                                "teaching_assignment_not_active">> >>
<1>1. Decide(j, First(checks), Moved("assignment", state))
  BY Zenon DEF MutateActive
<1>2. pc[j] = "work" /\ r.operation \in AssignmentChanges
  BY <1>1 DEF MutateActive, Decide
<1>3. ASSUME First(checks) = "ok" PROVE Exists("assignment")
  <2>1. DOMAIN checks = 1 .. 4 OBVIOUS
  <2>2. checks[1][2] # "ok" /\ checks[2][2] # "ok" /\ checks[3][2] # "ok"
      /\ checks[4][2] # "ok" OBVIOUS
  <2>3. checks[1][1] = (Exists("assignment"))
    OBVIOUS
  <2> HIDE DEF checks
  <2>4. checks[1][1]
    BY <1>3, <2>1, <2>2, FirstPassed
  <2> QED BY <2>3, <2>4, Zenon
<1>4. First(checks) = "ok" => StagedSound(r, Moved("assignment", state), rows)
  <2> HIDE DEF checks
  <2> QED BY <1>2, <1>3, MovedSound, ChangeSound
         DEF IInv, Kinds, Changing, Subject, AssignmentChanges, AssessmentChanges,
                 ExecutionEnding,
             ObservationOps
<1>5. r.operation # "teacher_os_memory_create" BY <1>2 DEF AssignmentChanges
<1> HIDE DEF checks
<1> QED BY <1>1, <1>4, <1>5, DecideStep

LEMMA AssignmentChangesOK ==
  ASSUME IInv, NEW j \in Jobs, UpdateDue(j) \/ CloseAssignment(j) \/ CancelAssignment(j)
  PROVE  IInv'
<1>1. CASE UpdateDue(j)
  BY <1>1, MutateActiveOK DEF UpdateDue, AssignmentChanges
<1>2. CASE CloseAssignment(j)
  BY <1>2, MutateActiveOK DEF CloseAssignment, AssignmentChanges
<1>3. CASE CancelAssignment(j)
  BY <1>3, MutateActiveOK DEF CancelAssignment, AssignmentChanges
<1> QED BY <1>1, <1>2, <1>3
-----------------------------------------------------------------------------
(* Executions and observations. *)

LEMMA StartExecutionOK == ASSUME IInv, NEW j \in Jobs, StartExecution(j) PROVE IInv'
<1>1. PICK verdict : Decide(j, verdict, StartedExecution(request[j]))
  BY Zenon DEF StartExecution
<1>2. pc[j] = "work" /\ request[j].operation = "teaching_execution_start"
    BY <1>1 DEF StartExecution, Decide
<1>3. StagedSound(request[j], StartedExecution(request[j]), rows)
  BY <1>2, CreationSound DEF StartedExecution, Creating, ObservationOps
<1> QED BY <1>1, <1>2, <1>3, DecideStep

LEMMA MutateInProgressOK ==
  ASSUME IInv, NEW j \in Jobs, NEW state, state # "NONE",
         request[j].operation \in ExecutionEnding, MutateInProgress(j, state)
  PROVE  IInv'
<1> DEFINE r == request[j]
           checks(class) == << <<Exists("execution"), "teaching_execution_not_found">>,
                               <<rows["execution"].owner = r.principal,
                                       "teaching_execution_forbidden">>,
                               <<class = "ok", class>>,
                               <<rows["execution"].revision = r.expected,
                                       "resource_revision_conflict">>,
                               <<rows["execution"].state = "IN_PROGRESS",
                                       "teaching_execution_not_in_progress">> >>
<1>1. PICK class \in SchoolAnswers :
         Decide(j, First(checks(class)), Moved("execution", state))
  BY Zenon DEF MutateInProgress
<1>2. pc[j] = "work" /\ r.operation \in ExecutionEnding
  BY <1>1 DEF MutateInProgress, Decide
<1>3. ASSUME First(checks(class)) = "ok"
    PROVE Exists("execution") /\ rows["execution"].state = "IN_PROGRESS"
  <2>1. DOMAIN checks(class) = 1 .. 5 OBVIOUS
  <2>2. checks(class)[1][2] # "ok" /\ checks(class)[2][2] # "ok" /\ checks(class)[4][2] # "ok"
      /\ checks(class)[5][2] # "ok" OBVIOUS
  <2>3. checks(class)[3][1] = (class = "ok") /\ checks(class)[3][2] = class
    OBVIOUS
  <2>4. (checks(class)[3][1] \/ checks(class)[3][2] # "ok")
    BY <2>3, Zenon
  <2>5. checks(class)[1][1] = (Exists("execution"))
      /\ checks(class)[5][1] = (rows["execution"].state = "IN_PROGRESS")
    OBVIOUS
  <2> HIDE DEF checks
  <2>6. checks(class)[1][1] /\ checks(class)[5][1]
    BY <1>3, <2>1, <2>2, <2>4, FirstPassed
  <2> QED BY <2>5, <2>6, Zenon
<1>4. First(checks(class)) = "ok" => StagedSound(r, Moved("execution", state), rows)
  <2> HIDE DEF checks
  <2> QED BY <1>2, <1>3, MovedSound, ChangeSound
         DEF IInv, Kinds, Changing, Subject, AssignmentChanges, AssessmentChanges,
                 ExecutionEnding,
             ObservationOps
<1>5. r.operation # "teacher_os_memory_create" BY <1>2 DEF ExecutionEnding
<1> HIDE DEF checks
<1> QED BY <1>1, <1>4, <1>5, DecideStep

LEMMA ExecutionEndingOK ==
  ASSUME IInv, NEW j \in Jobs, CompleteExecution(j) \/ CancelExecution(j) PROVE IInv'
<1>1. CASE CompleteExecution(j)
  BY <1>1, MutateInProgressOK DEF CompleteExecution, ExecutionEnding
<1>2. CASE CancelExecution(j)
  BY <1>2, MutateInProgressOK DEF CancelExecution, ExecutionEnding
<1> QED BY <1>1, <1>2

LEMMA CreateObservationOK == ASSUME IInv, NEW j \in Jobs, CreateObservation(j) PROVE IInv'
<1> DEFINE r == request[j]
           checks(class, payload) == << <<Exists("execution"), "teaching_execution_not_found">>,
                                        <<rows["execution"].owner = r.principal,
                                                "teaching_execution_forbidden">>,
                                        <<class = "ok", class>>,
                                        <<rows["execution"].state = "IN_PROGRESS",
                                                "teaching_execution_not_in_progress">>,
                                        <<payload = "ok", payload>> >>
<1>1. PICK class \in SchoolAnswers, payload \in {"ok", "unsupported_observation_kind",
    "invalid_teaching_execution_request"} :
         Decide(j, First(checks(class, payload)), NewObservation(r))
  BY Zenon DEF CreateObservation
<1>2. pc[j] = "work" /\ r.operation = "teaching_execution_observation_create"
  BY <1>1 DEF CreateObservation, Decide
<1>3. ASSUME First(checks(class, payload)) = "ok" PROVE rows["execution"].state = "IN_PROGRESS"
  <2>1. DOMAIN checks(class, payload) = 1 .. 5 OBVIOUS
  <2>2. checks(class, payload)[1][2] # "ok" /\ checks(class, payload)[2][2] # "ok"
      /\ checks(class, payload)[4][2] # "ok" OBVIOUS
  <2>3. checks(class, payload)[3][1] = (class = "ok") /\ checks(class, payload)[3][2] = class
      /\ checks(class, payload)[5][1] = (payload = "ok") /\ checks(class, payload)[5][2] = payload
    OBVIOUS
  <2>4. (checks(class, payload)[3][1] \/ checks(class, payload)[3][2] # "ok")
      /\ (checks(class, payload)[5][1] \/ checks(class, payload)[5][2] # "ok")
    BY <2>3, Zenon
  <2>5. checks(class, payload)[4][1] = (rows["execution"].state = "IN_PROGRESS")
    OBVIOUS
  <2> HIDE DEF checks
  <2>6. checks(class, payload)[4][1]
    BY <1>3, <2>1, <2>2, <2>4, FirstPassed
  <2> QED BY <2>5, <2>6, Zenon
<1>4. First(checks(class, payload)) = "ok" => StagedSound(r, NewObservation(r), rows)
  <2> HIDE DEF checks
  <2> QED BY <1>2, <1>3, CreationSound DEF NewObservation, Creating, ObservationOps
<1> HIDE DEF checks
<1> QED BY <1>1, <1>2, <1>4, DecideStep

LEMMA CorrectObservationOK == ASSUME IInv, NEW j \in Jobs, CorrectObservation(j) PROVE IInv'
<1> DEFINE r == request[j]
           checks(class, payload) == << <<Exists("execution"), "teaching_execution_not_found">>,
                                        <<rows["execution"].owner = r.principal,
                                                "teaching_execution_forbidden">>,
                                        <<class = "ok", class>>,
                                        <<Exists("observation"), "teaching_execution_observation_not_found">>,
                                        <<rows["observation"].revision = r.expected,
                                                "teaching_execution_observation_revision_conflict">>,
                                        <<rows["execution"].state = "IN_PROGRESS",
                                                "teaching_execution_not_in_progress">>,
                                        <<payload = "ok", payload>> >>
<1>1. PICK class \in SchoolAnswers,
    payload \in PayloadAnswers("invalid_teaching_execution_request") :
         Decide(j, First(checks(class, payload)), Moved("observation", "NOTED"))
  BY Zenon DEF CorrectObservation
<1>2. pc[j] = "work" /\ r.operation = "teaching_execution_observation_correct"
  BY <1>1 DEF CorrectObservation, Decide
<1>3. ASSUME First(checks(class, payload)) = "ok"
    PROVE Exists("observation") /\ rows["execution"].state = "IN_PROGRESS"
  <2>1. DOMAIN checks(class, payload) = 1 .. 7 OBVIOUS
  <2>2. checks(class, payload)[1][2] # "ok" /\ checks(class, payload)[2][2] # "ok"
      /\ checks(class, payload)[4][2] # "ok" /\ checks(class, payload)[5][2] # "ok"
      /\ checks(class, payload)[6][2] # "ok" OBVIOUS
  <2>3. checks(class, payload)[3][1] = (class = "ok") /\ checks(class, payload)[3][2] = class
      /\ checks(class, payload)[7][1] = (payload = "ok") /\ checks(class, payload)[7][2] = payload
    OBVIOUS
  <2>4. (checks(class, payload)[3][1] \/ checks(class, payload)[3][2] # "ok")
      /\ (checks(class, payload)[7][1] \/ checks(class, payload)[7][2] # "ok")
    BY <2>3, Zenon
  <2>5. checks(class, payload)[4][1] = (Exists("observation"))
      /\ checks(class, payload)[6][1] = (rows["execution"].state = "IN_PROGRESS")
    OBVIOUS
  <2> HIDE DEF checks
  <2>6. checks(class, payload)[4][1] /\ checks(class, payload)[6][1]
    BY <1>3, <2>1, <2>2, <2>4, FirstPassed
  <2> QED BY <2>5, <2>6, Zenon
<1>4. First(checks(class, payload)) = "ok" => StagedSound(r, Moved("observation", "NOTED"), rows)
  <2> HIDE DEF checks
  <2> QED BY <1>2, <1>3, MovedSound, ChangeSound
         DEF IInv, Kinds, Changing, Subject, AssignmentChanges, AssessmentChanges,
                 ExecutionEnding,
             ObservationOps
<1> HIDE DEF checks
<1> QED BY <1>1, <1>2, <1>4, DecideStep
-----------------------------------------------------------------------------
(* Assessments. *)

LEMMA MutateRecordedOK ==
  ASSUME IInv, NEW j \in Jobs, NEW row, request[j].operation \in AssessmentChanges,
         Exists("assessment") => RowSound(row) /\ Continues(row, rows["assessment"]),
         MutateRecorded(j, row)
  PROVE  IInv'
<1> DEFINE r == request[j]
           checks(class, payload) == << <<Exists("assessment") /\ rows["assessment"].owner = r.principal,
                                                "classroom_assessment_not_found">>,
                                        <<rows["assessment"].state = "RECORDED",
                                                "classroom_assessment_not_recorded">>,
                                        <<class = "ok", class>>,
                                        <<rows["assessment"].revision = r.expected,
                                                "resource_revision_conflict">>,
                                        <<payload = "ok", payload>> >>
<1>1. PICK class \in SchoolAnswers,
    payload \in PayloadAnswers("invalid_classroom_assessment_request") :
         Decide(j, First(checks(class, payload)), row)
  BY Zenon DEF MutateRecorded
<1>2. pc[j] = "work" /\ r.operation \in AssessmentChanges
  BY <1>1 DEF MutateRecorded, Decide
<1>3. ASSUME First(checks(class, payload)) = "ok" PROVE Exists("assessment")
  <2>1. DOMAIN checks(class, payload) = 1 .. 5 OBVIOUS
  <2>2. checks(class, payload)[1][2] # "ok" /\ checks(class, payload)[2][2] # "ok"
      /\ checks(class, payload)[4][2] # "ok" OBVIOUS
  <2>3. checks(class, payload)[3][1] = (class = "ok") /\ checks(class, payload)[3][2] = class
      /\ checks(class, payload)[5][1] = (payload = "ok") /\ checks(class, payload)[5][2] = payload
    OBVIOUS
  <2>4. (checks(class, payload)[3][1] \/ checks(class, payload)[3][2] # "ok")
      /\ (checks(class, payload)[5][1] \/ checks(class, payload)[5][2] # "ok")
    BY <2>3, Zenon
  <2>5. checks(class, payload)[1][1] = (Exists("assessment")
      /\ rows["assessment"].owner = r.principal)
    OBVIOUS
  <2> HIDE DEF checks
  <2>6. checks(class, payload)[1][1]
    BY <1>3, <2>1, <2>2, <2>4, FirstPassed
  <2> QED BY <2>5, <2>6, Zenon
<1>4. First(checks(class, payload)) = "ok" => StagedSound(r, row, rows)
  <2> HIDE DEF checks
  <2> QED BY <1>2, <1>3, ChangeSound
         DEF Changing, Subject, AssignmentChanges, AssessmentChanges, ExecutionEnding,
                 ObservationOps
<1>5. r.operation # "teacher_os_memory_create" BY <1>2 DEF AssessmentChanges
<1> HIDE DEF checks
<1> QED BY <1>1, <1>4, <1>5, DecideStep

LEMMA RemediateOK == ASSUME IInv, NEW j \in Jobs, Remediate(j) PROVE IInv'
<1> DEFINE r == request[j]
           checks(class, payload) == << <<Exists("assessment"), "classroom_assessment_not_found">>,
                                        <<rows["assessment"].state = "RECORDED",
                                                "classroom_assessment_not_recorded">>,
                                        <<rows["assessment"].revision = r.expected,
                                                "resource_revision_conflict">>,
                                        <<rows["assessment"].owner = r.principal,
                                                "classroom_assessment_not_found">>,
                                        <<class = "ok", class>>,
                                        <<rows["assessment"].work = "none"
                                                \/ WorkOwner[rows["assessment"].work] = r.principal,
                                          "classroom_assessment_not_found">>,
                                        <<SourceAgrees(rows["assessment"]),
                                                "assessment_composition_conflict">>,
                                        <<payload = "ok", payload>> >>
<1>1. PICK class \in SchoolAnswers, payload \in PayloadAnswers("invalid_teaching_work_request") :
         Decide(j, First(checks(class, payload)), rows["assessment"])
  BY Zenon DEF Remediate
<1>2. pc[j] = "work" /\ r.operation = Remediation
  BY <1>1 DEF Remediate, Decide
<1>3. ASSUME First(checks(class, payload)) = "ok" PROVE rows["assessment"].state = "RECORDED"
  <2>1. DOMAIN checks(class, payload) = 1 .. 8 OBVIOUS
  <2>2. checks(class, payload)[1][2] # "ok" /\ checks(class, payload)[2][2] # "ok"
      /\ checks(class, payload)[3][2] # "ok" /\ checks(class, payload)[4][2] # "ok"
      /\ checks(class, payload)[6][2] # "ok" /\ checks(class, payload)[7][2] # "ok" OBVIOUS
  <2>3. checks(class, payload)[5][1] = (class = "ok") /\ checks(class, payload)[5][2] = class
      /\ checks(class, payload)[8][1] = (payload = "ok") /\ checks(class, payload)[8][2] = payload
    OBVIOUS
  <2>4. (checks(class, payload)[5][1] \/ checks(class, payload)[5][2] # "ok")
      /\ (checks(class, payload)[8][1] \/ checks(class, payload)[8][2] # "ok")
    BY <2>3, Zenon
  <2>5. checks(class, payload)[2][1] = (rows["assessment"].state = "RECORDED")
    OBVIOUS
  <2> HIDE DEF checks
  <2>6. checks(class, payload)[2][1]
    BY <1>3, <2>1, <2>2, <2>4, FirstPassed
  <2> QED BY <2>5, <2>6, Zenon
<1>4. First(checks(class, payload)) = "ok" => StagedSound(r, rows["assessment"], rows)
  <2> HIDE DEF checks
  <2> QED
      BY <1>2, <1>3 DEF IInv, StagedSound, RowsSound, Remediation, Operations, Creating,
      Changing, AssignmentChanges,
             ExecutionEnding, AssessmentChanges, ObservationOps, Subject, Kinds
<1>5. r.operation # "teacher_os_memory_create" BY <1>2 DEF Remediation
<1> HIDE DEF checks
<1> QED BY <1>1, <1>4, <1>5, DecideStep
\* What the list of an execution asks, and the list of an assignment.
LEMMA CompletedPassed ==
  ASSUME NEW r, First(CompletedExecution(r)) = "ok"
  PROVE  /\ rows["execution"].state = "COMPLETED" /\ rows["execution"].bound
         /\ r.input.work \in {"none", rows["execution"].work}
<1> DEFINE checks == CompletedExecution(r)
<1>1. DOMAIN checks = 1 .. 4 BY DEF CompletedExecution
<1>2. /\ checks[1][2] # "ok" /\ checks[2][2] # "ok" /\ checks[3][2] # "ok" /\ checks[4][2] # "ok"
  BY DEF CompletedExecution
<1>3. /\ checks[2][1] = (rows["execution"].state = "COMPLETED")
      /\ checks[3][1] = (r.input.work # "none" => rows["execution"].work = r.input.work)
      /\ checks[4][1] = rows["execution"].bound
  BY DEF CompletedExecution
<1>4. First(checks) = "ok" OBVIOUS
<1> HIDE DEF checks
<1>5. checks[2][1] /\ checks[3][1] /\ checks[4][1]
  BY <1>1, <1>2, <1>4, FirstPassed
<1> QED BY <1>3, <1>5, Zenon

LEMMA AssignmentPassed ==
  ASSUME NEW r, First(ClassAssignment(r)) = "ok"
  PROVE  rows["assignment"].bound
<1> DEFINE checks == ClassAssignment(r)
<1>1. DOMAIN checks = 1 .. 3 BY DEF ClassAssignment
<1>2. /\ checks[1][2] # "ok" /\ checks[2][2] # "ok" /\ checks[3][2] # "ok"
  BY DEF ClassAssignment
<1>3. checks[2][1] = rows["assignment"].bound
  BY DEF ClassAssignment
<1>4. First(checks) = "ok" OBVIOUS
<1> HIDE DEF checks
<1>5. checks[2][1]
  BY <1>1, <1>2, <1>4, FirstPassed
<1> QED BY <1>3, <1>5, Zenon

\* A composition that agrees is one of what was taught.
LEMMA CompositionTaught ==
  ASSUME NEW r, NEW content, Composition(r, content) = "ok"
  PROVE  Taught(NewAssessment(r), rows)
<1> DEFINE a == IF r.input.execution THEN First(CompletedExecution(r)) ELSE "ok"
           b == IF r.input.assignment THEN First(ClassAssignment(r)) ELSE "ok"
           checks == << <<a = "ok", a>>,
                        <<b = "ok", b>>,
                        <<r.input.execution /\ r.input.assignment =>
                              rows["assignment"].work \in {"none", rows["execution"].work},
                          "assessment_composition_conflict">>,
                        <<r.input.execution \/ r.input.assignment \/ content = "ok", content>>,
                        <<OwnedWork(r), "teaching_work_not_found">> >>
<1>1. First(checks) = "ok" BY Zenon DEF Composition
<1>2. /\ checks[1][1] = (a = "ok") /\ checks[1][2] = a /\ checks[2][1] = (b = "ok")
      /\ checks[2][2] = b
      /\ checks[4][1] = (r.input.execution \/ r.input.assignment \/ content = "ok")
      /\ checks[4][2] = content
  <2> HIDE DEF a, b
  <2> QED OBVIOUS
<1>3. /\ checks[3][1] = (r.input.execution /\ r.input.assignment =>
                            rows["assignment"].work \in {"none", rows["execution"].work})
      /\ checks[3][2] # "ok" /\ checks[5][2] # "ok" /\ DOMAIN checks = 1 .. 5
  <2> HIDE DEF a, b
  <2> QED OBVIOUS
<1>4. a = "ok" /\ r.input.execution => First(CompletedExecution(r)) = "ok"
  BY Zenon
<1>5. b = "ok" /\ r.input.assignment => First(ClassAssignment(r)) = "ok"
  BY Zenon
<1> HIDE DEF a, b, checks
<1>6. /\ checks[1][1] \/ checks[1][2] # "ok"
      /\ checks[2][1] \/ checks[2][2] # "ok"
      /\ checks[4][1] \/ checks[4][2] # "ok"
  BY <1>2, Zenon
<1>7. checks[1][1] /\ checks[2][1] /\ checks[3][1]
  BY <1>1, <1>3, <1>6, FirstPassed
<1>8. /\ a = "ok" /\ b = "ok"
      /\ r.input.execution /\ r.input.assignment =>
            rows["assignment"].work \in {"none", rows["execution"].work}
  BY <1>2, <1>3, <1>7, Zenon
<1>9. /\ NewAssessment(r).execution = r.input.execution
      /\ NewAssessment(r).assignment = r.input.assignment
      /\ NewAssessment(r).work = r.input.work
  BY DEF NewAssessment, Made
<1> QED BY <1>4, <1>5, <1>8, <1>9, CompletedPassed, AssignmentPassed, Zenon DEF Taught

LEMMA RecordAssessmentOK == ASSUME IInv, NEW j \in Jobs, RecordAssessment(j) PROVE IInv'
<1> DEFINE r == request[j]
           checks(class, agreed, payload) == << <<class = "ok", class>>,
                                                <<agreed = "ok", agreed>>,
                                                <<payload = "ok", payload>> >>
<1>1. PICK class \in SchoolAnswers, content \in ContentForAssessment,
           payload \in PayloadAnswers("invalid_classroom_assessment_request") :
         Decide(j, First(checks(class, Composition(r, content), payload)), NewAssessment(r))
  BY Zenon DEF RecordAssessment
<1>2. pc[j] = "work" /\ r.operation = "assessment_classroom_record"
  BY <1>1 DEF RecordAssessment, Decide
<1> DEFINE agreed == Composition(r, content)
           all == checks(class, agreed, payload)
<1>3. ASSUME First(all) = "ok" PROVE agreed = "ok"
  <2> HIDE DEF agreed
  <2>1. /\ all[1][1] = (class = "ok") /\ all[1][2] = class
        /\ all[2][1] = (agreed = "ok") /\ all[2][2] = agreed
        /\ all[3][1] = (payload = "ok") /\ all[3][2] = payload
        /\ DOMAIN all = 1 .. 3
    OBVIOUS
  <2> HIDE DEF all
  <2>2. (all[1][1] \/ all[1][2] # "ok") /\ (all[2][1] \/ all[2][2] # "ok")
      /\ (all[3][1] \/ all[3][2] # "ok")
    BY <2>1, Zenon
  <2>3. all[2][1]
    BY <1>3, <2>1, <2>2, FirstPassed
  <2> QED BY <2>1, <2>3, Zenon
<1>4. First(all) = "ok" => Taught(NewAssessment(r), rows)
  BY <1>3, CompositionTaught
<1>5. First(all) = "ok" => StagedSound(r, NewAssessment(r), rows)
  <2> HIDE DEF all
  <2> QED BY <1>2, <1>4, CreationSound DEF NewAssessment, Creating, ObservationOps
<1>6. Decide(j, First(all), NewAssessment(r)) BY <1>1
<1> HIDE DEF all
<1> QED BY <1>2, <1>5, <1>6, DecideStep

LEMMA AssessmentChangesOK ==
  ASSUME IInv, NEW j \in Jobs, CorrectAssessment(j) \/ VoidAssessment(j) PROVE IInv'
<1>1. "assessment" \in Kinds /\ RowsSound(rows) BY DEF IInv, Kinds
<1>2. CASE CorrectAssessment(j)
  <2> DEFINE moved == Moved("assessment", "RECORDED")
             row == [moved EXCEPT !.level = request[j].input.level]
  <2>1. ASSUME Exists("assessment")
        PROVE  RowSound(row) /\ Continues(row, rows["assessment"])
    <3>1. RowSound(moved) /\ Continues(moved, rows["assessment"])
      BY <1>1, <2>1, MovedSound
    <3> HIDE DEF moved
    <3>2. DOMAIN row = RowFields /\ \A f \in RowFields \ {"level"} : row[f] = moved[f]
      BY <3>1 DEF RowSound, RowFields
    <3> HIDE DEF row
    <3> QED BY <3>1, <3>2 DEF RowSound, Continues, RowFields
  <2> QED BY <1>2, <2>1, MutateRecordedOK DEF CorrectAssessment, AssessmentChanges
<1>3. CASE VoidAssessment(j)
  <2>1. Exists("assessment") => /\ RowSound(Moved("assessment", "VOIDED"))
                                /\ Continues(Moved("assessment", "VOIDED"), rows["assessment"])
    BY <1>1, MovedSound
  <2> QED BY <1>3, <2>1, MutateRecordedOK DEF VoidAssessment, AssessmentChanges
<1> QED BY <1>2, <1>3
-----------------------------------------------------------------------------
(* The memory. *)

LEMMA UpdateMemoryOK == ASSUME IInv, NEW j \in Jobs, UpdateMemory(j) PROVE IInv'
<1> DEFINE r == request[j]
           checks(payload) == << <<Exists("memory") /\ rows["memory"].owner = r.principal,
                   "teacher_memory_not_found">>,
                                 <<rows["memory"].revision = r.expected,
                                         "resource_revision_conflict">>,
                                 <<payload = "ok", payload>> >>
<1>1. PICK payload \in PayloadAnswers("invalid_teacher_memory_request") :
         Decide(j, First(checks(payload)), Moved("memory", "KEPT"))
  BY Zenon DEF UpdateMemory
<1>2. pc[j] = "work" /\ r.operation = "teacher_os_memory_update"
  BY <1>1 DEF UpdateMemory, Decide
<1>3. ASSUME First(checks(payload)) = "ok" PROVE Exists("memory")
  <2>1. DOMAIN checks(payload) = 1 .. 3 OBVIOUS
  <2>2. checks(payload)[1][2] # "ok" /\ checks(payload)[2][2] # "ok" OBVIOUS
  <2>3. checks(payload)[3][1] = (payload = "ok") /\ checks(payload)[3][2] = payload
    OBVIOUS
  <2>4. (checks(payload)[3][1] \/ checks(payload)[3][2] # "ok")
    BY <2>3, Zenon
  <2>5. checks(payload)[1][1] = (Exists("memory") /\ rows["memory"].owner = r.principal)
    OBVIOUS
  <2> HIDE DEF checks
  <2>6. checks(payload)[1][1]
    BY <1>3, <2>1, <2>2, <2>4, FirstPassed
  <2> QED BY <2>5, <2>6, Zenon
<1>4. First(checks(payload)) = "ok" => StagedSound(r, Moved("memory", "KEPT"), rows)
  <2> HIDE DEF checks
  <2>1. r.operation \in Changing /\ r.operation \notin ExecutionEnding \cup ObservationOps
    BY <1>2 DEF Changing, ExecutionEnding, ObservationOps
  <2>2. Subject(r.operation) = "memory"
    BY <1>2 DEF Subject, AssignmentChanges, AssessmentChanges, ExecutionEnding, ObservationOps,
       Remediation
  <2>3. RowsSound(rows) /\ "memory" \in Kinds BY DEF IInv, Kinds
  <2> QED BY <1>3, <2>1, <2>2, <2>3, MovedSound, ChangeSound
<1> HIDE DEF checks
<1> QED BY <1>1, <1>2, <1>4, DecideStep
LEMMA CreateMemoryOK == ASSUME IInv, NEW j \in Jobs, CreateMemory(j) PROVE IInv'
<1>1. CASE \E code : Answered(j, code)
  BY <1>1, RefusedStep DEF CreateMemory
<1>2. CASE ~ \E code : Answered(j, code)
  <2>1. /\ pc[j] = "work" /\ request[j].operation = "teacher_os_memory_create"
        /\ pc' = [pc EXCEPT ![j] = "insert"] /\ UNCHANGED <<staged, answer, request, due>>
        /\ UNCHANGED Uncommitted
    BY <1>2 DEF CreateMemory
  <2>2. rows' = rows /\ outcomes' = outcomes /\ late' = late BY <2>1 DEF Uncommitted
  <2>3. /\ Functions' /\ pc'[j] = "insert" /\ request' = request /\ staged' = staged
        /\ \A x \in Jobs \ {j} : pc'[x] = pc[x]
    BY <2>1, <2>2 DEF IInv, Functions
  <2>4. Solo(pc[j], request[j], staged[j], rows, outcomes) BY DEF IInv, Transactions
  <2>5. Solo(pc'[j], request'[j], staged'[j], rows, outcomes)
    BY <2>1, <2>3, <2>4 DEF Solo, InTransaction
  <2>6. ASSUME NEW i \in Jobs \ {j} PROVE Pair(pc[i], request[i], pc'[j], request'[j])
    <3>1. Pair(pc[i], request[i], pc[j], request[j]) BY DEF IInv, Transactions
    <3> QED BY <2>1, <2>3, <3>1 DEF Pair, InTransaction
  <2> QED BY <2>2, <2>3, <2>5, <2>6, JobStep
<1> QED BY <1>1, <1>2

LEMMA InsertMemoryOK == ASSUME IInv, NEW j \in Jobs, InsertMemory(j) PROVE IInv'
<1>1. CASE Exists("memory")
  BY <1>1, RefusedStep DEF InsertMemory
<1>2. CASE ~ Exists("memory")
  <2> DEFINE r == request[j]
  <2>1. /\ pc[j] = "insert" /\ pc' = [pc EXCEPT ![j] = "staged"]
        /\ staged' = [staged EXCEPT ![j] = NewMemory(r)]
        /\ UNCHANGED <<answer, request, due>> /\ UNCHANGED Uncommitted
        /\ \A i \in Jobs : pc[i] = "staged" => request[i].operation # "teacher_os_memory_create"
    BY <1>2 DEF InsertMemory
  <2>2. r.operation = "teacher_os_memory_create"
    BY <2>1 DEF IInv, Transactions, Solo
  <2>3. LockFree(j)
    BY <2>2 DEF LockFree, Locks, Creating, ObservationOps, Remediation
  <2>4. /\ r.operation \in Operations \cap Creating /\ r.operation \notin Changing
        /\ r.operation \notin ExecutionEnding \cup ObservationOps /\ r.operation # Remediation
        /\ Subject(r.operation) = "memory"
    BY <2>2 DEF Operations, Creating, Changing, AssignmentChanges, ExecutionEnding,
       AssessmentChanges,
                ObservationOps, Remediation, Subject
  <2>5. Begins(NewMemory(r), rows["memory"]) /\ RowSound(NewMemory(r))
    BY <1>2, MadeSound DEF Begins, NewMemory, Exists
  <2>6. StagedSound(r, NewMemory(r), rows)
    BY <2>2, <2>4, <2>5 DEF StagedSound
  <2>7. Stages(j, NewMemory(r)) /\ NoMemoryStaged
    BY <2>1, <2>6 DEF Stages, NoMemoryStaged
  <2> QED BY <2>3, <2>6, <2>7, StagedStep
<1> QED BY <1>1, <1>2
-----------------------------------------------------------------------------
(* The commit, and the invariant. *)

\* What the commit of a request j does to the rows and the outcomes.
LEMMA CommitEffect ==
  ASSUME IInv, NEW j \in Jobs, Commit(j)
  PROVE  /\ pc[j] = "staged" /\ StagedSound(request[j], staged[j], rows)
         /\ outcomes' = outcomes \cup {Outcome(j)}
         /\ SameScope(Outcome(j), request[j])
         /\ Answered(j, "ok") /\ late' = late
         /\ Subject(request[j].operation) = "origin" => rows' = rows
         /\ Subject(request[j].operation) # "origin" =>
               /\ Subject(request[j].operation) \in Kinds
               /\ rows' = [rows EXCEPT ![Subject(request[j].operation)] = staged[j]]
               /\ rows'[Subject(request[j].operation)] = staged[j]
               /\ \A k \in Kinds \ {Subject(request[j].operation)} : rows'[k] = rows[k]
<1> DEFINE kind == Subject(request[j].operation)
<1>1. /\ pc[j] = "staged" /\ outcomes' = outcomes \cup {Outcome(j)} /\ Answered(j, "ok")
      /\ late' = late
      /\ rows' = IF kind = "origin" THEN rows ELSE [rows EXCEPT ![kind] = staged[j]]
  BY DEF Commit
<1>2. StagedSound(request[j], staged[j], rows)
  BY <1>1 DEF IInv, Transactions, Solo
<1>3. kind \in Kinds \cup {"origin"}
  BY <1>2, SubjectOf DEF StagedSound
<1>4. SameScope(Outcome(j), request[j]) BY DEF Outcome, Fact, SameScope
<1>5. DOMAIN rows = Kinds BY DEF IInv, RowsSound
<1> HIDE DEF kind
<1>6. kind # "origin" => /\ kind \in Kinds /\ rows' = [rows EXCEPT ![kind] = staged[j]]
                         /\ rows'[kind] = staged[j] /\ \A k \in Kinds \ {kind} : rows'[k] = rows[k]
  BY <1>1, <1>3, <1>5
<1> USE DEF kind
<1> QED BY <1>1, <1>2, <1>4, <1>6

LEMMA CommitOK == ASSUME IInv, NEW j \in Jobs, Commit(j) PROVE IInv'
<1> DEFINE r == request[j]
           x == staged[j]
           kind == Subject(r.operation)
<1>1. /\ pc[j] = "staged" /\ StagedSound(r, x, rows) /\ outcomes' = outcomes \cup {Outcome(j)}
      /\ SameScope(Outcome(j), r) /\ Answered(j, "ok") /\ late' = late
      /\ kind = "origin" => rows' = rows
      /\ kind # "origin" => /\ kind \in Kinds /\ rows' = [rows EXCEPT ![kind] = x] /\ rows'[kind] = x
                            /\ \A k \in Kinds \ {kind} : rows'[k] = rows[k]
  BY CommitEffect
<1>2. Functions /\ RowsSound(rows) /\ Bounded(r)
  BY DEF IInv, Transactions, Solo
<1>3. /\ Functions' /\ pc'[j] = "answered" /\ request'[j] = NoRequest
      /\ \A i \in Jobs \ {j} : pc'[i] = pc[i] /\ request'[i] = request[i] /\ staged'[i] = staged[i]
  BY <1>1, <1>2, AnsweredIs, LateKept DEF Functions
<1>4. RowsSound(rows')
  <2>1. RowSound(x) BY <1>1 DEF StagedSound
  <2>2. kind # "origin" => rows' = [k \in Kinds |-> rows'[k]]
    <3> HIDE DEF x, kind
    <3> QED BY <1>1, <1>2 DEF RowsSound
  <2> HIDE DEF x, kind
  <2> QED BY <1>1, <1>2, <2>1, <2>2 DEF RowsSound
<1>5. MakerKnown(rows', outcomes')
  <2> SUFFICES ASSUME NEW k \in Kinds \ {"memory"}, rows'[k].state # "NONE"
               PROVE  \E o \in outcomes' : o.operation = Maker(k) /\ o.principal = Teacher /\ o.key = CreationKey
    BY DEF MakerKnown
  <2>1. CASE rows[k].state # "NONE"
    BY <1>1, <2>1 DEF IInv, MakerKnown
  <2>2. CASE rows[k].state = "NONE"
    <3>1. kind = k /\ kind # "origin" BY <1>1, <2>2
    <3>2. r.operation \in Creating
      BY <1>1, <2>2, <3>1, SubjectOf DEF StagedSound, Continues, Operations
    <3>3. Maker(k) = r.operation
      BY <1>1, <3>1, <3>2, SubjectOf DEF StagedSound
    <3>4. r.operation # "teacher_os_memory_create"
      BY <3>1 DEF Subject, AssignmentChanges, AssessmentChanges, ExecutionEnding, ObservationOps,
         Remediation
    <3>5. r.key = CreationKey /\ r.principal = Teacher
      BY <1>2, <3>2, <3>4 DEF Bounded
    <3> QED BY <1>1, <3>3, <3>5 DEF SameScope
  <2> QED BY <2>1, <2>2
<1>6. ASSUME rows'["assessment"].state # "NONE" PROVE Taught(rows'["assessment"], rows')
  <2>1. CASE kind = "origin" BY <1>1, <1>6, <2>1 DEF IInv
  <2>2. CASE kind # "origin"
    <3>1. Taught(rows'["assessment"], rows)
      BY <1>1, <1>6, <2>2 DEF IInv, StagedSound, Kinds
    <3> QED BY <1>1, <1>2, <2>2, <3>1, TaughtStays
  <2> QED BY <2>1, <2>2
<1>7. ASSUME NEW i \in Jobs PROVE Solo(pc'[i], request'[i], staged'[i], rows', outcomes')
  <2>1. CASE i = j
    BY <1>3, <2>1, NoRequestBounded DEF Solo, InTransaction
  <2>2. CASE i # j
    <3>1. Solo(pc[i], request[i], staged[i], rows, outcomes) /\ Pair(pc[j], r, pc[i], request[i])
      BY <2>2 DEF IInv, Transactions
    <3>2. pc[i] \in InTransaction => \A o \in outcomes' : ~ SameScope(o, request[i])
      BY <1>1, <3>1 DEF Solo, Pair, InTransaction, SameScope
    <3>3. pc[i] = "staged" => StagedSound(request[i], staged[i], rows')
      BY <1>1, <1>2, <3>1, CommitStable DEF Solo
    <3>4. Bounded(request[i]) /\ (pc[i] \in {"idle", "answered"} => request[i] = NoRequest)
          /\ (pc[i] = "insert" => request[i].operation = "teacher_os_memory_create")
      BY <3>1 DEF Solo
    <3> QED BY <1>3, <2>2, <3>2, <3>3, <3>4 DEF Solo
  <2> QED BY <2>1, <2>2
<1>8. ASSUME NEW i \in Jobs, NEW k \in Jobs, i # k
      PROVE  Pair(pc'[i], request'[i], pc'[k], request'[k])
  <2>1. CASE i = j \/ k = j BY <1>3, <2>1 DEF Pair, InTransaction
  <2>2. CASE i # j /\ k # j BY <1>3, <1>8, <2>2 DEF IInv, Transactions
  <2> QED BY <2>1, <2>2
<1>9. Transactions' BY <1>7, <1>8 DEF Transactions
<1> QED BY <1>3, <1>4, <1>5, <1>6, <1>9 DEF IInv

LEMMA WorkOK == ASSUME IInv, NEW j \in Jobs, Work(j) PROVE IInv'
  BY CreateWorkOK, RefineWorkOK, CreateAssignmentOK, AssignmentChangesOK, StartExecutionOK,
     ExecutionEndingOK, CreateObservationOK, CorrectObservationOK, RecordAssessmentOK,
     AssessmentChangesOK, RemediateOK, CreateMemoryOK, InsertMemoryOK, UpdateMemoryOK
  DEF Work

LEMMA NextOK == ASSUME IInv, [Next]_vars PROVE IInv'
<1>1. CASE Next
  BY <1>1, WithdrawOK, TurnAwayOK, AskOK, AuthorizeOK, AcquireOK, WorkOK, CommitOK, FailOK,
     LeaveOK
  DEF Next
<1>2. CASE UNCHANGED vars
  <2>1. UNCHANGED <<rows, outcomes, pc, request, due, staged, answer>> /\ UNCHANGED late
    BY <1>2 DEF vars
  <2>2. Functions BY DEF IInv
  <2> QED BY <2>1, <2>2, LateKept, StutterOK
<1> QED BY <1>1, <1>2

\* The invariant that the theorems about what is taught, frozen and current rest on.
THEOREM CommandsExcludeEachOther == Spec => []IInv
<1>1. Init => IInv BY InitOK
<1>2. IInv /\ [Next]_vars => IInv' BY NextOK
<1> QED BY <1>1, <1>2, PTL DEF Spec

\* An assessment that names an execution names one that was taught to its end, and the works
\* it, its execution and its assignment name are one: what it rests on is read without a
\* lock, but a completed execution and a bound assignment do not change any more.
THEOREM AssessmentsWereTaught == Spec => []AssessedWasTaught
<1>1. IInv => AssessedWasTaught
  BY Zenon DEF IInv, Taught, AssessedWasTaught
<1> QED BY <1>1, CommandsExcludeEachOther, PTL
-----------------------------------------------------------------------------
(* What a step that is no commit leaves alone. *)

Committed == <<rows, origins, audits, events, outcomes>>

LEMMA WorkShape ==
  ASSUME NEW j \in Jobs, Work(j)
  PROVE  CreateMemory(j) \/ InsertMemory(j) \/ \E verdict, row : Decide(j, verdict, row)
<1>1. ASSUME NEW sound, NEW state, MutateActive(j, sound, state)
      PROVE  \E verdict, row : Decide(j, verdict, row)
  BY <1>1, Zenon DEF MutateActive
<1>2. ASSUME NEW state, MutateInProgress(j, state)
      PROVE  \E verdict, row : Decide(j, verdict, row)
  BY <1>2, Zenon DEF MutateInProgress
<1>3. ASSUME NEW row, MutateRecorded(j, row)
      PROVE  \E verdict, next : Decide(j, verdict, next)
  BY <1>3, Zenon DEF MutateRecorded
<1>4. CASE CreateWork(j) \/ RefineWork(j) \/ CreateAssignment(j)
  BY <1>4, Zenon DEF CreateWork, RefineWork, CreateAssignment
<1>5. CASE UpdateDue(j) \/ CloseAssignment(j) \/ CancelAssignment(j)
  BY <1>1, <1>5, Zenon DEF UpdateDue, CloseAssignment, CancelAssignment
<1>6. CASE StartExecution(j) \/ CompleteExecution(j) \/ CancelExecution(j)
  BY <1>2, <1>6, Zenon DEF StartExecution, CompleteExecution, CancelExecution
<1>7. CASE CreateObservation(j) \/ CorrectObservation(j)
  BY <1>7, Zenon DEF CreateObservation, CorrectObservation
<1>8. CASE RecordAssessment(j) \/ CorrectAssessment(j) \/ VoidAssessment(j) \/ Remediate(j)
  BY <1>3, <1>8, Zenon DEF RecordAssessment, CorrectAssessment, VoidAssessment, Remediate
<1>9. CASE UpdateMemory(j)
  BY <1>9, Zenon DEF UpdateMemory
<1> QED BY <1>4, <1>5, <1>6, <1>7, <1>8, <1>9 DEF Work

LEMMA WorkDecides == ASSUME NEW j \in Jobs, Work(j) PROVE UNCHANGED Uncommitted
<1>1. CASE \E verdict, row : Decide(j, verdict, row)
  BY <1>1, Zenon DEF Decide
<1>2. CASE CreateMemory(j) \/ InsertMemory(j)
  BY <1>2, Zenon DEF CreateMemory, InsertMemory
<1> QED BY <1>1, <1>2, WorkShape

LEMMA OnlyCommit ==
  ASSUME [Next]_vars, ~ \E j \in Jobs : Commit(j)
  PROVE  UNCHANGED Committed
<1>1. ASSUME NEW j \in Jobs, Work(j) PROVE UNCHANGED Committed
  BY <1>1, WorkDecides DEF Committed, Uncommitted
<1>2. ASSUME NEW j \in Jobs, Acquire(j) \/ Fail(j) PROVE UNCHANGED Committed
  BY <1>2 DEF Acquire, Fail, Committed, Uncommitted
<1>3. ASSUME NEW j \in Jobs, TurnAway(j) \/ Leave(j) PROVE UNCHANGED Committed
  BY <1>3 DEF TurnAway, Leave, Committed
<1>4. ASSUME NEW j \in Jobs, Ask(j) PROVE UNCHANGED Committed
  BY <1>4 DEF Ask, Committed
<1>5. ASSUME NEW j \in Jobs, Authorize(j) PROVE UNCHANGED Committed
  BY <1>5 DEF Authorize, Committed
<1>6. CASE Withdraw BY <1>6 DEF Withdraw, Committed
<1>7. CASE UNCHANGED vars BY <1>7 DEF vars, Committed
<1> QED BY <1>1, <1>2, <1>3, <1>4, <1>5, <1>6, <1>7 DEF Next
-----------------------------------------------------------------------------
(* What a step may never do. *)

Frozen == rows["execution"].state \in {"COMPLETED", "CANCELLED"} =>
              rows'["observation"] = rows["observation"]
LEMMA StepFreezes == ASSUME IInv, [Next]_vars PROVE Frozen
<1>1. CASE ~ \E j \in Jobs : Commit(j)
  BY <1>1, OnlyCommit DEF Committed, Frozen
<1>2. ASSUME NEW j \in Jobs, Commit(j) PROVE Frozen
  <2> DEFINE r == request[j]
             kind == Subject(r.operation)
  <2>1. /\ StagedSound(r, staged[j], rows)
        /\ kind = "origin" => rows' = rows
        /\ kind # "origin" => \A k \in Kinds \ {kind} : rows'[k] = rows[k]
    BY <1>2, CommitEffect
  <2>2. kind = "observation" => rows["execution"].state = "IN_PROGRESS"
    BY <2>1, SubjectOf DEF StagedSound
  <2>3. "observation" \in Kinds BY DEF Kinds
  <2> HIDE DEF kind
  <2> QED BY <2>1, <2>2, <2>3 DEF Frozen
<1> QED BY <1>1, <1>2

\* What was observed in an execution is neither added to nor corrected once it has ended: an
\* observation holds the row of its execution from its checks to its commit.
THEOREM ObservationsStayFrozen == Spec => ObservationsFrozen
<1>1. IInv /\ [Next]_vars => [Frozen]_vars BY StepFreezes
<1>2. [][Frozen]_vars <=> ObservationsFrozen BY PTL DEF Frozen, ObservationsFrozen
<1> QED BY <1>1, <1>2, CommandsExcludeEachOther, PTL DEF Spec

NewOriginsCurrent == \A o \in origins' \ origins : /\ rows["assessment"].state = "RECORDED"
                                                   /\ o.revision = rows["assessment"].revision
                                                   /\ o.level = rows["assessment"].level
LEMMA StepKeepsOrigin == ASSUME IInv, [Next]_vars PROVE NewOriginsCurrent
<1>1. CASE ~ \E j \in Jobs : Commit(j)
  BY <1>1, OnlyCommit DEF Committed, NewOriginsCurrent
<1>2. ASSUME NEW j \in Jobs, Commit(j) PROVE NewOriginsCurrent
  <2> DEFINE r == request[j]
             kind == Subject(r.operation)
  <2>1. StagedSound(r, staged[j], rows)
    BY <1>2, CommitEffect
  <2>2. origins' = IF kind = "origin" THEN origins \cup {Origin(j)} ELSE origins
    BY <1>2 DEF Commit
  <2>3. kind = "origin" => staged[j] = rows["assessment"] /\ staged[j].state = "RECORDED"
    BY <2>1, SubjectOf DEF StagedSound
  <2>4. Origin(j).revision = staged[j].revision /\ Origin(j).level = staged[j].level
    BY DEF Origin
  <2> HIDE DEF kind
  <2> QED BY <2>2, <2>3, <2>4 DEF NewOriginsCurrent
<1> QED BY <1>1, <1>2

\* A remediation work keeps the level and the revision its assessment has when the work
\* appears, and that assessment stands: its row is held from the checks to the commit.
THEOREM OriginsAreCurrent == Spec => OriginIsCurrent
<1>1. IInv /\ [Next]_vars => [NewOriginsCurrent]_vars BY StepKeepsOrigin
<1>2. [][NewOriginsCurrent]_vars <=> OriginIsCurrent BY PTL DEF NewOriginsCurrent, OriginIsCurrent
<1> QED BY <1>1, <1>2, CommandsExcludeEachOther, PTL DEF Spec
-----------------------------------------------------------------------------
(* The books: outcomes, audit records and events. *)

Once(facts, kind, n) ==
    \E f \in facts : /\ f.kind = kind /\ f.revision = n
                     /\ \A g \in facts : g.kind = kind /\ g.revision = n => g = f
\* The facts, which speak of the kinds ks, agree with the rows.
Account(facts, ks, rws) ==
    /\ \A f \in facts : f.kind \in Kinds =>
          /\ f.kind \in ks /\ rws[f.kind].state # "NONE"
          /\ f.revision \in Nat /\ f.revision <= rws[f.kind].revision
    /\ \A k \in ks : rws[k].state # "NONE" => \A n \in 0 .. rws[k].revision : Once(facts, k, n)
OriginsAudited(os, as) == \A o \in os : \E f \in as : f.kind = "origin" /\ f.key = o.key
Books ==
    /\ Account(outcomes, Kinds, rows)
    /\ Account(audits, Kinds \cap Audited, rows)
    /\ Account(events, Announced, rows)
    /\ OriginsAudited(origins, audits)

\* A committed row, and the row that takes its place.
Follows(row, old) == RowSound(old) /\ RowSound(row) /\ (Begins(row, old) \/ Continues(row, old))

LEMMA AccountGrows ==
  ASSUME NEW facts, NEW ks \in SUBSET Kinds, NEW rws, NEW rws2, NEW k \in ks, NEW fact,
         Account(facts, ks, rws), fact.kind = k, fact.revision = rws2[k].revision,
         Follows(rws2[k], rws[k]), \A l \in Kinds \ {k} : rws2[l] = rws[l]
  PROVE  Account(facts \cup {fact}, ks, rws2)
<1> DEFINE old == rws[k].revision
           new == rws2[k].revision
<1>1. new \in Nat /\ old \in Nat /\ rws2[k].state # "NONE"
  BY DEF Follows, RowSound, Begins, Continues
<1>2. \A f \in facts : f.kind = k => f.revision \in Nat /\ f.revision <= new /\ f.revision # new
  BY <1>1 DEF Account, Follows, Begins, Continues
<1>3. ASSUME NEW f \in facts \cup {fact}, f.kind \in Kinds
      PROVE  /\ f.kind \in ks /\ rws2[f.kind].state # "NONE"
             /\ f.revision \in Nat /\ f.revision <= rws2[f.kind].revision
  <2>1. CASE f = fact BY <1>1, <2>1
  <2>2. CASE f \in facts /\ f.kind = k BY <1>1, <1>2, <2>2
  <2>3. CASE f \in facts /\ f.kind # k BY <1>3, <2>3 DEF Account
  <2> QED BY <2>1, <2>2, <2>3
<1>4. ASSUME NEW l \in ks, rws2[l].state # "NONE", NEW n \in 0 .. rws2[l].revision
      PROVE  Once(facts \cup {fact}, l, n)
  <2>1. CASE l # k
    <3>1. Once(facts, l, n) BY <1>4, <2>1 DEF Account
    <3> QED BY <2>1, <3>1 DEF Once
  <2>2. CASE l = k /\ n = new
    BY <1>2, <2>2 DEF Once
  <2>3. CASE l = k /\ n # new
    <3>1. rws[k].state # "NONE" /\ n \in 0 .. old
      BY <1>1, <2>3 DEF Follows, Begins, Continues
    <3>2. Once(facts, k, n) BY <3>1 DEF Account
    <3> QED BY <2>3, <3>2 DEF Once
  <2> QED BY <2>1, <2>2, <2>3
<1> QED BY <1>3, <1>4 DEF Account

\* A fact of no row, and a row of no fact.
LEMMA AccountBeside ==
  ASSUME NEW facts, NEW ks, NEW rws, NEW fact, Account(facts, ks, rws),
         ks \subseteq Kinds, fact.kind \notin Kinds
  PROVE  Account(facts \cup {fact}, ks, rws)
<1>1. ASSUME NEW k \in ks, NEW n, Once(facts, k, n) PROVE Once(facts \cup {fact}, k, n)
  BY <1>1 DEF Once
<1> QED BY <1>1 DEF Account

LEMMA AccountApart ==
  ASSUME NEW facts, NEW ks, NEW rws, NEW rws2, NEW k, k \notin ks,
         Account(facts, ks, rws), ks \subseteq Kinds, \A l \in Kinds \ {k} : rws2[l] = rws[l]
  PROVE  Account(facts, ks, rws2)
  BY DEF Account

LEMMA BooksInit == ASSUME Init PROVE Books
<1>1. /\ rows = [k \in Kinds |-> NoRow] /\ origins = {} /\ audits = {} /\ events = {}
      /\ outcomes = {}
  BY DEF Init
<1>2. \A k \in Kinds : rows[k].state = "NONE" BY <1>1 DEF NoRow
<1> QED BY <1>1, <1>2 DEF Books, Account, OriginsAudited, Announced, Kinds

LEMMA BooksCommit == ASSUME IInv, Books, NEW j \in Jobs, Commit(j) PROVE Books'
<1> DEFINE r == request[j]
           kind == Subject(r.operation)
           x == staged[j]
<1>1. /\ StagedSound(r, x, rows) /\ outcomes' = outcomes \cup {Outcome(j)}
      /\ kind = "origin" => rows' = rows
      /\ kind # "origin" => /\ kind \in Kinds /\ rows'[kind] = x
                            /\ \A k \in Kinds \ {kind} : rows'[k] = rows[k]
  BY CommitEffect
<1>2. /\ audits' = IF kind \in Audited THEN audits \cup {Fact(j)} ELSE audits
      /\ events' = IF kind \in Announced THEN events \cup {Fact(j)} ELSE events
      /\ origins' = IF kind = "origin" THEN origins \cup {Origin(j)} ELSE origins
  BY DEF Commit
<1>3. r.operation \in Operations /\ (kind = "origin" <=> r.operation = Remediation)
  BY <1>1, SubjectOf DEF StagedSound
<1>4. /\ Fact(j).kind = kind /\ Outcome(j).kind = kind /\ Fact(j).key = r.key
      /\ Origin(j).key = r.key
      /\ Outcome(j).revision = Fact(j).revision
      /\ kind # "origin" => Fact(j).revision = x.revision
  BY <1>3 DEF Fact, Outcome, Origin
<1>5. Kinds \cap Audited \subseteq Kinds /\ Announced \subseteq Kinds /\ "origin" \notin Kinds
      /\ "origin" \in Audited /\ "origin" \notin Announced
  BY DEF Kinds, Announced, Audited
<1>6. CASE kind = "origin"
  <2>1. Account(outcomes', Kinds, rows')
    BY <1>1, <1>4, <1>5, <1>6, AccountBeside DEF Books
  <2>2. Account(audits', Kinds \cap Audited, rows')
    BY <1>1, <1>2, <1>4, <1>5, <1>6, AccountBeside DEF Books
  <2>3. Account(events', Announced, rows')
    BY <1>1, <1>2, <1>5, <1>6 DEF Books
  <2>4. OriginsAudited(origins', audits')
    BY <1>2, <1>4, <1>5, <1>6 DEF Books, OriginsAudited
  <2> QED BY <2>1, <2>2, <2>3, <2>4 DEF Books
<1>7. CASE kind # "origin"
  <2>1. Follows(rows'[kind], rows[kind])
    <3>1. r.operation \in Creating \cup Changing BY <1>3, <1>7 DEF Operations
    <3> QED BY <1>1, <1>7, <3>1 DEF StagedSound, Follows, IInv, RowsSound
  <2>2. Account(outcomes', Kinds, rows')
    BY <1>1, <1>4, <1>7, <2>1, AccountGrows DEF Books
  <2>3. Account(audits', Kinds \cap Audited, rows')
    <3>1. CASE kind \in Audited
      BY <1>1, <1>2, <1>4, <1>7, <2>1, <3>1, AccountGrows DEF Books
    <3>2. CASE kind \notin Audited
      BY <1>1, <1>2, <1>7, <3>2, AccountApart DEF Books
    <3> QED BY <3>1, <3>2
  <2>4. Account(events', Announced, rows')
    <3>1. CASE kind \in Announced
      BY <1>1, <1>2, <1>4, <1>5, <1>7, <2>1, <3>1, AccountGrows DEF Books
    <3>2. CASE kind \notin Announced
      BY <1>1, <1>2, <1>5, <1>7, <3>2, AccountApart DEF Books
    <3> QED BY <3>1, <3>2
  <2>5. OriginsAudited(origins', audits')
    BY <1>2, <1>7 DEF Books, OriginsAudited
  <2> QED BY <2>2, <2>3, <2>4, <2>5 DEF Books
<1> QED BY <1>6, <1>7

LEMMA BooksNext == ASSUME IInv, Books, [Next]_vars PROVE Books'
<1>1. CASE ~ \E j \in Jobs : Commit(j)
  BY <1>1, OnlyCommit DEF Committed, Books
<1>2. ASSUME NEW j \in Jobs, Commit(j) PROVE Books'
  BY <1>2, BooksCommit
<1> QED BY <1>1, <1>2

LEMMA OnceCounts == ASSUME NEW facts, NEW kind, NEW n, Once(facts, kind, n)
                    PROVE  OnceAt(facts, kind, n)
<1>1. PICK f \in facts : /\ f.kind = kind /\ f.revision = n
                         /\ \A g \in facts : g.kind = kind /\ g.revision = n => g = f
  BY DEF Once
<1>2. {g \in facts : g.kind = kind /\ g.revision = n} = {f} BY <1>1
<1>3. Cardinality({f}) = 1 BY FS_Singleton
<1> QED BY <1>2, <1>3 DEF OnceAt

\* Every revision of every row has exactly one outcome, one audit record and one event, where
\* its kind has them, and nothing speaks of a revision that does not exist: of the requests
\* that change a row one at a time is in its transaction, and the next finds its key or a
\* revision it does not expect.
THEOREM RevisionsAreAccounted == Spec => []RevisionsAccounted
<1>1. Init => Books BY BooksInit
<1>2. IInv /\ Books /\ [Next]_vars => Books' BY BooksNext
<1>3. Books => RevisionsAccounted
  <2> SUFFICES ASSUME Books PROVE RevisionsAccounted OBVIOUS
  <2>1. ASSUME NEW k \in Kinds, Exists(k), NEW n \in 0 .. rows[k].revision
        PROVE  /\ OnceAt(outcomes, k, n)
               /\ k \in Audited => OnceAt(audits, k, n)
               /\ k \in Announced => OnceAt(events, k, n)
    BY <2>1, OnceCounts DEF Books, Account, Exists
  <2>2. ASSUME NEW f \in audits \cup events \cup outcomes, f.kind \in Kinds
        PROVE  Exists(f.kind) /\ f.revision <= rows[f.kind].revision
    BY <2>2 DEF Books, Account, Exists
  <2>3. \A o \in origins : \E f \in audits : f.kind = "origin" /\ f.key = o.key
    BY DEF Books, OriginsAudited
  <2> QED BY <2>1, <2>2, <2>3 DEF RevisionsAccounted
<1> QED BY <1>1, <1>2, <1>3, CommandsExcludeEachOther, PTL DEF Spec
-----------------------------------------------------------------------------
(* The checks at the door. *)

ValidityFields == {"status", "revoked", "expired"}
AuthorityShape(a) ==
    /\ DOMAIN a = {"principal", "tenant", "membership", "grants"}
    /\ DOMAIN a.principal = {"status", "kind"} /\ DOMAIN a.membership = ValidityFields
    /\ "human" \notin DOMAIN a.grants /\ "access" \notin DOMAIN a.grants
    /\ \A c \in DOMAIN a.grants : DOMAIN a.grants[c] = ValidityFields

\* Of a request that is still checked, a check to come fails; of one that is answered, the
\* answer is that of the door.
DoorHeld(withdrawal, p, r, d, status, a) ==
    /\ p = "authorize" => d \in 1 .. Len(Needs(r.operation))
    /\ withdrawal => \/ /\ p = "authorize" /\ r.principal = Teacher
                        /\ \E n \in d .. Len(Needs(r.operation)) :
                               ~ RightsHold(a, Needs(r.operation)[n])
                     \/ p = "answered" /\ status \in DoorStatuses
Doors ==
    /\ AuthorityShape(authority)
    /\ \A j \in Jobs : DoorHeld(late[j], pc[j], request[j], due[j], answer[j], authority)

\* What is needed is a list of at most two.
LEMMA NeedsAre ==
  ASSUME NEW op
  PROVE  /\ Len(Needs(op)) \in 0 .. 2 /\ DOMAIN Needs(op) = 1 .. Len(Needs(op))
         /\ Needs(op) = <<>> <=> Len(Needs(op)) = 0
         /\ \A n \in 1 .. Len(Needs(op)) : Needs(op)[n] # "access"
<1>1. \/ Needs(op) = <<>>
      \/ \E x \in {"assessment.classroom.record", "assessment.classroom.correct",
                   "assessment.classroom.void", "human"} : Needs(op) = <<x>>
      \/ Needs(op) = <<"teaching.work.create", "assessment.classroom.read">>
  BY DEF Needs
<1>2. CASE Needs(op) = <<>> BY <1>2
<1>3. ASSUME NEW x, x # "access", Needs(op) = <<x>>
      PROVE  /\ Len(Needs(op)) \in 0 .. 2 /\ DOMAIN Needs(op) = 1 .. Len(Needs(op))
             /\ Needs(op) # <<>> /\ Len(Needs(op)) # 0
             /\ \A n \in 1 .. Len(Needs(op)) : Needs(op)[n] # "access"
  BY <1>3
<1>4. CASE Needs(op) = <<"teaching.work.create", "assessment.classroom.read">> BY <1>4
<1> QED BY <1>1, <1>2, <1>3, <1>4

\* Withdrawals only ever take away.
LEMMA LessenedHolds ==
  ASSUME NEW a, AuthorityShape(a), NEW b \in Lessened(a)
  PROVE  AuthorityShape(b) /\ \A need : RightsHold(b, need) => RightsHold(a, need)
<1>1. CASE b = [a EXCEPT !.principal.status = "SUSPENDED"]
  <2>1. /\ DOMAIN b = DOMAIN a /\ DOMAIN b.principal = DOMAIN a.principal
        /\ b.principal.status = "SUSPENDED" /\ b.membership = a.membership /\ b.grants = a.grants
    BY <1>1 DEF AuthorityShape
  <2> QED BY <2>1, Zenon DEF AuthorityShape, RightsHold
<1>2. CASE b = [a EXCEPT !.tenant = "CLOSED"]
  <2>1. /\ DOMAIN b = DOMAIN a /\ b.principal = a.principal
        /\ b.tenant = "CLOSED" /\ b.membership = a.membership /\ b.grants = a.grants
    BY <1>2 DEF AuthorityShape
  <2>2. "CLOSED" # "ACTIVE" OBVIOUS
  <2> QED BY <2>1, <2>2, Zenon DEF AuthorityShape, RightsHold
<1>3. CASE b = [a EXCEPT !.membership.expired = TRUE] \/ b = [a EXCEPT !.membership.revoked = TRUE]
  <2>1. /\ DOMAIN b = DOMAIN a /\ DOMAIN b.membership = DOMAIN a.membership
        /\ b.principal = a.principal /\ b.tenant = a.tenant /\ b.grants = a.grants
        /\ b.membership.expired = TRUE \/ b.membership.revoked = TRUE
    BY <1>3 DEF AuthorityShape, ValidityFields
  <2> QED BY <2>1, Zenon DEF AuthorityShape, RightsHold
<1>4. ASSUME NEW c \in DOMAIN a.grants, b = [a EXCEPT !.grants[c].revoked = TRUE]
      PROVE  AuthorityShape(b) /\ \A need : RightsHold(b, need) => RightsHold(a, need)
  <2>1. /\ DOMAIN b = DOMAIN a /\ b.principal = a.principal /\ b.tenant = a.tenant
        /\ b.membership = a.membership /\ DOMAIN b.grants = DOMAIN a.grants
        /\ b.grants[c].revoked = TRUE /\ DOMAIN b.grants[c] = DOMAIN a.grants[c]
        /\ \A d \in DOMAIN a.grants \ {c} : b.grants[d] = a.grants[d]
    BY <1>4 DEF AuthorityShape, ValidityFields
  <2>2. AuthorityShape(b)
    BY <2>1 DEF AuthorityShape
  <2>3. \A need : RightsHold(b, need) => RightsHold(a, need)
    BY <2>1, Zenon DEF RightsHold
  <2> QED BY <2>2, <2>3
<1> QED BY <1>1, <1>2, <1>3, <1>4 DEF Lessened

\* A check that succeeds finds what must hold.
LEMMA GrantedHolds ==
  ASSUME NEW a, AuthorityShape(a), NEW need, Granted(a, need) PROVE RightsHold(a, need)
<1>1. CASE need = "human"
  <2>1. need \notin DOMAIN a.grants BY <1>1 DEF AuthorityShape
  <2>2. a.principal.status = "ACTIVE" BY <1>1, Zenon DEF Granted, HumanPrincipal
  <2> QED BY <1>1, <2>1, <2>2, Zenon DEF RightsHold
<1>2. CASE need # "human"
  <2>1. TenantAccess(a) /\ CurrentlyValid(GrantOf(a, need))
    BY <1>2, Zenon DEF Granted, Capability
  <2>2. need \in DOMAIN a.grants => ~ a.grants[need].revoked
    BY <2>1, Zenon DEF GrantOf, CurrentlyValid
  <2>3. a.principal.status = "ACTIVE" /\ a.tenant = "ACTIVE"
        /\ ~ a.membership.revoked /\ ~ a.membership.expired
    BY <2>1, Zenon DEF TenantAccess, CurrentlyValid
  <2> QED BY <2>2, <2>3, Zenon DEF RightsHold
<1> QED BY <1>1, <1>2

\* The answers at the door say nothing else.
LEMMA PathStatus ==
  ASSUME NEW op, NEW op2, NEW e, NEW a, NEW g, Path(op, e, a, g) # "ok"
  PROVE  StatusOf(op2, Path(op, e, a, g)) \in DoorStatuses
<1> DEFINE code == Path(op, e, a, g)
<1>1. code \in {"invalid_correlation_id", "mutations_not_activated", "invalid_tenant_header",
                "unauthenticated", "authentication_unavailable", "forbidden", "validation_error",
                "idempotency_key_required", "invalid_idempotency_key", "precondition_required",
                "invalid_if_match"}
  BY DEF Path, TrustedContext, Authenticate, ParsedKey, ParsedIfMatch
<1> HIDE DEF code
<1>2. PlatformStatus(code) \in DoorStatuses /\ code # "ok"
  BY <1>1 DEF PlatformStatus, DoorStatuses
<1>3. \A x : Status(x, code) = PlatformStatus(code)
  BY <1>2 DEF Status, InternalError, DoorStatuses
<1>4. StatusOf(op2, code) = PlatformStatus(code)
  BY <1>2, <1>3 DEF StatusOf
<1> USE DEF code
<1> QED BY <1>2, <1>4

LEMMA DenialStatus ==
  ASSUME NEW op, NEW n \in 1 .. Len(Needs(op))
  PROVE  /\ StatusOf(op, Denial(Needs(op)[n])) \in DoorStatuses
         /\ StatusOf(op, "authorization_unavailable") \in DoorStatuses
<1>1. StatusOf(op, "authorization_unavailable") \in DoorStatuses
  BY DEF StatusOf, Status, PlatformStatus, InternalError, DoorStatuses
<1>2. Needs(op)[n] = "human" => StatusOf(op, Denial(Needs(op)[n])) \in DoorStatuses
  BY DEF Denial, StatusOf, Status, PlatformStatus, InternalError, DoorStatuses
<1>3. ASSUME Needs(op)[n] = "teaching.work.create"
      PROVE  StatusOf(op, Denial(Needs(op)[n])) \in DoorStatuses
  <2>1. op = Remediation BY <1>3, NeedsAre DEF Needs, Remediation
  <2>2. Subject(op) # "assessment"
    BY <2>1 DEF Subject, Remediation, AssignmentChanges, ExecutionEnding, ObservationOps,
       AssessmentChanges
  <2> QED BY <1>3, <2>2
          DEF Denial, StatusOf, Status, PlatformStatus, InternalError, DoorStatuses,
                  TeachingStatus
<1>4. Needs(op)[n] \notin {"human", "teaching.work.create"} =>
          StatusOf(op, Denial(Needs(op)[n])) \in DoorStatuses
  BY DEF Denial, StatusOf, Status, PlatformStatus, InternalError, DoorStatuses, AssessmentStatus
<1> QED BY <1>1, <1>2, <1>3, <1>4
-----------------------------------------------------------------------------
(* The doors hold. *)

\* What a step of one request leaves of the others.
Aside(j) == \A i \in Jobs \ {j} : /\ pc'[i] = pc[i] /\ request'[i] = request[i] /\ due'[i] = due[i]
                                  /\ answer'[i] = answer[i] /\ late'[i] = late[i]

LEMMA DoorStep ==
  ASSUME Doors, NEW j \in Jobs, Aside(j), authority' = authority,
         DoorHeld(late'[j], pc'[j], request'[j], due'[j], answer'[j], authority)
  PROVE  Doors'
<1>1. ASSUME NEW i \in Jobs
      PROVE  DoorHeld(late'[i], pc'[i], request'[i], due'[i], answer'[i], authority')
  BY DEF Doors, Aside
<1> QED BY <1>1 DEF Doors

\* A request past the checks is not one whose ground was withdrawn before them.
LEMMA PastDoor ==
  ASSUME Doors, NEW j \in Jobs, Aside(j), authority' = authority, late' = late,
         pc[j] \notin {"authorize", "answered"}, pc'[j] # "authorize"
  PROVE  Doors'
<1>1. DoorHeld(late[j], pc[j], request[j], due[j], answer[j], authority)
  BY DEF Doors
<1>2. DoorHeld(late'[j], pc'[j], request'[j], due'[j], answer'[j], authority)
  BY <1>1 DEF DoorHeld
<1> QED BY <1>2, DoorStep

LEMMA PastAnswered ==
  ASSUME Functions, Doors, NEW j \in Jobs, NEW code, Answered(j, code), authority' = authority,
         late' = late, pc[j] \notin {"authorize", "answered"}
  PROVE  Doors'
<1>1. Aside(j) /\ pc'[j] = "answered" BY AnsweredIs DEF Aside
<1> QED BY <1>1, PastDoor

LEMMA PastMoved ==
  ASSUME Functions, Doors, NEW j \in Jobs, NEW p, pc' = [pc EXCEPT ![j] = p], p # "authorize",
         UNCHANGED <<answer, request, due>>, authority' = authority, late' = late,
         pc[j] \notin {"authorize", "answered"}
  PROVE  Doors'
<1>1. Aside(j) /\ pc'[j] = p BY DEF Aside, Functions
<1> QED BY <1>1, PastDoor

LEMMA DoorsDecide ==
  ASSUME Functions, Doors, NEW j \in Jobs, NEW verdict, NEW row, Decide(j, verdict, row)
  PROVE  Doors'
<1>1. authority' = authority /\ late' = late /\ pc[j] = "work" BY DEF Decide, Uncommitted
<1>2. CASE verdict = "ok"
  <2>1. pc' = [pc EXCEPT ![j] = "staged"] /\ UNCHANGED <<answer, request, due>>
    BY <1>2 DEF Decide
  <2> QED BY <1>1, <2>1, PastMoved
<1>3. CASE verdict # "ok"
  <2>1. Answered(j, verdict) BY <1>3 DEF Decide
  <2> QED BY <1>1, <2>1, PastAnswered
<1> QED BY <1>2, <1>3

LEMMA DoorsMemory ==
  ASSUME Functions, Doors, NEW j \in Jobs, CreateMemory(j) \/ InsertMemory(j)
  PROVE  Doors'
<1>1. authority' = authority /\ late' = late /\ pc[j] \in {"work", "insert"}
  BY DEF CreateMemory, InsertMemory, Uncommitted
<1>2. CASE \E code : Answered(j, code)
  BY <1>1, <1>2, PastAnswered
<1>3. CASE ~ \E code : Answered(j, code)
  <2>1. /\ \E p \in {"insert", "staged"} : pc' = [pc EXCEPT ![j] = p]
        /\ UNCHANGED <<answer, request, due>>
    BY <1>3 DEF CreateMemory, InsertMemory
  <2> QED BY <1>1, <2>1, PastMoved
<1> QED BY <1>2, <1>3

LEMMA DoorsInside ==
  ASSUME Functions, Doors, NEW j \in Jobs, Acquire(j) \/ Work(j) \/ Commit(j) \/ Fail(j)
  PROVE  Doors'
<1>1. CASE Work(j)
  BY <1>1, WorkShape, DoorsDecide, DoorsMemory
<1>2. CASE Commit(j)
  <2>1. Answered(j, "ok") /\ authority' = authority /\ late' = late /\ pc[j] = "staged"
    BY <1>2 DEF Commit
  <2> QED BY <2>1, PastAnswered
<1>3. CASE Fail(j)
  <2>1. /\ \E code : Answered(j, code)
        /\ authority' = authority /\ late' = late /\ pc[j] \in InTransaction
    BY <1>3 DEF Fail, Uncommitted, Running, InTransaction
  <2> QED BY <2>1, PastAnswered DEF InTransaction
<1>4. CASE Acquire(j)
  <2>1. authority' = authority /\ late' = late /\ pc[j] = "scope" BY <1>4 DEF Acquire, Uncommitted
  <2>2. CASE \E code : Answered(j, code) BY <2>1, <2>2, PastAnswered
  <2>3. CASE ~ \E code : Answered(j, code)
    <3>1. pc' = [pc EXCEPT ![j] = "work"] /\ UNCHANGED <<answer, request, due>>
      BY <1>4, <2>3 DEF Acquire
    <3> QED BY <2>1, <3>1, PastMoved
  <2> QED BY <2>2, <2>3
<1> QED BY <1>1, <1>2, <1>3, <1>4

LEMMA DoorsLeave == ASSUME Functions, Doors, NEW j \in Jobs, Leave(j) PROVE Doors'
<1>1. /\ pc' = [pc EXCEPT ![j] = "idle"] /\ answer' = [answer EXCEPT ![j] = 0]
      /\ late' = [late EXCEPT ![j] = FALSE] /\ request' = request /\ due' = due
      /\ authority' = authority
  BY DEF Leave
<1>2. Aside(j) /\ pc'[j] = "idle" /\ late'[j] = FALSE
  BY <1>1 DEF Functions, Aside
<1>3. DoorHeld(late'[j], pc'[j], request'[j], due'[j], answer'[j], authority)
  BY <1>2 DEF DoorHeld
<1> QED BY <1>1, <1>2, <1>3, DoorStep

LEMMA DoorsTurnAway == ASSUME Functions, Doors, NEW j \in Jobs, TurnAway(j) PROVE Doors'
<1>1. PICK op \in desk.operations, e \in Envelopes :
         /\ Path(op, e, authority, gate) # "ok"
         /\ Answered(j, Path(op, e, authority, gate))
         /\ late' = [late EXCEPT ![j] = ~ EntitledTo(authority, op)]
  BY DEF TurnAway
<1>2. authority' = authority BY DEF TurnAway
<1>3. Aside(j) BY <1>1, AnsweredIs DEF Aside, Functions
<1>4. pc'[j] = "answered"
    /\ answer'[j] = StatusOf(request[j].operation, Path(op, e, authority, gate))
  BY <1>1, AnsweredIs
<1>5. answer'[j] \in DoorStatuses
  BY <1>1, <1>4, PathStatus
<1>6. DoorHeld(late'[j], pc'[j], request'[j], due'[j], answer'[j], authority)
  BY <1>4, <1>5 DEF DoorHeld
<1> QED BY <1>2, <1>3, <1>6, DoorStep

LEMMA DoorsAsk == ASSUME Functions, Doors, NEW j \in Jobs, Ask(j) PROVE Doors'
<1>1. PICK op \in desk.operations, p \in {Teacher, Stranger}, k \in Keys, e \in Envelopes :
         /\ op \in Creating \ {"teacher_os_memory_create"} => k = CreationKey /\ p = Teacher
         /\ p = Stranger => op \in Conditional /\ k = CreationKey
         /\ Path(op, e, AuthorityOf(p), gate) = "ok"
         /\ \E i \in Inputs(op), n \in Expected(op) :
               request' = [request EXCEPT ![j] =
                   [operation |-> op, principal |-> p, key |-> k, input |-> i, expected |-> n]]
         /\ pc' = [pc EXCEPT ![j] = IF Needs(op) = <<>> THEN "scope" ELSE "authorize"]
         /\ late' = [late EXCEPT ![j] = p = Teacher /\ ~ EntitledTo(authority, op)]
  BY Zenon DEF Ask
<1>2. PICK i \in Inputs(op), n \in Expected(op) :
         request' = [request EXCEPT ![j] =
             [operation |-> op, principal |-> p, key |-> k, input |-> i, expected |-> n]]
  BY <1>1
<1>3. /\ answer' = answer /\ due' = [due EXCEPT ![j] = 1] /\ authority' = authority
  BY DEF Ask
<1>4. /\ Aside(j) /\ due'[j] = 1
      /\ request'[j] = [operation |-> op, principal |-> p, key |-> k, input |-> i, expected |-> n]
      /\ pc'[j] = (IF Needs(op) = <<>> THEN "scope" ELSE "authorize")
  BY <1>1, <1>2, <1>3 DEF Functions, Aside
<1>5. late'[j] => p = Teacher /\ ~ EntitledTo(authority, op)
  BY <1>1, Zenon DEF Functions
<1>6. p = Teacher => RightsHold(authority, "access")
  <2> SUFFICES ASSUME p = Teacher PROVE RightsHold(authority, "access") OBVIOUS
  <2>1. TrustedContext(e, authority) = "ok" BY <1>1, Zenon DEF Path, AuthorityOf
  <2>2. TenantAccess(authority)
    BY <2>1 DEF TrustedContext
  <2>3. "access" \notin DOMAIN authority.grants BY DEF Doors, AuthorityShape
  <2> QED BY <2>2, <2>3, Zenon DEF TenantAccess, CurrentlyValid, RightsHold
<1>7. late'[j] => \E x \in 1 .. Len(Needs(op)) : ~ RightsHold(authority, Needs(op)[x])
  <2>1. late'[j] => \E need \in NeedsOf(op) : ~ RightsHold(authority, need)
    BY <1>5, <1>6, Zenon DEF EntitledTo
  <2>2. NeedsOf(op) = {Needs(op)[x] : x \in 1 .. Len(Needs(op))} BY NeedsAre DEF NeedsOf
  <2> QED BY <2>1, <2>2
<1>8. pc'[j] = "authorize" => Len(Needs(op)) \in 1 .. 2
  BY <1>4, NeedsAre
<1>9. late'[j] => pc'[j] = "authorize"
  BY <1>4, <1>7, NeedsAre
<1>10. DoorHeld(late'[j], pc'[j], request'[j], due'[j], answer'[j], authority)
  <2>1. request'[j].operation = op /\ request'[j].principal = p BY <1>4
  <2>2. pc'[j] = "authorize" => due'[j] \in 1 .. Len(Needs(op)) BY <1>4, <1>8
  <2>3. late'[j] => /\ pc'[j] = "authorize" /\ request'[j].principal = Teacher
                    /\ \E x \in due'[j] .. Len(Needs(op)) : ~ RightsHold(authority, Needs(op)[x])
    BY <1>4, <1>5, <1>7, <1>9, <2>1, Zenon
  <2> QED BY <2>1, <2>2, <2>3, Zenon DEF DoorHeld
<1> QED BY <1>3, <1>4, <1>10, DoorStep
LEMMA DoorsAuthorize == ASSUME Functions, Doors, NEW j \in Jobs, Authorize(j) PROVE Doors'
<1> DEFINE r == request[j]
           needs == Needs(r.operation)
           holds == Granted(AuthorityOf(r.principal), needs[due[j]])
<1>1. /\ pc[j] = "authorize" /\ late' = late /\ authority' = authority
      /\ \/ Answered(j, "authorization_unavailable")
         \/ ~ holds /\ Answered(j, Denial(needs[due[j]]))
         \/ /\ holds /\ due' = [due EXCEPT ![j] = due[j] + 1]
            /\ pc' = [pc EXCEPT ![j] = IF due[j] = Len(needs) THEN "scope" ELSE "authorize"]
            /\ UNCHANGED <<answer, request>>
  BY Zenon DEF Authorize
<1>2. DoorHeld(late[j], pc[j], r, due[j], answer[j], authority) BY DEF Doors
<1>3. due[j] \in 1 .. Len(needs) /\ Len(needs) \in Nat
  BY <1>1, <1>2, NeedsAre DEF DoorHeld
<1>4. ASSUME NEW code \in {"authorization_unavailable", Denial(needs[due[j]])}, Answered(j, code)
      PROVE  Doors'
  <2>1. Aside(j) /\ pc'[j] = "answered" /\ answer'[j] = StatusOf(r.operation, code)
    BY <1>1, <1>4, AnsweredIs DEF Aside
  <2>2. StatusOf(r.operation, code) \in DoorStatuses
    BY <1>3, <1>4, DenialStatus
  <2>3. DoorHeld(late'[j], pc'[j], request'[j], due'[j], answer'[j], authority)
    BY <2>1, <2>2 DEF DoorHeld
  <2> QED BY <1>1, <2>1, <2>3, DoorStep
<1>5. ASSUME holds, due' = [due EXCEPT ![j] = due[j] + 1], UNCHANGED <<answer, request>>,
             pc' = [pc EXCEPT ![j] = IF due[j] = Len(needs) THEN "scope" ELSE "authorize"]
      PROVE  Doors'
  <2>1. /\ Aside(j) /\ due'[j] = due[j] + 1 /\ request'[j] = r
        /\ pc'[j] = (IF due[j] = Len(needs) THEN "scope" ELSE "authorize")
    <3> HIDE DEF needs
    <3> QED BY <1>1, <1>5 DEF Functions, Aside
  <2>2. late[j] => \E n \in due[j] + 1 .. Len(needs) : ~ RightsHold(authority, needs[n])
    <3> SUFFICES ASSUME late[j]
        PROVE \E n \in due[j] + 1 .. Len(needs) : ~ RightsHold(authority, needs[n])
      OBVIOUS
    <3>1. /\ r.principal = Teacher
          /\ \E n \in due[j] .. Len(needs) : ~ RightsHold(authority, needs[n])
      BY <1>1, <1>2 DEF DoorHeld
    <3>2. RightsHold(authority, needs[due[j]])
      BY <1>5, <3>1, GrantedHolds DEF AuthorityOf, Doors
    <3> HIDE DEF needs
    <3> QED BY <1>3, <3>1, <3>2
  <2>3. late[j] => r.principal = Teacher BY <1>1, <1>2 DEF DoorHeld
  <2>4. DoorHeld(late'[j], pc'[j], request'[j], due'[j], answer'[j], authority)
    BY <1>1, <1>3, <2>1, <2>2, <2>3 DEF DoorHeld
  <2> QED BY <1>1, <2>1, <2>4, DoorStep
<1> QED BY <1>1, <1>4, <1>5

LEMMA DoorsWithdraw == ASSUME Functions, Doors, Withdraw PROVE Doors'
<1>1. /\ authority' \in Lessened(authority)
      /\ UNCHANGED <<pc, request, due, answer>>
      /\ late' = [j \in Jobs |->
                     late[j] \/ /\ pc[j] = "authorize" /\ request[j].principal = Teacher
                                /\ ~ RightsHold(authority',
                                        Needs(request[j].operation)[Len(Needs(request[j].operation))])]
  BY DEF Withdraw
<1>2. AuthorityShape(authority')
    /\ \A need : RightsHold(authority', need) => RightsHold(authority, need)
  BY <1>1, LessenedHolds DEF Doors
<1>3. ASSUME NEW j \in Jobs
      PROVE  DoorHeld(late'[j], pc'[j], request'[j], due'[j], answer'[j], authority')
  <2> DEFINE needs == Needs(request[j].operation)
  <2>1. DoorHeld(late[j], pc[j], request[j], due[j], answer[j], authority) BY DEF Doors
  <2>2. late'[j] => late[j] \/ /\ pc[j] = "authorize" /\ request[j].principal = Teacher
                               /\ ~ RightsHold(authority', needs[Len(needs)])
    BY <1>1, Zenon
  <2>3. pc[j] = "authorize" => due[j] \in 1 .. Len(needs) BY <2>1 DEF DoorHeld
  <2>4. Len(needs) \in Nat BY NeedsAre
  <2>5. late[j] => \/ /\ pc[j] = "authorize" /\ request[j].principal = Teacher
                      /\ \E n \in due[j] .. Len(needs) : ~ RightsHold(authority', needs[n])
                   \/ pc[j] = "answered" /\ answer[j] \in DoorStatuses
    BY <1>2, <2>1, Zenon DEF DoorHeld
  <2>6. pc[j] = "authorize" => Len(needs) \in due[j] .. Len(needs)
    <3> HIDE DEF needs
    <3> QED BY <2>3, <2>4
  <2> QED BY <1>1, <2>2, <2>3, <2>5, <2>6, Zenon DEF DoorHeld
<1> QED BY <1>2, <1>3 DEF Doors

LEMMA DoorsInit == ASSUME Init PROVE Doors
<1>1. AuthorityShape(Intact)
  BY DEF AuthorityShape, Intact, ValidityFields
<1>2. /\ authority = Intact /\ pc = [j \in Jobs |-> "idle"] /\ late = [j \in Jobs |-> FALSE]
  BY DEF Init
<1> QED BY <1>1, <1>2 DEF Doors, DoorHeld

LEMMA DoorsNext == ASSUME Functions, Doors, [Next]_vars PROVE Doors'
<1>1. CASE Next
  BY <1>1, DoorsWithdraw, DoorsTurnAway, DoorsAsk, DoorsAuthorize, DoorsInside, DoorsLeave
     DEF Next
<1>2. CASE UNCHANGED vars
  BY <1>2 DEF vars, Doors
<1> QED BY <1>1, <1>2

\* A request whose ground was withdrawn before it was checked is turned away, and what it is
\* answered tells nothing of what it asked for: of what is needed, one piece is gone that is
\* still to be checked, and what is gone does not come back.
THEOREM WithdrawnAreTurnedAway == Spec => []OnlyEntitled
<1>1. Init => Doors BY DoorsInit
<1>2. IInv /\ Doors /\ [Next]_vars => Doors' BY DoorsNext DEF IInv
<1>3. Doors => OnlyEntitled
  BY Zenon DEF Doors, DoorHeld, OnlyEntitled
<1> QED BY <1>1, <1>2, <1>3, CommandsExcludeEachOther, PTL DEF Spec
=============================================================================

------------------------------- MODULE Classroom -------------------------------
(***************************************************************************)
(* The commands of a teacher: works, assignments, teaching executions and  *)
(* their observations, classroom assessments, the remediation works made   *)
(* from them, and the teacher memory.  A request passes RequestPath, then  *)
(* the checks of its capabilities, each in a transaction of its own, and   *)
(* then runs in one READ COMMITTED transaction: it waits for its           *)
(* idempotency scope, looks the key up, selects the rows it changes FOR    *)
(* UPDATE, checks them, and commits the row with its event, its audit      *)
(* record and its outcome.  What else it reads, it reads without a lock.   *)
(*                                                                         *)
(* One row of each kind, that of one teacher; a second teacher may only    *)
(* try to change them.  The school's answer about the class, the state of  *)
(* Content and the validity of a payload are free choices.                 *)
(***************************************************************************)
EXTENDS RequestPath, ApiProblems, AuditLedger, FiniteSets

CONSTANTS
    Jobs,           \* requests in progress at one time
    Teacher, Stranger, Nobody,
    Keys,           \* idempotency keys of the clients
    CreationKey,    \* bound: the key of every request that creates a row of one kind
    WorkOwner,      \* the works that exist beforehand, and whose they are
    Levels,         \* result levels of a class
    Desks,          \* bound: the operations, requests and withdrawals of one behaviour
    Environments,   \* activation settings a process may run with
    Release,        \* what the running release is
    Envelopes       \* headers, token and form of a request

VARIABLES
    rows,       \* committed row of each kind
    origins,    \* committed remediation works, each with its origin
    audits,     \* committed audit records
    events,     \* committed outbox rows
    outcomes,   \* committed idempotency outcomes
    authority,  \* principal, tenant, membership and grants of the teacher
    gate,       \* activation status of the process
    desk,       \* the bound this behaviour runs under
    asked, withdrawn,
    pc, request, due, staged, answer,
    late        \* history: what the request rests on was withdrawn before it was checked

vars == <<rows, origins, audits, events, outcomes, authority, gate, desk, asked, withdrawn,
          pc, request, due, staged, answer, late>>

Kinds == {"work", "assignment", "execution", "observation", "assessment", "memory"}
Remediation == "teaching_work_from_classroom_assessment_create"
ExecutionEnding == {"teaching_execution_complete", "teaching_execution_cancel"}
ObservationOps == {"teaching_execution_observation_create", "teaching_execution_observation_correct"}
AssignmentChanges ==
    {"teaching_assignment_due_update", "teaching_assignment_close", "teaching_assignment_cancel"}
AssessmentChanges == {"assessment_classroom_correct", "assessment_classroom_void"}
Creating ==
    {"teaching_work_create", "teaching_assignment_create", "teaching_execution_start",
     "teaching_execution_observation_create", "assessment_classroom_record", "teacher_os_memory_create"}

\* The kind of row an operation writes.
Subject(op) ==
    IF op \in {"teaching_work_create", "teaching_work_refine"} THEN "work"
    ELSE IF op \in AssignmentChanges \cup {"teaching_assignment_create"} THEN "assignment"
    ELSE IF op \in ExecutionEnding \cup {"teaching_execution_start"} THEN "execution"
    ELSE IF op \in ObservationOps THEN "observation"
    ELSE IF op \in AssessmentChanges \cup {"assessment_classroom_record"} THEN "assessment"
    ELSE IF op = Remediation THEN "origin"
    ELSE "memory"

\* Mutant: the observations look at their execution without locking it.
LocksOwnRow(op) ==
    IF op = Remediation THEN {"assessment"}
    ELSE IF op \in Creating \cup ObservationOps THEN {}
    ELSE {Subject(op)}
\* Mutant: a remediation reads its assessment without locking it.
LocksOwnDomain(op) ==
    IF op \in ObservationOps THEN {"execution"}
    ELSE IF op \in Creating \cup {Remediation} THEN {}
    ELSE {Subject(op)}
\* The rows selected FOR UPDATE, and so kept from others until the commit.
Locks(op) ==
    IF op \in ObservationOps THEN {"execution"}
    ELSE IF op = Remediation THEN {"assessment"}
    ELSE IF op \in Creating THEN {}
    ELSE {Subject(op)}

NoRow == [state |-> "NONE", revision |-> 0, owner |-> Nobody, work |-> "none", execution |-> FALSE,
          assignment |-> FALSE, bound |-> FALSE, level |-> "none"]
NoInput == [work |-> "none", execution |-> FALSE, assignment |-> FALSE, bound |-> FALSE, level |-> "none"]
NoRequest == [operation |-> "none", principal |-> Nobody, key |-> "none", input |-> NoInput, expected |-> 0]

WorkRefs == DOMAIN WorkOwner \cup {"none"}
Exists(kind) == rows[kind].state # "NONE"

-----------------------------------------------------------------------------
(* Authority. *)

Intact ==
    [principal |-> [status |-> "ACTIVE", kind |-> "HUMAN"],
     tenant |-> "ACTIVE",
     membership |-> [status |-> "ACTIVE", revoked |-> FALSE, expired |-> FALSE],
     grants |-> [c \in {"assessment.classroom.record", "assessment.classroom.correct",
                        "assessment.classroom.void", "teaching.work.create", "assessment.classroom.read"}
                 |-> [status |-> "ACTIVE", revoked |-> FALSE, expired |-> FALSE]]]

\* Bound: only the first teacher ever loses anything.
AuthorityOf(principal) == IF principal = Teacher THEN authority ELSE Intact

NeedsOf(op) == {Needs(op)[n] : n \in DOMAIN Needs(op)}
\* What one withdrawal, or the passage of time, may take.
\* Bound: of the grants, those some operation asked for needs.
Lessened(a) ==
    {[a EXCEPT !.principal.status = "SUSPENDED"], [a EXCEPT !.tenant = "CLOSED"],
     [a EXCEPT !.membership.expired = TRUE], [a EXCEPT !.membership.revoked = TRUE]}
    \cup {[a EXCEPT !.grants[c].revoked = TRUE] : c \in DOMAIN a.grants \cap UNION {NeedsOf(op) : op \in desk.operations}}

\* What must hold for a check to succeed, said without the operators that check it.
RightsHold(a, need) ==
    /\ a.principal.status = "ACTIVE"
    /\ need # "human" => /\ a.tenant = "ACTIVE"
                         /\ ~ a.membership.revoked /\ ~ a.membership.expired
    /\ need \in DOMAIN a.grants => ~ a.grants[need].revoked
EntitledTo(a, op) ==
    /\ RightsHold(a, "access")
    /\ \A need \in NeedsOf(op) : RightsHold(a, need)

Withdraw ==
    /\ withdrawn < desk.withdrawals
    /\ withdrawn' = withdrawn + 1
    /\ authority' \in Lessened(authority)
    /\ late' = [j \in Jobs |->
                   late[j] \/ /\ pc[j] = "authorize" /\ request[j].principal = Teacher
                              /\ ~ RightsHold(authority', Needs(request[j].operation)[Len(Needs(request[j].operation))])]
    /\ UNCHANGED <<rows, origins, audits, events, outcomes, gate, desk, asked, pc, request, due, staged, answer>>

-----------------------------------------------------------------------------
(* A request arrives, is checked, and is answered. *)

\* Bound: a request names a row of a kind only where some request creates one.
MayName(creation) == IF creation \in desk.operations THEN BOOLEAN ELSE {FALSE}
Inputs(op) ==
    IF op = "teaching_assignment_create"
    THEN {[NoInput EXCEPT !.work = w, !.bound = b] : w \in WorkRefs, b \in BOOLEAN}
    ELSE IF op = "teaching_execution_start"
    THEN {[NoInput EXCEPT !.work = w, !.bound = b] : w \in DOMAIN WorkOwner, b \in BOOLEAN}
    ELSE IF op = "assessment_classroom_record"
    THEN {[NoInput EXCEPT !.work = w, !.execution = x, !.assignment = s, !.level = v] :
             w \in WorkRefs, x \in MayName("teaching_execution_start"),
             s \in MayName("teaching_assignment_create"), v \in Levels}
    ELSE IF op = "assessment_classroom_correct" THEN {[NoInput EXCEPT !.level = v] : v \in Levels}
    ELSE {NoInput}

\* The row whose revision the client names: by If-Match, or in the body for a remediation.
Named(op) == IF op = Remediation THEN "assessment" ELSE Subject(op)
\* Bound: the revision the client has read is the current one or the one before.
Expected(op) ==
    IF op \in Conditional \cup {Remediation}
    THEN {n \in {rows[Named(op)].revision, rows[Named(op)].revision - 1} : n >= 0}
    ELSE {0}

\* The handler of the domain whose error it is gives the status.
StatusOf(op, code) ==
    IF code = "ok" THEN 200
    ELSE Status(IF Subject(op) = "assessment" \/ code = "assessment_capability_forbidden"
                THEN "assessment" ELSE "teaching", code)

\* The answer is given, and nothing but it and the operation is kept of the request.
Answered(j, code) ==
    /\ pc' = [pc EXCEPT ![j] = "answered"]
    /\ answer' = [answer EXCEPT ![j] = StatusOf(request[j].operation, code)]
    /\ staged' = [staged EXCEPT ![j] = NoRow]
    /\ request' = [request EXCEPT ![j] = NoRequest]
    /\ due' = [due EXCEPT ![j] = 0]

\* A request is turned away before any command sees it.
\* Bound: nothing else is going on, and it does not count.
TurnAway(j) ==
    /\ \A i \in Jobs : pc[i] = "idle"
    /\ \E op \in desk.operations, e \in Envelopes :
          /\ Path(op, e, authority, gate) # "ok"
          /\ Answered(j, Path(op, e, authority, gate))
          /\ late' = [late EXCEPT ![j] = ~ EntitledTo(authority, op)]
    /\ UNCHANGED <<rows, origins, audits, events, outcomes, authority, gate, desk, asked, withdrawn>>

Ask(j) ==
    /\ pc[j] = "idle" /\ asked < desk.requests
    /\ asked' = asked + 1
    /\ \E op \in desk.operations, p \in {Teacher, Stranger}, k \in Keys, e \in Envelopes :
          /\ op \in Creating \ {"teacher_os_memory_create"} => k = CreationKey /\ p = Teacher
          /\ p = Stranger => op \in Conditional /\ k = CreationKey
          /\ Path(op, e, AuthorityOf(p), gate) = "ok"
          /\ \E i \in Inputs(op), n \in Expected(op) :
                request' = [request EXCEPT ![j] =
                    [operation |-> op, principal |-> p, key |-> k, input |-> i, expected |-> n]]
          /\ pc' = [pc EXCEPT ![j] = IF Needs(op) = <<>> THEN "scope" ELSE "authorize"]
          /\ late' = [late EXCEPT ![j] = p = Teacher /\ ~ EntitledTo(authority, op)]
    /\ due' = [due EXCEPT ![j] = 1]
    /\ UNCHANGED <<rows, origins, audits, events, outcomes, authority, gate, desk, withdrawn, staged, answer>>

\* One capability, or the class of the principal, in a transaction of its own.
Authorize(j) ==
    LET needs == Needs(request[j].operation)
        holds == Granted(AuthorityOf(request[j].principal), needs[due[j]])
    IN
    /\ pc[j] = "authorize"
    /\ \/ Answered(j, "authorization_unavailable")
       \/ ~ holds /\ Answered(j, Denial(needs[due[j]]))
       \/ /\ holds
          /\ due' = [due EXCEPT ![j] = due[j] + 1]
          /\ pc' = [pc EXCEPT ![j] = IF due[j] = Len(needs) THEN "scope" ELSE "authorize"]
          /\ UNCHANGED <<staged, answer, request>>
    /\ UNCHANGED <<rows, origins, audits, events, outcomes, authority, gate, desk, asked, withdrawn, late>>

Leave(j) ==
    /\ pc[j] = "answered"
    /\ pc' = [pc EXCEPT ![j] = "idle"]
    /\ answer' = [answer EXCEPT ![j] = 0]
    /\ late' = [late EXCEPT ![j] = FALSE]
    /\ UNCHANGED <<rows, origins, audits, events, outcomes, authority, gate, desk, asked, withdrawn,
                   request, due, staged>>

-----------------------------------------------------------------------------
(* The transaction of a command. *)

\* What a step of the transaction leaves alone before its commit.
Uncommitted == <<rows, origins, audits, events, outcomes, authority, gate, desk, asked, withdrawn, late>>
Running(j) == pc[j] \in {"work", "insert", "staged"}
SameScope(r, s) == r.operation = s.operation /\ r.principal = s.principal /\ r.key = s.key
Established(r) == {o \in outcomes : SameScope(o, r)}
Matches(o, r) == o.input = r.input /\ o.expected = r.expected

SchoolRefusals == {"class_ref_not_assignable", "school_context_unavailable"}
\* A replay of these asks the school again; the owner is the principal of the scope.
ReplayAsksSchool == {"assessment_classroom_record", Remediation} \cup AssessmentChanges

\* Waits for the scope, then looks the key up.
Acquire(j) ==
    /\ pc[j] = "scope"
    /\ \A i \in Jobs : Running(i) => ~ SameScope(request[i], request[j])
    /\ IF Established(request[j]) = {}
       THEN pc' = [pc EXCEPT ![j] = "work"] /\ UNCHANGED <<staged, answer, request, due>>
       ELSE \/ /\ \A o \in Established(request[j]) : Matches(o, request[j])
               /\ Answered(j, "ok")
            \/ /\ \A o \in Established(request[j]) : Matches(o, request[j])
               /\ request[j].operation \in ReplayAsksSchool
               /\ \E code \in SchoolRefusals : Answered(j, code)
            \/ /\ \E o \in Established(request[j]) : ~ Matches(o, request[j])
               /\ Answered(j, "idempotency_key_reused")
    /\ UNCHANGED Uncommitted

\* The first failing check in the order of the code, or "ok".
First(checks) ==
    LET failing == {n \in DOMAIN checks : ~ checks[n][1]}
    IN IF failing = {} THEN "ok"
       ELSE checks[CHOOSE n \in failing : \A k \in failing : n <= k][2]

LockFree(j) ==
    \A i \in Jobs \ {j} :
        pc[i] = "staged" => Locks(request[i].operation) \cap Locks(request[j].operation) = {}

\* Decides a command: its row is written, not yet committed, or it is refused.
Decide(j, verdict, row) ==
    /\ pc[j] = "work" /\ LockFree(j)
    /\ IF verdict = "ok"
       THEN /\ staged' = [staged EXCEPT ![j] = row]
            /\ pc' = [pc EXCEPT ![j] = "staged"]
            /\ UNCHANGED <<answer, request, due>>
       ELSE Answered(j, verdict)
    /\ UNCHANGED Uncommitted

\* A new row of the kind the request creates, of its principal.
Made(r, state) ==
    [state |-> state, revision |-> 0, owner |-> r.principal, work |-> r.input.work,
     execution |-> r.input.execution, assignment |-> r.input.assignment, bound |-> r.input.bound,
     level |-> r.input.level]
\* Mutant: a change that forgets to count the revision.
MovedSilently(kind, state) == [rows[kind] EXCEPT !.state = state]
Moved(kind, state) == [rows[kind] EXCEPT !.state = state, !.revision = @ + 1]

NewWork(r) == Made(r, "READY")
NewAssignment(r) == Made(r, "ACTIVE")
StartedExecution(r) == Made(r, "IN_PROGRESS")
NewObservation(r) == Made(r, "NOTED")
NewAssessment(r) == Made(r, "RECORDED")
NewMemory(r) == Made(r, "KEPT")

SchoolAnswers == {"ok"} \cup SchoolRefusals
PayloadAnswers(code) == {"ok", code}
\* What Content, its head row locked meanwhile, says of the version a request names.
ContentForAssignment ==
    {"ok", "content_not_found", "content_version_mismatch", "content_not_eligible_for_assignment"}
ContentForExecution ==
    {"ok", "content_not_found", "content_version_mismatch", "execution_content_binding_rejected"}
ContentForAssessment ==
    {"ok", "content_not_found_for_assessment", "content_version_mismatch", "content_not_eligible_for_assessment"}

-----------------------------------------------------------------------------
(* Works and assignments. *)

CreateWork(j) ==
    /\ request[j].operation = "teaching_work_create"
    /\ \E payload \in PayloadAnswers("invalid_teaching_work_request") :
          Decide(j, payload, NewWork(request[j]))

RefineWork(j) ==
    LET r == request[j] IN
    /\ r.operation = "teaching_work_refine"
    /\ \E payload \in PayloadAnswers("invalid_teaching_work_request") :
          Decide(j, First(<< <<Exists("work"), "teaching_work_not_found">>,
                             <<rows["work"].owner = r.principal, "forbidden">>,
                             <<rows["work"].revision = r.expected, "resource_revision_conflict">>,
                             <<payload = "ok", payload>> >>),
                 Moved("work", "READY"))

CreateAssignment(j) ==
    LET r == request[j] IN
    /\ r.operation = "teaching_assignment_create"
    /\ \E class \in SchoolAnswers,
          content \in ContentForAssignment,
          payload \in PayloadAnswers("invalid_teaching_assignment_request") :
          Decide(j, First(<< <<class = "ok", class>>,
                             <<content = "ok", content>>,
                             <<r.input.work = "none" \/ WorkOwner[r.input.work] # Nobody, "source_work_not_found">>,
                             <<r.input.work = "none" \/ WorkOwner[r.input.work] = r.principal, "source_work_forbidden">>,
                             <<payload = "ok", payload>> >>),
                 NewAssignment(r))

\* What the due date, close and cancel have in common; none of them asks the school.
MutateActive(j, sound, state) ==
    LET r == request[j]
        row == rows["assignment"] IN
    Decide(j, First(<< <<Exists("assignment"), "teaching_assignment_not_found">>,
                       <<row.owner = r.principal, "teaching_assignment_forbidden">>,
                       <<row.revision = r.expected, "resource_revision_conflict">>,
                       <<row.state = "ACTIVE" /\ sound, "teaching_assignment_not_active">> >>),
           Moved("assignment", state))

\* A due date without a time zone is refused as if the row were not ACTIVE.
UpdateDue(j) ==
    /\ request[j].operation = "teaching_assignment_due_update"
    /\ \E zoned \in BOOLEAN : MutateActive(j, zoned, "ACTIVE")
CloseAssignment(j) ==
    /\ request[j].operation = "teaching_assignment_close"
    /\ MutateActive(j, TRUE, "CLOSED")
CancelAssignment(j) ==
    /\ request[j].operation = "teaching_assignment_cancel"
    /\ MutateActive(j, TRUE, "CANCELLED")

-----------------------------------------------------------------------------
(* Teaching executions and their observations. *)

\* The artifacts of the work are read on connections of their own.
StartExecution(j) ==
    LET r == request[j] IN
    /\ r.operation = "teaching_execution_start"
    /\ \E class \in SchoolAnswers,
          content \in IF r.input.bound THEN ContentForExecution \cup {"generation_service_unavailable"} ELSE {"ok"},
          payload \in PayloadAnswers("invalid_teaching_execution_request") :
          Decide(j, First(<< <<class = "ok", class>>,
                             <<WorkOwner[r.input.work] # Nobody, "teaching_work_not_found">>,
                             <<WorkOwner[r.input.work] = r.principal, "forbidden">>,
                             <<content = "ok", content>>,
                             <<payload = "ok", payload>> >>),
                 StartedExecution(r))

\* What completing and cancelling have in common.
MutateInProgress(j, state) ==
    LET r == request[j]
        row == rows["execution"] IN
    \E class \in SchoolAnswers :
        Decide(j, First(<< <<Exists("execution"), "teaching_execution_not_found">>,
                           <<row.owner = r.principal, "teaching_execution_forbidden">>,
                           <<class = "ok", class>>,
                           <<row.revision = r.expected, "resource_revision_conflict">>,
                           <<row.state = "IN_PROGRESS", "teaching_execution_not_in_progress">> >>),
               Moved("execution", state))
CompleteExecution(j) ==
    request[j].operation = "teaching_execution_complete" /\ MutateInProgress(j, "COMPLETED")
CancelExecution(j) ==
    request[j].operation = "teaching_execution_cancel" /\ MutateInProgress(j, "CANCELLED")

CreateObservation(j) ==
    LET r == request[j] IN
    /\ r.operation = "teaching_execution_observation_create"
    /\ \E class \in SchoolAnswers,
          payload \in {"ok", "unsupported_observation_kind", "invalid_teaching_execution_request"} :
          Decide(j, First(<< <<Exists("execution"), "teaching_execution_not_found">>,
                             <<rows["execution"].owner = r.principal, "teaching_execution_forbidden">>,
                             <<class = "ok", class>>,
                             <<rows["execution"].state = "IN_PROGRESS", "teaching_execution_not_in_progress">>,
                             <<payload = "ok", payload>> >>),
                 NewObservation(r))

CorrectObservation(j) ==
    LET r == request[j] IN
    /\ r.operation = "teaching_execution_observation_correct"
    /\ \E class \in SchoolAnswers, payload \in PayloadAnswers("invalid_teaching_execution_request") :
          Decide(j, First(<< <<Exists("execution"), "teaching_execution_not_found">>,
                             <<rows["execution"].owner = r.principal, "teaching_execution_forbidden">>,
                             <<class = "ok", class>>,
                             <<Exists("observation"), "teaching_execution_observation_not_found">>,
                             <<rows["observation"].revision = r.expected,
                               "teaching_execution_observation_revision_conflict">>,
                             <<rows["execution"].state = "IN_PROGRESS", "teaching_execution_not_in_progress">>,
                             <<payload = "ok", payload>> >>),
                 Moved("observation", "NOTED"))

-----------------------------------------------------------------------------
(* Classroom assessments and the remediation made from them. *)

\* Mutant: any execution will do, taught or not.
CompletedOrNotOf(r) ==
    << <<Exists("execution") /\ rows["execution"].owner = r.principal, "teaching_execution_not_found">>,
       <<r.input.work # "none" => rows["execution"].work = r.input.work, "teaching_execution_binding_mismatch">>,
       <<rows["execution"].bound, "teaching_execution_binding_mismatch">> >>
\* Case A: the execution the assessment is about, read without a lock.
CompletedExecution(r) ==
    << <<Exists("execution") /\ rows["execution"].owner = r.principal, "teaching_execution_not_found">>,
       <<rows["execution"].state = "COMPLETED", "teaching_execution_not_completed">>,
       <<r.input.work # "none" => rows["execution"].work = r.input.work, "teaching_execution_binding_mismatch">>,
       <<rows["execution"].bound, "teaching_execution_binding_mismatch">> >>

\* Case B: the assignment it is about, in whatever state.
ClassAssignment(r) ==
    << <<Exists("assignment") /\ rows["assignment"].owner = r.principal, "teaching_assignment_not_found">>,
       <<rows["assignment"].bound, "teaching_assignment_composition_mismatch">>,
       <<r.input.work = "none" \/ rows["assignment"].work \in {"none", r.input.work},
         "teaching_assignment_composition_mismatch">> >>

OwnedWork(r) ==
    r.input.work # "none" /\ ~ r.input.execution => WorkOwner[r.input.work] = r.principal

\* What the request says of the works must agree; content stands for case C.
Composition(r, content) ==
    LET a == IF r.input.execution THEN First(CompletedExecution(r)) ELSE "ok"
        b == IF r.input.assignment THEN First(ClassAssignment(r)) ELSE "ok"
    IN First(<< <<a = "ok", a>>,
                <<b = "ok", b>>,
                <<r.input.execution /\ r.input.assignment =>
                      rows["assignment"].work \in {"none", rows["execution"].work},
                  "assessment_composition_conflict">>,
                <<r.input.execution \/ r.input.assignment \/ content = "ok", content>>,
                <<OwnedWork(r), "teaching_work_not_found">> >>)

RecordAssessment(j) ==
    LET r == request[j] IN
    /\ r.operation = "assessment_classroom_record"
    /\ \E class \in SchoolAnswers,
          content \in ContentForAssessment,
          payload \in PayloadAnswers("invalid_classroom_assessment_request") :
          LET agreed == Composition(r, content)
          IN Decide(j, First(<< <<class = "ok", class>>,
                                <<agreed = "ok", agreed>>,
                                <<payload = "ok", payload>> >>),
                    NewAssessment(r))

\* What correcting and voiding have in common.
MutateRecorded(j, row) ==
    LET r == request[j] IN
    \E class \in SchoolAnswers, payload \in PayloadAnswers("invalid_classroom_assessment_request") :
        Decide(j, First(<< <<Exists("assessment") /\ rows["assessment"].owner = r.principal,
                             "classroom_assessment_not_found">>,
                           <<rows["assessment"].state = "RECORDED", "classroom_assessment_not_recorded">>,
                           <<class = "ok", class>>,
                           <<rows["assessment"].revision = r.expected, "resource_revision_conflict">>,
                           <<payload = "ok", payload>> >>),
               row)
CorrectAssessment(j) ==
    /\ request[j].operation = "assessment_classroom_correct"
    /\ MutateRecorded(j, [Moved("assessment", "RECORDED") EXCEPT !.level = request[j].input.level])
VoidAssessment(j) ==
    /\ request[j].operation = "assessment_classroom_void"
    /\ MutateRecorded(j, Moved("assessment", "VOIDED"))

\* The works the source names must be one.
SourceAgrees(source) ==
    LET named == ({source.work}
                  \cup (IF source.execution THEN {rows["execution"].work} ELSE {})
                  \cup (IF source.assignment THEN {rows["assignment"].work} ELSE {})) \ {"none"}
    IN /\ Cardinality(named) <= 1
       /\ source.execution => Exists("execution") /\ rows["execution"].bound
       /\ source.assignment => Exists("assignment") /\ rows["assignment"].bound

\* A new work with the snapshot of the assessment it comes from.
Remediate(j) ==
    LET r == request[j]
        source == rows["assessment"] IN
    /\ r.operation = Remediation
    /\ \E class \in SchoolAnswers, payload \in PayloadAnswers("invalid_teaching_work_request") :
          Decide(j, First(<< <<Exists("assessment"), "classroom_assessment_not_found">>,
                             <<source.state = "RECORDED", "classroom_assessment_not_recorded">>,
                             <<source.revision = r.expected, "resource_revision_conflict">>,
                             <<source.owner = r.principal, "classroom_assessment_not_found">>,
                             <<class = "ok", class>>,
                             <<source.work = "none" \/ WorkOwner[source.work] = r.principal,
                               "classroom_assessment_not_found">>,
                             <<SourceAgrees(source), "assessment_composition_conflict">>,
                             <<payload = "ok", payload>> >>),
                 source)

-----------------------------------------------------------------------------
(* The teacher memory: one row for a teacher, by a unique constraint. *)

\* The existing row is looked for without a lock, and answered without a trace.
CreateMemory(j) ==
    /\ pc[j] = "work" /\ request[j].operation = "teacher_os_memory_create"
    /\ \/ Exists("memory") /\ Answered(j, "ok")
       \/ ~ Exists("memory") /\ Answered(j, "invalid_teacher_memory_request")
       \/ /\ ~ Exists("memory")
          /\ pc' = [pc EXCEPT ![j] = "insert"]
          /\ UNCHANGED <<staged, answer, request, due>>
    /\ UNCHANGED Uncommitted

\* The insert waits for another one in progress, and fails when that commits.
InsertMemory(j) ==
    /\ pc[j] = "insert"
    /\ \A i \in Jobs : pc[i] = "staged" => request[i].operation # "teacher_os_memory_create"
    /\ IF Exists("memory")
       THEN Answered(j, "persistence_invariant_violation")
       ELSE /\ staged' = [staged EXCEPT ![j] = NewMemory(request[j])]
            /\ pc' = [pc EXCEPT ![j] = "staged"]
            /\ UNCHANGED <<answer, request, due>>
    /\ UNCHANGED Uncommitted

UpdateMemory(j) ==
    LET r == request[j] IN
    /\ r.operation = "teacher_os_memory_update"
    /\ \E payload \in PayloadAnswers("invalid_teacher_memory_request") :
          Decide(j, First(<< <<Exists("memory") /\ rows["memory"].owner = r.principal,
                               "teacher_memory_not_found">>,
                             <<rows["memory"].revision = r.expected, "resource_revision_conflict">>,
                             <<payload = "ok", payload>> >>),
                 Moved("memory", "KEPT"))

-----------------------------------------------------------------------------
(* The end of the transaction. *)

\* What is kept of a command: its outcome, and the same facts in audit and outbox.
Fact(j) ==
    [kind |-> Subject(request[j].operation),
     revision |-> IF request[j].operation = Remediation THEN 0 ELSE staged[j].revision,
     operation |-> request[j].operation, principal |-> request[j].principal, key |-> request[j].key]
Outcome(j) ==
    [kind |-> Fact(j).kind, revision |-> Fact(j).revision, operation |-> Fact(j).operation,
     principal |-> Fact(j).principal, key |-> Fact(j).key,
     input |-> request[j].input, expected |-> request[j].expected]
Origin(j) == [key |-> request[j].key, revision |-> staged[j].revision, level |-> staged[j].level]

\* The creation and the refinement of a work leave no audit record.
Audited == {"origin"} \cup (Kinds \ {"work"})
AuditAction(op) ==
    CASE op = "teaching_assignment_create" -> "teaching.assignment.create"
      [] op = "teaching_assignment_due_update" -> "teaching.assignment.due_update"
      [] op = "teaching_assignment_close" -> "teaching.assignment.close"
      [] op = "teaching_assignment_cancel" -> "teaching.assignment.cancel"
      [] op = "teaching_execution_start" -> "teaching.execution.start"
      [] op = "teaching_execution_complete" -> "teaching.execution.complete"
      [] op = "teaching_execution_cancel" -> "teaching.execution.cancel"
      [] op = "teaching_execution_observation_create" -> "teaching.execution.observation.create"
      [] op = "teaching_execution_observation_correct" -> "teaching.execution.observation.correct"
      [] op = "assessment_classroom_record" -> "assessment.classroom.record"
      [] op = "assessment_classroom_correct" -> "assessment.classroom.correct"
      [] op = "assessment_classroom_void" -> "assessment.classroom.void"
      [] op = Remediation -> "teaching.work.remediation.create"
      [] op = "teacher_os_memory_create" -> "teaching.memory.create"
      [] op = "teacher_os_memory_update" -> "teaching.memory.update"
\* The record the ledger is asked to take; what it is related to is left out.
AuditRecord(j) ==
    [action |-> AuditAction(Fact(j).operation),
     before |-> IF Fact(j).revision = 0 THEN Null ELSE Fact(j).revision - 1,
     after |-> Fact(j).revision, resource |-> Fact(j).kind, primary |-> Fact(j).revision,
     related |-> <<>>]
Announced == {"assignment", "execution"}

Commit(j) ==
    LET kind == Subject(request[j].operation) IN
    /\ pc[j] = "staged"
    /\ kind \in Audited => Recordable(AuditRecord(j)) /\ Admits(Current, AuditRecord(j))
    /\ outcomes' = outcomes \cup {Outcome(j)}
    /\ audits' = IF kind \in Audited THEN audits \cup {Fact(j)} ELSE audits
    /\ events' = IF kind \in Announced THEN events \cup {Fact(j)} ELSE events
    /\ origins' = IF kind = "origin" THEN origins \cup {Origin(j)} ELSE origins
    /\ rows' = IF kind = "origin" THEN rows ELSE [rows EXCEPT ![kind] = staged[j]]
    /\ Answered(j, "ok")
    /\ UNCHANGED <<authority, gate, desk, asked, withdrawn, late>>

\* The database fails; the transaction is rolled back.
Fail(j) ==
    /\ Running(j)
    /\ Answered(j, IF Subject(request[j].operation) = "assessment"
                   THEN "persistence_operation_failed" ELSE "persistence_unavailable")
    /\ UNCHANGED Uncommitted

-----------------------------------------------------------------------------

Init ==
    /\ rows = [k \in Kinds |-> NoRow]
    /\ origins = {} /\ audits = {} /\ events = {} /\ outcomes = {}
    /\ authority = Intact
    /\ gate \in {GateStatus(e, Release) : e \in Environments}
    /\ desk \in Desks
    /\ asked = 0 /\ withdrawn = 0
    /\ pc = [j \in Jobs |-> "idle"]
    /\ request = [j \in Jobs |-> NoRequest]
    /\ due = [j \in Jobs |-> 0]
    /\ staged = [j \in Jobs |-> NoRow]
    /\ answer = [j \in Jobs |-> 0]
    /\ late = [j \in Jobs |-> FALSE]

Work(j) ==
    \/ CreateWork(j) \/ RefineWork(j)
    \/ CreateAssignment(j) \/ UpdateDue(j) \/ CloseAssignment(j) \/ CancelAssignment(j)
    \/ StartExecution(j) \/ CompleteExecution(j) \/ CancelExecution(j)
    \/ CreateObservation(j) \/ CorrectObservation(j)
    \/ RecordAssessment(j) \/ CorrectAssessment(j) \/ VoidAssessment(j) \/ Remediate(j)
    \/ CreateMemory(j) \/ InsertMemory(j) \/ UpdateMemory(j)

Next ==
    \/ Withdraw
    \/ \E j \in Jobs : TurnAway(j) \/ Ask(j) \/ Authorize(j) \/ Acquire(j) \/ Work(j) \/ Commit(j) \/ Fail(j) \/ Leave(j)

Spec == Init /\ [][Next]_vars

-----------------------------------------------------------------------------
(* Properties. *)

Row(states, works, flags, levels) ==
    [state : states \cup {"NONE"}, revision : Nat, owner : {Teacher, Stranger, Nobody}, work : works \cup {"none"},
     execution : flags, assignment : flags, bound : BOOLEAN, level : levels \cup {"none"}]
WorkRows == Row({"READY"}, {}, {FALSE}, {})
AssignmentRows == Row({"ACTIVE", "CLOSED", "CANCELLED"}, DOMAIN WorkOwner, {FALSE}, {})
ExecutionRows == Row({"IN_PROGRESS", "COMPLETED", "CANCELLED"}, DOMAIN WorkOwner, {FALSE}, {})
ObservationRows == Row({"NOTED"}, {}, {FALSE}, {})
AssessmentRows == Row({"RECORDED", "VOIDED"}, DOMAIN WorkOwner, BOOLEAN, Levels)
MemoryRows == Row({"KEPT"}, {}, {FALSE}, {})
OriginRows == [key : Keys, revision : Nat, level : Levels]

TypeOK ==
    /\ rows["work"] \in WorkRows /\ rows["assignment"] \in AssignmentRows
    /\ rows["execution"] \in ExecutionRows /\ rows["observation"] \in ObservationRows
    /\ rows["assessment"] \in AssessmentRows /\ rows["memory"] \in MemoryRows
    /\ DOMAIN rows = Kinds
    /\ origins \subseteq OriginRows
    /\ pc \in [Jobs -> {"idle", "authorize", "scope", "work", "insert", "staged", "answered"}]
    /\ late \in [Jobs -> BOOLEAN]
    /\ asked \in Nat /\ withdrawn \in Nat

\* Once an execution is completed or cancelled, what was observed in it is no longer added to
\* or corrected, however the requests overlap.
ObservationsFrozen ==
    [][rows["execution"].state \in {"COMPLETED", "CANCELLED"} =>
           rows'["observation"] = rows["observation"]]_vars

\* An assessment that names an execution names one that was taught to its end and bound the
\* content it is about, and the works it, its execution and its assignment name are one.
AssessedWasTaught ==
    LET a == rows["assessment"] IN
    a.state # "NONE" =>
        /\ a.execution => /\ rows["execution"].state = "COMPLETED" /\ rows["execution"].bound
                          /\ a.work \in {"none", rows["execution"].work}
        /\ a.assignment => rows["assignment"].bound
        /\ a.execution /\ a.assignment => rows["assignment"].work \in {"none", rows["execution"].work}

\* A remediation work comes from an assessment that still stands when the work appears, and
\* keeps the level and the revision it has at that moment.
OriginIsCurrent ==
    [][\A o \in origins' \ origins :
           /\ rows["assessment"].state = "RECORDED"
           /\ o.revision = rows["assessment"].revision
           /\ o.level = rows["assessment"].level]_vars

OnceAt(facts, kind, n) == Cardinality({f \in facts : f.kind = kind /\ f.revision = n}) = 1
\* Every revision of every row has one outcome, one audit record and one event, where its kind
\* has them, and nothing speaks of a revision that does not exist.
RevisionsAccounted ==
    /\ \A k \in Kinds : Exists(k) =>
          \A n \in 0 .. rows[k].revision : /\ OnceAt(outcomes, k, n)
                                           /\ k \in Audited => OnceAt(audits, k, n)
                                           /\ k \in Announced => OnceAt(events, k, n)
    /\ \A f \in audits \cup events \cup outcomes :
          f.kind \in Kinds => Exists(f.kind) /\ f.revision <= rows[f.kind].revision
    /\ \A o \in origins : \E f \in audits : f.kind = "origin" /\ f.key = o.key

\* Statuses that tell a client nothing of what it asked for.
DoorStatuses == {400, 401, 403, 422, 428, 503}
\* A request whose ground was withdrawn before it was checked is turned away: it gets no
\* further than the checks, and its answer shows nothing of what it asked for.
OnlyEntitled ==
    \A j \in Jobs : late[j] => \/ pc[j] = "authorize"
                               \/ pc[j] = "answered" /\ answer[j] \in DoorStatuses
=============================================================================

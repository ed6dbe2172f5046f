----------------------------- MODULE Evaluations -----------------------------
(***************************************************************************)
(* The evaluations of the submissions of one assignment.  A teacher asks   *)
(* for the evaluation of one submission or of all that are there; both     *)
(* insert what is missing under the business identity of submission and    *)
(* policy, in one READ COMMITTED transaction behind the lock of their      *)
(* idempotency scope, while learners submit, answers get lost and requests *)
(* fail half way.  Meanwhile the teacher reads a report over them.         *)
(***************************************************************************)
EXTENDS EvaluationPolicy

CONSTANTS
    Jobs,            \* requests in flight
    Keys, NoKey,     \* idempotency keys of the one teacher
    NumSubmissions,  \* submissions, numbered by (submitted_at, submission_id)
    Exams,           \* question lists the content version may have
    Snapshots,       \* response snapshots learners may submit
    Unsupported,     \* a content version policy v1 does not know
    MaxRequests      \* bound: requests made in all

ASSUME BoundAssumption == NumSubmissions \in Nat /\ MaxRequests \in Nat

\* Responses are of the three kinds, and their values texts or truth values.
ASSUME SnapshotAssumption ==
    \A responses \in Snapshots : \A question \in DOMAIN responses :
        /\ responses[question].kind \in {"MULTIPLE_CHOICE", "TRUE_FALSE", "SHORT_ANSWER"}
        /\ LET value == responses[question].value
           IN \/ IsText(value) /\ value = Text(value.text)
              \/ value \in {Truth(TRUE), Truth(FALSE)}

Submissions == 1 .. NumSubmissions
All == 0                       \* the target of a request for the whole assignment
Operations == {"ensure_submission", "ensure_assignment", "intelligence"}

VARIABLES
    exam,         \* the questions of the exact content version
    snapshots,    \* response snapshot of every submission that is there
    evaluations,  \* committed evaluation rows, each of one submission
    audits,       \* committed audit records, each of one evaluation
    outcomes,     \* committed idempotency outcomes
    jobs          \* the requests

vars == <<exam, snapshots, evaluations, audits, outcomes, jobs>>

Submitted == DOMAIN snapshots
Become(j, job) == jobs' = [jobs EXCEPT ![j] = job]
Go(j, pc) == Become(j, [jobs[j] EXCEPT !.pc = pc])
Answer(j, answer) ==
    Become(j, [jobs[j] EXCEPT !.pc = "done", !.key = NoKey, !.todo = {}, !.rows = {}, !.audited = {},
                              !.listed = {}, !.current = All, !.answer = answer])
Refuse(j, why) == Answer(j, [status |-> why])

Init ==
    /\ exam \in Exams \cup {Unsupported}
    /\ snapshots = <<>>
    /\ evaluations = {}
    /\ audits = {}
    /\ outcomes = {}
    /\ jobs = [j \in Jobs |->
                [pc |-> "idle", round |-> 0, operation |-> "intelligence", key |-> NoKey,
                 target |-> All, todo |-> {}, rows |-> {}, audited |-> {}, listed |-> {}, current |-> All,
                 answer |-> [status |-> "none"]]]

\* A learner submits; the order of the commits is not that of the numbers.
Submit(s, responses) ==
    /\ exam # Unsupported => RequestValid(exam, responses)
    /\ s \notin Submitted
    /\ snapshots' = [t \in Submitted \cup {s} |-> IF t = s THEN responses ELSE snapshots[t]]
    /\ UNCHANGED <<exam, evaluations, audits, outcomes, jobs>>

Asked == FoldFunction(LAMBDA job, n : job.round + n, 0, jobs)
Ask(j, operation, key, target) ==
    /\ jobs[j].pc \in {"idle", "done"} /\ Asked < MaxRequests
    /\ operation = "ensure_submission" <=> target # All
    /\ Become(j, [jobs[j] EXCEPT !.pc = "preview", !.round = @ + 1, !.operation = operation,
                                 !.key = key, !.target = target, !.answer = [status |-> "none"]])
    /\ UNCHANGED <<exam, snapshots, evaluations, audits, outcomes>>

\* A transaction of its own reads the class of the target, then the school is
\* asked whether the teacher has it.
Preview(j) ==
    /\ jobs[j].pc = "preview"
    /\ IF jobs[j].target \notin {All} \cup Submitted THEN Refuse(j, "not_found")
       ELSE \/ Refuse(j, "class_ref_not_assignable")
            \/ Go(j, IF jobs[j].operation = "intelligence" THEN "read" ELSE "scope")
    /\ UNCHANGED <<exam, snapshots, evaluations, audits, outcomes>>

SameScope(j, k) == jobs[j].operation = jobs[k].operation /\ jobs[j].key = jobs[k].key
InTransaction(j) == jobs[j].pc \in {"read", "ensure", "insert", "commit"}
ScopeFree(j) == \A k \in Jobs \ {j} : ~ (InTransaction(k) /\ SameScope(j, k))
Established(j) == {o \in outcomes : o.operation = jobs[j].operation /\ o.key = jobs[j].key}

\* The scope lock and the lookup; a replay answers with the evaluation of its
\* outcome, for the whole assignment with nothing.
Acquire(j) ==
    /\ jobs[j].pc = "scope"
    /\ ScopeFree(j)
    /\ IF Established(j) = {} THEN Go(j, "read")
       ELSE LET o == CHOOSE o \in Established(j) : TRUE
            IN IF o.target # jobs[j].target THEN Refuse(j, "idempotency_key_reused")
               ELSE Answer(j, [status |-> "ok", id |-> o.id, covered |-> {}])
    /\ UNCHANGED <<exam, snapshots, evaluations, audits, outcomes>>

\* The submissions the request is about, as they are at its own read.
\* Mutant: the first page of the list.
ListedFirst(j) ==
    IF jobs[j].target # All THEN {jobs[j].target}
    ELSE {s \in Submitted : \A t \in Submitted : s <= t}
Listed(j) == IF jobs[j].target # All THEN {jobs[j].target} ELSE Submitted

Read(j) ==
    /\ jobs[j].pc = "read"
    /\ IF jobs[j].operation = "intelligence"
       THEN Become(j, [jobs[j] EXCEPT !.pc = "report", !.listed = Submitted])
       ELSE Become(j, [jobs[j] EXCEPT !.pc = "ensure", !.todo = Listed(j), !.listed = Submitted])
    /\ UNCHANGED <<exam, snapshots, evaluations, audits, outcomes>>

\* Evaluations the transaction of j sees: what is committed, and its own.
Visible(j, s) == {e \in evaluations \cup jobs[j].rows : e.submission = s}
\* The list is worked off in its order.
\* Mutant: the rows come in any order.
AnyOrder(todo) == todo
NextOf(todo) == {s \in todo : \A t \in todo : s <= t}

\* Business identity first: what is there is taken as it is.
Ensure(j) ==
    /\ jobs[j].pc = "ensure"
    /\ IF jobs[j].todo = {} THEN Go(j, "commit")
       ELSE \E s \in NextOf(jobs[j].todo) :
              IF Visible(j, s) # {} THEN Become(j, [jobs[j] EXCEPT !.todo = @ \ {s}])
              ELSE IF exam = Unsupported THEN Refuse(j, "content_unsupported")
              ELSE Become(j, [jobs[j] EXCEPT !.pc = "insert", !.current = s])
    /\ UNCHANGED <<exam, snapshots, evaluations, audits, outcomes>>

\* An insert waits for a transaction that has inserted the same identity.
Blocks(k, s) == \E e \in jobs[k].rows : e.submission = s
Candidate(j, s) ==
    [id |-> <<j, jobs[j].round, s>>, submission |-> s, result |-> Evaluate(exam, snapshots[s])]

\* ON CONFLICT DO NOTHING, then the row that is there; a request audits the
\* row only if it is its own.
\* Mutant: the candidate is inserted whatever is there.
InsertAlways(j, s) == {Candidate(j, s)}
Inserted(j, s) ==
    IF \E e \in evaluations : e.submission = s THEN {} ELSE {Candidate(j, s)}

Insert(j) ==
    /\ jobs[j].pc = "insert"
    /\ \A k \in Jobs \ {j} : ~ Blocks(k, jobs[j].current)
    /\ LET s == jobs[j].current
       IN Become(j, [jobs[j] EXCEPT !.pc = "ensure", !.todo = @ \ {s}, !.current = All,
                                    !.rows = @ \cup Inserted(j, s),
                                    !.audited = @ \cup {e.id : e \in Inserted(j, s)}])
    /\ UNCHANGED <<exam, snapshots, evaluations, audits, outcomes>>

EvaluationOf(j) ==
    IF jobs[j].target = All THEN <<>>
    ELSE (CHOOSE e \in Visible(j, jobs[j].target) : TRUE).id

\* Rows, audit records and outcome commit together; the answer may be lost.
Commit(j) ==
    /\ jobs[j].pc = "commit"
    /\ evaluations' = evaluations \cup jobs[j].rows
    /\ audits' = audits \cup {[evaluation |-> id, by |-> <<j, jobs[j].round>>] : id \in jobs[j].audited}
    /\ outcomes' = outcomes \cup {[operation |-> jobs[j].operation, key |-> jobs[j].key,
                                   target |-> jobs[j].target, id |-> EvaluationOf(j)]}
    /\ \/ Answer(j, [status |-> "ok", id |-> EvaluationOf(j),
                     covered |-> IF jobs[j].target = All THEN jobs[j].listed ELSE {jobs[j].target}])
       \/ Refuse(j, "lost")
    /\ UNCHANGED <<exam, snapshots>>

\* The process dies or the database fails: the transaction leaves no trace.
Fail(j) ==
    /\ InTransaction(j)
    /\ Refuse(j, "error")
    /\ UNCHANGED <<exam, snapshots, evaluations, audits, outcomes>>

\* The second read of a report: evaluations as they are now, submissions as
\* they were at the first.
ShowReport(j) ==
    /\ jobs[j].pc = "report"
    /\ Answer(j, [status |-> "ok", report |-> Report(jobs[j].listed, evaluations)])
    /\ UNCHANGED <<exam, snapshots, evaluations, audits, outcomes>>

Next ==
    \/ \E s \in Submissions, responses \in Snapshots : Submit(s, responses)
    \/ \E j \in Jobs :
         \/ \E operation \in Operations, key \in Keys, target \in {All} \cup Submissions :
              Ask(j, operation, key, target)
         \/ Preview(j) \/ Acquire(j) \/ Read(j) \/ Ensure(j) \/ Insert(j) \/ Commit(j)
         \/ Fail(j) \/ ShowReport(j)

Spec == Init /\ [][Next]_vars

-----------------------------------------------------------------------------
\* Types of what is committed.
TypeOK ==
    /\ Submitted \subseteq Submissions
    /\ \A e \in evaluations : e.submission \in Submitted
    /\ \A a \in audits : \E e \in evaluations : e.id = a.evaluation
    /\ \A j \in Jobs : jobs[j].round \in 0 .. MaxRequests /\ jobs[j].todo \subseteq Submissions

Answered(j) == jobs[j].pc = "done" /\ jobs[j].answer.status = "ok"

\* However requests race, a submission has one evaluation, the evaluation one
\* audit record, and every answer about the submission, fresh or replayed, names
\* that evaluation (evaluation_ensure.py:150, repositories.py:254).
OneEvaluation ==
    /\ \A e, f \in evaluations : e.submission = f.submission => e = f
    /\ \A e \in evaluations : \E a \in audits : /\ a.evaluation = e.id
                                                 /\ \A b \in audits : b.evaluation = e.id => b = a
    /\ \A j \in Jobs : Answered(j) /\ jobs[j].operation = "ensure_submission" =>
          \E e \in evaluations : e.id = jobs[j].answer.id /\ e.submission = jobs[j].target

\* A request for the whole assignment that is answered by its own transaction
\* leaves no submission of its list unevaluated: all are, or none by it.
BatchIsComplete ==
    \A j \in Jobs : Answered(j) /\ jobs[j].operation = "ensure_assignment" =>
        \A s \in jobs[j].answer.covered : \E e \in evaluations : e.submission = s

\* No requests wait for each other's rows and scopes in a circle, though each
\* holds the rows it inserted until it commits.
Waits(j, k) ==
    /\ j # k
    /\ \/ jobs[j].pc = "scope" /\ InTransaction(k) /\ SameScope(j, k)
       \/ jobs[j].pc = "insert" /\ Blocks(k, jobs[j].current)
NoWaitCycle ==
    \A circle \in (SUBSET Jobs) \ {{}} : \E j \in circle : \A k \in circle : ~ Waits(j, k)

Questions == IF exam = Unsupported THEN {} ELSE Range(exam)
\* The version says which answer to the question is right.
Keyed(question) ==
    question.answer \in IF question.type = "multiple_choice" THEN question.options
                        ELSE TrueTexts \cup FalseTexts
Right(question, s) ==
    /\ question.id \in DOMAIN snapshots[s]
    /\ LET response == snapshots[s][question.id]
       IN \/ /\ question.type = "multiple_choice" /\ response.kind = "MULTIPLE_CHOICE"
             /\ response.value = Text(question.answer)
          \/ /\ question.type = "true_false" /\ response.kind = "TRUE_FALSE"
             /\ response.value = Truth(question.answer \in TrueTexts)

\* Evidence is never better than the snapshot: an objective counts as
\* demonstrated if and only if the content version has a right answer to every
\* question on it and the submission gave it; as mixed or not yet demonstrated
\* only if every question was answered and one of them not rightly, as not yet
\* demonstrated only if none was (evaluation_policy_v1.py:222).
EvidenceSound ==
    \A e \in evaluations : \A o \in DOMAIN e.result.evidence :
        LET on == {q \in Questions : o \in q.objectives}
            given == {q \in on : q.id \in DOMAIN snapshots[e.submission]}
        IN /\ e.result.evidence[o] = "DEMONSTRATED_ON_SUBMITTED_ITEMS" <=>
                \A q \in on : Keyed(q) /\ Right(q, e.submission)
           /\ e.result.evidence[o] \in {"NOT_YET_DEMONSTRATED_ON_SUBMITTED_ITEMS", "MIXED_ON_SUBMITTED_ITEMS"} =>
                given = on /\ \E q \in on : ~ Right(q, e.submission)
           /\ e.result.evidence[o] = "NOT_YET_DEMONSTRATED_ON_SUBMITTED_ITEMS" =>
                \A q \in on : ~ Right(q, e.submission)

AnsweredWrongly(question) ==
    {s \in Submitted : question.id \in DOMAIN snapshots[s] /\ ~ Right(question, s)}
ShownWrong(report, id) ==
    {s \in DOMAIN report.learners : /\ id \in DOMAIN report.learners[s].items
                                   /\ report.learners[s].items[id].outcome = "INCORRECT"}
TimesMissed(report, id) == IF id \in DOMAIN report.missed THEN report.missed[id] ELSE 0

\* A report blames a learner for a question only for an answer that differs from
\* the content version, never for one left open, and it counts the question as
\* missed once for every learner it so blames; what its second read finds beyond
\* them are wrong answers of learners who submitted after its list was read
\* (intelligence.py:196, :317).
MissedWereWrong ==
    \A j \in Jobs : Answered(j) /\ jobs[j].operation = "intelligence" =>
        LET report == jobs[j].answer.report
        IN \A q \in Questions :
             LET shown == ShownWrong(report, q.id)
                 late == AnsweredWrongly(q) \ DOMAIN report.learners
             IN /\ shown \subseteq AnsweredWrongly(q)
                /\ Cardinality(shown) <= TimesMissed(report, q.id)
                /\ TimesMissed(report, q.id) <= Cardinality(shown \cup late)
=============================================================================

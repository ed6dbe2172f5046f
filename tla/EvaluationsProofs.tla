-------------------------- MODULE EvaluationsProofs --------------------------
(***************************************************************************)
(* Proofs about Evaluations for every number of requests, keys and         *)
(* submissions, for every content version and every snapshot.  Two         *)
(* requests may insert the same evaluation at the same time; what keeps    *)
(* them apart is that a row that is not committed yet blocks the other     *)
(* insert, and that every request works off its list in the same order.    *)
(***************************************************************************)
EXTENDS Evaluations, FiniteSetTheorems, WellFoundedInduction, TLAPS

Fields == {"pc", "round", "operation", "key", "target", "todo", "rows", "audited", "listed",
           "current", "answer"}
Working == {"ensure", "insert", "commit"}
Waiting == {"idle", "preview", "done"}
Pcs == Waiting \cup Working \cup {"scope", "read", "report"}

\* What is said of a row, of a request and of an answer under a content
\* version x, snapshots sn and committed evaluations ev.
RowSound(e, x, sn) ==
    /\ x # Unsupported
    /\ e.submission \in DOMAIN sn
    /\ e.id = <<e.id[1], e.id[2], e.submission>>
    /\ e.result = Evaluate(x, sn[e.submission])
OnePerSubmission(S) == \A e, f \in S : e.submission = f.submission => e = f
Disjoint(S, T) == \A e \in S, f \in T : e.submission # f.submission
Covers(S, s) == \E e \in S : e.submission = s

RightBy(question, responses) ==
    /\ question.id \in DOMAIN responses
    /\ LET response == responses[question.id]
       IN \/ /\ question.type = "multiple_choice" /\ response.kind = "MULTIPLE_CHOICE"
             /\ response.value = Text(question.answer)
          \/ /\ question.type = "true_false" /\ response.kind = "TRUE_FALSE"
             /\ response.value = Truth(question.answer \in TrueTexts)
Wrong(question, sn) == {s \in DOMAIN sn : question.id \in DOMAIN sn[s] /\ ~ RightBy(question, sn[s])}

\* What a report says of a question agrees with the answers.
Blamable(report, question, sn) ==
    ShownWrong(report, question.id) \cup (Wrong(question, sn) \ DOMAIN report.learners)
Balanced(report, question, sn) ==
    /\ TimesMissed(report, question.id) \in Nat
    /\ ShownWrong(report, question.id) \subseteq Wrong(question, sn)
    /\ Cardinality(ShownWrong(report, question.id)) <= TimesMissed(report, question.id)
    /\ TimesMissed(report, question.id) <= Cardinality(Blamable(report, question, sn))

\* The three promises of an answer.
NamesOne(job, ev) == \E e \in ev : e.id = job.answer.id /\ e.submission = job.target
CoversAll(job, ev) == \A s \in job.answer.covered : Covers(ev, s)
BlamesRightly(job, x, sn) ==
    \A i \in DOMAIN x : Balanced(job.answer.report, x[i], sn)
AnswerSound(job, x, sn, ev) ==
    /\ job.operation = "ensure_submission" => NamesOne(job, ev)
    /\ job.operation = "ensure_assignment" => CoversAll(job, ev)
    /\ job.operation = "intelligence" /\ x # Unsupported => BlamesRightly(job, x, sn)

JobTyped(job) ==
    /\ DOMAIN job = Fields
    /\ job.pc \in Pcs /\ job.round \in Nat /\ job.operation \in Operations
    /\ job.target \in {All} \cup Submissions
    /\ job.operation = "ensure_submission" <=> job.target # All
    /\ job.pc \in Working \cup {"scope"} => job.operation # "intelligence"
    /\ job.pc = "report" => job.operation = "intelligence"

\* The rows of a request that are not committed: each for a submission that
\* comes before all it still has to look at.
RowsSound(j, job, x, sn, ev) ==
    /\ job.pc \notin Working => job.rows = {}
    /\ job.audited = {e.id : e \in job.rows}
    /\ OnePerSubmission(job.rows) /\ Disjoint(job.rows, ev)
    /\ \A e \in job.rows : /\ RowSound(e, x, sn) /\ e.id = <<j, job.round, e.submission>>
                           /\ \A t \in job.todo : e.submission < t

\* What a request that works has looked at is evaluated, by it or before.
Wanted(job) == IF job.target # All THEN {job.target} ELSE job.listed
WorkSound(job, x, sn, ev) ==
    /\ job.pc \notin Waiting => job.target \in {All} \cup DOMAIN sn
    /\ job.pc \in Working =>
         /\ job.todo \subseteq DOMAIN sn /\ job.listed \subseteq DOMAIN sn
         /\ \A s \in Wanted(job) \ job.todo : Covers(ev \cup job.rows, s)
    /\ job.pc = "commit" => job.todo = {}
    /\ job.pc = "insert" => /\ x # Unsupported /\ job.current \in job.todo
                            /\ \A t \in job.todo : job.current <= t

JobSound(j, job, x, sn, ev) ==
    /\ JobTyped(job) /\ RowsSound(j, job, x, sn, ev) /\ WorkSound(job, x, sn, ev)
    /\ job.pc = "done" /\ job.answer.status = "ok" => AnswerSound(job, x, sn, ev)

AuditOf(e) == [evaluation |-> e.id, by |-> <<e.id[1], e.id[2]>>]
SnapshotsSound(x, sn) ==
    /\ DOMAIN sn \subseteq Submissions
    /\ \A s \in DOMAIN sn : sn[s] \in Snapshots /\ (x # Unsupported => RequestValid(x, sn[s]))
EvaluationsSound(x, sn, ev) == OnePerSubmission(ev) /\ \A e \in ev : RowSound(e, x, sn)
OutcomesSound(os, ev) ==
    \A o \in os : o.operation = "ensure_submission" => \E e \in ev : e.id = o.id /\ e.submission = o.target

IInv ==
    /\ exam \in Exams \cup {Unsupported}
    /\ SnapshotsSound(exam, snapshots)
    /\ EvaluationsSound(exam, snapshots, evaluations)
    /\ audits = {AuditOf(e) : e \in evaluations}
    /\ OutcomesSound(outcomes, evaluations)
    /\ jobs = [j \in Jobs |-> jobs[j]]
    /\ \A j \in Jobs : JobSound(j, jobs[j], exam, snapshots, evaluations)
    /\ \A j, k \in Jobs : j # k => Disjoint(jobs[j].rows, jobs[k].rows)
-----------------------------------------------------------------------------
(* One request moves, the others stand by. *)

LEMMA Update ==
  ASSUME jobs = [k \in Jobs |-> jobs[k]], NEW j \in Jobs, NEW job, Become(j, job)
  PROVE  /\ jobs' = [k \in Jobs |-> jobs'[k]]
         /\ jobs'[j] = job
         /\ \A k \in Jobs : k # j => jobs'[k] = jobs[k]
  BY DEF Become

\* Submissions come and keep their snapshots.
Grows(sn, sn2) == /\ DOMAIN sn \subseteq DOMAIN sn2 /\ DOMAIN sn2 \subseteq Submissions
                  /\ \A s \in DOMAIN sn : sn2[s] = sn[s]

\* The submissions a report may blame are finitely many, and no fewer when
\* submissions come.
LEMMA WrongFinite ==
  ASSUME NEW sn, DOMAIN sn \subseteq Submissions, NEW question
  PROVE  IsFiniteSet(Wrong(question, sn))
<1>1. IsFiniteSet(Submissions)
  BY BoundAssumption, FS_Interval DEF Submissions
<1>2. Wrong(question, sn) \in SUBSET Submissions
  BY DEF Wrong
<1> QED BY <1>1, <1>2, FS_Subset

LEMMA BlamableGrows ==
  ASSUME NEW sn, NEW sn2, Grows(sn, sn2), NEW question, NEW report,
         ShownWrong(report, question.id) \subseteq Wrong(question, sn)
  PROVE  /\ Wrong(question, sn) \subseteq Wrong(question, sn2)
         /\ Cardinality(Blamable(report, question, sn)) \in Nat
         /\ Cardinality(Blamable(report, question, sn2)) \in Nat
         /\ Cardinality(Blamable(report, question, sn)) <= Cardinality(Blamable(report, question, sn2))
<1> DEFINE old == Blamable(report, question, sn)
           new == Blamable(report, question, sn2)
<1>1. Wrong(question, sn) \subseteq Wrong(question, sn2)
  BY DEF Wrong, Grows
<1>2. IsFiniteSet(Wrong(question, sn2))
  BY WrongFinite DEF Grows
<1>3. new \in SUBSET Wrong(question, sn2) /\ old \in SUBSET new
  BY <1>1 DEF Blamable
<1> HIDE DEF old, new
<1>4. IsFiniteSet(new)
  BY <1>2, <1>3, FS_Subset
<1>5. IsFiniteSet(old) /\ Cardinality(old) <= Cardinality(new)
  BY <1>3, <1>4, FS_Subset
<1>6. Cardinality(old) \in Nat /\ Cardinality(new) \in Nat
  BY <1>4, <1>5, FS_CardinalityType
<1> QED BY <1>1, <1>5, <1>6 DEF old, new

LEMMA CoversGrows ==
  ASSUME NEW S, NEW T, S \subseteq T, NEW s, Covers(S, s)
  PROVE  Covers(T, s)
  BY DEF Covers

LEMMA BlamesGrows ==
  ASSUME NEW job, NEW x, NEW sn, NEW sn2, Grows(sn, sn2), BlamesRightly(job, x, sn)
  PROVE  BlamesRightly(job, x, sn2)
<1> SUFFICES ASSUME NEW i \in DOMAIN x PROVE Balanced(job.answer.report, x[i], sn2)
  BY Zenon DEF BlamesRightly
<1> DEFINE report == job.answer.report
           n == TimesMissed(report, x[i].id)
           old == Cardinality(Blamable(report, x[i], sn))
           new == Cardinality(Blamable(report, x[i], sn2))
           shown == ShownWrong(report, x[i].id)
<1>1. n \in Nat /\ n <= old /\ shown \subseteq Wrong(x[i], sn) /\ Cardinality(shown) <= n
  BY Zenon DEF BlamesRightly, Balanced
<1>2. old \in Nat /\ new \in Nat /\ old <= new /\ Wrong(x[i], sn) \subseteq Wrong(x[i], sn2)
  <2> HIDE DEF report
  <2> QED BY <1>1, BlamableGrows
<1>3. shown \subseteq Wrong(x[i], sn2)
  BY <1>1, <1>2
<1> HIDE DEF n, old, new
<1>4. n <= new
  BY <1>1, <1>2
<1> QED BY <1>1, <1>3, <1>4, Zenon DEF n, new, Balanced

\* A promise that was kept stays kept.
LEMMA AnswerStays ==
  ASSUME NEW job, NEW x, NEW sn, NEW ev, NEW sn2, NEW ev2,
         Grows(sn, sn2), ev \subseteq ev2, AnswerSound(job, x, sn, ev)
  PROVE  AnswerSound(job, x, sn2, ev2)
<1>1. NamesOne(job, ev) => NamesOne(job, ev2)
  BY DEF NamesOne
<1>2. CoversAll(job, ev) => CoversAll(job, ev2)
  BY CoversGrows DEF CoversAll
<1>3. BlamesRightly(job, x, sn) => BlamesRightly(job, x, sn2)
  BY BlamesGrows
<1> QED BY <1>1, <1>2, <1>3 DEF AnswerSound

LEMMA RowStays ==
  ASSUME NEW e, NEW x, NEW sn, NEW sn2, Grows(sn, sn2), RowSound(e, x, sn)
  PROVE  RowSound(e, x, sn2)
  BY DEF RowSound, Grows

LEMMA Bystander ==
  ASSUME NEW j, NEW job, NEW x, NEW sn, NEW ev, NEW sn2, NEW ev2,
         Grows(sn, sn2), ev \subseteq ev2, Disjoint(job.rows, ev2), JobSound(j, job, x, sn, ev)
  PROVE  JobSound(j, job, x, sn2, ev2)
<1>1. JobTyped(job) BY DEF JobSound
<1>2. RowsSound(j, job, x, sn2, ev2)
  BY RowStays DEF JobSound, RowsSound
<1>3. WorkSound(job, x, sn2, ev2)
  <2>1. WorkSound(job, x, sn, ev) BY DEF JobSound
  <2>2. DOMAIN sn \subseteq DOMAIN sn2 BY DEF Grows
  <2>3. ASSUME job.pc \in Working
        PROVE  /\ job.todo \subseteq DOMAIN sn2 /\ job.listed \subseteq DOMAIN sn2
               /\ \A s \in Wanted(job) \ job.todo : Covers(ev2 \cup job.rows, s)
    <3>1. ev \cup job.rows \subseteq ev2 \cup job.rows OBVIOUS
    <3> QED BY <2>1, <2>2, <2>3, <3>1, CoversGrows DEF WorkSound
  <2> QED BY <2>1, <2>2, <2>3 DEF WorkSound
<1>4. job.pc = "done" /\ job.answer.status = "ok" => AnswerSound(job, x, sn2, ev2)
  BY AnswerStays DEF JobSound
<1> QED BY <1>1, <1>2, <1>3, <1>4 DEF JobSound

\* A step of one request that commits nothing.
LEMMA Step ==
  ASSUME IInv, NEW j \in Jobs, NEW job, Become(j, job),
         UNCHANGED <<exam, snapshots, evaluations, audits, outcomes>>,
         JobSound(j, job, exam, snapshots, evaluations),
         \A k \in Jobs : k # j => Disjoint(job.rows, jobs[k].rows)
  PROVE  IInv'
<1>1. /\ jobs' = [k \in Jobs |-> jobs'[k]]
      /\ jobs'[j] = job
      /\ \A k \in Jobs : k # j => jobs'[k] = jobs[k]
  BY Update DEF IInv
<1>2. \A k \in Jobs : JobSound(k, jobs'[k], exam, snapshots, evaluations)
  BY <1>1 DEF IInv
<1>3. ASSUME NEW k \in Jobs, NEW l \in Jobs, k # l
      PROVE  Disjoint(jobs'[k].rows, jobs'[l].rows)
  <2>1. CASE k # j /\ l # j BY <1>1, <1>3, <2>1 DEF IInv
  <2>2. CASE k = j BY <1>1, <1>3, <2>2
  <2>3. CASE l = j
    <3>1. Disjoint(job.rows, jobs[k].rows) BY <1>3, <2>3
    <3> QED BY <1>1, <1>3, <2>3, <3>1 DEF Disjoint
  <2> QED BY <2>1, <2>2, <2>3
<1>4. exam' = exam /\ snapshots' = snapshots /\ evaluations' = evaluations /\ audits' = audits
      /\ outcomes' = outcomes
  OBVIOUS
<1> QED BY <1>1, <1>2, <1>3, <1>4 DEF IInv
-----------------------------------------------------------------------------
(* The steps that commit nothing. *)

LEMMA RoundCounts == \A n \in Nat : n + 1 \in Nat
  OBVIOUS

\* A request that ends forgets everything but its answer.
Done(job, answer) ==
    [job EXCEPT !.pc = "done", !.key = NoKey, !.todo = {}, !.rows = {}, !.audited = {},
                !.listed = {}, !.current = All, !.answer = answer]

LEMMA DoneSound ==
  ASSUME NEW j, NEW job, NEW answer, NEW x, NEW sn, NEW ev, JobTyped(job),
         answer.status = "ok" => AnswerSound(Done(job, answer), x, sn, ev)
  PROVE  JobSound(j, Done(job, answer), x, sn, ev) /\ Done(job, answer).rows = {}
<1> DEFINE new == Done(job, answer)
<1>1. /\ DOMAIN new = Fields /\ new.pc = "done" /\ new.round = job.round
      /\ new.operation = job.operation /\ new.target = job.target /\ new.answer = answer
      /\ new.rows = {} /\ new.audited = {} /\ new.todo = {}
  BY DEF Done, JobTyped, Fields
<1> HIDE DEF new
<1>2. JobTyped(new)
  BY <1>1 DEF JobTyped, Pcs, Waiting, Working
<1>3. RowsSound(j, new, x, sn, ev)
  BY <1>1 DEF RowsSound, OnePerSubmission, Disjoint
<1>4. WorkSound(new, x, sn, ev)
  BY <1>1 DEF WorkSound, Waiting, Working
<1>5. new.answer.status = "ok" => AnswerSound(new, x, sn, ev)
  BY <1>1 DEF new
<1> QED BY <1>1, <1>2, <1>3, <1>4, <1>5 DEF JobSound, new

LEMMA AnswerStep ==
  ASSUME IInv, NEW j \in Jobs, NEW answer, Answer(j, answer),
         UNCHANGED <<exam, snapshots, evaluations, audits, outcomes>>,
         answer.status = "ok" => AnswerSound(Done(jobs[j], answer), exam, snapshots, evaluations)
  PROVE  IInv'
<1> DEFINE new == Done(jobs[j], answer)
<1>1. Become(j, new)
  BY Zenon DEF Answer, Done
<1>2. JobTyped(jobs[j]) BY DEF IInv, JobSound
<1>3. JobSound(j, new, exam, snapshots, evaluations) /\ new.rows = {}
  BY <1>2, DoneSound
<1> HIDE DEF new
<1>4. \A k \in Jobs : k # j => Disjoint(new.rows, jobs[k].rows)
  BY <1>3 DEF Disjoint
<1> QED BY <1>1, <1>3, <1>4, Step

LEMMA RefuseStep ==
  ASSUME IInv, NEW j \in Jobs, NEW why, why # "ok", Refuse(j, why),
         UNCHANGED <<exam, snapshots, evaluations, audits, outcomes>>
  PROVE  IInv'
<1> DEFINE answer == [status |-> why]
<1>1. answer.status # "ok" /\ Answer(j, answer)
  BY DEF Refuse
<1> HIDE DEF answer
<1> QED BY <1>1, AnswerStep

\* A request without rows moves to a point before its work.
LEMMA EarlySound ==
  ASSUME NEW j, NEW job, NEW new, NEW x, NEW sn, NEW ev, JobTyped(new),
         new.pc \notin Working \cup {"done"}, new.rows = {}, new.audited = {},
         new.pc \notin Waiting => new.target \in {All} \cup DOMAIN sn
  PROVE  JobSound(j, new, x, sn, ev)
<1>1. RowsSound(j, new, x, sn, ev)
  BY DEF RowsSound, OnePerSubmission, Disjoint
<1>2. WorkSound(new, x, sn, ev)
  BY DEF WorkSound, Working
<1> QED BY <1>1, <1>2 DEF JobSound

LEMMA EarlyStep ==
  ASSUME IInv, NEW j \in Jobs, NEW new, Become(j, new),
         UNCHANGED <<exam, snapshots, evaluations, audits, outcomes>>,
         JobTyped(new), new.pc \notin Working \cup {"done"}, new.rows = {}, new.audited = {},
         new.pc \notin Waiting => new.target \in {All} \cup Submitted
  PROVE  IInv'
<1>1. JobSound(j, new, exam, snapshots, evaluations)
  BY EarlySound DEF Submitted
<1>2. \A k \in Jobs : k # j => Disjoint(new.rows, jobs[k].rows)
  BY DEF Disjoint
<1> QED BY <1>1, <1>2, Step

LEMMA AskSound ==
  ASSUME IInv, NEW j \in Jobs, NEW operation \in Operations, NEW key \in Keys,
         NEW target \in {All} \cup Submissions, Ask(j, operation, key, target)
  PROVE  IInv'
<1> DEFINE new == [jobs[j] EXCEPT !.pc = "preview", !.round = @ + 1, !.operation = operation,
                                  !.key = key, !.target = target, !.answer = [status |-> "none"]]
<1>1. /\ Become(j, new) /\ UNCHANGED <<exam, snapshots, evaluations, audits, outcomes>>
      /\ jobs[j].pc \in {"idle", "done"} /\ (operation = "ensure_submission" <=> target # All)
  BY Zenon DEF Ask
<1>2. JobTyped(jobs[j]) /\ RowsSound(j, jobs[j], exam, snapshots, evaluations)
  BY DEF IInv, JobSound
<1>3. jobs[j].rows = {} /\ jobs[j].audited = {}
  BY <1>1, <1>2 DEF RowsSound, Working
<1>4. /\ DOMAIN new = Fields /\ new.pc = "preview" /\ new.round = jobs[j].round + 1
      /\ new.operation = operation /\ new.target = target
      /\ new.rows = {} /\ new.audited = {}
  BY <1>2, <1>3 DEF JobTyped, Fields
<1> HIDE DEF new
<1>5. jobs[j].round \in Nat
  BY <1>2 DEF JobTyped
<1>6. new.round \in Nat
  BY <1>4, <1>5, RoundCounts
<1>7. JobTyped(new)
  BY <1>1, <1>4, <1>6 DEF JobTyped, Pcs, Waiting, Working
<1> QED BY <1>1, <1>4, <1>7, EarlyStep DEF Waiting, Working

LEMMA GoFields ==
  ASSUME NEW job, JobTyped(job), NEW pc
  PROVE  LET new == [job EXCEPT !.pc = pc]
         IN /\ DOMAIN new = Fields /\ new.pc = pc /\ new.round = job.round
            /\ new.operation = job.operation /\ new.target = job.target /\ new.todo = job.todo
            /\ new.rows = job.rows /\ new.audited = job.audited /\ new.listed = job.listed
            /\ new.current = job.current /\ new.answer = job.answer
  BY DEF JobTyped, Fields

LEMMA PreviewSound ==
  ASSUME IInv, NEW j \in Jobs, Preview(j)
  PROVE  IInv'
<1> DEFINE pc == IF jobs[j].operation = "intelligence" THEN "read" ELSE "scope"
           new == [jobs[j] EXCEPT !.pc = pc]
<1>1. JobTyped(jobs[j]) /\ RowsSound(j, jobs[j], exam, snapshots, evaluations)
  BY DEF IInv, JobSound
<1>2. /\ UNCHANGED <<exam, snapshots, evaluations, audits, outcomes>> /\ jobs[j].pc = "preview"
      /\ \/ Refuse(j, "not_found") \/ Refuse(j, "class_ref_not_assignable")
         \/ jobs[j].target \in {All} \cup Submitted /\ Become(j, new)
  BY Zenon DEF Preview, Go
<1>3. CASE Refuse(j, "not_found") BY <1>2, <1>3, RefuseStep
<1>4. CASE Refuse(j, "class_ref_not_assignable") BY <1>2, <1>4, RefuseStep
<1>5. CASE jobs[j].target \in {All} \cup Submitted /\ Become(j, new)
  <2>1. /\ DOMAIN new = Fields /\ new.pc = pc /\ new.round = jobs[j].round
        /\ new.operation = jobs[j].operation /\ new.target = jobs[j].target
        /\ new.rows = jobs[j].rows /\ new.audited = jobs[j].audited
    BY <1>1, GoFields
  <2> HIDE DEF new
  <2>2. JobTyped(new)
    BY <1>1, <2>1 DEF JobTyped, Pcs, Waiting, Working
  <2>3. new.rows = {} /\ new.audited = {}
    BY <1>1, <1>2, <2>1 DEF RowsSound, Working
  <2> QED BY <1>2, <1>5, <2>1, <2>2, <2>3, EarlyStep DEF Waiting, Working
<1> QED BY <1>2, <1>3, <1>4, <1>5
\* A replay answers with the evaluation of its outcome.
LEMMA AcquireSound ==
  ASSUME IInv, NEW j \in Jobs, Acquire(j)
  PROVE  IInv'
<1> DEFINE new == [jobs[j] EXCEPT !.pc = "read"]
           o == CHOOSE o \in Established(j) : TRUE
           answer == [status |-> "ok", id |-> o.id, covered |-> {}]
           done == Done(jobs[j], answer)
<1>1. /\ JobTyped(jobs[j]) /\ RowsSound(j, jobs[j], exam, snapshots, evaluations)
      /\ WorkSound(jobs[j], exam, snapshots, evaluations)
  BY DEF IInv, JobSound
<1>2. /\ UNCHANGED <<exam, snapshots, evaluations, audits, outcomes>> /\ jobs[j].pc = "scope"
      /\ \/ Become(j, new)
         \/ Refuse(j, "idempotency_key_reused")
         \/ Established(j) # {} /\ o.target = jobs[j].target /\ Answer(j, answer)
  BY Zenon DEF Acquire, Go
<1>3. CASE Become(j, new)
  <2>1. /\ DOMAIN new = Fields /\ new.pc = "read" /\ new.round = jobs[j].round
        /\ new.operation = jobs[j].operation /\ new.target = jobs[j].target
        /\ new.rows = jobs[j].rows /\ new.audited = jobs[j].audited
    BY <1>1, GoFields
  <2> HIDE DEF new
  <2>2. JobTyped(new)
    BY <1>1, <2>1 DEF JobTyped, Pcs, Waiting, Working
  <2>3. new.rows = {} /\ new.audited = {}
    BY <1>1, <1>2, <2>1 DEF RowsSound, Working
  <2>4. new.target \in {All} \cup Submitted
    BY <1>1, <1>2, <2>1 DEF WorkSound, Waiting, Submitted
  <2> QED BY <1>2, <1>3, <2>1, <2>2, <2>3, <2>4, EarlyStep DEF Working
<1>4. CASE Refuse(j, "idempotency_key_reused") BY <1>2, <1>4, RefuseStep
<1>5. CASE Established(j) # {} /\ o.target = jobs[j].target /\ Answer(j, answer)
  <2>1. o \in outcomes /\ o.operation = jobs[j].operation
    BY <1>5 DEF Established
  <2>2. o.operation = "ensure_submission" =>
           \E e \in evaluations : e.id = o.id /\ e.submission = o.target
    BY <2>1 DEF IInv, OutcomesSound
  <2>3. /\ done.operation = jobs[j].operation /\ done.target = jobs[j].target
        /\ done.answer = answer
    BY <1>1 DEF Done, JobTyped, Fields
  <2>4. answer.id = o.id /\ answer.covered = {}
    OBVIOUS
  <2>5. jobs[j].operation # "intelligence"
    BY <1>1, <1>2 DEF JobTyped
  <2> HIDE DEF done, answer, o
  <2>6. AnswerSound(done, exam, snapshots, evaluations)
    BY <1>5, <2>1, <2>2, <2>3, <2>4, <2>5 DEF AnswerSound, NamesOne, CoversAll
  <2> QED BY <1>2, <1>5, <2>6, AnswerStep DEF done
<1> QED BY <1>2, <1>3, <1>4, <1>5

LEMMA FailSound ==
  ASSUME IInv, NEW j \in Jobs, Fail(j)
  PROVE  IInv'
  BY RefuseStep DEF Fail

\* At its read a request has looked at nothing yet, and wants what is there.
LEMMA ReadSound ==
  ASSUME IInv, NEW j \in Jobs, Read(j)
  PROVE  IInv'
<1> DEFINE report == [jobs[j] EXCEPT !.pc = "report", !.listed = Submitted]
           new == [jobs[j] EXCEPT !.pc = "ensure", !.todo = Listed(j), !.listed = Submitted]
<1>1. /\ JobTyped(jobs[j]) /\ RowsSound(j, jobs[j], exam, snapshots, evaluations)
      /\ WorkSound(jobs[j], exam, snapshots, evaluations)
  BY DEF IInv, JobSound
<1>2. /\ UNCHANGED <<exam, snapshots, evaluations, audits, outcomes>> /\ jobs[j].pc = "read"
      /\ \/ jobs[j].operation = "intelligence" /\ Become(j, report)
         \/ jobs[j].operation # "intelligence" /\ Become(j, new)
  BY Zenon DEF Read
<1>3. /\ jobs[j].rows = {} /\ jobs[j].audited = {}
      /\ jobs[j].target \in {All} \cup Submitted
  BY <1>1, <1>2 DEF RowsSound, WorkSound, Working, Waiting, Submitted
<1>4. CASE jobs[j].operation = "intelligence" /\ Become(j, report)
  <2>1. /\ DOMAIN report = Fields /\ report.pc = "report" /\ report.round = jobs[j].round
        /\ report.operation = jobs[j].operation /\ report.target = jobs[j].target
        /\ report.rows = {} /\ report.audited = {}
    BY <1>1, <1>3 DEF JobTyped, Fields
  <2> HIDE DEF report
  <2>2. JobTyped(report)
    BY <1>1, <1>4, <2>1 DEF JobTyped, Pcs, Waiting, Working
  <2> QED BY <1>2, <1>3, <1>4, <2>1, <2>2, EarlyStep DEF Working
<1>5. CASE jobs[j].operation # "intelligence" /\ Become(j, new)
  <2>1. /\ DOMAIN new = Fields /\ new.pc = "ensure" /\ new.round = jobs[j].round
        /\ new.operation = jobs[j].operation /\ new.target = jobs[j].target
        /\ new.rows = {} /\ new.audited = {} /\ new.todo = Listed(j) /\ new.listed = Submitted
    BY <1>1, <1>3 DEF JobTyped, Fields
  <2> HIDE DEF new
  <2>2. JobTyped(new)
    BY <1>1, <1>5, <2>1 DEF JobTyped, Pcs, Waiting, Working
  <2>3. RowsSound(j, new, exam, snapshots, evaluations)
    BY <2>1 DEF RowsSound, OnePerSubmission, Disjoint
  <2>4. Wanted(new) = Listed(j) /\ Listed(j) \subseteq Submitted
    BY <1>3, <2>1 DEF Wanted, Listed
  <2>5. WorkSound(new, exam, snapshots, evaluations)
    BY <1>3, <2>1, <2>4 DEF WorkSound, Submitted
  <2>6. JobSound(j, new, exam, snapshots, evaluations)
    BY <2>1, <2>2, <2>3, <2>5 DEF JobSound
  <2>7. \A k \in Jobs : k # j => Disjoint(new.rows, jobs[k].rows)
    BY <2>1 DEF Disjoint
  <2> QED BY <1>2, <1>5, <2>6, <2>7, Step
<1> QED BY <1>2, <1>4, <1>5

\* What is seen is taken as it is; the next to insert comes first.
LEMMA EnsureSound ==
  ASSUME IInv, NEW j \in Jobs, Ensure(j)
  PROVE  IInv'
<1> DEFINE job == jobs[j]
           commit == [job EXCEPT !.pc = "commit"]
           seen(s) == [job EXCEPT !.todo = @ \ {s}]
           insert(s) == [job EXCEPT !.pc = "insert", !.current = s]
<1>1. JobTyped(job)
  BY DEF IInv, JobSound
<1>2. RowsSound(j, job, exam, snapshots, evaluations)
  BY DEF IInv, JobSound
<1>3. WorkSound(job, exam, snapshots, evaluations)
  BY DEF IInv, JobSound
<1>4. UNCHANGED <<exam, snapshots, evaluations, audits, outcomes>> /\ job.pc = "ensure"
  BY DEF Ensure
<1>5. \/ job.todo = {} /\ Become(j, commit)
      \/ \E s \in NextOf(job.todo) : \/ Visible(j, s) # {} /\ Become(j, seen(s))
                                     \/ Refuse(j, "content_unsupported")
                                     \/ exam # Unsupported /\ Become(j, insert(s))
  BY Zenon DEF Ensure, Go
<1>6. \A k \in Jobs : k # j => Disjoint(job.rows, jobs[k].rows)
  BY DEF IInv
<1>7. ASSUME NEW new, Become(j, new), DOMAIN new = Fields, new.pc \in Working,
             new.round = job.round, new.operation = job.operation, new.target = job.target,
             new.rows = job.rows, new.audited = job.audited, new.listed = job.listed,
             new.todo \subseteq job.todo,
             WorkSound(new, exam, snapshots, evaluations)
      PROVE  IInv'
  <2>1. JobTyped(new)
    BY <1>1, <1>4, <1>7 DEF JobTyped, Pcs, Waiting, Working
  <2>2. RowsSound(j, new, exam, snapshots, evaluations)
    BY <1>2, <1>7 DEF RowsSound
  <2>3. JobSound(j, new, exam, snapshots, evaluations)
    BY <1>7, <2>1, <2>2 DEF JobSound, Working
  <2> QED BY <1>4, <1>6, <1>7, <2>3, Step
<1> HIDE DEF job
<1>8. CASE job.todo = {} /\ Become(j, commit)
  <2>1. /\ DOMAIN commit = Fields /\ commit.pc = "commit" /\ commit.round = job.round
        /\ commit.operation = job.operation /\ commit.target = job.target
        /\ commit.todo = job.todo /\ commit.rows = job.rows /\ commit.audited = job.audited
        /\ commit.listed = job.listed
    BY <1>1, GoFields
  <2> HIDE DEF commit
  <2>2. WorkSound(commit, exam, snapshots, evaluations)
    BY <1>3, <1>4, <1>8, <2>1 DEF WorkSound, Waiting, Working, Wanted
  <2> QED BY <1>7, <1>8, <2>1, <2>2 DEF Working
<1>9. ASSUME NEW s \in NextOf(job.todo), Visible(j, s) # {}, Become(j, seen(s))
      PROVE  IInv'
  <2> DEFINE new == seen(s)
  <2>1. /\ DOMAIN new = Fields /\ new.pc = "ensure" /\ new.round = job.round
        /\ new.operation = job.operation /\ new.target = job.target
        /\ new.todo = job.todo \ {s} /\ new.rows = job.rows /\ new.audited = job.audited
        /\ new.listed = job.listed
    BY <1>1, <1>4 DEF JobTyped, Fields
  <2>2. Become(j, new) BY <1>9
  <2> HIDE DEF new
  <2>3. Covers(evaluations \cup job.rows, s)
    BY <1>9 DEF Visible, Covers, job
  <2>4. WorkSound(new, exam, snapshots, evaluations)
    BY <1>3, <1>4, <2>1, <2>3 DEF WorkSound, Waiting, Working, Wanted
  <2> QED BY <1>7, <2>1, <2>2, <2>4 DEF Working
<1>10. ASSUME NEW s \in NextOf(job.todo), exam # Unsupported, Become(j, insert(s))
       PROVE  IInv'
  <2> DEFINE new == insert(s)
  <2>1. /\ DOMAIN new = Fields /\ new.pc = "insert" /\ new.round = job.round
        /\ new.operation = job.operation /\ new.target = job.target
        /\ new.todo = job.todo /\ new.rows = job.rows /\ new.audited = job.audited
        /\ new.listed = job.listed /\ new.current = s
    BY <1>1 DEF JobTyped, Fields
  <2>2. Become(j, new) BY <1>10
  <2> HIDE DEF new
  <2>3. s \in job.todo /\ \A t \in job.todo : s <= t
    BY DEF NextOf
  <2>4. WorkSound(new, exam, snapshots, evaluations)
    BY <1>3, <1>4, <1>10, <2>1, <2>3 DEF WorkSound, Waiting, Working, Wanted
  <2> QED BY <1>7, <2>1, <2>2, <2>4 DEF Working
<1>11. CASE Refuse(j, "content_unsupported") BY <1>4, <1>11, RefuseStep
<1> QED BY <1>5, <1>8, <1>9, <1>10, <1>11
\* An insert adds a row for the first of the list, and only if nobody else has
\* inserted one.
LEMMA InsertSound ==
  ASSUME IInv, NEW j \in Jobs, Insert(j)
  PROVE  IInv'
<1> DEFINE job == jobs[j]
           s == job.current
           added == Inserted(j, s)
           new == [job EXCEPT !.pc = "ensure", !.todo = @ \ {s}, !.current = All,
                              !.rows = @ \cup added, !.audited = @ \cup {e.id : e \in added}]
<1>1. JobTyped(job)
  BY DEF IInv, JobSound
<1>2. RowsSound(j, job, exam, snapshots, evaluations)
  BY DEF IInv, JobSound
<1>3. WorkSound(job, exam, snapshots, evaluations)
  BY DEF IInv, JobSound
<1>4. /\ UNCHANGED <<exam, snapshots, evaluations, audits, outcomes>> /\ job.pc = "insert"
      /\ Become(j, new) /\ \A k \in Jobs : k # j => ~ Blocks(k, s)
  BY Zenon DEF Insert
<1>5. \A k \in Jobs : k # j => Disjoint(job.rows, jobs[k].rows)
  BY DEF IInv
<1>6. /\ DOMAIN new = Fields /\ new.pc = "ensure" /\ new.round = job.round
      /\ new.operation = job.operation /\ new.target = job.target
      /\ new.todo = job.todo \ {s} /\ new.listed = job.listed
      /\ new.rows = job.rows \cup added /\ new.audited = job.audited \cup {e.id : e \in added}
  BY <1>1 DEF JobTyped, Fields
<1>7. /\ exam # Unsupported /\ s \in job.todo /\ (\A t \in job.todo : s <= t)
      /\ job.todo \subseteq Submitted
  BY <1>3, <1>4 DEF WorkSound, Working, Submitted
<1>8. job.todo \subseteq Nat
  BY <1>7 DEF IInv, SnapshotsSound, Submissions, Submitted
<1>9. /\ added \subseteq {Candidate(j, s)}
      /\ added = {} <=> Covers(evaluations, s)
      /\ added # {} => added = {Candidate(j, s)}
  BY DEF Inserted, Covers
<1>10. ASSUME NEW e \in added
       PROVE  /\ e = Candidate(j, s)
              /\ e.submission = s /\ e.id = <<j, job.round, s>>
              /\ e.result = Evaluate(exam, snapshots[s])
  BY <1>9 DEF Candidate
<1>11. \A e \in added : ~ Covers(evaluations, e.submission)
  BY <1>9, <1>10
<1> HIDE DEF new, job, s, added
<1>12. \A e \in added : RowSound(e, exam, snapshots)
  BY <1>7, <1>10 DEF RowSound, Submitted
<1>13. \A t \in job.todo \ {s} : s < t
  BY <1>7, <1>8
<1>14. \A e \in job.rows : e.submission < s
  BY <1>2, <1>7 DEF RowsSound
<1>15. \A e \in job.rows : e.submission # s
  BY <1>7, <1>8, <1>14
<1>16. JobTyped(new)
  BY <1>1, <1>4, <1>6 DEF JobTyped, Pcs, Waiting, Working
<1>17. RowsSound(j, new, exam, snapshots, evaluations)
  <2>1. OnePerSubmission(new.rows)
    BY <1>2, <1>6, <1>10, <1>15 DEF RowsSound, OnePerSubmission
  <2>2. Disjoint(new.rows, evaluations)
    BY <1>2, <1>6, <1>11 DEF RowsSound, Disjoint, Covers
  <2>3. new.audited = {e.id : e \in new.rows}
    BY <1>2, <1>6 DEF RowsSound
  <2>4. ASSUME NEW e \in new.rows
        PROVE  /\ RowSound(e, exam, snapshots) /\ e.id = <<j, new.round, e.submission>>
               /\ \A t \in new.todo : e.submission < t
    <3>1. CASE e \in job.rows BY <1>2, <1>6, <3>1 DEF RowsSound
    <3>2. CASE e \in added BY <1>6, <1>10, <1>12, <1>13, <3>2
    <3> QED BY <1>6, <3>1, <3>2
  <2>5. new.pc \in Working BY <1>6 DEF Working
  <2> QED BY <2>1, <2>2, <2>3, <2>4, <2>5 DEF RowsSound
<1>18. Covers(evaluations \cup new.rows, s)
  <2>1. CASE added = {} BY <1>9, <2>1 DEF Covers
  <2>2. CASE added # {} BY <1>6, <1>10, <2>2 DEF Covers
  <2> QED BY <2>1, <2>2
<1>19. \A t : Covers(evaluations \cup job.rows, t) => Covers(evaluations \cup new.rows, t)
  BY <1>6 DEF Covers
<1>20. WorkSound(new, exam, snapshots, evaluations)
  BY <1>3, <1>4, <1>6, <1>18, <1>19 DEF WorkSound, Waiting, Working, Wanted
<1>21. JobSound(j, new, exam, snapshots, evaluations)
  BY <1>6, <1>16, <1>17, <1>20 DEF JobSound
<1>22. \A k \in Jobs : k # j => Disjoint(new.rows, jobs[k].rows)
  BY <1>4, <1>5, <1>6, <1>10 DEF Disjoint, Blocks
<1> QED BY <1>4, <1>21, <1>22, Step

LEMMA SubmitSound ==
  ASSUME IInv, NEW s \in Submissions, NEW responses \in Snapshots, Submit(s, responses)
  PROVE  IInv'
<1>1. /\ exam' = exam /\ evaluations' = evaluations /\ audits' = audits
      /\ outcomes' = outcomes /\ jobs' = jobs
      /\ exam # Unsupported => RequestValid(exam, responses)
      /\ s \notin DOMAIN snapshots
      /\ snapshots' = [t \in DOMAIN snapshots \cup {s} |-> IF t = s THEN responses ELSE snapshots[t]]
  BY DEF Submit, Submitted
<1>2. /\ DOMAIN snapshots' = DOMAIN snapshots \cup {s} /\ snapshots'[s] = responses
      /\ \A t \in DOMAIN snapshots : snapshots'[t] = snapshots[t]
  BY <1>1
<1>3. Grows(snapshots, snapshots') /\ SnapshotsSound(exam, snapshots')
  BY <1>1, <1>2 DEF Grows, SnapshotsSound, IInv
<1>4. EvaluationsSound(exam, snapshots', evaluations)
  BY <1>3, RowStays DEF EvaluationsSound, IInv
<1>5. \A j \in Jobs : JobSound(j, jobs[j], exam, snapshots, evaluations)
                      /\ Disjoint(jobs[j].rows, evaluations)
  BY DEF IInv, JobSound, RowsSound
<1>6. \A j \in Jobs : JobSound(j, jobs[j], exam, snapshots', evaluations)
  BY <1>3, <1>5, Bystander
<1> QED BY <1>1, <1>3, <1>4, <1>6 DEF IInv
-----------------------------------------------------------------------------
(* Policy v1: what an outcome says of the answer. *)

ResponseKinds == {"MULTIPLE_CHOICE", "TRUE_FALSE", "SHORT_ANSWER"}
ResponseTyped(response) ==
    /\ response.kind \in ResponseKinds
    /\ \/ IsText(response.value) /\ response.value = Text(response.value.text)
       \/ response.value = Truth(TRUE) /\ ~ IsText(response.value)
       \/ response.value = Truth(FALSE) /\ ~ IsText(response.value)

LEMMA SnapshotTyped ==
  ASSUME NEW responses \in Snapshots, NEW id \in DOMAIN responses
  PROVE  ResponseTyped(responses[id])
<1> DEFINE value == responses[id].value
<1>1. /\ responses[id].kind \in ResponseKinds
      /\ (IsText(value) /\ value = Text(value.text)) \/ value \in {Truth(TRUE), Truth(FALSE)}
  BY SnapshotAssumption, Zenon DEF ResponseKinds
<1>2. ~ IsText(Truth(TRUE)) /\ ~ IsText(Truth(FALSE))
  BY DEF IsText, Truth
<1> QED BY <1>1, <1>2 DEF ResponseTyped

LEMMA TextsDiffer ==
  ASSUME NEW t, NEW u
  PROVE  /\ Text(t) = Text(u) <=> t = u
         /\ Text(t).text = t
  BY DEF Text

LEMMA TruthsDiffer ==
  /\ Truth(TRUE).bool = TRUE /\ Truth(FALSE).bool = FALSE
  /\ Truth(TRUE) # Truth(FALSE)
  BY DEF Truth

KeyedBy(question) ==
    question.answer \in IF question.type = "multiple_choice" THEN question.options
                        ELSE TrueTexts \cup FalseTexts

\* An outcome is CORRECT if and only if the version says what is right and the
\* answer is that; it is INCORRECT only if there is an answer, and another one.
OutcomeSound(question, responses) ==
    LET outcome == EvaluateQuestion(question, responses).outcome
    IN /\ outcome = "CORRECT" <=> KeyedBy(question) /\ RightBy(question, responses)
       /\ outcome = "INCORRECT" => question.id \in DOMAIN responses /\ ~ RightBy(question, responses)

LEMMA ItemFields ==
  ASSUME NEW question, NEW outcome
  PROVE  /\ Item(question, outcome).outcome = outcome
         /\ Item(question, outcome).objectives = question.objectives
  BY DEF Item

LEMMA MultipleChoiceSound ==
  ASSUME NEW question, NEW responses, question.id \in DOMAIN responses,
         ResponseTyped(responses[question.id]), question.type = "multiple_choice",
         responses[question.id].kind = "MULTIPLE_CHOICE"
  PROVE  OutcomeSound(question, responses)
<1> DEFINE value == responses[question.id].value
           graded == IsText(value) /\ {value.text, question.answer} \subseteq question.options
           outcome == IF graded THEN IF value.text = question.answer THEN "CORRECT" ELSE "INCORRECT"
                      ELSE "UNEVALUATED_POLICY_REJECT"
<1>1. EvaluateQuestion(question, responses) = Item(question, outcome)
  BY DEF EvaluateQuestion, KindOf, MultipleChoice, Graded, PolicyReject
<1>2. RightBy(question, responses) <=> value = Text(question.answer)
  BY DEF RightBy
<1>3. value = Text(question.answer) => IsText(value) /\ value.text = question.answer
  BY TextsDiffer DEF IsText, Text
<1>4. IsText(value) /\ value.text = question.answer => value = Text(question.answer)
  BY Zenon DEF ResponseTyped
<1>5. KeyedBy(question) <=> question.answer \in question.options
  BY DEF KeyedBy
<1> HIDE DEF value
<1> QED BY <1>1, <1>2, <1>3, <1>4, <1>5, ItemFields DEF OutcomeSound

LEMMA TrueFalseSound ==
  ASSUME NEW question, NEW responses, question.id \in DOMAIN responses,
         ResponseTyped(responses[question.id]), question.type = "true_false",
         responses[question.id].kind = "TRUE_FALSE"
  PROVE  OutcomeSound(question, responses)
<1> DEFINE value == responses[question.id].value
           says == question.answer \in TrueTexts
           graded == ~ IsText(value) /\ question.answer \in TrueTexts \cup FalseTexts
           outcome == IF graded THEN IF value.bool <=> says THEN "CORRECT" ELSE "INCORRECT"
                      ELSE "UNEVALUATED_POLICY_REJECT"
<1>1. EvaluateQuestion(question, responses) = Item(question, outcome)
  BY DEF EvaluateQuestion, KindOf, TrueFalse, Graded, PolicyReject
<1>2. RightBy(question, responses) <=> value = Truth(says)
  BY DEF RightBy
<1>3. KeyedBy(question) <=> question.answer \in TrueTexts \cup FalseTexts
  BY DEF KeyedBy
<1>4. \/ IsText(value)
      \/ value = Truth(TRUE) /\ ~ IsText(value)
      \/ value = Truth(FALSE) /\ ~ IsText(value)
  BY DEF ResponseTyped
<1>5. (says => Truth(says) = Truth(TRUE)) /\ (~ says => Truth(says) = Truth(FALSE))
  <2>1. (says => says = TRUE) /\ (~ says => says = FALSE)
    OBVIOUS
  <2> QED BY <2>1, Zenon
<1>6. ~ IsText(Truth(TRUE)) /\ ~ IsText(Truth(FALSE))
  BY DEF Truth, IsText
<1>7. ~ IsText(Truth(says))
  BY <1>5, <1>6, Zenon
<1>8. Truth(TRUE).bool = TRUE /\ Truth(FALSE).bool = FALSE /\ Truth(TRUE) # Truth(FALSE)
  BY TruthsDiffer
<1> HIDE DEF value, says
<1>9. CASE IsText(value)
  <2>1. value # Truth(says)
    BY <1>7, <1>9, Zenon
  <2> QED BY <1>1, <1>2, <1>9, <2>1, ItemFields DEF OutcomeSound
<1>10. CASE value = Truth(TRUE) /\ ~ IsText(value)
  <2>1. value = Truth(says) <=> says
    <3>1. CASE says
      <4>1. Truth(says) = Truth(TRUE) BY <1>5, <3>1, Zenon
      <4> QED BY <1>8, <1>10, <3>1, <4>1
    <3>2. CASE ~ says
      <4>1. Truth(says) = Truth(FALSE) BY <1>5, <3>2, Zenon
      <4> QED BY <1>8, <1>10, <3>2, <4>1
    <3> QED BY <3>1, <3>2
  <2>2. (value.bool <=> says) <=> says
    BY <1>8, <1>10, Zenon
  <2>3. outcome = IF KeyedBy(question) THEN IF says THEN "CORRECT" ELSE "INCORRECT"
                  ELSE "UNEVALUATED_POLICY_REJECT"
    BY <1>3, <1>10, <2>2, Zenon
  <2> HIDE DEF outcome
  <2> QED BY <1>1, <1>2, <2>1, <2>3, ItemFields DEF OutcomeSound
<1>11. CASE value = Truth(FALSE) /\ ~ IsText(value)
  <2>1. value = Truth(says) <=> ~ says
    <3>1. CASE says
      <4>1. Truth(says) = Truth(TRUE) BY <1>5, <3>1, Zenon
      <4> QED BY <1>8, <1>11, <3>1, <4>1
    <3>2. CASE ~ says
      <4>1. Truth(says) = Truth(FALSE) BY <1>5, <3>2, Zenon
      <4> QED BY <1>8, <1>11, <3>2, <4>1
    <3> QED BY <3>1, <3>2
  <2>2. (value.bool <=> says) <=> ~ says
    BY <1>8, <1>11, Zenon
  <2>3. outcome = IF KeyedBy(question) THEN IF ~ says THEN "CORRECT" ELSE "INCORRECT"
                  ELSE "UNEVALUATED_POLICY_REJECT"
    BY <1>3, <1>11, <2>2, Zenon
  <2> HIDE DEF outcome
  <2> QED BY <1>1, <1>2, <2>1, <2>3, ItemFields DEF OutcomeSound
<1> QED BY <1>4, <1>9, <1>10, <1>11

LEMMA OutcomesAreSound ==
  ASSUME NEW responses \in Snapshots, NEW question
  PROVE  /\ OutcomeSound(question, responses)
         /\ EvaluateQuestion(question, responses).objectives = question.objectives
<1> DEFINE response == responses[question.id]
<1>1. CASE question.id \notin DOMAIN responses
  <2>1. EvaluateQuestion(question, responses) = Item(question, "UNANSWERED")
    BY <1>1 DEF EvaluateQuestion, Unanswered
  <2> QED BY <1>1, <2>1, ItemFields DEF OutcomeSound, RightBy
<1>2. CASE question.id \in DOMAIN responses /\ response.kind # KindOf(question.type)
  <2>1. EvaluateQuestion(question, responses) = Item(question, "UNEVALUATED_POLICY_REJECT")
    BY <1>2 DEF EvaluateQuestion, PolicyReject
  <2>2. ~ RightBy(question, responses)
    BY <1>2 DEF RightBy, KindOf
  <2> QED BY <2>1, <2>2, ItemFields DEF OutcomeSound
<1>3. CASE question.id \in DOMAIN responses /\ response.kind = KindOf(question.type)
  <2>1. ResponseTyped(response)
    BY <1>3, SnapshotTyped
  <2>2. question.type \in {"multiple_choice", "true_false", "short_answer"}
    BY <1>3, <2>1 DEF ResponseTyped, ResponseKinds, KindOf
  <2>3. CASE question.type = "multiple_choice"
    <3>1. OutcomeSound(question, responses)
      BY <1>3, <2>1, <2>3, MultipleChoiceSound DEF KindOf
    <3>2. EvaluateQuestion(question, responses).objectives = question.objectives
      BY <1>3, <2>3, ItemFields DEF EvaluateQuestion, MultipleChoice, Graded, PolicyReject
    <3> QED BY <3>1, <3>2
  <2>4. CASE question.type = "true_false"
    <3>1. OutcomeSound(question, responses)
      BY <1>3, <2>1, <2>4, TrueFalseSound DEF KindOf
    <3>2. EvaluateQuestion(question, responses).objectives = question.objectives
      BY <1>3, <2>4, ItemFields DEF EvaluateQuestion, TrueFalse, Graded, PolicyReject
    <3> QED BY <3>1, <3>2
  <2>5. CASE question.type = "short_answer"
    <3> DEFINE outcome == IF IsText(response.value) THEN "OPEN_RESPONSE_UNEVALUATED"
                          ELSE "UNEVALUATED_POLICY_REJECT"
    <3>1. EvaluateQuestion(question, responses) = Item(question, outcome)
      BY <1>3, <2>5 DEF EvaluateQuestion, ShortAnswer, PolicyReject
    <3>2. ~ RightBy(question, responses)
      BY <2>5 DEF RightBy
    <3> QED BY <3>1, <3>2, ItemFields DEF OutcomeSound
  <2> QED BY <2>2, <2>3, <2>4, <2>5
<1> QED BY <1>1, <1>2, <1>3

\* The item of a question in an evaluation is that of the question.
LEMMA ItemOf ==
  ASSUME NEW x, NEW responses, RequestValid(x, responses), NEW i \in DOMAIN x
  PROVE  /\ x[i].id \in DOMAIN Evaluate(x, responses).items
         /\ Evaluate(x, responses).items[x[i].id] = EvaluateQuestion(x[i], responses)
<1>1. x[i] \in Range(x) /\ \A q \in Range(x) : q.id = x[i].id => q = x[i]
  BY DEF Range, RequestValid
<1>2. (CHOOSE q \in Range(x) : q.id = x[i].id) = x[i]
  BY <1>1
<1> DEFINE ids == {x[k].id : k \in DOMAIN x}
           items == [id \in ids |-> EvaluateQuestion(CHOOSE q \in Range(x) : q.id = id, responses)]
<1>3. Evaluate(x, responses).items = items
  BY DEF Evaluate
<1>4. x[i].id \in ids
  OBVIOUS
<1>5. items[x[i].id] = EvaluateQuestion(CHOOSE q \in Range(x) : q.id = x[i].id, responses)
  BY <1>4, Zenon
<1>6. DOMAIN items = ids
  OBVIOUS
<1> HIDE DEF items, ids
<1> QED BY <1>2, <1>3, <1>4, <1>5, <1>6
\* The items a report shows of a learner are those of the evaluation there is.
LEMMA ProjectionOf ==
  ASSUME NEW ev, OnePerSubmission(ev), NEW s, NEW id
  PROVE  (/\ id \in DOMAIN LearnerProjection(s, ev).items
          /\ LearnerProjection(s, ev).items[id].outcome = "INCORRECT")
         <=> \E e \in ev : /\ e.submission = s /\ id \in DOMAIN e.result.items
                          /\ e.result.items[id].outcome = "INCORRECT"
<1>1. CASE CurrentOf(s, ev) = {}
  <2>1. LearnerProjection(s, ev).items = <<>>
    BY <1>1 DEF LearnerProjection
  <2>2. id \notin DOMAIN LearnerProjection(s, ev).items
    BY <2>1
  <2> QED BY <1>1, <2>2 DEF CurrentOf
<1>2. CASE CurrentOf(s, ev) # {}
  <2>1. PICK e \in ev : e.submission = s /\ \A f \in ev : f.submission = s => f = e
    BY <1>2 DEF CurrentOf, OnePerSubmission
  <2>2. CurrentOf(s, ev) = {e}
    BY <2>1 DEF CurrentOf
  <2>3. (CHOOSE f \in CurrentOf(s, ev) : TRUE) = e
    BY <2>2
  <2>4. LearnerProjection(s, ev).items = e.result.items
    BY <1>2, <2>3 DEF LearnerProjection
  <2> QED BY <2>1, <2>4
<1> QED BY <1>1, <1>2

\* A report counts a question as often as an evaluation calls it wrong.
LEMMA MissedCounts ==
  ASSUME NEW listed, NEW ev, NEW id, CountOf(id, "INCORRECT", ev) \in Nat
  PROVE  TimesMissed(Report(listed, ev), id) = CountOf(id, "INCORRECT", ev)
<1> DEFINE n == CountOf(id, "INCORRECT", ev)
           missed == Report(listed, ev).missed
<1>1. missed = FrequentlyMissed(ev)
  BY DEF Report
<1>2. id \in DOMAIN missed <=> id \in QuestionIdsOf(ev) /\ n > 0
  BY <1>1 DEF FrequentlyMissed
<1>3. id \in DOMAIN missed => missed[id] = n
  BY <1>1 DEF FrequentlyMissed
<1>4. id \notin QuestionIdsOf(ev) => n = 0
  <2> SUFFICES ASSUME id \notin QuestionIdsOf(ev) PROVE n = 0
    OBVIOUS
  <2>1. {e \in ev : id \in DOMAIN e.result.items /\ e.result.items[id].outcome = "INCORRECT"} = {}
    BY DEF QuestionIdsOf
  <2> QED BY <2>1, FS_EmptySet DEF CountOf
<1> HIDE DEF n, missed
<1>5. (IF id \in DOMAIN missed THEN missed[id] ELSE 0) = n
  BY <1>2, <1>3, <1>4 DEF n
<1> QED BY <1>5 DEF TimesMissed, n, missed

\* One evaluation calls a question wrong for every learner who is blamed, and
\* for others only if they submitted too late to be listed.
LEMMA MissedBound ==
  ASSUME NEW x, NEW sn, NEW ev, NEW listed, x # Unsupported, SnapshotsSound(x, sn),
         EvaluationsSound(x, sn, ev), NEW i \in DOMAIN x
  PROVE  Balanced(Report(listed, ev), x[i], sn)
<1> DEFINE report == Report(listed, ev)
           missed == {e \in ev : /\ x[i].id \in DOMAIN e.result.items
                                 /\ e.result.items[x[i].id].outcome = "INCORRECT"}
           wrong == Wrong(x[i], sn)
           shown == ShownWrong(report, x[i].id)
           blamable == Blamable(report, x[i], sn)
<1>1. ASSUME NEW e \in missed
      PROVE  e.submission \in wrong
  <2>1. /\ e.submission \in DOMAIN sn /\ e.result = Evaluate(x, sn[e.submission])
    BY DEF EvaluationsSound, RowSound
  <2>2. sn[e.submission] \in Snapshots /\ RequestValid(x, sn[e.submission])
    BY <2>1 DEF SnapshotsSound
  <2>3. e.result.items[x[i].id] = EvaluateQuestion(x[i], sn[e.submission])
    BY <2>1, <2>2, ItemOf
  <2>4. OutcomeSound(x[i], sn[e.submission])
    BY <2>2, OutcomesAreSound
  <2>5. x[i].id \in DOMAIN sn[e.submission] /\ ~ RightBy(x[i], sn[e.submission])
    BY <2>3, <2>4 DEF OutcomeSound
  <2> QED BY <2>1, <2>5 DEF Wrong
<1>2. \A e, f \in missed : e.submission = f.submission => e = f
  BY DEF EvaluationsSound, OnePerSubmission
<1>3. shown = {s \in listed : \E e \in missed : e.submission = s}
  <2>1. report.learners = [s \in listed |-> LearnerProjection(s, ev)]
    BY DEF Report
  <2>2. ASSUME NEW s \in listed
        PROVE  s \in shown <=> \E e \in missed : e.submission = s
    BY <2>1, ProjectionOf DEF ShownWrong, EvaluationsSound
  <2>3. shown \subseteq listed
    BY <2>1 DEF ShownWrong
  <2> QED BY <2>2, <2>3
<1>4. blamable = shown \cup (wrong \ listed)
  BY DEF Blamable, Report
<1>5. CountOf(x[i].id, "INCORRECT", ev) = Cardinality(missed)
  BY DEF CountOf
<1>6. IsFiniteSet(wrong)
  BY WrongFinite DEF SnapshotsSound
<1> HIDE DEF missed, wrong, shown, blamable, report
<1> DEFINE of == [e \in missed |-> e.submission]
           by == [s \in shown |-> CHOOSE e \in missed : e.submission = s]
<1>7. blamable \in SUBSET wrong /\ shown \subseteq wrong
  BY <1>1, <1>3, <1>4
<1>8. IsFiniteSet(blamable)
  BY <1>6, <1>7, FS_Subset
<1>9. of \in Injection(missed, blamable)
  BY <1>1, <1>2, <1>3, <1>4 DEF Injection, IsInjective
<1>10. IsFiniteSet(missed) /\ Cardinality(missed) <= Cardinality(blamable)
  BY <1>8, <1>9, FS_Injection
<1>11. \A s \in shown : by[s] \in missed /\ by[s].submission = s
  BY <1>3
<1>12. by \in Injection(shown, missed)
  BY <1>11 DEF Injection, IsInjective
<1>13. Cardinality(shown) <= Cardinality(missed)
  BY <1>10, <1>12, FS_Injection
<1>14. Cardinality(missed) \in Nat
  BY <1>10, FS_CardinalityType
<1>15. TimesMissed(report, x[i].id) = Cardinality(missed)
  BY <1>5, <1>14, MissedCounts DEF report
<1> QED
  BY <1>7, <1>10, <1>13, <1>14, <1>15 DEF Balanced, shown, wrong, blamable, report

LEMMA ShowReportSound ==
  ASSUME IInv, NEW j \in Jobs, ShowReport(j)
  PROVE  IInv'
<1> DEFINE answer == [status |-> "ok", report |-> Report(jobs[j].listed, evaluations)]
           done == Done(jobs[j], answer)
<1>1. JobTyped(jobs[j]) BY DEF IInv, JobSound
<1>2. /\ UNCHANGED <<exam, snapshots, evaluations, audits, outcomes>> /\ jobs[j].pc = "report"
      /\ Answer(j, answer)
  BY Zenon DEF ShowReport
<1>3. /\ done.operation = "intelligence" /\ done.answer = answer
  BY <1>1, <1>2 DEF Done, JobTyped, Fields
<1>4. answer.report = Report(jobs[j].listed, evaluations)
  OBVIOUS
<1> HIDE DEF done, answer
<1>5. ASSUME exam # Unsupported
      PROVE  BlamesRightly(done, exam, snapshots)
  <2>1. ASSUME NEW i \in DOMAIN exam
        PROVE  Balanced(Report(jobs[j].listed, evaluations), exam[i], snapshots)
    BY <1>5, MissedBound DEF IInv
  <2> QED BY <1>3, <1>4, <2>1 DEF BlamesRightly
<1>6. AnswerSound(done, exam, snapshots, evaluations)
  BY <1>3, <1>5 DEF AnswerSound
<1> QED BY <1>2, <1>6, AnswerStep DEF done

\* What commits is new, and what others have inserted is for other submissions.
LEMMA CommitSound ==
  ASSUME IInv, NEW j \in Jobs, Commit(j)
  PROVE  IInv'
<1> DEFINE job == jobs[j]
           covered == IF job.target = All THEN job.listed ELSE {job.target}
           ok == [status |-> "ok", id |-> EvaluationOf(j), covered |-> covered]
           lost == [status |-> "lost"]
           outcome == [operation |-> job.operation, key |-> job.key,
                       target |-> job.target, id |-> EvaluationOf(j)]
           ev == evaluations \cup job.rows
<1>1. JobTyped(job)
  BY DEF IInv, JobSound
<1>2. RowsSound(j, job, exam, snapshots, evaluations)
  BY DEF IInv, JobSound
<1>3. WorkSound(job, exam, snapshots, evaluations)
  BY DEF IInv, JobSound
<1>4. /\ exam' = exam /\ snapshots' = snapshots /\ job.pc = "commit" /\ evaluations' = ev
      /\ audits' = audits \cup {[evaluation |-> id, by |-> <<j, job.round>>] : id \in job.audited}
      /\ outcomes' = outcomes \cup {outcome}
      /\ Become(j, Done(job, ok)) \/ Become(j, Done(job, lost))
  BY Zenon DEF Commit, Answer, Refuse, Done
<1>5. job.todo = {} /\ job.operation # "intelligence"
  BY <1>1, <1>3, <1>4 DEF WorkSound, JobTyped, Working
<1>6. \A s \in Wanted(job) : Covers(ev, s)
  BY <1>3, <1>4, <1>5 DEF WorkSound, Working
<1>7. ASSUME job.operation = "ensure_submission"
      PROVE  \E e \in ev : e.id = EvaluationOf(j) /\ e.submission = job.target
  <2>1. job.target # All /\ Covers(ev, job.target)
    BY <1>1, <1>6, <1>7 DEF JobTyped, Wanted
  <2>2. PICK e \in Visible(j, job.target) : TRUE
    BY <2>1 DEF Visible, Covers
  <2>3. (CHOOSE f \in Visible(j, job.target) : TRUE) \in Visible(j, job.target)
    BY <2>2
  <2> QED BY <2>1, <2>3 DEF EvaluationOf, Visible
<1>8. EvaluationsSound(exam, snapshots, ev)
  BY <1>2 DEF IInv, EvaluationsSound, RowsSound, OnePerSubmission, Disjoint
<1>9. audits' = {AuditOf(e) : e \in ev}
  <2>1. {[evaluation |-> id, by |-> <<j, job.round>>] : id \in job.audited} = {AuditOf(e) : e \in job.rows}
    <3>1. \A e \in job.rows : AuditOf(e) = [evaluation |-> e.id, by |-> <<j, job.round>>]
      BY <1>2 DEF RowsSound, AuditOf
    <3>2. job.audited = {e.id : e \in job.rows}
      BY <1>2 DEF RowsSound
    <3> DEFINE record(id) == [evaluation |-> id, by |-> <<j, job.round>>]
    <3>3. \A e \in job.rows : AuditOf(e) = record(e.id)
      BY <3>1
    <3> HIDE DEF job, record
    <3>4. {record(id) : id \in job.audited} = {AuditOf(e) : e \in job.rows}
      BY <3>2, <3>3
    <3> QED BY <3>4 DEF record
  <2> QED BY <1>4, <2>1 DEF IInv
<1>10. OutcomesSound(outcomes', ev)
  <2>1. outcome.operation = job.operation /\ outcome.target = job.target /\ outcome.id = EvaluationOf(j)
    OBVIOUS
  <2>2. OutcomesSound(outcomes, ev)
    BY DEF IInv, OutcomesSound
  <2> HIDE DEF outcome, ev, job
  <2> QED BY <1>4, <1>7, <2>1, <2>2 DEF OutcomesSound
<1>11. \A k \in Jobs : k # j => Disjoint(job.rows, jobs[k].rows) /\ Disjoint(jobs[k].rows, job.rows)
  BY DEF IInv
<1>12. ASSUME NEW k \in Jobs, k # j
       PROVE  JobSound(k, jobs[k], exam, snapshots, ev)
  <2>1. JobSound(k, jobs[k], exam, snapshots, evaluations)
    BY DEF IInv
  <2>2. Disjoint(jobs[k].rows, evaluations)
    BY <2>1 DEF JobSound, RowsSound
  <2>3. Disjoint(jobs[k].rows, ev)
    BY <1>11, <1>12, <2>2 DEF Disjoint
  <2>4. Grows(snapshots, snapshots)
    BY DEF IInv, SnapshotsSound, Grows
  <2> QED BY <2>1, <2>3, <2>4, Bystander
<1>13. AnswerSound(Done(job, ok), exam, snapshots, ev)
  <2> DEFINE done == Done(job, ok)
  <2>1. /\ done.operation = job.operation /\ done.target = job.target /\ done.answer = ok
    BY <1>1 DEF Done, JobTyped, Fields
  <2>2. ok.id = EvaluationOf(j) /\ ok.covered = covered
    OBVIOUS
  <2>3. covered = Wanted(job)
    BY DEF Wanted
  <2> HIDE DEF done, ok, covered, ev, job
  <2>4. NamesOne(done, ev) \/ done.operation # "ensure_submission"
    BY <1>7, <2>1, <2>2 DEF NamesOne
  <2>5. CoversAll(done, ev)
    BY <1>6, <2>1, <2>2, <2>3 DEF CoversAll
  <2> QED BY <1>5, <2>1, <2>4, <2>5 DEF AnswerSound, done
<1>14. PICK new : Become(j, new) /\ JobSound(j, new, exam, snapshots, ev) /\ new.rows = {}
  <2>1. CASE Become(j, Done(job, ok)) BY <1>1, <1>13, <2>1, DoneSound
  <2>2. CASE Become(j, Done(job, lost))
    <3>1. lost.status # "ok" OBVIOUS
    <3> QED BY <1>1, <2>2, <3>1, DoneSound
  <2> QED BY <1>4, <2>1, <2>2
<1>15. /\ jobs' = [k \in Jobs |-> jobs'[k]] /\ jobs'[j] = new
       /\ \A k \in Jobs : k # j => jobs'[k] = jobs[k]
  BY <1>14, Update DEF IInv
<1> HIDE DEF job, ev, outcome
<1>16. \A k \in Jobs : JobSound(k, jobs'[k], exam, snapshots, ev)
  BY <1>12, <1>14, <1>15
<1>17. \A k, l \in Jobs : k # l => Disjoint(jobs'[k].rows, jobs'[l].rows)
  BY <1>14, <1>15 DEF IInv, Disjoint
<1> QED BY <1>4, <1>8, <1>9, <1>10, <1>15, <1>16, <1>17 DEF IInv
-----------------------------------------------------------------------------
(* The invariant, and the properties it carries. *)

LEMMA InitSound == Init => IInv
<1> SUFFICES ASSUME Init PROVE IInv
  OBVIOUS
<1> DEFINE start == [pc |-> "idle", round |-> 0, operation |-> "intelligence", key |-> NoKey,
                     target |-> All, todo |-> {}, rows |-> {}, audited |-> {}, listed |-> {},
                     current |-> All, answer |-> [status |-> "none"]]
<1>1. /\ exam \in Exams \cup {Unsupported} /\ snapshots = <<>> /\ evaluations = {}
      /\ audits = {} /\ outcomes = {} /\ jobs = [j \in Jobs |-> start]
  BY Zenon DEF Init
<1>2. /\ DOMAIN start = Fields /\ start.pc = "idle" /\ start.round = 0
      /\ start.operation = "intelligence" /\ start.target = All
      /\ start.rows = {} /\ start.audited = {}
  BY DEF Fields
<1>3. JobTyped(start)
  BY <1>2 DEF JobTyped, Pcs, Waiting, Working, Operations
<1> HIDE DEF start
<1>4. \A j : JobSound(j, start, exam, snapshots, evaluations)
  BY <1>2, <1>3, EarlySound DEF Waiting, Working
<1>5. DOMAIN snapshots = {}
  BY <1>1
<1>6. SnapshotsSound(exam, snapshots) /\ EvaluationsSound(exam, snapshots, evaluations)
      /\ OutcomesSound(outcomes, evaluations) /\ audits = {AuditOf(e) : e \in evaluations}
  BY <1>1, <1>5 DEF SnapshotsSound, EvaluationsSound, OutcomesSound, OnePerSubmission
<1>7. \A j \in Jobs : jobs[j] = start
  BY <1>1
<1>8. jobs = [j \in Jobs |-> jobs[j]]
  BY <1>1
<1>9. \A j, k \in Jobs : j # k => Disjoint(jobs[j].rows, jobs[k].rows)
  BY <1>2, <1>7 DEF Disjoint
<1> QED BY <1>1, <1>4, <1>6, <1>7, <1>8, <1>9 DEF IInv

LEMMA StutterSound == IInv /\ UNCHANGED vars => IInv'
  BY DEF IInv, vars

\* No step of a learner, a request, the network or a crash breaks the
\* invariant: rows, audit records, outcomes and answers belong together at
\* every commit (evaluation_ensure.py:150, repositories.py:290).
THEOREM Invariance == Spec => []IInv
<1>1. Init => IInv BY InitSound
<1>2. IInv /\ [Next]_vars => IInv'
  <2> SUFFICES ASSUME IInv, [Next]_vars PROVE IInv'
    OBVIOUS
  <2>1. CASE UNCHANGED vars BY <2>1, StutterSound
  <2>2. ASSUME NEW s \in Submissions, NEW responses \in Snapshots, Submit(s, responses)
        PROVE  IInv'
    BY <2>2, SubmitSound
  <2>3. ASSUME NEW j \in Jobs, NEW operation \in Operations, NEW key \in Keys,
               NEW target \in {All} \cup Submissions, Ask(j, operation, key, target)
        PROVE  IInv'
    BY <2>3, AskSound
  <2>4. ASSUME NEW j \in Jobs,
               \/ Preview(j) \/ Acquire(j) \/ Read(j) \/ Ensure(j) \/ Insert(j) \/ Commit(j)
               \/ Fail(j) \/ ShowReport(j)
        PROVE  IInv'
    BY <2>4, PreviewSound, AcquireSound, ReadSound, EnsureSound, InsertSound, CommitSound,
       FailSound, ShowReportSound
  <2> QED BY <2>1, <2>2, <2>3, <2>4 DEF Next
<1> QED BY <1>1, <1>2, PTL DEF Spec

\* However requests race, a submission has one evaluation, the evaluation one
\* audit record, and every answer about the submission, fresh or replayed,
\* names that evaluation (evaluation_ensure.py:150, repositories.py:254).
THEOREM EvaluatedOnce == Spec => []OneEvaluation
<1>1. IInv => OneEvaluation
  <2> SUFFICES ASSUME IInv PROVE OneEvaluation
    OBVIOUS
  <2>1. \A e, f \in evaluations : e.submission = f.submission => e = f
    BY DEF IInv, EvaluationsSound, OnePerSubmission
  <2>2. ASSUME NEW e \in evaluations
        PROVE  \E a \in audits : /\ a.evaluation = e.id
                                 /\ \A b \in audits : b.evaluation = e.id => b = a
    <3>1. AuditOf(e) \in audits /\ AuditOf(e).evaluation = e.id
      BY DEF IInv, AuditOf
    <3>2. ASSUME NEW b \in audits, b.evaluation = e.id
          PROVE  b = AuditOf(e)
      <4>1. PICK f \in evaluations : b = AuditOf(f)
        BY DEF IInv
      <4>2. f.id = e.id
        BY <3>2, <4>1 DEF AuditOf
      <4> QED BY <4>1, <4>2 DEF AuditOf
    <3> QED BY <3>1, <3>2
  <2>3. \A j \in Jobs : Answered(j) /\ jobs[j].operation = "ensure_submission" =>
            \E e \in evaluations : e.id = jobs[j].answer.id /\ e.submission = jobs[j].target
    BY DEF IInv, JobSound, AnswerSound, NamesOne, Answered
  <2> QED BY <2>1, <2>2, <2>3 DEF OneEvaluation
<1> QED BY <1>1, Invariance, PTL

\* A request for the whole assignment that is answered by its own transaction
\* leaves no submission of its list unevaluated (evaluation_ensure.py:386).
THEOREM BatchCompletes == Spec => []BatchIsComplete
<1>1. IInv => BatchIsComplete
  BY DEF IInv, JobSound, AnswerSound, CoversAll, Covers, Answered, BatchIsComplete
<1> QED BY <1>1, Invariance, PTL

\* Some submissions have a last one.
LEMMA Greatest ==
  ASSUME NEW S, S \subseteq Submissions, S # {}
  PROVE  \E m \in S : \A n \in S : n <= m
<1> DEFINE T == {NumSubmissions - n : n \in S}
<1>1. NumSubmissions \in Nat /\ \A n \in S : n \in Nat /\ n <= NumSubmissions
  BY BoundAssumption DEF Submissions
<1>2. T \subseteq Nat /\ T # {}
  BY <1>1
<1> HIDE DEF T
<1>3. PICK t \in T : \A u \in T : <<u, t>> \notin OpToRel(<, Nat)
  BY <1>2, WFMin, NatLessThanWellFounded, Zenon
<1>4. t \in Nat /\ \A u \in T : u \in Nat /\ ~ (u < t)
  BY <1>2, <1>3 DEF OpToRel
<1>5. PICK m \in S : t = NumSubmissions - m
  BY DEF T
<1>6. ASSUME NEW n \in S PROVE n <= m
  <2>1. NumSubmissions - n \in T BY DEF T
  <2>2. ~ (NumSubmissions - n < NumSubmissions - m) BY <1>4, <1>5, <2>1
  <2> QED BY <1>1, <2>2
<1> QED BY <1>5, <1>6

\* Who waits for a row waits for a request that has come further in the list:
\* the one that has come furthest waits for nobody, and whoever waits for a
\* scope holds nothing (evaluation_ensure.py:386, repositories.py:388).
THEOREM NobodyWaitsInACircle == Spec => []NoWaitCycle
<1>1. IInv => NoWaitCycle
  <2> SUFFICES ASSUME IInv, NEW circle \in (SUBSET Jobs) \ {{}},
                      \A j \in circle : \E k \in circle : Waits(j, k)
               PROVE  FALSE
    BY DEF NoWaitCycle
  <2>1. \A j \in circle : j \in Jobs /\ jobs[j].pc \in {"scope", "insert"}
    BY DEF Waits
  <2> DEFINE inserting == {j \in circle : jobs[j].pc = "insert"}
             currents == {jobs[j].current : j \in inserting}
  <2>2. CASE inserting = {}
    <3>1. \A k \in circle : jobs[k].pc = "scope"
      BY <2>1, <2>2
    <3> QED BY <3>1 DEF Waits, InTransaction
  <2>3. CASE inserting # {}
    <3>1. ASSUME NEW j \in inserting
          PROVE  /\ jobs[j].current \in Submissions /\ jobs[j].current \in jobs[j].todo
      <4>1. WorkSound(jobs[j], exam, snapshots, evaluations)
        BY <2>1 DEF IInv, JobSound
      <4> QED BY <4>1 DEF WorkSound, Working, IInv, SnapshotsSound
    <3>2. PICK m \in currents : \A n \in currents : n <= m
      <4>1. currents \subseteq Submissions /\ currents # {}
        BY <2>3, <3>1
      <4> HIDE DEF currents
      <4> QED BY <4>1, Greatest
    <3>3. PICK j \in inserting : jobs[j].current = m
      OBVIOUS
    <3>4. PICK k \in circle : Waits(j, k)
      OBVIOUS
    <3>5. PICK e \in jobs[k].rows : e.submission = m
      BY <3>3, <3>4 DEF Waits, Blocks
    <3>6. RowsSound(k, jobs[k], exam, snapshots, evaluations)
      BY <2>1 DEF IInv, JobSound
    <3>7. k \in inserting
      BY <2>1, <3>5, <3>6 DEF RowsSound, Working
    <3>8. m < jobs[k].current
      BY <3>1, <3>5, <3>6, <3>7 DEF RowsSound
    <3>9. jobs[k].current <= m
      BY <3>2, <3>7
    <3>10. m \in Nat /\ jobs[k].current \in Nat
      BY <3>1, <3>3, <3>7 DEF Submissions
    <3> QED BY <3>8, <3>9, <3>10
  <2> QED BY <2>2, <2>3
<1> QED BY <1>1, Invariance, PTL

LEMMA RollupSound ==
  ASSUME NEW results, results # {}
  PROVE  /\ Rollup(results) = "DEMONSTRATED_ON_SUBMITTED_ITEMS" <=> results = {"CORRECT"}
         /\ Rollup(results) \in {"NOT_YET_DEMONSTRATED_ON_SUBMITTED_ITEMS", "MIXED_ON_SUBMITTED_ITEMS"} =>
               results \subseteq Authoritative /\ "INCORRECT" \in results
         /\ Rollup(results) = "NOT_YET_DEMONSTRATED_ON_SUBMITTED_ITEMS" => results = {"INCORRECT"}
<1>1. CASE ~ results \subseteq Authoritative
  <2>1. Rollup(results) = "INSUFFICIENT_EVIDENCE"
    BY <1>1 DEF Rollup, Authoritative
  <2> QED BY <1>1, <2>1 DEF Authoritative
<1>2. CASE results = {"CORRECT"} BY <1>2 DEF Rollup, Authoritative
<1>3. CASE results = {"INCORRECT"} BY <1>3 DEF Rollup, Authoritative
<1>4. CASE results = Authoritative BY <1>4 DEF Rollup, Authoritative
<1>5. results \subseteq Authoritative =>
        results = {"CORRECT"} \/ results = {"INCORRECT"} \/ results = Authoritative
  BY DEF Authoritative
<1> QED BY <1>1, <1>2, <1>3, <1>4, <1>5

\* The evidence for an objective is the rollup of the outcomes on it.
LEMMA EvidenceOf ==
  ASSUME NEW x, NEW responses \in Snapshots, RequestValid(x, responses),
         NEW o \in DOMAIN Evaluate(x, responses).evidence
  PROVE  \E on :
            /\ on = {EvaluateQuestion(q, responses).outcome : q \in {r \in Range(x) : o \in r.objectives}}
            /\ on # {} /\ Evaluate(x, responses).evidence[o] = Rollup(on)
<1> DEFINE items == Evaluate(x, responses).items
           asked == {r \in Range(x) : o \in r.objectives}
           on == {EvaluateQuestion(q, responses).outcome : q \in asked}
           rolled == {item.outcome : item \in {i \in Range(items) : o \in i.objectives}}
           ids == {x[i].id : i \in DOMAIN x}
<1>1. Evaluate(x, responses).evidence = ObjectiveEvidence(items)
  BY DEF Evaluate
<1>2. /\ Evaluate(x, responses).evidence[o] = Rollup(rolled)
      /\ \E item \in Range(items) : o \in item.objectives
  BY <1>1 DEF ObjectiveEvidence
<1>3. DOMAIN items = ids
  BY DEF Evaluate
<1>4. \A q \in Range(x) : /\ q.id \in ids /\ items[q.id] = EvaluateQuestion(q, responses)
                          /\ EvaluateQuestion(q, responses).objectives = q.objectives
  BY <1>3, ItemOf, OutcomesAreSound DEF Range
<1>5. \A id \in ids : \E q \in Range(x) : q.id = id
  BY DEF Range
<1> HIDE DEF items, ids
<1>6. \A item : item \in Range(items) <=> \E q \in Range(x) : item = EvaluateQuestion(q, responses)
  BY <1>3, <1>4, <1>5 DEF Range
<1>7. rolled = on
  <2>1. ASSUME NEW c \in rolled PROVE c \in on
    <3>1. PICK item \in Range(items) : o \in item.objectives /\ c = item.outcome
      OBVIOUS
    <3>2. PICK q \in Range(x) : item = EvaluateQuestion(q, responses)
      BY <1>6, <3>1
    <3> QED BY <1>4, <3>1, <3>2
  <2>2. ASSUME NEW c \in on PROVE c \in rolled
    <3>1. PICK q \in asked : c = EvaluateQuestion(q, responses).outcome
      OBVIOUS
    <3> QED BY <1>4, <1>6, <3>1
  <2> QED BY <2>1, <2>2
<1>8. on # {}
  BY <1>2, <1>4, <1>6
<1> QED BY <1>2, <1>7, <1>8
LEMMA RightAgrees ==
  ASSUME NEW question, NEW s
  PROVE  /\ Right(question, s) <=> RightBy(question, snapshots[s])
         /\ Keyed(question) <=> KeyedBy(question)
  BY DEF Right, RightBy, Keyed, KeyedBy

\* Evidence is never better than the snapshot: an objective counts as
\* demonstrated if and only if the content version has a right answer to every
\* question on it and the submission gave it; as mixed or not yet demonstrated
\* only if every question was answered and one of them not rightly, as not yet
\* demonstrated only if none was (evaluation_policy_v1.py:222).
THEOREM EvidenceIsSound == Spec => []EvidenceSound
<1>1. IInv => EvidenceSound
  <2> SUFFICES ASSUME IInv, NEW e \in evaluations, NEW o \in DOMAIN e.result.evidence
               PROVE  LET on == {q \in Questions : o \in q.objectives}
                          given == {q \in on : q.id \in DOMAIN snapshots[e.submission]}
                      IN /\ e.result.evidence[o] = "DEMONSTRATED_ON_SUBMITTED_ITEMS" <=>
                               \A q \in on : Keyed(q) /\ Right(q, e.submission)
                         /\ e.result.evidence[o] \in {"NOT_YET_DEMONSTRATED_ON_SUBMITTED_ITEMS",
                                                      "MIXED_ON_SUBMITTED_ITEMS"} =>
                               given = on /\ \E q \in on : ~ Right(q, e.submission)
                         /\ e.result.evidence[o] = "NOT_YET_DEMONSTRATED_ON_SUBMITTED_ITEMS" =>
                               \A q \in on : ~ Right(q, e.submission)
    BY Zenon DEF EvidenceSound
  <2> DEFINE responses == snapshots[e.submission]
             on == {q \in Questions : o \in q.objectives}
             Outcome(q) == EvaluateQuestion(q, responses).outcome
             found == e.result.evidence[o]
  <2>1. /\ exam # Unsupported /\ e.submission \in DOMAIN snapshots
        /\ e.result = Evaluate(exam, responses)
    BY DEF IInv, EvaluationsSound, RowSound
  <2>2. responses \in Snapshots /\ RequestValid(exam, responses)
    BY <2>1 DEF IInv, SnapshotsSound
  <2>3. on = {r \in Range(exam) : o \in r.objectives}
    BY <2>1 DEF Questions
  <2>4. PICK results : /\ results = {Outcome(q) : q \in {r \in Range(exam) : o \in r.objectives}}
                       /\ results # {} /\ found = Rollup(results)
    BY <2>1, <2>2, EvidenceOf
  <2>5. results = {Outcome(q) : q \in on}
    BY <2>3, <2>4
  <2>6. ASSUME NEW q \in on
        PROVE  /\ Outcome(q) = "CORRECT" <=> Keyed(q) /\ Right(q, e.submission)
               /\ Outcome(q) = "INCORRECT" => q.id \in DOMAIN responses /\ ~ Right(q, e.submission)
               /\ Outcome(q) = "CORRECT" => q.id \in DOMAIN responses
    <3>1. OutcomeSound(q, responses)
      BY <2>2, OutcomesAreSound
    <3>2. RightBy(q, responses) => q.id \in DOMAIN responses
      BY DEF RightBy
    <3> QED BY <3>1, <3>2, RightAgrees DEF OutcomeSound
  <2> HIDE DEF on, found, Outcome, responses
  <2>7. /\ found = "DEMONSTRATED_ON_SUBMITTED_ITEMS" <=> results = {"CORRECT"}
        /\ found \in {"NOT_YET_DEMONSTRATED_ON_SUBMITTED_ITEMS", "MIXED_ON_SUBMITTED_ITEMS"} =>
              results \subseteq Authoritative /\ "INCORRECT" \in results
        /\ found = "NOT_YET_DEMONSTRATED_ON_SUBMITTED_ITEMS" => results = {"INCORRECT"}
    BY <2>4, RollupSound
  <2>8. results = {"CORRECT"} <=> \A q \in on : Outcome(q) = "CORRECT"
    BY <2>4, <2>5
  <2>9. found = "DEMONSTRATED_ON_SUBMITTED_ITEMS" <=> \A q \in on : Keyed(q) /\ Right(q, e.submission)
    BY <2>6, <2>7, <2>8
  <2>10. ASSUME found \in {"NOT_YET_DEMONSTRATED_ON_SUBMITTED_ITEMS", "MIXED_ON_SUBMITTED_ITEMS"}
         PROVE  /\ {q \in on : q.id \in DOMAIN responses} = on
                /\ \E q \in on : ~ Right(q, e.submission)
    <3>1. results \subseteq {"CORRECT", "INCORRECT"} /\ "INCORRECT" \in results
      BY <2>7, <2>10 DEF Authoritative
    <3>2. \A q \in on : q.id \in DOMAIN responses
      BY <2>5, <2>6, <3>1
    <3>3. \E q \in on : ~ Right(q, e.submission)
      BY <2>5, <2>6, <3>1
    <3> QED BY <3>2, <3>3
  <2>11. ASSUME found = "NOT_YET_DEMONSTRATED_ON_SUBMITTED_ITEMS", NEW q \in on
         PROVE  ~ Right(q, e.submission)
    BY <2>5, <2>6, <2>7, <2>11
  <2> QED BY <2>9, <2>10, <2>11 DEF on, found, responses
<1> QED BY <1>1, Invariance, PTL

\* A report blames learners for wrong answers only, counts each of them, and
\* beyond them only such as submitted after its list was read (intelligence.py:196).
THEOREM MissedAreWrong == Spec => []MissedWereWrong
<1>1. IInv => MissedWereWrong
  <2> SUFFICES ASSUME IInv, NEW j \in Jobs, Answered(j), jobs[j].operation = "intelligence",
                      NEW q \in Questions
               PROVE  LET report == jobs[j].answer.report
                          shown == ShownWrong(report, q.id)
                          late == AnsweredWrongly(q) \ DOMAIN report.learners
                      IN /\ shown \subseteq AnsweredWrongly(q)
                         /\ Cardinality(shown) <= TimesMissed(report, q.id)
                         /\ TimesMissed(report, q.id) <= Cardinality(shown \cup late)
    BY Zenon DEF MissedWereWrong
  <2>1. PICK i \in DOMAIN exam : q = exam[i]
    BY DEF Questions, Range
  <2>2. exam # Unsupported
    BY DEF Questions
  <2>3. BlamesRightly(jobs[j], exam, snapshots)
    BY <2>2 DEF IInv, JobSound, AnswerSound, Answered
  <2>4. AnsweredWrongly(q) = Wrong(q, snapshots)
    BY RightAgrees DEF AnsweredWrongly, Wrong, Submitted
  <2>5. Balanced(jobs[j].answer.report, q, snapshots)
    BY <2>1, <2>3 DEF BlamesRightly
  <2> QED BY <2>4, <2>5, Zenon DEF Balanced, Blamable
<1> QED BY <1>1, Invariance, PTL
=============================================================================

------------------------ MODULE GenerationRunProofs ------------------------
(***************************************************************************)
(* What GenerationRun guarantees for any number of requests, keys, Work    *)
(* revisions, crashes, slow owners and commits of unknown outcome.         *)
(***************************************************************************)
EXTENDS GenerationRun, TLAPS

\* The unique index on outcomes, kept by inserting and by finalizing.
OneOutcome == \A r, s \in Requests :
    (/\ runs[r].status \in {"RUNNING", "SUCCEEDED"}
     /\ runs[s].status \in {"RUNNING", "SUCCEEDED"}
     /\ runs[r].revision = runs[s].revision) => r = s

Witnessed == \A r \in Requests : runs[r].status = "SUCCEEDED" => r \in contents

Present(r) == r \in Requests /\ runs[r].status # "ABSENT"

\* What each stage of a request may rely on: before it inserts it has no run of
\* its own; a run it resolves with its own key is of its own revision; a run it
\* executes is of its own revision; a run it finalizes has its worksheet.
JobOK(q) ==
    /\ jobs[q].pc \in Claiming \cup {"new"} => runs[q].status = "ABSENT"
    /\ jobs[q].pc \in {"reconciling", "settling", "reclaiming", "evicting"} =>
          /\ Present(jobs[q].run)
          /\ runs[jobs[q].run].key = jobs[q].key =>
                runs[jobs[q].run].revision = jobs[q].revision
    /\ jobs[q].pc = "reclaiming" => runs[jobs[q].run].key = jobs[q].key
    /\ jobs[q].pc \in Executing =>
          Present(jobs[q].run) /\ runs[jobs[q].run].revision = jobs[q].revision
    /\ jobs[q].pc \in {"finalizing", "settling"} => jobs[q].run \in contents
    /\ jobs[q].pc \in {"ok", "exists"} =>
          /\ jobs[q].run \in Requests
          /\ runs[jobs[q].run].status = "SUCCEEDED"
          /\ runs[jobs[q].run].revision = jobs[q].revision

IInv == TypeOK /\ OneOutcome /\ Witnessed /\ \A q \in Requests : JobOK(q)

\* What no step does: it takes no worksheet away, no row's key or revision is
\* changed, no outcome is touched, and a row appears only by its own request.
RowsKept ==
    /\ contents \subseteq contents'
    /\ \A r \in Requests : runs[r].status # "ABSENT" =>
          /\ runs'[r].status # "ABSENT"
          /\ runs'[r].key = runs[r].key /\ runs'[r].revision = runs[r].revision
    /\ \A r \in Requests : runs[r].status = "SUCCEEDED" => runs'[r] = runs[r]

SameJob(q) == /\ jobs'[q].pc = jobs[q].pc /\ jobs'[q].run = jobs[q].run
              /\ jobs'[q].key = jobs[q].key /\ jobs'[q].revision = jobs[q].revision

----------------------------------------------------------------------------
LEMMA MovedFacts ==
    ASSUME jobs \in [Requests -> Job], NEW q \in Requests,
           NEW pc \in {"new"} \cup Claiming \cup Executing \cup Final,
           NEW r \in Requests \cup {NoRun}, NEW n \in 0 .. 2
    PROVE  /\ Moved(q, pc, r, n) \in Job
           /\ Moved(q, pc, r, n).pc = pc /\ Moved(q, pc, r, n).run = r
           /\ Moved(q, pc, r, n).key = jobs[q].key
           /\ Moved(q, pc, r, n).revision = jobs[q].revision
<1>1. jobs[q] \in Job
  OBVIOUS
<1>2. (IF pc \in Claiming THEN jobs[q].late ELSE {}) \in SUBSET Requests
  BY <1>1 DEF Job
<1> QED BY <1>1, <1>2 DEF Moved, Job

LEMMA GoFacts ==
    ASSUME jobs \in [Requests -> Job], NEW q \in Requests,
           NEW pc \in {"new"} \cup Claiming \cup Executing \cup Final,
           NEW r \in Requests \cup {NoRun}, Go(q, pc, r)
    PROVE  /\ jobs' \in [Requests -> Job]
           /\ jobs'[q].pc = pc /\ jobs'[q].run = r
           /\ jobs'[q].key = jobs[q].key /\ jobs'[q].revision = jobs[q].revision
           /\ \A p \in Requests \ {q} : jobs'[p] = jobs[p]
<1>1. jobs[q].tries \in 0 .. 2
  BY DEF Job
<1>2. jobs' = [jobs EXCEPT ![q] = Moved(q, pc, r, jobs[q].tries)]
  BY DEF Go
<1> QED BY <1>1, <1>2, MovedFacts

LEMMA RetryFacts ==
    ASSUME jobs \in [Requests -> Job], NEW q \in Requests, Retry(q)
    PROVE  /\ jobs' \in [Requests -> Job]
           /\ jobs'[q].pc \in {"claiming", "refused"} /\ jobs'[q].key = jobs[q].key
           /\ \A p \in Requests \ {q} : jobs'[p] = jobs[p]
<1>1. jobs[q].tries \in 0 .. 2 /\ jobs[q].run \in Requests \cup {NoRun}
  BY DEF Job
<1>2. {"claiming", "refused"} \subseteq {"new"} \cup Claiming \cup Executing \cup Final
  BY DEF Claiming, Final
<1>3. CASE jobs[q].tries < 2
  <2>1. jobs' = [jobs EXCEPT ![q] = Moved(q, "claiming", jobs[q].run, jobs[q].tries + 1)]
    BY <1>3 DEF Retry
  <2>2. jobs[q].tries + 1 \in 0 .. 2
    BY <1>1, <1>3
  <2> QED BY <1>1, <1>2, <2>1, <2>2, MovedFacts
<1>4. CASE ~(jobs[q].tries < 2)
  <2>1. jobs' = [jobs EXCEPT ![q] = Moved(q, "refused", jobs[q].run, jobs[q].tries)]
    BY <1>4 DEF Retry
  <2> QED BY <1>1, <1>2, <2>1, MovedFacts
<1> QED BY <1>3, <1>4

\* A request that a step leaves alone relies on what it relied on before.
LEMMA BystanderOK ==
    ASSUME NEW q \in Requests, JobOK(q), RowsKept, SameJob(q),
           runs[q].status = "ABSENT" => runs'[q].status = "ABSENT"
    PROVE  JobOK(q)'
BY DEF JobOK, RowsKept, SameJob, Present
----------------------------------------------------------------------------
(* The ways the table of runs and the worksheets change. *)

RowsOK == /\ runs \in [Requests -> Run] /\ contents \in SUBSET Requests
          /\ OneOutcome /\ Witnessed
          /\ \A r \in Requests : runs[r].status = "RUNNING" => runs[r].lease # "none"

Frame == \A p \in Requests : runs[p].status = "ABSENT" => runs'[p].status = "ABSENT"

LEMMA RowsUnchanged ==
    ASSUME RowsOK, UNCHANGED runs, contents \subseteq contents', contents' \in SUBSET Requests
    PROVE  RowsOK' /\ RowsKept /\ Frame
BY DEF RowsOK, OneOutcome, Witnessed, RowsKept, Frame

LEMMA LeaseMoves ==
    ASSUME RowsOK, UNCHANGED contents, NEW r \in Requests,
           runs[r].status \in {"RUNNING", "FAILED"}, NEW lease \in {"fresh", "expired"},
           runs' = [runs EXCEPT ![r].lease = lease]
    PROVE  /\ RowsOK' /\ RowsKept /\ Frame
           /\ \A p \in Requests : /\ runs'[p].status = runs[p].status
                                  /\ runs'[p].lease = IF p = r THEN lease ELSE runs[p].lease
                                  /\ p # r => runs'[p] = runs[p]
<1> DEFINE row == [runs[r] EXCEPT !.lease = lease]
<1>2. runs[r] \in Run /\ row \in Run
  BY DEF RowsOK, Run
<1>4. runs' = [runs EXCEPT ![r] = row]
  OBVIOUS
<1>1. /\ runs' \in [Requests -> Run]
      /\ \A p \in Requests : runs'[p] = IF p = r THEN row ELSE runs[p]
  <2> HIDE DEF row
  <2> QED BY <1>2, <1>4 DEF RowsOK
<1>3. \A p \in Requests : /\ runs'[p].status = runs[p].status /\ runs'[p].key = runs[p].key
                          /\ runs'[p].revision = runs[p].revision
                          /\ runs'[p].lease = IF p = r THEN lease ELSE runs[p].lease
                          /\ p # r => runs'[p] = runs[p]
  BY <1>1, <1>2 DEF Run
<1>5. RowsOK' /\ RowsKept /\ Frame
  BY <1>1, <1>3 DEF RowsOK, OneOutcome, Witnessed, RowsKept, Frame
<1> QED BY <1>3, <1>5

LEMMA SettledFacts ==
    ASSUME RowsOK, NEW r \in Requests, NEW status \in {"SUCCEEDED", "FAILED"},
           runs' = Settled(r, status)
    PROVE  /\ runs' \in [Requests -> Run]
           /\ \A p \in Requests : /\ runs'[p].status = IF p = r THEN status ELSE runs[p].status
                                  /\ runs'[p].key = runs[p].key
                                  /\ runs'[p].revision = runs[p].revision
                                  /\ p # r => runs'[p] = runs[p]
<1> DEFINE row == [status |-> status, key |-> runs[r].key, revision |-> runs[r].revision,
                   lease |-> "none"]
<1>1. runs[r] \in Run
  BY DEF RowsOK
<1>2. row \in Run /\ row.status = status /\ row.key = runs[r].key
      /\ row.revision = runs[r].revision
  BY <1>1 DEF Run
<1>3. runs' = [runs EXCEPT ![r] = row]
  BY DEF Settled
<1> HIDE DEF row
<1> QED BY <1>2, <1>3 DEF RowsOK

LEMMA FailedMoves ==
    ASSUME RowsOK, UNCHANGED contents, NEW r \in Requests, runs[r].status # "ABSENT",
           runs' = Failed(r)
    PROVE  RowsOK' /\ RowsKept /\ Frame
<1>1. CASE runs[r].status = "RUNNING"
  <2>1. runs' = Settled(r, "FAILED")
    BY <1>1 DEF Failed
  <2>2. /\ runs' \in [Requests -> Run]
        /\ \A p \in Requests : /\ runs'[p].status = IF p = r THEN "FAILED" ELSE runs[p].status
                               /\ runs'[p].key = runs[p].key
                               /\ runs'[p].revision = runs[p].revision
                               /\ p # r => runs'[p] = runs[p]
    BY <2>1, SettledFacts
  <2>3. RowsKept /\ Frame
    BY <1>1, <2>2 DEF RowsKept, Frame
  <2>4. OneOutcome'
    BY <1>1, <2>2 DEF RowsOK, OneOutcome
  <2>5. /\ Witnessed'
        /\ \A p \in Requests : runs'[p].status = "RUNNING" => runs'[p].lease # "none"
    BY <1>1, <2>2 DEF RowsOK, Witnessed
  <2> QED BY <2>2, <2>3, <2>4, <2>5 DEF RowsOK
<1>2. CASE runs[r].status # "RUNNING"
  BY <1>2, RowsUnchanged DEF Failed, RowsOK
<1> QED BY <1>1, <1>2

LEMMA SucceededMoves ==
    ASSUME RowsOK, UNCHANGED contents, NEW r \in Requests, r \in contents,
           runs[r].status \in {"RUNNING", "FAILED"},
           FenceA(runs[r].revision) \ {r} = {}, runs' = Settled(r, "SUCCEEDED")
    PROVE  RowsOK' /\ RowsKept /\ Frame
<1>1. /\ runs' \in [Requests -> Run]
      /\ \A p \in Requests : /\ runs'[p].status = IF p = r THEN "SUCCEEDED" ELSE runs[p].status
                             /\ runs'[p].key = runs[p].key
                             /\ runs'[p].revision = runs[p].revision
                             /\ p # r => runs'[p] = runs[p]
  BY SettledFacts
<1>2. \A p \in Requests : p # r /\ runs[p].status \in {"RUNNING", "SUCCEEDED"}
                             => runs[p].revision # runs[r].revision
  BY DEF FenceA
<1>3. OneOutcome'
  BY <1>1, <1>2 DEF OneOutcome, RowsOK
<1> QED BY <1>1, <1>3 DEF RowsOK, Witnessed, RowsKept, Frame
----------------------------------------------------------------------------
(* The steps, one at a time. *)

\* What is left to show of a step of request q, once the tables are seen to.
LEMMA ActorStep ==
    ASSUME IInv, NEW q \in Requests, RowsOK', RowsKept, jobs' \in [Requests -> Job],
           \A p \in Requests \ {q} : /\ jobs'[p] = jobs[p]
                                     /\ runs[p].status = "ABSENT" => runs'[p].status = "ABSENT",
           JobOK(q)',
           workRevision' \in Revisions, slips' \in Nat, unknowns' \in Nat
    PROVE  IInv' /\ RowsKept
<1>1. \A p \in Requests : JobOK(p)'
  <2> SUFFICES ASSUME NEW p \in Requests, p # q PROVE JobOK(p)'
    OBVIOUS
  <2> QED BY BystanderOK DEF IInv, SameJob
<1>2. \A p \in Requests : jobs'[p].pc \in Executing \cup {"ok"} =>
          jobs'[p].run # NoRun /\ runs'[jobs'[p].run].status # "ABSENT"
  BY <1>1, GenerationAssumption DEF JobOK, Present
<1>3. TypeOK'
  BY <1>2 DEF TypeOK, RowsOK
<1> QED BY <1>1, <1>3 DEF IInv, RowsOK

LEMMA TablesOK == ASSUME IInv PROVE RowsOK /\ jobs \in [Requests -> Job]
BY DEF IInv, TypeOK, RowsOK

\* The run that a request finds in its way becomes the run it resolves.
LEMMA ResolveOK ==
    ASSUME IInv, NEW q \in Requests, jobs[q].pc \in {"claiming", "resolving"},
           NEW r \in Requests, runs[r].status # "ABSENT",
           Resolve(q, r), UNCHANGED <<workRevision, runs, contents, slips, unknowns>>,
           runs[r].key = jobs[q].key \/ runs[r].revision = jobs[q].revision
              \/ runs[r].status = "RUNNING"
    PROVE  IInv' /\ RowsKept
<1> DEFINE same == runs[r].key = jobs[q].key
<1>1. RowsOK' /\ RowsKept /\ Frame
  BY TablesOK, RowsUnchanged DEF RowsOK
<1>2. runs[q].status = "ABSENT"
  BY DEF IInv, JobOK, Claiming
<1>3. PICK pc \in {"refused", "ok", "exists", "reconciling"} : Go(q, pc, r)
        /\ (pc \in {"ok", "exists"} => /\ runs[r].status = "SUCCEEDED"
                                       /\ runs[r].revision = jobs[q].revision)
        /\ (pc # "refused" => (same => runs[r].revision = jobs[q].revision))
  <2>1. CASE same /\ runs[r].revision # jobs[q].revision
    <3>1. Go(q, "refused", r)
      BY <2>1 DEF Resolve, KeyOf, RevisionOf
    <3> QED BY <3>1
  <2>2. CASE ~(same /\ runs[r].revision # jobs[q].revision) /\ runs[r].status = "SUCCEEDED"
    <3>1. CASE same
      <4>1. Go(q, "ok", r)
        BY <2>2, <3>1 DEF Resolve, KeyOf, RevisionOf
      <4> QED BY <2>2, <3>1, <4>1
    <3>2. CASE ~same
      <4>1. Go(q, "exists", r)
        BY <2>2, <3>2 DEF Resolve, KeyOf, RevisionOf
      <4> QED BY <2>2, <3>2, <4>1
    <3> QED BY <3>1, <3>2
  <2>3. CASE ~(same /\ runs[r].revision # jobs[q].revision) /\ runs[r].status = "FAILED"
    <3>1. Go(q, "refused", r)
      BY <2>3 DEF Resolve, KeyOf, RevisionOf
    <3> QED BY <3>1
  <2>4. CASE ~(same /\ runs[r].revision # jobs[q].revision)
             /\ runs[r].status \notin {"SUCCEEDED", "FAILED"}
    <3>1. Go(q, "reconciling", r) \/ Go(q, "refused", r)
      BY <2>4 DEF Resolve, KeyOf, RevisionOf
    <3> QED BY <2>4, <3>1
  <2> QED BY <2>1, <2>2, <2>3, <2>4
<1>4. /\ jobs' \in [Requests -> Job] /\ jobs'[q].pc = pc /\ jobs'[q].run = r
      /\ jobs'[q].key = jobs[q].key /\ jobs'[q].revision = jobs[q].revision
      /\ \A p \in Requests \ {q} : jobs'[p] = jobs[p]
  BY <1>3, TablesOK, GoFacts DEF Claiming, Final
<1>5. JobOK(q)'
  BY <1>2, <1>3, <1>4 DEF JobOK, Present, Claiming, Executing
<1>6. workRevision' \in Revisions /\ slips' \in Nat /\ unknowns' \in Nat
  BY DEF IInv, TypeOK
<1> QED BY <1>1, <1>4, <1>5, <1>6, ActorStep DEF Frame

LEMMA BeginOK == ASSUME IInv, NEW q \in Requests, Begin(q) PROVE IInv' /\ RowsKept
<1>1. RowsOK' /\ RowsKept /\ Frame
  BY TablesOK, RowsUnchanged DEF RowsOK, Begin
<1>2. PICK k \in Keys : jobs' = [jobs EXCEPT ![q] =
          [pc |-> "claiming", key |-> k, revision |-> workRevision, run |-> NoRun, tries |-> 0,
           late |-> {}]]
  BY DEF Begin
<1> DEFINE job == [pc |-> "claiming", key |-> k, revision |-> workRevision, run |-> NoRun,
                   tries |-> 0, late |-> {}]
<1>3. job \in Job /\ job.pc = "claiming"
  BY DEF Job, Claiming, IInv, TypeOK
<1> HIDE DEF job
<1>4. /\ jobs' \in [Requests -> Job] /\ jobs'[q].pc = "claiming"
      /\ \A p \in Requests \ {q} : jobs'[p] = jobs[p]
  BY <1>2, <1>3, TablesOK DEF job
<1>5. runs'[q].status = "ABSENT"
  BY DEF IInv, JobOK, Begin, At
<1>6. JobOK(q)'
  BY <1>4, <1>5 DEF JobOK, Claiming, Executing
<1>7. workRevision' \in Revisions /\ slips' \in Nat /\ unknowns' \in Nat
  BY DEF IInv, TypeOK, Begin
<1> QED BY <1>1, <1>4, <1>6, <1>7, ActorStep DEF Frame

LEMMA ClaimOK == ASSUME IInv, NEW q \in Requests, Claim(q) PROVE IInv' /\ RowsKept
<1> USE DEF Claim, At
<1>1. CASE \E r \in ByKey(KeyOf(q)) : Resolve(q, r)
  <2>1. PICK r \in ByKey(KeyOf(q)) : Resolve(q, r)
    BY <1>1
  <2> QED BY <2>1, ResolveOK DEF ByKey, KeyOf
<1>2. CASE Go(q, "inserting", NoRun)
  <2>1. RowsOK' /\ RowsKept /\ Frame
    BY TablesOK, RowsUnchanged DEF RowsOK
  <2>2. /\ jobs' \in [Requests -> Job] /\ jobs'[q].pc = "inserting"
        /\ \A p \in Requests \ {q} : jobs'[p] = jobs[p]
    BY <1>2, TablesOK, GoFacts DEF Claiming
  <2>3. runs'[q].status = "ABSENT"
    BY DEF IInv, JobOK, Claiming
  <2>4. JobOK(q)'
    BY <2>2, <2>3 DEF JobOK, Claiming, Executing
  <2>5. workRevision' \in Revisions /\ slips' \in Nat /\ unknowns' \in Nat
    BY DEF IInv, TypeOK
  <2> QED BY <2>1, <2>2, <2>4, <2>5, ActorStep DEF Frame
<1> QED BY <1>1, <1>2

LEMMA LookUpOK == ASSUME IInv, NEW q \in Requests, LookUp(q) PROVE IInv' /\ RowsKept
<1> USE DEF LookUp, At
<1>1. CASE \E r \in InTheWay(q) : Resolve(q, r)
  <2>1. PICK r \in InTheWay(q) : Resolve(q, r)
    BY <1>1
  <2>2. /\ r \in Requests /\ runs[r].status # "ABSENT"
        /\ runs[r].key = jobs[q].key \/ runs[r].revision = jobs[q].revision
              \/ runs[r].status = "RUNNING"
    BY DEF InTheWay, ByKey, FenceA, FenceB, KeyOf, RevisionOf
  <2> QED BY <2>1, <2>2, ResolveOK
<1>2. CASE Go(q, "refused", NoRun)
  <2>1. RowsOK' /\ RowsKept /\ Frame
    BY TablesOK, RowsUnchanged DEF RowsOK
  <2>2. /\ jobs' \in [Requests -> Job] /\ jobs'[q].pc = "refused"
        /\ \A p \in Requests \ {q} : jobs'[p] = jobs[p]
    BY <1>2, TablesOK, GoFacts DEF Final
  <2>3. JobOK(q)'
    BY <2>2 DEF JobOK, Claiming, Executing
  <2>4. workRevision' \in Revisions /\ slips' \in Nat /\ unknowns' \in Nat
    BY DEF IInv, TypeOK
  <2> QED BY <2>1, <2>2, <2>3, <2>4, ActorStep DEF Frame
<1> QED BY <1>1, <1>2

LEMMA InsertOK == ASSUME IInv, NEW q \in Requests, Insert(q) PROVE IInv' /\ RowsKept
<1> USE DEF Insert, At
<1>1. runs[q].status = "ABSENT"
  BY DEF IInv, JobOK, Claiming
<1>2. workRevision' \in Revisions /\ slips' \in Nat /\ unknowns' \in Nat
  BY DEF IInv, TypeOK
<1>3. CASE MayInsert(q)
  <2> DEFINE row == [status |-> "RUNNING", key |-> jobs[q].key, revision |-> jobs[q].revision,
                     lease |-> "fresh"]
  <2>1. row \in Run \/ jobs[q] \notin Job
    BY DEF Run, Job
  <2>2. jobs[q] \in Job
    BY TablesOK
  <2>3. runs' = [runs EXCEPT ![q] = row]
    BY <1>3 DEF KeyOf, RevisionOf
  <2>4. row.status = "RUNNING" /\ row.revision = jobs[q].revision /\ row.lease = "fresh"
    OBVIOUS
  <2> HIDE DEF row
  <2>5. /\ runs' \in [Requests -> Run] /\ runs'[q] = row
        /\ \A p \in Requests \ {q} : runs'[p] = runs[p]
    BY <2>1, <2>2, <2>3, TablesOK DEF RowsOK
  <2>6. /\ jobs' \in [Requests -> Job] /\ jobs'[q].pc = "calling" /\ jobs'[q].run = q
        /\ jobs'[q].revision = jobs[q].revision
        /\ \A p \in Requests \ {q} : jobs'[p] = jobs[p]
    BY <1>3, TablesOK, GoFacts DEF Executing
  <2>7. \A r \in Requests : runs[r].status \in {"RUNNING", "SUCCEEDED"}
                              => runs[r].revision # jobs[q].revision
    BY <1>3 DEF MayInsert, FenceA, RevisionOf
  <2>8. OneOutcome'
    BY <1>1, <2>4, <2>5, <2>7, TablesOK DEF OneOutcome, RowsOK
  <2>9. RowsOK' /\ RowsKept
    BY <1>1, <2>4, <2>5, <2>8, TablesOK DEF RowsOK, Witnessed, RowsKept
  <2>10. JobOK(q)'
    BY <2>4, <2>5, <2>6 DEF JobOK, Present, Claiming, Executing
  <2> QED BY <1>2, <2>5, <2>6, <2>9, <2>10, ActorStep
<1>4. CASE ~MayInsert(q)
  <2>1. RowsOK' /\ RowsKept /\ Frame
    BY <1>4, TablesOK, RowsUnchanged DEF RowsOK
  <2>2. /\ jobs' \in [Requests -> Job] /\ jobs'[q].pc = "resolving"
        /\ \A p \in Requests \ {q} : jobs'[p] = jobs[p]
    BY <1>4, TablesOK, GoFacts DEF Claiming
  <2>3. runs'[q].status = "ABSENT"
    BY <1>1, <1>4
  <2>4. JobOK(q)'
    BY <2>2, <2>3 DEF JobOK, Claiming, Executing
  <2> QED BY <1>2, <2>1, <2>2, <2>4, ActorStep DEF Frame
<1> QED BY <1>3, <1>4

LEMMA ReconcileOK == ASSUME IInv, NEW q \in Requests, Reconcile(q) PROVE IInv' /\ RowsKept
<1> USE DEF Reconcile, At
<1> DEFINE r == jobs[q].run
<1>1. /\ Present(r) /\ runs[q].status = "ABSENT"
      /\ runs[r].key = jobs[q].key => runs[r].revision = jobs[q].revision
  BY DEF IInv, JobOK, Claiming
<1>2. PICK pc \in {"settling", "reclaiming", "evicting"} :
          /\ Go(q, pc, r) /\ (pc = "settling" => r \in contents)
          /\ pc = "reclaiming" => runs[r].key = jobs[q].key
  <2>1. CASE r \in contents
    BY <2>1
  <2>2. CASE r \notin contents
    <3>1. (Go(q, "reclaiming", r) /\ runs[r].key = jobs[q].key) \/ Go(q, "evicting", r)
      BY <2>2 DEF KeyOf
    <3> QED BY <3>1
  <2> QED BY <2>1, <2>2
<1>3. /\ jobs' \in [Requests -> Job] /\ jobs'[q].pc = pc /\ jobs'[q].run = r
      /\ jobs'[q].key = jobs[q].key /\ jobs'[q].revision = jobs[q].revision
      /\ \A p \in Requests \ {q} : jobs'[p] = jobs[p]
  BY <1>1, <1>2, TablesOK, GoFacts DEF Claiming, Present
<1>4. RowsOK' /\ RowsKept /\ Frame
  BY TablesOK, RowsUnchanged DEF RowsOK
<1>5. UNCHANGED <<runs, contents>>
  OBVIOUS
<1> HIDE DEF r
<1>6. JobOK(q)'
  BY <1>1, <1>2, <1>3, <1>5 DEF JobOK, Present, Claiming, Executing
<1>7. workRevision' \in Revisions /\ slips' \in Nat /\ unknowns' \in Nat
  BY DEF IInv, TypeOK
<1> QED BY <1>3, <1>4, <1>6, <1>7, ActorStep DEF Frame

LEMMA ReclaimOK == ASSUME IInv, NEW q \in Requests, Reclaim(q) PROVE IInv' /\ RowsKept
<1> USE DEF Reclaim, At
<1> DEFINE r == jobs[q].run
<1>1. /\ Present(r)
      /\ runs[r].key = jobs[q].key => runs[r].revision = jobs[q].revision
  BY DEF IInv, JobOK, Claiming
<1>2. workRevision' \in Revisions /\ slips' \in Nat /\ unknowns' \in Nat
  BY DEF IInv, TypeOK
<1>3. CASE runs[r].status = "RUNNING" /\ Stale(q, r)
  <2>1. RowsOK' /\ RowsKept /\ Frame
    BY <1>1, <1>3, TablesOK, LeaseMoves DEF Present
  <2>2. /\ jobs' \in [Requests -> Job] /\ jobs'[q].pc = "calling" /\ jobs'[q].run = r
        /\ jobs'[q].revision = jobs[q].revision
        /\ \A p \in Requests \ {q} : jobs'[p] = jobs[p]
    <3>1. Go(q, "calling", r)
      BY <1>3
    <3>2. r \in Requests /\ "calling" \in Executing
      BY <1>1 DEF Present, Executing
    <3> HIDE DEF r
    <3> QED BY <3>1, <3>2, TablesOK, GoFacts
  <2>3. runs[r].revision = jobs[q].revision
    BY <1>1 DEF IInv, JobOK
  <2>4. JobOK(q)'
    BY <1>1, <2>1, <2>2, <2>3 DEF JobOK, Present, Claiming, Executing, RowsKept
  <2> QED BY <1>2, <2>1, <2>2, <2>4, ActorStep DEF Frame
<1>4. CASE ~(runs[r].status = "RUNNING" /\ Stale(q, r))
  <2>1. RowsOK' /\ RowsKept /\ Frame
    BY <1>4, TablesOK, RowsUnchanged DEF RowsOK
  <2>2. /\ jobs' \in [Requests -> Job] /\ jobs'[q].pc = "refused"
        /\ \A p \in Requests \ {q} : jobs'[p] = jobs[p]
    BY <1>1, <1>4, TablesOK, GoFacts DEF Final, Present
  <2>3. JobOK(q)'
    BY <2>2 DEF JobOK, Claiming, Executing
  <2> QED BY <1>2, <2>1, <2>2, <2>3, ActorStep DEF Frame
<1> QED BY <1>3, <1>4

LEMMA EvictOK == ASSUME IInv, NEW q \in Requests, Evict(q) PROVE IInv' /\ RowsKept
<1> USE DEF Evict, At
<1>1. Present(jobs[q].run) /\ runs[q].status = "ABSENT"
  BY DEF IInv, JobOK, Claiming
<1>2. RowsOK' /\ RowsKept /\ Frame
  BY <1>1, TablesOK, FailedMoves DEF Present
<1>3. /\ jobs' \in [Requests -> Job] /\ jobs'[q].pc \in {"claiming", "refused"}
      /\ \A p \in Requests \ {q} : jobs'[p] = jobs[p]
  BY TablesOK, RetryFacts
<1>4. JobOK(q)'
  BY <1>1, <1>2, <1>3 DEF JobOK, Claiming, Executing, Frame
<1>5. workRevision' \in Revisions /\ slips' \in Nat /\ unknowns' \in Nat
  BY DEF IInv, TypeOK
<1> QED BY <1>2, <1>3, <1>4, <1>5, ActorStep DEF Frame

\* An executor that goes on with its run, the table of runs as it is.
LEMMA GoesOn ==
    ASSUME IInv, NEW q \in Requests, jobs[q].pc \in Executing,
           NEW pc \in {"heartbeat", "failing", "finalizing"}, Go(q, pc, jobs[q].run),
           RowsOK', RowsKept, UNCHANGED <<workRevision, runs, slips>>, unknowns' \in Nat,
           pc = "finalizing" => jobs[q].run \in contents'
    PROVE  IInv' /\ RowsKept
<1>1. Present(jobs[q].run) /\ runs[jobs[q].run].revision = jobs[q].revision
  BY DEF IInv, JobOK
<1>2. /\ jobs' \in [Requests -> Job] /\ jobs'[q].pc = pc /\ jobs'[q].run = jobs[q].run
      /\ jobs'[q].revision = jobs[q].revision
      /\ \A p \in Requests \ {q} : jobs'[p] = jobs[p]
  <2> DEFINE r == jobs[q].run
  <2>1. r \in Requests \cup {NoRun} /\ Go(q, pc, r)
    BY <1>1 DEF Present
  <2>2. pc \in {"new"} \cup Claiming \cup Executing \cup Final
    BY DEF Executing
  <2>3. jobs \in [Requests -> Job]
    BY TablesOK
  <2> HIDE DEF r
  <2>4. /\ jobs' \in [Requests -> Job] /\ jobs'[q].pc = pc /\ jobs'[q].run = r
        /\ jobs'[q].revision = jobs[q].revision
        /\ \A p \in Requests \ {q} : jobs'[p] = jobs[p]
    BY <2>1, <2>2, <2>3, GoFacts
  <2> QED BY <2>4 DEF r
<1>3. JobOK(q)'
  BY <1>1, <1>2 DEF JobOK, Present, Claiming, Executing
<1>4. workRevision' \in Revisions /\ slips' \in Nat
  BY DEF IInv, TypeOK
<1> QED BY <1>2, <1>3, <1>4, ActorStep

LEMMA ModelAnswersOK ==
    ASSUME IInv, NEW q \in Requests, ModelAnswers(q) PROVE IInv' /\ RowsKept
<1> USE DEF ModelAnswers, At
<1>1. RowsOK' /\ RowsKept
  BY TablesOK, RowsUnchanged DEF RowsOK
<1>2. unknowns' \in Nat
  BY DEF IInv, TypeOK
<1> QED BY <1>1, <1>2, GoesOn DEF Executing

LEMMA HeartbeatOK == ASSUME IInv, NEW q \in Requests, Heartbeat(q) PROVE IInv' /\ RowsKept
<1> USE DEF Heartbeat, At
<1> DEFINE r == jobs[q].run
<1>1. Present(r) /\ runs[r].revision = jobs[q].revision
  BY DEF IInv, JobOK, Executing
<1>2. workRevision' \in Revisions /\ slips' \in Nat /\ unknowns' \in Nat
  BY DEF IInv, TypeOK
<1>3. CASE runs[r].status = "SUCCEEDED"
  <2>1. RowsOK' /\ RowsKept /\ Frame /\ UNCHANGED runs
    BY <1>3, TablesOK, RowsUnchanged DEF RowsOK
  <2>2. /\ jobs' \in [Requests -> Job] /\ jobs'[q].pc = "ok" /\ jobs'[q].run = r
        /\ jobs'[q].revision = jobs[q].revision
        /\ \A p \in Requests \ {q} : jobs'[p] = jobs[p]
    BY <1>1, <1>3, TablesOK, GoFacts DEF Final, Present
  <2>3. JobOK(q)'
    BY <1>1, <1>3, <2>1, <2>2 DEF JobOK, Present, Claiming, Executing
  <2> QED BY <1>2, <2>1, <2>2, <2>3, ActorStep DEF Frame
<1>4. CASE runs[r].status # "SUCCEEDED"
  <2>1. runs[r].status \in {"RUNNING", "FAILED"}
    BY <1>1, <1>4, TablesOK DEF Present, RowsOK, Run
  <2>2. RowsOK' /\ RowsKept /\ Frame
    BY <1>1, <1>4, <2>1, TablesOK, LeaseMoves DEF Present
  <2>3. /\ jobs' \in [Requests -> Job] /\ jobs'[q].pc = "materializing" /\ jobs'[q].run = r
        /\ jobs'[q].revision = jobs[q].revision
        /\ \A p \in Requests \ {q} : jobs'[p] = jobs[p]
    <3>1. Go(q, "materializing", r)
      BY <1>4
    <3>2. r \in Requests
      BY <1>1 DEF Present
    <3> HIDE DEF r, Heartbeat
    <3> QED BY <3>1, <3>2, TablesOK, GoFacts DEF Executing
  <2>4. JobOK(q)'
    BY <1>1, <2>2, <2>3 DEF JobOK, Present, Claiming, Executing, RowsKept
  <2> QED BY <1>2, <2>2, <2>3, <2>4, ActorStep DEF Frame
<1> QED BY <1>3, <1>4

LEMMA MaterializeOK ==
    ASSUME IInv, NEW q \in Requests, Materialize(q) PROVE IInv' /\ RowsKept
<1> USE DEF Materialize, At
<1>1. jobs[q].pc \in Executing /\ jobs[q].run \in Requests
  BY DEF IInv, JobOK, Executing, Present
<1>2. contents' \in SUBSET Requests /\ contents \subseteq contents' /\ unknowns' \in Nat
  BY <1>1 DEF IInv, TypeOK
<1>3. RowsOK' /\ RowsKept
  BY <1>2, TablesOK, RowsUnchanged
<1> QED BY <1>1, <1>2, <1>3, GoesOn

LEMMA MarkFailedOK ==
    ASSUME IInv, NEW q \in Requests, MarkFailed(q) PROVE IInv' /\ RowsKept
<1> USE DEF MarkFailed, At
<1>1. Present(jobs[q].run)
  BY DEF IInv, JobOK, Executing
<1>2. RowsOK' /\ RowsKept /\ Frame
  BY <1>1, TablesOK, FailedMoves DEF Present
<1>3. /\ jobs' \in [Requests -> Job] /\ jobs'[q].pc = "refused"
      /\ \A p \in Requests \ {q} : jobs'[p] = jobs[p]
  BY <1>1, TablesOK, GoFacts DEF Final, Present
<1>4. JobOK(q)'
  BY <1>3 DEF JobOK, Claiming, Executing
<1>5. workRevision' \in Revisions /\ slips' \in Nat /\ unknowns' \in Nat
  BY DEF IInv, TypeOK
<1> QED BY <1>2, <1>3, <1>4, <1>5, ActorStep DEF Frame

\* Finalizing is the only step that makes an outcome: the run has its worksheet,
\* and no other run holds the revision.
LEMMA FinalizeOK == ASSUME IInv, NEW q \in Requests, Finalize(q) PROVE IInv' /\ RowsKept
<1> DEFINE r == jobs[q].run
           done == runs[r].status = "SUCCEEDED"
           taken == FenceA(runs[r].revision) \ {r} # {}
<1>1. /\ jobs[q].pc \in {"finalizing", "settling"} /\ Present(r) /\ r \in contents
      /\ jobs[q].pc = "settling" => runs[q].status = "ABSENT"
      /\ jobs[q].pc = "finalizing" => runs[r].revision = jobs[q].revision
  BY DEF Finalize, IInv, JobOK, Claiming, Executing
<1>2. /\ runs' = IF done \/ taken THEN runs ELSE Settled(r, "SUCCEEDED")
      /\ IF ~done /\ taken THEN Go(q, "refused", r)
         ELSE IF runs[r].revision # jobs[q].revision THEN Retry(q) ELSE Go(q, "ok", r)
      /\ UNCHANGED <<workRevision, contents, slips, unknowns>>
  BY DEF Finalize, RevisionOf
<1>3. workRevision' \in Revisions /\ slips' \in Nat /\ unknowns' \in Nat
  BY <1>2 DEF IInv, TypeOK
<1>4. RowsOK' /\ RowsKept /\ Frame
  <2>1. CASE done \/ taken
    BY <1>2, <2>1, TablesOK, RowsUnchanged DEF RowsOK
  <2>2. CASE ~done /\ ~taken
    <3>1. runs[r].status \in {"RUNNING", "FAILED"}
      BY <1>1, <2>2, TablesOK DEF Present, RowsOK, Run
    <3> QED BY <1>1, <1>2, <2>2, <3>1, TablesOK, SucceededMoves DEF Present
  <2> QED BY <2>1, <2>2
<1>5. CASE ~done /\ taken
  <2>1. /\ jobs' \in [Requests -> Job] /\ jobs'[q].pc = "refused"
        /\ \A p \in Requests \ {q} : jobs'[p] = jobs[p]
    BY <1>1, <1>2, <1>5, TablesOK, GoFacts DEF Final, Present
  <2>2. JobOK(q)'
    BY <2>1 DEF JobOK, Claiming, Executing
  <2> QED BY <1>3, <1>4, <2>1, <2>2, ActorStep DEF Frame
<1>6. CASE (done \/ ~taken) /\ runs[r].revision # jobs[q].revision
  <2>1. /\ jobs' \in [Requests -> Job] /\ jobs'[q].pc \in {"claiming", "refused"}
        /\ \A p \in Requests \ {q} : jobs'[p] = jobs[p]
    BY <1>2, <1>6, TablesOK, RetryFacts
  <2>2. runs'[q].status = "ABSENT"
    BY <1>1, <1>4, <1>6 DEF Frame
  <2>3. JobOK(q)'
    BY <2>1, <2>2 DEF JobOK, Claiming, Executing
  <2> QED BY <1>3, <1>4, <2>1, <2>3, ActorStep DEF Frame
<1>7. CASE (done \/ ~taken) /\ runs[r].revision = jobs[q].revision
  <2>1. /\ jobs' \in [Requests -> Job] /\ jobs'[q].pc = "ok" /\ jobs'[q].run = r
        /\ jobs'[q].revision = jobs[q].revision
        /\ \A p \in Requests \ {q} : jobs'[p] = jobs[p]
    <3>1. Go(q, "ok", r) /\ r \in Requests
      BY <1>1, <1>2, <1>7 DEF Present
    <3> HIDE DEF r
    <3> QED BY <3>1, TablesOK, GoFacts DEF Final
  <2>2. r \in Requests /\ runs'[r].status = "SUCCEEDED" /\ runs'[r].revision = jobs[q].revision
    <3>1. CASE done
      BY <1>1, <1>4, <1>7, <3>1 DEF RowsKept, Present
    <3>2. CASE ~done
      BY <1>1, <1>2, <1>7, <3>2, TablesOK, SettledFacts DEF Present
    <3> QED BY <3>1, <3>2
  <2>3. JobOK(q)'
    BY <2>1, <2>2 DEF JobOK, Present, Claiming, Executing
  <2> QED BY <1>3, <1>4, <2>1, <2>3, ActorStep DEF Frame
<1> QED BY <1>5, <1>6, <1>7

LEMMA CrashOK == ASSUME IInv, NEW q \in Requests, Crash(q) PROVE IInv' /\ RowsKept
<1>1. RowsOK' /\ RowsKept /\ Frame
  BY TablesOK, RowsUnchanged DEF RowsOK, Crash
<1>2. jobs[q].run \in Requests \cup {NoRun} /\ Go(q, "crashed", jobs[q].run)
  BY TablesOK DEF Job, Crash
<1>3. /\ jobs' \in [Requests -> Job] /\ jobs'[q].pc = "crashed"
      /\ \A p \in Requests \ {q} : jobs'[p] = jobs[p]
  BY <1>2, TablesOK, GoFacts DEF Final
<1>4. JobOK(q)'
  BY <1>3 DEF JobOK, Claiming, Executing
<1>5. workRevision' \in Revisions /\ slips' \in Nat /\ unknowns' \in Nat
  BY DEF IInv, TypeOK, Crash
<1> QED BY <1>1, <1>3, <1>4, <1>5, ActorStep DEF Frame

LEMMA LeaseExpiresOK ==
    ASSUME IInv, NEW r \in Requests, LeaseExpires(r) PROVE IInv' /\ RowsKept
<1>1. RowsOK' /\ RowsKept /\ Frame
  BY TablesOK, LeaseMoves DEF LeaseExpires
<1>2. jobs' \in [Requests -> Job] /\ \A q \in Requests : SameJob(q)
  <2> SUFFICES ASSUME NEW q \in Requests
               PROVE  LET job == IF jobs[q].pc \in Claiming
                                 THEN [jobs[q] EXCEPT !.late = jobs[q].late \cup {r}]
                                 ELSE jobs[q]
                      IN /\ job \in Job /\ job.pc = jobs[q].pc /\ job.run = jobs[q].run
                         /\ job.key = jobs[q].key /\ job.revision = jobs[q].revision
    BY DEF LeaseExpires, SameJob
  <2>1. jobs[q] \in Job
    BY TablesOK
  <2> QED BY <2>1 DEF Job
<1>3. \A q \in Requests : JobOK(q)'
  BY <1>1, <1>2, BystanderOK DEF IInv, Frame
<1>4. workRevision' \in Revisions /\ slips' \in Nat /\ unknowns' \in Nat
  BY DEF IInv, TypeOK, LeaseExpires
<1>5. \A q \in Requests : jobs'[q].pc \in Executing \cup {"ok"} =>
          jobs'[q].run # NoRun /\ runs'[jobs'[q].run].status # "ABSENT"
  BY <1>3, GenerationAssumption DEF JobOK, Present
<1>6. TypeOK'
  BY <1>1, <1>2, <1>4, <1>5 DEF TypeOK, RowsOK
<1> QED BY <1>1, <1>3, <1>6 DEF IInv, RowsOK

LEMMA IdleOK ==
    ASSUME IInv, UNCHANGED <<runs, contents, jobs, slips, unknowns>>, workRevision' \in Revisions
    PROVE  IInv' /\ RowsKept
BY DEF IInv, TypeOK, OneOutcome, Witnessed, JobOK, Present, RowsKept

LEMMA RefineOK == ASSUME IInv, RefineWork PROVE IInv' /\ RowsKept
<1>1. workRevision' \in Revisions
  BY GenerationAssumption DEF RefineWork, IInv, TypeOK, Revisions
<1> QED BY <1>1, IdleOK DEF RefineWork
----------------------------------------------------------------------------
LEMMA InitOK == Init => IInv
BY GenerationAssumption DEF Init, IInv, TypeOK, OneOutcome, Witnessed, JobOK, Present, NoRow, NewJob,
   Run, Job, Revisions, Claiming, Executing, Final

LEMMA StepOK == IInv /\ [Next]_vars => IInv' /\ RowsKept
<1> SUFFICES ASSUME IInv, [Next]_vars PROVE IInv' /\ RowsKept
  OBVIOUS
<1>1. CASE RefineWork
  BY <1>1, RefineOK
<1>2. ASSUME NEW q \in Requests, Generate(q) PROVE IInv' /\ RowsKept
  BY <1>2, BeginOK, ClaimOK, InsertOK, LookUpOK, ReconcileOK, ReclaimOK, EvictOK,
     ModelAnswersOK, HeartbeatOK, MaterializeOK, MarkFailedOK, FinalizeOK DEF Generate
<1>3. ASSUME NEW q \in Requests, Crash(q) \/ LeaseExpires(q) PROVE IInv' /\ RowsKept
  BY <1>3, CrashOK, LeaseExpiresOK
<1>4. CASE UNCHANGED vars
  <2>1. workRevision' \in Revisions
    BY <1>4 DEF vars, IInv, TypeOK
  <2> QED BY <1>4, <2>1, IdleOK DEF vars
<1> QED BY <1>1, <1>2, <1>3, <1>4 DEF Next

\* The inductive invariant.
THEOREM Invariance == Spec => []IInv
<1>1. IInv /\ [Next]_vars => IInv'
  BY StepOK
<1> QED BY <1>1, InitOK, PTL DEF Spec

\* Types, leases of running runs, and runs of executors (generate.py).
THEOREM TypeCorrect == Spec => []TypeOK
<1>1. IInv => TypeOK
  BY DEF IInv
<1> QED BY <1>1, Invariance, PTL

\* A SUCCEEDED run has its worksheet, and is the only outcome of its revision,
\* whichever request finalized it (_finalize_succeeded, _reconcile_stale_with_content).
THEOREM OutcomeSound == Spec => []SucceededHasContent
<1>1. IInv => SucceededHasContent
  BY DEF IInv, OneOutcome, Witnessed, SucceededHasContent
<1> QED BY <1>1, Invariance, PTL

\* No request is answered with the outcome of another Work revision
\* (_resolve_existing_run, _claim_or_resolve_run).
THEOREM AnswersSound == Spec => []AnswersAreTrue
<1>1. IInv => AnswersAreTrue
  BY DEF IInv, JobOK, AnswersAreTrue
<1> QED BY <1>1, Invariance, PTL

\* Once a run has SUCCEEDED no heartbeat, eviction, late failure or second
\* finalization changes it.
THEOREM OutcomeFinal == Spec => SucceededIsFinal
<1>1. IInv /\ [Next]_vars
        => [\A r \in Requests : runs[r].status = "SUCCEEDED" => runs'[r] = runs[r]]_vars
  BY StepOK DEF RowsKept
<1> QED BY <1>1, Invariance, PTL DEF Spec, SucceededIsFinal
-----------------------------------------------------------------------------
(* The undisturbed world: executors keep their leases and learn of their   *)
(* commits, and there is one key only or no process dies.                  *)

NoCrash == \A q \in Requests : ~At(q, "crashed")
Resolved == {"reconciling", "settling", "reclaiming", "evicting"}

\* The unique index on executions, and the keys of requests and of their runs.
OneRunning == \A r, s \in Requests :
    runs[r].status = "RUNNING" /\ runs[s].status = "RUNNING" => r = s
KeyOK(q) ==
    /\ jobs[q].pc = "new" => jobs[q].key = NoKey
    /\ jobs[q].pc # "new" => jobs[q].key \in Keys
    /\ runs[q].status # "ABSENT" => runs[q].key = jobs[q].key /\ jobs[q].pc # "new"
    /\ jobs[q].pc = "evicting" => runs[jobs[q].run].key # jobs[q].key
KeysInv == OneRunning /\ \A q \in Requests : KeyOK(q)

\* An executor owns a fresh lease on a run without a worksheet; once it has
\* written the worksheet, another may have settled the run for it.
ExecutorOK(q) ==
    jobs[q].pc \in Executing =>
        LET r == jobs[q].run
        IN /\ runs[r].status = "RUNNING" => runs[r].lease = "fresh"
           /\ IF jobs[q].pc = "finalizing" THEN runs[r].status \in {"RUNNING", "SUCCEEDED"}
              ELSE runs[r].status = "RUNNING" /\ r \notin contents

\* A worksheet written since a request decided to reclaim shows in the lease.
ReclaimerOK(q) ==
    LET r == jobs[q].run
    IN jobs[q].pc = "reclaiming" /\ r \in contents /\ runs[r].status = "RUNNING" =>
          runs[r].lease = "fresh" \/ r \in jobs[q].late

Alone == \A p, q \in Requests :
    jobs[p].pc \in Executing /\ jobs[q].pc \in Executing /\ jobs[p].run = jobs[q].run => p = q
Live == \A r \in contents : runs[r].status \in {"RUNNING", "SUCCEEDED"}
Calm == NoCrash => /\ \A r \in Requests : runs[r].status = "RUNNING" => Executed(r)
                   /\ \A q \in Requests : jobs[q].pc \notin Resolved

Orderly == /\ \A q \in Requests : ExecutorOK(q) /\ ReclaimerOK(q)
           /\ Alone /\ Live /\ Calm
FencedInv == IInv /\ KeysInv /\ (Undisturbed => Orderly)

-----------------------------------------------------------------------------
\* What a step of request q leaves as it is.
Steps(q) == /\ \A p \in Requests \ {q} : jobs'[p] = jobs[p]
            /\ jobs[q].pc # "crashed" /\ jobs'[q].pc # "new"
            /\ jobs[q].pc = "new" => jobs'[q].key \in Keys
            /\ jobs[q].pc # "new" => jobs'[q].key = jobs[q].key

\* A request goes on for a run it knows.
LEMMA GoSteps ==
    ASSUME IInv, NEW q \in Requests, jobs[q].pc \in Claiming \cup Executing,
           NEW pc \in Claiming \cup Executing \cup Final, NEW r \in Requests \cup {NoRun},
           Go(q, pc, r)
    PROVE  /\ Steps(q) /\ jobs'[q].pc = pc /\ jobs'[q].run = r
           /\ jobs'[q].key = jobs[q].key
<1>1. jobs \in [Requests -> Job] /\ pc \in {"new"} \cup Claiming \cup Executing \cup Final
  BY TablesOK
<1>2. /\ jobs'[q].pc = pc /\ jobs'[q].run = r /\ jobs'[q].key = jobs[q].key
      /\ \A p \in Requests \ {q} : jobs'[p] = jobs[p]
  BY <1>1, GoFacts
<1> QED
  BY <1>2 DEF Steps, Claiming, Executing, Final

LEMMA RetrySteps ==
    ASSUME IInv, NEW q \in Requests, jobs[q].pc \in Claiming \cup Executing, Retry(q)
    PROVE  Steps(q) /\ jobs'[q].pc \in {"claiming", "refused"} /\ jobs'[q].key = jobs[q].key
<1>1. /\ jobs'[q].pc \in {"claiming", "refused"} /\ jobs'[q].key = jobs[q].key
      /\ \A p \in Requests \ {q} : jobs'[p] = jobs[p]
  BY TablesOK, RetryFacts
<1> QED
  BY <1>1 DEF Steps, Claiming, Executing

\* The keys after a step of a request that inserts no run.
LEMMA KeysStep ==
    ASSUME IInv, KeysInv, RowsKept, Frame, NEW q \in Requests, Steps(q),
           \A r \in Requests : runs'[r].status = "RUNNING" => runs[r].status = "RUNNING",
           jobs'[q].pc = "evicting" => runs'[jobs'[q].run].key # jobs'[q].key
    PROVE  KeysInv'
<1>1. OneRunning'
  BY DEF KeysInv, OneRunning
<1>2. ASSUME NEW p \in Requests PROVE KeyOK(p)'
  <2>1. runs'[p].status # "ABSENT" => runs[p].status # "ABSENT" /\ runs'[p].key = runs[p].key
    BY DEF RowsKept, Frame
  <2>2. CASE p = q
    BY <2>1, <2>2 DEF KeysInv, KeyOK, Steps
  <2>3. CASE p # q
    <3>1. jobs'[p] = jobs[p]
      BY <2>3 DEF Steps
    <3>2. jobs[p].pc = "evicting" => runs'[jobs[p].run].key = runs[jobs[p].run].key
      BY DEF IInv, JobOK, Present, RowsKept
    <3> QED
      BY <2>1, <3>1, <3>2 DEF KeysInv, KeyOK
  <2> QED
    BY <2>2, <2>3
<1> QED
  BY <1>1, <1>2 DEF KeysInv

\* One key and no crash are conditions that hold earlier if they hold later.
LEMMA EarlierToo ==
    ASSUME KeysInv, NEW q \in Requests, Steps(q)
    PROVE  /\ NoCrash' => NoCrash
           /\ OneKey' => OneKey
<1>1. NoCrash' => NoCrash
  BY DEF NoCrash, At, Steps
<1>2. ASSUME OneKey', NEW p \in Requests, NEW s \in Requests, {KeyOf(p), KeyOf(s)} \subseteq Keys
      PROVE  KeyOf(p) = KeyOf(s)
  <2>1. \A u \in Requests : jobs[u].key \in Keys => jobs'[u].key = jobs[u].key
    BY GenerationAssumption DEF KeysInv, KeyOK, Steps
  <2> QED
    BY <1>2, <2>1 DEF OneKey, KeyOf
<1> QED
  BY <1>1, <1>2 DEF OneKey
-----------------------------------------------------------------------------
\* Order after a step of request q that touches no run but r.
LEMMA OrderlyStep ==
    ASSUME IInv, IInv', Orderly, NEW q \in Requests, Steps(q), NEW r \in Requests \cup {NoRun},
           \A s \in Requests \ {r} : runs'[s] = runs[s],
           contents \subseteq contents', \A s \in contents' : s # r => s \in contents,
           \A p \in Requests \ {q} : jobs[p].pc \in Executing /\ jobs[p].run = r =>
              jobs[p].pc = "finalizing" /\ runs'[r].status = "SUCCEEDED" /\ jobs'[q].pc \notin Executing,
           r \in contents' => /\ runs'[r].status \in {"RUNNING", "SUCCEEDED"}
                              /\ runs'[r].status = "RUNNING" => runs'[r].lease = "fresh",
           ExecutorOK(q)', ReclaimerOK(q)', jobs'[q].pc \in Executing => jobs'[q].run = r,
           NoCrash' => /\ jobs[q].pc \in Executing => jobs[q].run = r
                       /\ r \in Requests /\ runs'[r].status = "RUNNING" => jobs'[q].pc \in Executing
                       /\ jobs'[q].pc \notin Resolved
    PROVE  Orderly'
<1>1. \A p \in Requests \ {q} : jobs'[p] = jobs[p]
  BY DEF Steps
<1>2. ASSUME NEW p \in Requests PROVE ExecutorOK(p)' /\ ReclaimerOK(p)'
  <2>1. CASE p = q
    BY <2>1
  <2>2. CASE p # q
    <3>1. jobs'[p] = jobs[p]
      BY <1>1, <2>2
    <3>2. jobs[p].pc \in Executing => jobs[p].run \in Requests
      BY DEF IInv, JobOK, Present
    <3>3. jobs[p].pc = "reclaiming" => jobs[p].run \in Requests
      BY DEF IInv, JobOK, Present
    <3>4. ExecutorOK(p) /\ ReclaimerOK(p)
      BY DEF Orderly
    <3>5. ExecutorOK(p)'
      <4>1. CASE jobs[p].run # r
        BY <3>1, <3>2, <3>4, <4>1 DEF ExecutorOK
      <4>2. CASE jobs[p].run = r
        BY <2>2, <3>1, <3>4, <4>2 DEF ExecutorOK
      <4> QED
        BY <4>1, <4>2
    <3>6. ReclaimerOK(p)'
      <4>1. CASE jobs[p].run # r
        BY <3>1, <3>3, <3>4, <4>1 DEF ReclaimerOK
      <4>2. CASE jobs[p].run = r
        BY <3>1, <4>2 DEF ReclaimerOK
      <4> QED
        BY <4>1, <4>2
    <3> QED
      BY <3>5, <3>6
  <2> QED
    BY <2>1, <2>2
<1>3. Alone'
  <2> SUFFICES ASSUME NEW p \in Requests, NEW s \in Requests, jobs'[p].pc \in Executing,
                      jobs'[s].pc \in Executing, jobs'[p].run = jobs'[s].run, p # s
               PROVE  FALSE
    BY DEF Alone
  <2>1. CASE p # q /\ s # q
    BY <1>1, <2>1 DEF Orderly, Alone
  <2>2. CASE p = q
    BY <1>1, <2>2
  <2>3. CASE s = q
    BY <1>1, <2>3
  <2> QED
    BY <2>1, <2>2, <2>3
<1>4. Live'
  <2>1. contents' \subseteq Requests
    BY DEF IInv, TypeOK
  <2> QED
    BY <2>1 DEF Live, Orderly
<1>5. Calm'
  <2> SUFFICES ASSUME NoCrash'
               PROVE  /\ \A s \in Requests : runs'[s].status = "RUNNING" => Executed(s)'
                      /\ \A p \in Requests : jobs'[p].pc \notin Resolved
    BY DEF Calm
  <2>1. NoCrash
    BY DEF NoCrash, At, Steps
  <2>2. ASSUME NEW s \in Requests, runs'[s].status = "RUNNING" PROVE Executed(s)'
    <3>1. CASE s = r
      BY <2>2, <3>1 DEF Executed
    <3>2. CASE s # r
      <4>1. PICK p \in Requests : jobs[p].pc \in Executing /\ jobs[p].run = s
        BY <2>1, <2>2, <3>2 DEF Orderly, Calm, Executed
      <4>2. p # q
        BY <3>2, <4>1
      <4> QED
        BY <1>1, <4>1, <4>2 DEF Executed
    <3> QED
      BY <3>1, <3>2
  <2>3. ASSUME NEW p \in Requests PROVE jobs'[p].pc \notin Resolved
    BY <1>1, <2>1 DEF Orderly, Calm
  <2> QED
    BY <2>2, <2>3
<1> QED
  BY <1>2, <1>3, <1>4, <1>5 DEF Orderly

\* Order after a step that moves a request only, and not to execute.
LEMMA WalkStep ==
    ASSUME IInv, IInv', Orderly, NEW q \in Requests, Steps(q), UNCHANGED <<runs, contents>>,
           jobs'[q].pc \notin Executing,
           jobs'[q].pc = "reclaiming" => jobs'[q].run \notin contents,
           NoCrash' => jobs[q].pc \notin Executing /\ jobs'[q].pc \notin Resolved
    PROVE  Orderly'
<1>1. NoRun \notin Requests /\ contents \subseteq Requests
  BY GenerationAssumption DEF IInv, TypeOK
<1>2. ExecutorOK(q)' /\ ReclaimerOK(q)'
  BY DEF ExecutorOK, ReclaimerOK
<1>3. \A p \in Requests : jobs[p].pc \in Executing => jobs[p].run # NoRun
  BY DEF IInv, TypeOK
<1> QED
  BY <1>1, <1>2, <1>3, OrderlyStep

\* Where nobody dies no lease runs out, so that no run is taken over.
LEMMA NothingStale ==
    ASSUME IInv, Orderly, NoCrash, NEW q \in Requests, NEW r \in Requests, runs[r].status = "RUNNING"
    PROVE  ~Stale(q, r)
<1>1. PICK p \in Requests : jobs[p].pc \in Executing /\ jobs[p].run = r
  BY DEF Orderly, Calm, Executed
<1>2. runs[r].lease = "fresh"
  BY <1>1 DEF Orderly, ExecutorOK
<1> QED
  BY <1>2 DEF Stale
OrderKept == Orderly /\ slips' = 0 /\ unknowns' = 0 /\ (OneKey \/ NoCrash) => Orderly'
Before == IInv /\ KeysInv /\ RowsKept /\ IInv'

LEMMA SameRows ==
    ASSUME UNCHANGED runs
    PROVE  Frame /\ \A r \in Requests : runs'[r].status = "RUNNING" => runs[r].status = "RUNNING"
BY DEF Frame

LEMMA BeginOrder ==
    ASSUME Before, NEW q \in Requests, Begin(q) PROVE KeysInv' /\ Steps(q) /\ OrderKept
<1>1. PICK k \in Keys : jobs' = [jobs EXCEPT ![q] =
          [pc |-> "claiming", key |-> k, revision |-> workRevision, run |-> NoRun, tries |-> 0,
           late |-> {}]]
  BY DEF Begin
<1>2. /\ jobs'[q].pc = "claiming" /\ jobs'[q].key \in Keys
      /\ \A p \in Requests \ {q} : jobs'[p] = jobs[p]
  BY <1>1, TablesOK DEF Before
<1>3. Steps(q) /\ UNCHANGED <<runs, contents>> /\ jobs[q].pc = "new"
  BY <1>2 DEF Steps, Begin, At
<1>4. KeysInv'
  BY <1>2, <1>3, SameRows, KeysStep DEF Before
<1>5. OrderKept
  BY <1>2, <1>3, WalkStep DEF Before, OrderKept, Executing, Resolved
<1> QED
  BY <1>3, <1>4, <1>5

LEMMA ResolveOrder ==
    ASSUME Before, NEW q \in Requests, jobs[q].pc \in {"claiming", "resolving"},
           NEW r \in Requests, runs[r].status # "ABSENT",
           Resolve(q, r), UNCHANGED <<runs, contents>>
    PROVE  KeysInv' /\ Steps(q) /\ OrderKept
<1>1. PICK pc \in {"refused", "ok", "exists", "reconciling"} :
          Go(q, pc, r) /\ (pc = "reconciling" => runs[r].status = "RUNNING" /\ Stale(q, r))
  <2>1. \/ Go(q, "refused", r) \/ Go(q, "ok", r) \/ Go(q, "exists", r)
        \/ /\ Go(q, "reconciling", r) /\ runs[r].status \notin {"SUCCEEDED", "FAILED"}
           /\ Stale(q, r)
    BY DEF Resolve
  <2>2. runs[r].status \in {"SUCCEEDED", "FAILED", "RUNNING"}
    BY TablesOK DEF Before, RowsOK, Run
  <2> QED
    BY <2>1, <2>2
<1>2. Steps(q) /\ jobs'[q].pc = pc
  BY <1>1, GoSteps DEF Before, Claiming, Final
<1>3. KeysInv'
  BY <1>2, SameRows, KeysStep DEF Before
<1>4. OrderKept
  <2> SUFFICES ASSUME Orderly PROVE Orderly'
    BY DEF OrderKept
  <2>1. NoCrash' => pc # "reconciling"
    BY <1>1, <1>2, EarlierToo, NothingStale DEF Before
  <2> QED
    BY <1>2, <2>1, WalkStep DEF Before, Executing, Resolved
<1> QED
  BY <1>2, <1>3, <1>4

LEMMA ClaimOrder ==
    ASSUME Before, NEW q \in Requests, Claim(q) PROVE KeysInv' /\ Steps(q) /\ OrderKept
<1>1. jobs[q].pc = "claiming" /\ UNCHANGED <<runs, contents>>
  BY DEF Claim, At
<1>2. ASSUME Go(q, "inserting", NoRun) PROVE KeysInv' /\ Steps(q) /\ OrderKept
  <2>1. Steps(q) /\ jobs'[q].pc = "inserting"
    BY <1>1, <1>2, GoSteps DEF Before, Claiming
  <2> QED
    BY <1>1, <2>1, SameRows, KeysStep, WalkStep DEF Before, OrderKept, Executing, Resolved
<1>3. ASSUME NEW r \in ByKey(KeyOf(q)), Resolve(q, r) PROVE KeysInv' /\ Steps(q) /\ OrderKept
  BY <1>1, <1>3, ResolveOrder DEF ByKey
<1> QED
  BY <1>2, <1>3 DEF Claim

LEMMA LookUpOrder ==
    ASSUME Before, NEW q \in Requests, LookUp(q) PROVE KeysInv' /\ Steps(q) /\ OrderKept
<1>1. jobs[q].pc = "resolving" /\ UNCHANGED <<runs, contents>>
  BY DEF LookUp, At
<1>2. ASSUME Go(q, "refused", NoRun) PROVE KeysInv' /\ Steps(q) /\ OrderKept
  <2>1. Steps(q) /\ jobs'[q].pc = "refused"
    BY <1>1, <1>2, GoSteps DEF Before, Claiming, Final
  <2> QED
    BY <1>1, <2>1, SameRows, KeysStep, WalkStep DEF Before, OrderKept, Executing, Resolved
<1>3. ASSUME NEW r \in InTheWay(q), Resolve(q, r) PROVE KeysInv' /\ Steps(q) /\ OrderKept
  <2>1. r \in Requests /\ runs[r].status # "ABSENT"
    BY DEF InTheWay, ByKey, FenceA, FenceB
  <2> QED
    BY <1>1, <1>3, <2>1, ResolveOrder
<1> QED
  BY <1>2, <1>3 DEF LookUp

LEMMA InsertOrder ==
    ASSUME Before, NEW q \in Requests, Insert(q) PROVE KeysInv' /\ Steps(q) /\ OrderKept
<1>1. jobs[q].pc = "inserting" /\ UNCHANGED contents
  BY DEF Insert, At
<1>2. CASE ~MayInsert(q)
  <2>1. Go(q, "resolving", NoRun) /\ UNCHANGED runs
    BY <1>2 DEF Insert
  <2>2. Steps(q) /\ jobs'[q].pc = "resolving"
    BY <1>1, <2>1, GoSteps DEF Before, Claiming
  <2> QED
    BY <1>1, <2>1, <2>2, SameRows, KeysStep, WalkStep DEF Before, OrderKept, Executing, Resolved
<1>3. CASE MayInsert(q)
  <2> DEFINE row == [status |-> "RUNNING", key |-> jobs[q].key, revision |-> jobs[q].revision,
                     lease |-> "fresh"]
  <2>1. row.status = "RUNNING" /\ row.lease = "fresh" /\ row.key = jobs[q].key
    OBVIOUS
  <2>2. runs' = [runs EXCEPT ![q] = row] /\ Go(q, "calling", q)
    BY <1>3 DEF Insert, KeyOf, RevisionOf
  <2> HIDE DEF row
  <2>3. runs'[q] = row /\ \A p \in Requests \ {q} : runs'[p] = runs[p]
    BY <2>2, TablesOK DEF Before, RowsOK
  <2>4. Steps(q) /\ jobs'[q].pc = "calling" /\ jobs'[q].run = q /\ jobs'[q].key = jobs[q].key
    BY <1>1, <2>2, GoSteps DEF Before, Claiming, Executing
  <2>5. runs[q].status = "ABSENT"
    BY <1>1 DEF Before, IInv, JobOK, Claiming
  <2>6. \A p \in Requests : runs[p].status # "RUNNING"
    BY <1>3 DEF MayInsert, FenceB
  <2>7. KeysInv'
    <3>1. OneRunning'
      BY <2>3, <2>6 DEF OneRunning
    <3>2. ASSUME NEW p \in Requests PROVE KeyOK(p)'
      <4>1. CASE p = q
        BY <1>1, <2>1, <2>3, <2>4, <4>1 DEF Before, KeysInv, KeyOK
      <4>2. CASE p # q
        <5>1. jobs'[p] = jobs[p] /\ runs'[p] = runs[p]
          BY <2>3, <2>4, <4>2 DEF Steps
        <5>2. jobs[p].pc = "evicting" => runs'[jobs[p].run].key = runs[jobs[p].run].key
          BY DEF Before, IInv, JobOK, Present, RowsKept
        <5> QED
          BY <5>1, <5>2 DEF Before, KeysInv, KeyOK
      <4> QED
        BY <4>1, <4>2
    <3> QED
      BY <3>1, <3>2 DEF KeysInv
  <2>8. ASSUME Orderly PROVE Orderly'
    <3>1. q \notin contents
      BY <2>5, <2>8 DEF Orderly, Live
    <3>2. ExecutorOK(q)' /\ ReclaimerOK(q)'
      BY <1>1, <2>1, <2>3, <2>4, <3>1 DEF ExecutorOK, ReclaimerOK
    <3>3. \A p \in Requests \ {q} : jobs[p].pc \in Executing => jobs[p].run # q
      BY <2>5 DEF Before, IInv, JobOK, Present
    <3>4. jobs[q].pc \notin Executing /\ jobs'[q].pc \in Executing /\ jobs'[q].pc \notin Resolved
      BY <1>1, <2>4 DEF Executing, Resolved
    <3> QED
      BY <1>1, <2>3, <2>4, <2>8, <3>1, <3>2, <3>3, <3>4, OrderlyStep DEF Before
  <2> QED
    BY <2>4, <2>7, <2>8 DEF OrderKept
<1> QED
  BY <1>2, <1>3

LEMMA ReconcileOrder ==
    ASSUME Before, NEW q \in Requests, Reconcile(q) PROVE KeysInv' /\ Steps(q) /\ OrderKept
<1> DEFINE r == jobs[q].run
<1>1. /\ jobs[q].pc = "reconciling" /\ UNCHANGED <<runs, contents>> /\ r \in Requests
  BY DEF Reconcile, At, Before, IInv, JobOK, Present
<1>2. \/ Go(q, "settling", r)
      \/ Go(q, "reclaiming", r) /\ r \notin contents
      \/ Go(q, "evicting", r) /\ runs[r].key # jobs[q].key
  BY DEF Reconcile, KeyOf
<1> HIDE DEF r
<1>3. PICK pc \in {"settling", "reclaiming", "evicting"} :
          /\ Go(q, pc, r)
          /\ pc = "reclaiming" => r \notin contents
          /\ pc = "evicting" => runs[r].key # jobs[q].key
  BY <1>2
<1>4. Steps(q) /\ jobs'[q].pc = pc /\ jobs'[q].run = r /\ jobs'[q].key = jobs[q].key
  BY <1>1, <1>3, GoSteps DEF Before, Claiming
<1>5. KeysInv'
  BY <1>1, <1>3, <1>4, SameRows, KeysStep DEF Before
<1>6. ASSUME Orderly PROVE Orderly'
  <2>1. ~NoCrash'
    BY <1>1, <1>4, <1>6, EarlierToo DEF Before, Orderly, Calm, Resolved
  <2> QED
    BY <1>1, <1>3, <1>4, <1>6, <2>1, WalkStep DEF Before, Executing
<1> QED
  BY <1>4, <1>5, <1>6 DEF OrderKept

LEMMA ReclaimOrder ==
    ASSUME Before, NEW q \in Requests, Reclaim(q) PROVE KeysInv' /\ Steps(q) /\ OrderKept
<1> DEFINE r == jobs[q].run
<1>1. /\ jobs[q].pc = "reclaiming" /\ UNCHANGED contents /\ r \in Requests
  BY DEF Reclaim, At, Before, IInv, JobOK, Present
<1>2. \/ /\ runs[r].status = "RUNNING" /\ Stale(q, r)
         /\ runs' = [runs EXCEPT ![r].lease = "fresh"] /\ Go(q, "calling", r)
      \/ Go(q, "refused", r) /\ UNCHANGED runs
  BY DEF Reclaim
<1>3. ASSUME Orderly PROVE ~NoCrash'
  <2>1. ~NoCrash
    BY <1>1, <1>3 DEF Orderly, Calm, Resolved
  <2>2. Steps(q)
    BY <1>1, <1>2, GoSteps DEF Before, Claiming, Executing, Final
  <2> QED
    BY <2>1, <2>2, EarlierToo DEF Before
<1>4. CASE Go(q, "refused", r) /\ UNCHANGED runs
  <2>1. Steps(q) /\ jobs'[q].pc = "refused"
    BY <1>1, <1>4, GoSteps DEF Before, Claiming, Final
  <2> QED
    BY <1>1, <1>3, <1>4, <2>1, SameRows, KeysStep, WalkStep DEF Before, OrderKept, Executing
<1>5. CASE /\ runs[r].status = "RUNNING" /\ Stale(q, r)
           /\ runs' = [runs EXCEPT ![r].lease = "fresh"] /\ Go(q, "calling", r)
  <2>1. /\ \A p \in Requests : /\ runs'[p].status = runs[p].status
                               /\ runs'[p].lease = IF p = r THEN "fresh" ELSE runs[p].lease
                               /\ p # r => runs'[p] = runs[p]
        /\ Frame
    BY <1>1, <1>5, TablesOK, LeaseMoves DEF Before
  <2>2. Steps(q) /\ jobs'[q].pc = "calling" /\ jobs'[q].run = r
    <3>1. IInv /\ jobs[q].pc \in Claiming /\ Go(q, "calling", r) /\ r \in Requests
      BY <1>1, <1>5 DEF Before, Claiming
    <3> HIDE DEF r
    <3> QED
      BY <3>1, GoSteps DEF Executing
  <2>3. KeysInv'
    BY <2>1, <2>2, KeysStep DEF Before
  <2>4. ASSUME Orderly PROVE Orderly'
    <3>1. runs[r].lease = "expired" /\ r \notin jobs[q].late
      BY <1>5 DEF Stale
    <3>2. r \notin contents
      BY <1>1, <1>5, <2>4, <3>1 DEF Orderly, ReclaimerOK
    <3>3. \A p \in Requests : jobs[p].pc \in Executing => jobs[p].run # r
      BY <1>5, <2>4, <3>1 DEF Orderly, ExecutorOK
    <3>4. ExecutorOK(q)' /\ ReclaimerOK(q)'
      BY <1>1, <1>5, <2>1, <2>2, <3>2 DEF ExecutorOK, ReclaimerOK
    <3> HIDE DEF r
    <3> QED
      BY <1>1, <1>3, <2>1, <2>2, <2>4, <3>2, <3>3, <3>4, OrderlyStep DEF Before
  <2> QED
    BY <2>2, <2>3, <2>4 DEF OrderKept
<1> QED
  BY <1>2, <1>4, <1>5

\* There is nobody to evict a run: with one key it is the request's own, and
\* where nobody dies none is stale.
LEMMA EvictOrder ==
    ASSUME Before, NEW q \in Requests, Evict(q) PROVE KeysInv' /\ Steps(q) /\ OrderKept
<1> DEFINE r == jobs[q].run
<1>1. /\ jobs[q].pc = "evicting" /\ UNCHANGED contents /\ Present(r) /\ Retry(q)
      /\ runs' = Failed(r)
  BY DEF Evict, At, Before, IInv, JobOK
<1>2. Steps(q) /\ jobs'[q].pc \in {"claiming", "refused"}
  BY <1>1, RetrySteps DEF Before, Claiming
<1>3. /\ \A p \in Requests : runs'[p].status = "RUNNING" => runs[p].status = "RUNNING"
      /\ Frame
  <2>1. CASE runs[r].status = "RUNNING"
    <3>1. runs' = Settled(r, "FAILED")
      BY <1>1, <2>1 DEF Failed
    <3> QED
      BY <1>1, <3>1, TablesOK, SettledFacts DEF Before, Present, Frame
  <2>2. CASE runs[r].status # "RUNNING"
    BY <1>1, <2>2, SameRows DEF Failed
  <2> QED
    BY <2>1, <2>2
<1>4. KeysInv'
  BY <1>2, <1>3, KeysStep DEF Before
<1>5. ~(Orderly /\ (OneKey \/ NoCrash))
  <2>1. ASSUME Orderly, NoCrash PROVE FALSE
    BY <1>1, <2>1 DEF Orderly, Calm, Resolved
  <2>2. ASSUME OneKey PROVE FALSE
    <3>1. runs[r].key = jobs[r].key /\ jobs[r].key \in Keys /\ r \in Requests
      BY <1>1 DEF Before, KeysInv, KeyOK, Present
    <3>2. jobs[q].key \in Keys /\ runs[r].key # jobs[q].key
      BY <1>1 DEF Before, KeysInv, KeyOK
    <3> QED
      BY <2>2, <3>1, <3>2 DEF OneKey, KeyOf
  <2> QED
    BY <2>1, <2>2
<1> QED
  BY <1>2, <1>4, <1>5 DEF OrderKept
-----------------------------------------------------------------------------
\* Order after a step of the only executor of a run.
LEMMA ExecutorStep ==
    ASSUME Before, Orderly, NEW q \in Requests, Steps(q), jobs[q].pc \in Executing,
           NEW r \in Requests, r = jobs[q].run,
           \A s \in Requests \ {r} : runs'[s] = runs[s],
           contents \subseteq contents', \A s \in contents' : s # r => s \in contents,
           r \in contents' => /\ runs'[r].status \in {"RUNNING", "SUCCEEDED"}
                              /\ runs'[r].status = "RUNNING" => runs'[r].lease = "fresh",
           ExecutorOK(q)', jobs'[q].pc \in Executing => jobs'[q].run = r,
           jobs'[q].pc \notin Resolved,
           runs'[r].status = "RUNNING" => jobs'[q].pc \in Executing
    PROVE  Orderly'
<1>1. \A p \in Requests \ {q} : ~(jobs[p].pc \in Executing /\ jobs[p].run = r)
  BY DEF Orderly, Alone
<1>2. ReclaimerOK(q)'
  BY DEF ReclaimerOK, Resolved
<1>3. IInv /\ IInv'
  BY DEF Before
<1> QED
  BY <1>1, <1>2, <1>3, OrderlyStep

LEMMA ModelAnswersOrder ==
    ASSUME Before, NEW q \in Requests, ModelAnswers(q) PROVE KeysInv' /\ Steps(q) /\ OrderKept
<1> DEFINE r == jobs[q].run
<1>1. jobs[q].pc = "calling" /\ UNCHANGED <<runs, contents>> /\ r \in Requests
  BY DEF ModelAnswers, At, Before, IInv, JobOK, Present, Executing
<1>2. PICK pc \in {"heartbeat", "failing"} : Go(q, pc, r)
  BY DEF ModelAnswers
<1> HIDE DEF r
<1>3. Steps(q) /\ jobs'[q].pc = pc /\ jobs'[q].run = r
  BY <1>1, <1>2, GoSteps DEF Before, Executing
<1>4. KeysInv'
  BY <1>1, <1>3, SameRows, KeysStep DEF Before
<1>5. ASSUME Orderly PROVE Orderly'
  <2>1. r \notin contents /\ runs[r].status = "RUNNING" /\ runs[r].lease = "fresh"
    BY <1>1, <1>5 DEF Orderly, ExecutorOK, Executing, r
  <2>2. ExecutorOK(q)' /\ jobs'[q].pc \in Executing /\ jobs'[q].pc \notin Resolved
    BY <1>1, <1>3, <2>1 DEF ExecutorOK, Executing, Resolved
  <2>3. jobs[q].pc \in Executing /\ r = jobs[q].run
    BY <1>1 DEF Executing, r
  <2> QED
    BY <1>1, <1>3, <1>5, <2>1, <2>2, <2>3, ExecutorStep
<1> QED
  BY <1>3, <1>4, <1>5 DEF OrderKept

LEMMA HeartbeatOrder ==
    ASSUME Before, NEW q \in Requests, Heartbeat(q) PROVE KeysInv' /\ Steps(q) /\ OrderKept
<1> DEFINE r == jobs[q].run
<1>1. jobs[q].pc = "heartbeat" /\ UNCHANGED contents /\ Present(r) /\ r \in Requests
  BY DEF Heartbeat, At, Before, IInv, JobOK, Present, Executing
<1>2. \/ runs[r].status = "SUCCEEDED" /\ Go(q, "ok", r) /\ UNCHANGED runs
      \/ /\ runs[r].status # "SUCCEEDED" /\ Go(q, "materializing", r)
         /\ runs' = [runs EXCEPT ![r].lease = "fresh"]
  BY DEF Heartbeat
<1>3. jobs[q].pc \in Executing /\ r = jobs[q].run
  BY <1>1 DEF Executing
<1> HIDE DEF r
<1>4. CASE runs[r].status = "SUCCEEDED" /\ Go(q, "ok", r) /\ UNCHANGED runs
  <2>1. Steps(q) /\ jobs'[q].pc = "ok"
    BY <1>1, <1>3, <1>4, GoSteps DEF Before, Final
  <2>2. KeysInv'
    BY <1>4, <2>1, SameRows, KeysStep DEF Before
  <2>3. ~Orderly
    BY <1>1, <1>3, <1>4 DEF Orderly, ExecutorOK
  <2> QED
    BY <2>1, <2>2, <2>3 DEF OrderKept
<1>5. CASE /\ runs[r].status # "SUCCEEDED" /\ Go(q, "materializing", r)
           /\ runs' = [runs EXCEPT ![r].lease = "fresh"]
  <2>1. runs[r].status \in {"RUNNING", "FAILED"}
    BY <1>1, <1>5, TablesOK DEF Before, Present, RowsOK, Run
  <2>2. /\ \A p \in Requests : /\ runs'[p].status = runs[p].status
                               /\ runs'[p].lease = IF p = r THEN "fresh" ELSE runs[p].lease
                               /\ p # r => runs'[p] = runs[p]
        /\ Frame
    BY <1>1, <1>5, <2>1, TablesOK, LeaseMoves DEF Before
  <2>3. Steps(q) /\ jobs'[q].pc = "materializing" /\ jobs'[q].run = r
    BY <1>1, <1>3, <1>5, GoSteps DEF Before, Executing
  <2>4. KeysInv'
    BY <2>2, <2>3, KeysStep DEF Before
  <2>5. ASSUME Orderly PROVE Orderly'
    <3>1. r \notin contents /\ runs[r].status = "RUNNING"
      BY <1>1, <1>3, <2>5 DEF Orderly, ExecutorOK
    <3>2. runs'[r].status = "RUNNING" /\ runs'[r].lease = "fresh"
      BY <1>1, <2>2, <3>1
    <3>3. ExecutorOK(q)' /\ jobs'[q].pc \in Executing /\ jobs'[q].pc \notin Resolved
      BY <1>1, <2>3, <3>1, <3>2 DEF ExecutorOK, Executing, Resolved
    <3> QED
      BY <1>1, <1>3, <2>2, <2>3, <2>5, <3>1, <3>2, <3>3, ExecutorStep
  <2> QED
    BY <2>3, <2>4, <2>5 DEF OrderKept
<1> QED
  BY <1>2, <1>4, <1>5

\* An executor that learns of its commit has the worksheet of a run it owns.
LEMMA MaterializeOrder ==
    ASSUME Before, NEW q \in Requests, Materialize(q) PROVE KeysInv' /\ Steps(q) /\ OrderKept
<1> DEFINE r == jobs[q].run
<1>1. jobs[q].pc = "materializing" /\ UNCHANGED runs /\ r \in Requests
  BY DEF Materialize, At, Before, IInv, JobOK, Present, Executing
<1>2. PICK pc \in {"finalizing", "failing"} :
          /\ Go(q, pc, r)
          /\ contents \subseteq contents' /\ \A s \in contents' : s # r => s \in contents
          /\ pc = "failing" /\ unknowns' = 0 => contents' = contents
  <2>1. unknowns + 1 # 0
    BY DEF Before, IInv, TypeOK
  <2> QED
    BY <2>1 DEF Materialize
<1>3. jobs[q].pc \in Executing /\ r = jobs[q].run
  BY <1>1 DEF Executing
<1> HIDE DEF r
<1>4. Steps(q) /\ jobs'[q].pc = pc /\ jobs'[q].run = r
  BY <1>1, <1>2, <1>3, GoSteps DEF Before, Executing
<1>5. KeysInv'
  BY <1>1, <1>4, SameRows, KeysStep DEF Before
<1>6. ASSUME Orderly, unknowns' = 0 PROVE Orderly'
  <2>1. r \notin contents /\ runs[r].status = "RUNNING" /\ runs[r].lease = "fresh"
    BY <1>1, <1>3, <1>6 DEF Orderly, ExecutorOK
  <2>2. ExecutorOK(q)'
    BY <1>1, <1>2, <1>4, <1>6, <2>1 DEF ExecutorOK
  <2>3. jobs'[q].pc \in Executing /\ jobs'[q].pc \notin Resolved
    BY <1>4 DEF Executing, Resolved
  <2> QED
    BY <1>1, <1>2, <1>3, <1>4, <1>6, <2>1, <2>2, <2>3, ExecutorStep
<1> QED
  BY <1>4, <1>5, <1>6 DEF OrderKept
LEMMA MarkFailedOrder ==
    ASSUME Before, NEW q \in Requests, MarkFailed(q) PROVE KeysInv' /\ Steps(q) /\ OrderKept
<1> DEFINE r == jobs[q].run
<1>1. /\ jobs[q].pc = "failing" /\ UNCHANGED contents /\ Present(r) /\ r \in Requests
      /\ Go(q, "refused", r) /\ runs' = Failed(r)
  BY DEF MarkFailed, At, Before, IInv, JobOK, Present, Executing
<1>2. jobs[q].pc \in Executing /\ r = jobs[q].run
  BY <1>1 DEF Executing
<1> HIDE DEF r
<1>3. Steps(q) /\ jobs'[q].pc = "refused"
  BY <1>1, <1>2, GoSteps DEF Before, Final
<1>4. /\ \A p \in Requests : p # r => runs'[p] = runs[p]
      /\ runs'[r].status # "RUNNING" /\ Frame
  <2>1. CASE runs[r].status = "RUNNING"
    <3>1. runs' = Settled(r, "FAILED")
      BY <1>1, <2>1 DEF Failed
    <3> QED
      BY <1>1, <2>1, <3>1, TablesOK, SettledFacts DEF Before, Frame
  <2>2. CASE runs[r].status # "RUNNING"
    BY <1>1, <2>2, SameRows DEF Failed
  <2> QED
    BY <2>1, <2>2
<1>5. KeysInv'
  <2>1. \A p \in Requests : runs'[p].status = "RUNNING" => runs[p].status = "RUNNING"
    BY <1>4
  <2> QED
    BY <1>3, <1>4, <2>1, KeysStep DEF Before
<1>6. ASSUME Orderly PROVE Orderly'
  <2>1. r \notin contents
    BY <1>1, <1>2, <1>6 DEF Orderly, ExecutorOK
  <2>2. ExecutorOK(q)' /\ jobs'[q].pc \notin Executing /\ jobs'[q].pc \notin Resolved
    BY <1>3 DEF ExecutorOK, Executing, Resolved
  <2> QED
    BY <1>1, <1>2, <1>3, <1>4, <1>6, <2>1, <2>2, ExecutorStep
<1> QED
  BY <1>3, <1>5, <1>6 DEF OrderKept

\* Of the requests that hold a worksheet's run, whichever comes first settles it.
LEMMA FinalizeOrder ==
    ASSUME Before, NEW q \in Requests, Finalize(q) PROVE KeysInv' /\ Steps(q) /\ OrderKept
<1> DEFINE r == jobs[q].run
           done == runs[r].status = "SUCCEEDED"
           taken == FenceA(runs[r].revision) \ {r} # {}
<1>1. /\ jobs[q].pc \in {"finalizing", "settling"} /\ UNCHANGED contents
      /\ Present(r) /\ r \in Requests /\ r \in contents
  BY DEF Finalize, Before, IInv, JobOK, Executing, Claiming, Present
<1>2. \/ Go(q, "refused", r) \/ Go(q, "ok", r) \/ Retry(q)
  BY DEF Finalize
<1>3. /\ \A p \in Requests : p # r => runs'[p] = runs[p]
      /\ \/ runs' = runs /\ (done \/ taken)
         \/ runs'[r].status = "SUCCEEDED"
      /\ \A p \in Requests : runs'[p].status = "RUNNING" => runs[p].status = "RUNNING"
      /\ Frame
  <2>1. CASE done \/ taken
    <3>1. UNCHANGED runs
      BY <2>1 DEF Finalize
    <3> QED
      BY <2>1, <3>1, SameRows
  <2>2. CASE ~(done \/ taken)
    <3>1. runs' = Settled(r, "SUCCEEDED")
      BY <2>2 DEF Finalize
    <3>2. \A p \in Requests : /\ runs'[p].status = IF p = r THEN "SUCCEEDED" ELSE runs[p].status
                              /\ p # r => runs'[p] = runs[p]
      BY <1>1, <3>1, TablesOK, SettledFacts DEF Before
    <3> QED
      BY <1>1, <3>2 DEF Frame, Present
  <2> QED
    BY <2>1, <2>2
<1>4. Steps(q) /\ jobs'[q].pc \in {"refused", "ok", "claiming"}
  <2>1. CASE Retry(q)
    BY <1>1, <2>1, RetrySteps DEF Before, Claiming, Executing
  <2>2. CASE Go(q, "refused", r) \/ Go(q, "ok", r)
    <3> HIDE DEF r
    <3> QED
      BY <1>1, <2>2, GoSteps DEF Before, Claiming, Executing, Final
  <2> QED
    BY <1>2, <2>1, <2>2
<1>5. KeysInv'
  BY <1>3, <1>4, KeysStep DEF Before
<1>6. ASSUME Orderly PROVE Orderly'
  <2>1. runs[r].status \in {"RUNNING", "SUCCEEDED"}
    BY <1>1, <1>6 DEF Orderly, Live
  <2>2. taken => done
    <3> SUFFICES ASSUME taken, ~done PROVE FALSE
      OBVIOUS
    <3>1. PICK s \in Requests \ {r} : runs[s].status \in {"RUNNING", "SUCCEEDED"}
                                        /\ runs[s].revision = runs[r].revision
      BY DEF FenceA
    <3> QED
      BY <1>1, <2>1, <3>1 DEF Before, IInv, OneOutcome
  <2>3. runs'[r].status = "SUCCEEDED"
    BY <1>3, <2>2
  <2>4. \A p \in Requests : jobs[p].pc \in Executing /\ jobs[p].run = r =>
            jobs[p].pc = "finalizing"
    BY <1>1, <1>6 DEF Orderly, ExecutorOK
  <2>5. jobs'[q].pc \notin Executing /\ jobs'[q].pc \notin Resolved
    BY <1>4 DEF Executing, Resolved
  <2>6. ExecutorOK(q)' /\ ReclaimerOK(q)'
    BY <1>4, <2>5 DEF ExecutorOK, ReclaimerOK
  <2>7. jobs[q].run = r
    OBVIOUS
  <2> HIDE DEF r, done, taken
  <2> QED
    BY <1>1, <1>3, <1>4, <1>6, <2>3, <2>4, <2>5, <2>6, <2>7, OrderlyStep DEF Before
<1> QED
  BY <1>4, <1>5, <1>6 DEF OrderKept

LEMMA CrashOrder ==
    ASSUME Before, NEW q \in Requests, Crash(q) PROVE KeysInv' /\ Steps(q) /\ OrderKept
<1> DEFINE r == jobs[q].run
<1>1. /\ jobs[q].pc \in Claiming \cup Executing /\ UNCHANGED <<runs, contents>>
      /\ Go(q, "crashed", r) /\ r \in Requests \cup {NoRun}
  BY TablesOK DEF Crash, Before, Job
<1> HIDE DEF r
<1>2. Steps(q) /\ jobs'[q].pc = "crashed"
  BY <1>1, GoSteps DEF Before, Final
<1>3. KeysInv'
  BY <1>1, <1>2, SameRows, KeysStep DEF Before
<1>4. ~NoCrash' /\ jobs'[q].pc \notin Executing
  BY <1>2 DEF NoCrash, At, Executing
<1>5. OrderKept
  BY <1>1, <1>2, <1>4, WalkStep DEF Before, OrderKept
<1> QED
  BY <1>2, <1>3, <1>5

\* A lease runs out, and every request that is claiming sees that it has.
LEMMA LeaseExpiresOrder ==
    ASSUME Before, NEW r \in Requests, LeaseExpires(r)
    PROVE  KeysInv' /\ (NoCrash' => NoCrash) /\ (OneKey' => OneKey) /\ OrderKept
<1>1. /\ \A p \in Requests : /\ runs'[p].status = runs[p].status
                             /\ runs'[p].lease = IF p = r THEN "expired" ELSE runs[p].lease
                             /\ p # r => runs'[p] = runs[p]
      /\ Frame
  BY TablesOK, LeaseMoves DEF LeaseExpires, Before
<1>2. \A p \in Requests : runs'[p].key = runs[p].key
  <2> SUFFICES ASSUME NEW p \in Requests PROVE runs'[p].key = runs[p].key
    OBVIOUS
  <2>1. runs[r].status # "ABSENT"
    BY DEF LeaseExpires
  <2> QED
    BY <1>1, <2>1 DEF Before, RowsKept
<1>3. \A p \in Requests : SameJob(p) /\ (jobs[p].pc \in Claiming => r \in jobs'[p].late
                                                      /\ jobs[p].late \subseteq jobs'[p].late)
  <2> SUFFICES ASSUME NEW p \in Requests
               PROVE  LET job == IF jobs[p].pc \in Claiming
                                 THEN [jobs[p] EXCEPT !.late = jobs[p].late \cup {r}]
                                 ELSE jobs[p]
                      IN /\ job.pc = jobs[p].pc /\ job.run = jobs[p].run
                         /\ job.key = jobs[p].key /\ job.revision = jobs[p].revision
                         /\ jobs[p].pc \in Claiming => job.late = jobs[p].late \cup {r}
    BY DEF LeaseExpires, SameJob
  <2>1. jobs[p] \in Job
    BY TablesOK DEF Before
  <2> QED
    BY <2>1 DEF Job
<1>4. KeysInv'
  <2>1. OneRunning'
    BY <1>1 DEF Before, KeysInv, OneRunning
  <2>2. ASSUME NEW p \in Requests PROVE KeyOK(p)'
    <3>1. jobs[p].pc = "evicting" => jobs[p].run \in Requests
      BY DEF Before, IInv, JobOK, Present
    <3> QED
      BY <1>1, <1>2, <1>3, <3>1 DEF Before, KeysInv, KeyOK, SameJob
  <2> QED
    BY <2>1, <2>2 DEF KeysInv
<1>5. (NoCrash' => NoCrash) /\ (OneKey' => OneKey)
  BY <1>3 DEF NoCrash, At, OneKey, KeyOf, SameJob
<1>6. ASSUME Orderly, slips' = 0 PROVE Orderly'
  <2>1. contents' = contents /\ runs[r].status = "RUNNING"
    BY DEF LeaseExpires
  <2>2. ~Executed(r)
    <3>1. slips + 1 # 0
      BY DEF Before, IInv, TypeOK
    <3> QED
      BY <1>6, <3>1 DEF LeaseExpires
  <2>3. ~NoCrash'
    BY <1>5, <1>6, <2>1, <2>2 DEF Orderly, Calm
  <2>4. ASSUME NEW p \in Requests PROVE ExecutorOK(p)'
    <3>1. CASE jobs[p].pc \in Executing
      <4>1. jobs[p].run \in Requests /\ jobs[p].run # r
        BY <2>2, <3>1 DEF Executed, Before, IInv, JobOK, Present
      <4> QED
        BY <1>1, <1>3, <1>6, <2>1, <4>1 DEF Orderly, ExecutorOK, SameJob
    <3>2. CASE jobs[p].pc \notin Executing
      BY <1>3, <3>2 DEF ExecutorOK, SameJob
    <3> QED
      BY <3>1, <3>2
  <2>5. ASSUME NEW p \in Requests PROVE ReclaimerOK(p)'
    <3> SUFFICES ASSUME jobs[p].pc = "reclaiming" PROVE ReclaimerOK(p)'
      BY <1>3 DEF ReclaimerOK, SameJob
    <3>1. jobs[p].run \in Requests /\ jobs[p].pc \in Claiming
      BY DEF Before, IInv, JobOK, Present, Claiming
    <3> QED
      BY <1>1, <1>3, <1>6, <2>1, <3>1 DEF Orderly, ReclaimerOK, SameJob
  <2>6. Alone'
    BY <1>3, <1>6 DEF Orderly, Alone, SameJob
  <2>7. Live'
    <3>1. contents \subseteq Requests
      BY DEF Before, IInv, TypeOK
    <3> QED
      BY <1>1, <1>6, <2>1, <3>1 DEF Orderly, Live
  <2> QED
    BY <2>3, <2>4, <2>5, <2>6, <2>7 DEF Orderly, Calm
<1> QED
  BY <1>4, <1>5, <1>6 DEF OrderKept
-----------------------------------------------------------------------------
LEMMA FencedInit == Init => FencedInv
<1> SUFFICES ASSUME Init PROVE FencedInv
  OBVIOUS
<1>1. /\ \A q \in Requests : jobs[q].pc = "new" /\ jobs[q].key = NoKey
      /\ \A r \in Requests : runs[r].status = "ABSENT"
      /\ contents = {}
  BY DEF Init, NoRow, NewJob
<1>2. KeysInv
  BY <1>1 DEF KeysInv, OneRunning, KeyOK
<1>3. Orderly
  BY <1>1 DEF Orderly, ExecutorOK, ReclaimerOK, Alone, Live, Calm, Resolved, Executing
<1> QED
  BY <1>2, <1>3, InitOK DEF FencedInv

\* A step keeps the keys, and order where the world stays undisturbed.
LEMMA FencedStep == FencedInv /\ [Next]_vars => FencedInv'
<1> SUFFICES ASSUME FencedInv, [Next]_vars PROVE FencedInv'
  OBVIOUS
<1>1. IInv' /\ Before
  BY StepOK DEF FencedInv, Before
<1>2. CASE UNCHANGED <<runs, contents, jobs, slips, unknowns>>
  <2>1. KeysInv' = KeysInv
    BY <1>2 DEF KeysInv, OneRunning, KeyOK
  <2>2. Orderly' = Orderly
    BY <1>2 DEF Orderly, ExecutorOK, ReclaimerOK, Alone, Live, Calm, NoCrash, At, Executed
  <2>3. Undisturbed' = Undisturbed
    BY <1>2 DEF Undisturbed, OneKey, KeyOf, At
  <2> QED
    BY <1>1, <2>1, <2>2, <2>3 DEF FencedInv
<1>3. CASE \E q \in Requests : Generate(q) \/ Crash(q) \/ LeaseExpires(q)
  <2>1. PICK q \in Requests : Generate(q) \/ Crash(q) \/ LeaseExpires(q)
    BY <1>3
  <2>2. KeysInv' /\ (NoCrash' => NoCrash) /\ (OneKey' => OneKey) /\ OrderKept
    <3>1. CASE LeaseExpires(q)
      BY <1>1, <3>1, LeaseExpiresOrder
    <3>2. CASE Generate(q) \/ Crash(q)
      <4>1. KeysInv' /\ Steps(q) /\ OrderKept
        BY <1>1, <3>2, BeginOrder, ClaimOrder, InsertOrder, LookUpOrder, ReconcileOrder,
           ReclaimOrder, EvictOrder, ModelAnswersOrder, HeartbeatOrder, MaterializeOrder,
           MarkFailedOrder, FinalizeOrder, CrashOrder DEF Generate
      <4> QED
        BY <4>1, EarlierToo DEF FencedInv
    <3> QED
      BY <2>1, <3>1, <3>2
  <2>3. (slips' = 0 => slips = 0) /\ (unknowns' = 0 => unknowns = 0)
    <3>1. slips' \in {slips, slips + 1} /\ unknowns' \in {unknowns, unknowns + 1}
      BY <2>1 DEF Generate, Begin, Claim, Insert, LookUp, Reconcile, Reclaim, Evict, ModelAnswers,
         Heartbeat, Materialize, MarkFailed, Finalize, Crash, LeaseExpires
    <3> QED
      BY <3>1 DEF FencedInv, IInv, TypeOK
  <2>4. ASSUME Undisturbed' PROVE Orderly'
    <3>1. slips' = 0 /\ unknowns' = 0 /\ (OneKey' \/ NoCrash')
      BY <2>4 DEF Undisturbed, NoCrash
    <3>2. Undisturbed
      BY <2>2, <2>3, <3>1 DEF Undisturbed, NoCrash
    <3> QED
      BY <2>2, <3>1, <3>2 DEF FencedInv, OrderKept
  <2> QED
    BY <1>1, <2>2, <2>4 DEF FencedInv
<1> QED
  BY <1>2, <1>3 DEF Next, RefineWork, vars

\* The inductive invariant of the undisturbed world.
THEOREM FencedInvariance == Spec => []FencedInv
BY FencedInit, FencedStep, PTL DEF Spec

\* Clients that repeat one key through crashes, and clients with keys of their own
\* where no process dies, get one worksheet to a Work revision: whoever holds a
\* worksheet's run settles it before its fence is released (generate.py).
THEOREM WorksheetIsFenced == Spec => []WorksheetFenced
<1>1. FencedInv => WorksheetFenced
  <2> SUFFICES ASSUME FencedInv, Undisturbed, NEW r \in contents, NEW s \in contents,
                      runs[r].revision = runs[s].revision
               PROVE  r = s
    BY DEF WorksheetFenced, OneWorksheetPerRevision
  <2>1. r \in Requests /\ s \in Requests
    BY DEF FencedInv, IInv, TypeOK
  <2>2. /\ runs[r].status \in {"RUNNING", "SUCCEEDED"}
        /\ runs[s].status \in {"RUNNING", "SUCCEEDED"}
    BY DEF FencedInv, Orderly, Live
  <2> QED
    BY <2>1, <2>2 DEF FencedInv, IInv, OneOutcome
<1> QED
  BY <1>1, FencedInvariance, PTL

\* There, no two requests have the model called at a time: the one RUNNING run
\* has one executor, whose lease nobody takes over (_claim_or_resolve_run,
\* _reclaim_lease).
THEOREM OneCall == Spec => []OneModelCall
<1>1. FencedInv => OneModelCall
  <2> SUFFICES ASSUME FencedInv, Undisturbed, NEW p \in Requests, NEW q \in Requests,
                      jobs[p].pc = "calling", jobs[q].pc = "calling"
               PROVE  p = q
    BY DEF OneModelCall, At
  <2>1. /\ jobs[p].pc \in Executing /\ jobs[p].run \in Requests
        /\ jobs[q].pc \in Executing /\ jobs[q].run \in Requests
    BY DEF FencedInv, IInv, JobOK, Present, Executing
  <2>2. runs[jobs[p].run].status = "RUNNING" /\ runs[jobs[q].run].status = "RUNNING"
    BY <2>1 DEF FencedInv, Orderly, ExecutorOK
  <2>3. jobs[p].run = jobs[q].run
    BY <2>1, <2>2 DEF FencedInv, KeysInv, OneRunning
  <2> QED
    BY <2>1, <2>3 DEF FencedInv, Orderly, Alone
<1> QED
  BY <1>1, FencedInvariance, PTL

\* What each step does to the status of a run that is FAILED.
LEMMA FailedStep ==
    ASSUME FencedInv, [Next]_vars, NEW r \in Requests, runs[r].status = "FAILED",
           runs'[r].status # "FAILED"
    PROVE  ~Undisturbed /\ runs'[r].status = "SUCCEEDED" /\ r \in contents
             /\ FenceA(runs[r].revision) = {}
<1> DEFINE Goal == ~Undisturbed /\ runs'[r].status = "SUCCEEDED" /\ r \in contents
                     /\ FenceA(runs[r].revision) = {}
<1>1. IInv /\ RowsOK /\ (Undisturbed => Orderly)
  BY TablesOK DEF FencedInv
<1>2. CASE UNCHANGED runs
  BY <1>2
<1>3. ASSUME NEW q \in Requests, Insert(q) PROVE runs'[r].status = "FAILED"
  <2>1. CASE MayInsert(q)
    <3>1. jobs[q].pc = "inserting"
      BY <1>3 DEF Insert, At
    <3>2. runs[q].status = "ABSENT"
      BY <1>1, <3>1 DEF IInv, JobOK, Claiming
    <3> QED
      BY <1>1, <1>3, <2>1, <3>2 DEF Insert, RowsOK
  <2> QED
    BY <1>3, <2>1 DEF Insert
<1>4. ASSUME NEW q \in Requests, NEW s \in Requests, NEW lease \in {"fresh", "expired"},
             runs' = [runs EXCEPT ![s].lease = lease]
      PROVE  runs'[r].status = "FAILED"
  <2>1. runs[r] \in Run
    BY <1>1 DEF RowsOK
  <2> QED
    BY <1>1, <1>4, <2>1 DEF RowsOK, Run
<1>5. ASSUME NEW s \in Requests, runs' = Failed(s) PROVE runs'[r].status = "FAILED"
  <2>1. CASE runs[s].status = "RUNNING"
    <3>1. runs' = Settled(s, "FAILED")
      BY <1>5, <2>1 DEF Failed
    <3> QED
      BY <1>1, <3>1, SettledFacts
  <2> QED
    BY <1>5, <2>1 DEF Failed
<1>6. ASSUME NEW q \in Requests, Reclaim(q) \/ Heartbeat(q) \/ Evict(q) \/ MarkFailed(q)
      PROVE  runs'[r].status = "FAILED"
  <2>1. jobs[q].run \in Requests
    BY <1>1, <1>6 DEF Reclaim, Heartbeat, Evict, MarkFailed, At, IInv, JobOK, Present, Executing
  <2>2. \/ UNCHANGED runs \/ runs' = [runs EXCEPT ![jobs[q].run].lease = "fresh"]
        \/ runs' = Failed(jobs[q].run)
    BY <1>6 DEF Reclaim, Heartbeat, Evict, MarkFailed
  <2> QED
    BY <1>4, <1>5, <2>1, <2>2
<1>7. ASSUME NEW q \in Requests, Finalize(q) PROVE Goal
  <2>1. jobs[q].run \in Requests /\ jobs[q].run \in contents
    BY <1>1, <1>7 DEF Finalize, IInv, JobOK, Present, Claiming, Executing
  <2>2. \/ UNCHANGED runs
        \/ /\ runs' = Settled(jobs[q].run, "SUCCEEDED")
           /\ FenceA(runs[jobs[q].run].revision) \ {jobs[q].run} = {}
    BY <1>7 DEF Finalize
  <2>3. jobs[q].run = r /\ runs'[r].status = "SUCCEEDED"
    BY <1>1, <2>1, <2>2, SettledFacts
  <2>4. FenceA(runs[r].revision) = {}
    BY <2>2, <2>3 DEF FenceA
  <2>5. ~Undisturbed
    BY <1>1, <2>1, <2>3 DEF Orderly, Live
  <2> QED
    BY <2>1, <2>3, <2>4, <2>5
<1>8. ASSUME NEW q \in Requests, LeaseExpires(q) PROVE runs'[r].status = "FAILED"
  BY <1>4, <1>8 DEF LeaseExpires
<1>9. ASSUME NEW q \in Requests,
             \/ Begin(q) \/ Claim(q) \/ LookUp(q) \/ Reconcile(q) \/ ModelAnswers(q)
             \/ Materialize(q) \/ Crash(q)
      PROVE  UNCHANGED runs
  BY <1>9 DEF Begin, Claim, LookUp, Reconcile, ModelAnswers, Materialize, Crash
<1> QED
  BY <1>2, <1>3, <1>6, <1>7, <1>8, <1>9 DEF Next, Generate, RefineWork, vars

\* A run that FAILED and released its fences stays so, but for an outcome that
\* was disturbed, has its worksheet and finds its revision without another one
\* (_mark_failed, _finalize_succeeded).
THEOREM FailedStays == Spec => FailedStaysOrIsOutcome
<1>1. FencedInv /\ [Next]_vars
        => [\A r \in Requests : runs[r].status = "FAILED" /\ runs'[r].status # "FAILED" =>
               /\ ~Undisturbed
               /\ runs'[r].status = "SUCCEEDED" /\ r \in contents
               /\ FenceA(runs[r].revision) = {}]_vars
  BY FailedStep
<1> QED
  BY <1>1, FencedInvariance, PTL DEF Spec, FailedStaysOrIsOutcome
=============================================================================

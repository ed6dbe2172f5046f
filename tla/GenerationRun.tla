--------------------------- MODULE GenerationRun ---------------------------
(***************************************************************************)
(* Generating a worksheet for a Teaching Work: claiming a GenerationRun    *)
(* under its unique indexes and its lease, the model call, the heartbeat,  *)
(* the Content transaction, and the finalization of the run.  Every step   *)
(* is one database transaction (or the model call between two of them);    *)
(* each update of a run holds the run's row lock from read to commit, so   *)
(* the revision it compares with is always the one it has read.            *)
(*                                                                         *)
(* One Work and its one teacher: the requests differ in their idempotency  *)
(* keys, and in the Work revision they name, which must be the current one *)
(* when the request begins.  A run is named by the request that inserted   *)
(* it.  A request compares leases with the time of its own beginning, so a *)
(* lease that runs out later is still fresh in its eyes.                   *)
(***************************************************************************)
EXTENDS Naturals, FiniteSets

CONSTANTS Requests, Keys,
          NoRun, NoKey,
          MaxRevision,   \* bound: refinements of the Work
          MaxCrashes,    \* bound: requests whose process may die
          MaxSlips,      \* bound: leases that run out under a live executor
          MaxUnknown     \* bound: Content commits whose outcome is not learnt

ASSUME GenerationAssumption ==
    /\ NoRun \notin Requests /\ NoKey \notin Keys
    /\ MaxRevision \in Nat /\ MaxCrashes \in Nat /\ MaxSlips \in Nat /\ MaxUnknown \in Nat

VARIABLES workRevision,  \* aggregate_revision of the Work
          runs,          \* ai.generation_runs
          contents,      \* the runs that have an AI ContentVersion
          jobs,          \* the requests
          slips, unknowns

vars == <<workRevision, runs, contents, jobs, slips, unknowns>>

Revisions == 0 .. MaxRevision
Run == [status : {"ABSENT", "RUNNING", "SUCCEEDED", "FAILED"}, key : Keys \cup {NoKey},
        revision : Revisions, lease : {"none", "fresh", "expired"}]
Executing == {"calling", "heartbeat", "materializing", "finalizing", "failing"}
Claiming == {"claiming", "inserting", "resolving", "reconciling", "settling", "reclaiming",
             "evicting"}
Final == {"ok", "exists", "refused", "crashed"}
\* "run": the run a request resolves, executes or is answered with; "late":
\* the leases that have run out since the request began.
Job == [pc : {"new"} \cup Claiming \cup Executing \cup Final, key : Keys \cup {NoKey},
        revision : Revisions, run : Requests \cup {NoRun}, tries : 0 .. 2,
        late : SUBSET Requests]

NoRow == [status |-> "ABSENT", key |-> NoKey, revision |-> 0, lease |-> "none"]
NewJob == [pc |-> "new", key |-> NoKey, revision |-> 0, run |-> NoRun, tries |-> 0, late |-> {}]

\* Types; a RUNNING run has a lease, and whoever works on a run works on one
\* that was inserted.
TypeOK == /\ workRevision \in Revisions
          /\ runs \in [Requests -> Run]
          /\ contents \in SUBSET Requests
          /\ jobs \in [Requests -> Job]
          /\ slips \in Nat /\ unknowns \in Nat
          /\ \A r \in Requests : runs[r].status = "RUNNING" => runs[r].lease # "none"
          /\ \A q \in Requests : jobs[q].pc \in Executing \cup {"ok"} =>
                jobs[q].run # NoRun /\ runs[jobs[q].run].status # "ABSENT"

Init == /\ workRevision = 0
        /\ runs = [r \in Requests |-> NoRow]
        /\ contents = {}
        /\ jobs = [q \in Requests |-> NewJob]
        /\ slips = 0 /\ unknowns = 0
----------------------------------------------------------------------------
Moved(q, pc, r, tries) ==
    [pc |-> pc, key |-> jobs[q].key, revision |-> jobs[q].revision, run |-> r, tries |-> tries,
     late |-> IF pc \in Claiming THEN jobs[q].late ELSE {}]
Go(q, pc, r) == jobs' = [jobs EXCEPT ![q] = Moved(q, pc, r, jobs[q].tries)]

(* The Work, time, and the death of processes. *)

RefineWork == /\ workRevision < MaxRevision
              /\ workRevision' = workRevision + 1
              /\ UNCHANGED <<runs, contents, jobs, slips, unknowns>>

Executed(r) == \E q \in Requests : jobs[q].pc \in Executing /\ jobs[q].run = r

LeaseExpires(r) ==
    /\ runs[r].status = "RUNNING" /\ runs[r].lease = "fresh"
    /\ \/ ~Executed(r) /\ UNCHANGED slips
       \/ Executed(r) /\ slips < MaxSlips /\ slips' = slips + 1
    /\ runs' = [runs EXCEPT ![r].lease = "expired"]
    /\ jobs' = [q \in Requests |->
                  IF jobs[q].pc \in Claiming THEN [jobs[q] EXCEPT !.late = jobs[q].late \cup {r}]
                  ELSE jobs[q]]
    /\ UNCHANGED <<workRevision, contents, unknowns>>

Crash(q) ==
    /\ jobs[q].pc \in Claiming \cup Executing
    /\ Cardinality({p \in Requests : jobs[p].pc = "crashed"}) < MaxCrashes
    /\ Go(q, "crashed", jobs[q].run)
    /\ UNCHANGED <<workRevision, runs, contents, slips, unknowns>>
----------------------------------------------------------------------------
(* Claiming. *)

At(q, pc) == jobs[q].pc = pc
Stale(q, r) == runs[r].lease = "expired" /\ r \notin jobs[q].late
KeyOf(q) == jobs[q].key
RevisionOf(q) == jobs[q].revision

\* generate: the Work is read, and If-Match compared with its revision.
Begin(q) ==
    /\ At(q, "new")
    /\ \E k \in Keys :
          jobs' = [jobs EXCEPT ![q] = [pc |-> "claiming", key |-> k, revision |-> workRevision,
                                       run |-> NoRun, tries |-> 0, late |-> {}]]
    /\ UNCHANGED <<workRevision, runs, contents, slips, unknowns>>

ByKey(k) == {r \in Requests : runs[r].status # "ABSENT" /\ runs[r].key = k}

\* Mutant: the outcome of another revision is taken for this one's.
ResolveAnyRevision(q, r) ==
    LET sameKey == runs[r].key = KeyOf(q)
    IN Go(q, IF runs[r].status = "SUCCEEDED" THEN IF sameKey THEN "ok" ELSE "exists"
             ELSE IF runs[r].status = "FAILED" \/ ~Stale(q, r) THEN "refused"
             ELSE "reconciling", r)

\* Mutant: a run that failed is executed again for its key.
ResolveRestarting(q, r) ==
    LET sameKey == runs[r].key = KeyOf(q)
    IN Go(q, IF sameKey /\ runs[r].revision # RevisionOf(q) THEN "refused"
             ELSE IF runs[r].status = "SUCCEEDED" THEN IF sameKey THEN "ok" ELSE "exists"
             ELSE IF runs[r].status = "FAILED" THEN IF sameKey THEN "calling" ELSE "refused"
             ELSE IF Stale(q, r) THEN "reconciling" ELSE "refused", r)

\* _resolve_existing_run up to its first write.  The request fingerprint holds
\* the revision, so a key that is used for another revision is refused.
Resolve(q, r) ==
    LET sameKey == runs[r].key = KeyOf(q)
    IN Go(q, IF sameKey /\ runs[r].revision # RevisionOf(q) THEN "refused"
             ELSE IF runs[r].status = "SUCCEEDED" THEN IF sameKey THEN "ok" ELSE "exists"
             ELSE IF runs[r].status = "FAILED" \/ ~Stale(q, r) THEN "refused"
             ELSE "reconciling", r)

Claim(q) ==
    /\ At(q, "claiming")
    /\ \/ ByKey(KeyOf(q)) = {} /\ Go(q, "inserting", NoRun)
       \/ \E r \in ByKey(KeyOf(q)) : Resolve(q, r)
    /\ UNCHANGED <<workRevision, runs, contents, slips, unknowns>>

\* The partial unique indexes: one outcome to a revision, one execution to a Work.
FenceA(revision) == {r \in Requests : runs[r].status \in {"RUNNING", "SUCCEEDED"}
                                        /\ runs[r].revision = revision}
FenceB == {r \in Requests : runs[r].status = "RUNNING"}

\* Mutant: the index on the outcomes of a revision is missing.
FreeOfRunning(q) == ByKey(KeyOf(q)) = {} /\ FenceB = {}
MayInsert(q) == ByKey(KeyOf(q)) = {} /\ FenceA(RevisionOf(q)) = {} /\ FenceB = {}

Insert(q) ==
    /\ At(q, "inserting")
    /\ IF MayInsert(q)
       THEN /\ runs' = [runs EXCEPT ![q] = [status |-> "RUNNING", key |-> KeyOf(q),
                                            revision |-> RevisionOf(q), lease |-> "fresh"]]
            /\ Go(q, "calling", q)
       ELSE /\ Go(q, "resolving", NoRun)
            /\ UNCHANGED runs
    /\ UNCHANGED <<workRevision, contents, slips, unknowns>>

\* The run that stood in the way: by key, else by revision, else the one running.
InTheWay(q) == IF ByKey(KeyOf(q)) # {} THEN ByKey(KeyOf(q))
               ELSE IF FenceA(RevisionOf(q)) # {} THEN FenceA(RevisionOf(q)) ELSE FenceB

LookUp(q) ==
    /\ At(q, "resolving")
    /\ \/ InTheWay(q) = {} /\ Go(q, "refused", NoRun)
       \/ \E r \in InTheWay(q) : Resolve(q, r)
    /\ UNCHANGED <<workRevision, runs, contents, slips, unknowns>>

\* _claim_or_resolve_run calls itself again, at most twice.
Retry(q) == jobs' = [jobs EXCEPT ![q] =
    IF jobs[q].tries < 2 THEN Moved(q, "claiming", jobs[q].run, jobs[q].tries + 1)
    ELSE Moved(q, "refused", jobs[q].run, jobs[q].tries)]

\* _reconcile_stale_with_content reads Content; then the run is finalized,
\* reclaimed (same key), or failed to release its fences (another key).
Reconcile(q) ==
    /\ At(q, "reconciling")
    /\ LET r == jobs[q].run IN
       Go(q, IF r \in contents THEN "settling"
             ELSE IF runs[r].key = KeyOf(q) THEN "reclaiming" ELSE "evicting", r)
    /\ UNCHANGED <<workRevision, runs, contents, slips, unknowns>>

\* Mutant: the lease is not looked at again under the row lock.
ReclaimUnchecked(q) ==
    /\ At(q, "reclaiming")
    /\ LET r == jobs[q].run IN
       IF runs[r].status = "RUNNING"
       THEN runs' = [runs EXCEPT ![r].lease = "fresh"] /\ Go(q, "calling", r)
       ELSE Go(q, "refused", r) /\ UNCHANGED runs
    /\ UNCHANGED <<workRevision, contents, slips, unknowns>>

\* _reclaim_lease.
Reclaim(q) ==
    /\ At(q, "reclaiming")
    /\ LET r == jobs[q].run IN
       IF runs[r].status = "RUNNING" /\ Stale(q, r)
       THEN runs' = [runs EXCEPT ![r].lease = "fresh"] /\ Go(q, "calling", r)
       ELSE Go(q, "refused", r) /\ UNCHANGED runs
    /\ UNCHANGED <<workRevision, contents, slips, unknowns>>

Settled(r, status) == [runs EXCEPT ![r] =
    [status |-> status, key |-> runs[r].key, revision |-> runs[r].revision, lease |-> "none"]]

\* _mark_failed: not over a final status; the lease is not looked at again.
Failed(r) == IF runs[r].status = "RUNNING" THEN Settled(r, "FAILED") ELSE runs

Evict(q) ==
    /\ At(q, "evicting")
    /\ runs' = Failed(jobs[q].run)
    /\ Retry(q)
    /\ UNCHANGED <<workRevision, contents, slips, unknowns>>
----------------------------------------------------------------------------
(* Executing. *)

\* The model answers with a worksheet that passes, or it does not.
ModelAnswers(q) ==
    /\ At(q, "calling")
    /\ Go(q, "heartbeat", jobs[q].run) \/ Go(q, "failing", jobs[q].run)
    /\ UNCHANGED <<workRevision, runs, contents, slips, unknowns>>

Heartbeat(q) ==
    /\ At(q, "heartbeat")
    /\ LET r == jobs[q].run IN
       IF runs[r].status = "SUCCEEDED"
       THEN Go(q, "ok", r) /\ UNCHANGED runs
       ELSE Go(q, "materializing", r) /\ runs' = [runs EXCEPT ![r].lease = "fresh"]
    /\ UNCHANGED <<workRevision, contents, slips, unknowns>>

\* Mutant: a Content transaction that failed is taken for done.
MaterializeUnchecked(q) ==
    /\ At(q, "materializing")
    /\ contents' = contents \cup {jobs[q].run} \/ UNCHANGED contents
    /\ Go(q, "finalizing", jobs[q].run)
    /\ UNCHANGED <<workRevision, runs, slips, unknowns>>

\* CreateAIGeneratedContentForReviewService.create: content, version and
\* submission, once to a run; it is refused or fails, or its commit does both.
Materialize(q) ==
    /\ At(q, "materializing")
    /\ \/ /\ contents' = contents \cup {jobs[q].run}
          /\ Go(q, "finalizing", jobs[q].run)
          /\ UNCHANGED unknowns
       \/ /\ Go(q, "failing", jobs[q].run)
          /\ UNCHANGED <<contents, unknowns>>
       \/ /\ unknowns < MaxUnknown /\ jobs[q].run \notin contents
          /\ unknowns' = unknowns + 1
          /\ contents' = contents \cup {jobs[q].run}
          /\ Go(q, "failing", jobs[q].run)
    /\ UNCHANGED <<workRevision, runs, slips>>

MarkFailed(q) ==
    /\ At(q, "failing")
    /\ runs' = Failed(jobs[q].run)
    /\ Go(q, "refused", jobs[q].run)
    /\ UNCHANGED <<workRevision, contents, slips, unknowns>>

\* _finalize_succeeded; the index on outcomes rejects a second one of a revision.
Finalize(q) ==
    /\ jobs[q].pc \in {"finalizing", "settling"}
    /\ LET r == jobs[q].run
           done == runs[r].status = "SUCCEEDED"
           taken == FenceA(runs[r].revision) \ {r} # {}
       IN /\ runs' = IF done \/ taken THEN runs ELSE Settled(r, "SUCCEEDED")
          /\ IF ~done /\ taken THEN Go(q, "refused", r)
             ELSE IF runs[r].revision # RevisionOf(q) THEN Retry(q) ELSE Go(q, "ok", r)
    /\ UNCHANGED <<workRevision, contents, slips, unknowns>>
----------------------------------------------------------------------------
Generate(q) == \/ Begin(q) \/ Claim(q) \/ Insert(q) \/ LookUp(q)
               \/ Reconcile(q) \/ Reclaim(q) \/ Evict(q)
               \/ ModelAnswers(q) \/ Heartbeat(q) \/ Materialize(q) \/ MarkFailed(q)
               \/ Finalize(q)

Next == \/ RefineWork
        \/ \E q \in Requests : Generate(q) \/ Crash(q) \/ LeaseExpires(q)

Spec == Init /\ [][Next]_vars
----------------------------------------------------------------------------
(* Properties. *)

\* Crash, reclaim and reconciliation in any order: a run that SUCCEEDED has its
\* worksheet, and no two of them are outcomes of one Work revision.
SucceededHasContent ==
    /\ \A r \in Requests : runs[r].status = "SUCCEEDED" => r \in contents
    /\ \A r, s \in Requests : runs[r].status = "SUCCEEDED" /\ runs[s].status = "SUCCEEDED"
                                /\ runs[r].revision = runs[s].revision => r = s

\* A request is told of a worksheet, its own or an existing one, only when there
\* is one, for the very revision it named: the outcome of an earlier revision
\* never satisfies a request for a newer one.
AnswersAreTrue ==
    \A q \in Requests : jobs[q].pc \in {"ok", "exists"} =>
        /\ runs[jobs[q].run].status = "SUCCEEDED"
        /\ runs[jobs[q].run].revision = jobs[q].revision

\* An outcome that requests have been answered with stays the outcome.
SucceededIsFinal ==
    [][\A r \in Requests : runs[r].status = "SUCCEEDED" => runs'[r] = runs[r]]_vars

\* A Work revision has one worksheet at most, however many requests and keys.
OneWorksheetPerRevision ==
    \A r, s \in contents : runs[r].revision = runs[s].revision => r = s

\* Executors keep their leases and learn of their commits, and there is one key
\* only or no process dies.
OneKey == \A p, q \in Requests : {KeyOf(p), KeyOf(q)} \subseteq Keys => KeyOf(p) = KeyOf(q)
Undisturbed == /\ slips = 0 /\ unknowns = 0
               /\ OneKey \/ \A q \in Requests : ~At(q, "crashed")

\* Clients that repeat one key through crashes, and clients with keys of their
\* own when no process dies, get one worksheet to a revision.
WorksheetFenced == Undisturbed => OneWorksheetPerRevision

\* Nor do they have the model called by two requests at a time.
OneModelCall ==
    Undisturbed => \A p, q \in Requests : At(p, "calling") /\ At(q, "calling") => p = q

\* Neither the heartbeat nor the finalization minds a FAILED run.  One that comes
\* back from FAILED does so only where an executor was disturbed, only to be the
\* outcome, with its worksheet, and only while its revision has no other run that
\* is RUNNING or SUCCEEDED: it takes nobody's fences, and is never RUNNING again.
FailedStaysOrIsOutcome ==
    [][\A r \in Requests : runs[r].status = "FAILED" /\ runs'[r].status # "FAILED" =>
          /\ ~Undisturbed
          /\ runs'[r].status = "SUCCEEDED" /\ r \in contents
          /\ FenceA(runs[r].revision) = {}]_vars
=============================================================================

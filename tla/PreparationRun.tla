--------------------------- MODULE PreparationRun ---------------------------
(***************************************************************************)
(* Preparing a kit for a Teaching Work: a GenerationRun is claimed, a model*)
(* answers, its quality is recorded, six artifacts are written to Content, *)
(* and the run succeeds.  Unlike a worksheet's executor, a kit's owns its  *)
(* run only while the run's aggregate_revision is the one it claimed, and  *)
(* holds the row lock of the run while another transaction writes Content. *)
(*                                                                         *)
(* A request decides from a row it read without a lock ("seen"), and then  *)
(* from what it finds in Content; only then does it lock the row.  The     *)
(* teacher may review an artifact as soon as Content has committed.        *)
(*                                                                         *)
(* One Work and its one teacher; requests are told apart by their keys and *)
(* by the Work revision they name, and a run is named by the request that  *)
(* inserted it.  A request compares leases with the time it began.         *)
(***************************************************************************)
EXTENDS PreparationKit

CONSTANTS Requests, Keys,
          NoRun, NoKey,
          Offered,       \* the kits the model may answer with, a sequence
          MaxRevision,   \* bound: refinements of the Work
          MaxCrashes,    \* bound: requests whose process may die
          MaxSlips       \* bound: leases that run out under a live executor

ASSUME PreparationAssumption ==
    /\ NoRun \notin Requests /\ NoKey \notin Keys
    /\ Offered \in Seq(Kit)
    /\ MaxRevision \in Nat /\ MaxCrashes \in Nat /\ MaxSlips \in Nat

VARIABLES workRevision,  \* aggregate_revision of the Work
          runs,          \* ai.generation_runs of the preparation capability
          kits,          \* the revision of the run its artifacts were made by, 0: none
          reviewed,      \* the runs with an artifact that has left review
          jobs,          \* the requests
          slips

vars == <<workRevision, runs, kits, reviewed, jobs, slips>>

Revisions == 0 .. MaxRevision
\* "version" is the aggregate_revision of a run; "passed": its quality summary says PASS.
Run == [status : {"ABSENT", "RUNNING", "SUCCEEDED", "FAILED"}, key : Keys \cup {NoKey},
        revision : Revisions, lease : {"none", "fresh", "expired"}, version : Nat,
        passed : BOOLEAN]

Claiming == {"claiming", "inserting", "resolving", "inspecting", "settling", "reclaiming",
             "missed", "evicting"}
Executing == {"calling", "recording", "failing", "locking"}
Holding == {"writing", "checking", "succeeding"}
Answering == {"lost", "surveying", "replaying"}
Active == Claiming \cup Executing \cup Holding \cup Answering
Answers == {"ok", "exists", "refused", "corrupt"}
\* A process that dies between the commits of Content and of the run is "torn".
Final == Answers \cup {"crashed", "torn"}
\* "run": the run a request resolves, owns or is answered with; "seen": that run
\* as last read without a lock; "claim": the version the request owns; "draft":
\* the kit its model answered with, 0: none.
Job == [pc : {"new"} \cup Active \cup Final, key : Keys \cup {NoKey}, revision : Revisions,
        run : Requests \cup {NoRun}, seen : Run, claim : Nat, tries : 0 .. 2,
        late : SUBSET Requests, draft : {0} \cup DOMAIN Offered]

NoRow == [status |-> "ABSENT", key |-> NoKey, revision |-> 0, lease |-> "none", version |-> 0,
          passed |-> FALSE]
NewJob == [pc |-> "new", key |-> NoKey, revision |-> 0, run |-> NoRun, seen |-> NoRow,
           claim |-> 0, tries |-> 0, late |-> {}, draft |-> 0]

Init == /\ workRevision = 0
        /\ runs = [r \in Requests |-> NoRow]
        /\ kits = [r \in Requests |-> 0]
        /\ reviewed = {}
        /\ jobs = [q \in Requests |-> NewJob]
        /\ slips = 0
----------------------------------------------------------------------------
At(q, pc) == jobs[q].pc = pc
KeyOf(q) == jobs[q].key
RevisionOf(q) == jobs[q].revision
Seen(q) == jobs[q].seen

\* The request goes on; what it no longer needs is forgotten.
Moved(q, pc, r, seen, claim, tries) ==
    [pc |-> pc, key |-> KeyOf(q), revision |-> RevisionOf(q),
     run |-> IF pc \in {"refused", "crashed"} THEN NoRun ELSE r,
     seen |-> IF pc \in {"inspecting", "surveying", "settling"} THEN seen ELSE NoRow,
     claim |-> IF pc \in Executing \cup Holding THEN claim ELSE 0,
     tries |-> IF pc \in Final THEN 0 ELSE tries,
     late |-> IF pc \in Claiming THEN jobs[q].late ELSE {},
     draft |-> IF pc \in Executing \cup Holding THEN jobs[q].draft ELSE 0]
Become(q, job) == jobs' = [jobs EXCEPT ![q] = job]
Go(q, pc) == Become(q, Moved(q, pc, jobs[q].run, NoRow, 0, jobs[q].tries))
Ask(q, pc, r) == Become(q, Moved(q, pc, r, runs[r], 0, jobs[q].tries))
Keep(q, pc) == Become(q, Moved(q, pc, jobs[q].run, Seen(q), jobs[q].claim, jobs[q].tries))
Own(q, pc, r, version) == Become(q, Moved(q, pc, r, NoRow, version, jobs[q].tries))

\* _claim_or_resolve_run calls itself again, at most twice.
Retry(q) == IF jobs[q].tries < 2
            THEN Become(q, Moved(q, "claiming", NoRun, NoRow, 0, jobs[q].tries + 1))
            ELSE Go(q, "refused")

\* SELECT ... FOR UPDATE waits for an executor that writes Content.
Locked(r) == \E q \in Requests : jobs[q].pc \in Holding /\ jobs[q].run = r
Row(q) == runs[jobs[q].run]
Wrote(q, row) == runs' = [runs EXCEPT ![jobs[q].run] = row]
----------------------------------------------------------------------------
(* The Work, the reviewer, time, and the death of processes. *)

RefineWork == /\ workRevision < MaxRevision
              /\ workRevision' = workRevision + 1
              /\ UNCHANGED <<runs, kits, reviewed, jobs, slips>>

\* One of the six artifacts is decided on or appended to.
ReviewArtifact(r) == /\ kits[r] # 0
                     /\ reviewed' = reviewed \cup {r}
                     /\ UNCHANGED <<workRevision, runs, kits, jobs, slips>>

Executed(r) == \E q \in Requests : jobs[q].pc \in Executing \cup Holding /\ jobs[q].run = r

LeaseExpires(r) ==
    /\ runs[r].status = "RUNNING" /\ runs[r].lease = "fresh"
    /\ \/ ~Executed(r) /\ UNCHANGED slips
       \/ Executed(r) /\ slips < MaxSlips /\ slips' = slips + 1
    /\ runs' = [runs EXCEPT ![r].lease = "expired"]
    /\ jobs' = [q \in Requests |->
                  IF jobs[q].pc \in Claiming THEN [jobs[q] EXCEPT !.late = @ \cup {r}] ELSE jobs[q]]
    /\ UNCHANGED <<workRevision, kits, reviewed>>

Crash(q) ==
    /\ jobs[q].pc \in Active
    /\ Cardinality({p \in Requests : jobs[p].pc \in {"crashed", "torn"}}) < MaxCrashes
    /\ Go(q, IF jobs[q].pc \in Holding /\ kits[jobs[q].run] # 0 THEN "torn" ELSE "crashed")
    /\ UNCHANGED <<workRevision, runs, kits, reviewed, slips>>
----------------------------------------------------------------------------
(* Claiming. *)

\* prepare: the Work is read, and If-Match compared with its revision.
Begin(q) ==
    /\ At(q, "new")
    /\ \E k \in Keys : Become(q, [NewJob EXCEPT !.pc = "claiming", !.key = k,
                                                !.revision = workRevision])
    /\ UNCHANGED <<workRevision, runs, kits, reviewed, slips>>

ByKey(k) == {r \in Requests : runs[r].status # "ABSENT" /\ runs[r].key = k}
FenceA(revision) == {r \in Requests : runs[r].status \in {"RUNNING", "SUCCEEDED"}
                                        /\ runs[r].revision = revision}
FenceB == {r \in Requests : runs[r].status = "RUNNING"}

\* _resolve_existing_run, up to its look at Content.  The fingerprint of a
\* request holds the revision: a key used for another one is a conflict.
Resolve(q, r) ==
    LET sameKey == runs[r].key = KeyOf(q)
        otherRevision == runs[r].revision # RevisionOf(q)
    IN IF sameKey /\ otherRevision THEN Ask(q, "refused", r)
       ELSE IF runs[r].status = "SUCCEEDED"
            THEN IF otherRevision THEN Retry(q)
                 ELSE Ask(q, IF sameKey THEN "replaying" ELSE "exists", r)
       ELSE IF runs[r].status = "FAILED"
            THEN IF sameKey THEN Ask(q, "refused", r) ELSE Retry(q)
       ELSE Ask(q, "inspecting", r)

Claim(q) ==
    /\ At(q, "claiming")
    /\ \/ ByKey(KeyOf(q)) = {} /\ Go(q, "inserting")
       \/ \E r \in ByKey(KeyOf(q)) : Resolve(q, r)
    /\ UNCHANGED <<workRevision, runs, kits, reviewed, slips>>

\* Mutant: the index on the outcomes of a revision is missing.
FreeOfRunning(q) == ByKey(KeyOf(q)) = {} /\ FenceB = {}
\* The partial unique indexes: one outcome to a revision, one execution to a Work.
MayInsert(q) == ByKey(KeyOf(q)) = {} /\ FenceA(RevisionOf(q)) = {} /\ FenceB = {}

Insert(q) ==
    /\ At(q, "inserting")
    /\ IF MayInsert(q)
       THEN /\ runs' = [runs EXCEPT ![q] =
                  [status |-> "RUNNING", key |-> KeyOf(q), revision |-> RevisionOf(q),
                   lease |-> "fresh", version |-> 0, passed |-> FALSE]]
            /\ Own(q, "calling", q, 0)
       ELSE Go(q, "resolving") /\ UNCHANGED runs
    /\ UNCHANGED <<workRevision, kits, reviewed, slips>>

\* The run that stood in the way: by key, else by revision, else the one running.
InTheWay(q) == IF ByKey(KeyOf(q)) # {} THEN ByKey(KeyOf(q))
               ELSE IF FenceA(RevisionOf(q)) # {} THEN FenceA(RevisionOf(q)) ELSE FenceB

LookUp(q) ==
    /\ At(q, "resolving")
    /\ \/ InTheWay(q) = {} /\ Go(q, "refused")
       \/ \E r \in InTheWay(q) : Resolve(q, r)
    /\ UNCHANGED <<workRevision, runs, kits, reviewed, slips>>
----------------------------------------------------------------------------
(* Content as recovery sees it. *)

\* inspect_preparation_generation_bindings: all six are as they were written, in
\* review, and made by no later version of the run than the reader knows.
Inspect(r, row) ==
    IF kits[r] = 0 THEN "zero"
    ELSE IF r \in reviewed \/ kits[r] > row.version THEN "invalid" ELSE "exact six"

Stale(q) == Seen(q).lease = "expired" /\ jobs[q].run \notin jobs[q].late

\* Content first: six artifacts finish the run even when its lease is fresh.
InspectRunning(q) ==
    /\ At(q, "inspecting")
    /\ LET found == Inspect(jobs[q].run, Seen(q)) IN
       Keep(q, IF found = "exact six" THEN "settling"
               ELSE IF found = "invalid" THEN "corrupt"
               ELSE IF ~Stale(q) THEN "refused"
               ELSE IF Seen(q).key = KeyOf(q) THEN "reclaiming" ELSE "evicting")
    /\ UNCHANGED <<workRevision, runs, kits, reviewed, slips>>

\* _resolve_lost_ownership reads the run, then Content.
LoseOwnership(q) ==
    /\ At(q, "lost")
    /\ Ask(q, IF Row(q).status = "SUCCEEDED" THEN "replaying"
              ELSE IF Row(q).status = "FAILED" THEN "refused" ELSE "surveying", jobs[q].run)
    /\ UNCHANGED <<workRevision, runs, kits, reviewed, slips>>

Survey(q) ==
    /\ At(q, "surveying")
    /\ LET found == Inspect(jobs[q].run, Seen(q)) IN
       Keep(q, IF found = "exact six" THEN "settling"
               ELSE IF found = "invalid" THEN "corrupt" ELSE "refused")
    /\ UNCHANGED <<workRevision, runs, kits, reviewed, slips>>

\* What a request that finds its run SUCCEEDED is answered with.
Answer(q) == IF Row(q).revision # RevisionOf(q) THEN Retry(q)
             ELSE Go(q, IF Row(q).key = KeyOf(q) THEN "ok" ELSE "exists")

\* _result_from_succeeded_run: the result is put together from Content again.
Replay(q) ==
    /\ At(q, "replaying")
    /\ IF Row(q).passed /\ Inspect(jobs[q].run, Row(q)) = "exact six"
       THEN Answer(q) ELSE Go(q, "corrupt")
    /\ UNCHANGED <<workRevision, runs, kits, reviewed, slips>>
----------------------------------------------------------------------------
(* Writes of a request that does not own the run. *)

Failure(row) == [row EXCEPT !.status = "FAILED", !.lease = "none", !.version = @ + 1]
Success(row) == [row EXCEPT !.status = "SUCCEEDED", !.lease = "none", !.version = @ + 1,
                            !.passed = TRUE]

\* _finalize_succeeded, with the quality of the row as it was seen.
Settle(q) ==
    /\ At(q, "settling")
    /\ ~Locked(jobs[q].run)
    /\ IF ~Seen(q).passed THEN Go(q, "corrupt") /\ UNCHANGED runs
       ELSE IF Row(q).status = "SUCCEEDED" THEN Keep(q, "replaying") /\ UNCHANGED runs
       ELSE IF Row(q).status = "FAILED" THEN Go(q, "refused") /\ UNCHANGED runs
       ELSE Wrote(q, Success(Row(q))) /\ Answer(q)
    /\ UNCHANGED <<workRevision, kits, reviewed, slips>>

\* Mutant: a reclaimed run keeps its version, and so its former owner.
ReclaimedSameVersion(row) == [row EXCEPT !.lease = "fresh"]
Reclaimed(row) == [row EXCEPT !.lease = "fresh", !.version = @ + 1]

\* _reclaim_lease: status and lease are looked at again under the lock.
Reclaim(q) ==
    /\ At(q, "reclaiming")
    /\ ~Locked(jobs[q].run)
    /\ IF /\ Row(q).status = "RUNNING"
          /\ Row(q).lease = "expired" /\ jobs[q].run \notin jobs[q].late
       THEN /\ Wrote(q, Reclaimed(Row(q)))
            /\ Own(q, "calling", jobs[q].run, Reclaimed(Row(q)).version)
       ELSE Keep(q, "missed") /\ UNCHANGED runs
    /\ UNCHANGED <<workRevision, kits, reviewed, slips>>

MissReclaim(q) ==
    /\ At(q, "missed")
    /\ Go(q, IF Row(q).status = "SUCCEEDED" THEN "replaying" ELSE "refused")
    /\ UNCHANGED <<workRevision, runs, kits, reviewed, slips>>

\* _mark_failed: not over a final status; the lease is not looked at again.
Evict(q) ==
    /\ At(q, "evicting")
    /\ ~Locked(jobs[q].run)
    /\ IF Row(q).status = "RUNNING" THEN Wrote(q, Failure(Row(q))) ELSE UNCHANGED runs
    /\ Retry(q)
    /\ UNCHANGED <<workRevision, kits, reviewed, slips>>
----------------------------------------------------------------------------
(* Executing. *)

\* The six artifacts can be built from the kit, and pass the quality baseline.
Passes(kit) == Buildable(kit) /\ Quality(Build(kit))

\* The model does not answer, or it answers with a kit.
ModelAnswers(q) ==
    /\ At(q, "calling")
    /\ \/ Keep(q, "failing")
       \/ \E i \in DOMAIN Offered :
             Become(q, [Moved(q, IF Passes(Offered[i]) THEN "recording" ELSE "failing",
                              jobs[q].run, NoRow, jobs[q].claim, jobs[q].tries)
                          EXCEPT !.draft = i])
    /\ UNCHANGED <<workRevision, runs, kits, reviewed, slips>>

Owns(q) == Row(q).status = "RUNNING" /\ Row(q).version = jobs[q].claim
Disowned(q) == Go(q, IF Row(q).status = "SUCCEEDED" THEN "replaying"
                     ELSE IF Row(q).status = "FAILED" THEN "refused" ELSE "lost")

\* _mark_failed_if_owned.
MarkFailed(q) ==
    /\ At(q, "failing")
    /\ ~Locked(jobs[q].run)
    /\ IF Owns(q) THEN Wrote(q, Failure(Row(q))) /\ Go(q, "refused")
       ELSE Disowned(q) /\ UNCHANGED runs
    /\ UNCHANGED <<workRevision, kits, reviewed, slips>>

\* _persist_provider_quality_if_owned, which renews the lease as well.
RecordQuality(q) ==
    /\ At(q, "recording")
    /\ ~Locked(jobs[q].run)
    /\ IF Owns(q)
       THEN /\ Wrote(q, [Row(q) EXCEPT !.lease = "fresh", !.passed = TRUE, !.version = @ + 1])
            /\ Own(q, "locking", jobs[q].run, Row(q).version + 1)
       ELSE Disowned(q) /\ UNCHANGED runs
    /\ UNCHANGED <<workRevision, kits, reviewed, slips>>

StillOwns(q) == Owns(q)

\* _materialize_and_finalize_owned, and from here on the run is locked.
LockRun(q) ==
    /\ At(q, "locking")
    /\ ~Locked(jobs[q].run)
    /\ Keep(q, IF StillOwns(q) THEN "writing" ELSE "lost")
    /\ UNCHANGED <<workRevision, runs, kits, reviewed, slips>>

\* Mutant: a Content transaction that failed is taken for done.
WriteKitUnchecked(q) ==
    /\ At(q, "writing")
    /\ kits' = [kits EXCEPT ![jobs[q].run] = jobs[q].claim] \/ UNCHANGED kits
    /\ Keep(q, "succeeding")
    /\ UNCHANGED <<workRevision, runs, reviewed, slips>>

\* CreateAIPreparationArtifactsForReviewService.create: six contents, versions
\* and submissions in one transaction of Content, or none; of a commit the
\* answer may be lost.
WriteKit(q) ==
    /\ At(q, "writing")
    /\ \/ /\ kits[jobs[q].run] = 0
          /\ kits' = [kits EXCEPT ![jobs[q].run] = jobs[q].claim]
          /\ Keep(q, "succeeding") \/ Keep(q, "checking")
       \/ Keep(q, "checking") /\ UNCHANGED kits
    /\ UNCHANGED <<workRevision, runs, reviewed, slips>>

\* After a failure Content decides: nothing there, and the run fails.
CheckKit(q) ==
    /\ At(q, "checking")
    /\ LET found == Inspect(jobs[q].run, Row(q)) IN
       IF found = "exact six" THEN Keep(q, "succeeding") /\ UNCHANGED runs
       ELSE IF found = "invalid" THEN Go(q, "corrupt") /\ UNCHANGED runs
       ELSE Wrote(q, Failure(Row(q))) /\ Go(q, "refused")
    /\ UNCHANGED <<workRevision, kits, reviewed, slips>>

\* _finalize_succeeded_on_locked.
Succeed(q) ==
    /\ At(q, "succeeding")
    /\ Wrote(q, Success(Row(q)))
    /\ Go(q, "ok")
    /\ UNCHANGED <<workRevision, kits, reviewed, slips>>
----------------------------------------------------------------------------
Prepare(q) == \/ Begin(q) \/ Claim(q) \/ Insert(q) \/ LookUp(q)
              \/ InspectRunning(q) \/ LoseOwnership(q) \/ Survey(q) \/ Replay(q)
              \/ Settle(q) \/ Reclaim(q) \/ MissReclaim(q) \/ Evict(q)
              \/ ModelAnswers(q) \/ MarkFailed(q) \/ RecordQuality(q) \/ LockRun(q)
              \/ WriteKit(q) \/ CheckKit(q) \/ Succeed(q)

Next == \/ RefineWork
        \/ \E q \in Requests : Prepare(q) \/ Crash(q) \/ LeaseExpires(q) \/ ReviewArtifact(q)

Spec == Init /\ [][Next]_vars
----------------------------------------------------------------------------
(* Properties. *)

TypeOK == /\ workRevision \in Revisions
          /\ runs \in [Requests -> Run]
          /\ kits \in [Requests -> Nat]
          /\ reviewed \in SUBSET Requests
          /\ jobs \in [Requests -> Job]
          /\ slips \in Nat

\* The executor of a run wrote its artifacts and never settled it: it died, or
\* lost the answer of Content and found an artifact reviewed already.
Abandoned(r) == \E q \in Requests : jobs[q].run = r /\ jobs[q].pc \in {"torn", "corrupt"}

\* The two commits of an outcome: a SUCCEEDED run has its six artifacts and a
\* passing quality; a FAILED one has none, unless it was abandoned between the
\* commits; and the artifacts were made by a version the run has been at.
OutcomeHasKit ==
    \A r \in Requests :
        /\ runs[r].status = "SUCCEEDED" => kits[r] # 0 /\ runs[r].passed
        /\ runs[r].status = "FAILED" /\ kits[r] # 0 => Abandoned(r)
        /\ kits[r] <= runs[r].version

\* Keys, evictions, slow executors and lost answers in any order: a Work revision
\* gets a second kit only over a run that was abandoned between the commits.
KitFenced ==
    \A r, s \in Requests :
        kits[r] # 0 /\ kits[s] # 0 /\ runs[r].revision = runs[s].revision /\ r # s =>
            Abandoned(r) \/ Abandoned(s)

\* No two executors write artifacts or have the right to: whoever holds a version
\* of a run that is RUNNING holds it alone.
OneOwner ==
    \A p, q \in {j \in Requests : jobs[j].pc \in Executing \cup Holding} :
        jobs[p].run = jobs[q].run /\ Owns(p) /\ Owns(q) => p = q

\* The verdict on a kit is right both ways: what an executor records and writes
\* gives every question of the kit its one answer, and a kit is refused only for
\* what the model got wrong -- a kit that is not valid, of another size, with a
\* worksheet that is all alike, or that claims an alignment -- and never for what
\* build_preparation_artifact_payloads made of it.
VerdictsAreRight ==
    \A q \in Requests : jobs[q].draft # 0 =>
        LET kit == Offered[jobs[q].draft]
        IN IF At(q, "failing")
           THEN \/ ~Buildable(kit) \/ kit.claim
                \/ ~WorksheetQuality([objectives |-> kit.objectives, questions |-> kit.worksheet])
           ELSE Coherent(Build(kit))
=============================================================================

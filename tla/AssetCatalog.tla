----------------------------- MODULE AssetCatalog -----------------------------
(***************************************************************************)
(* The authority over assets: an asset, its immutable revisions with their *)
(* safety decisions, and the bytes they name in a blob store that knows    *)
(* nothing of the database.  Commands lock the asset row and compare its   *)
(* aggregate_revision with the one their caller has seen; activation and   *)
(* the assessment of current use look at the bytes outside any transaction,*)
(* and must notice when the facts they looked at have moved meanwhile.     *)
(*                                                                         *)
(* One asset of one type.  Bytes are there as written or not: "lost" stands*)
(* for an object an operator has removed or altered.  Statements of one    *)
(* assessment run as READ COMMITTED, each on a snapshot of its own; the    *)
(* revision row is immutable and read together with its state.             *)
(***************************************************************************)
EXTENDS Naturals, FiniteSets, FiniteSetsExt

CONSTANTS Clients, RevisionIds, Keys, NoKey, NoRevisionId,
          MaxVersion,     \* bound: changes of the asset
          MaxAttempts,    \* _POSITIVE_ATTEMPTS
          MaxLosses       \* bound: objects the blob store loses

ASSUME CatalogAssumption ==
    /\ NoKey \notin Keys /\ NoRevisionId \notin RevisionIds /\ IsFiniteSet(RevisionIds)
    /\ MaxVersion \in Nat /\ MaxAttempts \in Nat \ {0} /\ MaxLosses \in Nat

VARIABLES asset,      \* the row of asset.assets
          revisions,  \* asset.asset_revisions with asset_revision_states
          blobs,      \* the keys under which there are bytes
          lost,       \* the keys whose bytes went
          jobs        \* the callers

catalogVars == <<asset, revisions, blobs, lost, jobs>>

Numbers == 1 .. Cardinality(RevisionIds)
Asset == [lifecycle : {"ABSENT", "ACTIVE", "WITHDRAWN", "DELETED"}, quarantined : BOOLEAN,
          current : {0} \cup Numbers, version : 0 .. MaxVersion]
\* bytes_purged is a column no statement of the code ever sets.
Revision == [number : {0} \cup Numbers, key : Keys \cup {NoKey},
             safety : {"NONE", "PENDING", "PASSED", "FAILED"}]

\* What a reader holds of the asset (at one statement) and of the revision in
\* question (at a later one).
Snapshot == [asset : Asset, id : RevisionIds \cup {NoRevisionId}, revision : Revision]

Kinds == {"ingest", "change", "activate", "use", "reconcile"}
Running == {"storing", "stored", "prepared", "ready", "reading", "loading", "inspecting",
            "committing", "confirming", "comparing", "listing"}
\* Of the refusals (a conflict, a rejection, an unusable asset, a blob store that
\* does not answer) none commits anything.
Answers == {"ok", "usable", "refused", "reported"}
\* "number": what an activation or a use asks for, 0: the current revision;
\* "expected": the If-Match of a command; "held" is history: at the confirming
\* read, the asset could be used and its bytes were the ones inspected.
Job == [pc : {"new"} \cup Running \cup Answers, kind : Kinds \cup {"none"},
        number : {0} \cup Numbers, key : Keys \cup {NoKey}, expected : 0 .. MaxVersion,
        seen : Snapshot, again : Snapshot, tries : 0 .. MaxAttempts, held : BOOLEAN,
        references : SUBSET Keys, objects : SUBSET Keys]

NoAsset == [lifecycle |-> "ABSENT", quarantined |-> FALSE, current |-> 0, version |-> 0]
NoRevisionRow == [number |-> 0, key |-> NoKey, safety |-> "NONE"]
Nothing == [asset |-> NoAsset, id |-> NoRevisionId, revision |-> NoRevisionRow]
NewJob == [pc |-> "new", kind |-> "none", number |-> 0, key |-> NoKey, expected |-> 0,
           seen |-> Nothing, again |-> Nothing, tries |-> 0, held |-> FALSE,
           references |-> {}, objects |-> {}]

CatalogInit ==
    /\ asset = NoAsset
    /\ revisions = [r \in RevisionIds |-> NoRevisionRow]
    /\ blobs = {} /\ lost = {}
    /\ jobs = [c \in Clients |-> NewJob]
----------------------------------------------------------------------------
Doing(c, kind, pc) == jobs[c].kind = kind /\ jobs[c].pc = pc
Become(c, job) == jobs' = [jobs EXCEPT ![c] = job]
Go(c, pc) == Become(c, [jobs[c] EXCEPT !.pc = pc])
\* What an answered caller no longer needs is forgotten.
Finish(c, pc) ==
    Become(c, [NewJob EXCEPT !.pc = pc,
                             !.kind = IF pc = "ok" THEN jobs[c].kind ELSE "none",
                             !.expected = IF pc = "ok" THEN jobs[c].expected ELSE 0,
                             !.held = pc = "usable" /\ jobs[c].held])
Refuse(c) == Finish(c, "refused")
RefuseChange(c) == Refuse(c) /\ UNCHANGED <<asset, revisions>>
\* Callers come again, with another request.
Start(c, job) == jobs[c].pc \in {"new"} \cup Answers /\ Become(c, job)

Registered == {r \in RevisionIds : revisions[r].number # 0}
MaxNumber == Max({0} \cup {revisions[r].number : r \in Registered})
OfNumber(n) == {r \in Registered : revisions[r].number = n}
Fetch(n) == IF OfNumber(n) = {} THEN NoRevisionId ELSE CHOOSE r \in OfNumber(n) : TRUE
RowOf(id) == IF id = NoRevisionId THEN NoRevisionRow ELSE revisions[id]
----------------------------------------------------------------------------
(* Ingest: bytes first, then the revision that names them. *)

CreateAsset == /\ asset.lifecycle = "ABSENT"
               /\ asset' = [asset EXCEPT !.lifecycle = "ACTIVE"]
               /\ UNCHANGED <<revisions, blobs, lost, jobs>>

\* prepare: a key of its own for every upload.
Upload(c) ==
    /\ \E k \in Keys \ {jobs[d].key : d \in Clients} :
          /\ k \notin blobs \cup lost
          /\ Start(c, [NewJob EXCEPT !.pc = "storing", !.kind = "ingest", !.key = k])
    /\ UNCHANGED <<asset, revisions, blobs, lost>>

\* put_object with IfNoneMatch: refused, or written although the answer is lost.
Store(c) ==
    /\ Doing(c, "ingest", "storing")
    /\ \/ Refuse(c) /\ UNCHANGED blobs
       \/ /\ blobs' = blobs \cup {jobs[c].key}
          /\ \/ Go(c, "stored")
             \/ Refuse(c)
    /\ UNCHANGED <<asset, revisions, lost>>

\* head_object: what was stored is what the caller is told.
Observe(c) ==
    /\ Doing(c, "ingest", "stored")
    /\ \/ jobs[c].key \in blobs /\ Go(c, "prepared")
       \/ Refuse(c)
    /\ UNCHANGED <<asset, revisions, blobs, lost>>

MayRegister == asset.lifecycle # "DELETED"

\* register_revision.  The caller that lost the answer asks again with the same
\* key; somebody else's revision of that id is a conflict.
RegisterRevision(c, r) ==
    /\ Doing(c, "ingest", "prepared") /\ asset.lifecycle # "ABSENT"
    /\ IF r \in Registered
       THEN /\ Finish(c, IF revisions[r].key = jobs[c].key THEN "ok" ELSE "refused")
            /\ UNCHANGED revisions
       ELSE IF MayRegister
       THEN /\ revisions' = [revisions EXCEPT ![r] =
                               [number |-> MaxNumber + 1, key |-> jobs[c].key,
                                safety |-> "PENDING"]]
            /\ Finish(c, "ok") \/ UNCHANGED jobs
       ELSE Refuse(c) /\ UNCHANGED revisions
    /\ UNCHANGED <<asset, blobs, lost>>
----------------------------------------------------------------------------
(* Commands on the locked asset row. *)

\* A client has read the asset, and asks for a change of what it has seen: which
\* one is left to the action that carries it out.
Command(c) ==
    /\ asset.lifecycle # "ABSENT" /\ asset.version < MaxVersion
    /\ Start(c, [NewJob EXCEPT !.pc = "ready", !.kind = "change", !.expected = asset.version])
    /\ UNCHANGED <<asset, revisions, blobs, lost>>

CurrentVersion(c) == asset.version = jobs[c].expected

Changed(row) == asset' = [row EXCEPT !.version = @ + 1]

LifecycleAllowed == {<<"ACTIVE", "WITHDRAWN">>, <<"WITHDRAWN", "ACTIVE">>,
                     <<"ACTIVE", "DELETED">>, <<"WITHDRAWN", "DELETED">>}
\* withdraw_asset, restore_asset, delete_asset
TransitionLifecycle(c, to) ==
    /\ Doing(c, "change", "ready")
    /\ IF ~CurrentVersion(c) THEN RefuseChange(c)
       ELSE IF <<asset.lifecycle, to>> \notin LifecycleAllowed THEN RefuseChange(c)
       ELSE Changed([asset EXCEPT !.lifecycle = to]) /\ Finish(c, "ok") /\ UNCHANGED revisions
    /\ UNCHANGED <<blobs, lost>>

\* quarantine_asset, clear_quarantine
TransitionQuarantine(c, to) ==
    /\ Doing(c, "change", "ready")
    /\ IF ~CurrentVersion(c) THEN RefuseChange(c)
       ELSE IF asset.lifecycle = "DELETED" \/ asset.quarantined = to THEN RefuseChange(c)
       ELSE Changed([asset EXCEPT !.quarantined = to]) /\ Finish(c, "ok") /\ UNCHANGED revisions
    /\ UNCHANGED <<blobs, lost>>

SafetyAllowed == {<<"PENDING", "PASSED">>, <<"PENDING", "FAILED">>, <<"PASSED", "FAILED">>}
\* mark_safety_passed, mark_safety_failed
TransitionSafety(c, r, to) ==
    /\ Doing(c, "change", "ready") /\ r \in Registered
    /\ IF ~CurrentVersion(c) THEN RefuseChange(c)
       ELSE IF \/ asset.lifecycle = "DELETED" /\ revisions[r].safety # "PENDING"
               \/ <<revisions[r].safety, to>> \notin SafetyAllowed
       THEN RefuseChange(c)
       ELSE /\ revisions' = [revisions EXCEPT ![r].safety = to]
            /\ Changed(asset) /\ Finish(c, "ok")
    /\ UNCHANGED <<blobs, lost>>
----------------------------------------------------------------------------
(* Activation: candidate, bytes, and only then the lock. *)

Activate(c) ==
    /\ asset.lifecycle # "ABSENT" /\ asset.version < MaxVersion
    /\ \E n \in Numbers : Start(c, [NewJob EXCEPT !.pc = "reading", !.kind = "activate",
                                      !.number = n, !.expected = asset.version])
    /\ UNCHANGED <<asset, revisions, blobs, lost>>

ReadCandidate(c) ==
    /\ Doing(c, "activate", "reading")
    /\ LET id == Fetch(jobs[c].number)
       IN IF asset.lifecycle = "DELETED" \/ id = NoRevisionId THEN Refuse(c)
          ELSE IF ~CurrentVersion(c) THEN Refuse(c)
          ELSE IF revisions[id].safety # "PASSED" THEN Refuse(c)
          ELSE Become(c, [jobs[c] EXCEPT !.pc = "inspecting", !.seen =
                            [asset |-> asset, id |-> id, revision |-> revisions[id]]])
    /\ UNCHANGED <<asset, revisions, blobs, lost>>

InspectCandidate(c) ==
    /\ Doing(c, "activate", "inspecting")
    /\ \/ jobs[c].seen.revision.key \in blobs /\ Go(c, "committing")
       \/ Refuse(c)      \* they are gone or altered, or the store does not answer
    /\ UNCHANGED <<asset, revisions, blobs, lost>>

\* Mutant: what was inspected is activated, whatever has happened since.
FactsForgotten(c) == TRUE
SameActivationFacts(c) ==
    /\ CurrentVersion(c)
    /\ LET id == Fetch(jobs[c].number)
       IN jobs[c].seen = [asset |-> asset, id |-> id, revision |-> RowOf(id)]

CommitActivation(c) ==
    /\ Doing(c, "activate", "committing")
    /\ IF ~SameActivationFacts(c) THEN RefuseChange(c)
       ELSE Changed([asset EXCEPT !.current = jobs[c].number]) /\ Finish(c, "ok")
            /\ UNCHANGED revisions
    /\ UNCHANGED <<blobs, lost>>
----------------------------------------------------------------------------
(* assess_use: a snapshot, the bytes, the snapshot again.  Content asks it at *)
(* append and, inside the publish transaction, for every asset of a version.  *)

Use(c) ==
    /\ asset.lifecycle # "ABSENT"
    /\ \E n \in {0} \cup Numbers :
          Start(c, [NewJob EXCEPT !.pc = "reading", !.kind = "use", !.number = n])
    /\ UNCHANGED <<asset, revisions, blobs, lost>>

Effective(row, pinned) == IF pinned # 0 THEN pinned ELSE row.current
LoadAsset(c) ==
    /\ Doing(c, "use", "reading")
    /\ Become(c, [jobs[c] EXCEPT !.pc = "loading", !.seen = [Nothing EXCEPT !.asset = asset]])
    /\ UNCHANGED <<asset, revisions, blobs, lost>>

Loaded(snapshot, pinned) ==
    LET id == Fetch(Effective(snapshot.asset, pinned))
    IN [asset |-> snapshot.asset, id |-> id, revision |-> RowOf(id)]

\* _decide_without_blob finds no reason to refuse.
UsableSoFar(snapshot) ==
    /\ snapshot.asset.lifecycle = "ACTIVE" /\ ~snapshot.asset.quarantined
    /\ snapshot.id # NoRevisionId /\ snapshot.revision.safety = "PASSED"

LoadRevision(c) ==
    /\ Doing(c, "use", "loading")
    /\ LET snapshot == Loaded(jobs[c].seen, jobs[c].number)
       IN IF UsableSoFar(snapshot)
          THEN Become(c, [jobs[c] EXCEPT !.pc = "inspecting", !.seen = snapshot])
          ELSE Refuse(c)
    /\ UNCHANGED <<asset, revisions, blobs, lost>>

InspectUse(c) ==
    /\ Doing(c, "use", "inspecting")
    /\ \/ jobs[c].seen.revision.key \in blobs /\ Go(c, "confirming")
       \/ Refuse(c)      \* they are gone or altered, or the store does not answer
    /\ UNCHANGED <<asset, revisions, blobs, lost>>

UsableNow(pinned, key) ==
    LET now == Loaded([Nothing EXCEPT !.asset = asset], pinned)
    IN UsableSoFar(now) /\ now.revision.key = key

ConfirmAsset(c) ==
    /\ Doing(c, "use", "confirming")
    /\ Become(c, [jobs[c] EXCEPT !.pc = "comparing", !.again = [Nothing EXCEPT !.asset = asset],
                                 !.held = UsableNow(jobs[c].number, jobs[c].seen.revision.key)])
    /\ UNCHANGED <<asset, revisions, blobs, lost>>

\* stability_key: the pointer to the current revision counts for a use of the
\* current revision only.
StabilityKey(snapshot, pinned) ==
    <<snapshot.asset.lifecycle, snapshot.asset.quarantined,
      IF pinned = 0 THEN snapshot.asset.current ELSE 0, snapshot.asset.version,
      snapshot.id, snapshot.revision>>
\* Mutant: it is enough that the second snapshot is usable as well.
SecondIsUsable(first, second, pinned) == UsableSoFar(second)
Confirmed(first, second, pinned) ==
    StabilityKey(first, pinned) = StabilityKey(second, pinned) /\ UsableSoFar(second)

Compare(c) ==
    /\ Doing(c, "use", "comparing")
    /\ LET second == Loaded(jobs[c].again, jobs[c].number)
       IN IF Confirmed(jobs[c].seen, second, jobs[c].number) THEN Finish(c, "usable")
          ELSE IF jobs[c].tries + 1 < MaxAttempts
          THEN Become(c, [NewJob EXCEPT !.pc = "reading", !.kind = "use",
                                        !.number = jobs[c].number, !.tries = jobs[c].tries + 1])
          ELSE Refuse(c)
    /\ UNCHANGED <<asset, revisions, blobs, lost>>
----------------------------------------------------------------------------
(* Reconciliation of the references with the objects of the blob store. *)

Reconcile(c) == /\ Start(c, [NewJob EXCEPT !.pc = "listing", !.kind = "reconcile"])
                /\ UNCHANGED <<asset, revisions, blobs, lost>>

\* Mutant: the objects are listed before the references.
ObjectsFirst == <<"objects", "references">>
Passes == <<"references", "objects">>

List(c) ==
    /\ Doing(c, "reconcile", "listing")
    /\ LET pass == Passes[jobs[c].number + 1]
       IN Become(c, [jobs[c] EXCEPT
            !.references = IF pass = "references"
                           THEN {revisions[r].key : r \in Registered} ELSE @,
            !.objects = IF pass = "objects" THEN blobs ELSE @,
            !.number = IF @ = 0 THEN 1 ELSE 0,
            !.pc = IF jobs[c].number = 0 THEN "listing" ELSE "reported"])
    /\ UNCHANGED <<asset, revisions, blobs, lost>>

\* The report: MISSING or INTEGRITY_MISMATCH.  The orphan candidates change nothing.
Missing(c) == jobs[c].references \ jobs[c].objects

LoseObject == /\ Cardinality(lost) < MaxLosses
              /\ \E k \in blobs : blobs' = blobs \ {k} /\ lost' = lost \cup {k}
              /\ UNCHANGED <<asset, revisions, jobs>>
----------------------------------------------------------------------------
CatalogNext ==
    \/ CreateAsset \/ LoseObject
    \/ \E c \in Clients :
          \/ Upload(c) \/ Store(c) \/ Observe(c)
          \/ \E r \in RevisionIds : RegisterRevision(c, r)
          \/ Command(c)
          \/ \E to \in {"ACTIVE", "WITHDRAWN", "DELETED"} : TransitionLifecycle(c, to)
          \/ \E to \in BOOLEAN : TransitionQuarantine(c, to)
          \/ \E r \in RevisionIds, to \in {"PASSED", "FAILED"} : TransitionSafety(c, r, to)
          \/ Activate(c) \/ ReadCandidate(c) \/ InspectCandidate(c) \/ CommitActivation(c)
          \/ Use(c) \/ LoadAsset(c) \/ LoadRevision(c) \/ InspectUse(c) \/ ConfirmAsset(c)
          \/ Compare(c)
          \/ Reconcile(c) \/ List(c)

CatalogSpec == CatalogInit /\ [][CatalogNext]_catalogVars
----------------------------------------------------------------------------
CatalogTypeOK ==
    /\ asset \in Asset
    /\ revisions \in [RevisionIds -> Revision]
    /\ blobs \subseteq Keys /\ lost \subseteq Keys
    /\ jobs \in [Clients -> Job]

\* An answer that an asset may be used is true at one moment of the assessment:
\* the asset is active and clear, the revision in question has passed, and its
\* bytes are the ones that were inspected -- although the answer was put together
\* from five reads of two systems.  Publication relies on it for every asset.
UseIsTrue == \A c \in Clients : jobs[c].pc = "usable" => jobs[c].held

\* The pointer to the current revision only ever moves to a revision that has
\* passed at that moment and is the one whose bytes the activation has seen, and
\* never moves once the asset is deleted (activate_revision).
ActivationSound ==
    [][asset'.current # asset.current =>
         /\ asset.lifecycle # "DELETED"
         /\ \E c \in Clients : \E r \in OfNumber(asset'.current) :
               /\ Doing(c, "activate", "committing")
               /\ revisions[r].safety = "PASSED" /\ revisions[r].key = jobs[c].seen.revision.key]_catalogVars

\* A report never calls bytes missing that are there: revisions that are
\* registered while it is made do not end up in it as losses.
MissingIsReal == \A c \in Clients : jobs[c].pc = "reported" => Missing(c) \subseteq lost
=============================================================================

----------------------------- MODULE AuditLedger -----------------------------
(***************************************************************************)
(* What the audit ledger takes.  The code checks a record before it writes *)
(* it (platform/security/audit), and security.audit_records checks it once *)
(* more with three CHECK constraints that nine migrations state anew, each *)
(* with the whole vocabulary: the actions that may be recorded, whether    *)
(* the primary resource carries its revision, and how the revisions before *)
(* and after relate.  A migration that drops one of the actions of its     *)
(* predecessors fails on the records that exist, or refuses every later    *)
(* command that must be audited.                                           *)
(***************************************************************************)
EXTENDS Integers, Sequences

CONSTANT Resources      \* what a reference may name: a type and an identity

Null == -1      \* SQL's NULL and Python's None, for a revision

References == Resources \X (Nat \cup {Null})
Records == [action : STRING, before : Nat \cup {Null}, after : Nat,
            resource : Resources, primary : Nat \cup {Null}, related : Seq(References)]

-----------------------------------------------------------------------------
(* The actions, by family. *)

ContentIncrement ==
    {"content.version.create", "content.review.submit", "content.review.approve",
     "content.review.request_changes", "content.review.reject", "content.publish",
     "content.ai.materialize"}
ContentActions == {"content.create", "content.migration.import"} \cup ContentIncrement

AssetIncrement ==
    {"asset.revision.activate", "asset.lifecycle.withdraw", "asset.lifecycle.restore",
     "asset.lifecycle.delete", "asset.quarantine.set", "asset.quarantine.clear",
     "asset.safety.pass", "asset.safety.fail"}
AssetActions == {"asset.create", "asset.revision.register"} \cup AssetIncrement

AssignmentIncrement ==
    {"teaching.assignment.due_update", "teaching.assignment.close", "teaching.assignment.cancel"}
ExecutionCreate == {"teaching.execution.start", "teaching.execution.observation.create"}
ExecutionIncrement ==
    {"teaching.execution.complete", "teaching.execution.cancel",
     "teaching.execution.observation.correct"}
AssignmentActions == {"teaching.assignment.create"} \cup AssignmentIncrement
ExecutionActions == ExecutionCreate \cup ExecutionIncrement
MemoryActions == {"teaching.memory.create", "teaching.memory.update"}
TeachingCreate ==
    {"teaching.assignment.create", "teaching.work.remediation.create", "teaching.memory.create"}
    \cup ExecutionCreate
TeachingIncrement == {"teaching.memory.update"} \cup AssignmentIncrement \cup ExecutionIncrement

ClassroomIncrement == {"assessment.classroom.correct", "assessment.classroom.void"}
ClassroomActions == {"assessment.classroom.record"} \cup ClassroomIncrement
AssessmentCreate == {"assessment.classroom.record", "assessment.learner_evaluation.ensure"}

LearningIncrement == {"learning.attempt.save_responses", "learning.attempt.submit"}
LearningActions == {"learning.attempt.start"} \cup LearningIncrement

-----------------------------------------------------------------------------
(* The check of the code. *)

Creates(r) == r.before = Null /\ r.after = 0
Increments(r) == r.before # Null /\ r.after = r.before + 1

RevisionPair(r) ==
    \/ r.action \in {"content.create", "asset.create", "learning.attempt.start"}
                    \cup TeachingCreate \cup AssessmentCreate
       /\ Creates(r)
    \/ r.action = "content.migration.import" /\ r.before = Null /\ r.after = 1
    \/ r.action = "asset.revision.register" /\ r.before # Null /\ r.after = r.before
    \/ r.action \in ContentIncrement \cup AssetIncrement \cup TeachingIncrement
                    \cup ClassroomIncrement \cup LearningIncrement
       /\ Increments(r)

PrimaryRevision(r) == r.primary = IF r.action \in AssetActions THEN Null ELSE r.after

RelatedRefs(r) ==
    /\ Len(r.related) <= 16
    /\ \A i \in DOMAIN r.related : r.related[i] # <<r.resource, r.primary>>
    /\ \A i, j \in DOMAIN r.related : i # j => r.related[i] # r.related[j]

Recordable(r) == RevisionPair(r) /\ PrimaryRevision(r) /\ RelatedRefs(r)

-----------------------------------------------------------------------------
(* The constraints of the table, as each migration leaves them. *)

\* The function of the database that walks the array and remembers what it has seen.
related_resource_refs_are_valid(value, resource, revision) ==
    /\ Len(value) <= 16
    /\ \A n \in 1 .. Len(value) :
          /\ ~ (value[n][1] = resource /\ value[n][2] = revision)
          /\ value[n] \notin {value[seen] : seen \in 1 .. n - 1}

Admits(checks, r) ==
    /\ r.action \in checks.vocabulary
    /\ \/ r.action \in checks.revisioned /\ r.primary = r.after
       \/ r.action \in checks.bare /\ r.primary = Null
    /\ \/ r.action \in checks.created /\ Creates(r)
       \/ r.action = "content.migration.import" /\ r.before = Null /\ r.after = 1
       \/ r.action \in checks.registered /\ r.before # Null /\ r.after = r.before
       \/ r.action \in checks.increased /\ Increments(r)
    /\ related_resource_refs_are_valid(r.related, r.resource, r.primary)

\* The ledger of the first migration knows Content only.
saii020001 ==
    [vocabulary |-> ContentActions, revisioned |-> ContentActions, bare |-> {},
     created |-> {"content.create"}, registered |-> {}, increased |-> ContentIncrement]

\* Since the second migration, a set of constraints differs from another in its revisioned actions.
Restated(revisioned, created, increased) ==
    [vocabulary |-> revisioned \cup AssetActions, revisioned |-> revisioned, bare |-> AssetActions,
     created |-> {"content.create", "asset.create"} \cup created,
     registered |-> {"asset.revision.register"},
     increased |-> ContentIncrement \cup AssetIncrement \cup increased]

pedi10b6001 == Restated(ContentActions, {}, {})
tosd060002 ==
    Restated(ContentActions \cup AssignmentActions, {"teaching.assignment.create"}, AssignmentIncrement)
tosd070002 ==
    Restated(ContentActions \cup AssignmentActions \cup ExecutionActions,
             {"teaching.assignment.create"} \cup ExecutionCreate,
             AssignmentIncrement \cup ExecutionIncrement)
tosd080002 ==
    Restated(ContentActions \cup AssignmentActions \cup ExecutionActions \cup ClassroomActions,
             {"teaching.assignment.create", "assessment.classroom.record"} \cup ExecutionCreate,
             AssignmentIncrement \cup ExecutionIncrement \cup ClassroomIncrement)
tosd090002 ==
    Restated(ContentActions \cup AssignmentActions \cup ExecutionActions \cup ClassroomActions
                 \cup {"teaching.work.remediation.create"},
             {"teaching.assignment.create", "teaching.work.remediation.create",
              "assessment.classroom.record"} \cup ExecutionCreate,
             AssignmentIncrement \cup ExecutionIncrement \cup ClassroomIncrement)
tosd100001 ==
    Restated(ContentActions \cup AssignmentActions \cup ExecutionActions \cup ClassroomActions
                 \cup {"teaching.work.remediation.create"} \cup MemoryActions,
             {"assessment.classroom.record"} \cup TeachingCreate,
             TeachingIncrement \cup ClassroomIncrement)
a360s010002 ==
    Restated(ContentActions \cup AssignmentActions \cup ExecutionActions \cup ClassroomActions
                 \cup {"teaching.work.remediation.create"} \cup MemoryActions \cup LearningActions,
             {"assessment.classroom.record", "learning.attempt.start"} \cup TeachingCreate,
             TeachingIncrement \cup ClassroomIncrement \cup LearningIncrement)
a360s010004 ==
    Restated(ContentActions \cup AssignmentActions \cup ExecutionActions \cup ClassroomActions
                 \cup {"teaching.work.remediation.create", "assessment.learner_evaluation.ensure"}
                 \cup MemoryActions \cup LearningActions,
             {"learning.attempt.start"} \cup AssessmentCreate \cup TeachingCreate,
             TeachingIncrement \cup ClassroomIncrement \cup LearningIncrement)

\* The ledger of the running release.
Current == a360s010004

-----------------------------------------------------------------------------
(* The way back.  A downgrade locks the ledger, refuses while a record of  *)
(* any tenant rests on what it takes away, and otherwise puts the checks   *)
(* of its predecessor back; the value is the checks in force afterwards.   *)

Undo(records, evidence, checks, restored) ==
    IF \E r \in records : r.action \in evidence THEN checks ELSE restored

DowngradeAsset(records) ==
    IF \E r \in records : r.action \in AssetActions \/ r.primary = Null
    THEN pedi10b6001 ELSE saii020001
DowngradeAssignment(records) == Undo(records, TeachingCreate \cup TeachingIncrement, tosd060002, pedi10b6001)
DowngradeExecution(records) == Undo(records, ExecutionActions, tosd070002, tosd060002)
DowngradeClassroom(records) == Undo(records, ClassroomActions, tosd080002, tosd070002)
DowngradeRemediation(records) ==
    Undo(records, {"teaching.work.remediation.create"}, tosd090002, tosd080002)
DowngradeMemory(records) == Undo(records, MemoryActions, tosd100001, tosd090002)
DowngradeLearning(records) == Undo(records, LearningActions, a360s010002, tosd100001)
DowngradeEvaluation(records) ==
    Undo(records, {"assessment.learner_evaluation.ensure"}, a360s010004, a360s010002)
=============================================================================

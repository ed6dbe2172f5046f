-------------------------- MODULE MigrationImport --------------------------
(***************************************************************************)
(* Importing a document of another system as a new Content.  An importer   *)
(* takes the gate of the source, a session lock on a connection of its     *)
(* own, and under it runs up to two transactions: the first reads the      *)
(* migration record of the source and writes the Content, its version, the *)
(* event, the record and the audit record; if it fails, a second one       *)
(* records the failure.                                                    *)
(*                                                                         *)
(* The server frees the gate when its connection dies, while the importer  *)
(* goes on with the other one (LoseGate); so the model never relies on the *)
(* gate, and what is proved rests on the primary key of the records, on    *)
(* the condition of their updates and on the trigger that guards them.     *)
(* Reads take no lock and see what is committed.                           *)
(***************************************************************************)
EXTENDS Naturals

CONSTANTS Importers, NoImporter,
          Sources,          \* (source_system, source_resource_type, source_resource_id)
          SourceVersions, Digests, Mappings, Batches,
          ContentIds, NoTarget,
          MaxInteger        \* the largest INTEGER of the database

VARIABLES records,   \* content.migration_import_records
          contents,  \* the provenance of the IMPORT versions, with the Content of each
          gate,      \* who holds the session lock of a source
          writer,    \* the transaction with an uncommitted row for a source
          pc, candidate,
          known,     \* the record the running transaction has read
          target,    \* the Content the transaction writes, or the importer answers with
          answered   \* the importers that answered with a Content

importVars == <<records, contents, gate, writer, pc, candidate, known, target, answered>>

ImportEvidence == [source_version : SourceVersions, digest : Digests, mapping_id : Mappings,
                   mapping_version : Nat]
Candidate == [source : Sources, evidence : ImportEvidence, batch : Batches]

\* "NONE": no row.
Record == [outcome : {"NONE", "FAILED", "IMPORTED"}, evidence : ImportEvidence,
           first_batch : Batches, last_batch : Batches,
           target : ContentIds \cup {NoTarget}, attempt_count : Nat, failure : BOOLEAN]

Stages == {"idle", "reading", "validating", "writing", "committing", "failed", "recording",
           "committing_failure", "leaving"}

\* mapping_version is an INTEGER column, and an unbounded int in Python.
Storable(e) == e.mapping_version <= MaxInteger

_normalize_candidate(c) == c.evidence.mapping_version >= 1

_fingerprints_match(r, c) ==
    /\ r.evidence.source_version = c.evidence.source_version
    /\ r.evidence.digest = c.evidence.digest
    /\ r.evidence.mapping_id = c.evidence.mapping_id
    /\ r.evidence.mapping_version = c.evidence.mapping_version

\* The CHECK of the table on outcome, targets and failure_code.
ck_outcome(r) ==
    \/ r.outcome = "IMPORTED" /\ r.target # NoTarget /\ ~r.failure
    \/ r.outcome = "FAILED" /\ r.target = NoTarget /\ r.failure

\* The trigger that guards an update of a row.
guard_update(old, new) ==
    /\ new.evidence = old.evidence /\ new.first_batch = old.first_batch
    /\ old.outcome = "IMPORTED" => new = old
    /\ old.outcome = "FAILED" /\ new.outcome = "FAILED" => new.target = NoTarget

\* MigrationImportProvenanceV1 of the version, with the Content it belongs to.
Provenance(c, id) == [source |-> c.source, evidence |-> c.evidence, batch |-> c.batch, id |-> id]

\* What an insert writes for candidate c, and what an update of a row that was
\* read as r writes: the count is the one that was read, plus one.
Inserted(c, outcome, id) ==
    [outcome |-> outcome, evidence |-> c.evidence, first_batch |-> c.batch,
     last_batch |-> c.batch, target |-> id, attempt_count |-> 1,
     failure |-> outcome = "FAILED"]
Updated(row, r, c, outcome, id) ==
    [row EXCEPT !.outcome = outcome, !.target = id, !.last_batch = c.batch,
                !.attempt_count = r.attempt_count + 1, !.failure = outcome = "FAILED"]

Source(i) == candidate[i].source
Row(i) == records[Source(i)]

\* The row importer i writes with this outcome: an insert if it read none.
RowWritten(i, outcome, id) ==
    IF known[i].outcome = "NONE" THEN Inserted(candidate[i], outcome, id)
    ELSE Updated(Row(i), known[i], candidate[i], outcome, id)

\* The database takes that row: the primary key is free for an insert, an update
\* finds the row FAILED, and the trigger, the CHECK and the column types agree.
Taken(i, outcome, id) ==
    /\ IF known[i].outcome = "NONE" THEN Row(i).outcome = "NONE"
       ELSE /\ Row(i).outcome = "FAILED"
            /\ guard_update(Row(i), RowWritten(i, outcome, id))
    /\ ck_outcome(RowWritten(i, outcome, id))
    /\ Storable(RowWritten(i, outcome, id).evidence)

To(i, stage) == pc' = [pc EXCEPT ![i] = stage]
Unlocked(i) == [s \in Sources |-> IF writer[s] = i THEN NoImporter ELSE writer[s]]

ImportInit ==
    /\ records \in [Sources -> {r \in Record : r.outcome = "NONE"}]
    /\ contents = {}
    /\ gate = [s \in Sources |-> NoImporter]
    /\ writer = [s \in Sources |-> NoImporter]
    /\ pc = [i \in Importers |-> "idle"]
    /\ candidate \in [Importers -> Candidate]
    /\ known \in [Importers -> {r \in Record : r.outcome = "NONE"}]
    /\ target = [i \in Importers |-> NoTarget]
    /\ answered = {}
----------------------------------------------------------------------------
\* An importer with the capability takes the gate of its source, or waits.
Enter(i) ==
    /\ pc[i] = "idle"
    /\ \E c \in Candidate :
          /\ _normalize_candidate(c)
          /\ gate[c.source] = NoImporter
          /\ gate' = [gate EXCEPT ![c.source] = i]
          /\ candidate' = [candidate EXCEPT ![i] = c]
    /\ target' = [target EXCEPT ![i] = NoTarget]
    /\ answered' = answered \ {i}
    /\ To(i, "reading")
    /\ UNCHANGED <<records, contents, writer, known>>

\* The connection that holds the gate is lost.
LoseGate(s) ==
    /\ gate[s] # NoImporter
    /\ gate' = [gate EXCEPT ![s] = NoImporter]
    /\ UNCHANGED <<records, contents, writer, pc, candidate, known, target, answered>>

\* An established import whose Content is visible is the answer; one that is not
\* raises MigrationInvariantViolation.
_replay_imported(i) ==
    \/ /\ \E c \in contents : c.id = Row(i).target
       /\ target' = [target EXCEPT ![i] = Row(i).target]
       /\ answered' = answered \cup {i}
    \/ /\ \A c \in contents : c.id # Row(i).target
       /\ UNCHANGED <<target, answered>>

\* The first transaction reads the record: evidence of another document refuses
\* the candidate, and an established import is answered again.
Read(i) ==
    /\ pc[i] = "reading"
    /\ known' = [known EXCEPT ![i] = Row(i)]
    /\ \/ /\ Row(i).outcome # "NONE" /\ ~_fingerprints_match(Row(i), candidate[i])
          /\ To(i, "leaving")
          /\ UNCHANGED <<target, answered>>
       \/ /\ Row(i).outcome = "NONE" \/ _fingerprints_match(Row(i), candidate[i])
          /\ Row(i).outcome # "IMPORTED"
          /\ To(i, "validating")
          /\ UNCHANGED <<target, answered>>
       \/ /\ Row(i).outcome = "IMPORTED" /\ _fingerprints_match(Row(i), candidate[i])
          /\ _replay_imported(i)
          /\ To(i, "leaving")
    /\ UNCHANGED <<records, contents, gate, writer, candidate>>

\* Content type, schema, payload and asset bindings of the candidate: a failure
\* ends the transaction, an invalid Content leaves no record at all.
Validate(i) ==
    /\ pc[i] = "validating"
    /\ \E stage \in {"writing", "failed", "leaving"} : To(i, stage)
    /\ UNCHANGED <<records, contents, gate, writer, candidate, known, target, answered>>

\* The rows of the first transaction.  It waits for a writer of the same row.
_materialize_new(i) ==
    /\ pc[i] = "writing"
    /\ writer[Source(i)] = NoImporter
    /\ \E id \in ContentIds :
          /\ \A c \in contents : c.id # id
          /\ \/ /\ Taken(i, "IMPORTED", id)
                /\ writer' = [writer EXCEPT ![Source(i)] = i]
                /\ target' = [target EXCEPT ![i] = id]
                /\ To(i, "committing")
             \/ /\ ~Taken(i, "IMPORTED", id)
                /\ To(i, "failed")
                /\ UNCHANGED <<writer, target>>
    /\ UNCHANGED <<records, contents, gate, candidate, known, answered>>

\* The commit; its answer may be lost, and then the importer believes it failed.
Commit(i) ==
    /\ pc[i] = "committing"
    /\ records' = [records EXCEPT ![Source(i)] = RowWritten(i, "IMPORTED", target[i])]
    /\ contents' = contents \cup {Provenance(candidate[i], target[i])}
    /\ writer' = Unlocked(i)
    /\ \/ To(i, "leaving") /\ answered' = answered \cup {i}
       \/ To(i, "failed") /\ UNCHANGED answered
    /\ UNCHANGED <<gate, candidate, known, target>>

\* The first transaction is rolled back after its writes.
Abort(i) ==
    /\ pc[i] = "committing"
    /\ writer' = Unlocked(i)
    /\ To(i, "failed")
    /\ UNCHANGED <<records, contents, gate, candidate, known, target, answered>>

\* The second transaction reads the record again: an established import, or
\* evidence of another document, leaves nothing to record.
ReadForFailure(i) ==
    /\ pc[i] = "failed"
    /\ known' = [known EXCEPT ![i] = Row(i)]
    /\ \/ /\ \/ Row(i).outcome = "IMPORTED"
             \/ Row(i).outcome # "NONE" /\ ~_fingerprints_match(Row(i), candidate[i])
          /\ To(i, "leaving")
       \/ /\ Row(i).outcome # "IMPORTED"
          /\ Row(i).outcome = "NONE" \/ _fingerprints_match(Row(i), candidate[i])
          /\ To(i, "recording")
    /\ UNCHANGED <<records, contents, gate, writer, candidate, target, answered>>

WriteFailure(i) ==
    /\ pc[i] = "recording"
    /\ writer[Source(i)] = NoImporter
    /\ \/ /\ Taken(i, "FAILED", NoTarget)
          /\ writer' = [writer EXCEPT ![Source(i)] = i]
          /\ To(i, "committing_failure")
       \/ /\ ~Taken(i, "FAILED", NoTarget)
          /\ To(i, "leaving")
          /\ UNCHANGED writer
    /\ UNCHANGED <<records, contents, gate, candidate, known, target, answered>>

\* The failure is recorded, or the second transaction fails too.
CommitFailure(i) ==
    /\ pc[i] = "committing_failure"
    /\ \/ records' = [records EXCEPT ![Source(i)] = RowWritten(i, "FAILED", NoTarget)]
       \/ UNCHANGED records
    /\ writer' = Unlocked(i)
    /\ To(i, "leaving")
    /\ UNCHANGED <<contents, gate, candidate, known, target, answered>>

\* The importer returns and frees its gate, if it still has it; or it dies, and
\* the server rolls its transaction back and frees what it held.
Free(i) == gate' = [s \in Sources |-> IF gate[s] = i THEN NoImporter ELSE gate[s]]
Leave(i) ==
    /\ pc[i] = "leaving"
    /\ Free(i)
    /\ To(i, "idle")
    /\ UNCHANGED <<records, contents, writer, candidate, known, target, answered>>
Crash(i) ==
    /\ pc[i] # "idle"
    /\ Free(i)
    /\ writer' = Unlocked(i)
    /\ To(i, "idle")
    /\ UNCHANGED <<records, contents, candidate, known, target, answered>>

ImportNext ==
    \/ \E i \in Importers :
          \/ Enter(i) \/ Read(i) \/ Validate(i) \/ _materialize_new(i) \/ Commit(i)
          \/ Abort(i) \/ ReadForFailure(i) \/ WriteFailure(i) \/ CommitFailure(i)
          \/ Leave(i) \/ Crash(i)
    \/ \E s \in Sources : LoseGate(s)

ImportSpec == ImportInit /\ [][ImportNext]_importVars
----------------------------------------------------------------------------
\* A document is never imported twice: a source has at most one Content, however
\* often its import was repeated, interrupted or run by two importers at once.
OneContentPerSource == \A c, d \in contents : c.source = d.source => c = d

\* The record of a source says IMPORTED exactly when its Content exists, and that
\* Content carries the evidence the record carries: the first transaction is
\* whole, and the failure transaction never overwrites an import it missed.
RecordsTellTheTruth == \A s \in Sources :
    /\ records[s].outcome = "IMPORTED" =>
          \E c \in contents : /\ c.source = s /\ c.id = records[s].target
                              /\ c.evidence = records[s].evidence
    /\ \A c \in contents : c.source = s => records[s].outcome = "IMPORTED"

\* Whoever is answered with a Content is answered with the one Content of its
\* source, made from the document it brought.
AnswersAreTrue == \A i \in answered :
    \E c \in contents : /\ c.id = target[i] /\ c.source = Source(i)
                        /\ c.evidence = candidate[i].evidence

\* Evidence is never rewritten, no record is lost, and an import is final.
EvidenceIsKept == [][\A s \in Sources :
    /\ records[s].outcome # "NONE" =>
          /\ records'[s].outcome # "NONE"
          /\ records'[s].evidence = records[s].evidence
          /\ records'[s].first_batch = records[s].first_batch
    /\ records[s].outcome = "IMPORTED" => records'[s] = records[s]]_importVars
============================================================================

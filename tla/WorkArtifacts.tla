--------------------------- MODULE WorkArtifacts ---------------------------
(***************************************************************************)
(* The artifacts of a Teaching Work as its teacher is shown them: one for  *)
(* each worksheet run that succeeded, six for each preparation run.  The   *)
(* six of a preparation are found by the provenance of their versions, and *)
(* two readers judge what they find: the recovery of a run, which wants    *)
(* them as they were written, and this list, which is read for as long as  *)
(* the Work exists, after reviews, edits and publications.                 *)
(*                                                                         *)
(* A binding is a version of AI origin whose provenance names the run, with*)
(* its Content: the fields both readers look at.                           *)
(***************************************************************************)
EXTENDS Naturals, Sequences

CONSTANTS RunIds, WorkIds, ArtifactTenants, Teachers, Contents, ContentVersions,
          Identifiers,    \* of capabilities, providers and models
          Correlations, KitCapability,
          NoContent, NoRow, NoRevision, NoKind

ArtifactKinds ==
    {"lesson_plan", "worksheet", "quiz", "homework", "answer_key", "teacher_notes"}

Refs == [type : {"ai.generation_run", "teaching.work", "other"}, id : RunIds \cup WorkIds,
         revision : Nat \cup {NoRevision}]

GenerationRuns ==
    [id : RunIds, tenant : ArtifactTenants, principal : Teachers, work : WorkIds,
     work_revision : Nat, capability : Identifiers, provider : Identifiers,
     model : Identifiers, version : Nat, status : {"RUNNING", "SUCCEEDED", "FAILED"},
     result : Contents \cup {NoContent}]

\* "sources" are the source_refs; "second" says the schema is AIGenerationProvenanceV2.
Provenances == [run_ref : Refs, capability : Identifiers, provider : Identifiers,
                model : Identifiers, sources : Seq(Refs), correlation : Correlations,
                kind : ArtifactKinds \cup {NoKind}, second : BOOLEAN]

-----------------------------------------------------------------------------
\* What the executor of a preparation writes.

WorkRef(run) == [type |-> "teaching.work", id |-> run.work, revision |-> run.work_revision]

\* The provenance of the six: the run at the version its executor holds, and the
\* answer's provider and model, which the executor has recorded in the run.
ProvenanceContext(run, correlation) ==
    [run_ref |-> [type |-> "ai.generation_run", id |-> run.id, revision |-> run.version],
     provider |-> run.provider, model |-> run.model, sources |-> <<WorkRef(run)>>,
     correlation |-> correlation]

_provenance_for_kind(context, kind) ==
    [run_ref |-> context.run_ref, capability |-> KitCapability, provider |-> context.provider,
     model |-> context.model, sources |-> context.sources,
     correlation |-> context.correlation, kind |-> kind, second |-> TRUE]

\* The six versions, each the first of a Content of its own: content and version
\* give the ids the transaction chose for a kind.
Written(run, correlation, content, version) ==
    {[content |-> content[k], version |-> version[k], tenant |-> run.tenant,
      provenance |-> _provenance_for_kind(ProvenanceContext(run, correlation), k)] :
        k \in ArtifactKinds}

-----------------------------------------------------------------------------
\* What the readers ask of one binding.  heads are the Content rows.

NamesRun(run, p) == /\ p.run_ref.type = "ai.generation_run" /\ p.run_ref.id = run.id
                    /\ p.run_ref.revision # NoRevision /\ p.run_ref.revision <= run.version

\* The Work at its revision is among the sources, once.
NamesWork(run, p) == \E i \in DOMAIN p.sources :
                        \A j \in DOMAIN p.sources : p.sources[j] = WorkRef(run) <=> j = i

BindingHolds(run, heads, b) ==
    /\ b.provenance.second /\ b.provenance.kind \in ArtifactKinds
    /\ NamesRun(run, b.provenance)
    /\ b.provenance.capability = KitCapability
    /\ b.provenance.provider = run.provider /\ b.provenance.model = run.model
    /\ b.tenant = run.tenant
    /\ NamesWork(run, b.provenance)
    /\ heads[b.content] # NoContent
    /\ heads[b.content].tenant = run.tenant
    /\ heads[b.content].kind = b.provenance.kind

\* One binding to a kind, which makes six, and what all six share.
ExactSix(bindings) ==
    /\ {b.provenance.kind : b \in bindings} = ArtifactKinds
    /\ \A a, b \in bindings :
          /\ a.provenance.kind = b.provenance.kind => a = b
          /\ a.provenance.correlation = b.provenance.correlation
          /\ a.provenance.sources = b.provenance.sources
          /\ a.provenance.run_ref = b.provenance.run_ref

\* The list: whatever has become of the Content since.
project_preparation_generation_artifacts(run, heads, bindings) ==
    IF bindings = {} THEN "zero"
    ELSE IF ExactSix(bindings) /\ \A b \in bindings : BindingHolds(run, heads, b)
         THEN "exact six" ELSE "invalid"

AsWritten(heads, b) == heads[b.content].current = b.version
                       /\ heads[b.content].state = "IN_REVIEW"

\* The recovery: the six as they were written.
inspect_preparation_generation_bindings(run, heads, bindings) ==
    IF bindings = {} THEN "zero"
    ELSE IF /\ ExactSix(bindings)
            /\ \A b \in bindings : BindingHolds(run, heads, b) /\ AsWritten(heads, b)
         THEN "exact six" ELSE "invalid"

-----------------------------------------------------------------------------
\* The bindings of a run, of all versions: found by the id in their provenance.
find_all_by_generation_run_id(versions, run) ==
    {b \in versions : b.provenance.run_ref.id = run.id}

\* The runs of the Work its teacher started, as they were read first.
list_for_work(runs, tenant, teacher, work) ==
    {r \in runs : r.tenant = tenant /\ r.principal = teacher /\ r.work = work}

PreparationItems(run, heads, versions) ==
    {[run |-> run.id, kind |-> b.provenance.kind, content |-> b.content,
      version |-> b.version, state |-> heads[b.content].state] :
        b \in find_all_by_generation_run_id(versions, run)}

\* A worksheet is listed by the result of its run, even without its Content.
SingularItems(run, heads) ==
    IF run.result = NoContent THEN {}
    ELSE {[run |-> run.id, kind |-> NoKind, content |-> run.result,
           state |-> IF heads[run.result] = NoContent THEN "IN_REVIEW"
                     ELSE heads[run.result].state]}

\* The answer to the teacher; "of" is the row of the Work.  One broken preparation
\* refuses the whole list.
list_artifacts(of, runs, heads, versions, tenant, teacher, work) ==
    LET done == {r \in list_for_work(runs, tenant, teacher, work) : r.status = "SUCCEEDED"}
        kits == {r \in done : r.capability = KitCapability}
        Broken(r) == project_preparation_generation_artifacts(r, heads,
                         find_all_by_generation_run_id(versions, r)) # "exact six"
    IN CASE of = NoRow \/ of.tenant # tenant -> [answer |-> "not_found", items |-> {}]
         [] of # NoRow /\ of.tenant = tenant /\ of.teacher # teacher ->
              [answer |-> "forbidden", items |-> {}]
         [] OTHER ->
              IF \E r \in kits : Broken(r) THEN [answer |-> "invariant", items |-> {}]
              ELSE [answer |-> "fine",
                    items |-> UNION {PreparationItems(r, heads, versions) : r \in kits}
                                \cup UNION {SingularItems(r, heads) : r \in done \ kits}]

=============================================================================

------------------------ MODULE PreparationRunProofs ------------------------
(***************************************************************************)
(* Proofs about PreparationRun for every number of requests, keys,         *)
(* revisions, crashes and slips and whatever kits the model offers.  The   *)
(* executors of a run hold different versions of it, whoever writes        *)
(* Content holds the row, and a run with artifacts is settled, being       *)
(* settled, or abandoned.                                                  *)
(***************************************************************************)
EXTENDS PreparationRun, SequenceTheorems, TLAPS

Owning == Executing \cup Holding
Pcs == {"new"} \cup Active \cup Final
\* A request that may still insert its own run.
Early == {"new", "claiming", "inserting", "resolving", "inspecting", "reclaiming", "missed",
          "evicting"}
Bound == {"inspecting", "settling", "reclaiming", "missed", "evicting"} \cup Owning \cup Answering
\* A request that deals with a run of its own Work revision.
Ours == {"reclaiming", "missed", "lost", "surveying"} \cup Owning

\* What a request that is where job j says may rely on.
JobSound(q, j) ==
    /\ j.pc \in Early => runs[q].status = "ABSENT"
    /\ j.pc \in Bound => j.run \in Requests
    /\ j.run \in Requests => runs[j.run].status # "ABSENT"
    /\ j.pc \in Ours => runs[j.run].revision = j.revision
    /\ j.pc = "inspecting" =>
          /\ j.seen.key = runs[j.run].key
          /\ j.seen.key = j.key => runs[j.run].revision = j.revision
    /\ j.pc \in {"settling", "replaying"} =>
          runs[q].status = "ABSENT" \/ runs[j.run].revision = j.revision
    /\ j.pc \in {"settling", "succeeding"} => kits[j.run] # 0
    /\ j.pc \in Owning => j.claim <= runs[j.run].version
    /\ j.pc \in {"locking"} \cup Holding => j.claim # 0 /\ runs[j.run].passed
    /\ j.pc \in Holding => runs[j.run].status = "RUNNING" /\ runs[j.run].version = j.claim

\* A kit is recorded and written when it passes, else it fails.
DraftSound(j) == j.draft # 0 => /\ j.pc \in Owning \ {"calling"}
                                /\ Passes(Offered[j.draft]) <=> j.pc # "failing"
Sound(q, j) == JobSound(q, j) /\ DraftSound(j)

\* The artifacts of a run: settled, being settled, or abandoned.
KitSound(r) ==
    /\ kits[r] <= runs[r].version
    /\ kits[r] # 0 => runs[r].status = "SUCCEEDED" \/ Abandoned(r) \/ Locked(r)
    /\ runs[r].status = "SUCCEEDED" => kits[r] # 0 /\ runs[r].passed

Live == {"RUNNING", "SUCCEEDED"}
JobsSound == \A q \in Requests : Sound(q, jobs[q])
KitsSound == \A r \in Requests : KitSound(r)
\* At most one run of a Work revision is running or succeeded.
Fenced == \A r, s \in Requests : r # s /\ runs[r].status \in Live /\ runs[s].status \in Live =>
             runs[r].revision # runs[s].revision
\* No two executors of a run hold the same version of it.
ClaimsDiffer == \A p, q \in Requests :
    p # q /\ jobs[p].pc \in Owning /\ jobs[q].pc \in Owning /\ jobs[p].run = jobs[q].run =>
        jobs[p].claim # jobs[q].claim

IInv == TypeOK /\ JobsSound /\ KitsSound /\ Fenced /\ ClaimsDiffer
-----------------------------------------------------------------------------
(* How a request moves. *)

SetJob(q, j) == /\ jobs' \in [Requests -> Job] /\ jobs'[q] = j
                /\ \A p \in Requests \ {q} : jobs'[p] = jobs[p]

Turn(q, j, pc, r, seen, claim) ==
    /\ SetJob(q, j) /\ j.pc = pc /\ j.key = jobs[q].key /\ j.revision = jobs[q].revision
    /\ j.run = IF pc \in {"refused", "crashed"} THEN NoRun ELSE r
    /\ pc \in {"inspecting", "surveying", "settling"} => j.seen = seen
    /\ pc \in Owning => j.claim = claim
    /\ j.draft = IF pc \in Owning THEN jobs[q].draft ELSE 0

LEMMA NoRowIsRun == NoRow \in Run
  BY PreparationAssumption DEF NoRow, Run, Revisions

LEMMA UpdateJob ==
  ASSUME TypeOK, NEW q \in Requests, NEW j \in Job, jobs' = [jobs EXCEPT ![q] = j]
  PROVE  SetJob(q, j)
  BY DEF TypeOK, SetJob

LEMMA MovedTurn ==
  ASSUME TypeOK, NEW q \in Requests, NEW pc \in Pcs, NEW r \in Requests \cup {NoRun},
         NEW seen \in Run, NEW claim \in Nat, NEW tries \in 0 .. 2,
         jobs' = [jobs EXCEPT ![q] = Moved(q, pc, r, seen, claim, tries)]
  PROVE  \E j \in Job : Turn(q, j, pc, r, seen, claim)
<1> DEFINE j == Moved(q, pc, r, seen, claim, tries)
<1>1. jobs[q] \in Job
  BY DEF TypeOK
<1>2. /\ jobs[q].key \in Keys \cup {NoKey} /\ jobs[q].revision \in Revisions
      /\ jobs[q].late \in SUBSET Requests /\ jobs[q].draft \in {0} \cup DOMAIN Offered
  BY <1>1 DEF Job
<1>3. j \in Job
  BY <1>2, NoRowIsRun DEF Job, Moved, Pcs, KeyOf, RevisionOf
<1>4. /\ j.pc = pc /\ j.key = jobs[q].key /\ j.revision = jobs[q].revision
      /\ j.run = IF pc \in {"refused", "crashed"} THEN NoRun ELSE r
      /\ pc \in {"inspecting", "surveying", "settling"} => j.seen = seen
      /\ pc \in Owning => j.claim = claim
      /\ j.draft = IF pc \in Owning THEN jobs[q].draft ELSE 0
  BY DEF Moved, KeyOf, RevisionOf, Owning
<1>5. jobs' = [jobs EXCEPT ![q] = j]
  OBVIOUS
<1> HIDE DEF j
<1>6. SetJob(q, j)
  BY <1>3, <1>5, UpdateJob
<1> QED
  BY <1>3, <1>4, <1>6 DEF Turn

LEMMA JobTypes ==
  ASSUME TypeOK, NEW q \in Requests
  PROVE  /\ jobs[q] \in Job /\ jobs[q].run \in Requests \cup {NoRun} /\ jobs[q].seen \in Run
         /\ jobs[q].claim \in Nat /\ jobs[q].tries \in 0 .. 2 /\ jobs[q].pc \in Pcs
  BY DEF TypeOK, Job, Pcs

LEMMA GoTurn ==
  ASSUME TypeOK, NEW q \in Requests, NEW pc \in Pcs, Go(q, pc)
  PROVE  \E j \in Job : Turn(q, j, pc, jobs[q].run, NoRow, 0)
  BY JobTypes, NoRowIsRun, MovedTurn DEF Go, Become

LEMMA AskTurn ==
  ASSUME TypeOK, NEW q \in Requests, NEW pc \in Pcs, NEW r \in Requests, Ask(q, pc, r)
  PROVE  \E j \in Job : Turn(q, j, pc, r, runs[r], 0)
<1>1. runs[r] \in Run
  BY DEF TypeOK
<1> QED
  BY <1>1, JobTypes, MovedTurn DEF Ask, Become

LEMMA KeepTurn ==
  ASSUME TypeOK, NEW q \in Requests, NEW pc \in Pcs, Keep(q, pc)
  PROVE  \E j \in Job : Turn(q, j, pc, jobs[q].run, jobs[q].seen, jobs[q].claim)
  BY JobTypes, MovedTurn DEF Keep, Become, Seen

LEMMA OwnTurn ==
  ASSUME TypeOK, NEW q \in Requests, NEW pc \in Pcs, NEW r \in Requests, NEW version \in Nat,
         Own(q, pc, r, version)
  PROVE  \E j \in Job : Turn(q, j, pc, r, NoRow, version)
  BY JobTypes, NoRowIsRun, MovedTurn DEF Own, Become

LEMMA RetryTurn ==
  ASSUME TypeOK, NEW q \in Requests, Retry(q)
  PROVE  \E j \in Job : \/ Turn(q, j, "claiming", NoRun, NoRow, 0)
                        \/ Turn(q, j, "refused", jobs[q].run, NoRow, 0)
<1>1. "claiming" \in Pcs /\ "refused" \in Pcs
  BY DEF Pcs, Active, Claiming, Final, Answers
<1>2. CASE jobs[q].tries < 2
  <2>1. jobs[q].tries + 1 \in 0 .. 2
    BY <1>2, JobTypes
  <2> QED
    BY <1>1, <1>2, <2>1, NoRowIsRun, MovedTurn DEF Retry, Become
<1>3. CASE ~(jobs[q].tries < 2)
  BY <1>1, <1>3, GoTurn DEF Retry
<1> QED
  BY <1>2, <1>3
-----------------------------------------------------------------------------
(* What a step of a request does. *)

\* A version that nobody else has, or the one the request has already.
NewClaim(q, j) == j.pc \in Owning =>
    \/ jobs[q].pc \in Owning /\ j.run = jobs[q].run /\ j.claim = jobs[q].claim
    \/ runs[j.run].status = "ABSENT"
    \/ j.claim > runs[j.run].version

\* Whoever gives up the row has settled it, or leaves nothing in Content, or
\* abandons what is there.
Released(q, j) == jobs[q].pc \in Holding =>
    \/ j.pc \in Holding /\ j.run = jobs[q].run
    \/ kits'[jobs[q].run] = 0 \/ runs'[jobs[q].run].status = "SUCCEEDED"
    \/ j.pc \in {"torn", "corrupt"} /\ j.run = jobs[q].run

Acts(q) == /\ jobs[q].pc \notin Final
           /\ \E j \in Job : SetJob(q, j) /\ Sound(q, j)' /\ NewClaim(q, j) /\ Released(q, j)

LEMMA BeginActs ==
  ASSUME TypeOK, JobsSound, NEW q \in Requests, Begin(q)
  PROVE  Acts(q) /\ runs' = runs /\ kits' = kits
<1> USE DEF Early, Bound, Ours, Owning, Executing, Holding, Answering, Final, Answers
<1>1. PICK k \in Keys : jobs' = [jobs EXCEPT ![q] = [NewJob EXCEPT !.pc = "claiming", !.key = k,
                                                                 !.revision = workRevision]]
  BY DEF Begin, Become
<1>2. PICK j \in Job : SetJob(q, j) /\ j.pc = "claiming" /\ j.run = NoRun /\ j.draft = 0
  <2> DEFINE new == [NewJob EXCEPT !.pc = "claiming", !.key = k, !.revision = workRevision]
  <2>1. new \in Job /\ new.pc = "claiming" /\ new.run = NoRun /\ new.draft = 0
    <3>1. NewJob \in Job /\ NewJob.run = NoRun /\ NewJob.draft = 0
      BY NoRowIsRun DEF NewJob, Job, NoRow, Run
    <3>2. workRevision \in Revisions /\ k \in Keys \cup {NoKey} /\ "claiming" \in Active
      BY DEF TypeOK, Active, Claiming
    <3> QED
      BY <3>1, <3>2 DEF Job
  <2>2. jobs' = [jobs EXCEPT ![q] = new]
    BY <1>1
  <2> HIDE DEF new
  <2> QED
    BY <2>1, <2>2, UpdateJob
<1>3. /\ jobs[q].pc = "new" /\ JobSound(q, jobs[q]) /\ runs' = runs /\ kits' = kits
      /\ NoRun \notin Requests
  BY PreparationAssumption DEF JobsSound, Sound, Begin, At
<1>4. Sound(q, j)'
  BY <1>2, <1>3 DEF Sound, JobSound, DraftSound
<1>5. NewClaim(q, j) /\ Released(q, j)
  BY <1>2, <1>3 DEF NewClaim, Released
<1> QED
  BY <1>2, <1>3, <1>4, <1>5 DEF Acts

\* A request that does not write goes on knowing what it must.
LEMMA QuietActs ==
  ASSUME NEW q \in Requests, NEW j \in Job, NEW pc \in Pcs \ Owning,
         NEW r, NEW seen, NEW claim, Turn(q, j, pc, r, seen, claim),
         jobs[q].pc \notin Holding \cup Final, JobSound(q, j)'
  PROVE  Acts(q)
<1>1. j.pc \notin Owning /\ j.draft = 0 /\ SetJob(q, j)
  BY DEF Turn
<1> QED
  BY <1>1 DEF Acts, Sound, DraftSound, NewClaim, Released

LEMMA ResolveActs ==
  ASSUME TypeOK, JobsSound, NEW q \in Requests, NEW r \in Requests, Resolve(q, r),
         jobs[q].pc \in {"claiming", "resolving"}, runs[r].status # "ABSENT",
         runs' = runs, kits' = kits
  PROVE  Acts(q)
<1> USE DEF Early, Bound, Ours, Owning, Executing, Holding, Answering, Final, Answers, Pcs, Active,
            Claiming
<1>1. runs[q].status = "ABSENT"
  BY DEF JobsSound, Sound, JobSound
<1>2. CASE Retry(q)
  <2>1. PICK j \in Job : \/ Turn(q, j, "claiming", NoRun, NoRow, 0)
                         \/ Turn(q, j, "refused", jobs[q].run, NoRow, 0)
    BY <1>2, RetryTurn
  <2>2. JobSound(q, j)'
    BY <1>1, <2>1, PreparationAssumption DEF JobSound, Turn
  <2> QED
    BY <2>1, <2>2, QuietActs
<1>3. ASSUME NEW pc \in {"refused", "replaying", "exists", "inspecting"}, Ask(q, pc, r),
             pc = "inspecting" =>
                (runs[r].key = jobs[q].key => runs[r].revision = jobs[q].revision)
      PROVE  Acts(q)
  <2>1. PICK j \in Job : Turn(q, j, pc, r, runs[r], 0)
    BY <1>3, AskTurn
  <2>2. JobSound(q, j)'
    BY <1>1, <1>3, <2>1, PreparationAssumption DEF JobSound, Turn
  <2> QED
    BY <2>1, <2>2, QuietActs
<1> QED
  BY <1>2, <1>3 DEF Resolve, KeyOf, RevisionOf

LEMMA ClaimActs ==
  ASSUME TypeOK, JobsSound, NEW q \in Requests, Claim(q) \/ LookUp(q)
  PROVE  Acts(q) /\ runs' = runs /\ kits' = kits
<1> USE DEF Early, Bound, Ours, Owning, Executing, Holding, Answering, Final, Answers, Pcs, Active,
            Claiming
<1>1. jobs[q].pc \in {"claiming", "resolving"} /\ runs' = runs /\ kits' = kits
  BY DEF Claim, LookUp, At
<1>2. runs[q].status = "ABSENT"
  BY <1>1 DEF JobsSound, Sound, JobSound
<1>3. ASSUME NEW pc \in {"inserting", "refused"}, Go(q, pc)
      PROVE  Acts(q)
  <2>1. PICK j \in Job : Turn(q, j, pc, jobs[q].run, NoRow, 0)
    BY <1>3, GoTurn
  <2>2. j.run \in Requests => runs[j.run].status # "ABSENT"
    BY <1>1, <2>1, PreparationAssumption DEF JobsSound, Sound, JobSound, Turn
  <2>3. JobSound(q, j)'
    BY <1>1, <1>2, <2>1, <2>2 DEF JobSound, Turn
  <2> QED
    BY <1>1, <2>1, <2>3, QuietActs
<1>4. ASSUME NEW r \in Requests, Resolve(q, r), runs[r].status # "ABSENT" PROVE Acts(q)
  BY <1>1, <1>4, ResolveActs
<1> QED
  BY <1>1, <1>3, <1>4 DEF Claim, LookUp, InTheWay, ByKey, FenceA, FenceB

LEMMA InspectActs ==
  ASSUME TypeOK, JobsSound, NEW q \in Requests, InspectRunning(q) \/ Survey(q)
  PROVE  Acts(q) /\ runs' = runs /\ kits' = kits
<1> USE DEF Early, Bound, Ours, Owning, Executing, Holding, Answering, Final, Answers, Pcs, Active,
            Claiming
<1>1. jobs[q].pc \in {"inspecting", "surveying"} /\ runs' = runs /\ kits' = kits
  BY DEF InspectRunning, Survey, At
<1>2. JobSound(q, jobs[q]) /\ jobs[q].run \in Requests
  BY <1>1 DEF JobsSound, Sound, JobSound
<1>3. ASSUME NEW pc \in {"settling", "corrupt", "refused", "reclaiming", "evicting"}, Keep(q, pc),
             pc = "settling" => kits[jobs[q].run] # 0,
             pc = "reclaiming" => jobs[q].seen.key = jobs[q].key,
             pc \in {"reclaiming", "evicting"} => jobs[q].pc = "inspecting"
      PROVE  Acts(q)
  <2>1. PICK j \in Job : Turn(q, j, pc, jobs[q].run, jobs[q].seen, jobs[q].claim)
    BY <1>3, KeepTurn
  <2>2. JobSound(q, j)'
    BY <1>1, <1>2, <1>3, <2>1, PreparationAssumption DEF JobSound, Turn
  <2> QED
    BY <1>1, <2>1, <2>2, QuietActs
<1>4. Inspect(jobs[q].run, jobs[q].seen) = "exact six" => kits[jobs[q].run] # 0
  BY DEF Inspect
<1>5. CASE InspectRunning(q)
  <2> DEFINE found == Inspect(jobs[q].run, jobs[q].seen)
             pc == IF found = "exact six" THEN "settling"
                   ELSE IF found = "invalid" THEN "corrupt"
                   ELSE IF ~Stale(q) THEN "refused"
                   ELSE IF jobs[q].seen.key = jobs[q].key THEN "reclaiming" ELSE "evicting"
  <2>1. jobs[q].pc = "inspecting" /\ Keep(q, pc)
    BY <1>5 DEF InspectRunning, At, Seen, KeyOf
  <2>2. /\ pc \in {"settling", "corrupt", "refused", "reclaiming", "evicting"}
        /\ pc = "settling" => kits[jobs[q].run] # 0
        /\ pc = "reclaiming" => jobs[q].seen.key = jobs[q].key
    BY <1>4
  <2> HIDE DEF pc
  <2> QED
    BY <1>1, <1>3, <2>1, <2>2
<1>6. CASE Survey(q)
  <2> DEFINE found == Inspect(jobs[q].run, jobs[q].seen)
             pc == IF found = "exact six" THEN "settling"
                   ELSE IF found = "invalid" THEN "corrupt" ELSE "refused"
  <2>1. Keep(q, pc)
    BY <1>6 DEF Survey, Seen
  <2>2. /\ pc \in {"settling", "corrupt", "refused"}
        /\ pc = "settling" => kits[jobs[q].run] # 0
    BY <1>4
  <2> HIDE DEF pc
  <2> QED
    BY <1>1, <1>3, <2>1, <2>2
<1> QED
  BY <1>1, <1>5, <1>6

LEMMA AnswerActs ==
  ASSUME TypeOK, JobsSound, NEW q \in Requests, Answer(q), jobs[q].pc \in {"settling", "replaying"},
         runs'[q] = runs[q] \/ runs[jobs[q].run].revision = jobs[q].revision,
         runs'[jobs[q].run].status # "ABSENT"
  PROVE  Acts(q)
<1> USE DEF Early, Bound, Ours, Owning, Executing, Holding, Answering, Final, Answers, Pcs, Active,
            Claiming
<1>1. JobSound(q, jobs[q]) /\ jobs[q].run \in Requests
  BY DEF JobsSound, Sound, JobSound
<1>2. CASE runs[jobs[q].run].revision # jobs[q].revision /\ Retry(q)
  <2>1. PICK j \in Job : \/ Turn(q, j, "claiming", NoRun, NoRow, 0)
                         \/ Turn(q, j, "refused", jobs[q].run, NoRow, 0)
    BY <1>2, RetryTurn
  <2>2. runs'[q].status = "ABSENT"
    BY <1>1, <1>2 DEF JobSound
  <2>3. JobSound(q, j)'
    BY <2>1, <2>2, PreparationAssumption DEF JobSound, Turn
  <2> QED
    BY <2>1, <2>3, QuietActs
<1>3. ASSUME NEW pc \in {"ok", "exists"}, Go(q, pc) PROVE Acts(q)
  <2>1. PICK j \in Job : Turn(q, j, pc, jobs[q].run, NoRow, 0)
    BY <1>3, GoTurn
  <2>2. JobSound(q, j)'
    BY <1>1, <1>3, <2>1 DEF JobSound, Turn
  <2> QED
    BY <2>1, <2>2, QuietActs
<1> QED
  BY <1>2, <1>3 DEF Answer, Row, RevisionOf

LEMMA ReadActs ==
  ASSUME TypeOK, JobsSound, NEW q \in Requests,
         LoseOwnership(q) \/ Replay(q) \/ MissReclaim(q)
  PROVE  Acts(q) /\ runs' = runs /\ kits' = kits
<1> USE DEF Early, Bound, Ours, Owning, Executing, Holding, Answering, Final, Answers, Pcs, Active,
            Claiming
<1>1. jobs[q].pc \in {"lost", "replaying", "missed"} /\ runs' = runs /\ kits' = kits
  BY DEF LoseOwnership, Replay, MissReclaim, At
<1>2. JobSound(q, jobs[q]) /\ jobs[q].run \in Requests
  BY <1>1 DEF JobsSound, Sound, JobSound
<1>3. CASE LoseOwnership(q)
  <2>1. PICK pc \in {"replaying", "refused", "surveying"} : Ask(q, pc, jobs[q].run)
    BY <1>3 DEF LoseOwnership
  <2>2. PICK j \in Job : Turn(q, j, pc, jobs[q].run, runs[jobs[q].run], 0)
    BY <1>2, <2>1, AskTurn
  <2>3. JobSound(q, j)'
    BY <1>1, <1>2, <1>3, <2>2, PreparationAssumption DEF JobSound, Turn, LoseOwnership, At
  <2> QED
    BY <1>1, <2>2, <2>3, QuietActs
<1>4. CASE MissReclaim(q)
  <2>1. PICK pc \in {"replaying", "refused"} : Go(q, pc)
    BY <1>4 DEF MissReclaim
  <2>2. PICK j \in Job : Turn(q, j, pc, jobs[q].run, NoRow, 0)
    BY <1>2, <2>1, GoTurn
  <2>3. JobSound(q, j)'
    BY <1>1, <1>2, <1>4, <2>2, PreparationAssumption DEF JobSound, Turn, MissReclaim, At
  <2> QED
    BY <1>1, <2>2, <2>3, QuietActs
<1>5. CASE Replay(q)
  <2>1. CASE Answer(q)
    BY <1>1, <1>2, <1>5, <2>1, AnswerActs DEF JobSound, Replay, At
  <2>2. CASE Go(q, "corrupt")
    <3>1. PICK j \in Job : Turn(q, j, "corrupt", jobs[q].run, NoRow, 0)
      BY <2>2, GoTurn
    <3>2. JobSound(q, j)'
      BY <1>1, <1>2, <3>1 DEF JobSound, Turn
    <3> QED
      BY <1>1, <3>1, <3>2, QuietActs
  <2> QED
    BY <1>5, <2>1, <2>2 DEF Replay
<1> QED
  BY <1>1, <1>3, <1>4, <1>5
-----------------------------------------------------------------------------
(* Executors that do not write a row. *)

LEMMA OwnerActs ==
  ASSUME NEW q \in Requests, NEW j \in Job, NEW pc \in Owning \ {"calling", "failing"},
         NEW r, NEW seen, NEW claim, Turn(q, j, pc, r, seen, claim),
         jobs[q].pc \in Owning \ {"failing"}, DraftSound(jobs[q]),
         JobSound(q, j)', NewClaim(q, j), Released(q, j)
  PROVE  Acts(q)
<1>1. SetJob(q, j) /\ j.pc = pc /\ j.draft = jobs[q].draft
  BY DEF Turn
<1>2. DraftSound(j)'
  BY <1>1 DEF DraftSound
<1>3. jobs[q].pc \notin Final
  BY DEF Owning, Executing, Holding, Final, Answers
<1> QED
  BY <1>1, <1>2, <1>3 DEF Acts, Sound

LEMMA ModelActs ==
  ASSUME TypeOK, JobsSound, NEW q \in Requests, ModelAnswers(q)
  PROVE  Acts(q) /\ runs' = runs /\ kits' = kits
<1> USE DEF Early, Bound, Ours, Owning, Executing, Holding, Answering, Final, Answers
<1>1. jobs[q].pc = "calling" /\ runs' = runs /\ kits' = kits
  BY DEF ModelAnswers, At
<1>2. JobSound(q, jobs[q]) /\ jobs[q].run \in Requests /\ jobs[q].draft = 0
  BY <1>1 DEF JobsSound, Sound, JobSound, DraftSound
<1>3. ASSUME NEW j \in Job, SetJob(q, j), j.pc \in {"recording", "failing"},
             j.run = jobs[q].run, j.claim = jobs[q].claim, j.revision = jobs[q].revision,
             DraftSound(j)
      PROVE  Acts(q)
  <2>1. JobSound(q, j)'
    BY <1>1, <1>2, <1>3 DEF JobSound
  <2>2. DraftSound(j)'
    BY <1>3 DEF DraftSound
  <2>3. NewClaim(q, j) /\ Released(q, j)
    BY <1>1, <1>3 DEF NewClaim, Released
  <2> QED
    BY <1>1, <1>3, <2>1, <2>2, <2>3 DEF Acts, Sound
<1>4. CASE Keep(q, "failing")
  <2>1. "failing" \in Pcs
    BY DEF Pcs, Active
  <2>2. PICK j \in Job : Turn(q, j, "failing", jobs[q].run, jobs[q].seen, jobs[q].claim)
    BY <1>4, <2>1, KeepTurn
  <2>3. DraftSound(j)
    BY <1>2, <2>2 DEF DraftSound, Turn
  <2> QED
    BY <1>1, <1>3, <2>2, <2>3 DEF Turn
<1>5. ASSUME NEW i \in DOMAIN Offered,
             Become(q, [Moved(q, IF Passes(Offered[i]) THEN "recording" ELSE "failing",
                              jobs[q].run, NoRow, jobs[q].claim, jobs[q].tries)
                          EXCEPT !.draft = i])
      PROVE  Acts(q)
  <2> DEFINE pc == IF Passes(Offered[i]) THEN "recording" ELSE "failing"
  <2>1. PICK new \in Job :
           /\ jobs' = [jobs EXCEPT ![q] = new] /\ new.pc = pc /\ new.run = jobs[q].run
           /\ new.claim = jobs[q].claim /\ new.revision = jobs[q].revision /\ new.draft = i
    <3> DEFINE new == [Moved(q, pc, jobs[q].run, NoRow, jobs[q].claim, jobs[q].tries)
                         EXCEPT !.draft = i]
    <3>1. /\ jobs[q].key \in Keys \cup {NoKey} /\ jobs[q].revision \in Revisions
          /\ jobs[q].late \in SUBSET Requests /\ pc \in Executing
      BY JobTypes DEF Job
    <3> HIDE DEF pc
    <3>2. new \in Job
      BY <3>1, JobTypes, NoRowIsRun DEF Job, Moved, Active, KeyOf, RevisionOf
    <3>3. /\ new.pc = pc /\ new.run = jobs[q].run /\ new.claim = jobs[q].claim
          /\ new.revision = jobs[q].revision /\ new.draft = i
      BY <3>1 DEF Moved, KeyOf, RevisionOf
    <3>4. jobs' = [jobs EXCEPT ![q] = new]
      BY <1>5 DEF Become, pc
    <3> HIDE DEF new
    <3> QED
      BY <3>2, <3>3, <3>4
  <2>2. SetJob(q, new)
    BY <2>1, UpdateJob
  <2>3. DraftSound(new)
    BY <2>1 DEF DraftSound
  <2> QED
    BY <1>1, <1>3, <2>1, <2>2, <2>3
<1> QED
  BY <1>1, <1>4, <1>5 DEF ModelAnswers

LEMMA LockActs ==
  ASSUME TypeOK, JobsSound, NEW q \in Requests, LockRun(q)
  PROVE  Acts(q) /\ runs' = runs /\ kits' = kits
<1> USE DEF Early, Bound, Ours, Owning, Executing, Holding, Answering, Final, Answers, Pcs, Active
<1>1. jobs[q].pc = "locking" /\ runs' = runs /\ kits' = kits
  BY DEF LockRun, At
<1>2. JobSound(q, jobs[q]) /\ DraftSound(jobs[q]) /\ jobs[q].run \in Requests
  BY <1>1 DEF JobsSound, Sound, JobSound
<1>3. CASE Owns(q)
  <2>1. Keep(q, "writing")
    BY <1>3 DEF LockRun, StillOwns
  <2>2. PICK j \in Job : Turn(q, j, "writing", jobs[q].run, jobs[q].seen, jobs[q].claim)
    BY <2>1, KeepTurn
  <2>3. JobSound(q, j)'
    BY <1>1, <1>2, <1>3, <2>2 DEF JobSound, Turn, Owns, Row
  <2>4. NewClaim(q, j) /\ Released(q, j)
    BY <1>1, <2>2 DEF NewClaim, Released, Turn
  <2> QED
    BY <1>1, <1>2, <2>2, <2>3, <2>4, OwnerActs
<1>4. CASE ~Owns(q)
  <2>1. Keep(q, "lost")
    BY <1>4 DEF LockRun, StillOwns
  <2>2. PICK j \in Job : Turn(q, j, "lost", jobs[q].run, jobs[q].seen, jobs[q].claim)
    BY <2>1, KeepTurn
  <2>3. JobSound(q, j)'
    BY <1>1, <1>2, <2>2 DEF JobSound, Turn
  <2> QED
    BY <1>1, <2>2, <2>3, QuietActs
<1> QED
  BY <1>3, <1>4

\* A process that dies while it holds the row of a run with artifacts leaves it
\* abandoned.
LEMMA CrashActs ==
  ASSUME TypeOK, JobsSound, NEW q \in Requests, Crash(q)
  PROVE  Acts(q) /\ runs' = runs /\ kits' = kits
<1> USE DEF Early, Bound, Ours, Owning, Executing, Holding, Answering, Final, Answers, Pcs
<1>1. jobs[q].pc \in Active /\ runs' = runs /\ kits' = kits
  BY DEF Crash
<1>2. JobSound(q, jobs[q]) /\ jobs[q].pc \notin Final
  BY <1>1 DEF JobsSound, Sound, Active, Claiming
<1>3. CASE jobs[q].pc \in Holding /\ kits[jobs[q].run] # 0
  <2>1. Go(q, "torn")
    BY <1>3 DEF Crash
  <2>2. PICK j \in Job : Turn(q, j, "torn", jobs[q].run, NoRow, 0)
    BY <2>1, GoTurn
  <2>3. Sound(q, j)'
    BY <1>1, <1>2, <2>2 DEF Sound, JobSound, DraftSound, Turn
  <2>4. NewClaim(q, j) /\ Released(q, j)
    BY <2>2 DEF NewClaim, Released, Turn
  <2> QED
    BY <1>1, <1>2, <2>2, <2>3, <2>4 DEF Acts, Turn
<1>4. CASE ~(jobs[q].pc \in Holding /\ kits[jobs[q].run] # 0)
  <2>1. Go(q, "crashed")
    BY <1>4 DEF Crash
  <2>2. PICK j \in Job : Turn(q, j, "crashed", jobs[q].run, NoRow, 0)
    BY <2>1, GoTurn
  <2>3. Sound(q, j)'
    BY <1>1, <1>2, <2>2, PreparationAssumption DEF Sound, JobSound, DraftSound, Turn
  <2>4. NewClaim(q, j) /\ Released(q, j)
    BY <1>1, <1>4, <2>2 DEF NewClaim, Released, Turn
  <2> QED
    BY <1>1, <1>2, <2>2, <2>3, <2>4 DEF Acts, Turn
<1> QED
  BY <1>3, <1>4
-----------------------------------------------------------------------------
(* The rows that are written, and by whom. *)

SetRun(r, row) == /\ runs' \in [Requests -> Run] /\ runs'[r] = row
                  /\ \A s \in Requests \ {r} : runs'[s] = runs[s]

\* A row is inserted by the request it is named for, when no outcome of its
\* revision is in the way; then it changes while it is RUNNING only, under its
\* lock but for the lease, and succeeds over artifacts only.
RunMoves(q, r, new) ==
    LET old == runs[r] IN
    \/ /\ r = q /\ old.status = "ABSENT" /\ new.status = "RUNNING"
       /\ FenceA(new.revision) = {}
    \/ /\ old.status = "RUNNING" /\ new.status \in {"RUNNING", "SUCCEEDED", "FAILED"}
       /\ new.key = old.key /\ new.revision = old.revision
       /\ new.version >= old.version /\ (old.passed => new.passed)
       /\ new.status = "SUCCEEDED" => kits[r] # 0 /\ new.passed
       /\ \/ ~Locked(r)
          \/ jobs[q].pc \in Holding /\ jobs[q].run = r
          \/ new.status = "RUNNING" /\ new.version = old.version

RowMoves(q) == \E r \in Requests, row \in Run : SetRun(r, row) /\ RunMoves(q, r, row)

LEMMA UpdateRun ==
  ASSUME TypeOK, NEW r \in Requests, NEW row \in Run, runs' = [runs EXCEPT ![r] = row]
  PROVE  SetRun(r, row)
  BY DEF TypeOK, SetRun

LEMMA RowOf == ASSUME TypeOK, NEW r \in Requests PROVE runs[r] \in Run /\ runs[r].version \in Nat
  BY DEF TypeOK, Run

LEMMA Rows ==
  ASSUME NEW row \in Run
  PROVE  /\ Failure(row) \in Run /\ Failure(row).status = "FAILED"
         /\ Failure(row).key = row.key /\ Failure(row).revision = row.revision
         /\ Failure(row).version = row.version + 1 /\ Failure(row).passed = row.passed
         /\ Success(row) \in Run /\ Success(row).status = "SUCCEEDED"
         /\ Success(row).key = row.key /\ Success(row).revision = row.revision
         /\ Success(row).version = row.version + 1 /\ Success(row).passed
         /\ Reclaimed(row) \in Run /\ Reclaimed(row).status = row.status
         /\ Reclaimed(row).key = row.key /\ Reclaimed(row).revision = row.revision
         /\ Reclaimed(row).version = row.version + 1 /\ Reclaimed(row).passed = row.passed
         /\ row.version + 1 \in Nat /\ row.version + 1 > row.version
<1>1. row.version + 1 \in Nat /\ row.version + 1 > row.version
  BY DEF Run
<1> QED
  BY <1>1 DEF Run, Failure, Success, Reclaimed

\* A write of the run a request deals with.
LEMMA WroteMoves ==
  ASSUME TypeOK, NEW q \in Requests, NEW row \in Run, jobs[q].run \in Requests, Wrote(q, row),
         RunMoves(q, jobs[q].run, row)
  PROVE  RowMoves(q) /\ SetRun(jobs[q].run, row)
<1>1. SetRun(jobs[q].run, row)
  BY UpdateRun DEF Wrote
<1> QED
  BY <1>1 DEF RowMoves

LEMMA RunningMoves ==
  ASSUME TypeOK, NEW q \in Requests, NEW r \in Requests, runs[r].status = "RUNNING",
         ~Locked(r) \/ (jobs[q].pc \in Holding /\ jobs[q].run = r),
         NEW row \in Run, row.key = runs[r].key, row.revision = runs[r].revision,
         row.version = runs[r].version + 1, runs[r].passed => row.passed,
         row.status \in {"RUNNING", "SUCCEEDED", "FAILED"},
         row.status = "SUCCEEDED" => kits[r] # 0 /\ row.passed
  PROVE  RunMoves(q, r, row)
<1>1. row.version >= runs[r].version
  BY RowOf
<1> QED
  BY <1>1 DEF RunMoves

LEMMA InsertActs ==
  ASSUME TypeOK, JobsSound, NEW q \in Requests, Insert(q)
  PROVE  Acts(q) /\ kits' = kits /\ (runs' = runs \/ RowMoves(q))
<1> USE DEF Early, Bound, Ours, Owning, Executing, Holding, Answering, Final, Answers, Pcs, Active,
            Claiming
<1>1. jobs[q].pc = "inserting" /\ kits' = kits
  BY DEF Insert, At
<1>2. JobSound(q, jobs[q]) /\ DraftSound(jobs[q]) /\ runs[q].status = "ABSENT"
  BY <1>1 DEF JobsSound, Sound, JobSound
<1>3. CASE ~MayInsert(q)
  <2>1. Go(q, "resolving") /\ runs' = runs
    BY <1>3 DEF Insert
  <2>2. PICK j \in Job : Turn(q, j, "resolving", jobs[q].run, NoRow, 0)
    BY <2>1, GoTurn
  <2>3. JobSound(q, j)'
    BY <1>1, <1>2, <2>1, <2>2 DEF JobSound, Turn
  <2> QED
    BY <1>1, <2>1, <2>2, <2>3, QuietActs
<1>4. CASE MayInsert(q)
  <2>1. PICK row \in Run : /\ runs' = [runs EXCEPT ![q] = row] /\ row.status = "RUNNING"
                           /\ row.revision = jobs[q].revision /\ row.version = 0
    <3> DEFINE row == [status |-> "RUNNING", key |-> KeyOf(q), revision |-> RevisionOf(q),
                       lease |-> "fresh", version |-> 0, passed |-> FALSE]
    <3>1. jobs[q].key \in Keys \cup {NoKey} /\ jobs[q].revision \in Revisions
      BY JobTypes DEF Job
    <3>2. row \in Run /\ row.status = "RUNNING" /\ row.revision = jobs[q].revision /\ row.version = 0
      BY <3>1 DEF Run, KeyOf, RevisionOf
    <3>3. runs' = [runs EXCEPT ![q] = row]
      BY <1>4 DEF Insert
    <3> HIDE DEF row
    <3> QED
      BY <3>2, <3>3
  <2>2. SetRun(q, row)
    BY <2>1, UpdateRun
  <2>3. RowMoves(q)
    BY <1>2, <1>4, <2>1, <2>2 DEF RowMoves, RunMoves, MayInsert, RevisionOf
  <2>4. PICK j \in Job : Turn(q, j, "calling", q, NoRow, 0)
    BY <1>4, OwnTurn DEF Insert
  <2>5. JobSound(q, j)'
    BY <1>1, <1>2, <2>1, <2>2, <2>4 DEF JobSound, Turn, SetRun
  <2>6. NewClaim(q, j) /\ Released(q, j)
    BY <1>1, <1>2, <2>4 DEF NewClaim, Released, Turn
  <2> QED
    BY <1>1, <1>2, <2>3, <2>4, <2>5, <2>6 DEF Acts, Sound, DraftSound, Turn
<1> QED
  BY <1>3, <1>4
LEMMA SettleActs ==
  ASSUME TypeOK, JobsSound, NEW q \in Requests, Settle(q)
  PROVE  Acts(q) /\ kits' = kits /\ (runs' = runs \/ RowMoves(q))
<1> USE DEF Early, Bound, Ours, Owning, Executing, Holding, Answering, Final, Answers, Pcs, Active,
            Claiming
<1> DEFINE r == jobs[q].run
<1>1. jobs[q].pc = "settling" /\ kits' = kits /\ ~Locked(r)
  BY DEF Settle, At
<1>2. JobSound(q, jobs[q]) /\ r \in Requests
  BY <1>1 DEF JobsSound, Sound, JobSound
<1>3. runs[r].status # "ABSENT" /\ kits[r] # 0 /\ runs[r] \in Run
  BY <1>1, <1>2, RowOf DEF JobSound
<1>4. CASE runs' = runs
  <2>1. \/ Go(q, "corrupt") \/ Go(q, "refused") \/ Keep(q, "replaying")
        \/ Wrote(q, Success(Row(q))) /\ Answer(q)
    BY DEF Settle
  <2>2. CASE Keep(q, "replaying")
    <3>1. PICK j \in Job : Turn(q, j, "replaying", r, jobs[q].seen, jobs[q].claim)
      BY <2>2, KeepTurn
    <3>2. JobSound(q, j)'
      BY <1>1, <1>2, <1>4, <3>1 DEF JobSound, Turn
    <3> QED
      BY <1>1, <1>4, <3>1, <3>2, QuietActs
  <2>3. ASSUME NEW pc \in {"corrupt", "refused"}, Go(q, pc) PROVE Acts(q)
    <3>1. PICK j \in Job : Turn(q, j, pc, r, NoRow, 0)
      BY <2>3, GoTurn
    <3>2. JobSound(q, j)'
      BY <1>1, <1>2, <1>4, <3>1, PreparationAssumption DEF JobSound, Turn
    <3> QED
      BY <1>1, <3>1, <3>2, QuietActs
  <2>4. CASE Answer(q)
    BY <1>1, <1>3, <1>4, <2>4, AnswerActs
  <2> QED
    BY <1>1, <1>4, <2>1, <2>2, <2>3, <2>4
<1>5. CASE runs' # runs
  <2>1. Wrote(q, Success(runs[r])) /\ Answer(q) /\ runs[r].status \notin {"SUCCEEDED", "FAILED"}
    BY <1>5 DEF Settle, Row
  <2>2. runs[r].status = "RUNNING"
    BY <1>3, <2>1 DEF Run
  <2>3. RunMoves(q, r, Success(runs[r]))
    BY <1>1, <1>2, <1>3, <2>2, Rows, RunningMoves
  <2>4. RowMoves(q) /\ SetRun(r, Success(runs[r]))
    BY <1>2, <1>3, <2>1, <2>3, Rows, WroteMoves
  <2>5. runs'[r].status # "ABSENT" /\ (runs'[q] = runs[q] \/ r = q)
    BY <1>3, <2>4, Rows DEF SetRun
  <2>6. r = q => runs[r].revision = jobs[q].revision
    BY <1>1, <1>2, <1>3 DEF JobSound
  <2> QED
    BY <1>1, <2>1, <2>4, <2>5, <2>6, AnswerActs
<1> QED
  BY <1>4, <1>5

LEMMA ReclaimActs ==
  ASSUME TypeOK, JobsSound, NEW q \in Requests, Reclaim(q)
  PROVE  Acts(q) /\ kits' = kits /\ (runs' = runs \/ RowMoves(q))
<1> USE DEF Early, Bound, Ours, Owning, Executing, Holding, Answering, Final, Answers, Pcs, Active,
            Claiming
<1> DEFINE r == jobs[q].run
<1>1. jobs[q].pc = "reclaiming" /\ kits' = kits /\ ~Locked(r)
  BY DEF Reclaim, At
<1>2. JobSound(q, jobs[q]) /\ DraftSound(jobs[q]) /\ r \in Requests
  BY <1>1 DEF JobsSound, Sound, JobSound
<1>3. runs[r].status # "ABSENT" /\ runs[r] \in Run
  BY <1>1, <1>2, RowOf DEF JobSound
<1>4. CASE Keep(q, "missed") /\ runs' = runs
  <2>1. PICK j \in Job : Turn(q, j, "missed", r, jobs[q].seen, jobs[q].claim)
    BY <1>4, KeepTurn
  <2>2. JobSound(q, j)'
    BY <1>1, <1>2, <1>4, <2>1 DEF JobSound, Turn
  <2> QED
    BY <1>1, <1>4, <2>1, <2>2, QuietActs
<1>5. CASE /\ runs[r].status = "RUNNING" /\ Wrote(q, Reclaimed(runs[r]))
           /\ Own(q, "calling", r, Reclaimed(runs[r]).version)
  <2>1. RunMoves(q, r, Reclaimed(runs[r]))
    BY <1>1, <1>2, <1>3, <1>5, Rows, RunningMoves
  <2>2. RowMoves(q) /\ SetRun(r, Reclaimed(runs[r]))
    BY <1>2, <1>3, <1>5, <2>1, Rows, WroteMoves
  <2>3. Reclaimed(runs[r]).version \in Nat /\ Reclaimed(runs[r]).version > runs[r].version
    BY <1>3, Rows
  <2>4. PICK j \in Job : Turn(q, j, "calling", r, NoRow, Reclaimed(runs[r]).version)
    BY <1>2, <1>5, <2>3, OwnTurn
  <2>5. /\ runs'[r] = Reclaimed(runs[r]) /\ runs'[r].revision = runs[r].revision
        /\ runs'[r].status = "RUNNING"
    BY <1>3, <1>5, <2>2, Rows DEF SetRun
  <2>6. JobSound(q, j)'
    BY <1>1, <1>2, <2>3, <2>4, <2>5 DEF JobSound, Turn
  <2>7. NewClaim(q, j) /\ Released(q, j)
    BY <1>1, <2>3, <2>4 DEF NewClaim, Released, Turn
  <2> QED
    BY <1>1, <1>2, <2>2, <2>4, <2>6, <2>7 DEF Acts, Sound, DraftSound, Turn
<1> QED
  BY <1>4, <1>5 DEF Reclaim, Row

LEMMA EvictActs ==
  ASSUME TypeOK, JobsSound, NEW q \in Requests, Evict(q)
  PROVE  Acts(q) /\ kits' = kits /\ (runs' = runs \/ RowMoves(q))
<1> USE DEF Early, Bound, Ours, Owning, Executing, Holding, Answering, Final, Answers, Pcs, Active,
            Claiming
<1> DEFINE r == jobs[q].run
<1>1. jobs[q].pc = "evicting" /\ kits' = kits /\ ~Locked(r) /\ Retry(q)
  BY DEF Evict, At
<1>2. JobSound(q, jobs[q]) /\ r \in Requests
  BY <1>1 DEF JobsSound, Sound, JobSound
<1>3. runs[q].status = "ABSENT" /\ runs[r].status # "ABSENT" /\ runs[r] \in Run
  BY <1>1, <1>2, RowOf DEF JobSound
<1>4. runs' = runs \/ (RowMoves(q) /\ SetRun(r, Failure(runs[r])))
  <2>1. CASE runs[r].status = "RUNNING" /\ Wrote(q, Failure(runs[r]))
    <3>1. RunMoves(q, r, Failure(runs[r]))
      BY <1>1, <1>2, <1>3, <2>1, Rows, RunningMoves
    <3> QED
      BY <1>2, <1>3, <2>1, <3>1, Rows, WroteMoves
  <2> QED
    BY <2>1 DEF Evict, Row
<1>5. runs'[q].status = "ABSENT"
  BY <1>3, <1>4 DEF SetRun
<1>6. PICK j \in Job : \/ Turn(q, j, "claiming", NoRun, NoRow, 0)
                       \/ Turn(q, j, "refused", r, NoRow, 0)
  BY <1>1, RetryTurn
<1>7. JobSound(q, j)'
  BY <1>5, <1>6, PreparationAssumption DEF JobSound, Turn
<1> QED
  BY <1>1, <1>4, <1>6, <1>7, QuietActs
LEMMA DisownedActs ==
  ASSUME TypeOK, JobsSound, NEW q \in Requests, jobs[q].pc \in {"failing", "recording"},
         Disowned(q), runs' = runs, kits' = kits
  PROVE  Acts(q)
<1> USE DEF Early, Bound, Ours, Owning, Executing, Holding, Answering, Final, Answers, Pcs, Active
<1>1. PICK pc \in {"replaying", "refused", "lost"} : Go(q, pc)
  BY DEF Disowned
<1>2. PICK j \in Job : Turn(q, j, pc, jobs[q].run, NoRow, 0)
  BY <1>1, GoTurn
<1>3. JobSound(q, jobs[q])
  BY DEF JobsSound, Sound
<1>4. JobSound(q, j)'
  BY <1>2, <1>3, PreparationAssumption DEF JobSound, Turn
<1> QED
  BY <1>2, <1>4, QuietActs

LEMMA MarkFailedActs ==
  ASSUME TypeOK, JobsSound, NEW q \in Requests, MarkFailed(q)
  PROVE  Acts(q) /\ kits' = kits /\ (runs' = runs \/ RowMoves(q))
<1> USE DEF Early, Bound, Ours, Owning, Executing, Holding, Answering, Final, Answers, Pcs, Active
<1> DEFINE r == jobs[q].run
<1>1. jobs[q].pc = "failing" /\ kits' = kits /\ ~Locked(r)
  BY DEF MarkFailed, At
<1>2. JobSound(q, jobs[q]) /\ r \in Requests
  BY <1>1 DEF JobsSound, Sound, JobSound
<1>3. runs[r] \in Run
  BY <1>2, RowOf
<1>4. CASE ~Owns(q)
  BY <1>1, <1>4, DisownedActs DEF MarkFailed
<1>5. CASE Owns(q)
  <2>1. runs[r].status = "RUNNING" /\ Wrote(q, Failure(runs[r])) /\ Go(q, "refused")
    BY <1>5 DEF MarkFailed, Owns, Row
  <2>2. RunMoves(q, r, Failure(runs[r]))
    BY <1>1, <1>2, <1>3, <2>1, Rows, RunningMoves
  <2>3. RowMoves(q)
    BY <1>2, <1>3, <2>1, <2>2, Rows, WroteMoves
  <2>4. PICK j \in Job : Turn(q, j, "refused", r, NoRow, 0)
    BY <2>1, GoTurn
  <2>5. JobSound(q, j)'
    BY <2>4, PreparationAssumption DEF JobSound, Turn
  <2> QED
    BY <1>1, <2>3, <2>4, <2>5, QuietActs
<1> QED
  BY <1>4, <1>5

LEMMA RecordActs ==
  ASSUME TypeOK, JobsSound, NEW q \in Requests, RecordQuality(q)
  PROVE  Acts(q) /\ kits' = kits /\ (runs' = runs \/ RowMoves(q))
<1> USE DEF Early, Bound, Ours, Owning, Executing, Holding, Answering, Final, Answers, Pcs, Active
<1> DEFINE r == jobs[q].run
<1>1. jobs[q].pc = "recording" /\ kits' = kits /\ ~Locked(r)
  BY DEF RecordQuality, At
<1>2. JobSound(q, jobs[q]) /\ DraftSound(jobs[q]) /\ r \in Requests
  BY <1>1 DEF JobsSound, Sound, JobSound
<1>3. runs[r] \in Run /\ runs[r].version \in Nat
  BY <1>2, RowOf
<1>4. CASE ~Owns(q)
  BY <1>1, <1>4, DisownedActs DEF RecordQuality
<1>5. CASE Owns(q)
  <2>1. runs[r].status = "RUNNING" /\ Own(q, "locking", r, runs[r].version + 1)
    BY <1>5 DEF RecordQuality, Owns, Row
  <2>2. PICK row \in Run : /\ Wrote(q, row) /\ row.status = "RUNNING" /\ row.key = runs[r].key
                           /\ row.revision = runs[r].revision /\ row.passed
                           /\ row.version = runs[r].version + 1
    <3> DEFINE row == [runs[r] EXCEPT !.lease = "fresh", !.passed = TRUE, !.version = @ + 1]
    <3>1. runs[r].version + 1 \in Nat
      BY <1>3
    <3>2. row \in Run
      BY <1>3, <3>1 DEF Run
    <3>3. /\ row.status = "RUNNING" /\ row.key = runs[r].key
          /\ row.revision = runs[r].revision /\ row.passed
          /\ row.version = runs[r].version + 1
      BY <1>3, <2>1 DEF Run
    <3>4. Wrote(q, row)
      BY <1>5 DEF RecordQuality, Row
    <3> HIDE DEF row
    <3> QED
      BY <3>2, <3>3, <3>4
  <2>3. RunMoves(q, r, row)
    BY <1>1, <1>2, <2>1, <2>2, RunningMoves
  <2>4. RowMoves(q) /\ SetRun(r, row)
    BY <1>2, <2>2, <2>3, WroteMoves
  <2>5. runs[r].version + 1 \in Nat /\ runs[r].version + 1 > runs[r].version
    BY <1>3
  <2>6. PICK j \in Job : Turn(q, j, "locking", r, NoRow, runs[r].version + 1)
    BY <1>2, <2>1, <2>5, OwnTurn
  <2>7. /\ j.run = r /\ j.claim = runs[r].version + 1 /\ j.claim # 0
        /\ j.claim <= runs'[r].version
    BY <1>3, <2>2, <2>4, <2>5, <2>6 DEF Turn, SetRun
  <2>8. JobSound(q, j)'
    BY <1>1, <1>2, <2>2, <2>4, <2>6, <2>7 DEF JobSound, Turn, SetRun
  <2>9. NewClaim(q, j) /\ Released(q, j)
    BY <1>1, <2>5, <2>7 DEF NewClaim, Released
  <2> QED
    BY <1>1, <1>2, <2>4, <2>6, <2>8, <2>9, OwnerActs
<1> QED
  BY <1>4, <1>5

WritesKit(q) == /\ jobs[q].pc \in Holding /\ runs' = runs /\ kits[jobs[q].run] = 0
                /\ kits' = [kits EXCEPT ![jobs[q].run] = jobs[q].claim]

LEMMA WriteActs ==
  ASSUME TypeOK, JobsSound, NEW q \in Requests, WriteKit(q)
  PROVE  Acts(q) /\ runs' = runs /\ (kits' = kits \/ WritesKit(q))
<1> USE DEF Early, Bound, Ours, Owning, Executing, Holding, Answering, Final, Answers, Pcs, Active
<1> DEFINE r == jobs[q].run
<1>1. jobs[q].pc = "writing" /\ runs' = runs
  BY DEF WriteKit, At
<1>2. JobSound(q, jobs[q]) /\ DraftSound(jobs[q]) /\ r \in Requests
  BY <1>1 DEF JobsSound, Sound, JobSound
<1>3. kits' = kits \/ WritesKit(q)
  BY <1>1 DEF WriteKit, WritesKit
<1>4. kits \in [Requests -> Nat] /\ jobs[q].claim # 0
  BY <1>1, <1>2 DEF TypeOK, JobSound
<1>5. ASSUME NEW pc \in {"checking", "succeeding"}, Keep(q, pc), pc = "succeeding" => kits'[r] # 0
      PROVE  Acts(q)
  <2>1. PICK j \in Job : Turn(q, j, pc, r, jobs[q].seen, jobs[q].claim)
    BY <1>5, KeepTurn
  <2>2. JobSound(q, j)'
    BY <1>1, <1>2, <1>5, <2>1 DEF JobSound, Turn
  <2>3. NewClaim(q, j) /\ Released(q, j)
    BY <1>1, <2>1 DEF NewClaim, Released, Turn
  <2> QED
    BY <1>1, <1>2, <2>1, <2>2, <2>3, OwnerActs
<1>6. Keep(q, "checking") \/ (Keep(q, "succeeding") /\ kits'[r] # 0)
  BY <1>2, <1>4 DEF WriteKit
<1> QED
  BY <1>1, <1>3, <1>5, <1>6

LEMMA CheckActs ==
  ASSUME TypeOK, JobsSound, NEW q \in Requests, CheckKit(q)
  PROVE  Acts(q) /\ kits' = kits /\ (runs' = runs \/ RowMoves(q))
<1> USE DEF Early, Bound, Ours, Owning, Executing, Holding, Answering, Final, Answers, Pcs, Active
<1> DEFINE r == jobs[q].run
           found == Inspect(r, runs[r])
<1>1. jobs[q].pc = "checking" /\ kits' = kits
  BY DEF CheckKit, At
<1>2. /\ JobSound(q, jobs[q]) /\ DraftSound(jobs[q]) /\ r \in Requests
      /\ runs[r].status = "RUNNING"
  BY <1>1 DEF JobsSound, Sound, JobSound
<1>3. runs[r] \in Run
  BY <1>2, RowOf
<1>4. CASE found = "exact six"
  <2>1. Keep(q, "succeeding") /\ runs' = runs /\ kits[r] # 0
    BY <1>4 DEF CheckKit, Row, Inspect
  <2>2. PICK j \in Job : Turn(q, j, "succeeding", r, jobs[q].seen, jobs[q].claim)
    BY <2>1, KeepTurn
  <2>3. JobSound(q, j)'
    BY <1>1, <1>2, <2>1, <2>2 DEF JobSound, Turn
  <2>4. NewClaim(q, j) /\ Released(q, j)
    BY <1>1, <2>2 DEF NewClaim, Released, Turn
  <2> QED
    BY <1>1, <1>2, <2>1, <2>2, <2>3, <2>4, OwnerActs
<1>5. CASE found = "invalid"
  <2>1. Go(q, "corrupt") /\ runs' = runs
    BY <1>5 DEF CheckKit, Row
  <2>2. PICK j \in Job : Turn(q, j, "corrupt", r, NoRow, 0)
    BY <2>1, GoTurn
  <2>3. Sound(q, j)'
    BY <1>1, <1>2, <2>1, <2>2 DEF Sound, JobSound, DraftSound, Turn
  <2>4. NewClaim(q, j) /\ Released(q, j)
    BY <2>2 DEF NewClaim, Released, Turn
  <2> QED
    BY <1>1, <2>1, <2>2, <2>3, <2>4 DEF Acts, Turn
<1>6. CASE found = "zero"
  <2>1. Wrote(q, Failure(runs[r])) /\ Go(q, "refused") /\ kits[r] = 0
    BY <1>6 DEF CheckKit, Row, Inspect
  <2>2. RunMoves(q, r, Failure(runs[r]))
    BY <1>1, <1>2, <1>3, <2>1, Rows, RunningMoves
  <2>3. RowMoves(q)
    BY <1>2, <1>3, <2>1, <2>2, Rows, WroteMoves
  <2>4. PICK j \in Job : Turn(q, j, "refused", r, NoRow, 0)
    BY <2>1, GoTurn
  <2>5. Sound(q, j)'
    BY <2>4, PreparationAssumption DEF Sound, JobSound, DraftSound, Turn
  <2>6. NewClaim(q, j) /\ Released(q, j)
    BY <1>1, <2>1, <2>4 DEF NewClaim, Released, Turn
  <2> QED
    BY <1>1, <2>3, <2>4, <2>5, <2>6 DEF Acts, Turn
<1> QED
  BY <1>4, <1>5, <1>6 DEF Inspect

LEMMA SucceedActs ==
  ASSUME TypeOK, JobsSound, NEW q \in Requests, Succeed(q)
  PROVE  Acts(q) /\ kits' = kits /\ (runs' = runs \/ RowMoves(q))
<1> USE DEF Early, Bound, Ours, Owning, Executing, Holding, Answering, Final, Answers, Pcs, Active
<1> DEFINE r == jobs[q].run
<1>1. jobs[q].pc = "succeeding" /\ kits' = kits /\ Wrote(q, Success(runs[r])) /\ Go(q, "ok")
  BY DEF Succeed, At, Row
<1>2. r \in Requests /\ runs[r].status = "RUNNING" /\ kits[r] # 0
  BY <1>1 DEF JobsSound, Sound, JobSound
<1>3. runs[r] \in Run
  BY <1>2, RowOf
<1>4. RunMoves(q, r, Success(runs[r]))
  BY <1>1, <1>2, <1>3, Rows, RunningMoves
<1>5. RowMoves(q) /\ SetRun(r, Success(runs[r]))
  BY <1>1, <1>2, <1>3, <1>4, Rows, WroteMoves
<1>6. runs'[r].status = "SUCCEEDED"
  BY <1>3, <1>5, Rows DEF SetRun
<1>7. PICK j \in Job : Turn(q, j, "ok", r, NoRow, 0)
  BY <1>1, GoTurn
<1>8. Sound(q, j)'
  BY <1>6, <1>7 DEF Sound, JobSound, DraftSound, Turn
<1>9. NewClaim(q, j) /\ Released(q, j)
  BY <1>6, <1>7 DEF NewClaim, Released, Turn
<1> QED
  BY <1>1, <1>5, <1>7, <1>8, <1>9 DEF Acts, Turn

\* Every step of a request: it goes on soundly, and writes one row or the
\* artifacts of the row it holds, or nothing.
LEMMA RequestActs ==
  ASSUME TypeOK, JobsSound, NEW q \in Requests, Prepare(q) \/ Crash(q)
  PROVE  /\ Acts(q)
         /\ \/ runs' = runs /\ kits' = kits
            \/ RowMoves(q) /\ kits' = kits
            \/ WritesKit(q)
  BY BeginActs, ClaimActs, InspectActs, ReadActs, ModelActs, LockActs, CrashActs, InsertActs,
     SettleActs, ReclaimActs, EvictActs, MarkFailedActs, RecordActs, WriteActs, CheckActs,
     SucceedActs DEF Prepare
-----------------------------------------------------------------------------
(* Every step is of one request, or of nobody. *)

Step(q) == /\ Acts(q)
           /\ \/ runs' = runs /\ kits' = kits
              \/ RowMoves(q) /\ kits' = kits
              \/ WritesKit(q)

Alike(p) == /\ jobs'[p].pc = jobs[p].pc /\ jobs'[p].key = jobs[p].key
            /\ jobs'[p].revision = jobs[p].revision /\ jobs'[p].run = jobs[p].run
            /\ jobs'[p].seen = jobs[p].seen /\ jobs'[p].claim = jobs[p].claim
            /\ jobs'[p].draft = jobs[p].draft

Lapses == \E r \in Requests, row \in Run :
    /\ SetRun(r, row) /\ runs[r].status = "RUNNING" /\ row.status = "RUNNING"
    /\ row.key = runs[r].key /\ row.revision = runs[r].revision
    /\ row.version = runs[r].version /\ row.passed = runs[r].passed

Quiet == /\ jobs' \in [Requests -> Job] /\ (\A p \in Requests : Alike(p))
         /\ kits' = kits
         /\ runs' = runs \/ Lapses

LEMMA ExpiryIsQuiet == ASSUME TypeOK, NEW r \in Requests, LeaseExpires(r) PROVE Quiet
<1>1. kits' = kits /\ runs[r].status = "RUNNING" /\ runs[r] \in Run
  BY RowOf DEF LeaseExpires
<1>2. Lapses
  <2> DEFINE row == [runs[r] EXCEPT !.lease = "expired"]
  <2>1. /\ row \in Run /\ row.status = "RUNNING" /\ row.key = runs[r].key
        /\ row.revision = runs[r].revision /\ row.version = runs[r].version
        /\ row.passed = runs[r].passed
    BY <1>1 DEF Run
  <2>2. runs' = [runs EXCEPT ![r] = row]
    BY DEF LeaseExpires, TypeOK
  <2> HIDE DEF row
  <2> QED
    BY <1>1, <2>1, <2>2, UpdateRun DEF Lapses
<1>3. ASSUME NEW p \in Requests PROVE Alike(p) /\ jobs'[p] \in Job
  <2>1. jobs[p] \in Job
    BY DEF TypeOK
  <2>2. jobs'[p] = IF jobs[p].pc \in Claiming THEN [jobs[p] EXCEPT !.late = @ \cup {r}]
                   ELSE jobs[p]
    BY DEF LeaseExpires
  <2> QED
    BY <2>1, <2>2 DEF Alike, Job
<1>4. jobs' = [p \in Requests |-> jobs'[p]]
  BY DEF LeaseExpires
<1>5. jobs' \in [Requests -> Job]
  BY <1>3, <1>4
<1> QED
  BY <1>1, <1>2, <1>3, <1>5 DEF Quiet

LEMMA Steps ==
  ASSUME TypeOK, JobsSound, [Next]_vars
  PROVE  Quiet \/ \E q \in Requests : Step(q)
<1>1. ASSUME UNCHANGED <<runs, kits, jobs>> PROVE Quiet
  BY <1>1 DEF Quiet, Alike, TypeOK
<1>2. CASE UNCHANGED vars \/ RefineWork \/ \E r \in Requests : ReviewArtifact(r)
  BY <1>1, <1>2 DEF vars, RefineWork, ReviewArtifact
<1>3. CASE \E q \in Requests : Prepare(q) \/ Crash(q)
  BY <1>3, RequestActs DEF Step
<1> QED
  BY <1>2, <1>3, ExpiryIsQuiet DEF Next

\* Rows and artifacts do not come undone.
Stable == \A r \in Requests :
    /\ runs[r].status # "ABSENT" =>
          /\ runs'[r].status # "ABSENT" /\ runs'[r].key = runs[r].key
          /\ runs'[r].revision = runs[r].revision /\ runs'[r].version >= runs[r].version
          /\ runs[r].passed => runs'[r].passed
    /\ runs[r].status = "SUCCEEDED" => runs'[r].status = "SUCCEEDED"
    /\ kits[r] # 0 => kits'[r] = kits[r]

LEMMA StableStep == ASSUME TypeOK, Quiet \/ \E q \in Requests : Step(q) PROVE Stable
<1>1. \A r \in Requests : runs[r] \in Run /\ runs[r].version \in Nat
  BY RowOf
<1>2. ASSUME NEW r \in Requests
      PROVE  /\ runs[r].status # "ABSENT" =>
                  /\ runs'[r].status # "ABSENT" /\ runs'[r].key = runs[r].key
                  /\ runs'[r].revision = runs[r].revision /\ runs'[r].version >= runs[r].version
                  /\ runs[r].passed => runs'[r].passed
             /\ runs[r].status = "SUCCEEDED" => runs'[r].status = "SUCCEEDED"
  <2>1. CASE runs' = runs
    BY <1>1, <2>1
  <2>2. ASSUME NEW q \in Requests, RowMoves(q)
        PROVE  /\ runs[r].status # "ABSENT" =>
                    /\ runs'[r].status # "ABSENT" /\ runs'[r].key = runs[r].key
                    /\ runs'[r].revision = runs[r].revision /\ runs'[r].version >= runs[r].version
                    /\ runs[r].passed => runs'[r].passed
               /\ runs[r].status = "SUCCEEDED" => runs'[r].status = "SUCCEEDED"
    <3>1. PICK s \in Requests, row \in Run : SetRun(s, row) /\ RunMoves(q, s, row)
      BY <2>2 DEF RowMoves
    <3>2. CASE s = r
      BY <3>1, <3>2 DEF SetRun, RunMoves
    <3>3. CASE s # r
      BY <1>1, <3>1, <3>3 DEF SetRun
    <3> QED
      BY <3>2, <3>3
  <2>3. CASE Lapses
    <3>1. PICK s \in Requests, row \in Run :
             /\ SetRun(s, row) /\ runs[s].status = "RUNNING" /\ row.status = "RUNNING"
             /\ row.key = runs[s].key /\ row.revision = runs[s].revision
             /\ row.version = runs[s].version /\ row.passed = runs[s].passed
      BY <2>3 DEF Lapses
    <3>2. CASE s = r
      BY <1>1, <3>1, <3>2 DEF SetRun
    <3>3. CASE s # r
      BY <1>1, <3>1, <3>3 DEF SetRun
    <3> QED
      BY <3>2, <3>3
  <2> QED
    BY <2>1, <2>2, <2>3 DEF Quiet, Step, WritesKit
<1>3. ASSUME NEW r \in Requests, kits[r] # 0 PROVE kits'[r] = kits[r]
  BY <1>3 DEF Quiet, Step, WritesKit, TypeOK
<1> QED
  BY <1>2, <1>3 DEF Stable

\* The jobs of the others stay sound: they hold the rows they rely on.
LEMMA AlikeSound ==
  ASSUME TypeOK, NEW p \in Requests, Sound(p, jobs[p]), Alike(p), Stable,
         runs[p].status = "ABSENT" => runs'[p].status = "ABSENT",
         jobs[p].pc \in Holding =>
            /\ runs'[jobs[p].run].status = "RUNNING"
            /\ runs'[jobs[p].run].version = runs[jobs[p].run].version,
         runs' \in [Requests -> Run]
  PROVE  Sound(p, jobs[p])'
<1> USE DEF Early, Bound, Ours, Owning, Executing, Holding, Answering
<1> DEFINE j == jobs[p]
<1>1. JobSound(p, j) /\ DraftSound(j) /\ j \in Job /\ j.claim \in Nat
  BY DEF Sound, TypeOK, Job
<1>2. CASE j.run \in Requests
  <2>1. /\ runs[j.run].status # "ABSENT" /\ runs'[j.run].status # "ABSENT"
        /\ runs'[j.run].key = runs[j.run].key /\ runs'[j.run].revision = runs[j.run].revision
        /\ runs[j.run].passed => runs'[j.run].passed
        /\ kits[j.run] # 0 => kits'[j.run] # 0
    BY <1>1, <1>2 DEF Stable, JobSound
  <2>2. j.claim <= runs[j.run].version => j.claim <= runs'[j.run].version
    <3>1. runs[j.run].version \in Nat /\ runs'[j.run].version \in Nat
      BY <1>2, RowOf DEF Run
    <3>2. runs'[j.run].version >= runs[j.run].version
      BY <1>1, <1>2 DEF Stable, JobSound
    <3> QED
      BY <1>1, <3>1, <3>2
  <2>3. JobSound(p, j)'
    BY <1>1, <1>2, <2>1, <2>2 DEF JobSound, Alike
  <2> QED
    BY <1>1, <2>3 DEF Sound, DraftSound, Alike
<1>3. CASE j.run \notin Requests
  <2>1. j.pc \notin Bound
    BY <1>1, <1>3 DEF JobSound
  <2>2. JobSound(p, j)'
    BY <1>1, <1>3, <2>1 DEF JobSound, Alike
  <2> QED
    BY <1>1, <2>2 DEF Sound, DraftSound, Alike
<1> QED
  BY <1>2, <1>3
-----------------------------------------------------------------------------
(* The inductive invariant, conjunct by conjunct. *)

LEMMA RunsType ==
  ASSUME TypeOK, Quiet \/ \E q \in Requests : Step(q) PROVE runs' \in [Requests -> Run]
<1>1. CASE runs' = runs
  BY <1>1 DEF TypeOK
<1>2. CASE \E r \in Requests, row \in Run : SetRun(r, row)
  BY <1>2 DEF SetRun
<1> QED
  BY <1>1, <1>2 DEF Quiet, Lapses, Step, RowMoves, WritesKit

LEMMA TypeStep == ASSUME TypeOK, JobsSound, [Next]_vars PROVE TypeOK'
<1>1. runs' \in [Requests -> Run]
  BY Steps, RunsType
<1>2. jobs' \in [Requests -> Job]
  BY Steps DEF Quiet, Step, Acts, SetJob
<1>3. kits' \in [Requests -> Nat]
  <2>1. kits \in [Requests -> Nat] /\ \A q \in Requests : jobs[q].claim \in Nat
    BY DEF TypeOK, Job
  <2> QED
    BY <2>1, Steps DEF Quiet, Step, WritesKit
<1> USE DEF Begin, Claim, Insert, LookUp, InspectRunning, LoseOwnership, Survey, Replay, Settle,
            Reclaim, MissReclaim, Evict, ModelAnswers, MarkFailed, RecordQuality, LockRun,
            WriteKit, CheckKit, Succeed
<1>4. workRevision' \in Revisions /\ reviewed' \in SUBSET Requests /\ slips' \in Nat
  <2>1. workRevision \in Revisions /\ reviewed \in SUBSET Requests /\ slips \in Nat
    BY DEF TypeOK
  <2>2. CASE RefineWork
    BY <2>1, <2>2, PreparationAssumption DEF RefineWork, Revisions
  <2>3. ASSUME NEW r \in Requests, ReviewArtifact(r) \/ LeaseExpires(r)
        PROVE  workRevision' \in Revisions /\ reviewed' \in SUBSET Requests /\ slips' \in Nat
    BY <2>1, <2>3 DEF ReviewArtifact, LeaseExpires
  <2>4. ASSUME NEW q \in Requests, Prepare(q) \/ Crash(q)
        PROVE  UNCHANGED <<workRevision, reviewed, slips>>
    BY <2>4 DEF Prepare, Crash
  <2>5. CASE UNCHANGED vars
    BY <2>1, <2>5 DEF vars
  <2> QED
    BY <2>1, <2>2, <2>3, <2>4, <2>5 DEF Next
<1> QED
  BY <1>1, <1>2, <1>3, <1>4 DEF TypeOK

\* Two requests that hold the row of a run would hold the same version of it.
LEMMA OneHolder ==
  ASSUME JobsSound, ClaimsDiffer, NEW p \in Requests, NEW q \in Requests,
         jobs[p].pc \in Holding, jobs[q].pc \in Holding, jobs[p].run = jobs[q].run
  PROVE  p = q
  BY DEF JobsSound, Sound, JobSound, ClaimsDiffer, Owning

LEMMA JobsStep == ASSUME IInv, [Next]_vars PROVE JobsSound'
<1>1. TypeOK /\ JobsSound /\ ClaimsDiffer
  BY DEF IInv
<1>2. Stable /\ runs' \in [Requests -> Run]
  BY <1>1, Steps, StableStep, RunsType
<1>3. CASE Quiet
  <2>1. ASSUME NEW p \in Requests PROVE Sound(p, jobs[p])'
    <3>1. \A r \in Requests : /\ runs'[r].status = runs[r].status
                              /\ runs'[r].version = runs[r].version
      BY <1>3 DEF Quiet, Lapses, SetRun
    <3>2. jobs[p].pc \in Holding => /\ jobs[p].run \in Requests
                                    /\ runs[jobs[p].run].status = "RUNNING"
      BY <1>1 DEF JobsSound, Sound, JobSound, Bound, Owning
    <3> QED
      BY <1>1, <1>2, <1>3, <3>1, <3>2, AlikeSound DEF Quiet, JobsSound
  <2> QED
    BY <2>1 DEF JobsSound
<1>4. ASSUME NEW q \in Requests, Step(q) PROVE JobsSound'
  <2>1. PICK j \in Job : SetJob(q, j) /\ Sound(q, j)'
    BY <1>4 DEF Step, Acts
  <2>2. ASSUME NEW p \in Requests, p # q PROVE Sound(p, jobs[p])'
    <3>1. Alike(p)
      BY <2>1, <2>2 DEF SetJob, Alike
    <3>2. runs[p].status = "ABSENT" => runs'[p].status = "ABSENT"
      BY <1>4, <2>2 DEF Step, RowMoves, WritesKit, RunMoves, SetRun
    <3>3. ASSUME jobs[p].pc \in Holding
          PROVE  /\ runs'[jobs[p].run].status = "RUNNING"
                 /\ runs'[jobs[p].run].version = runs[jobs[p].run].version
      <4>1. /\ jobs[p].run \in Requests /\ runs[jobs[p].run].status = "RUNNING"
            /\ Locked(jobs[p].run)
        BY <1>1, <3>3 DEF JobsSound, Sound, JobSound, Bound, Owning, Locked
      <4>2. ~(jobs[q].pc \in Holding /\ jobs[q].run = jobs[p].run)
        BY <1>1, <2>2, <3>3, OneHolder
      <4> QED
        BY <1>4, <4>1, <4>2 DEF Step, RowMoves, WritesKit, RunMoves, SetRun
    <3> QED
      BY <1>1, <1>2, <3>1, <3>2, <3>3, AlikeSound DEF JobsSound
  <2>3. Sound(q, jobs[q])'
    BY <2>1 DEF SetJob, Sound, JobSound, DraftSound
  <2> QED
    BY <2>2, <2>3 DEF JobsSound
<1> QED
  BY <1>1, <1>3, <1>4, Steps

LEMMA ClaimsStep == ASSUME IInv, [Next]_vars PROVE ClaimsDiffer'
<1>1. TypeOK /\ JobsSound /\ ClaimsDiffer
  BY DEF IInv
<1>2. CASE Quiet
  BY <1>1, <1>2 DEF Quiet, Alike, ClaimsDiffer
<1>3. ASSUME NEW q \in Requests, Step(q) PROVE ClaimsDiffer'
  <2>1. PICK j \in Job : SetJob(q, j) /\ NewClaim(q, j)
    BY <1>3 DEF Step, Acts
  <2>2. ASSUME NEW p \in Requests, p # q, jobs[p].pc \in Owning, j.pc \in Owning,
               jobs[p].run = j.run
        PROVE  jobs[p].claim # j.claim
    <3>1. /\ jobs[p].run \in Requests /\ runs[jobs[p].run].status # "ABSENT"
          /\ jobs[p].claim <= runs[jobs[p].run].version
      BY <1>1, <2>2 DEF JobsSound, Sound, JobSound, Bound
    <3>2. jobs[p].claim \in Nat /\ j.claim \in Nat /\ runs[jobs[p].run].version \in Nat
      BY <1>1, <3>1, RowOf DEF TypeOK, Job
    <3>3. CASE jobs[q].pc \in Owning /\ j.run = jobs[q].run /\ j.claim = jobs[q].claim
      BY <1>1, <2>2, <3>3 DEF ClaimsDiffer
    <3>4. CASE j.claim > runs[j.run].version
      BY <2>2, <3>1, <3>2, <3>4
    <3> QED
      BY <2>1, <2>2, <3>1, <3>3, <3>4 DEF NewClaim
  <2>3. jobs'[q] = j /\ \A p \in Requests \ {q} : jobs'[p] = jobs[p]
    BY <2>1 DEF SetJob
  <2> QED
    BY <1>1, <2>2, <2>3 DEF ClaimsDiffer
<1> QED
  BY <1>1, <1>2, <1>3, Steps

\* A run becomes live by insertion only, which the index on outcomes guards.
LEMMA FencedStep == ASSUME IInv, [Next]_vars PROVE Fenced'
<1>1. TypeOK /\ JobsSound /\ Fenced
  BY DEF IInv
<1>2. CASE \A r \in Requests : runs'[r].status \in Live =>
               runs[r].status \in Live /\ runs'[r].revision = runs[r].revision
  BY <1>1, <1>2 DEF Fenced
<1>3. CASE Quiet
  <2>1. \A r \in Requests : /\ runs'[r].status = runs[r].status
                            /\ runs'[r].revision = runs[r].revision
    BY <1>3 DEF Quiet, Lapses, SetRun
  <2> QED
    BY <1>2, <2>1
<1>4. ASSUME NEW q \in Requests, NEW r \in Requests, NEW row \in Run, SetRun(r, row),
             RunMoves(q, r, row)
      PROVE  Fenced'
  <2>1. CASE runs[r].status = "RUNNING"
    BY <1>2, <1>4, <2>1 DEF SetRun, RunMoves, Live
  <2>2. CASE FenceA(row.revision) = {}
    <3>1. \A s \in Requests : runs[s].status \in Live => runs[s].revision # row.revision
      BY <2>2 DEF FenceA, Live
    <3> QED
      BY <1>1, <1>4, <3>1 DEF Fenced, SetRun
  <2> QED
    BY <1>4, <2>1, <2>2 DEF RunMoves
<1>5. CASE runs' = runs
  BY <1>2, <1>5
<1> QED
  BY <1>1, <1>3, <1>4, <1>5, Steps DEF Step, RowMoves, WritesKit

LEMMA KitsStep == ASSUME IInv, [Next]_vars PROVE KitsSound'
<1>1. TypeOK /\ JobsSound /\ KitsSound /\ ClaimsDiffer
  BY DEF IInv
<1>2. Stable
  BY <1>1, Steps, StableStep
<1>3. ASSUME NEW r \in Requests PROVE kits'[r] <= runs'[r].version
  <2>1. /\ runs[r].version \in Nat /\ runs'[r].version \in Nat /\ kits[r] \in Nat
        /\ kits[r] <= runs[r].version
    BY <1>1, RowOf, TypeStep DEF TypeOK, KitsSound, KitSound, Run
  <2>2. kits[r] # 0 => runs[r].status # "ABSENT"
    BY <1>1 DEF KitsSound, KitSound, Abandoned, Locked, JobsSound, Sound, JobSound
  <2>3. runs[r].status # "ABSENT" => runs'[r].version >= runs[r].version
    BY <1>2 DEF Stable
  <2>4. CASE kits'[r] = kits[r]
    BY <2>1, <2>2, <2>3, <2>4
  <2>5. ASSUME NEW q \in Requests, WritesKit(q), jobs[q].run = r PROVE kits'[r] <= runs'[r].version
    <3>1. kits'[r] = jobs[q].claim /\ runs' = runs
      BY <1>1, <2>5 DEF WritesKit, TypeOK
    <3>2. runs[r].version = jobs[q].claim
      BY <1>1, <2>5 DEF WritesKit, JobsSound, Sound, JobSound
    <3> QED
      BY <2>1, <3>1, <3>2
  <2> QED
    BY <1>1, <2>4, <2>5, Steps DEF Quiet, Step, WritesKit, TypeOK
<1>4. ASSUME NEW r \in Requests, kits'[r] # 0
      PROVE  (runs[r].status = "SUCCEEDED" \/ Abandoned(r) \/ Locked(r))'
  <2>1. CASE Quiet
    <3>1. runs'[r].status = runs[r].status
      BY <2>1 DEF Quiet, Lapses, SetRun
    <3> QED
      BY <1>1, <1>4, <2>1, <3>1
      DEF Quiet, Alike, KitsSound, KitSound, Abandoned, Locked
  <2>2. ASSUME NEW q \in Requests, Step(q)
        PROVE  (runs[r].status = "SUCCEEDED" \/ Abandoned(r) \/ Locked(r))'
    <3>1. PICK j \in Job : SetJob(q, j) /\ Released(q, j)
      BY <2>2 DEF Step, Acts
    <3>2. jobs'[q] = j /\ \A p \in Requests \ {q} : jobs'[p] = jobs[p]
      BY <3>1 DEF SetJob
    <3>3. CASE jobs[q].pc \in Holding /\ jobs[q].run = r
      BY <1>4, <3>1, <3>2, <3>3 DEF Released, Abandoned, Locked
    <3>4. CASE ~(jobs[q].pc \in Holding /\ jobs[q].run = r)
      <4>1. kits'[r] = kits[r]
        BY <1>1, <2>2, <3>4 DEF Step, WritesKit, TypeOK
      <4>2. runs[r].status = "SUCCEEDED" \/ Abandoned(r) \/ Locked(r)
        BY <1>1, <1>4, <4>1 DEF KitsSound, KitSound
      <4>3. CASE runs[r].status = "SUCCEEDED"
        BY <1>2, <4>3 DEF Stable
      <4>4. CASE Abandoned(r)
        <5>1. PICK p \in Requests : jobs[p].run = r /\ jobs[p].pc \in {"torn", "corrupt"}
          BY <4>4 DEF Abandoned
        <5>2. p # q
          BY <2>2, <5>1 DEF Step, Acts, Final, Answers
        <5> QED
          BY <3>2, <5>1, <5>2 DEF Abandoned
      <4>5. CASE Locked(r)
        BY <3>2, <3>4, <4>5 DEF Locked
      <4> QED
        BY <4>2, <4>3, <4>4, <4>5
    <3> QED
      BY <3>3, <3>4
  <2> QED
    BY <1>1, <2>1, <2>2, Steps
<1>5. ASSUME NEW r \in Requests, runs'[r].status = "SUCCEEDED"
      PROVE  kits'[r] # 0 /\ runs'[r].passed
  <2>1. CASE runs[r].status = "SUCCEEDED"
    BY <1>1, <1>2, <2>1 DEF Stable, KitsSound, KitSound
  <2>2. CASE runs[r].status # "SUCCEEDED"
    <3>1. PICK q \in Requests : RowMoves(q)
      BY <1>1, <1>5, <2>2, Steps DEF Quiet, Lapses, SetRun, Step, WritesKit
    <3>2. PICK s \in Requests, row \in Run : SetRun(s, row) /\ RunMoves(q, s, row)
      BY <3>1 DEF RowMoves
    <3>3. s = r
      BY <1>5, <2>2, <3>2 DEF SetRun
    <3>4. kits[r] # 0 /\ runs'[r].passed
      BY <1>5, <3>2, <3>3 DEF SetRun, RunMoves
    <3> QED
      BY <1>2, <3>4 DEF Stable
  <2> QED
    BY <2>1, <2>2
<1> QED
  BY <1>3, <1>4, <1>5 DEF KitsSound, KitSound

LEMMA InitIInv == Init => IInv
<1> SUFFICES ASSUME Init PROVE IInv
  OBVIOUS
<1>1. NewJob \in Job /\ NewJob.pc = "new" /\ NewJob.run = NoRun /\ NewJob.draft = 0
  BY NoRowIsRun DEF NewJob, Job, NoRow, Run
<1>2. NoRow \in Run /\ NoRow.status = "ABSENT" /\ NoRow.version = 0
  BY NoRowIsRun DEF NoRow
<1>3. TypeOK
  BY <1>1, <1>2, PreparationAssumption DEF Init, TypeOK, Revisions
<1>4. JobsSound
  BY <1>1, <1>2, PreparationAssumption
  DEF Init, JobsSound, Sound, JobSound, DraftSound, Bound, Ours, Owning, Executing, Holding, Answering
<1>5. KitsSound /\ Fenced
  BY <1>2 DEF Init, KitsSound, KitSound, Fenced, Live
<1>6. ClaimsDiffer
  BY <1>1 DEF Init, ClaimsDiffer, Owning, Executing, Holding
<1> QED
  BY <1>3, <1>4, <1>5, <1>6 DEF IInv

LEMMA StepIInv == IInv /\ [Next]_vars => IInv'
<1> SUFFICES ASSUME IInv, [Next]_vars PROVE IInv'
  OBVIOUS
<1>1. TypeOK'
  BY TypeStep DEF IInv
<1> QED
  BY <1>1, JobsStep, KitsStep, FencedStep, ClaimsStep DEF IInv

\* The invariant holds in every reachable state, types included.
THEOREM Invariance == Spec => []IInv
<1> QED
  BY InitIInv, StepIInv, PTL DEF Spec

\* A SUCCEEDED run has its six artifacts and a passing quality, a FAILED one has
\* none unless it was abandoned between the commits of Content and of the run.
THEOREM OutcomesHaveKits == Spec => []OutcomeHasKit
<1>1. IInv => OutcomeHasKit
  <2> SUFFICES ASSUME IInv, NEW r \in Requests
               PROVE  /\ runs[r].status = "SUCCEEDED" => kits[r] # 0 /\ runs[r].passed
                      /\ runs[r].status = "FAILED" /\ kits[r] # 0 => Abandoned(r)
                      /\ kits[r] <= runs[r].version
    BY DEF OutcomeHasKit
  <2>1. Locked(r) => runs[r].status = "RUNNING"
    BY DEF IInv, JobsSound, Sound, JobSound, Locked
  <2> QED
    BY <2>1 DEF IInv, KitsSound, KitSound
<1> QED
  BY <1>1, Invariance, PTL

\* A Work revision gets a second kit only over a run that was abandoned between
\* the commits, whatever keys, evictions and slow executors do.
THEOREM KitsFenced == Spec => []KitFenced
<1>1. IInv => KitFenced
  <2> SUFFICES ASSUME IInv, NEW r \in Requests, NEW s \in Requests, kits[r] # 0, kits[s] # 0,
                      runs[r].revision = runs[s].revision, r # s, ~Abandoned(r), ~Abandoned(s)
               PROVE  FALSE
    BY DEF KitFenced
  <2>1. ASSUME NEW t \in Requests, kits[t] # 0, ~Abandoned(t) PROVE runs[t].status \in Live
    <3>1. Locked(t) => runs[t].status = "RUNNING"
      BY DEF IInv, JobsSound, Sound, JobSound, Locked
    <3> QED
      BY <2>1, <3>1 DEF IInv, KitsSound, KitSound, Live
  <2> QED
    BY <2>1 DEF IInv, Fenced
<1> QED
  BY <1>1, Invariance, PTL

\* Nobody shares the right to execute a run: who owns a version of it owns it alone.
THEOREM OwnersAreAlone == Spec => []OneOwner
<1>1. IInv => OneOwner
  <2> SUFFICES ASSUME IInv, NEW p \in Requests, NEW q \in Requests,
                      jobs[p].pc \in Owning, jobs[q].pc \in Owning,
                      jobs[p].run = jobs[q].run, Owns(p), Owns(q)
               PROVE  p = q
    BY DEF OneOwner, Owning
  <2> QED
    BY DEF IInv, ClaimsDiffer, Owns, Row
<1> QED
  BY <1>1, Invariance, PTL
-----------------------------------------------------------------------------
(* The kit: what building and the quality baseline do to it. *)

\* What the baseline checks is enough for teachers and learners.
LEMMA QualityIsCoherent == ASSUME NEW a, Quality(a) PROVE Coherent(a)
<1> SUFFICES ASSUME NEW c \in Components, NEW i \in DOMAIN a[c].questions
             PROVE  LET question == a[c].questions[i]
                        entries == {k \in DOMAIN a.key : /\ a.key[k].kind = c
                                                         /\ a.key[k].id = question.id}
                    IN \E k \in entries : entries = {k} /\ a.key[k].answer = question.answer
  BY DEF Coherent, Quality, SameObjectives
<1> DEFINE question == a[c].questions[i]
           entries == {k \in DOMAIN a.key : a.key[k].kind = c /\ a.key[k].id = question.id}
<1>1. KeyComplete(a) /\ KeyAgrees(a) /\ IdentifierIntegrity(a)
  BY DEF Quality
<1>2. DOMAIN KeyRefs(a) = DOMAIN a.key
      /\ \A k \in DOMAIN a.key : KeyRefs(a)[k] = <<a.key[k].kind, a.key[k].id>>
  BY DEF KeyRefs
<1>3. PICK k \in DOMAIN a.key : a.key[k].kind = c /\ a.key[k].id = question.id
  <2>1. <<c, question.id>> \in Range(KeyRefs(a))
    BY <1>1 DEF KeyComplete
  <2>2. PICK k \in DOMAIN a.key : <<c, question.id>> = <<a.key[k].kind, a.key[k].id>>
    BY <1>2, <2>1 DEF Range
  <2> QED
    BY <2>2
<1>4. ASSUME NEW l \in entries PROVE l = k
  <2>1. KeyRefs(a)[l] = KeyRefs(a)[k]
    BY <1>2, <1>3, <1>4
  <2> QED
    BY <1>1, <1>2, <2>1 DEF IdentifierIntegrity, Unique, IsInjective
<1>5. a.key[k].answer = question.answer
  <2>1. PICK j \in DOMAIN a[c].questions : /\ a[c].questions[j].id = question.id
                                           /\ a[c].questions[j].answer = a.key[k].answer
    BY <1>1, <1>3 DEF KeyAgrees
  <2>2. j = i
    BY <1>1, <2>1 DEF IdentifierIntegrity, Unique, IsInjective, Ids
  <2> QED
    BY <2>1, <2>2
<1> QED
  BY <1>3, <1>4, <1>5

Entry == [kind : Components, id : QuestionIds, answer : Texts]

LEMMA EntriesOf ==
  ASSUME NEW kind \in Components, NEW questions \in Seq(Question)
  PROVE  /\ Entries(kind, questions) \in Seq(Entry)
         /\ Len(Entries(kind, questions)) = Len(questions)
         /\ \A i \in 1 .. Len(questions) :
               Entries(kind, questions)[i] =
                 [kind |-> kind, id |-> questions[i].id, answer |-> questions[i].answer]
<1>1. DOMAIN questions = 1 .. Len(questions) /\ Len(questions) \in Nat
  OBVIOUS
<1>2. \A i \in 1 .. Len(questions) : questions[i] \in Question
  OBVIOUS
<1>3. Entries(kind, questions) \in [1 .. Len(questions) -> Entry]
  BY <1>1, <1>2 DEF Entries, Entry, Question
<1> QED
  BY <1>1, <1>3 DEF Entries

IsConcat(st, s, t) == /\ st \in Seq(Entry)
                      /\ Len(st) = Len(s) + Len(t)
                      /\ \A i \in 1 .. Len(s) : st[i] = s[i]
                      /\ \A i \in 1 .. Len(t) : st[Len(s) + i] = t[i]

LEMMA Concatenated ==
  ASSUME NEW s \in Seq(Entry), NEW t \in Seq(Entry)
  PROVE  IsConcat(s \o t, s, t)
<1>1. /\ s \o t \in Seq(Entry) /\ Len(s \o t) = Len(s) + Len(t)
      /\ \A i \in 1 .. Len(s) + Len(t) : (s \o t)[i] = IF i <= Len(s) THEN s[i] ELSE t[i - Len(s)]
  BY ConcatProperties
<1>2. Len(s) \in Nat /\ Len(t) \in Nat
  OBVIOUS
<1>3. ASSUME NEW i \in 1 .. Len(s) PROVE (s \o t)[i] = s[i]
  <2>1. i \in 1 .. Len(s) + Len(t) /\ i <= Len(s)
    BY <1>2
  <2> QED
    BY <1>1, <2>1
<1>4. ASSUME NEW i \in 1 .. Len(t) PROVE (s \o t)[Len(s) + i] = t[i]
  <2>1. /\ Len(s) + i \in 1 .. Len(s) + Len(t) /\ ~(Len(s) + i <= Len(s))
        /\ (Len(s) + i) - Len(s) = i
    BY <1>2
  <2> QED
    BY <1>1, <2>1
<1> QED
  BY <1>1, <1>3, <1>4 DEF IsConcat

\* The answer key holds the worksheet's entries, then the quiz's, then the
\* homework's.
LaidOut(key, w, z, h) ==
    /\ DOMAIN key = 1 .. Len(w) + Len(z) + Len(h)
    /\ Len(key) = Len(w) + Len(z) + Len(h)
    /\ \A i \in 1 .. Len(w) : key[i] = [kind |-> "worksheet", id |-> w[i].id, answer |-> w[i].answer]
    /\ \A i \in 1 .. Len(z) :
          key[Len(w) + i] = [kind |-> "quiz", id |-> z[i].id, answer |-> z[i].answer]
    /\ \A i \in 1 .. Len(h) :
          key[Len(w) + Len(z) + i] = [kind |-> "homework", id |-> h[i].id, answer |-> h[i].answer]

LEMMA KeyLayout ==
  ASSUME NEW w \in Seq(Question), NEW z \in Seq(Question), NEW h \in Seq(Question)
  PROVE  LaidOut(AnswerKey(w, z, h), w, z, h)
<1> DEFINE ew == Entries("worksheet", w)
           ez == Entries("quiz", z)
           eh == Entries("homework", h)
           wz == ew \o ez
           key == wz \o eh
<1>1. /\ ew \in Seq(Entry) /\ Len(ew) = Len(w)
      /\ ez \in Seq(Entry) /\ Len(ez) = Len(z)
      /\ eh \in Seq(Entry) /\ Len(eh) = Len(h)
  BY EntriesOf DEF Components
<1>2. /\ \A i \in 1 .. Len(w) : ew[i] = [kind |-> "worksheet", id |-> w[i].id, answer |-> w[i].answer]
      /\ \A i \in 1 .. Len(z) : ez[i] = [kind |-> "quiz", id |-> z[i].id, answer |-> z[i].answer]
      /\ \A i \in 1 .. Len(h) : eh[i] = [kind |-> "homework", id |-> h[i].id, answer |-> h[i].answer]
  BY EntriesOf DEF Components
<1>3. AnswerKey(w, z, h) = key
  BY DEF AnswerKey
<1>4. Len(w) \in Nat /\ Len(z) \in Nat /\ Len(h) \in Nat
  OBVIOUS
<1> HIDE DEF ew, ez, eh
<1>5. /\ wz \in Seq(Entry) /\ Len(wz) = Len(w) + Len(z)
      /\ \A i \in 1 .. Len(w) : wz[i] = ew[i]
      /\ \A i \in 1 .. Len(z) : wz[Len(w) + i] = ez[i]
  <2>1. /\ wz \in Seq(Entry) /\ Len(wz) = Len(ew) + Len(ez)
        /\ \A i \in 1 .. Len(ew) : wz[i] = ew[i]
        /\ \A i \in 1 .. Len(ez) : wz[Len(ew) + i] = ez[i]
    <3>1. IsConcat(wz, ew, ez)
      BY <1>1, Concatenated
    <3> HIDE DEF wz
    <3> QED
      BY <3>1 DEF IsConcat
  <2> HIDE DEF wz
  <2> QED
    BY <1>1, <2>1
<1> HIDE DEF wz
<1>6. /\ key \in Seq(Entry) /\ Len(key) = Len(w) + Len(z) + Len(h)
      /\ \A i \in 1 .. Len(w) + Len(z) : key[i] = wz[i]
      /\ \A i \in 1 .. Len(h) : key[Len(w) + Len(z) + i] = eh[i]
  <2>1. /\ key \in Seq(Entry) /\ Len(key) = Len(wz) + Len(eh)
        /\ \A i \in 1 .. Len(wz) : key[i] = wz[i]
        /\ \A i \in 1 .. Len(eh) : key[Len(wz) + i] = eh[i]
    <3>1. IsConcat(key, wz, eh)
      BY <1>1, <1>5, Concatenated
    <3> HIDE DEF key
    <3> QED
      BY <3>1 DEF IsConcat
  <2> HIDE DEF key
  <2> QED
    BY <1>1, <1>5, <2>1
<1> HIDE DEF key
<1>7. DOMAIN key = 1 .. Len(w) + Len(z) + Len(h)
  <2>1. DOMAIN key = 1 .. Len(key)
    BY <1>6
  <2> QED
    BY <1>6, <2>1
<1>8. ASSUME NEW i \in 1 .. Len(w) PROVE key[i] = ew[i]
  <2>1. i \in 1 .. Len(w) + Len(z)
    BY <1>4
  <2> QED
    BY <1>5, <1>6, <2>1
<1>9. ASSUME NEW i \in 1 .. Len(z) PROVE key[Len(w) + i] = ez[i]
  <2>1. Len(w) + i \in 1 .. Len(w) + Len(z)
    BY <1>4
  <2> QED
    BY <1>5, <1>6, <2>1
<1> QED
  BY <1>2, <1>3, <1>6, <1>7, <1>8, <1>9 DEF LaidOut

\* Every entry of the key is the entry of a question, at that question's place.
Placed(key, kind, questions, before, k) ==
    \E i \in 1 .. Len(questions) :
        /\ k = before + i
        /\ key[k] = [kind |-> kind, id |-> questions[i].id, answer |-> questions[i].answer]

LEMMA KeyEntries ==
  ASSUME NEW key, NEW w \in Seq(Question), NEW z \in Seq(Question), NEW h \in Seq(Question),
         LaidOut(key, w, z, h), NEW k \in DOMAIN key
  PROVE  \/ Placed(key, "worksheet", w, 0, k)
         \/ Placed(key, "quiz", z, Len(w), k)
         \/ Placed(key, "homework", h, Len(w) + Len(z), k)
<1>3. Len(w) \in Nat /\ Len(z) \in Nat /\ Len(h) \in Nat
  OBVIOUS
<1>4. k \in 1 .. Len(w) + Len(z) + Len(h)
  BY DEF LaidOut
<1>5. CASE k <= Len(w)
  <2>1. k \in 1 .. Len(w) /\ k = 0 + k
    BY <1>3, <1>4, <1>5
  <2>2. key[k] = [kind |-> "worksheet", id |-> w[k].id, answer |-> w[k].answer]
    BY <2>1 DEF LaidOut
  <2> QED
    BY <2>1, <2>2 DEF Placed
<1>6. CASE ~(k <= Len(w)) /\ k <= Len(w) + Len(z)
  <2>1. PICK i \in 1 .. Len(z) : k = Len(w) + i
    <3>1. k - Len(w) \in 1 .. Len(z) /\ k = Len(w) + (k - Len(w))
      BY <1>3, <1>4, <1>6
    <3> QED
      BY <3>1
  <2>2. key[k] = [kind |-> "quiz", id |-> z[i].id, answer |-> z[i].answer]
    BY <2>1 DEF LaidOut
  <2> QED
    BY <2>1, <2>2 DEF Placed
<1>7. CASE ~(k <= Len(w) + Len(z))
  <2>1. PICK i \in 1 .. Len(h) : k = Len(w) + Len(z) + i
    <3>1. /\ k - (Len(w) + Len(z)) \in 1 .. Len(h)
          /\ k = Len(w) + Len(z) + (k - (Len(w) + Len(z)))
      BY <1>3, <1>4, <1>7
    <3> QED
      BY <3>1
  <2>2. key[k] = [kind |-> "homework", id |-> h[i].id, answer |-> h[i].answer]
    BY <2>1 DEF LaidOut
  <2> QED
    BY <2>1, <2>2 DEF Placed
<1> QED
  BY <1>5, <1>6, <1>7
\* A kit that can be built fails the baseline only for its worksheet or for a
\* claim: what the building adds -- the copies of the objectives and the answer
\* key -- passes every check made of it.
LEMMA BuildPasses ==
  ASSUME NEW kit \in Kit, Buildable(kit), ~kit.claim,
         WorksheetQuality([objectives |-> kit.objectives, questions |-> kit.worksheet])
  PROVE  Quality(Build(kit))
<1> DEFINE a == Build(kit)
           key == a.key
           w == kit.worksheet
           z == kit.quiz
           h == kit.homework
           known == Range(kit.objectives)
<1>1. /\ w \in Seq(Question) /\ z \in Seq(Question) /\ h \in Seq(Question)
      /\ kit.objectives \in Seq(Objectives)
  BY DEF Kit
<1>2. /\ kit.objectives # <<>> /\ LessonValid(kit.lesson, kit.sections, known)
      /\ ComponentValid(w, known) /\ ComponentValid(z, known) /\ ComponentValid(h, known)
  BY DEF Buildable, KitValid
<1>3. /\ a.worksheet = [objectives |-> kit.objectives, questions |-> w]
      /\ a.quiz = [objectives |-> kit.objectives, questions |-> z]
      /\ a.homework = [objectives |-> kit.objectives, questions |-> h]
      /\ a.lesson = [objectives |-> kit.objectives, mapped |-> kit.lesson, sections |-> kit.sections]
      /\ a.claim = kit.claim
      /\ a.key = AnswerKey(w, z, h)
  BY DEF Build
<1>4. LaidOut(key, w, z, h)
  BY <1>1, <1>3, KeyLayout
<1> HIDE DEF a
<1>5. /\ a["worksheet"].objectives = kit.objectives /\ a["worksheet"].questions = w
      /\ a["quiz"].objectives = kit.objectives /\ a["quiz"].questions = z
      /\ a["homework"].objectives = kit.objectives /\ a["homework"].questions = h
      /\ a["lesson"].objectives = kit.objectives
      /\ a.lesson.mapped = kit.lesson /\ a.lesson.sections = kit.sections
      /\ a.lesson.objectives = kit.objectives
  BY <1>3
<1> HIDE DEF key, w, z, h
<1>6. Len(w) \in Nat /\ Len(z) \in Nat /\ Len(h) \in Nat
  BY <1>1
<1>7. DOMAIN w = 1 .. Len(w) /\ DOMAIN z = 1 .. Len(z) /\ DOMAIN h = 1 .. Len(h)
  BY <1>1
<1>8. ObjectivesPresent(a)
  BY <1>2, <1>5 DEF ObjectivesPresent, Components
<1>9. ObjectivesMapped(a)
  <2>1. KnownTo(a.lesson) = known /\ \A c \in Components : KnownTo(a[c]) = known
    BY <1>5 DEF KnownTo, Components
  <2>2. Mapped(w, known) /\ Mapped(z, known) /\ Mapped(h, known)
    BY <1>2 DEF ComponentValid
  <2> HIDE DEF known
  <2> QED
    BY <1>2, <1>5, <2>1, <2>2 DEF ObjectivesMapped, Components
<1>10. SameObjectives(a)
  BY <1>5 DEF SameObjectives, Components
<1>11. DOMAIN KeyRefs(a) = DOMAIN key
       /\ \A k \in DOMAIN key : KeyRefs(a)[k] = <<key[k].kind, key[k].id>>
  BY DEF KeyRefs, key
<1>12. IdentifierIntegrity(a)
  <2>1. Unique(Ids(w)) /\ Unique(Ids(z)) /\ Unique(Ids(h))
    BY <1>2 DEF ComponentValid
  <2>2. \A c \in Components : Unique(Ids(a[c].questions))
    BY <1>5, <2>1 DEF Components
  <2>3. ASSUME NEW k \in DOMAIN key, NEW l \in DOMAIN key, KeyRefs(a)[k] = KeyRefs(a)[l]
        PROVE  k = l
    <3>1. key[k].kind = key[l].kind /\ key[k].id = key[l].id
      BY <1>11, <2>3
    <3>2. /\ \A i, j \in DOMAIN w : w[i].id = w[j].id => i = j
          /\ \A i, j \in DOMAIN z : z[i].id = z[j].id => i = j
          /\ \A i, j \in DOMAIN h : h[i].id = h[j].id => i = j
      BY <2>1 DEF Unique, IsInjective, Ids
    <3> DEFINE Lies(m) == \/ Placed(key, "worksheet", w, 0, m)
                          \/ Placed(key, "quiz", z, Len(w), m)
                          \/ Placed(key, "homework", h, Len(w) + Len(z), m)
    <3>0. Lies(k) /\ Lies(l)
      BY <1>1, <1>4, KeyEntries
    <3>3. CASE key[k].kind = "worksheet"
      <4>1. PICK i \in 1 .. Len(w) : k = 0 + i /\ key[k].id = w[i].id
        BY <3>0, <3>3 DEF Placed
      <4>2. PICK j \in 1 .. Len(w) : l = 0 + j /\ key[l].id = w[j].id
        <5>1. key[l].kind = "worksheet"
          BY <3>1, <3>3
        <5> QED
          BY <3>0, <5>1 DEF Placed
      <4> QED
        BY <1>7, <3>1, <3>2, <4>1, <4>2
    <3>4. CASE key[k].kind = "quiz"
      <4>1. PICK i \in 1 .. Len(z) : k = Len(w) + i /\ key[k].id = z[i].id
        BY <3>0, <3>4 DEF Placed
      <4>2. PICK j \in 1 .. Len(z) : l = Len(w) + j /\ key[l].id = z[j].id
        <5>1. key[l].kind = "quiz"
          BY <3>1, <3>4
        <5> QED
          BY <3>0, <5>1 DEF Placed
      <4>3. i = j
        BY <1>7, <3>1, <3>2, <4>1, <4>2
      <4> QED
        BY <4>1, <4>2, <4>3
    <3>5. CASE key[k].kind = "homework"
      <4>1. PICK i \in 1 .. Len(h) : k = Len(w) + Len(z) + i /\ key[k].id = h[i].id
        BY <3>0, <3>5 DEF Placed
      <4>2. PICK j \in 1 .. Len(h) : l = Len(w) + Len(z) + j /\ key[l].id = h[j].id
        <5>1. key[l].kind = "homework"
          BY <3>1, <3>5
        <5> QED
          BY <3>0, <5>1 DEF Placed
      <4>3. i = j
        BY <1>7, <3>1, <3>2, <4>1, <4>2
      <4> QED
        BY <4>1, <4>2, <4>3
    <3>6. key[k].kind \in Components
      BY <3>0 DEF Placed, Components
    <3> QED
      BY <3>3, <3>4, <3>5, <3>6 DEF Components
  <2> QED
    BY <1>11, <2>2, <2>3 DEF IdentifierIntegrity, Unique, IsInjective
<1>13. ASSUME NEW k \in DOMAIN key
       PROVE  \E c \in Components : \E i \in DOMAIN a[c].questions :
                 key[k] = [kind |-> c, id |-> a[c].questions[i].id, answer |-> a[c].questions[i].answer]
  <2> DEFINE Asked(c, questions, i) ==
                key[k] = [kind |-> c, id |-> questions[i].id, answer |-> questions[i].answer]
  <2>1. \/ Placed(key, "worksheet", w, 0, k)
        \/ Placed(key, "quiz", z, Len(w), k)
        \/ Placed(key, "homework", h, Len(w) + Len(z), k)
    BY <1>1, <1>4, KeyEntries
  <2>2. CASE Placed(key, "worksheet", w, 0, k)
    <3>1. \E i \in DOMAIN w : Asked("worksheet", w, i)
      BY <1>7, <2>2 DEF Placed
    <3> QED
      BY <1>5, <3>1 DEF Components
  <2>3. CASE Placed(key, "quiz", z, Len(w), k)
    <3>1. \E i \in DOMAIN z : Asked("quiz", z, i)
      BY <1>7, <2>3 DEF Placed
    <3> QED
      BY <1>5, <3>1 DEF Components
  <2>4. CASE Placed(key, "homework", h, Len(w) + Len(z), k)
    <3>1. \E i \in DOMAIN h : Asked("homework", h, i)
      BY <1>7, <2>4 DEF Placed
    <3> QED
      BY <1>5, <3>1 DEF Components
  <2> QED
    BY <2>1, <2>2, <2>3, <2>4
<1>14. ASSUME NEW c \in Components, NEW i \in DOMAIN a[c].questions
       PROVE  \E k \in DOMAIN key : key[k].kind = c /\ key[k].id = a[c].questions[i].id
  <2>1. CASE c = "worksheet"
    <3>1. i \in 1 .. Len(w) /\ a[c].questions = w
      BY <1>5, <1>7, <1>14, <2>1
    <3>2. i \in DOMAIN key
      <4>1. i \in 1 .. Len(w) + Len(z) + Len(h)
        BY <1>6, <3>1
      <4> QED
        BY <1>4, <4>1 DEF LaidOut
    <3>3. key[i] = [kind |-> "worksheet", id |-> w[i].id, answer |-> w[i].answer]
      BY <1>4, <3>1 DEF LaidOut
    <3> QED
      BY <2>1, <3>1, <3>2, <3>3
  <2>2. CASE c = "quiz"
    <3>1. i \in 1 .. Len(z) /\ a[c].questions = z
      BY <1>5, <1>7, <1>14, <2>2
    <3>2. Len(w) + i \in DOMAIN key
      <4>1. Len(w) + i \in 1 .. Len(w) + Len(z) + Len(h)
        BY <1>6, <3>1
      <4> QED
        BY <1>4, <4>1 DEF LaidOut
    <3>3. key[Len(w) + i] = [kind |-> "quiz", id |-> z[i].id, answer |-> z[i].answer]
      BY <1>4, <3>1 DEF LaidOut
    <3> QED
      BY <2>2, <3>1, <3>2, <3>3
  <2>3. CASE c = "homework"
    <3>1. i \in 1 .. Len(h) /\ a[c].questions = h
      BY <1>5, <1>7, <1>14, <2>3
    <3>2. Len(w) + Len(z) + i \in DOMAIN key
      <4>1. Len(w) + Len(z) + i \in 1 .. Len(w) + Len(z) + Len(h)
        BY <1>6, <3>1
      <4> QED
        BY <1>4, <4>1 DEF LaidOut
    <3>3. key[Len(w) + Len(z) + i] = [kind |-> "homework", id |-> h[i].id, answer |-> h[i].answer]
      BY <1>4, <3>1 DEF LaidOut
    <3> QED
      BY <2>3, <3>1, <3>2, <3>3
  <2> QED
    BY <2>1, <2>2, <2>3 DEF Components
<1>15. KeyComplete(a)
  <2> DEFINE refs(c) == {<<c, a[c].questions[i].id>> : i \in DOMAIN a[c].questions}
             all == UNION {refs(c) : c \in Components}
  <2>1. ASSUME NEW ref \in Range(KeyRefs(a)) PROVE ref \in all
    <3>1. PICK k \in DOMAIN key : ref = <<key[k].kind, key[k].id>>
      BY <1>11 DEF Range
    <3>2. PICK c \in Components : \E i \in DOMAIN a[c].questions :
             key[k] = [kind |-> c, id |-> a[c].questions[i].id, answer |-> a[c].questions[i].answer]
      BY <1>13
    <3>3. PICK i \in DOMAIN a[c].questions : key[k].kind = c /\ key[k].id = a[c].questions[i].id
      BY <3>2
    <3>4. ref \in refs(c)
      BY <3>1, <3>3
    <3> QED
      BY <3>4
  <2>2. ASSUME NEW ref \in all PROVE ref \in Range(KeyRefs(a))
    <3>1. PICK c \in Components : ref \in refs(c)
      OBVIOUS
    <3>2. PICK i \in DOMAIN a[c].questions : ref = <<c, a[c].questions[i].id>>
      BY <3>1
    <3>3. PICK k \in DOMAIN key : key[k].kind = c /\ key[k].id = a[c].questions[i].id
      BY <1>14
    <3> QED
      BY <1>11, <3>2, <3>3 DEF Range
  <2>3. Range(KeyRefs(a)) = all
    BY <2>1, <2>2
  <2>4. Len(a.key) = Len(a.worksheet.questions) + Len(a.quiz.questions) + Len(a.homework.questions)
    BY <1>4, <1>5 DEF LaidOut, key
  <2> QED
    BY <2>3, <2>4 DEF KeyComplete
<1>16. KeyAgrees(a)
  <2> SUFFICES ASSUME NEW k \in DOMAIN key
               PROVE  \E j \in DOMAIN a[key[k].kind].questions :
                        /\ a[key[k].kind].questions[j].id = key[k].id
                        /\ a[key[k].kind].questions[j].answer = key[k].answer
    BY DEF KeyAgrees, key
  <2> QED
    BY <1>13
<1>17. WorksheetQuality(a.worksheet) /\ ~a.claim
  BY <1>3 DEF w
<1> QED
  BY <1>8, <1>9, <1>10, <1>12, <1>15, <1>16, <1>17 DEF Quality, a

\* The verdict on a kit is right both ways: what passes gives every question its
\* one answer, and what is refused the model got wrong.
THEOREM VerdictsRight == Spec => []VerdictsAreRight
<1>1. IInv => VerdictsAreRight
  <2> SUFFICES ASSUME IInv, NEW q \in Requests, jobs[q].draft # 0
               PROVE  LET kit == Offered[jobs[q].draft]
                      IN IF At(q, "failing")
                         THEN \/ ~Buildable(kit) \/ kit.claim
                              \/ ~WorksheetQuality([objectives |-> kit.objectives,
                                                    questions |-> kit.worksheet])
                         ELSE Coherent(Build(kit))
    BY DEF VerdictsAreRight
  <2> DEFINE kit == Offered[jobs[q].draft]
  <2>1. jobs[q].draft \in DOMAIN Offered
    BY DEF IInv, TypeOK, Job
  <2>2. kit \in Kit
    BY <2>1, PreparationAssumption
  <2>3. Passes(kit) <=> ~At(q, "failing")
    BY DEF IInv, JobsSound, Sound, DraftSound, At
  <2> HIDE DEF kit
  <2>4. ASSUME ~At(q, "failing") PROVE Coherent(Build(kit))
    BY <2>3, <2>4, QualityIsCoherent DEF Passes
  <2>5. ASSUME At(q, "failing"), Buildable(kit), ~kit.claim,
               WorksheetQuality([objectives |-> kit.objectives, questions |-> kit.worksheet])
        PROVE  FALSE
    BY <2>2, <2>3, <2>5, BuildPasses DEF Passes
  <2> QED
    BY <2>4, <2>5 DEF kit
<1> QED
  BY <1>1, Invariance, PTL
=============================================================================

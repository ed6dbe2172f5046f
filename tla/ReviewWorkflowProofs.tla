------------------------ MODULE ReviewWorkflowProofs ------------------------
(***************************************************************************)
(* Proofs about ReviewWorkflow for every number of cycles, dispatchers,    *)
(* attempts, crashes and slips.  An owner that comes back late is harmless *)
(* since what it has learned of an execution does not come undone, and     *)
(* since what it writes is fenced.                                         *)
(***************************************************************************)
EXTENDS ReviewWorkflow, TLAPS

\* What a process knows at each point of its way through dispatch_once.
JobSound(j) == j.pc # "idle" =>
    /\ j.cycle \in Cycles /\ intents[j.kind][j.cycle].status # "ABSENT"
    /\ j.kind = "command" => intents["start"][j.cycle].status = "DELIVERED"
    /\ j.pc \in {"starting", "reconciling"} => j.kind = "start"
    /\ j.pc \in {"describing", "signalling", "awaiting"} => j.kind = "command"
    /\ j.pc = "starting" /\ j.reply # "none" => server[j.cycle].state # "none"
    /\ j.pc = "reconciling" => server[j.cycle].state # "none"
    /\ j.pc = "signalling" /\ j.reply \notin {"none", "ok"} => Closed(j.cycle)
    /\ j.pc = "delivered" => IF j.kind = "start" THEN server[j.cycle].state # "none"
                             ELSE server[j.cycle].state = "completed"
    /\ j.pc = "mismatch" => j.kind = "command" /\ server[j.cycle].state = "canceled"
    /\ j.pc = "not_found" => j.kind = "command" /\ Closed(j.cycle)

\* What a call on its way to Temporal stands for.
CallSound(call) == /\ intents[call.kind][call.cycle].status # "ABSENT"
                   /\ call.kind = "command" => intents["start"][call.cycle].status = "DELIVERED"

\* A first task in conflict comes again with the same signals: the workflow is
\* never ready.
ExecutionSound(e) == /\ e.conflict => ~e.ready /\ e.inbox > 0
                     /\ e.decided => e.ready
                     /\ e.state = "completed" => e.decided

JobsSound == \A p \in Procs : JobSound(work[p])
CallsSound == \A call \in calls : CallSound(call)
ExecutionsSound == \A c \in Cycles : ExecutionSound(server[c])

IInv == /\ TypeOK /\ JobsSound /\ CallsSound /\ ExecutionsSound
        /\ ReportsAreTrue /\ QuarantineJustified
-----------------------------------------------------------------------------
(* What a step does to the intents. *)

Claims(row) == row.status = "CLAIMED" <=> row.owner # NoProc

\* One intent changes.
SetRow(k, c, row) == /\ intents' \in [Kinds -> [Cycles -> Row]] /\ intents'[k][c] = row
                     /\ \A k2 \in Kinds, c2 \in Cycles :
                           k2 # k \/ c2 # c => intents'[k2][c2] = intents[k2][c2]

LEMMA Update ==
  ASSUME TypeOK, NEW k \in Kinds, NEW c \in Cycles, NEW row \in Row,
         intents' = [intents EXCEPT ![k][c] = row]
  PROVE  SetRow(k, c, row)
  BY DEF TypeOK, SetRow

\* How an intent moves: recorded, claimed or released; delivered by a process
\* that has seen it done; given up by one that has seen why.
Moves(k, c, new) ==
    LET old == intents[k][c] IN
    /\ old.status \in {"ABSENT", "PENDING", "CLAIMED"}
    /\ \/ old.status = "ABSENT" /\ new.status = "PENDING"
       \/ old.status # "ABSENT" /\ new.status \in {"PENDING", "CLAIMED"}
       \/ /\ old.status = "CLAIMED" /\ new.status = "DELIVERED"
          /\ \E p \in Procs : /\ work[p].pc = "delivered"
                              /\ work[p].kind = k /\ work[p].cycle = c
       \/ /\ old.status = "CLAIMED" /\ new.status = "QUARANTINED"
          /\ \E p \in Procs :
                /\ work[p].kind = k /\ work[p].cycle = c
                /\ \/ new.error = "exhausted" /\ new.attempts >= MaxAttempts
                   \/ new.error = work[p].pc /\ new.error \in {"not_found", "mismatch"}

RowStep(k, c) == \E row \in Row : SetRow(k, c, row) /\ Claims(row) /\ Moves(k, c, row)

LEMMA InsertRow ==
  ASSUME TypeOK, NEW k \in Kinds, NEW c \in Cycles, Insert(k, c)
  PROVE  RowStep(k, c)
<1> DEFINE row == [intents[k][c] EXCEPT !.status = "PENDING", !.due = TRUE]
<1>1. intents[k][c] \in Row /\ Claims(intents[k][c])
  BY DEF TypeOK, Claims
<1>2. intents[k][c].status = "ABSENT"
  BY DEF Insert
<1>3. row \in Row /\ row.status = "PENDING" /\ row.owner = NoProc
  BY <1>1, <1>2 DEF Row, Claims
<1>4. intents' = [intents EXCEPT ![k][c] = row]
  BY DEF Insert, TypeOK
<1> HIDE DEF row
<1>5. SetRow(k, c, row)
  BY <1>4, <1>3, Update
<1> QED
  BY <1>2, <1>3, <1>4, <1>5 DEF RowStep, Claims, Moves

LEMMA DueRow ==
  ASSUME TypeOK, NEW k \in Kinds, NEW c \in Cycles, BecomeDue(k, c)
  PROVE  RowStep(k, c)
<1> DEFINE row == [intents[k][c] EXCEPT !.due = TRUE]
<1>1. intents[k][c] \in Row /\ Claims(intents[k][c]) /\ intents[k][c].status = "PENDING"
  BY DEF TypeOK, Claims, BecomeDue
<1>2. row \in Row /\ row.status = "PENDING" /\ row.owner = NoProc
  BY <1>1 DEF Row, Claims
<1>3. intents' = [intents EXCEPT ![k][c] = row]
  BY DEF BecomeDue, TypeOK
<1> HIDE DEF row
<1>4. SetRow(k, c, row)
  BY <1>3, <1>2, Update
<1> QED
  BY <1>1, <1>2, <1>3, <1>4 DEF RowStep, Claims, Moves

LEMMA ExpireRow ==
  ASSUME TypeOK, NEW k \in Kinds, NEW c \in Cycles, LeaseExpires(k, c)
  PROVE  RowStep(k, c)
<1> DEFINE row == [intents[k][c] EXCEPT !.expired = TRUE]
<1>1. intents[k][c] \in Row /\ Claims(intents[k][c]) /\ intents[k][c].status = "CLAIMED"
  BY DEF TypeOK, Claims, LeaseExpires
<1>2. row \in Row /\ row.status = "CLAIMED" /\ row.owner # NoProc
  BY <1>1 DEF Row, Claims
<1>3. intents' = [intents EXCEPT ![k][c] = row]
  BY DEF LeaseExpires, TypeOK
<1> HIDE DEF row
<1>4. SetRow(k, c, row)
  BY <1>3, <1>2, Update
<1> QED
  BY <1>1, <1>2, <1>3, <1>4 DEF RowStep, Claims, Moves

LEMMA ClaimRow ==
  ASSUME TypeOK, NEW p \in Procs, NEW k \in Kinds, NEW c \in Cycles, Claim(p, k, c)
  PROVE  /\ RowStep(k, c) /\ intents'[k][c].status = "CLAIMED"
         /\ k = "command" => intents["start"][c].status = "DELIVERED"
         /\ intents[k][c].attempts + 1 \in Nat
<1> DEFINE row == [status |-> "CLAIMED", attempts |-> intents[k][c].attempts + 1,
                   due |-> intents[k][c].due, owner |-> p, expired |-> FALSE,
                   error |-> intents[k][c].error]
<1>1. intents[k][c] \in Row /\ intents[k][c].status \in {"PENDING", "CLAIMED"}
  BY DEF TypeOK, Claim, Claimable
<1>2. row \in Row /\ row.status = "CLAIMED" /\ row.owner # NoProc
  BY <1>1, ReviewAssumption DEF Row
<1>3. intents' = [intents EXCEPT ![k][c] = row]
  BY DEF Claim
<1>4. intents[k][c].attempts + 1 \in Nat
  BY <1>1 DEF Row
<1>5. k = "command" => intents["start"][c].status = "DELIVERED"
  BY DEF Claim, Claimable
<1> HIDE DEF row
<1>6. SetRow(k, c, row)
  BY <1>3, <1>2, Update
<1> QED
  BY <1>1, <1>2, <1>3, <1>4, <1>5, <1>6 DEF SetRow, RowStep, Claims, Moves

\* Behind the fence a finalization moves the claimed intent, else nothing.
LEMMA FinalizeRow ==
  ASSUME TypeOK, JobsSound, NEW p \in Procs, work[p].pc # "idle",
         NEW status \in {"PENDING", "DELIVERED", "QUARANTINED"}, NEW error \in Errors,
         Finalize(p, status, error)
  PROVE  \/ intents' = intents
         \/ LET k == work[p].kind  c == work[p].cycle IN
            /\ k \in Kinds /\ c \in Cycles
            /\ intents[k][c].status = "CLAIMED"
            /\ \E row \in Row : /\ SetRow(k, c, row) /\ Claims(row)
                               /\ row.status = status /\ row.error = error
                               /\ row.attempts = work[p].attempt
<1> DEFINE k == work[p].kind
           c == work[p].cycle
           row == [status |-> status, attempts |-> intents[k][c].attempts, due |-> FALSE,
                   owner |-> NoProc, expired |-> FALSE, error |-> error]
<1>1. CASE ~Fence(p)
  BY <1>1 DEF Finalize
<1>2. CASE Fence(p)
  <2>1. k \in Kinds /\ c \in Cycles
    BY DEF TypeOK, Job, JobsSound, JobSound
  <2>2. /\ intents[k][c] \in Row /\ intents[k][c].status = "CLAIMED"
        /\ intents[k][c].attempts = work[p].attempt
    BY <1>2, <2>1 DEF TypeOK, Fence
  <2>3. row \in Row /\ row.status = status /\ row.error = error /\ row.owner = NoProc
    BY <2>2 DEF Row
  <2>4. row.attempts = work[p].attempt
    BY <2>2
  <2>5. intents' = [intents EXCEPT ![k][c] = row]
    BY <1>2 DEF Finalize
  <2>6. SetRow(k, c, row)
    BY <2>1, <2>3, <2>5, Update
  <2> HIDE DEF row, k, c
  <2> QED
    BY <2>1, <2>2, <2>3, <2>4, <2>6 DEF Claims, k, c
<1> QED
  BY <1>1, <1>2

\* Of all steps: one intent moves, or none.
LEMMA RowSteps ==
  ASSUME TypeOK, JobsSound, [Next]_vars
  PROVE  intents' = intents \/ \E k \in Kinds, c \in Cycles : RowStep(k, c)
<1>1. ASSUME NEW c \in Cycles, SubmitForReview(c) \/ RecordDecision(c)
      PROVE  \E k \in Kinds : RowStep(k, c)
  <2>1. "start" \in Kinds /\ "command" \in Kinds
    BY DEF Kinds
  <2> QED
    BY <1>1, <2>1, InsertRow DEF SubmitForReview, RecordDecision
<1>2. ASSUME NEW k \in Kinds, NEW c \in Cycles, Elapse(k, c) PROVE RowStep(k, c)
  BY <1>2, DueRow, ExpireRow DEF Elapse
<1>3. ASSUME NEW p \in Procs, NEW k \in Kinds, NEW c \in Cycles, Claim(p, k, c)
      PROVE  RowStep(k, c)
  BY <1>3, ClaimRow
<1>4. ASSUME NEW p \in Procs, MarkDelivered(p)
      PROVE  intents' = intents \/ \E k \in Kinds, c \in Cycles : RowStep(k, c)
  <2>1. work[p].pc = "delivered" /\ Finalize(p, "DELIVERED", "none") /\ "none" \in Errors
    BY <1>4 DEF MarkDelivered, At, Errors
  <2>2. \/ intents' = intents
        \/ LET k == work[p].kind  c == work[p].cycle IN
           /\ k \in Kinds /\ c \in Cycles /\ intents[k][c].status = "CLAIMED"
           /\ \E row \in Row : /\ SetRow(k, c, row) /\ Claims(row)
                              /\ row.status = "DELIVERED"
    BY <2>1, FinalizeRow
  <2> QED
    BY <2>1, <2>2 DEF RowStep, Moves
<1>5. ASSUME NEW p \in Procs, ReleaseForRetry(p)
      PROVE  intents' = intents \/ \E k \in Kinds, c \in Cycles : RowStep(k, c)
  <2>0. ASSUME NEW status \in {"PENDING", "QUARANTINED"}, NEW error \in Errors,
               work[p].pc # "idle", Finalize(p, status, error),
               status = "QUARANTINED" =>
                  \/ error = "exhausted" /\ work[p].attempt >= MaxAttempts
                  \/ error = work[p].pc /\ error \in {"not_found", "mismatch"}
        PROVE  intents' = intents \/ \E k \in Kinds, c \in Cycles : RowStep(k, c)
    <3>1. SUFFICES ASSUME intents' # intents
                   PROVE  \E k \in Kinds, c \in Cycles : RowStep(k, c)
      OBVIOUS
    <3> DEFINE k == work[p].kind
               c == work[p].cycle
    <3>2. /\ k \in Kinds /\ c \in Cycles /\ intents[k][c].status = "CLAIMED"
          /\ \E row \in Row : /\ SetRow(k, c, row) /\ Claims(row)
                             /\ row.status = status /\ row.error = error
                             /\ row.attempts = work[p].attempt
      BY <2>0, <3>1, FinalizeRow
    <3>3. PICK row \in Row : /\ SetRow(k, c, row) /\ Claims(row)
                             /\ row.status = status /\ row.error = error
                             /\ row.attempts = work[p].attempt
      BY <3>2
    <3>4. work[p].kind = k /\ work[p].cycle = c
      OBVIOUS
    <3> HIDE DEF k, c
    <3>5. Moves(k, c, row)
      BY <2>0, <3>2, <3>3, <3>4 DEF Moves
    <3> QED
      BY <3>2, <3>3, <3>5 DEF RowStep
  <2>1. CASE work[p].pc = "unavailable" /\ ~Exhausted(p) /\ Finalize(p, "PENDING", "none")
    BY <2>0, <2>1 DEF Errors
  <2>2. CASE /\ work[p].pc = "unavailable" /\ Exhausted(p)
             /\ Finalize(p, "QUARANTINED", "exhausted")
    BY <2>0, <2>2 DEF Errors, Exhausted
  <2>3. CASE /\ work[p].pc \in {"not_found", "mismatch"}
             /\ Finalize(p, "QUARANTINED", work[p].pc)
    BY <2>0, <2>3 DEF Errors
  <2> QED
    BY <1>5, <2>1, <2>2, <2>3 DEF ReleaseForRetry, At
<1>6. CASE UNCHANGED vars
  BY <1>6 DEF vars
<1>7. ASSUME NEW c \in Cycles, FirstTask(c) \/ HandleSignal(c) \/ Complete(c) \/ Cancel(c)
      PROVE  intents' = intents
  BY <1>7 DEF FirstTask, HandleSignal, Complete, Cancel
<1>8. ASSUME NEW p \in Procs,
             \/ StartReturns(p) \/ ReconcileStart(p) \/ Describe(p) \/ SignalReturns(p)
             \/ ResultReturns(p) \/ GiveUp(p) \/ Crash(p)
      PROVE  intents' = intents
  BY <1>8 DEF StartReturns, ReconcileStart, Describe, SignalReturns, ResultReturns, GiveUp, Crash
<1>9. ASSUME NEW call \in calls, ServerStarts(call) \/ ServerSignals(call) \/ CallLost(call)
      PROVE  intents' = intents
  BY <1>9 DEF ServerStarts, ServerSignals, CallLost
<1> QED
  BY <1>1, <1>2, <1>3, <1>4, <1>5, <1>6, <1>7, <1>8, <1>9 DEF Next, Dispatch
-----------------------------------------------------------------------------
(* What a step does to the executions and to the processes. *)

\* An execution changes: it is started, gets a signal or a task, or closes.
ExecutionMoves(c, new) ==
    LET old == server[c] IN
    /\ ExecutionSound(old) => ExecutionSound(new)
    /\ old.decided => new.decided
    /\ \/ /\ old.state = "none" /\ new.state = "running"
          /\ new.inbox = old.inbox /\ new.decided = old.decided
          /\ \E call \in calls : call.kind = "start" /\ call.cycle = c
       \/ /\ old.state = "running" /\ new.state # "none"
          /\ \/ new.inbox = old.inbox /\ new.decided = old.decided
             \/ \E call \in calls : call.kind = "command" /\ call.cycle = c
             \/ old.inbox > 0

SetExecution(c, e) == /\ server' \in [Cycles -> Execution] /\ server'[c] = e
                      /\ \A x \in Cycles \ {c} : server'[x] = server[x]

\* Executions change only at Temporal.
LEMMA ServerActs ==
  ASSUME [Next]_vars
  PROVE  \/ server' = server
         \/ \E c \in Cycles : FirstTask(c) \/ HandleSignal(c) \/ Complete(c) \/ Cancel(c)
         \/ \E call \in calls : ServerStarts(call) /\ server[call.cycle].state = "none"
         \/ \E call \in calls : ServerSignals(call) /\ server[call.cycle].state = "running"
<1>1. ASSUME NEW p \in Procs, Dispatch(p) \/ Crash(p) PROVE server' = server
  BY <1>1 DEF Dispatch, Claim, StartReturns, ReconcileStart, Describe, SignalReturns,
     ResultReturns, GiveUp, MarkDelivered, ReleaseForRetry, Finalize, Crash
<1>2. ASSUME NEW c \in Cycles, SubmitForReview(c) \/ RecordDecision(c) PROVE server' = server
  BY <1>2 DEF SubmitForReview, RecordDecision, Insert
<1>3. ASSUME NEW k \in Kinds, NEW c \in Cycles, Elapse(k, c) PROVE server' = server
  BY <1>3 DEF Elapse, BecomeDue, LeaseExpires
<1>4. ASSUME NEW call \in calls, ServerStarts(call) \/ ServerSignals(call) \/ CallLost(call)
      PROVE  \/ server' = server
             \/ ServerStarts(call) /\ server[call.cycle].state = "none"
             \/ ServerSignals(call) /\ server[call.cycle].state = "running"
  BY <1>4 DEF ServerStarts, ServerSignals, CallLost
<1>5. CASE UNCHANGED vars
  BY <1>5 DEF vars
<1> QED
  BY <1>1, <1>2, <1>3, <1>4, <1>5 DEF Next

LEMMA ServerSteps ==
  ASSUME TypeOK, [Next]_vars
  PROVE  \/ server' = server
         \/ \E c \in Cycles, e \in Execution : SetExecution(c, e) /\ ExecutionMoves(c, e)
<1>1. ASSUME NEW c \in Cycles, NEW e \in Execution, server' = [server EXCEPT ![c] = e]
      PROVE  SetExecution(c, e)
  BY <1>1 DEF TypeOK, SetExecution
<1>2. \A c \in Cycles : server[c] \in Execution
  BY DEF TypeOK
<1>3. ASSUME NEW c \in Cycles, FirstTask(c)
      PROVE  \E e \in Execution : SetExecution(c, e) /\ ExecutionMoves(c, e)
  <2>1. CASE server[c].inbox = 0
    <3> DEFINE e == [server[c] EXCEPT !.ready = TRUE]
    <3>1. server' = [server EXCEPT ![c] = e] /\ server[c].state = "running"
      BY <1>3, <2>1 DEF FirstTask, TypeOK
    <3>2. /\ e \in Execution /\ e.state = "running" /\ e.inbox = 0
          /\ e.decided = server[c].decided /\ e.conflict = server[c].conflict
          /\ e.ready
      BY <1>2, <2>1, <3>1 DEF Execution
    <3> HIDE DEF e
    <3>3. ExecutionMoves(c, e)
      BY <2>1, <3>1, <3>2 DEF ExecutionMoves, ExecutionSound
    <3> QED
      BY <1>1, <3>1, <3>2, <3>3
  <2>2. CASE server[c].inbox # 0
    <3> DEFINE e == [server[c] EXCEPT !.conflict = TRUE]
    <3>1. server' = [server EXCEPT ![c] = e] /\ server[c].state = "running" /\ ~server[c].ready
      BY <1>3, <2>2 DEF FirstTask, TypeOK
    <3>2. /\ e \in Execution /\ e.state = "running" /\ e.inbox = server[c].inbox
          /\ e.decided = server[c].decided /\ e.ready = server[c].ready
      BY <1>2, <3>1 DEF Execution
    <3>3. e.inbox > 0
      BY <1>2, <2>2, <3>2 DEF Execution
    <3> HIDE DEF e
    <3>4. ExecutionMoves(c, e)
      BY <3>1, <3>2, <3>3 DEF ExecutionMoves, ExecutionSound
    <3> QED
      BY <1>1, <3>1, <3>2, <3>4
  <2> QED
    BY <2>1, <2>2
<1>4. ASSUME NEW c \in Cycles, HandleSignal(c)
      PROVE  \E e \in Execution : SetExecution(c, e) /\ ExecutionMoves(c, e)
  <2> DEFINE e == [server[c] EXCEPT !.inbox = @ - 1, !.decided = TRUE]
  <2>1. server' = [server EXCEPT ![c] = e]
    BY <1>4 DEF HandleSignal, TypeOK
  <2>2. server[c].state = "running" /\ server[c].ready /\ server[c].inbox > 0
    BY <1>4 DEF HandleSignal
  <2>3. e \in Execution /\ ExecutionMoves(c, e)
    <3>1. e \in Execution
      <4>1. server[c] \in Execution /\ server[c].inbox - 1 \in Nat
        BY <1>2, <2>2 DEF Execution
      <4> QED
        BY <4>1 DEF Execution
    <3>2. e.decided /\ e.ready /\ e.state = "running" /\ e.conflict = server[c].conflict
      BY <1>2, <2>2 DEF Execution
    <3> HIDE DEF e
    <3> QED
      BY <2>2, <3>1, <3>2 DEF ExecutionMoves, ExecutionSound
  <2> QED
    BY <1>1, <2>1, <2>3
<1>5. ASSUME NEW c \in Cycles, NEW state \in {"completed", "canceled"},
             server' = [server EXCEPT ![c].state = state], server[c].state = "running",
             state = "completed" => server[c].decided
      PROVE  \E e \in Execution : SetExecution(c, e) /\ ExecutionMoves(c, e)
  <2> DEFINE e == [server[c] EXCEPT !.state = state]
  <2>1. server' = [server EXCEPT ![c] = e]
    BY <1>5 DEF TypeOK
  <2>2. e \in Execution /\ ExecutionMoves(c, e)
    BY <1>2, <1>5 DEF Execution, ExecutionMoves, ExecutionSound
  <2> QED
    BY <1>1, <2>1, <2>2
<1>6. ASSUME NEW call \in calls, ServerStarts(call), server[call.cycle].state = "none"
      PROVE  \E c \in Cycles, e \in Execution : SetExecution(c, e) /\ ExecutionMoves(c, e)
  <2> DEFINE c == call.cycle
             e == [server[c] EXCEPT !.state = "running"]
  <2>1. c \in Cycles /\ call.kind = "start"
    BY <1>6 DEF TypeOK, Call, ServerStarts
  <2>2. server' = [server EXCEPT ![c] = e]
    BY <1>6 DEF ServerStarts, TypeOK
  <2>3. e \in Execution /\ ExecutionMoves(c, e)
    BY <1>2, <1>6, <2>1 DEF Execution, ExecutionMoves, ExecutionSound
  <2> QED
    BY <1>1, <2>1, <2>2, <2>3
<1>7. ASSUME NEW call \in calls, ServerSignals(call), server[call.cycle].state = "running"
      PROVE  \E c \in Cycles, e \in Execution : SetExecution(c, e) /\ ExecutionMoves(c, e)
  <2> DEFINE c == call.cycle
             e == [server[c] EXCEPT !.inbox = @ + 1]
  <2>1. c \in Cycles /\ call.kind = "command"
    BY <1>7 DEF TypeOK, Call, ServerSignals
  <2>2. server' = [server EXCEPT ![c] = e]
    BY <1>7 DEF ServerSignals, TypeOK
  <2>3. e \in Execution /\ ExecutionMoves(c, e)
    BY <1>2, <1>7, <2>1 DEF Execution, ExecutionMoves, ExecutionSound
  <2> QED
    BY <1>1, <2>1, <2>2, <2>3
<1> QED
  BY <1>3, <1>4, <1>5, <1>6, <1>7, ServerActs DEF Complete, Cancel

\* What can be relied on from one step to the next: recorded intents stay so,
\* settled ones are final, executions do not come undone.
Stable ==
    /\ \A k \in Kinds, c \in Cycles :
          /\ intents[k][c].status # "ABSENT" => intents'[k][c].status # "ABSENT"
          /\ intents[k][c].status \in {"DELIVERED", "QUARANTINED"} =>
                intents'[k][c] = intents[k][c]
    /\ \A c \in Cycles :
          /\ server[c].state # "none" => server'[c].state # "none"
          /\ server[c].state \in {"completed", "canceled"} => server'[c].state = server[c].state
          /\ server[c].decided => server'[c].decided

LEMMA StableStep == ASSUME TypeOK, JobsSound, [Next]_vars PROVE Stable
<1>1. ASSUME NEW k \in Kinds, NEW c \in Cycles
      PROVE  /\ intents[k][c].status # "ABSENT" => intents'[k][c].status # "ABSENT"
             /\ intents[k][c].status \in {"DELIVERED", "QUARANTINED"} =>
                   intents'[k][c] = intents[k][c]
  <2>1. ASSUME NEW k2 \in Kinds, NEW c2 \in Cycles, NEW row \in Row,
               SetRow(k2, c2, row), Moves(k2, c2, row)
        PROVE  /\ intents[k][c].status # "ABSENT" => intents'[k][c].status # "ABSENT"
               /\ intents[k][c].status \in {"DELIVERED", "QUARANTINED"} =>
                     intents'[k][c] = intents[k][c]
    BY <2>1 DEF SetRow, Moves
  <2> QED
    BY <2>1, RowSteps DEF RowStep
<1>2. ASSUME NEW c \in Cycles
      PROVE  /\ server[c].state # "none" => server'[c].state # "none"
             /\ server[c].state \in {"completed", "canceled"} => server'[c].state = server[c].state
             /\ server[c].decided => server'[c].decided
  <2>1. ASSUME NEW x \in Cycles, NEW e \in Execution, SetExecution(x, e), ExecutionMoves(x, e)
        PROVE  /\ server[c].state # "none" => server'[c].state # "none"
               /\ server[c].state \in {"completed", "canceled"} => server'[c].state = server[c].state
               /\ server[c].decided => server'[c].decided
    BY <2>1 DEF SetExecution, ExecutionMoves
  <2> QED
    BY <2>1, ServerSteps
<1> QED
  BY <1>1, <1>2 DEF Stable

SetJob(p, j) == /\ work' \in [Procs -> Job] /\ work'[p] = j
                /\ \A q \in Procs \ {p} : work'[q] = work[q]

LEMMA UpdateJob ==
  ASSUME TypeOK, NEW p \in Procs, NEW j \in Job, work' = [work EXCEPT ![p] = j]
  PROVE  SetJob(p, j)
  BY DEF TypeOK, SetJob

LEMMA IdleJob == Idle \in Job /\ Idle.pc = "idle"
  BY DEF Idle, Job, Kinds

\* A process goes on with the same intent.
LEMMA GoJob ==
  ASSUME TypeOK, NEW p \in Procs, NEW pc \in Waiting \cup Verdicts, Go(p, pc)
  PROVE  \E j \in Job : /\ SetJob(p, j) /\ j.pc = pc /\ j.reply = "none"
                        /\ j.kind = work[p].kind /\ j.cycle = work[p].cycle
<1> DEFINE j == [work[p] EXCEPT !.pc = pc, !.reply = "none"]
<1>1. /\ j \in Job /\ j.pc = pc /\ j.reply = "none"
      /\ j.kind = work[p].kind /\ j.cycle = work[p].cycle
  BY DEF TypeOK, Job
<1>2. work' = [work EXCEPT ![p] = j]
  BY DEF Go, TypeOK
<1> HIDE DEF j
<1> QED
  BY <1>1, <1>2, UpdateJob

\* What a process concludes is so: of its steps, each verdict is justified.
LEMMA GoSound ==
  ASSUME TypeOK, JobsSound, ReportsAreTrue, NEW p \in Procs,
         \/ StartReturns(p) \/ ReconcileStart(p) \/ Describe(p)
         \/ SignalReturns(p) \/ ResultReturns(p) \/ GiveUp(p)
  PROVE  \E j \in Job : SetJob(p, j) /\ JobSound(j)'
<1>1. intents' = intents /\ server' = server /\ work[p].pc # "idle"
  BY DEF StartReturns, ReconcileStart, Describe, SignalReturns, ResultReturns, GiveUp, At,
         Waiting
<1>2. JobSound(work[p]) /\ work[p].cycle \in Cycles /\ work[p].kind \in Kinds
  BY <1>1 DEF JobsSound, JobSound, TypeOK, Job
<1>3. work[p].kind = "command" => server[work[p].cycle].state # "none"
  BY <1>1, <1>2 DEF JobSound, ReportsAreTrue
<1>4. ASSUME NEW pc \in Waiting \cup Verdicts, Go(p, pc), pc # "starting",
             pc = "reconciling" => /\ work[p].kind = "start"
                                   /\ server[work[p].cycle].state # "none",
             pc \in {"describing", "signalling", "awaiting"} => work[p].kind = "command",
             pc = "delivered" => IF work[p].kind = "start"
                                 THEN server[work[p].cycle].state # "none"
                                 ELSE server[work[p].cycle].state = "completed",
             pc = "mismatch" => /\ work[p].kind = "command"
                                /\ server[work[p].cycle].state = "canceled",
             pc = "not_found" => work[p].kind = "command" /\ Closed(work[p].cycle)
      PROVE  \E j \in Job : SetJob(p, j) /\ JobSound(j)'
  <2>1. PICK j \in Job : /\ SetJob(p, j) /\ j.pc = pc /\ j.reply = "none"
                         /\ j.kind = work[p].kind /\ j.cycle = work[p].cycle
    BY <1>4, GoJob
  <2>2. JobSound(j)'
    BY <1>1, <1>2, <1>4, <2>1 DEF JobSound, Closed
  <2> QED
    BY <2>1, <2>2
<1>5. CASE StartReturns(p)
  <2>1. /\ work[p].pc = "starting" /\ work[p].reply # "none"
        /\ Go(p, IF work[p].reply = "ok" THEN "delivered" ELSE "reconciling")
    BY <1>5 DEF StartReturns, At
  <2> QED
    BY <1>2, <1>4, <2>1 DEF JobSound, Waiting, Verdicts
<1>6. CASE ReconcileStart(p)
  <2>1. /\ work[p].pc = "reconciling"
        /\ Go(p, IF server[work[p].cycle].state = "none" THEN "not_found" ELSE "delivered")
    BY <1>6 DEF ReconcileStart, At, Execution_of
  <2> QED
    BY <1>2, <1>4, <2>1 DEF JobSound, Waiting, Verdicts
<1>7. CASE Describe(p)
  <2>1. work[p].pc = "describing" /\ work[p].kind = "command"
    BY <1>2, <1>7 DEF Describe, At, JobSound
  <2>2. server[work[p].cycle].state # "none"
    BY <1>3, <2>1
  <2>3. Go(p, "signalling") \/ Go(p, "awaiting")
    BY <1>7, <2>2 DEF Describe, Execution_of
  <2> QED
    BY <1>4, <2>1, <2>3 DEF Waiting, Verdicts
<1>8. CASE SignalReturns(p)
  <2>1. /\ work[p].pc = "signalling" /\ work[p].reply # "none"
        /\ Go(p, IF work[p].reply = "ok" THEN "awaiting" ELSE "not_found")
    BY <1>8 DEF SignalReturns, At
  <2> QED
    BY <1>2, <1>4, <2>1 DEF JobSound, Waiting, Verdicts
<1>9. CASE ResultReturns(p)
  <2>1. /\ work[p].pc = "awaiting" /\ Closed(work[p].cycle)
        /\ Go(p, IF server[work[p].cycle].state = "completed" THEN "delivered" ELSE "mismatch")
    BY <1>9 DEF ResultReturns, At, Execution_of
  <2> QED
    BY <1>2, <1>4, <2>1 DEF JobSound, Closed, Waiting, Verdicts
<1>10. CASE GiveUp(p)
  BY <1>4, <1>10 DEF GiveUp, Waiting, Verdicts
<1> QED
  BY <1>5, <1>6, <1>7, <1>8, <1>9, <1>10

\* A reply says something only to the job whose call was answered.
LEMMA ReplySound ==
  ASSUME TypeOK, JobsSound, NEW call \in Call, NEW r \in {"ok", "exists", "closed"},
         intents' = intents, Stable, Reply(call, r),
         call.kind = "start" => server'[call.cycle].state # "none",
         call.kind = "command" /\ r # "ok" => Closed(call.cycle)'
  PROVE  work' = work \/ \E p \in Procs, j \in Job : SetJob(p, j) /\ JobSound(j)'
<1> DEFINE p == call.from
<1>1. p \in Procs /\ work[p] \in Job
  BY DEF TypeOK, Call
<1>2. CASE /\ work[p].pc \in {"starting", "signalling"}
           /\ work[p].kind = call.kind /\ work[p].cycle = call.cycle
           /\ work' = [work EXCEPT ![p].reply = r]
  <2>1. PICK j \in Job : /\ SetJob(p, j) /\ j.pc = work[p].pc /\ j.reply = r
                         /\ j.kind = call.kind /\ j.cycle = call.cycle
    <3> DEFINE new == [work[p] EXCEPT !.reply = r]
    <3>1. /\ new \in Job /\ new.pc = work[p].pc /\ new.reply = r
          /\ new.kind = call.kind /\ new.cycle = call.cycle
      BY <1>1, <1>2 DEF Job
    <3>2. work' = [work EXCEPT ![p] = new]
      BY <1>2 DEF TypeOK
    <3> HIDE DEF new
    <3> QED
      BY <1>1, <3>1, <3>2, UpdateJob
  <2>2. JobSound(work[p])
    BY <1>1 DEF JobsSound
  <2>3. JobSound(j)'
    BY <1>2, <2>1, <2>2 DEF JobSound, Closed
  <2> QED
    BY <1>1, <2>1, <2>3
<1> QED
  BY <1>2 DEF Reply

\* Of all steps: one process has a new job, which is sound, or none.
LEMMA JobSteps ==
  ASSUME TypeOK, JobsSound, CallsSound, ReportsAreTrue, [Next]_vars
  PROVE  work' = work \/ \E p \in Procs, j \in Job : SetJob(p, j) /\ JobSound(j)'
<1>1. Stable
  BY StableStep
<1>2. ASSUME NEW p \in Procs, NEW k \in Kinds, NEW c \in Cycles, Claim(p, k, c)
      PROVE  \E j \in Job : SetJob(p, j) /\ JobSound(j)'
  <2>1. /\ intents'[k][c].status = "CLAIMED" /\ intents[k][c].attempts + 1 \in Nat
        /\ k = "command" => intents["start"][c].status = "DELIVERED"
    BY <1>2, ClaimRow
  <2>2. k = "command" => intents'["start"][c].status = "DELIVERED"
    BY <1>1, <2>1 DEF Stable, Kinds
  <2>3. PICK j \in Job : /\ SetJob(p, j)
                         /\ j.pc = IF k = "start" THEN "starting" ELSE "describing"
                         /\ j.kind = k /\ j.cycle = c /\ j.reply = "none"
    <3> DEFINE new == [pc |-> IF k = "start" THEN "starting" ELSE "describing",
                       kind |-> k, cycle |-> c, attempt |-> intents[k][c].attempts + 1,
                       reply |-> "none"]
    <3>1. /\ new \in Job /\ new.pc = IF k = "start" THEN "starting" ELSE "describing"
          /\ new.kind = k /\ new.cycle = c /\ new.reply = "none"
      BY <2>1 DEF Job, Waiting
    <3>2. work' = [work EXCEPT ![p] = new]
      BY <1>2 DEF Claim
    <3> HIDE DEF new
    <3> QED
      BY <3>1, <3>2, UpdateJob
  <2>4. JobSound(j)'
    BY <2>1, <2>2, <2>3 DEF JobSound, Kinds
  <2> QED
    BY <2>3, <2>4
<1>3. ASSUME NEW p \in Procs, work' = [work EXCEPT ![p] = Idle]
      PROVE  \E j \in Job : SetJob(p, j) /\ JobSound(j)'
  <2>1. Idle \in Job /\ SetJob(p, Idle) /\ Idle.pc = "idle"
    BY <1>3, IdleJob, UpdateJob
  <2> QED
    BY <2>1 DEF JobSound
<1>4. ASSUME NEW p \in Procs, MarkDelivered(p) \/ ReleaseForRetry(p) \/ Crash(p)
      PROVE  work' = [work EXCEPT ![p] = Idle]
  BY <1>4 DEF MarkDelivered, ReleaseForRetry, Finalize, Crash
<1>5. ASSUME NEW call \in calls, ServerStarts(call)
      PROVE  work' = work \/ \E p \in Procs, j \in Job : SetJob(p, j) /\ JobSound(j)'
  <2>1. call \in Call /\ call.cycle \in Cycles /\ call.kind = "start" /\ intents' = intents
    BY <1>5 DEF TypeOK, Call, ServerStarts
  <2>2. server'[call.cycle].state # "none"
    BY <1>5, <2>1 DEF ServerStarts, TypeOK, Execution
  <2> QED
    BY <1>1, <1>5, <2>1, <2>2, ReplySound DEF ServerStarts
<1>6. ASSUME NEW call \in calls, ServerSignals(call)
      PROVE  work' = work \/ \E p \in Procs, j \in Job : SetJob(p, j) /\ JobSound(j)'
  <2>1. call \in Call /\ call.cycle \in Cycles /\ call.kind = "command" /\ intents' = intents
    BY <1>6 DEF TypeOK, Call, ServerSignals
  <2>2. server[call.cycle].state # "none" /\ server[call.cycle] \in Execution
    BY <2>1 DEF CallsSound, CallSound, ReportsAreTrue, TypeOK
  <2>3. CASE server[call.cycle].state = "running"
    BY <1>1, <1>6, <2>1, <2>3, ReplySound DEF ServerSignals
  <2>4. CASE server[call.cycle].state # "running"
    <3>1. Reply(call, "closed") /\ server' = server
      BY <1>6, <2>4 DEF ServerSignals
    <3>2. Closed(call.cycle)'
      BY <2>2, <2>4, <3>1 DEF Closed, Execution
    <3> QED
      BY <1>1, <2>1, <3>1, <3>2, ReplySound
  <2> QED
    BY <2>3, <2>4
<1>7. ASSUME work' # work
      PROVE  \/ \E p \in Procs : \/ \E k \in Kinds, c \in Cycles : Claim(p, k, c)
                                \/ StartReturns(p) \/ ReconcileStart(p) \/ Describe(p)
                                \/ SignalReturns(p) \/ ResultReturns(p) \/ GiveUp(p)
                                \/ MarkDelivered(p) \/ ReleaseForRetry(p) \/ Crash(p)
             \/ \E call \in calls : ServerStarts(call) \/ ServerSignals(call)
  BY <1>7 DEF Next, vars, SubmitForReview, RecordDecision, Insert, Elapse, BecomeDue, LeaseExpires,
     Dispatch, FirstTask, HandleSignal, Complete, Cancel, CallLost
<1> QED
  BY <1>2, <1>3, <1>4, <1>5, <1>6, <1>7, GoSound

\* The jobs of the others stay sound: what they know does not come undone.
LEMMA JobsStep ==
  ASSUME TypeOK, JobsSound, CallsSound, ReportsAreTrue, [Next]_vars
  PROVE  JobsSound' /\ work' \in [Procs -> Job]
<1>1. Stable
  BY StableStep
<1>2. ASSUME NEW p \in Procs, work'[p] = work[p] PROVE JobSound(work[p])'
  <2>1. JobSound(work[p]) /\ work[p] \in Job
    BY DEF JobsSound, TypeOK
  <2>2. "start" \in Kinds
    BY DEF Kinds
  <2>3. CASE work[p].pc = "idle"
    BY <1>2, <2>3 DEF JobSound
  <2>4. CASE work[p].pc # "idle"
    <3>1. work[p].kind \in Kinds /\ work[p].cycle \in Cycles
      BY <2>1, <2>4 DEF JobSound, Job
    <3> QED
      BY <1>1, <1>2, <2>1, <2>2, <3>1 DEF JobSound, Stable, Closed
  <2> QED
    BY <2>3, <2>4
<1>3. CASE work' = work
  BY <1>2, <1>3 DEF JobsSound, TypeOK
<1>4. ASSUME NEW p \in Procs, NEW j \in Job, SetJob(p, j), JobSound(j)'
      PROVE  JobsSound' /\ work' \in [Procs -> Job]
  <2>1. ASSUME NEW q \in Procs PROVE JobSound(work[q])'
    <3>1. CASE q = p
      BY <1>4, <3>1 DEF SetJob, JobSound
    <3>2. CASE q # p
      BY <1>2, <1>4, <3>2 DEF SetJob
    <3> QED
      BY <3>1, <3>2
  <2> QED
    BY <1>4, <2>1 DEF SetJob, JobsSound
<1> QED
  BY <1>3, <1>4, JobSteps
-----------------------------------------------------------------------------
(* The inductive invariant, conjunct by conjunct. *)

LEMMA RowChange ==
  ASSUME TypeOK, JobsSound, [Next]_vars, NEW k \in Kinds, NEW c \in Cycles
  PROVE  /\ intents' \in [Kinds -> [Cycles -> Row]]
         /\ \/ intents'[k][c] = intents[k][c]
            \/ Moves(k, c, intents'[k][c]) /\ Claims(intents'[k][c])
<1>1. CASE intents' = intents
  BY <1>1 DEF TypeOK
<1>2. ASSUME NEW k2 \in Kinds, NEW c2 \in Cycles, NEW row \in Row, SetRow(k2, c2, row),
             Claims(row), Moves(k2, c2, row)
      PROVE  /\ intents' \in [Kinds -> [Cycles -> Row]]
             /\ \/ intents'[k][c] = intents[k][c]
                \/ Moves(k, c, intents'[k][c]) /\ Claims(intents'[k][c])
  <2>1. CASE k2 = k /\ c2 = c
    BY <1>2, <2>1 DEF SetRow
  <2>2. CASE k2 # k \/ c2 # c
    BY <1>2, <2>2 DEF SetRow
  <2> QED
    BY <2>1, <2>2
<1> QED
  BY <1>1, <1>2, RowSteps DEF RowStep

LEMMA ExecutionChange ==
  ASSUME TypeOK, [Next]_vars, NEW c \in Cycles
  PROVE  /\ server' \in [Cycles -> Execution]
         /\ server'[c] = server[c] \/ ExecutionMoves(c, server'[c])
<1>1. CASE server' = server
  BY <1>1 DEF TypeOK
<1>2. ASSUME NEW x \in Cycles, NEW e \in Execution, SetExecution(x, e), ExecutionMoves(x, e)
      PROVE  /\ server' \in [Cycles -> Execution]
             /\ server'[c] = server[c] \/ ExecutionMoves(c, server'[c])
  BY <1>2 DEF SetExecution
<1> QED
  BY <1>1, <1>2, ServerSteps

LEMMA ExecutionsStep ==
  ASSUME TypeOK, ExecutionsSound, [Next]_vars PROVE ExecutionsSound'
<1>1. ASSUME NEW c \in Cycles PROVE ExecutionSound(server'[c])
  <2>1. ExecutionSound(server[c])
    BY DEF ExecutionsSound
  <2> QED
    BY <2>1, ExecutionChange DEF ExecutionMoves
<1> QED
  BY <1>1 DEF ExecutionsSound, ExecutionSound

\* A call leaves with a claim of its intent, a signal once the start is known
\* to be delivered.
LEMMA CallsStep ==
  ASSUME TypeOK, JobsSound, CallsSound, [Next]_vars
  PROVE  CallsSound' /\ calls' \in SUBSET Call
<1>1. Stable
  BY StableStep
<1>2. ASSUME NEW call \in Call, CallSound(call) PROVE CallSound(call)'
  <2>1. call.kind \in Kinds /\ call.cycle \in Cycles /\ "start" \in Kinds
    BY DEF Call, Kinds
  <2> QED
    BY <1>1, <1>2, <2>1 DEF CallSound, Stable
<1>3. calls \in SUBSET Call /\ \A call \in calls : CallSound(call)
  BY DEF TypeOK, CallsSound
<1>4. CASE calls' \subseteq calls
  BY <1>2, <1>3, <1>4 DEF CallsSound
<1>5. ASSUME NEW new \in Call, calls' = calls \cup {new}, CallSound(new)'
      PROVE  CallsSound' /\ calls' \in SUBSET Call
  BY <1>2, <1>3, <1>5 DEF CallsSound
<1>6. ASSUME NEW p \in Procs, NEW k \in Kinds, NEW c \in Cycles, Claim(p, k, c)
      PROVE  CallsSound' /\ calls' \in SUBSET Call
  <2>1. CASE k = "command"
    BY <1>4, <1>6, <2>1 DEF Claim
  <2>2. CASE k # "command"
    <3>1. PICK new \in Call : /\ calls' = calls \cup {new} /\ new.kind = k /\ new.cycle = c
      <4> DEFINE new == [kind |-> k, cycle |-> c, from |-> p,
                         attempt |-> intents[k][c].attempts + 1]
      <4>1. intents[k][c].attempts + 1 \in Nat
        BY <1>6, ClaimRow
      <4>2. new \in Call /\ new.kind = k /\ new.cycle = c
        BY <4>1 DEF Call
      <4>3. calls' = calls \cup {new}
        BY <1>6, <2>2 DEF Claim
      <4> HIDE DEF new
      <4> QED
        BY <4>2, <4>3
    <3>2. intents'[k][c].status = "CLAIMED"
      BY <1>6, ClaimRow
    <3>3. CallSound(new)'
      BY <2>2, <3>1, <3>2 DEF CallSound
    <3> QED
      BY <1>5, <3>1, <3>3
  <2> QED
    BY <2>1, <2>2
<1>7. ASSUME NEW p \in Procs, Describe(p) PROVE CallsSound' /\ calls' \in SUBSET Call
  <2>1. CASE server[work[p].cycle].state # "running"
    BY <1>4, <1>7, <2>1 DEF Describe, Execution_of
  <2>2. CASE server[work[p].cycle].state = "running"
    <3>1. work[p] \in Job /\ JobSound(work[p]) /\ work[p].pc = "describing"
      BY <1>7 DEF TypeOK, JobsSound, Describe, At
    <3>2. PICK new \in Call : /\ calls' = calls \cup {new}
                              /\ new.kind = "command" /\ new.cycle = work[p].cycle
      <4> DEFINE new == [kind |-> "command", cycle |-> work[p].cycle, from |-> p,
                         attempt |-> work[p].attempt]
      <4>1. new \in Call /\ new.kind = "command" /\ new.cycle = work[p].cycle
        BY <3>1 DEF Call, Job, JobSound, Kinds
      <4>2. calls' = calls \cup {new}
        BY <1>7, <2>2 DEF Describe, Execution_of
      <4> HIDE DEF new
      <4> QED
        BY <4>1, <4>2
    <3>3. CallSound(new) /\ intents' = intents
      BY <1>7, <3>1, <3>2 DEF CallSound, JobSound, Describe
    <3>4. CallSound(new)'
      BY <1>2, <3>3
    <3> QED
      BY <1>5, <3>2, <3>4
  <2> QED
    BY <2>1, <2>2
<1>8. ASSUME ~(calls' \subseteq calls)
      PROVE  \E p \in Procs : \/ \E k \in Kinds, c \in Cycles : Claim(p, k, c)
                             \/ Describe(p)
  BY <1>8 DEF Next, vars, SubmitForReview, RecordDecision, Insert, Elapse, BecomeDue, LeaseExpires,
     Dispatch, StartReturns, ReconcileStart, SignalReturns, ResultReturns, GiveUp, MarkDelivered,
     ReleaseForRetry, Finalize, Crash, ServerStarts, ServerSignals, CallLost, FirstTask,
     HandleSignal, Complete, Cancel
<1> QED
  BY <1>4, <1>6, <1>7, <1>8

LEMMA TypeStep == ASSUME IInv, [Next]_vars PROVE TypeOK'
<1>1. intents' \in [Kinds -> [Cycles -> Row]]
  <2>1. CASE intents' = intents
    BY <2>1 DEF IInv, TypeOK
  <2>2. CASE \E k \in Kinds, c \in Cycles : RowStep(k, c)
    BY <2>2 DEF RowStep, SetRow
  <2> QED
    BY <2>1, <2>2, RowSteps DEF IInv
<1>2. ASSUME NEW k \in Kinds, NEW c \in Cycles PROVE Claims(intents'[k][c])
  <2>1. Claims(intents[k][c])
    BY DEF IInv, TypeOK, Claims
  <2> QED
    BY <2>1, RowChange DEF IInv
<1>3. work' \in [Procs -> Job]
  BY JobsStep DEF IInv
<1>4. calls' \in SUBSET Call
  BY CallsStep DEF IInv
<1>5. server' \in [Cycles -> Execution]
  <2>1. CASE server' = server
    BY <2>1 DEF IInv, TypeOK
  <2>2. CASE \E c \in Cycles, e \in Execution : SetExecution(c, e) /\ ExecutionMoves(c, e)
    BY <2>2 DEF SetExecution
  <2> QED
    BY <2>1, <2>2, ServerSteps DEF IInv
<1>6. alive' \in SUBSET Procs /\ slips' \in Nat
  <2>1. alive \in SUBSET Procs /\ slips \in Nat
    BY DEF IInv, TypeOK
  <2>2. alive' = alive \/ \E p \in Procs : alive' = alive \ {p}
    <3>1. ASSUME NEW p \in Procs, Dispatch(p) PROVE alive' = alive
      BY <3>1 DEF Dispatch, Claim, StartReturns, ReconcileStart, Describe, SignalReturns,
         ResultReturns, GiveUp, MarkDelivered, ReleaseForRetry, Finalize
    <3>2. ASSUME NEW p \in Procs, Crash(p) PROVE alive' = alive \ {p}
      BY <3>2 DEF Crash
    <3>3. ASSUME NEW k \in Kinds, NEW c \in Cycles, Elapse(k, c) PROVE alive' = alive
      BY <3>3 DEF Elapse, BecomeDue, LeaseExpires
    <3>4. ASSUME NEW c \in Cycles, \/ SubmitForReview(c) \/ RecordDecision(c) \/ FirstTask(c)
                                   \/ HandleSignal(c) \/ Complete(c) \/ Cancel(c)
          PROVE  alive' = alive
      BY <3>4 DEF SubmitForReview, RecordDecision, Insert, FirstTask, HandleSignal, Complete, Cancel
    <3>5. ASSUME NEW call \in calls, ServerStarts(call) \/ ServerSignals(call) \/ CallLost(call)
          PROVE  alive' = alive
      BY <3>5 DEF ServerStarts, ServerSignals, CallLost
    <3>6. CASE UNCHANGED vars
      BY <3>6 DEF vars
    <3> QED
      BY <3>1, <3>2, <3>3, <3>4, <3>5, <3>6 DEF Next
  <2>3. slips' = slips \/ slips' = slips + 1
    <3>1. ASSUME NEW p \in Procs, Dispatch(p) \/ Crash(p) PROVE slips' = slips
      BY <3>1 DEF Dispatch, Claim, StartReturns, ReconcileStart, Describe, SignalReturns,
         ResultReturns, GiveUp, MarkDelivered, ReleaseForRetry, Finalize, Crash
    <3>2. ASSUME NEW k \in Kinds, NEW c \in Cycles, Elapse(k, c)
          PROVE  slips' = slips \/ slips' = slips + 1
      BY <3>2 DEF Elapse, BecomeDue, LeaseExpires
    <3>3. ASSUME NEW c \in Cycles, \/ SubmitForReview(c) \/ RecordDecision(c) \/ FirstTask(c)
                                   \/ HandleSignal(c) \/ Complete(c) \/ Cancel(c)
          PROVE  slips' = slips
      BY <3>3 DEF SubmitForReview, RecordDecision, Insert, FirstTask, HandleSignal, Complete, Cancel
    <3>4. ASSUME NEW call \in calls, ServerStarts(call) \/ ServerSignals(call) \/ CallLost(call)
          PROVE  slips' = slips
      BY <3>4 DEF ServerStarts, ServerSignals, CallLost
    <3>5. CASE UNCHANGED vars
      BY <3>5 DEF vars
    <3> QED
      BY <3>1, <3>2, <3>3, <3>4, <3>5 DEF Next
  <2>4. alive' \in SUBSET Procs
    BY <2>1, <2>2
  <2>5. slips' \in Nat
    BY <2>1, <2>3
  <2> QED
    BY <2>4, <2>5
<1> QED
  BY <1>1, <1>2, <1>3, <1>4, <1>5, <1>6 DEF TypeOK, Claims

\* What is reported is what the process at "delivered" has seen; what an
\* execution receives and decides came with a call.
LEMMA ReportsStep == ASSUME IInv, [Next]_vars PROVE ReportsAreTrue'
<1>1. Stable /\ TypeOK /\ JobsSound
  BY StableStep DEF IInv
<1>2. ASSUME NEW k \in Kinds, NEW c \in Cycles, intents'[k][c].status = "DELIVERED"
      PROVE  \/ intents[k][c].status = "DELIVERED"
             \/ IF k = "start" THEN server[c].state # "none" ELSE server[c].state = "completed"
  <2>1. CASE intents'[k][c] = intents[k][c]
    BY <1>2, <2>1
  <2>2. CASE Moves(k, c, intents'[k][c])
    <3>1. PICK p \in Procs : work[p].pc = "delivered" /\ work[p].kind = k /\ work[p].cycle = c
      BY <1>2, <2>2 DEF Moves
    <3>2. JobSound(work[p])
      BY <1>1 DEF JobsSound
    <3> QED
      BY <3>1, <3>2 DEF JobSound
  <2> QED
    BY <1>1, <2>1, <2>2, RowChange
<1>3. "start" \in Kinds /\ "command" \in Kinds
  BY DEF Kinds
<1>4. ASSUME NEW c \in Cycles, intents'["start"][c].status = "DELIVERED"
      PROVE  server'[c].state # "none"
  BY <1>1, <1>2, <1>3, <1>4 DEF IInv, ReportsAreTrue, Stable
<1>5. ASSUME NEW c \in Cycles, intents'["command"][c].status = "DELIVERED"
      PROVE  server'[c].state = "completed" /\ server'[c].decided
  <2>1. server[c].state = "completed" /\ server[c].decided
    BY <1>2, <1>3, <1>5 DEF IInv, ReportsAreTrue, ExecutionsSound, ExecutionSound
  <2> QED
    BY <1>1, <2>1 DEF Stable
<1>6. ASSUME NEW c \in Cycles, server'[c].inbox > 0 \/ server'[c].decided
      PROVE  /\ intents'["start"][c].status = "DELIVERED"
             /\ intents'["command"][c].status # "ABSENT"
  <2>1. \/ server[c].inbox > 0 \/ server[c].decided
        \/ \E call \in calls : call.kind = "command" /\ call.cycle = c
    BY <1>1, <1>6, ExecutionChange DEF ExecutionMoves
  <2>2. /\ intents["start"][c].status = "DELIVERED"
        /\ intents["command"][c].status # "ABSENT"
    BY <2>1 DEF IInv, ReportsAreTrue, CallsSound, CallSound
  <2> QED
    BY <1>1, <1>3, <2>2 DEF Stable
<1>7. ASSUME NEW c \in Cycles, server'[c].decided PROVE ~server'[c].conflict
  BY <1>1, <1>7, ExecutionsStep DEF IInv, ExecutionsSound, ExecutionSound
<1> QED
  BY <1>4, <1>5, <1>6, <1>7 DEF ReportsAreTrue

\* An intent is given up for what its process has seen or for its attempts; it
\* is final then, and so is the reason.
LEMMA QuarantineStep == ASSUME IInv, [Next]_vars PROVE QuarantineJustified'
<1> DEFINE Justified(k, c, row) ==
             CASE row.error = "exhausted" -> row.attempts >= MaxAttempts
               [] row.error = "mismatch" -> k = "command" /\ server[c].state = "canceled"
               [] row.error = "not_found" -> k = "command" /\ Closed(c)
               [] OTHER -> FALSE
<1>1. Stable /\ TypeOK /\ JobsSound
  BY StableStep DEF IInv
<1>2. ASSUME NEW c \in Cycles, NEW k \in Kinds, intents'[k][c].status = "QUARANTINED"
      PROVE  Justified(k, c, intents'[k][c])
  <2>1. CASE intents'[k][c] = intents[k][c]
    BY <1>2, <2>1 DEF IInv, QuarantineJustified
  <2>2. CASE Moves(k, c, intents'[k][c])
    <3>1. PICK p \in Procs :
             /\ work[p].kind = k /\ work[p].cycle = c
             /\ \/ /\ intents'[k][c].error = "exhausted"
                   /\ intents'[k][c].attempts >= MaxAttempts
                \/ /\ intents'[k][c].error = work[p].pc
                   /\ intents'[k][c].error \in {"not_found", "mismatch"}
      BY <1>2, <2>2 DEF Moves
    <3>2. JobSound(work[p])
      BY <1>1 DEF JobsSound
    <3> QED
      BY <3>1, <3>2 DEF JobSound
  <2> QED
    BY <1>1, <2>1, <2>2, RowChange
<1>3. ASSUME NEW c \in Cycles
      PROVE  /\ server[c].state = "canceled" => server'[c].state = "canceled"
             /\ Closed(c) => server'[c].state \in {"completed", "canceled"}
  BY <1>1 DEF Stable, Closed
<1> QED
  BY <1>2, <1>3 DEF QuarantineJustified, Closed

LEMMA InitIInv == Init => IInv
<1> SUFFICES ASSUME Init PROVE IInv
  OBVIOUS
<1>1. NoRow \in Row /\ NoRow.status = "ABSENT" /\ NoRow.owner = NoProc
  BY DEF NoRow, Row, Errors
<1>2. TypeOK
  BY <1>1, IdleJob DEF Init, TypeOK, Execution
<1>3. JobsSound
  BY IdleJob DEF Init, JobsSound, JobSound
<1>4. CallsSound /\ ExecutionsSound
  BY DEF Init, CallsSound, ExecutionsSound, ExecutionSound
<1>5. ReportsAreTrue /\ QuarantineJustified
  BY <1>1 DEF Init, ReportsAreTrue, QuarantineJustified, Kinds
<1> QED
  BY <1>2, <1>3, <1>4, <1>5 DEF IInv

LEMMA StepIInv == IInv /\ [Next]_vars => IInv'
<1> SUFFICES ASSUME IInv, [Next]_vars PROVE IInv'
  OBVIOUS
<1>1. TypeOK'
  BY TypeStep
<1>2. JobsSound' /\ CallsSound' /\ ExecutionsSound'
  BY JobsStep, CallsStep, ExecutionsStep DEF IInv
<1>3. ReportsAreTrue' /\ QuarantineJustified'
  BY ReportsStep, QuarantineStep
<1> QED
  BY <1>1, <1>2, <1>3 DEF IInv

\* The invariant holds in every reachable state, types included.
THEOREM Invariance == Spec => []IInv
<1> QED
  BY InitIInv, StepIInv, PTL DEF Spec

\* What dispatchers report of a cycle is so, whatever leases, retries and late
\* answers do: a DELIVERED start has its execution, a DELIVERED command was
\* observed by a completed workflow, and no signal overtakes the start.
THEOREM ReportsSound == Spec => []ReportsAreTrue
<1>1. IInv => ReportsAreTrue
  BY DEF IInv
<1> QED
  BY <1>1, Invariance, PTL

\* No intent is given up but for a reason that holds and keeps holding.
THEOREM QuarantineSound == Spec => []QuarantineJustified
<1>1. IInv => QuarantineJustified
  BY DEF IInv
<1> QED
  BY <1>1, Invariance, PTL
-----------------------------------------------------------------------------
(* Both kinds of intent are delivered as the outbox delivers events. *)

Outcomes(k) == [c \in Cycles |-> Outcome(intents[k][c].status)]
Started == {c \in Cycles : server[c].state # "none"}
Decided == {c \in Cycles : server[c].decided}

Advance(k, c, from, to) ==
    Outcomes(k)[c] = from /\ Outcomes(k)' = [Outcomes(k) EXCEPT ![c] = to]

\* Claims, retries and expired leases do not show; the rest is one outcome.
LEMMA OutcomeSteps ==
  ASSUME TypeOK, JobsSound, [Next]_vars, NEW k \in Kinds
  PROVE  \/ Outcomes(k)' = Outcomes(k)
         \/ \E c \in Cycles :
               \/ Advance(k, c, "absent", "pending")
               \/ /\ Advance(k, c, "pending", "published")
                  /\ intents'[k][c].status = "DELIVERED"
               \/ Advance(k, c, "pending", "quarantined")
<1>1. CASE intents' = intents
  BY <1>1 DEF Outcomes
<1>2. ASSUME NEW x \in Kinds, NEW c \in Cycles, NEW row \in Row,
             SetRow(x, c, row), Moves(x, c, row)
      PROVE  \/ Outcomes(k)' = Outcomes(k)
             \/ \/ Advance(k, c, "absent", "pending")
                \/ /\ Advance(k, c, "pending", "published")
                   /\ intents'[k][c].status = "DELIVERED"
                \/ Advance(k, c, "pending", "quarantined")
  <2>1. CASE x # k
    BY <1>2, <2>1 DEF SetRow, Outcomes
  <2>2. CASE x = k
    <3>1. Outcomes(k)' = [Outcomes(k) EXCEPT ![c] = Outcome(row.status)]
      BY <1>2, <2>2 DEF SetRow, Outcomes
    <3>2. Outcomes(k)[c] = Outcome(intents[k][c].status) /\ intents'[k][c] = row
      BY <1>2, <2>2 DEF SetRow, Outcomes
    <3>3. Outcomes(k)[c] = Outcome(row.status) => Outcomes(k)' = Outcomes(k)
      BY <3>1 DEF Outcomes
    <3> QED
      BY <1>2, <2>2, <3>1, <3>2, <3>3 DEF Moves, Outcome, Advance
  <2> QED
    BY <2>1, <2>2
<1> QED
  BY <1>1, <1>2, RowSteps DEF RowStep

\* No step changes both what is reported and what is so.
LEMMA OneSide == ASSUME [Next]_vars PROVE intents' = intents \/ server' = server
  BY ServerActs DEF FirstTask, HandleSignal, Complete, Cancel, ServerStarts, ServerSignals

\* The server running a start is a Store of the cycle.
LEMMA StartRefinement ==
  ASSUME IInv, [Next]_vars
  PROVE  StartDelivery!Next \/ UNCHANGED <<Outcomes("start"), Started>>
<1>1. "start" \in Kinds /\ TypeOK /\ JobsSound
  BY DEF Kinds, IInv
<1>2. CASE server' = server
  <2>1. Started' = Started
    BY <1>2 DEF Started
  <2>2. ASSUME NEW c \in Cycles, Advance("start", c, "absent", "pending")
        PROVE  StartDelivery!Record(c)
    BY <2>1, <2>2 DEF StartDelivery!Record, Advance, Outcomes, Started
  <2>3. ASSUME NEW c \in Cycles, Advance("start", c, "pending", "quarantined")
        PROVE  StartDelivery!Quarantine(c)
    BY <2>1, <2>3 DEF StartDelivery!Quarantine, Advance, Outcomes, Started
  <2>4. ASSUME NEW c \in Cycles, Advance("start", c, "pending", "published"),
               intents'["start"][c].status = "DELIVERED"
        PROVE  StartDelivery!Publish(c)
    <3>1. c \in Started
      BY <1>2, <2>4, ReportsStep DEF ReportsAreTrue, Started
    <3> QED
      BY <2>1, <2>4, <3>1 DEF StartDelivery!Publish, Advance, Outcomes, Started
  <2> QED
    BY <1>1, <2>1, <2>2, <2>3, <2>4, OutcomeSteps DEF StartDelivery!Next
<1>3. CASE server' # server
  <2>1. Outcomes("start")' = Outcomes("start")
    BY <1>3, OneSide DEF Outcomes
  <2>2. PICK c \in Cycles, e \in Execution : SetExecution(c, e) /\ ExecutionMoves(c, e)
    BY <1>1, <1>3, ServerSteps
  <2>3. CASE server[c].state # "none"
    <3>1. Started' = Started
      BY <2>2, <2>3 DEF Started, SetExecution, ExecutionMoves
    <3> QED
      BY <2>1, <3>1
  <2>4. CASE server[c].state = "none"
    <3>1. Started' = Started \cup {c} /\ c \notin Started
      BY <2>2, <2>4 DEF Started, SetExecution, ExecutionMoves
    <3>2. intents["start"][c].status # "ABSENT"
      BY <2>2, <2>4 DEF ExecutionMoves, IInv, CallsSound, CallSound
    <3>3. Outcomes("start")[c] # "absent"
      BY <3>2 DEF Outcomes, Outcome
    <3>4. StartDelivery!Store(c)
      BY <2>1, <3>1, <3>3 DEF StartDelivery!Store, Outcomes, Started
    <3> QED
      BY <3>4 DEF StartDelivery!Next
  <2> QED
    BY <2>3, <2>4
<1> QED
  BY <1>2, <1>3

\* The workflow observing its decision is a Store; a repetition of the command
\* stutters.
LEMMA CommandRefinement ==
  ASSUME IInv, [Next]_vars
  PROVE  CommandDelivery!Next \/ UNCHANGED <<Outcomes("command"), Decided>>
<1>1. "command" \in Kinds /\ TypeOK /\ JobsSound
  BY DEF Kinds, IInv
<1>2. CASE server' = server
  <2>1. Decided' = Decided
    BY <1>2 DEF Decided
  <2>2. ASSUME NEW c \in Cycles, Advance("command", c, "absent", "pending")
        PROVE  CommandDelivery!Record(c)
    BY <2>1, <2>2 DEF CommandDelivery!Record, Advance, Outcomes, Decided
  <2>3. ASSUME NEW c \in Cycles, Advance("command", c, "pending", "quarantined")
        PROVE  CommandDelivery!Quarantine(c)
    BY <2>1, <2>3 DEF CommandDelivery!Quarantine, Advance, Outcomes, Decided
  <2>4. ASSUME NEW c \in Cycles, Advance("command", c, "pending", "published"),
               intents'["command"][c].status = "DELIVERED"
        PROVE  CommandDelivery!Publish(c)
    <3>1. c \in Decided
      BY <1>2, <2>4, ReportsStep DEF ReportsAreTrue, Decided
    <3> QED
      BY <2>1, <2>4, <3>1 DEF CommandDelivery!Publish, Advance, Outcomes, Decided
  <2> QED
    BY <1>1, <2>1, <2>2, <2>3, <2>4, OutcomeSteps DEF CommandDelivery!Next
<1>3. CASE server' # server
  <2>1. Outcomes("command")' = Outcomes("command")
    BY <1>3, OneSide DEF Outcomes
  <2>2. PICK c \in Cycles, e \in Execution : SetExecution(c, e) /\ ExecutionMoves(c, e)
    BY <1>1, <1>3, ServerSteps
  <2>3. CASE e.decided = server[c].decided
    <3>1. Decided' = Decided
      BY <2>2, <2>3 DEF Decided, SetExecution, ExecutionMoves
    <3> QED
      BY <2>1, <3>1
  <2>4. CASE e.decided # server[c].decided
    <3>1. e.decided /\ ~server[c].decided
      BY <1>1, <2>2, <2>4 DEF ExecutionMoves, TypeOK, Execution
    <3>2. Decided' = Decided \cup {c} /\ c \notin Decided
      BY <2>2, <3>1 DEF Decided, SetExecution, ExecutionMoves
    <3>3. intents["command"][c].status # "ABSENT"
      BY <2>2, <2>4
      DEF ExecutionMoves, IInv, CallsSound, CallSound, ReportsAreTrue
    <3>4. Outcomes("command")[c] # "absent"
      BY <3>3 DEF Outcomes, Outcome
    <3>5. CommandDelivery!Store(c)
      BY <2>1, <3>2, <3>4 DEF CommandDelivery!Store, Outcomes, Decided
    <3> QED
      BY <3>5 DEF CommandDelivery!Next
  <2> QED
    BY <2>3, <2>4
<1> QED
  BY <1>2, <1>3

\* Starts and commands are each delivered as the outbox delivers events: reported
\* DELIVERED only when it has happened at Temporal, at most once, and for good.
THEOREM Refinement == Spec => IntentsAreDelivered
<1>1. Init => StartDelivery!Init
  BY DEF Init, StartDelivery!Init, NoRow, Outcome, Kinds
<1>2. Init => CommandDelivery!Init
  BY DEF Init, CommandDelivery!Init, NoRow, Outcome, Kinds
<1>3. IInv /\ [Next]_vars => [StartDelivery!Next]_<<Outcomes("start"), Started>>
  BY StartRefinement
<1>4. IInv /\ [Next]_vars => [CommandDelivery!Next]_<<Outcomes("command"), Decided>>
  BY CommandRefinement
<1> QED
  BY <1>1, <1>2, <1>3, <1>4, Invariance, PTL
  DEF Spec, IntentsAreDelivered, StartDelivery!Spec, CommandDelivery!Spec, Outcomes, Started, Decided
=============================================================================

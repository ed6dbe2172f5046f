--------------------------- MODULE ReviewWorkflow ---------------------------
(***************************************************************************)
(* Workflow intents, the dispatcher that carries them to Temporal, and     *)
(* ContentReviewWorkflowV1.                                                *)
(*                                                                         *)
(* A submitted version opens a review cycle with a START intent, its       *)
(* decision adds a COMMAND intent (ContentLifecycle inserts both).  A      *)
(* dispatcher claims an intent under a lease, talks to Temporal, and       *)
(* finalizes the intent with a fenced UPDATE.  Leases are not related to   *)
(* the timeouts of the calls, so an owner may come back after another has  *)
(* taken its intent over; calls may take effect after their client has     *)
(* given up.  There is one decision, hence one command, to a cycle.        *)
(***************************************************************************)
EXTENDS Naturals, FiniteSets

CONSTANTS Cycles,       \* review cycles: workflow instances
          Procs,        \* dispatcher process incarnations (claimed_by)
          NoCycle, NoProc,
          MaxAttempts,  \* DispatcherConfig.max_attempts
          MaxCrashes,   \* bound: processes that may crash
          MaxSlips      \* bound: leases that may expire under a live owner

ASSUME ReviewAssumption == /\ MaxAttempts \in Nat \ {0}
                           /\ MaxCrashes \in Nat /\ MaxSlips \in Nat
                           /\ NoCycle \notin Cycles /\ NoProc \notin Procs

VARIABLES intents,   \* intents[k][c]: workflow_start_intents, workflow_command_intents
          work,      \* work[p]: where process p is in dispatch_once
          alive,
          calls,     \* start and signal requests on their way to Temporal
          server,    \* server[c]: the workflow execution, at Temporal
          slips

vars == <<intents, work, alive, calls, server, slips>>

Kinds == {"start", "command"}
Errors == {"none", "exhausted", "not_found", "mismatch"}
Row == [status : {"ABSENT", "PENDING", "CLAIMED", "DELIVERED", "QUARANTINED"},
        attempts : Nat, due : BOOLEAN, owner : Procs \cup {NoProc}, expired : BOOLEAN,
        error : Errors]
Waiting == {"starting", "reconciling", "describing", "signalling", "awaiting"}
Verdicts == {"delivered", "unavailable", "not_found", "mismatch"}
Job == [pc : {"idle"} \cup Waiting \cup Verdicts, kind : Kinds,
        cycle : Cycles \cup {NoCycle}, attempt : Nat,
        reply : {"none", "ok", "exists", "closed"}]
Call == [kind : Kinds, cycle : Cycles, from : Procs, attempt : Nat]
Execution == [state : {"none", "running", "completed", "canceled"},
              inbox : Nat, ready : BOOLEAN, decided : BOOLEAN, conflict : BOOLEAN]

Idle == [pc |-> "idle", kind |-> "start", cycle |-> NoCycle, attempt |-> 0, reply |-> "none"]
NoRow == [status |-> "ABSENT", attempts |-> 0, due |-> FALSE, owner |-> NoProc,
          expired |-> FALSE, error |-> "none"]

\* Types; and an intent has a claimant exactly while it is CLAIMED.
TypeOK == /\ intents \in [Kinds -> [Cycles -> Row]]
          /\ work \in [Procs -> Job]
          /\ alive \in SUBSET Procs
          /\ calls \in SUBSET Call
          /\ server \in [Cycles -> Execution]
          /\ slips \in Nat
          /\ \A k \in Kinds, c \in Cycles :
                (intents[k][c].status = "CLAIMED") <=> (intents[k][c].owner # NoProc)

Init == /\ intents = [k \in Kinds |-> [c \in Cycles |-> NoRow]]
        /\ work = [p \in Procs |-> Idle]
        /\ alive = Procs
        /\ calls = {}
        /\ server = [c \in Cycles |-> [state |-> "none", inbox |-> 0, ready |-> FALSE,
                                       decided |-> FALSE, conflict |-> FALSE]]
        /\ slips = 0
----------------------------------------------------------------------------
(* The Content transactions, and time. *)

Insert(k, c) ==
    /\ intents[k][c].status = "ABSENT"
    /\ intents' = [intents EXCEPT ![k][c].status = "PENDING", ![k][c].due = TRUE]
    /\ UNCHANGED <<work, alive, calls, server, slips>>

SubmitForReview(c) == Insert("start", c)

\* A decision is recorded in a cycle only, whether or not its workflow runs yet.
RecordDecision(c) == intents["start"][c].status # "ABSENT" /\ Insert("command", c)

BecomeDue(k, c) ==
    /\ intents[k][c].status = "PENDING" /\ ~intents[k][c].due
    /\ intents' = [intents EXCEPT ![k][c].due = TRUE]
    /\ UNCHANGED <<work, alive, calls, server, slips>>

OwnerAtWork(k, c) == LET p == intents[k][c].owner
                     IN p \in alive /\ work[p].kind = k /\ work[p].cycle = c

LeaseExpires(k, c) ==
    /\ intents[k][c].status = "CLAIMED" /\ ~intents[k][c].expired
    /\ \/ ~OwnerAtWork(k, c) /\ UNCHANGED slips
       \/ OwnerAtWork(k, c) /\ slips < MaxSlips /\ slips' = slips + 1
    /\ intents' = [intents EXCEPT ![k][c].expired = TRUE]
    /\ UNCHANGED <<work, alive, calls, server>>
----------------------------------------------------------------------------
(* A dispatcher. *)

\* Mutants: a command is claimed before its workflow is known to run; the
\* intents left CLAIMED by a dead process are never taken over.
ClaimableAnyStart(k, c) ==
    LET r == intents[k][c] IN \/ r.status = "PENDING" /\ r.due
                              \/ r.status = "CLAIMED" /\ r.expired
ClaimablePendingOnly(k, c) ==
    /\ intents[k][c].status = "PENDING" /\ intents[k][c].due
    /\ k = "command" => intents["start"][c].status = "DELIVERED"

\* The WHERE clauses of claim_start_intent and claim_command_intent.
Claimable(k, c) ==
    /\ LET r == intents[k][c] IN \/ r.status = "PENDING" /\ r.due
                                 \/ r.status = "CLAIMED" /\ r.expired
    /\ k = "command" => intents["start"][c].status = "DELIVERED"

\* claim_start_intent or claim_command_intent, and the call that follows it.
Claim(p, k, c) ==
    /\ p \in alive /\ work[p].pc = "idle" /\ Claimable(k, c)
    /\ LET attempt == intents[k][c].attempts + 1 IN
       /\ intents' = [intents EXCEPT ![k][c] =
                        [status |-> "CLAIMED", attempts |-> attempt, due |-> @.due,
                         owner |-> p, expired |-> FALSE, error |-> @.error]]
       /\ work' = [work EXCEPT ![p] =
                     [pc |-> IF k = "start" THEN "starting" ELSE "describing",
                      kind |-> k, cycle |-> c, attempt |-> attempt, reply |-> "none"]]
       /\ calls' = IF k = "command" THEN calls ELSE
                   calls \cup {[kind |-> k, cycle |-> c, from |-> p, attempt |-> attempt]}
    /\ UNCHANGED <<alive, server, slips>>

Go(p, pc) == work' = [work EXCEPT ![p].pc = pc, ![p].reply = "none"]
At(p, pc) == p \in alive /\ work[p].pc = pc
Execution_of(p) == server[work[p].cycle]
Closed(c) == server[c].state \in {"completed", "canceled"}

\* Mutant: a workflow id that is taken is not reconciled but given up.
ExistsIsFatal(p) ==
    /\ At(p, "starting") /\ work[p].reply # "none"
    /\ Go(p, IF work[p].reply = "ok" THEN "delivered" ELSE "mismatch")
    /\ UNCHANGED <<intents, alive, calls, server, slips>>

\* start_workflow returns, or raises WorkflowAlreadyStartedError.
StartReturns(p) ==
    /\ At(p, "starting") /\ work[p].reply # "none"
    /\ Go(p, IF work[p].reply = "ok" THEN "delivered" ELSE "reconciling")
    /\ UNCHANGED <<intents, alive, calls, server, slips>>

\* _reconcile_existing_start: the started input, which is this cycle's own, is
\* in the history of whatever execution has the workflow id.
ReconcileStart(p) ==
    /\ At(p, "reconciling")
    /\ Go(p, IF Execution_of(p).state = "none" THEN "not_found" ELSE "delivered")
    /\ UNCHANGED <<intents, alive, calls, server, slips>>

\* describe: a closed workflow is asked for its result, a running one signalled.
Describe(p) ==
    /\ At(p, "describing")
    /\ LET state == Execution_of(p).state IN
       IF state = "running"
       THEN /\ Go(p, "signalling")
            /\ calls' = calls \cup {[kind |-> "command", cycle |-> work[p].cycle, from |-> p,
                                     attempt |-> work[p].attempt]}
       ELSE /\ Go(p, IF state = "none" THEN "not_found" ELSE "awaiting")
            /\ UNCHANGED calls
    /\ UNCHANGED <<intents, alive, server, slips>>

\* Mutant: the command counts as delivered once the signal is acknowledged.
SignalIsDelivery(p) ==
    /\ At(p, "signalling") /\ work[p].reply # "none"
    /\ Go(p, IF work[p].reply = "ok" THEN "delivered" ELSE "not_found")
    /\ UNCHANGED <<intents, alive, calls, server, slips>>

\* signal returns; for a workflow that has closed it raises RPCError NOT_FOUND.
SignalReturns(p) ==
    /\ At(p, "signalling") /\ work[p].reply # "none"
    /\ Go(p, IF work[p].reply = "ok" THEN "awaiting" ELSE "not_found")
    /\ UNCHANGED <<intents, alive, calls, server, slips>>

\* result and _match_command_result: the result names this cycle's one command;
\* a workflow that did not complete raises WorkflowFailureError.
ResultReturns(p) ==
    /\ At(p, "awaiting") /\ Closed(work[p].cycle)
    /\ Go(p, IF Execution_of(p).state = "completed" THEN "delivered" ELSE "mismatch")
    /\ UNCHANGED <<intents, alive, calls, server, slips>>

\* A timeout, an OSError or an RPCError other than NOT_FOUND.
GiveUp(p) ==
    /\ p \in alive /\ work[p].pc \in Waiting
    /\ Go(p, "unavailable")
    /\ UNCHANGED <<intents, alive, calls, server, slips>>

Fence(p) == LET r == intents[work[p].kind][work[p].cycle]
            IN r.status = "CLAIMED" /\ r.owner = p /\ r.attempts = work[p].attempt

Finalize(p, status, error) ==
    /\ intents' = IF Fence(p)
                  THEN [intents EXCEPT ![work[p].kind][work[p].cycle] =
                          [status |-> status, attempts |-> @.attempts, due |-> FALSE,
                           owner |-> NoProc, expired |-> FALSE, error |-> error]]
                  ELSE intents
    /\ work' = [work EXCEPT ![p] = Idle]
    /\ UNCHANGED <<alive, calls, server, slips>>

MarkDelivered(p) == At(p, "delivered") /\ Finalize(p, "DELIVERED", "none")

Exhausted(p) == work[p].attempt >= MaxAttempts

ReleaseForRetry(p) ==
    \/ /\ At(p, "unavailable")
       /\ IF Exhausted(p) THEN Finalize(p, "QUARANTINED", "exhausted")
          ELSE Finalize(p, "PENDING", "none")
    \/ /\ p \in alive /\ work[p].pc \in {"not_found", "mismatch"}
       /\ Finalize(p, "QUARANTINED", work[p].pc)

\* The process dies, or an exception none of the gateway's clauses names ends it.
Crash(p) ==
    /\ p \in alive
    /\ Cardinality(Procs \ alive) < MaxCrashes
    /\ alive' = alive \ {p}
    /\ work' = [work EXCEPT ![p] = Idle]
    /\ UNCHANGED <<intents, calls, server, slips>>
----------------------------------------------------------------------------
(* Temporal, and the workflow that runs there. *)

Reply(call, r) ==
    IF /\ call.from \in alive
       /\ work[call.from].pc \in {"starting", "signalling"}
       /\ work[call.from].kind = call.kind /\ work[call.from].cycle = call.cycle
       /\ work[call.from].attempt = call.attempt
    THEN work' = [work EXCEPT ![call.from].reply = r]
    ELSE UNCHANGED work

\* REJECT_DUPLICATE: a workflow id is never used twice.
ServerStarts(call) ==
    /\ call.kind = "start"
    /\ calls' = calls \ {call}
    /\ IF server[call.cycle].state = "none"
       THEN /\ server' = [server EXCEPT ![call.cycle].state = "running"]
            /\ Reply(call, "ok") \/ UNCHANGED work
       ELSE Reply(call, "exists") /\ UNCHANGED server
    /\ UNCHANGED <<intents, alive, slips>>

ServerSignals(call) ==
    /\ call.kind = "command"
    /\ calls' = calls \ {call}
    /\ IF server[call.cycle].state = "running"
       THEN /\ server' = [server EXCEPT ![call.cycle].inbox = @ + 1]
            /\ Reply(call, "ok") \/ UNCHANGED work
       ELSE Reply(call, "closed") /\ UNCHANGED server
    /\ UNCHANGED <<intents, alive, slips>>

CallLost(call) ==
    /\ calls' = calls \ {call}
    /\ UNCHANGED <<intents, work, alive, server, slips>>

\* The worker's first task for the workflow: __init__, the signals that are
\* already there, then run, which sets the identity the handler compares with.
\* A conflict makes run raise RuntimeError, which fails the task and not the
\* workflow: the same task comes again, and no later signal is ever handled.
FirstTask(c) ==
    /\ server[c].state = "running" /\ ~server[c].ready
    /\ server' = IF server[c].inbox = 0 THEN [server EXCEPT ![c].ready = TRUE]
                 ELSE [server EXCEPT ![c].conflict = TRUE]
    /\ UNCHANGED <<intents, work, alive, calls, slips>>

\* review_decision_recorded: the first command is observed, a repetition of it
\* ignored.
HandleSignal(c) ==
    /\ server[c].state = "running" /\ server[c].ready /\ server[c].inbox > 0
    /\ server' = [server EXCEPT ![c].inbox = @ - 1, ![c].decided = TRUE]
    /\ UNCHANGED <<intents, work, alive, calls, slips>>

\* run returns; Temporal lets no workflow close over signals it has not seen.
Complete(c) ==
    /\ server[c].state = "running" /\ server[c].decided /\ ~server[c].conflict
    /\ server[c].inbox = 0
    /\ server' = [server EXCEPT ![c].state = "completed"]
    /\ UNCHANGED <<intents, work, alive, calls, slips>>

\* An operator cancels or terminates the workflow.
Cancel(c) ==
    /\ server[c].state = "running"
    /\ server' = [server EXCEPT ![c].state = "canceled"]
    /\ UNCHANGED <<intents, work, alive, calls, slips>>
----------------------------------------------------------------------------
Dispatch(p) == \/ \E k \in Kinds, c \in Cycles : Claim(p, k, c)
               \/ StartReturns(p) \/ ReconcileStart(p) \/ Describe(p) \/ SignalReturns(p)
               \/ ResultReturns(p) \/ GiveUp(p) \/ MarkDelivered(p) \/ ReleaseForRetry(p)

Elapse(k, c) == BecomeDue(k, c) \/ LeaseExpires(k, c)

Next == \/ \E c \in Cycles : \/ SubmitForReview(c) \/ RecordDecision(c)
                             \/ FirstTask(c) \/ HandleSignal(c)
                             \/ Complete(c) \/ Cancel(c)
        \/ \E k \in Kinds, c \in Cycles : Elapse(k, c)
        \/ \E p \in Procs : Dispatch(p) \/ Crash(p)
        \/ \E call \in calls : ServerStarts(call) \/ ServerSignals(call) \/ CallLost(call)

Spec == Init /\ [][Next]_vars

\* The daemon polls for ever, every call has a timeout, clocks advance.  Nothing
\* is assumed of Temporal, of the worker, of operators or of new decisions.
Fairness == /\ \A p \in Procs : WF_vars(Dispatch(p))
            /\ \A k \in Kinds, c \in Cycles : /\ WF_vars(BecomeDue(k, c))
                                              /\ WF_vars(LeaseExpires(k, c))
FairSpec == Spec /\ Fairness
----------------------------------------------------------------------------
(* Properties. *)

\* A signal reaches a workflow only of a cycle whose start is known to have
\* been delivered, and what is reported of a cycle is so: a DELIVERED start has
\* its execution, a DELIVERED command was observed by a completed workflow.  The
\* decision a workflow has observed stands, however often it is signalled again.
ReportsAreTrue ==
    \A c \in Cycles :
        /\ intents["start"][c].status = "DELIVERED" => server[c].state # "none"
        /\ intents["command"][c].status = "DELIVERED" =>
                server[c].state = "completed" /\ server[c].decided
        /\ (server[c].inbox > 0 \/ server[c].decided) =>
                /\ intents["start"][c].status = "DELIVERED"
                /\ intents["command"][c].status # "ABSENT"
        /\ server[c].decided => ~server[c].conflict

\* An intent is given up for a reason that holds: its budget is used up, the
\* workflow has closed without it, or (a command) has closed before the signal.
\* A start is never given up for finding its own workflow there.
QuarantineJustified ==
    \A c \in Cycles, k \in Kinds : intents[k][c].status = "QUARANTINED" =>
        CASE intents[k][c].error = "exhausted" -> intents[k][c].attempts >= MaxAttempts
          [] intents[k][c].error = "mismatch" -> k = "command" /\ server[c].state = "canceled"
          [] intents[k][c].error = "not_found" -> k = "command" /\ Closed(c)
          [] OTHER -> FALSE

\* Starts and commands are each delivered as the outbox delivers events: what
\* is reported DELIVERED has happened at Temporal, once, and reports are final.
Outcome(status) == CASE status = "ABSENT" -> "absent"
                     [] status = "DELIVERED" -> "published"
                     [] status = "QUARANTINED" -> "quarantined"
                     [] OTHER -> "pending"

StartDelivery == INSTANCE AtLeastOnceDelivery WITH
    Msgs <- Cycles,
    outcome <- [c \in Cycles |-> Outcome(intents["start"][c].status)],
    stored <- {c \in Cycles : server[c].state # "none"}

CommandDelivery == INSTANCE AtLeastOnceDelivery WITH
    Msgs <- Cycles,
    outcome <- [c \in Cycles |-> Outcome(intents["command"][c].status)],
    stored <- {c \in Cycles : server[c].decided}
IntentsAreDelivered == StartDelivery!Spec /\ CommandDelivery!Spec

\* Every start is settled in the end, and every decision too unless the start of
\* its cycle was given up.
IntentsSettled ==
    \A c \in Cycles :
        /\ intents["start"][c].status = "PENDING" ~>
              intents["start"][c].status \in {"DELIVERED", "QUARANTINED"}
        /\ intents["command"][c].status = "PENDING" ~>
              \/ intents["command"][c].status \in {"DELIVERED", "QUARANTINED"}
              \/ intents["start"][c].status = "QUARANTINED"

\* A workflow does not refuse its own cycle's decision as a conflict, even one
\* recorded before it was started (the test of a decision before the start
\* dispatches both in turn and expects the command to be delivered).
OwnDecisionAccepted == \A c \in Cycles : ~server[c].conflict

\* A command whose decision the workflow has observed is not given up as one
\* whose workflow was not found (test_command_crash_window_reconciles: "retry
\* reconciles completed workflow").
RetryReconcilesCompleted ==
    \A c \in Cycles : intents["command"][c].status = "QUARANTINED"
                        /\ intents["command"][c].error = "not_found" => ~server[c].decided
============================================================================

--------------------------- MODULE OutboxDispatch ---------------------------
(***************************************************************************)
(* The outbox table and the processes that publish it to JetStream.        *)
(*                                                                         *)
(* A dispatcher process claims a row under a lease, publishes its event    *)
(* with a timeout, and then finalizes the row with an UPDATE fenced by     *)
(* (status, claimed_by, attempt_count).  Processes crash, leases expire    *)
(* under slow owners, the broker refuses, misroutes or stores an event,    *)
(* and its reply may be lost.                                              *)
(*                                                                         *)
(* A process is one incarnation: claimed_by ends in a fresh uuid4, so a    *)
(* restarted dispatcher is another element of Procs.  Times are kept as    *)
(* what the queries ask of them: `due` is available_at <= now, `expired`   *)
(* is claimed_until <= now.                                                *)
(***************************************************************************)
EXTENDS Naturals, FiniteSets

CONSTANTS Msgs,         \* outbox events
          Procs,        \* dispatcher process incarnations
          NoMsg, NoProc,
          MaxAttempts,  \* OutboxDispatcherConfig.max_attempts
          MaxCrashes,   \* bound: processes that may crash
          MaxSlips      \* bound: leases that may expire under a live owner

ASSUME OutboxAssumption == /\ MaxAttempts \in Nat \ {0}
                           /\ MaxCrashes \in Nat
                           /\ MaxSlips \in Nat
                           /\ NoMsg \notin Msgs
                           /\ NoProc \notin Procs

VARIABLES rows,      \* integration.outbox_messages
          work,      \* work[p]: where process p is in dispatch_once_detailed
          alive,     \* the processes that have not crashed
          wire,      \* publishes sent and not yet handled by the broker
          seen,      \* Nats-Msg-Ids in the expected stream's duplicate window now
          copies,    \* copies[m]: how often the expected stream holds event m
          refused,   \* history: events the broker rejected or misrouted
          lapsed,    \* history: Nats-Msg-Ids whose duplicate window has ended
          reclaims,  \* history: claims taken over an expired lease
          slips      \* leases that expired under a live owner so far

dispatchVars == <<rows, work, alive, wire, seen, copies, refused, lapsed,
                  reclaims, slips>>
broker == <<wire, seen, copies, refused, lapsed>>

RowStatus == {"ABSENT", "PENDING", "CLAIMED", "PUBLISHED", "QUARANTINED"}
Replies == {"none", "stream", "otherStream", "apiError"}   \* publish() outcomes
Row == [status : RowStatus, attempts : Nat, due : BOOLEAN,
        owner : Procs \cup {NoProc}, expired : BOOLEAN]
Job == [pc : {"idle", "publishing", "acked", "failed"},
        msg : Msgs \cup {NoMsg}, attempt : Nat, reply : Replies]
Publish == [msg : Msgs, from : Procs, attempt : Nat]

Idle == [pc |-> "idle", msg |-> NoMsg, attempt |-> 0, reply |-> "none"]

\* Types; the claim columns of a row are set exactly while it is CLAIMED, and a
\* process has an event in hand exactly while it is dispatching.
DispatchTypeOK == /\ rows \in [Msgs -> Row]
                  /\ work \in [Procs -> Job]
                  /\ alive \in SUBSET Procs
                  /\ wire \in SUBSET Publish
                  /\ seen \in SUBSET Msgs
                  /\ copies \in [Msgs -> Nat]
                  /\ refused \in SUBSET Msgs
                  /\ lapsed \in SUBSET Msgs
                  /\ reclaims \in [Msgs -> Nat]
                  /\ slips \in Nat
                  /\ \A m \in Msgs : (rows[m].status = "CLAIMED") <=> (rows[m].owner # NoProc)
                  /\ \A p \in Procs : (work[p].pc = "idle") <=> (work[p].msg = NoMsg)

DispatchInit == /\ rows = [m \in Msgs |-> [status |-> "ABSENT", attempts |-> 0, due |-> FALSE,
                                           owner |-> NoProc, expired |-> FALSE]]
                /\ work = [p \in Procs |-> Idle]
                /\ alive = Procs
                /\ wire = {}
                /\ seen = {}
                /\ copies = [m \in Msgs |-> 0]
                /\ refused = {}
                /\ lapsed = {}
                /\ reclaims = [m \in Msgs |-> 0]
                /\ slips = 0
----------------------------------------------------------------------------
(* The business transaction that records the event commits. *)
Insert(m) ==
    /\ rows[m].status = "ABSENT"
    /\ rows' = [rows EXCEPT ![m].status = "PENDING", ![m].due = TRUE]
    /\ UNCHANGED <<work, alive, broker, reclaims, slips>>

\* retry_delay elapses.
BecomeDue(m) ==
    /\ rows[m].status = "PENDING" /\ ~rows[m].due
    /\ rows' = [rows EXCEPT ![m].due = TRUE]
    /\ UNCHANGED <<work, alive, broker, reclaims, slips>>

OwnerAtWork(m) == /\ rows[m].owner \in alive
                  /\ work[rows[m].owner].msg = m

\* claim_lease elapses: after a crash, or because the owner is slow.
LeaseExpires(m) ==
    /\ rows[m].status = "CLAIMED" /\ ~rows[m].expired
    /\ \/ ~OwnerAtWork(m) /\ UNCHANGED slips
       \/ OwnerAtWork(m) /\ slips < MaxSlips /\ slips' = slips + 1
    /\ rows' = [rows EXCEPT ![m].expired = TRUE]
    /\ UNCHANGED <<work, alive, broker, reclaims>>
----------------------------------------------------------------------------
(* A dispatcher process. *)

\* Mutant: rows left CLAIMED by a dead process are never taken over.
ClaimablePendingOnly(r) == r.status = "PENDING" /\ r.due

\* The WHERE clause of claim_once.
Claimable(r) == \/ r.status = "PENDING" /\ r.due
                \/ r.status = "CLAIMED" /\ r.expired

\* claim_once, one transaction, and the publish it leads to.  FOR UPDATE SKIP
\* LOCKED lets a process take any claimable row that others do not hold.
ClaimAndPublish(p, m) ==
    /\ p \in alive /\ work[p].pc = "idle"
    /\ Claimable(rows[m])
    /\ LET attempt == rows[m].attempts + 1 IN
       /\ rows' = [rows EXCEPT ![m] = [status |-> "CLAIMED", attempts |-> attempt,
                                       due |-> rows[m].due, owner |-> p, expired |-> FALSE]]
       /\ work' = [work EXCEPT ![p] = [pc |-> "publishing", msg |-> m,
                                       attempt |-> attempt, reply |-> "none"]]
       /\ wire' = wire \cup {[msg |-> m, from |-> p, attempt |-> attempt]}
    /\ reclaims' = IF rows[m].status = "CLAIMED"
                   THEN [reclaims EXCEPT ![m] = @ + 1] ELSE reclaims
    /\ UNCHANGED <<alive, seen, copies, refused, lapsed, slips>>

\* An ack counts only when it names the expected stream.
Accepted(p) == work[p].reply = "stream"

\* publisher.publish returns: an accepted ack, or a stream mismatch or an
\* APIError, which are permanent.
Receive(p) ==
    /\ p \in alive /\ work[p].pc = "publishing" /\ work[p].reply # "none"
    /\ work' = [work EXCEPT ![p].pc = IF Accepted(p) THEN "acked" ELSE "failed"]
    /\ UNCHANGED <<rows, alive, broker, reclaims, slips>>

\* Mutant: a timeout is taken for a success, the event having been sent.
GiveUpAsPublished(p) ==
    /\ p \in alive /\ work[p].pc = "publishing"
    /\ work' = [work EXCEPT ![p].pc = "acked", ![p].reply = "none"]
    /\ UNCHANGED <<rows, alive, broker, reclaims, slips>>

\* asyncio.timeout fires or the client is disconnected; a reply on its way is
\* never read.
GiveUp(p) ==
    /\ p \in alive /\ work[p].pc = "publishing"
    /\ work' = [work EXCEPT ![p].pc = "failed", ![p].reply = "none"]
    /\ UNCHANGED <<rows, alive, broker, reclaims, slips>>

\* The WHERE clause of mark_published and of release_for_retry.
Fence(p) == LET r == rows[work[p].msg]
            IN r.status = "CLAIMED" /\ r.owner = p /\ r.attempts = work[p].attempt

\* A fenced UPDATE: it changes the row only while p's claim is the current one,
\* and the process goes on either way.
Finalize(p, status) ==
    /\ rows' = IF Fence(p)
               THEN [rows EXCEPT ![work[p].msg] =
                         [status |-> status, attempts |-> @.attempts, due |-> FALSE,
                          owner |-> NoProc, expired |-> FALSE]]
               ELSE rows
    /\ work' = [work EXCEPT ![p] = Idle]
    /\ UNCHANGED <<alive, broker, reclaims, slips>>

MarkPublished(p) ==
    /\ p \in alive /\ work[p].pc = "acked"
    /\ Finalize(p, "PUBLISHED")

Permanent(p) == work[p].reply \in {"otherStream", "apiError"}

\* Mutants: the budget is one attempt short, or one too long.
GivesUpEarly(p) == Permanent(p) \/ work[p].attempt + 1 >= MaxAttempts

GivesUpForGood(p) == Permanent(p) \/ work[p].attempt >= MaxAttempts

ReleaseForRetry(p) ==
    /\ p \in alive /\ work[p].pc = "failed"
    /\ Finalize(p, IF GivesUpForGood(p) THEN "QUARANTINED" ELSE "PENDING")

\* The process dies with whatever it was doing; nothing in it is persisted.
Crash(p) ==
    /\ p \in alive
    /\ Cardinality(Procs \ alive) < MaxCrashes
    /\ alive' = alive \ {p}
    /\ work' = [work EXCEPT ![p] = Idle]
    /\ UNCHANGED <<rows, broker, reclaims, slips>>
----------------------------------------------------------------------------
(* JetStream, as the publisher uses it. *)

\* Mutant: a fresh message id on every attempt.
MsgIdPerAttempt(pub) == <<pub.msg, pub.attempt>>

\* The header by which the stream recognises a publish it already holds.
MsgId(pub) == pub.msg

\* The broker's answer reaches the process if it still waits for this publish.
Reply(pub, r) ==
    IF /\ pub.from \in alive
       /\ work[pub.from].pc = "publishing"
       /\ work[pub.from].msg = pub.msg
       /\ work[pub.from].attempt = pub.attempt
    THEN work' = [work EXCEPT ![pub.from].reply = r]
    ELSE UNCHANGED work

\* The expected stream takes the publish, unless it has the id in its window, and
\* acknowledges it either way; the ack may get lost.
BrokerStores(pub) ==
    /\ wire' = wire \ {pub}
    /\ seen' = seen \cup {MsgId(pub)}
    /\ copies' = IF MsgId(pub) \in seen THEN copies ELSE [copies EXCEPT ![pub.msg] = @ + 1]
    /\ Reply(pub, "stream") \/ UNCHANGED work
    /\ UNCHANGED <<rows, alive, refused, lapsed, reclaims, slips>>

\* An ack from another stream: the subject is bound elsewhere.
BrokerMisroutes(pub) ==
    /\ wire' = wire \ {pub}
    /\ refused' = refused \cup {pub.msg}
    /\ Reply(pub, "otherStream") \/ UNCHANGED work
    /\ UNCHANGED <<rows, alive, seen, copies, lapsed, reclaims, slips>>

\* APIError: the broker refuses and stores nothing.
BrokerRejects(pub) ==
    /\ wire' = wire \ {pub}
    /\ refused' = refused \cup {pub.msg}
    /\ Reply(pub, "apiError")
    /\ UNCHANGED <<rows, alive, seen, copies, lapsed, reclaims, slips>>

WireLoses(pub) ==
    /\ wire' = wire \ {pub}
    /\ UNCHANGED <<rows, work, alive, seen, copies, refused, lapsed, reclaims, slips>>
\* The duplicate window of a stored id ends.  Neither retry_delay nor claim_lease
\* is tied to it, so it may end before a retry or a take-over, or after them all.
WindowEnds == \E id \in seen :
    /\ seen' = seen \ {id}
    /\ lapsed' = lapsed \cup {id}
    /\ UNCHANGED <<rows, work, alive, wire, copies, refused, reclaims, slips>>
----------------------------------------------------------------------------
Dispatch(p) == \/ \E m \in Msgs : ClaimAndPublish(p, m)
               \/ Receive(p) \/ GiveUp(p) \/ MarkPublished(p) \/ ReleaseForRetry(p)
Elapse(m) == BecomeDue(m) \/ LeaseExpires(m)
Broker(pub) == \/ BrokerStores(pub) \/ BrokerMisroutes(pub)
               \/ BrokerRejects(pub) \/ WireLoses(pub)

DispatchNext == \/ \E m \in Msgs : Insert(m) \/ Elapse(m)
                \/ \E p \in Procs : Dispatch(p) \/ Crash(p)
                \/ \E pub \in wire : Broker(pub)
                \/ WindowEnds

DispatchSpec == DispatchInit /\ [][DispatchNext]_dispatchVars

\* The daemon polls for ever and every dispatch ends by its timeout; clocks
\* advance.  Nothing is assumed of the broker, of crashes or of new events.
Fairness == /\ \A p \in Procs : WF_dispatchVars(Dispatch(p))
            /\ \A m \in Msgs : WF_dispatchVars(BecomeDue(m))
            /\ \A m \in Msgs : WF_dispatchVars(LeaseExpires(m))

FairSpec == DispatchSpec /\ Fairness
----------------------------------------------------------------------------
(* Properties. *)

\* A row says PUBLISHED only of an event the expected stream holds, through
\* timeouts, misrouted acks and late finalizations (dispatch_once_detailed).
PublishedReachedStream ==
    \A m \in Msgs : rows[m].status = "PUBLISHED" => copies[m] >= 1

\* An event is given up only after max_attempts claims or after the broker
\* itself refused or misrouted it, never for a crash or a stolen lease alone.
QuarantineJustified ==
    \A m \in Msgs : rows[m].status = "QUARANTINED" =>
                        rows[m].attempts >= MaxAttempts \/ m \in refused

\* attempt_count passes max_attempts only by take-overs of expired leases, one
\* attempt for each, and a row that is released to PENDING has budget left.
AttemptBudget ==
    \A m \in Msgs : /\ rows[m].attempts <= MaxAttempts + reclaims[m]
                    /\ rows[m].status = "PENDING" => rows[m].attempts < MaxAttempts

Copies(m) == copies[m] + Cardinality({pub \in wire : pub.msg = m})

\* Delivery is at least once, and no looser than that: each claim of an event adds
\* one copy to the stream at most, those still in flight included, through
\* timeouts, lost acks and claims taken over; and as long as the duplicate window
\* of its Nats-Msg-Id lasts, a retry adds none (dispatch_once_detailed, publish).
DuplicatesAccounted ==
    \A m \in Msgs : /\ Copies(m) <= rows[m].attempts
                    /\ copies[m] > 1 => m \in lapsed

Stored == {m \in Msgs : copies[m] > 0}

\* What a process and the broker may take for granted of each other: an id in the
\* window now or before is of an event the stream holds, and the other way round;
\* a process with an ack in hand has its event in the stream, a permanent error stems from a refusal, and a
\* publish in flight is of a recorded event.  With the safety properties above
\* it makes them inductive.
BrokerView ==
    /\ Stored = seen \cup lapsed
    /\ \A p \in Procs : work[p].pc = "acked" \/ work[p].reply = "stream" =>
                             work[p].msg \in Stored
    /\ \A p \in Procs : Permanent(p) => work[p].msg \in refused
    /\ \A pub \in wire : rows[pub.msg].status # "ABSENT"
    /\ \A m \in Msgs : rows[m].status = "ABSENT" => rows[m].attempts = 0

\* PUBLISHED and QUARANTINED are final: no late answer, of whatever process,
\* reopens or overturns them.
SettledIsFinal ==
    [][\A m \in Msgs : rows[m].status \in {"PUBLISHED", "QUARANTINED"} =>
                          rows'[m].status = rows[m].status]_dispatchVars

\* While a lease runs and its owner lives, nobody else moves the row: a stale
\* process coming back from a slow publish cannot undo its successor's claim.
LiveClaimRespected ==
    [][\A m \in Msgs : LET p == rows[m].owner IN
          rows[m].status = "CLAIMED" /\ ~rows[m].expired /\ rows'[m].owner # p
             => p \in alive /\ work[p].msg = m /\ work'[p] = Idle]_dispatchVars

\* Every recorded event is settled in the end, given a process that survives.
EventuallySettled ==
    \A m \in Msgs : rows[m].status = "PENDING" ~>
                        rows[m].status \in {"PUBLISHED", "QUARANTINED"}

\* Dispatching is an implementation of the delivery the outbox promises.
Outcome(status) == CASE status = "ABSENT" -> "absent"
                     [] status = "PUBLISHED" -> "published"
                     [] status = "QUARANTINED" -> "quarantined"
                     [] OTHER -> "pending"

Delivery == INSTANCE AtLeastOnceDelivery WITH
    outcome <- [m \in Msgs |-> Outcome(rows[m].status)],
    stored <- Stored
DeliveryRefinement == Delivery!Spec
============================================================================

-------------------------- MODULE ContentLifecycle --------------------------
(***************************************************************************)
(* The Content aggregate under concurrent requests: create, append a       *)
(* version, submit it for review, decide the review, publish.              *)
(*                                                                         *)
(* Every command runs in one READ COMMITTED transaction: it takes the      *)
(* advisory lock of its idempotency scope, looks the outcome up, locks the *)
(* head row, reads and checks, compares-and-swaps the head, and inserts    *)
(* the facts, the outbox event, the workflow intent, the audit record and  *)
(* the idempotency outcome.  Nothing it writes is visible before commit,   *)
(* so the writes and the commit are one step; the lock waits before it are *)
(* steps of their own, and an exception or a crash in any of them rolls    *)
(* everything back.  The locks a transaction holds follow from how far it  *)
(* has come: its scope lock from "head" on, the head row from "body" on.   *)
(***************************************************************************)
EXTENDS Naturals, FiniteSets

CONSTANTS Contents, Keys, Txns, NoContent, NoCommand,
          MaxRevision   \* bound: no command expects this revision or a later one

ASSUME ContentAssumption == MaxRevision \in Nat /\ NoContent \notin Contents

VARIABLES heads,        \* content.contents, version ids as version numbers
          versions,     \* content.content_versions
          decisions,    \* content.review_decisions
          publications, \* content.publications
          intents,      \* workflow start and command intents
          outbox,       \* integration.outbox_messages
          audits,       \* the mutation audit ledger
          outcomes,     \* idempotency outcomes
          txns          \* the requests being served

db == <<heads, versions, decisions, publications, intents, outbox, audits, outcomes>>
vars == <<db, txns>>

States == {"ABSENT", "DRAFT", "GENERATED", "IN_REVIEW", "APPROVED"}
Codes == {"APPROVE", "REQUEST_CHANGES", "REJECT"}
Ops == {"create", "append", "submit", "publish"} \cup Codes
Numbers == 1..MaxRevision     \* every version costs a revision

Head == [state : States, current : Nat, published : Nat, revision : Nat]
Command == [op : Ops, key : Keys, content : Contents \cup {NoContent},
            version : Nat, expected : Nat]
Answers == {"none", "ok", "replayed", "key_reused", "conflict", "refused",
            "invariant_violation", "failed"}
Txn == [pc : {"idle", "scope", "head", "body"}, cmd : Command \cup {NoCommand},
        answer : Answers,
        snapshot : SUBSET [content : Contents, number : Nat, parent : Nat]]

NoHead == [state |-> "ABSENT", current |-> 0, published |-> 0, revision |-> 0]

TypeOK == /\ heads \in [Contents -> Head]
          /\ versions \in SUBSET [content : Contents, number : Nat, parent : Nat]
          /\ decisions \in SUBSET [content : Contents, version : Nat, code : Codes]
          /\ publications \in SUBSET [content : Contents, version : Nat]
          /\ intents \in SUBSET [content : Contents, version : Nat, kind : {"start"} \cup Codes]
          /\ outbox \in SUBSET [content : Contents, revision : Nat, type : Ops]
          /\ audits \in SUBSET [content : Contents, revision : Nat]
          /\ outcomes \in SUBSET [cmd : Command, content : Contents, revision : Nat]
          /\ txns \in [Txns -> Txn]
          /\ \A t \in Txns : txns[t].pc # "idle" => txns[t].cmd \in Command
          /\ \A o1, o2 \in outcomes :
                (o1.cmd.op = o2.cmd.op /\ o1.cmd.key = o2.cmd.key) => o1 = o2

Init == /\ heads = [c \in Contents |-> NoHead]
        /\ versions = {} /\ decisions = {} /\ publications = {}
        /\ intents = {} /\ outbox = {} /\ audits = {} /\ outcomes = {}
        /\ txns = [t \in Txns |-> [pc |-> "idle", cmd |-> NoCommand, answer |-> "none",
                                   snapshot |-> {}]]
----------------------------------------------------------------------------
(* What a client can ask: it names a content, a version and the revision it *)
(* has read (a request gets stale while it waits), or sends a request that  *)
(* has already been carried out once more, its answer having been lost.     *)
Askable(cmd) ==
    \/ cmd.op = "create" /\ cmd.content = NoContent /\ cmd.version = 0 /\ cmd.expected = 0
    \/ /\ cmd.op # "create" /\ cmd.content \in Contents
       /\ heads[cmd.content].state # "ABSENT"
       /\ cmd.expected = heads[cmd.content].revision /\ cmd.expected < MaxRevision
       /\ IF cmd.op = "append" THEN cmd.version = 0
          ELSE cmd.version \in 1..heads[cmd.content].current
    \/ \E o \in outcomes : o.cmd = cmd

Requests == [op : Ops, key : Keys, content : Contents \cup {NoContent},
             version : {0} \cup Numbers, expected : {0} \cup Numbers]

Begin(t, cmd) ==
    /\ txns[t].pc = "idle" /\ Askable(cmd)
    /\ txns' = [txns EXCEPT ![t] = [pc |-> "scope", cmd |-> cmd, answer |-> "none",
                                    snapshot |-> {}]]
    /\ UNCHANGED db

Answer(t, a) == txns' = [txns EXCEPT ![t] = [pc |-> "idle", cmd |-> NoCommand, answer |-> a,
                                             snapshot |-> {}]]

SameScope(cmd1, cmd2) == cmd1.op = cmd2.op /\ cmd1.key = cmd2.key

\* Mutant: the advisory lock is not taken.
ScopeFreeUnlocked(t) == txns[t].pc = "scope"

\* pg_advisory_xact_lock on (tenant, principal, operation, key).
ScopeFree(t) == \A u \in Txns \ {t} :
    txns[u].pc \in {"head", "body"} => ~SameScope(txns[u].cmd, txns[t].cmd)

\* The scope is ours: replay or refuse a known key, or go for the head row.
\* The SELECT ... FOR UPDATE of the head takes its snapshot here, before it waits.
AcquireScope(t) ==
    /\ txns[t].pc = "scope" /\ ScopeFree(t)
    /\ LET cmd == txns[t].cmd
           known == {o \in outcomes : SameScope(o.cmd, cmd)}
       IN \/ /\ \E o \in known : o.cmd = cmd
             /\ Answer(t, "replayed")
          \/ /\ \E o \in known : o.cmd # cmd
             /\ Answer(t, "key_reused")
          \/ /\ known = {}
             /\ txns' = [txns EXCEPT ![t].pc = IF cmd.op = "create" THEN "body" ELSE "head",
                                     ![t].snapshot = versions]
    /\ UNCHANGED db

HeadFree(t) == \A u \in Txns \ {t} :
    txns[u].pc = "body" => txns[u].cmd.content # txns[t].cmd.content

\* The row lock of get_head_for_update is granted.
LockHead(t) ==
    /\ txns[t].pc = "head" /\ HeadFree(t)
    /\ txns' = [txns EXCEPT ![t].pc = "body"]
    /\ UNCHANGED db

\* An exception (governance, asset or schema check, database), a lost
\* connection or a crash of the server: the transaction rolls back.
Fail(t) ==
    /\ txns[t].pc # "idle"
    /\ Answer(t, "failed")
    /\ UNCHANGED db
----------------------------------------------------------------------------
(* Checks made under the head lock. *)
OnHead(t) == txns[t].pc = "body" /\ txns[t].cmd.op # "create"
HeadOf(t) == heads[txns[t].cmd.content]

HasNumber(t, visible) == \/ HeadOf(t).current = 0
                         \/ \E v \in visible : /\ v.content = txns[t].cmd.content
                                               /\ v.number = HeadOf(t).current

\* Mutant: the version number is read by the locking SELECT's join, as the
\* statement's snapshot saw it.
NumberReadableJoined(t) == HasNumber(t, txns[t].snapshot)

\* The version number of the locked head is read by a statement of its own.
NumberReadable(t) == HasNumber(t, versions)

Fresh(t) == txns[t].cmd.expected = HeadOf(t).revision
Current(t) == txns[t].cmd.version = HeadOf(t).current

Decided(c, v) == \E d \in decisions : d.content = c /\ d.version = v
Approved(c, v) == [content |-> c, version |-> v, code |-> "APPROVE"] \in decisions
InCycle(c, v) == [content |-> c, version |-> v, kind |-> "start"] \in intents

AppendOK(t) == HeadOf(t).state \in {"DRAFT", "GENERATED", "APPROVED"}

SubmitOK(t) == /\ Current(t) /\ HeadOf(t).state = "GENERATED"
               /\ ~Decided(txns[t].cmd.content, txns[t].cmd.version)

\* Mutant: neither the state nor an earlier decision is looked at.
DecideOKAnyState(t) == Current(t) /\ InCycle(txns[t].cmd.content, txns[t].cmd.version)
DecideOK(t) == /\ Current(t) /\ HeadOf(t).state = "IN_REVIEW"
               /\ ~Decided(txns[t].cmd.content, txns[t].cmd.version)
               /\ InCycle(txns[t].cmd.content, txns[t].cmd.version)

\* Mutant: the current version is published whatever its state.
PublishOKAnyState(t) ==
    /\ Current(t)
    /\ [content |-> txns[t].cmd.content, version |-> txns[t].cmd.version] \notin publications
PublishOK(t) ==
    /\ Current(t) /\ HeadOf(t).state = "APPROVED"
    /\ Approved(txns[t].cmd.content, txns[t].cmd.version)
    /\ [content |-> txns[t].cmd.content, version |-> txns[t].cmd.version] \notin publications
    /\ HeadOf(t).published # txns[t].cmd.version

Acceptable(t) == CASE txns[t].cmd.op = "append" -> AppendOK(t)
                   [] txns[t].cmd.op = "submit" -> SubmitOK(t)
                   [] txns[t].cmd.op = "publish" -> PublishOK(t)
                   [] OTHER -> DecideOK(t)

MayCommit(t) == OnHead(t) /\ NumberReadable(t) /\ Fresh(t) /\ Acceptable(t)

\* The checks fail; get_head_for_update raises before the revision is compared.
Refuse(t) ==
    /\ OnHead(t) /\ ~MayCommit(t)
    /\ Answer(t, IF ~NumberReadable(t) THEN "invariant_violation"
                 ELSE IF ~Fresh(t) THEN "conflict" ELSE "refused")
    /\ UNCHANGED db
----------------------------------------------------------------------------
(* The writes of a command, and its commit. *)

\* Mutant: the event is published after the commit, and may get lost.
RecordUnsent(t, c, rev) ==
    /\ outbox' \in {outbox, outbox \cup {[content |-> c, revision |-> rev,
                                          type |-> txns[t].cmd.op]}}
    /\ audits' = audits \cup {[content |-> c, revision |-> rev]}
    /\ outcomes' = outcomes \cup {[cmd |-> txns[t].cmd, content |-> c, revision |-> rev]}
    /\ Answer(t, "ok")

\* Outbox event, audit record, idempotency outcome, commit and answer.
Record(t, c, rev) ==
    /\ outbox' = outbox \cup {[content |-> c, revision |-> rev, type |-> txns[t].cmd.op]}
    /\ audits' = audits \cup {[content |-> c, revision |-> rev]}
    /\ outcomes' = outcomes \cup {[cmd |-> txns[t].cmd, content |-> c, revision |-> rev]}
    /\ Answer(t, "ok")

Create(t, c) ==
    /\ txns[t].pc = "body" /\ txns[t].cmd.op = "create"
    /\ heads[c].state = "ABSENT"
    /\ heads' = [heads EXCEPT ![c].state = "DRAFT"]
    /\ Record(t, c, 0)
    /\ UNCHANGED <<versions, decisions, publications, intents>>

\* The compare-and-swap of a head: each one makes the next revision.
Moved(h, state, current, published) ==
    [state |-> state, current |-> current, published |-> published,
     revision |-> h.revision + 1]

\* advance_current_version.
Advanced(h) == Moved(h, "GENERATED", h.current + 1, h.published)

Append(t) ==
    LET c == txns[t].cmd.content  h == heads[c]  n == h.current + 1 IN
    /\ MayCommit(t) /\ txns[t].cmd.op = "append"
    /\ versions' = versions \cup {[content |-> c, number |-> n, parent |-> h.current]}
    /\ heads' = [heads EXCEPT ![c] = Advanced(h)]
    /\ Record(t, c, h.revision + 1)
    /\ UNCHANGED <<decisions, publications, intents>>

Submit(t) ==
    LET c == txns[t].cmd.content  h == heads[c] IN
    /\ MayCommit(t) /\ txns[t].cmd.op = "submit"
    /\ heads' = [heads EXCEPT ![c] = Moved(h, "IN_REVIEW", h.current, h.published)]
    /\ intents' = intents \cup {[content |-> c, version |-> h.current, kind |-> "start"]}
    /\ Record(t, c, h.revision + 1)
    /\ UNCHANGED <<versions, decisions, publications>>

StateAfter(code) == IF code = "APPROVE" THEN "APPROVED" ELSE "GENERATED"

Decide(t) ==
    LET c == txns[t].cmd.content  h == heads[c]  code == txns[t].cmd.op IN
    /\ MayCommit(t) /\ code \in Codes
    /\ decisions' = decisions \cup {[content |-> c, version |-> h.current, code |-> code]}
    /\ heads' = [heads EXCEPT ![c] = Moved(h, StateAfter(code), h.current, h.published)]
    /\ intents' = intents \cup {[content |-> c, version |-> h.current, kind |-> code]}
    /\ Record(t, c, h.revision + 1)
    /\ UNCHANGED <<versions, publications>>

Publish(t) ==
    LET c == txns[t].cmd.content  h == heads[c]  v == txns[t].cmd.version IN
    /\ MayCommit(t) /\ txns[t].cmd.op = "publish"
    /\ publications' = publications \cup {[content |-> c, version |-> v]}
    /\ heads' = [heads EXCEPT ![c] = Moved(h, h.state, h.current, v)]
    /\ Record(t, c, h.revision + 1)
    /\ UNCHANGED <<versions, decisions, intents>>
----------------------------------------------------------------------------
Serve(t) == \/ AcquireScope(t) \/ LockHead(t) \/ Refuse(t)
            \/ \E c \in Contents : Create(t, c)
            \/ Append(t) \/ Submit(t) \/ Decide(t) \/ Publish(t)

Next == \E t \in Txns : \/ \E cmd \in Requests : Begin(t, cmd)
                        \/ Serve(t) \/ Fail(t)

Spec == Init /\ [][Next]_vars

----------------------------------------------------------------------------
(* Properties. *)

\* The stewardship state and the facts agree: APPROVED rests on an APPROVE of
\* the current version, and a version in review has a workflow to come back
\* to and no decision yet, so its review can end.
StateRestsOnFacts ==
    \A c \in Contents :
        /\ heads[c].state = "APPROVED" => Approved(c, heads[c].current)
        /\ heads[c].state = "IN_REVIEW" => /\ InCycle(c, heads[c].current)
                                          /\ ~Decided(c, heads[c].current)

\* What is published was approved, that very version, and the published
\* pointer always has its Publication; a later append does not disturb it.
PublishedWasApproved ==
    /\ \A p \in publications : Approved(p.content, p.version)
    /\ \A c \in Contents : heads[c].published # 0 =>
            [content |-> c, version |-> heads[c].published] \in publications

\* A version is decided at most once, whoever decides, and each decision has
\* exactly the one signal that carries it to the workflow of its cycle.
DecisionsAreSignalled ==
    /\ \A d1, d2 \in decisions :
            d1.content = d2.content /\ d1.version = d2.version => d1 = d2
    /\ \A d \in decisions : InCycle(d.content, d.version)
    /\ {i \in intents : i.kind # "start"} =
            {[content |-> d.content, version |-> d.version, kind |-> d.code] : d \in decisions}

\* Every revision a head ever had, and no other, has one event and one audit
\* record: concurrent commands neither skip, share nor lose one.
EveryRevisionAccounted ==
    \A c \in Contents : heads[c].state # "ABSENT" =>
        \A r \in 0..(MaxRevision + 1) :
            /\ r <= heads[c].revision <=> [content |-> c, revision |-> r] \in audits
            /\ r <= heads[c].revision <=>
                  \E e \in outbox : e.content = c /\ e.revision = r
            /\ \A e1, e2 \in outbox : (e1.content = c /\ e2.content = c
                                      /\ e1.revision = r /\ e2.revision = r) => e1 = e2

\* Versions form one line: no fork, no gap, and the head is at its end.
LinearHistory ==
    \A c \in Contents : {v \in versions : v.content = c} =
        {[content |-> c, number |-> n, parent |-> n - 1] : n \in 1..heads[c].current}

\* Of the commands that expect the same revision one at most succeeds
\* (GCI-I05R3: exactly one 201, exactly one 412).
OneWinnerPerRevision ==
    \A o1, o2 \in outcomes :
        (/\ o1.cmd.op # "create" /\ o2.cmd.op # "create"
         /\ o1.cmd.content = o2.cmd.content
         /\ o1.cmd.expected = o2.cmd.expected) => o1 = o2

\* The loser of a race for a revision is told so and gets no other error
\* (GCI-I05R3: never the invariant violation the joined read produced).
LoserSeesConflict == \A t \in Txns : txns[t].answer # "invariant_violation"

\* A request that was carried out is never answered with an error of its own
\* success: its twin, sent after a timeout while it still ran, is replayed.
CommittedNeverRefused ==
    [][\A t \in Txns :
          (txns[t].pc # "idle" /\ txns'[t].pc = "idle"
              /\ \E o \in outcomes : o.cmd = txns[t].cmd)
                  => txns'[t].answer \in {"replayed", "failed"}]_vars

\* The published pointer only moves to a newer version: one that was approved
\* earlier and never published cannot be published any more.  Two publications
\* take more revisions than the run has: this one is proved.
PublishedMovesForward ==
    [][\A c \in Contents : heads'[c].published >= heads[c].published]_vars
============================================================================

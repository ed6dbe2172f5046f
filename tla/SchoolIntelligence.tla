------------------------- MODULE SchoolIntelligence -------------------------
(***************************************************************************)
(* What a principal is shown of a school: counts for every class of the    *)
(* current scope, and their sums.  Nothing is stored; a report is computed *)
(* at each request from the scope the school answers and from one snapshot *)
(* of the database, whose transaction time is the time of the report.      *)
(*                                                                         *)
(* A context ctx holds the answer of the classification gate (human:       *)
(* "allowed" or a refusal), the decision of the authorization kernel       *)
(* ("ALLOW", "DENY" or "unavailable"), and the scope: a fault or a         *)
(* sequence of items [class, label].  A database db holds the rows of one  *)
(* tenant, each table a set of records.                                    *)
(***************************************************************************)
EXTENDS Integers, Sequences, FiniteSets
Sets == INSTANCE FiniteSetsExt

CONSTANTS MaxClasses,     \* MAX_AUTHORIZED_CLASS_COUNT
          CurrentPolicy,  \* the id and version of the evaluation policy in force
          BlankRefs,      \* ClassRefs of spaces only
          PaddedRefs,     \* ClassRefs with spaces before or after
          NoValue         \* no value: a malformed item, a blank label

ClassItems(answer) == {answer.items[i] : i \in DOMAIN answer.items}
----------------------------------------------------------------------------
(* The classes a principal may see now. *)

authorize_report(decision) ==
    IF decision = "unavailable" THEN "authorization unavailable"
    ELSE IF decision = "ALLOW" THEN "allowed"
    ELSE "forbidden"

_validate_provider_items(answer) ==
    IF answer.fault # NoValue THEN answer.fault
    ELSE IF \/ NoValue \in ClassItems(answer)
            \/ \E item \in ClassItems(answer) : item.class \in BlankRefs \/ item.label = NoValue
            \/ \E i, j \in DOMAIN answer.items :
                  i < j /\ answer.items[i].class = answer.items[j].class
         THEN "contract"
    ELSE "fine"

current_authorized_classes(ctx) ==
    IF ctx.human # "allowed" THEN ctx.human
    ELSE IF authorize_report(ctx.decision) # "allowed" THEN authorize_report(ctx.decision)
    ELSE _validate_provider_items(ctx.scope)

Scope(ctx) == {item.class : item \in ClassItems(ctx.scope)}
----------------------------------------------------------------------------
(* The rows each SELECT counts for class c at time now.  Keys are unique,  *)
(* so a join to a parent row counts each child once.                       *)

_ASSIGNMENT_SQL(db, now, c) == {a \in db.assignments : a.class = c /\ a.assigned_at <= now}
InState(rows, state) == {r \in rows : r.state = state}

_SUBMISSION_SQL(db, now, c) ==
    {s \in db.submissions :
        /\ s.class = c /\ s.submitted_at <= now
        /\ \E a \in _ASSIGNMENT_SQL(db, now, c) : a.id = s.assignment}

Evaluates(e, s, now) ==
    /\ e.submission = s.id /\ e.assignment = s.assignment /\ e.class = s.class
    /\ e.policy = CurrentPolicy
    /\ e.evaluated_at <= now
_EVALUATION_SQL(db, now, c) ==
    {e \in db.evaluations : \E s \in _SUBMISSION_SQL(db, now, c) : Evaluates(e, s, now)}

Recorded(db, now, c) ==
    {r \in InState(db.assessments, "RECORDED") : r.class = c /\ r.recorded_at <= now}
_CLASSROOM_SQL(db, now, c) ==
    {a \in _ASSIGNMENT_SQL(db, now, c) : \E r \in Recorded(db, now, c) : r.assignment = a.id}

_EXECUTION_SQL(db, now, c) ==
    {x \in InState(db.executions, "COMPLETED") : x.class = c /\ x.completed_at <= now}

_REMEDIATION_SQL(db, now, c) == {o \in db.origins : o.class = c /\ o.created_at <= now}

\* A class without rows has counts of zero.
_merge_class(db, now, c) ==
    LET assigned == _ASSIGNMENT_SQL(db, now, c)
    IN [assignments  |-> Cardinality(assigned),
        active       |-> Cardinality(InState(assigned, "ACTIVE")),
        closed       |-> Cardinality(InState(assigned, "CLOSED")),
        cancelled    |-> Cardinality(InState(assigned, "CANCELLED")),
        submissions  |-> Cardinality(_SUBMISSION_SQL(db, now, c)),
        evaluations  |-> Cardinality(_EVALUATION_SQL(db, now, c)),
        has_recorded |-> Recorded(db, now, c) # {},
        recorded     |-> Cardinality(_CLASSROOM_SQL(db, now, c)),
        executions   |-> Cardinality(_EXECUTION_SQL(db, now, c)),
        remediations |-> Cardinality(_REMEDIATION_SQL(db, now, c))]
----------------------------------------------------------------------------
(* The report. *)

\* The counts of a class are believed only if they fit together, and only under a
\* ClassRef without spaces around it.
_validate_class_facts(c, facts) ==
    /\ c \notin BlankRefs \cup PaddedRefs
    /\ facts.active + facts.closed + facts.cancelled = facts.assignments
    /\ facts.evaluations <= facts.submissions

_require_complete_facts_snapshot(db, now, classes) ==
    \A c \in classes : _validate_class_facts(c, _merge_class(db, now, c))

\* A card repeats the facts and adds what follows from them.
_class_card(facts) ==
    [facts |-> facts,
     has_activity |-> facts.assignments > 0,
     not_evaluated |-> facts.submissions - facts.evaluations]

Total(cards, count) == Sets!MapThenSumSet(LAMBDA c : cards[c].facts[count], DOMAIN cards)
_summary(cards) ==
    [classes       |-> Cardinality(DOMAIN cards),
     with_activity |-> Cardinality({c \in DOMAIN cards : cards[c].has_activity}),
     with_recorded |-> Cardinality({c \in DOMAIN cards : cards[c].facts.has_recorded}),
     totals        |-> [count \in {"assignments", "active", "closed", "cancelled", "submissions",
                                   "evaluations", "recorded", "executions", "remediations"}
                          |-> Total(cards, count)],
     not_evaluated |-> Total(cards, "submissions") - Total(cards, "evaluations")]

NotReported(reason) == [answer |-> reason]
Report(cards) == [answer |-> "fine", cards |-> cards, summary |-> _summary(cards)]

\* The report of a principal without classes is one of zeroes.
get(ctx, db, now) ==
    IF current_authorized_classes(ctx) # "fine" THEN NotReported(current_authorized_classes(ctx))
    ELSE IF Len(ctx.scope.items) > MaxClasses THEN NotReported("capacity")
    ELSE IF ~_require_complete_facts_snapshot(db, now, Scope(ctx)) THEN NotReported("unavailable")
    ELSE Report([c \in Scope(ctx) |-> _class_card(_merge_class(db, now, c))])
=============================================================================

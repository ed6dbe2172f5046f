------------------------- MODULE ParentIntelligence -------------------------
(***************************************************************************)
(* What a parent is shown: the home page of all children, and the page of  *)
(* one child.  Nothing is stored: a page is computed at each request from  *)
(* what the school answers and from one snapshot of the database.          *)
(*                                                                         *)
(* A context ctx is what the request meets outside its read transaction:   *)
(*   human       "allowed", or the refusal of the classification gate      *)
(*   decision    of the authorization kernel: "ALLOW", "DENY", or          *)
(*               "unavailable"                                             *)
(*   access      the school's answer on the children of the adult          *)
(*   principals  learner |-> the principal and membership the security     *)
(*               tables hold for it                                        *)
(*   school      learner |-> the school's answer on its classes            *)
(*   now         the time of the request                                   *)
(* An answer of the school is a fault or a sequence of items.              *)
(*                                                                         *)
(* A database db holds the rows of one tenant: assignments, attempts,      *)
(* submissions, contents and versions, each a set of records.  A read rd   *)
(* holds the rows the limited SELECTs of the request have returned.        *)
(*                                                                         *)
(* Learners are numbers, compared the way the bytes of a UUID are.  A page *)
(* maps each child to the set of its assignment cards; their order is left *)
(* out.                                                                    *)
(***************************************************************************)
EXTENDS Naturals, Sequences, FiniteSets

CONSTANTS MaxLearners,     \* MAX_AUTHORIZED_LEARNER_COUNT
          MaxClassRefs,    \* MAX_CLASS_REFS_PER_LEARNER
          MaxAssignments,  \* MAX_ASSIGNMENTS_PER_LEARNER
          RowsPerPair,     \* _MAX_ATTEMPT_ROWS_PER_QUERY_PAIR
          None             \* no value: a malformed item, a blank text, no time

Least(S) == CHOOSE n \in S : \A m \in S : n <= m
Answered(answer) == {answer.items[i] : i \in DOMAIN answer.items}
Repeats(s) == \E i, j \in DOMAIN s : i < j /\ s[i] = s[j]
----------------------------------------------------------------------------
(* Which learners an adult may see now. *)

authorize(decision) ==
    IF decision = "unavailable" THEN "authorization unavailable"
    ELSE IF decision = "ALLOW" THEN "allowed"
    ELSE "forbidden"

_validate_provider_structure(answer) ==
    IF answer.fault # None THEN answer.fault
    ELSE IF None \in Answered(answer) \/ Repeats(answer.items) THEN "contract"
    ELSE "fine"

\* A learner is a subject whether or not it may act; the school must not name one
\* that is unknown, no human, or no member of this tenant now.
validate_learner_subject(p) ==
    IF p.unavailable THEN "unavailable"
    ELSE IF p.kind = "HUMAN" /\ p.member THEN "fine"
    ELSE "contract"

BadSubjects(ctx) ==
    {i \in DOMAIN ctx.access.items :
        validate_learner_subject(ctx.principals[ctx.access.items[i]]) # "fine"}

current_authorized_learners(ctx) ==
    IF ctx.human # "allowed" THEN ctx.human
    ELSE IF authorize(ctx.decision) # "allowed" THEN authorize(ctx.decision)
    ELSE IF _validate_provider_structure(ctx.access) # "fine"
         THEN _validate_provider_structure(ctx.access)
    ELSE IF BadSubjects(ctx) # {}
         THEN validate_learner_subject(ctx.principals[ctx.access.items[Least(BadSubjects(ctx))]])
    ELSE "fine"

_current_authorized_ids(ctx) ==
    IF current_authorized_learners(ctx) # "fine" THEN current_authorized_learners(ctx)
    ELSE IF Len(ctx.access.items) > MaxLearners THEN "capacity"
    ELSE "fine"

Authorized(ctx) == Answered(ctx.access)
----------------------------------------------------------------------------
(* The classes of the learners, asked of the school one learner after the  *)
(* other before the transaction begins.                                    *)

Memberships(answer) ==
    IF answer.fault # None \/ None \in Answered(answer) \/ Repeats(answer.items)
    THEN "unavailable"
    ELSE IF Len(answer.items) > MaxClassRefs THEN "capacity"
    ELSE "fine"

SchoolClasses(ctx, l) == Answered(ctx.school[l])

_read_memberships(ctx, learners) ==
    LET bad == {l \in learners : Memberships(ctx.school[l]) # "fine"}
    IN IF bad = {} THEN "fine" ELSE Memberships(ctx.school[Least(bad)])
----------------------------------------------------------------------------
(* The SELECTs, each limited to one row more than the request may use. *)

ReadUpTo(fetched, rows, limit) ==
    /\ fetched \subseteq rows
    /\ Cardinality(fetched) <= limit
    /\ Cardinality(fetched) < limit => fetched = rows

_request_assignment_row_limit(n) ==
    (IF n <= MaxLearners THEN n ELSE MaxLearners) * MaxAssignments
_request_dependent_row_limit(n, rows) == n * Cardinality(rows) * RowsPerPair

Active(ctx, db, learners) ==
    {a \in db.assignments : /\ \E l \in learners : a.class \in SchoolClasses(ctx, l)
                            /\ a.state = "ACTIVE"
                            /\ a.available_from <= ctx.now}
About(rows, learners, assignments) ==
    {t \in rows : t.learner \in learners /\ \E a \in assignments : a.id = t.assignment}

Reads(rd, ctx, db, learners) ==
    LET n == Cardinality(learners)
        dependent == _request_dependent_row_limit(n, rd.assignments)
    IN /\ ReadUpTo(rd.assignments, Active(ctx, db, learners),
                   _request_assignment_row_limit(n) + 1)
       /\ ReadUpTo(rd.attempts, About(db.attempts, learners, rd.assignments), dependent + 1)
       /\ ReadUpTo(rd.submissions, About(db.submissions, learners, rd.assignments), dependent + 1)

\* The rows of one learner.  An assignment that appears twice is no fact to show.
_visible_assignment_rows(ctx, rd, l) == {a \in rd.assignments : a.class \in SchoolClasses(ctx, l)}
Doubled(rows) == \E a, b \in rows : a # b /\ a.id = b.id

Visibility(ctx, rd, l) ==
    LET rows == _visible_assignment_rows(ctx, rd, l)
    IN IF Doubled(rows) THEN "unavailable"
       ELSE IF Cardinality(rows) > MaxAssignments THEN "capacity"
       ELSE "fine"

_require_bounded_rows(ctx, rd, learners) ==
    LET n == Cardinality(learners)
        bad == {l \in learners : Visibility(ctx, rd, l) # "fine"}
        dependent == _request_dependent_row_limit(n, rd.assignments)
    IN IF Cardinality(rd.assignments) > _request_assignment_row_limit(n) THEN "capacity"
       ELSE IF bad # {} THEN Visibility(ctx, rd, Least(bad))
       ELSE IF Cardinality(rd.attempts) > dependent \/ Cardinality(rd.submissions) > dependent
            THEN "capacity"
       ELSE "fine"
----------------------------------------------------------------------------
(* One card: an assignment and what the learner has done about it. *)

Matching(rows, l, a) == {t \in rows : t.learner = l /\ t.assignment = a.id}
Submitted(rd, l, a) == {t \in Matching(rd.attempts, l, a) : t.state = "SUBMITTED"}
Evidence(rd, l, a, t) == {s \in Matching(rd.submissions, l, a) : s.id = t.submission}

\* Attempts in a state this page does not know, and submitted attempts without
\* their submission, are not guessed about.
Puzzling(rd, l, a) ==
    \/ \E t \in Matching(rd.attempts, l, a) : t.state \notin {"IN_PROGRESS", "SUBMITTED"}
    \/ \E t \in Submitted(rd, l, a) :
          \/ Evidence(rd, l, a, t) = {}
          \/ \E s \in Evidence(rd, l, a, t) : s.attempt # t.id \/ s.at = None

Times(rd, l, a) == {s.at : s \in UNION {Evidence(rd, l, a, t) : t \in Submitted(rd, l, a)}}
Latest(S) == CHOOSE n \in S : \A m \in S : m <= n

_attempt_status(rd, l, a) ==
    IF \E t \in Matching(rd.attempts, l, a) : t.state = "IN_PROGRESS"
    THEN [status |-> "IN_PROGRESS", at |-> None]
    ELSE IF Times(rd, l, a) # {}
    THEN [status |-> "SUBMITTED", at |-> Latest(Times(rd, l, a))]
    ELSE [status |-> "NOT_STARTED", at |-> None]

\* The catalogue entry of the assignment; the version must be one of its content.
Catalog(db, a) == {c \in db.contents : c.id = a.content}
Described(db, a) ==
    /\ Catalog(db, a) # {}
    /\ \A c \in Catalog(db, a) : c.title # None /\ c.type # None
    /\ \E v \in db.versions : v.id = a.version
    /\ \A v \in db.versions : v.id = a.version => v.content = a.content

_assignment_fact(db, rd, l, a) ==
    [id |-> a.id, catalog |-> Catalog(db, a), available_from |-> a.available_from,
     due_at |-> a.due_at, attempt |-> _attempt_status(rd, l, a)]

_learner_facts(ctx, db, rd, l) ==
    {_assignment_fact(db, rd, l, a) : a \in _visible_assignment_rows(ctx, rd, l)}

Unreadable(ctx, db, rd, learners) ==
    \E l \in learners : \E a \in _visible_assignment_rows(ctx, rd, l) :
        ~Described(db, a) \/ Puzzling(rd, l, a)
----------------------------------------------------------------------------
(* The two pages.  A page that is refused shows no child. *)

Refused(reason) == [answer |-> reason, children |-> <<>>]

\* The application reads every fact again before it shows any.
_validate_assignment_fact(fact) ==
    /\ fact.attempt.status \in {"NOT_STARTED", "IN_PROGRESS", "SUBMITTED"}
    /\ fact.attempt.at = None <=> fact.attempt.status # "SUBMITTED"

Complete(ctx, db, rd, learners) ==
    \A l \in learners : /\ \A f \in _learner_facts(ctx, db, rd, l) : _validate_assignment_fact(f)
                        /\ ~Doubled(_learner_facts(ctx, db, rd, l))

_project(ctx, db, rd, learners) ==
    IF _read_memberships(ctx, learners) # "fine"
    THEN Refused(_read_memberships(ctx, learners))
    ELSE IF _require_bounded_rows(ctx, rd, learners) # "fine"
    THEN Refused(_require_bounded_rows(ctx, rd, learners))
    ELSE IF Unreadable(ctx, db, rd, learners) \/ ~Complete(ctx, db, rd, learners)
    THEN Refused("unavailable")
    ELSE [answer |-> "fine",
          children |-> [l \in learners |-> _learner_facts(ctx, db, rd, l)]]

\* An adult without children sees an empty home, and nothing is read for it: the
\* projection of no learners is the empty page.
get_home(ctx, db, rd) ==
    IF _current_authorized_ids(ctx) # "fine" THEN Refused(_current_authorized_ids(ctx))
    ELSE _project(ctx, db, rd, Authorized(ctx))

\* A learner who is not one of the adult's is not found, whoever it is.
get_child(ctx, db, rd, l) ==
    IF _current_authorized_ids(ctx) # "fine" THEN Refused(_current_authorized_ids(ctx))
    ELSE IF l \notin Authorized(ctx) THEN Refused("not found")
    ELSE _project(ctx, db, rd, {l})
=============================================================================

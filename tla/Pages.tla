------------------------------- MODULE Pages -------------------------------
(***************************************************************************)
(* The lists of the API and the pages they are read in.  Every list is one *)
(* statement over one table: the rows a filter lets through, in the order  *)
(* of a column and the id, up to a limit; one row more than the limit is   *)
(* read to see whether there is another page.  Four lists are continued    *)
(* from a signed cursor that names the last row of the page before.        *)
(*                                                                         *)
(* A client walks one list, page by page.  No lock and no snapshot holds   *)
(* the table still in between: rows are inserted, rewritten, moved in the  *)
(* order by a new updated_at, decided and published, classes are joined    *)
(* and left.  A time is taken by the application before its transaction    *)
(* commits, so a row may appear with any time at all.                      *)
(***************************************************************************)
EXTENDS Naturals, FiniteSets

CONSTANTS Ids,              \* UUIDs, as numbers: they order rows of the same time
          Tenants, Principals, ClassRefs, ContentTypes,
          Versions, NoVersion,
          Works, NoWork,
          NotGiven,              \* a filter that was not given
          Absent,           \* no row has the id
          SigningKeys, SigningKey, \* the keys cursors may be signed with; this deployment's
          NoCursor, Invalid \* no cursor was given; InvalidCursorError

VARIABLES rows,     \* the rows of content.contents, teaching.works, .assignments, .executions
          enrolled, \* the school's answer: which learner is in which class
          now,
          query,    \* the list the client walks, with its filters
          stage,    \* of the walk: a request is "asked" until it is answered
          cursor,   \* what the next request sends
          limit, seen, \* the limit of the running request, the time and the classes it observed
          page, more,  \* the answer: the places of its items, has_more
          listed,   \* the places of all the items of the walk
          total,    \* the number of items of its pages: a client that counts a list by
                    \* walking it, as the mission does with the review queue, takes it
          kept      \* the rows that were there when the walk began, and were left alone

vars == <<rows, enrolled, now, query, stage, cursor, limit, seen, page, more, listed, total,
          kept>>

MAX_LIST_LIMIT == 100
HOME_SLICE == 5

CursorLists == {"contents", "review_queue", "library", "student_assignments"}
Lists == CursorLists \cup {"works", "assignments", "executions"}

StewardshipStates == {"DRAFT", "GENERATED", "IN_REVIEW", "APPROVED", "ARCHIVED"}
AssignmentStates == {"ACTIVE", "CLOSED", "CANCELLED"}
ExecutionStates == {"IN_PROGRESS", "COMPLETED", "CANCELLED"}

ContentRow == [table : {"contents"}, tenant : Tenants, owner : Principals,
               content_type : ContentTypes, state : StewardshipStates,
               current : Versions \cup {NoVersion}, published : Versions \cup {NoVersion},
               decided : SUBSET Versions, created : Nat, updated : Nat]
WorkRow == [table : {"works"}, tenant : Tenants, owner : Principals, archived : BOOLEAN,
            updated : Nat]
AssignmentRow == [table : {"assignments"}, tenant : Tenants, owner : Principals,
                  class_ref : ClassRefs, state : AssignmentStates, available_from : Nat,
                  updated : Nat]
ExecutionRow == [table : {"executions"}, tenant : Tenants, owner : Principals,
                 work : Works \cup {NoWork}, class_ref : ClassRefs, state : ExecutionStates,
                 updated : Nat]
Rows == ContentRow \cup WorkRow \cup AssignmentRow \cup ExecutionRow

Queries == [list : Lists, tenant : Tenants, principal : Principals,
            content_type : ContentTypes \cup {NotGiven},
            state : StewardshipStates \cup AssignmentStates \cup ExecutionStates \cup {NotGiven},
            class_ref : ClassRefs \cup {NotGiven}, work : Works \cup {NotGiven},
            published_only : BOOLEAN, include_archived : BOOLEAN]
Observations == [now : Nat, class_refs : SUBSET ClassRefs]
Places == [key : Nat, id : Ids]

-----------------------------------------------------------------------------
\* What each list selects.

Owned(q, r) == r.tenant = q.tenant /\ r.owner = q.principal
Filter(wanted, has) == wanted = NotGiven \/ wanted = has

InContents(q, r) == r.table = "contents" /\ r.tenant = q.tenant
InReviewQueue(q, r) == /\ r.table = "contents" /\ Owned(q, r)
                       /\ r.state = "IN_REVIEW" /\ r.current # NoVersion
                       /\ r.current \notin r.decided
InLibrary(q, r) == /\ r.table = "contents" /\ Owned(q, r)
                   /\ Filter(q.content_type, r.content_type) /\ Filter(q.state, r.state)
                   /\ q.published_only => r.published # NoVersion
InCurrentAssignments(q, o, r) == /\ r.table = "assignments" /\ r.tenant = q.tenant
                                 /\ r.class_ref \in o.class_refs
                                 /\ r.state = "ACTIVE" /\ r.available_from <= o.now
InWorks(q, r) == r.table = "works" /\ Owned(q, r) /\ (r.archived => q.include_archived)
InAssignments(q, r) == r.table = "assignments" /\ Owned(q, r) /\ Filter(q.state, r.state)
InExecutions(q, r) == /\ r.table = "executions" /\ Owned(q, r)
                      /\ Filter(q.work, r.work) /\ Filter(q.class_ref, r.class_ref)
                      /\ Filter(q.state, r.state)

Selects(q, o, r) ==
    CASE q.list = "contents"            -> InContents(q, r)
      [] q.list = "review_queue"        -> InReviewQueue(q, r)
      [] q.list = "library"             -> InLibrary(q, r)
      [] q.list = "student_assignments" -> InCurrentAssignments(q, o, r)
      [] q.list = "works"               -> InWorks(q, r)
      [] q.list = "assignments"         -> InAssignments(q, r)
      [] OTHER                          -> InExecutions(q, r)

\* The ids of the rows a request that observed o finds.
Found(q, o) == {i \in Ids : rows[i] # Absent /\ Selects(q, o, rows[i])}

\* The classes of the learner, which one list asks the school (its answer is e) for.
ClassesOf(q, e) == {c \in ClassRefs : <<q.tenant, q.principal, c>> \in e}
Observed(q) == [now |-> now, class_refs |-> ClassesOf(q, enrolled)]

-----------------------------------------------------------------------------
\* The order of a list and the pages of it.

Place(l, i) == [key |-> IF l = "contents" THEN rows[i].created ELSE rows[i].updated, id |-> i]

Less(a, b) == a.key < b.key \/ (a.key = b.key /\ a.id < b.id)

\* a is listed before b: the review queue is read from its oldest row.
Comes(l, a, b) == IF l = "review_queue" THEN Less(a, b) ELSE Less(b, a)

Ahead(l, places, p) == {o \in places : Comes(l, o, p)}

\* ORDER BY .. LIMIT n.
Limited(l, places, n) == {p \in places : Cardinality(Ahead(l, places, p)) < n}

\* The page of a request: n + 1 rows are read and n are answered.
Items(l, places, n) == Limited(l, places, n)
HasMore(l, places, n) == Limited(l, places, n + 1) # Items(l, places, n)

LastOf(l, places) == CHOOSE p \in places : \A o \in places \ {p} : Comes(l, o, p)

-----------------------------------------------------------------------------
\* The cursors: a signed payload that names its list by its fields.

Payload(l, tenant, p) ==
    CASE l = "contents" ->
           [v |-> 1, tenant_id |-> tenant, created_at |-> p.key, content_id |-> p.id]
      [] l = "review_queue" ->
           [v |-> 1, queue_type |-> "teacher_os_review_queue", tenant_id |-> tenant,
            submitted_at |-> p.key, content_id |-> p.id]
      [] l = "library" ->
           [v |-> 1, cursor_type |-> "teacher_os_library", tenant_id |-> tenant,
            updated_at |-> p.key, content_id |-> p.id]
      [] OTHER ->
           [v |-> 1, cursor_type |-> "student_os_assignments", tenant_id |-> tenant,
            updated_at |-> p.key, assignment_id |-> p.id]

encode(l, tenant, p, key) == [payload |-> Payload(l, tenant, p), signed |-> key]

\* The fields a decoder reads; a payload without one of them is refused.
Needs(l) == CASE l = "contents"     -> {"v", "tenant_id", "content_id", "created_at"}
              [] l = "review_queue" ->
                   {"v", "queue_type", "tenant_id", "content_id", "submitted_at"}
              [] l = "library"      ->
                   {"v", "cursor_type", "tenant_id", "content_id", "updated_at"}
              [] OTHER              ->
                   {"v", "cursor_type", "tenant_id", "assignment_id", "updated_at"}

\* The decoder of the contents list asks for no type.
NamesList(l, d) == CASE l = "contents"     -> TRUE
                     [] l = "review_queue" -> d.queue_type = "teacher_os_review_queue"
                     [] l = "library"      -> d.cursor_type = "teacher_os_library"
                     [] OTHER              -> d.cursor_type = "student_os_assignments"

Named(l, d) == CASE l = "contents"     -> [key |-> d.created_at, id |-> d.content_id]
                 [] l = "review_queue" -> [key |-> d.submitted_at, id |-> d.content_id]
                 [] l = "library"      -> [key |-> d.updated_at, id |-> d.content_id]
                 [] OTHER              -> [key |-> d.updated_at, id |-> d.assignment_id]

Accepts(l, token, tenant) ==
    LET d == token.payload
    IN /\ token.signed = SigningKey
       /\ Needs(l) \subseteq DOMAIN d
       /\ d.v = 1 /\ NamesList(l, d) /\ d.tenant_id = tenant

decode(l, token, tenant) ==
    IF Accepts(l, token, tenant) THEN Named(l, token.payload) ELSE Invalid

-----------------------------------------------------------------------------
\* The reads of one row.

get_content(tenant, i) == rows[i] # Absent /\ rows[i].table = "contents" /\ rows[i].tenant = tenant

get_library_item(q, i) == get_content(q.tenant, i) /\ rows[i].owner = q.principal

\* Where a library item leads the teacher to review it.
review_version_id(i) == IF rows[i].state = "IN_REVIEW" THEN rows[i].current ELSE NoVersion

get_queue_item(q, i, v) == /\ get_library_item(q, i)
                           /\ rows[i].state = "IN_REVIEW" /\ rows[i].current = v
                           /\ v # NoVersion /\ v \notin rows[i].decided

\* A Work, an assignment or an execution is shown to its teacher.
get_owned(q, i) ==
    IF rows[i] = Absent THEN "not_found"
    ELSE IF rows[i].table # q.list \/ rows[i].tenant # q.tenant THEN "not_found"
    ELSE IF rows[i].owner = q.principal THEN "fine" ELSE "forbidden"

\* An assignment is shown to the learners of its class while it is current.
get_current_assignment(q, o, i) ==
    IF rows[i] = Absent THEN "not_found"
    ELSE IF rows[i].table # "assignments" \/ rows[i].tenant # q.tenant THEN "not_found"
    ELSE IF rows[i].class_ref \notin o.class_refs \/ rows[i].state # "ACTIVE" THEN "not_found"
    ELSE IF rows[i].available_from > o.now THEN "not_yet_available" ELSE "fine"

\* The home page of a learner: the first items, and how many there are.
home(q) == LET found == {Place(q.list, i) : i \in Found(q, Observed(q))}
           IN [items |-> Items(q.list, found, HOME_SLICE), count |-> Cardinality(found)]

\* The mission of a teacher: how many active Works he has, the one updated last,
\* and what to do next.  q is the list of his active Works, pending the number of
\* reviews that wait, counted before.
mission(q, pending) ==
    LET found == {Place(q.list, i) : i \in Found(q, Observed(q))}
        latest == Limited(q.list, found, 1)
    IN [active_work_count |-> Cardinality(found), continue_work |-> latest,
        hero |-> IF pending > 0 THEN "REVIEW"
                 ELSE IF latest # {} THEN "CONTINUE_WORK" ELSE "PREPARE_TOMORROW"]

-----------------------------------------------------------------------------
Init == /\ rows \in [Ids -> Rows \cup {Absent}]
        /\ enrolled \in SUBSET (Tenants \X Principals \X ClassRefs)
        /\ now \in Nat /\ query \in Queries
        /\ stage = "idle" /\ cursor = NoCursor
        /\ limit = 1 /\ seen = Observed(query)
        /\ page = {} /\ more = FALSE /\ listed = {} /\ total = 0 /\ kept = {}

\* A client starts to walk a list.
Begin(q) == /\ query' = q /\ stage' = "ready" /\ cursor' = NoCursor
            /\ page' = {} /\ more' = FALSE /\ listed' = {} /\ total' = 0
            /\ kept' = Found(q, Observed(q))
            /\ UNCHANGED <<rows, enrolled, now, limit, seen>>

\* A request for the next page observes the time and the classes; a limit that
\* is out of range is refused before anything is read.
Ask(n) == /\ stage = "ready" /\ n \in 1..MAX_LIST_LIMIT
          /\ stage' = "asked" /\ limit' = n /\ seen' = Observed(query)
          /\ UNCHANGED <<rows, enrolled, now, query, cursor, page, more, listed, total, kept>>

\* The places the statement of the running request selects.
Selected ==
    {p \in {Place(query.list, i) : i \in Found(query, seen)} :
       cursor # NoCursor => Comes(query.list, decode(query.list, cursor, query.tenant), p)}

Answer ==
    LET items == Items(query.list, Selected, limit)
        another == HasMore(query.list, Selected, limit)
        continues == another /\ query.list \in CursorLists
    IN /\ stage = "asked"
       /\ cursor # NoCursor => decode(query.list, cursor, query.tenant) # Invalid
       /\ page' = items /\ more' = another /\ listed' = listed \cup items
       /\ total' = total + Cardinality(items)
       /\ stage' = IF continues THEN "ready" ELSE "ended"
       /\ cursor' = IF continues
                    THEN encode(query.list, query.tenant, LastOf(query.list, items), SigningKey)
                    ELSE NoCursor
       /\ UNCHANGED <<rows, enrolled, now, query, limit, seen, kept>>

\* What the writers of the other components do to a row.  A time is the
\* writer's own, and decisions are only added.
Insert(i, r) == /\ rows[i] = Absent
                /\ rows' = [rows EXCEPT ![i] = r] /\ kept' = kept \ {i}
                /\ UNCHANGED <<enrolled, now, query, stage, cursor, limit, seen, page, more, listed,
                                total>>

SameIdentity(old, new) ==
    /\ new.table = old.table /\ new.tenant = old.tenant /\ new.owner = old.owner
    /\ old.table = "contents" => /\ new.content_type = old.content_type
                                 /\ new.created = old.created
                                 /\ old.decided \subseteq new.decided

Rewrite(i, r) == /\ rows[i] # Absent /\ SameIdentity(rows[i], r)
                 /\ rows' = [rows EXCEPT ![i] = r] /\ kept' = kept \ {i}
                 /\ UNCHANGED <<enrolled, now, query, stage, cursor, limit, seen, page, more,
                                listed, total>>

\* The school moves learners; a row of a class that was left is not kept.
Enrol(e) == /\ enrolled' = e
            /\ LET o == [now |-> now, class_refs |-> ClassesOf(query, e)]
               IN kept' = {i \in kept : Selects(query, o, rows[i])}
            /\ UNCHANGED <<rows, now, query, stage, cursor, limit, seen, page, more, listed,
                                total>>

Tick(t) == /\ t > now /\ now' = t
           /\ UNCHANGED <<rows, enrolled, query, stage, cursor, limit, seen, page, more, listed,
                          total, kept>>

Next == \/ \E q \in Queries : Begin(q)
        \/ \E n \in 1..MAX_LIST_LIMIT : Ask(n)
        \/ Answer
        \/ \E i \in Ids, r \in Rows : Insert(i, r) \/ Rewrite(i, r)
        \/ \E e \in SUBSET (Tenants \X Principals \X ClassRefs) : Enrol(e)
        \/ \E t \in Nat : Tick(t)

Spec == Init /\ [][Next]_vars

-----------------------------------------------------------------------------
\* A walk that has come to its end has listed every row that was there when it
\* began and that nobody touched meanwhile, at its place and at no other.
WholeWalkListsKept ==
    stage = "ended" /\ ~more =>
        \A i \in kept : {p \in listed : p.id = i} = {Place(query.list, i)}

\* No page repeats an item of the pages before it at the place it had there: a
\* row is listed again only if its time has changed meanwhile.
NothingTwice == [][Answer => page' \cap listed = {}]_vars

\* What a walk counts is how many items it has listed, each place once.
CountsItsItems == total = Cardinality(listed)

\* has_more is said exactly when the statement selects a row the page leaves out,
\* and no page is longer than its limit.
MoreIsTrue == [][Answer => /\ more' <=> page' # Selected
                           /\ Cardinality(page') <= limit]_vars

\* A walk is never refused the cursor its last answer gave it.
OwnCursorAccepted == stage = "asked" /\ cursor # NoCursor =>
                         decode(query.list, cursor, query.tenant) # Invalid

=============================================================================

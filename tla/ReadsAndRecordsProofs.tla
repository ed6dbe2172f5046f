--------------------------- MODULE ReadsAndRecordsProofs ---------------------------
(***************************************************************************)
(* What is read from the tables and what is recorded in them, whatever is  *)
(* there: the pages of a list, the artifacts of a Work, a parent's pages,  *)
(* a principal's report, the audit ledger over its migrations, the import  *)
(* of migrated content, and the authority over assets.                     *)
(***************************************************************************)
EXTENDS Pages, WorkArtifacts, ParentIntelligence, SchoolIntelligence, AuditLedger,
        MigrationImport, AssetCatalog,
        FiniteSetTheorems, WellFoundedInduction, TLAPS

-----------------------------------------------------------------------------
(***************************************************************************)
(* The pages of a list, for any table, any limits and any changes between  *)
(* the pages.  No page rests on a snapshot: the proof uses the order of the *)
(* places only, and that a row nobody touches keeps its place.  And the list *)
(* of the artifacts of a Work, whatever has become of the artifacts.       *)
(***************************************************************************)

\* UUIDs are numbers of 128 bits; the markers are no values of the program.
Constants == /\ IsFiniteSet(Ids) /\ Ids \subseteq Nat
             /\ Absent \notin Rows /\ Invalid \notin Places
             /\ \A l \in CursorLists, t \in Tenants, p \in Places :
                    NoCursor # encode(l, t, p, SigningKey)

-----------------------------------------------------------------------------
\* Every list has a strict and total order of its places.
LEMMA Order ==
    ASSUME NEW l, Ids \subseteq Nat
    PROVE  /\ \A a \in Places : ~Comes(l, a, a)
           /\ \A a, b, c \in Places : Comes(l, a, b) /\ Comes(l, b, c) => Comes(l, a, c)
           /\ \A a, b \in Places : a = b \/ Comes(l, a, b) \/ Comes(l, b, a)
<1>1. \A a \in Places : a.key \in Nat /\ a.id \in Nat
  BY DEF Places
<1>2. \A a, b \in Places : a.key = b.key /\ a.id = b.id => a = b
  BY DEF Places
<1>3. \A a \in Places : ~Less(a, a)
  BY <1>1 DEF Less
<1>4. \A a, b, c \in Places : Less(a, b) /\ Less(b, c) => Less(a, c)
  BY <1>1 DEF Less
<1>5. \A a, b \in Places : a = b \/ Less(a, b) \/ Less(b, a)
  BY <1>1, <1>2 DEF Less
<1>6. QED
  BY <1>3, <1>4, <1>5 DEF Comes

\* Finitely many places have a last one.
LEMMA LastExists ==
    ASSUME NEW l, Ids \subseteq Nat, NEW S, IsFiniteSet(S), S \subseteq Places, S # {}
    PROVE  \E p \in S : \A o \in S \ {p} : Comes(l, o, p)
<1> DEFINE Ends(T) == \E p \in T : \A o \in T \ {p} : Comes(l, o, p)
           Bad == {T \in FiniteSubsetsOf(S) : T # {} /\ ~Ends(T)}
<1>1. Bad = {}
  <2>1. SUFFICES ASSUME Bad # {} PROVE FALSE
    OBVIOUS
  <2>2. PICK T \in Bad : \A U \in Bad : ~(<<U, T>> \in StrictSubsetOrdering(S))
    <3>1. Bad \subseteq FiniteSubsetsOf(S)
      OBVIOUS
    <3> HIDE DEF Bad
    <3>2. QED
      BY <2>1, <3>1, FS_StrictSubsetOrderingWellFounded, WFMin
  <2>3. PICK x \in T : TRUE
    OBVIOUS
  <2>4. T \subseteq S /\ IsFiniteSet(T) /\ T \ {x} \subseteq S /\ IsFiniteSet(T \ {x})
    BY FS_RemoveElement DEF FiniteSubsetsOf
  <2>5. T \ {x} \notin Bad
    BY <2>2, <2>3, <2>4 DEF StrictSubsetOrdering
  <2>6. T \ {x} = {} \/ Ends(T \ {x})
    BY <2>4, <2>5 DEF FiniteSubsetsOf
  <2>7. CASE T \ {x} = {}
    BY <2>3, <2>7
  <2>8. CASE Ends(T \ {x})
    <3>1. PICK p \in T \ {x} : \A o \in (T \ {x}) \ {p} : Comes(l, o, p)
      BY <2>8
    <3>2. T \subseteq Places /\ p \in Places /\ x \in Places
      BY <2>3, <2>4
    <3>3. CASE Comes(l, x, p)
      <4>1. \A o \in T \ {p} : Comes(l, o, p)
        BY <3>1, <3>3
      <4>2. QED
        BY <4>1
    <3>4. CASE Comes(l, p, x)
      <4>1. \A o \in T \ {x} : Comes(l, o, x)
        BY <3>1, <3>2, <3>4, Order
      <4>2. QED
        BY <2>3, <4>1
    <3>5. QED
      BY <3>1, <3>2, <3>3, <3>4, Order
  <2>9. QED
    BY <2>6, <2>7, <2>8
<1>2. S \in FiniteSubsetsOf(S)
  BY DEF FiniteSubsetsOf
<1>3. Ends(S)
  BY <1>1, <1>2
<1>4. QED
  BY <1>3

\* Finitely many places have a first one.
LEMMA FirstExists ==
    ASSUME NEW l, Ids \subseteq Nat, NEW S, IsFiniteSet(S), S \subseteq Places, S # {}
    PROVE  \E p \in S : \A o \in S \ {p} : Comes(l, p, o)
<1> DEFINE k == IF l = "review_queue" THEN "library" ELSE "review_queue"
<1>1. \E p \in S : \A o \in S \ {p} : Comes(k, o, p)
  BY LastExists
<1>2. \A o, p : Comes(k, o, p) <=> Comes(l, p, o)
  BY DEF Comes
<1>3. QED
  BY <1>1, <1>2

\* What a statement with ORDER BY and LIMIT n leaves of a set.
LEMMA LimitedPages ==
    ASSUME NEW l, Ids \subseteq Nat, NEW S, IsFiniteSet(S), S \subseteq Places,
           NEW n \in Nat
    PROVE  /\ \A p \in Limited(l, S, n), o \in S :
                  Comes(l, o, p) => o \in Limited(l, S, n)
           /\ IsFiniteSet(Limited(l, S, n)) /\ Cardinality(Limited(l, S, n)) <= n
<1> DEFINE L == Limited(l, S, n)
<1>1. \A p \in S : IsFiniteSet(Ahead(l, S, p)) /\ Cardinality(Ahead(l, S, p)) \in Nat
  BY FS_Subset, FS_CardinalityType DEF Ahead
<1>2. ASSUME NEW p \in L, NEW o \in S, Comes(l, o, p)
      PROVE  o \in L
  <2>1. p \in S /\ Ahead(l, S, o) \subseteq Ahead(l, S, p)
    BY <1>2, Order DEF Ahead, Limited
  <2>2. Cardinality(Ahead(l, S, o)) <= Cardinality(Ahead(l, S, p))
    BY <1>1, <2>1, FS_Subset
  <2>3. Cardinality(Ahead(l, S, p)) < n
    BY <1>2 DEF Limited
  <2>4. QED
    BY <1>1, <1>2, <2>1, <2>2, <2>3 DEF Limited
<1>3. L \subseteq S /\ IsFiniteSet(L)
  BY FS_Subset DEF Limited
<1>4. CASE L = {}
  BY <1>2, <1>3, <1>4, FS_EmptySet
<1>5. CASE L # {}
  <2>1. PICK m \in L : \A o \in L \ {m} : Comes(l, o, m)
    BY <1>3, <1>5, LastExists
  <2>2. L = Ahead(l, S, m) \cup {m}
    BY <1>2, <1>3, <2>1 DEF Ahead
  <2>3. Cardinality(Ahead(l, S, m)) < n /\ m \notin Ahead(l, S, m)
    BY <1>3, <2>1, Order DEF Ahead, Limited
  <2>4. Cardinality(L) = Cardinality(Ahead(l, S, m)) + 1
    BY <1>1, <1>3, <2>1, <2>2, <2>3, FS_AddElement
  <2>5. Cardinality(L) <= n
    BY <1>1, <1>3, <2>1, <2>3, <2>4
  <2>6. QED
    BY <1>2, <1>3, <2>5
<1>6. QED
  BY <1>4, <1>5

\* The row that is read beyond the limit tells whether the page is the rest.
LEMMA MoreMeansMore ==
    ASSUME NEW l, Ids \subseteq Nat, NEW S, IsFiniteSet(S), S \subseteq Places,
           NEW n \in Nat \ {0}
    PROVE  /\ HasMore(l, S, n) <=> Items(l, S, n) # S
           /\ S # {} => Items(l, S, n) # {}
<1> DEFINE L == Limited(l, S, n)
<1>1. \A p \in S : IsFiniteSet(Ahead(l, S, p)) /\ Cardinality(Ahead(l, S, p)) \in Nat
  BY FS_Subset, FS_CardinalityType DEF Ahead
<1>2. L \subseteq S /\ L \subseteq Limited(l, S, n + 1) /\ Limited(l, S, n + 1) \subseteq S
  BY <1>1 DEF Limited
<1>3. ASSUME L # S
      PROVE  Limited(l, S, n + 1) # L
  <2>1. S \ L # {} /\ IsFiniteSet(S \ L) /\ S \ L \subseteq Places
    BY <1>2, <1>3, FS_Subset
  <2>2. PICK r \in S \ L : \A o \in (S \ L) \ {r} : Comes(l, r, o)
    BY <2>1, FirstExists
  <2>3. Ahead(l, S, r) \subseteq L
    BY <2>2, Order DEF Ahead
  <2>4. IsFiniteSet(L) /\ Cardinality(L) <= n /\ Cardinality(L) \in Nat
    BY LimitedPages, FS_CardinalityType
  <2>5. Cardinality(Ahead(l, S, r)) <= n
    <3>1. Cardinality(Ahead(l, S, r)) <= Cardinality(L)
      BY <2>3, <2>4, FS_Subset
    <3>2. QED
      BY <1>1, <2>2, <2>4, <3>1
  <2>6. r \in Limited(l, S, n + 1)
    BY <1>1, <2>2, <2>5 DEF Limited
  <2>7. QED
    BY <2>2, <2>6
<1>4. ASSUME S # {}
      PROVE  L # {}
  <2>1. PICK f \in S : \A o \in S \ {f} : Comes(l, f, o)
    BY <1>4, FirstExists
  <2>2. Ahead(l, S, f) = {}
    BY <2>1, Order DEF Ahead
  <2>3. Cardinality(Ahead(l, S, f)) = 0
    BY <2>2, FS_EmptySet
  <2>4. QED
    BY <2>1, <2>3 DEF Limited
<1>5. QED
  BY <1>2, <1>3, <1>4 DEF HasMore, Items

\* The chosen last place is behind all others.
LEMMA LastIsLast ==
    ASSUME NEW l, Ids \subseteq Nat, NEW S, IsFiniteSet(S), S \subseteq Places, S # {}
    PROVE  LastOf(l, S) \in S /\ \A o \in S \ {LastOf(l, S)} : Comes(l, o, LastOf(l, S))
BY LastExists DEF LastOf

-----------------------------------------------------------------------------
\* Each payload has the fields of its own list, and a decoder needs a field of
\* its list that the others lack or carry with another type.
LEMMA PayloadsDiffer ==
    ASSUME NEW k \in CursorLists, NEW l \in CursorLists, NEW t, NEW p
    PROVE  LET d == Payload(k, t, p)
           IN /\ d.v = 1 /\ d.tenant_id = t
              /\ Needs(l) \subseteq DOMAIN d /\ NamesList(l, d) <=> k = l
              /\ Named(k, d) = [key |-> p.key, id |-> p.id]
<1>1. CASE k = "contents"
  BY <1>1, SMT DEF CursorLists, Payload, Needs, NamesList, Named
<1>2. CASE k = "review_queue"
  BY <1>2, SMT DEF CursorLists, Payload, Needs, NamesList, Named
<1>3. CASE k = "library"
  BY <1>3, SMT DEF CursorLists, Payload, Needs, NamesList, Named
<1>4. CASE k = "student_assignments"
  BY <1>4, SMT DEF CursorLists, Payload, Needs, NamesList, Named
<1>5. QED
  BY <1>1, <1>2, <1>3, <1>4 DEF CursorLists

\* A cursor is accepted by the list it was given for, in the tenant it was given
\* in, by the deployment that signed it, and by nothing else; it then names the
\* place it was made of.
THEOREM CursorBound ==
    ASSUME Constants, NEW k \in CursorLists, NEW l \in CursorLists,
           NEW t \in Tenants, NEW u \in Tenants, NEW p \in Places, NEW key \in SigningKeys
    PROVE  /\ decode(l, encode(k, t, p, key), u) # Invalid
                 <=> k = l /\ t = u /\ key = SigningKey
           /\ decode(k, encode(k, t, p, SigningKey), t) = p
<1>1. p = [key |-> p.key, id |-> p.id] /\ p # Invalid
  BY DEF Places, Constants
<1>2. Accepts(l, encode(k, t, p, key), u) <=> k = l /\ t = u /\ key = SigningKey
  BY PayloadsDiffer DEF Accepts, encode
<1>3. Accepts(k, encode(k, t, p, SigningKey), t)
  BY PayloadsDiffer DEF Accepts, encode
<1>4. Named(k, encode(k, t, p, SigningKey).payload) = p
  BY <1>1, PayloadsDiffer DEF encode
<1>5. Named(k, encode(k, t, p, key).payload) = p
  BY <1>1, PayloadsDiffer DEF encode
<1>6. QED
  BY <1>1, <1>2, <1>3, <1>4, <1>5 DEF decode

-----------------------------------------------------------------------------
TypeOK == /\ rows \in [Ids -> Rows \cup {Absent}]
          /\ enrolled \subseteq Tenants \X Principals \X ClassRefs /\ now \in Nat
          /\ query \in Queries /\ stage \in {"idle", "ready", "asked", "ended"}
          /\ limit \in 1..MAX_LIST_LIMIT /\ seen \in Observations
          /\ page \subseteq Places /\ more \in BOOLEAN
          /\ listed \subseteq Places /\ kept \subseteq Ids

\* The place the walk has come to.
At == decode(query.list, cursor, query.tenant)

\* The cursor is one an answer gave, of the last place the walk has listed.
CursorOfWalk ==
    /\ cursor # NoCursor =>
          /\ query.list \in CursorLists /\ stage \in {"ready", "asked"}
          /\ At \in Places /\ \A o \in listed : o = At \/ Comes(query.list, o, At)
    /\ cursor = NoCursor /\ stage \in {"ready", "asked"} => listed = {}

\* What is kept is selected by every request of the walk.
KeptSelected ==
    \A i \in kept : /\ rows[i] # Absent /\ Selects(query, Observed(query), rows[i])
                    /\ stage = "asked" => Selects(query, seen, rows[i])

\* What is kept is listed or still ahead, and is listed at its one place.
KeptCovered ==
    \A i \in kept :
       /\ stage \in {"ready", "asked"} /\ cursor # NoCursor =>
             Place(query.list, i) \in listed \/ Comes(query.list, At, Place(query.list, i))
       /\ stage = "ended" /\ ~more => Place(query.list, i) \in listed
       /\ \A p \in listed : p.id = i => p = Place(query.list, i)

Inv == TypeOK /\ CursorOfWalk /\ KeptSelected /\ KeptCovered

\* A row that a list selects has a place in it.
LEMMA PlaceOfSelected ==
    ASSUME NEW q \in Queries, NEW o, NEW i \in Ids, rows[i] \in Rows,
           Selects(q, o, rows[i])
    PROVE  Place(q.list, i) \in Places /\ Place(q.list, i).id = i
<1>1. q.list = "contents" => rows[i].table = "contents"
  BY DEF Selects, InContents
<1>2. rows[i].table = "contents" => rows[i].created \in Nat
  BY DEF Rows, ContentRow, WorkRow, AssignmentRow, ExecutionRow
<1>3. rows[i].updated \in Nat
  BY DEF Rows, ContentRow, WorkRow, AssignmentRow, ExecutionRow
<1>4. QED
  BY <1>1, <1>2, <1>3 DEF Place, Places

\* The places the running request selects.
LEMMA SelectedPlaces ==
    ASSUME Constants, TypeOK
    PROVE  /\ Selected \subseteq Places /\ IsFiniteSet(Selected)
           /\ \A p \in Selected : p.id \in Found(query, seen) /\ p = Place(query.list, p.id)
<1> DEFINE F == Found(query, seen)
           f == [i \in F |-> Place(query.list, i)]
<1>1. \A i \in F : i \in Ids /\ rows[i] \in Rows /\ Selects(query, seen, rows[i])
  BY DEF Found, TypeOK
<1>2. \A i \in F : Place(query.list, i) \in Places /\ Place(query.list, i).id = i
  BY <1>1, PlaceOfSelected DEF TypeOK
<1>3. IsFiniteSet(F)
  BY FS_Subset DEF Found, Constants
<1> DEFINE T == {Place(query.list, i) : i \in F}
<1>4. f \in Surjection(F, T)
  BY DEF Surjection
<1>5. IsFiniteSet(T)
  <2> HIDE DEF f, T
  <2>1. QED
    BY <1>3, <1>4, FS_Surjection
<1>6. Selected \subseteq T
  BY DEF Selected
<1>7. IsFiniteSet(Selected)
  <2> HIDE DEF T
  <2>1. QED
    BY <1>5, <1>6, FS_Subset
<1>8. QED
  BY <1>2, <1>6, <1>7

\* What one answer lists: the places right behind the cursor.
LEMMA AnswerPage ==
    ASSUME Constants, TypeOK
    PROVE  LET items == Items(query.list, Selected, limit)
               last == LastOf(query.list, items)
           IN /\ items \subseteq Selected /\ IsFiniteSet(items)
              /\ Cardinality(items) <= limit
              /\ \A p \in items, o \in Selected : Comes(query.list, o, p) => o \in items
              /\ HasMore(query.list, Selected, limit) <=> items # Selected
              /\ HasMore(query.list, Selected, limit) =>
                     last \in items /\ \A o \in items : o = last \/ Comes(query.list, o, last)
<1> DEFINE l == query.list
           items == Items(l, Selected, limit)
<1>1. Selected \subseteq Places /\ IsFiniteSet(Selected) /\ Ids \subseteq Nat
  BY SelectedPlaces DEF Constants
<1>2. limit \in Nat /\ limit \in Nat \ {0}
  BY DEF TypeOK, MAX_LIST_LIMIT
<1>3. /\ \A p \in items, o \in Selected : Comes(l, o, p) => o \in items
      /\ IsFiniteSet(items) /\ Cardinality(items) <= limit
  BY <1>1, <1>2, LimitedPages DEF Items
<1>4. /\ HasMore(l, Selected, limit) <=> items # Selected
      /\ Selected # {} => items # {}
  BY <1>1, <1>2, MoreMeansMore
<1>5. items \subseteq Selected
  BY DEF Items, Limited
<1>6. items # {} => LastOf(l, items) \in items
                    /\ \A o \in items \ {LastOf(l, items)} : Comes(l, o, LastOf(l, items))
  BY <1>1, <1>3, <1>5, LastIsLast
<1>7. HasMore(l, Selected, limit) => items # {}
  BY <1>4, <1>5
<1>8. QED
  BY <1>3, <1>4, <1>5, <1>6, <1>7

\* The invariant holds before any walk.
LEMMA InitInv == ASSUME Constants, Init PROVE Inv
<1>1. Observed(query) \in Observations
  BY DEF Init, Observed, Observations, ClassesOf
<1>2. enrolled \subseteq Tenants \X Principals \X ClassRefs
  BY DEF Init
<1>3. 1 \in 1..MAX_LIST_LIMIT
  BY DEF MAX_LIST_LIMIT
<1>4. TypeOK
  BY <1>1, <1>2, <1>3 DEF Init, TypeOK
<1>5. QED
  BY <1>4 DEF Init, Inv, CursorOfWalk, KeptSelected, KeptCovered

\* A new walk has listed nothing and ignores the cursors of the last.
LEMMA BeginInv == ASSUME Constants, Inv, NEW q \in Queries, Begin(q) PROVE Inv'
<1>1. TypeOK'
  BY DEF Inv, TypeOK, Begin, Found
<1>2. CursorOfWalk'
  BY DEF Begin, CursorOfWalk
<1>3. KeptSelected'
  BY DEF Begin, KeptSelected, Found, Observed
<1>4. KeptCovered'
  BY DEF Begin, KeptCovered
<1>5. QED
  BY <1>1, <1>2, <1>3, <1>4 DEF Inv

\* A request observes time and classes that select everything kept.
LEMMA AskInv == ASSUME Constants, Inv, NEW n \in 1..MAX_LIST_LIMIT, Ask(n) PROVE Inv'
<1>1. Observed(query) \in Observations
  BY DEF Inv, TypeOK, Observed, Observations, ClassesOf
<1>2. TypeOK'
  BY <1>1 DEF Inv, TypeOK, Ask
<1>3. CursorOfWalk'
  BY DEF Inv, Ask, CursorOfWalk, At
<1>4. KeptSelected'
  BY DEF Inv, Ask, KeptSelected, Observed
<1>5. KeptCovered'
  BY DEF Inv, Ask, KeptCovered, At, Place
<1>6. QED
  BY <1>2, <1>3, <1>4, <1>5 DEF Inv

\* An answer lists what is kept up to its cursor, or all of it.
LEMMA AnswerInv == ASSUME Constants, Inv, Answer PROVE Inv'
<1> DEFINE l == query.list
           items == Items(l, Selected, limit)
           last == LastOf(l, items)
           another == HasMore(l, Selected, limit)
           continues == another /\ l \in CursorLists
<1>1. TypeOK /\ CursorOfWalk /\ KeptSelected /\ KeptCovered
  BY DEF Inv
<1>2. /\ Selected \subseteq Places
      /\ \A p \in Selected : p.id \in Found(query, seen) /\ p = Place(l, p.id)
  BY <1>1, SelectedPlaces
<1>3. /\ items \subseteq Selected
      /\ \A p \in items, o \in Selected : Comes(l, o, p) => o \in items
      /\ another <=> items # Selected
      /\ another => last \in items /\ \A o \in items : o = last \/ Comes(l, o, last)
  BY <1>1, AnswerPage
<1>4. /\ stage = "asked" /\ page' = items /\ more' = another /\ listed' = listed \cup items
      /\ stage' = IF continues THEN "ready" ELSE "ended"
      /\ cursor' = IF continues THEN encode(l, query.tenant, last, SigningKey) ELSE NoCursor
      /\ UNCHANGED <<rows, enrolled, now, query, limit, seen, kept>>
  BY DEF Answer
<1>5. Ids \subseteq Nat /\ query.tenant \in Tenants
  BY <1>1 DEF Constants, TypeOK, Queries
<1>6. TypeOK'
  <2> HIDE DEF items, another, continues, last, l
  <2>1. items \subseteq Places /\ another \in BOOLEAN
    BY <1>2, <1>3 DEF another, HasMore
  <2>2. stage' \in {"idle", "ready", "asked", "ended"}
    BY <1>4
  <2>3. QED
    BY <1>1, <1>4, <2>1, <2>2 DEF TypeOK
<1>7. continues => cursor' # NoCursor /\ At' = last /\ last \in Places
  <2>1. SUFFICES ASSUME continues PROVE cursor' # NoCursor /\ At' = last /\ last \in Places
    OBVIOUS
  <2>2. last \in Places /\ l \in CursorLists
    BY <1>2, <1>3, <2>1
  <2> HIDE DEF last
  <2>3. cursor' = encode(l, query.tenant, last, SigningKey)
    BY <1>4, <2>1
  <2>4. cursor' # NoCursor
    BY <1>5, <2>2, <2>3 DEF Constants
  <2>5. decode(l, encode(l, query.tenant, last, SigningKey), query.tenant) = last
    <3>1. Accepts(l, encode(l, query.tenant, last, SigningKey), query.tenant)
      BY <2>2, PayloadsDiffer DEF Accepts, encode
    <3>2. last = [key |-> last.key, id |-> last.id]
      BY <2>2 DEF Places
    <3>3. Named(l, encode(l, query.tenant, last, SigningKey).payload) = last
      BY <2>2, <3>2, PayloadsDiffer DEF encode
    <3>4. QED
      BY <3>1, <3>3 DEF decode
  <2>6. QED
    BY <1>4, <2>2, <2>3, <2>4, <2>5 DEF At
<1>8. cursor # NoCursor => \A p \in Selected : Comes(l, At, p)
  BY DEF Selected, At
<1>9. \A o \in listed, p \in Selected : Comes(l, o, p)
  <2>1. CASE cursor = NoCursor
    BY <1>1, <1>4, <2>1 DEF CursorOfWalk
  <2>2. CASE cursor # NoCursor
    <3>1. At \in Places /\ \A o \in listed : o \in Places /\ (o = At \/ Comes(l, o, At))
      BY <1>1, <2>2 DEF CursorOfWalk, TypeOK
    <3>2. \A p \in Selected : p \in Places /\ Comes(l, At, p)
      BY <1>2, <1>8, <2>2
    <3>3. QED
      BY <1>5, <3>1, <3>2, Order
  <2>3. QED
    BY <2>1, <2>2
<1>10. \A i \in kept : Place(l, i) \in listed \/ Place(l, i) \in Selected
  <2>1. TAKE i \in kept
  <2>2. i \in Found(query, seen)
    BY <1>1, <1>4 DEF KeptSelected, Found, TypeOK
  <2>3. CASE cursor = NoCursor
    BY <2>2, <2>3 DEF Selected
  <2>4. CASE cursor # NoCursor
    <3>1. Place(l, i) \in listed \/ Comes(l, At, Place(l, i))
      BY <1>1, <1>4, <2>4 DEF KeptCovered
    <3>2. QED
      BY <2>2, <3>1 DEF Selected, At
  <2>5. QED
    BY <2>3, <2>4
<1>11. CursorOfWalk'
  <2>1. CASE continues
    <3>1. \A o \in listed' : o = last \/ Comes(l, o, last)
      BY <1>3, <1>4, <1>9, <2>1
    <3>2. QED
      BY <1>4, <1>7, <2>1, <3>1 DEF CursorOfWalk
  <2>2. CASE ~continues
    BY <1>4, <2>2 DEF CursorOfWalk
  <2>3. QED
    BY <2>1, <2>2
<1>12. KeptSelected'
  BY <1>1, <1>4 DEF KeptSelected, Observed
<1>13. \A i \in kept : Place(l, i)' = Place(l, i)
  BY <1>4 DEF Place
<1>14. KeptCovered'
  <2>1. SUFFICES ASSUME NEW i \in kept
                 PROVE  /\ continues => Place(l, i) \in listed' \/ Comes(l, last, Place(l, i))
                        /\ ~another => Place(l, i) \in listed'
                        /\ \A p \in listed' : p.id = i => p = Place(l, i)
    <3>1. kept' = kept /\ query' = query
      BY <1>4
    <3>2. stage' \in {"ready", "asked"} => continues
      BY <1>4
    <3> HIDE DEF continues, another, last, items
    <3>3. QED
      BY <1>4, <1>7, <1>13, <2>1, <3>1, <3>2 DEF KeptCovered
  <2>2. Place(l, i) \in listed \/ Place(l, i) \in Selected
    BY <1>10
  <2>3. ~another => Place(l, i) \in listed'
    BY <1>3, <1>4, <2>2
  <2>4. continues => Place(l, i) \in listed' \/ Comes(l, last, Place(l, i))
    <3>1. SUFFICES ASSUME continues, Place(l, i) \in Selected, Place(l, i) \notin items
                   PROVE  Comes(l, last, Place(l, i))
      BY <1>4, <2>2
    <3>2. last \in items /\ last \in Places /\ Place(l, i) \in Places
      BY <1>2, <1>3, <3>1
    <3>3. ~Comes(l, Place(l, i), last) /\ Place(l, i) # last
      BY <1>3, <3>1, <3>2
    <3>4. QED
      BY <1>5, <3>2, <3>3, Order
  <2>5. ASSUME NEW p \in listed', p.id = i
        PROVE  p = Place(l, i)
    BY <1>1, <1>2, <1>3, <1>4, <2>5 DEF KeptCovered
  <2>6. QED
    BY <2>3, <2>4, <2>5
<1>15. QED
  BY <1>6, <1>11, <1>12, <1>14 DEF Inv

\* A row is written: the rest of the kept rows stay where they are.
LEMMA WriteInv ==
    ASSUME Constants, Inv, NEW i \in Ids, NEW r \in Rows, Insert(i, r) \/ Rewrite(i, r)
    PROVE  Inv'
<1>1. /\ rows' = [rows EXCEPT ![i] = r] /\ kept' = kept \ {i}
      /\ UNCHANGED <<enrolled, now, query, stage, cursor, limit, seen, page, more, listed>>
  BY DEF Insert, Rewrite
<1>2. TypeOK'
  BY <1>1 DEF Inv, TypeOK
<1>3. CursorOfWalk'
  BY <1>1 DEF Inv, CursorOfWalk, At
<1>4. \A j \in kept' : j \in kept /\ rows'[j] = rows[j]
  BY <1>1 DEF Inv, TypeOK
<1>5. KeptSelected'
  BY <1>1, <1>4 DEF Inv, KeptSelected, Observed
<1>6. \A j \in kept' : Place(query.list, j)' = Place(query.list, j)
  BY <1>1, <1>4 DEF Place
<1>7. KeptCovered'
  BY <1>1, <1>4, <1>6 DEF Inv, KeptCovered, At
<1>8. QED
  BY <1>2, <1>3, <1>5, <1>7 DEF Inv

\* A learner who leaves a class no longer keeps its rows.
LEMMA EnrolInv ==
    ASSUME Constants, Inv, NEW e \in SUBSET (Tenants \X Principals \X ClassRefs), Enrol(e)
    PROVE  Inv'
<1>1. TypeOK' /\ kept' \subseteq kept
  BY DEF Inv, TypeOK, Enrol
<1>2. CursorOfWalk'
  BY DEF Inv, CursorOfWalk, At, Enrol
<1>3. KeptSelected'
  BY <1>1 DEF Inv, KeptSelected, Observed, Enrol
<1>4. KeptCovered'
  BY <1>1 DEF Inv, KeptCovered, At, Place, Enrol
<1>5. QED
  BY <1>1, <1>2, <1>3, <1>4 DEF Inv

\* Time only adds assignments to the current ones.
LEMMA TickInv == ASSUME Constants, Inv, NEW t \in Nat, Tick(t) PROVE Inv'
<1>1. TypeOK'
  BY DEF Inv, TypeOK, Tick
<1>2. CursorOfWalk'
  BY DEF Inv, CursorOfWalk, At, Tick
<1>3. ASSUME NEW i \in kept
      PROVE  Selects(query, Observed(query)', rows[i])
  <2>1. rows[i] \in Rows /\ Selects(query, Observed(query), rows[i])
    BY DEF Inv, KeptSelected, TypeOK
  <2>2. InCurrentAssignments(query, Observed(query), rows[i]) =>
            InCurrentAssignments(query, Observed(query)', rows[i])
    <3>1. rows[i].table = "assignments" => rows[i].available_from \in Nat
      BY <2>1 DEF Rows, ContentRow, WorkRow, AssignmentRow, ExecutionRow
    <3>2. QED
      BY <3>1 DEF InCurrentAssignments, Observed, Tick, Inv, TypeOK
  <2>3. QED
    BY <2>1, <2>2 DEF Selects
<1>4. KeptSelected'
  BY <1>3 DEF Inv, KeptSelected, Observed, Tick
<1>5. KeptCovered'
  BY DEF Inv, KeptCovered, At, Place, Tick
<1>6. QED
  BY <1>1, <1>2, <1>4, <1>5 DEF Inv

\* Nothing changes.
LEMMA StutterInv == ASSUME Inv, UNCHANGED vars PROVE Inv'
<1>1. TypeOK' /\ CursorOfWalk'
  BY DEF Inv, TypeOK, CursorOfWalk, At, vars
<1>2. KeptSelected'
  BY DEF Inv, KeptSelected, Observed, vars
<1>3. KeptCovered'
  BY DEF Inv, KeptCovered, At, Place, vars
<1>4. QED
  BY <1>1, <1>2, <1>3 DEF Inv

\* Every step preserves the invariant.
LEMMA NextInv == ASSUME Constants, Inv, [Next]_vars PROVE Inv'
<1>1. CASE \E q \in Queries : Begin(q)
  BY <1>1, BeginInv
<1>2. CASE \E n \in 1..MAX_LIST_LIMIT : Ask(n)
  BY <1>2, AskInv
<1>3. CASE Answer
  BY <1>3, AnswerInv
<1>4. CASE \E i \in Ids, r \in Rows : Insert(i, r) \/ Rewrite(i, r)
  BY <1>4, WriteInv
<1>5. CASE \E e \in SUBSET (Tenants \X Principals \X ClassRefs) : Enrol(e)
  BY <1>5, EnrolInv
<1>6. CASE \E t \in Nat : Tick(t)
  BY <1>6, TickInv
<1>7. CASE UNCHANGED vars
  BY <1>7, StutterInv
<1>8. QED
  BY <1>1, <1>2, <1>3, <1>4, <1>5, <1>6, <1>7 DEF Next

\* The invariant holds in every behaviour.
LEMMA Invariance == ASSUME Constants PROVE Spec => []Inv
<1>1. Init => Inv
  BY InitInv
<1>2. Inv /\ [Next]_vars => Inv'
  BY NextInv
<1>3. QED
  BY <1>1, <1>2, PTL DEF Spec

\* A walk that has come to its end has listed every row that was there when it
\* began and that nobody touched meanwhile, at its one place, whatever the other
\* rows, the clock and the school have done between the pages.
THEOREM WalkListsKept == ASSUME Constants PROVE Spec => []WholeWalkListsKept
<1>1. Inv => WholeWalkListsKept
  <2>1. SUFFICES ASSUME Inv, stage = "ended", ~more, NEW i \in kept
                 PROVE  {p \in listed : p.id = i} = {Place(query.list, i)}
    BY DEF WholeWalkListsKept
  <2>2. Place(query.list, i) \in listed /\ Place(query.list, i).id = i
    BY <2>1 DEF Inv, KeptCovered, Place
  <2>3. \A p \in listed : p.id = i => p = Place(query.list, i)
    BY <2>1 DEF Inv, KeptCovered
  <2>4. QED
    BY <2>2, <2>3
<1>2. QED
  BY <1>1, Invariance, PTL

\* A walk is never refused the cursor its last answer gave it.
THEOREM NeverRefused == ASSUME Constants PROVE Spec => []OwnCursorAccepted
<1>1. Inv => OwnCursorAccepted
  BY DEF Inv, CursorOfWalk, At, OwnCursorAccepted, Constants
<1>2. QED
  BY <1>1, Invariance, PTL

\* An answer lists what lies behind its cursor, and everything listed lies before it.
LEMMA AnswerIsNew == ASSUME Constants, Inv, Answer PROVE page' \cap listed = {}
<1>1. SUFFICES ASSUME NEW p \in page', p \in listed
               PROVE  FALSE
  OBVIOUS
<1>2. p \in Selected /\ Selected \subseteq Places
  BY AnswerPage, SelectedPlaces DEF Inv, Answer
<1>3. stage = "asked"
  BY DEF Answer
<1>4. cursor # NoCursor
  BY <1>1, <1>3 DEF Inv, CursorOfWalk
<1>5. At \in Places /\ p \in Places /\ (p = At \/ Comes(query.list, p, At))
  BY <1>1, <1>2, <1>4 DEF Inv, CursorOfWalk
<1>6. Comes(query.list, At, p)
  BY <1>2, <1>4 DEF Selected, At
<1>7. QED
  BY <1>5, <1>6, Order DEF Constants

\* No page repeats an item of an earlier page of the walk at the place it had there.
THEOREM ListedOnce == ASSUME Constants PROVE Spec => NothingTwice
<1>1. Inv /\ [Next]_vars => [Answer => page' \cap listed = {}]_vars
  BY AnswerIsNew
<1>2. QED
  BY <1>1, Invariance, PTL DEF Spec, NothingTwice

\* What a walk counts by adding up its pages is how many items it has listed: no
\* writer between the pages makes it count a place twice.  The teacher's mission
\* counts the reviews that wait for him this way.
THEOREM CountedOnce == ASSUME Constants PROVE Spec => []CountsItsItems
<1> DEFINE Counted == IsFiniteSet(listed) /\ total = Cardinality(listed)
<1>1. Init => Counted
  BY FS_EmptySet DEF Init
<1>2. Inv /\ Inv' /\ Counted /\ [Next]_vars => Counted'
  <2>1. SUFFICES ASSUME Inv, Counted, [Next]_vars PROVE Counted'
    OBVIOUS
  <2>2. CASE Answer
    <3> DEFINE items == Items(query.list, Selected, limit)
    <3>1. /\ listed' = listed \cup items /\ total' = total + Cardinality(items)
          /\ page' = items
      BY <2>2 DEF Answer
    <3>2. page' \cap listed = {}
      BY <2>1, <2>2, AnswerIsNew
    <3>3. IsFiniteSet(items)
      BY <2>1, AnswerPage DEF Inv
    <3> HIDE DEF items
    <3>4. /\ IsFiniteSet(listed \cup items)
          /\ Cardinality(listed \cup items) =
               Cardinality(listed) + Cardinality(items) - Cardinality(listed \cap items)
      BY <2>1, <3>3, FS_Union
    <3>5. Cardinality(listed \cap items) = 0 /\ listed \cap items = {}
      BY <3>1, <3>2, FS_EmptySet
    <3>6. Cardinality(listed) \in Nat /\ Cardinality(items) \in Nat
      BY <2>1, <3>3, FS_CardinalityType
    <3>7. QED
      BY <2>1, <3>1, <3>4, <3>5, <3>6
  <2>3. CASE \E q \in Queries : Begin(q)
    BY <2>3, FS_EmptySet DEF Begin
  <2>4. CASE UNCHANGED <<listed, total>>
    BY <2>1, <2>4
  <2>5. QED
    BY <2>1, <2>2, <2>3, <2>4 DEF Next, Ask, Insert, Rewrite, Enrol, Tick, vars
<1>3. Spec => []Inv
  BY Invariance
<1>4. Counted => CountsItsItems
  BY DEF CountsItsItems
<1> HIDE DEF Counted
<1>5. QED
  BY <1>1, <1>2, <1>3, <1>4, PTL DEF Spec

\* has_more is said exactly when the page leaves a selected row out, and no page is
\* longer than its limit.
THEOREM MoreIsHonest == ASSUME Constants PROVE Spec => MoreIsTrue
<1>1. Inv /\ [Next]_vars => [Answer => /\ more' <=> page' # Selected
                                       /\ Cardinality(page') <= limit]_vars
  <2>1. SUFFICES ASSUME Inv, Answer
                 PROVE  (more' <=> page' # Selected) /\ Cardinality(page') <= limit
    OBVIOUS
  <2>2. QED
    BY <2>1, AnswerPage DEF Inv, Answer
<1>2. QED
  BY <1>1, Invariance, PTL DEF Spec, MoreIsTrue

-----------------------------------------------------------------------------
\* What the review queue lists can be opened from it at its current version, the
\* library opens everything it lists, the link to the review that a library item
\* carries leads to an item of the queue unless its version is decided, and a
\* teacher opens every Work, assignment and execution of his lists.
THEOREM OpensWhatItLists ==
    ASSUME NEW q \in Queries, NEW o, NEW i \in Found(q, o)
    PROVE  /\ q.list = "review_queue" => get_queue_item(q, i, rows[i].current)
           /\ q.list = "library" => get_library_item(q, i)
           /\ q.list = "library" /\ review_version_id(i) # NoVersion
                /\ rows[i].current \notin rows[i].decided =>
                      get_queue_item(q, i, review_version_id(i))
           /\ q.list \in {"works", "assignments", "executions"} => get_owned(q, i) = "fine"
<1>1. rows[i] # Absent /\ Selects(q, o, rows[i])
  BY DEF Found
<1>2. q.list = "review_queue" => InReviewQueue(q, rows[i])
  BY <1>1 DEF Selects
<1>3. q.list = "library" => InLibrary(q, rows[i])
  BY <1>1 DEF Selects
<1>4. q.list \in {"works", "assignments", "executions"} =>
         rows[i].table = q.list /\ Owned(q, rows[i])
  BY <1>1 DEF Selects, InWorks, InAssignments, InExecutions, Queries, Lists, CursorLists
<1>5. q.list \in {"works", "assignments", "executions"} => get_owned(q, i) = "fine"
  BY <1>1, <1>4 DEF Owned, get_owned
<1>6. QED
  BY <1>1, <1>2, <1>3, <1>5
     DEF InReviewQueue, InLibrary, Owned, get_queue_item, get_library_item, get_content,
         review_version_id

\* A learner opens an assignment exactly when it is in the list of the current ones:
\* the list decides it in its statement, the other in the code, after reading the row.
THEOREM OpensWhatIsCurrent ==
    ASSUME TypeOK, NEW q \in Queries, q.list = "student_assignments",
           NEW o \in Observations, NEW i \in Ids
    PROVE  i \in Found(q, o) <=> get_current_assignment(q, o, i) = "fine"
<1>1. i \in Found(q, o) <=> rows[i] # Absent /\ InCurrentAssignments(q, o, rows[i])
  BY DEF Found, Selects
<1>2. CASE rows[i] = Absent
  BY <1>1, <1>2 DEF get_current_assignment
<1>3. CASE rows[i] # Absent /\ rows[i].table # "assignments"
  BY <1>1, <1>3 DEF get_current_assignment, InCurrentAssignments
<1>4. CASE rows[i] # Absent /\ rows[i].table = "assignments"
  <2>1. rows[i] \in AssignmentRow
    BY <1>4 DEF TypeOK, Rows, ContentRow, WorkRow, AssignmentRow, ExecutionRow
  <2>2. rows[i].available_from \in Nat /\ o.now \in Nat
    BY <2>1 DEF AssignmentRow, Observations
  <2>3. rows[i].available_from <= o.now <=> ~(rows[i].available_from > o.now)
    BY <2>2
  <2>4. QED
    BY <1>1, <1>4, <2>3 DEF get_current_assignment, InCurrentAssignments
<1>5. QED
  BY <1>2, <1>3, <1>4

\* The places of what a request finds.
LEMMA FoundPlaces ==
    ASSUME Constants, TypeOK, NEW q \in Queries
    PROVE  LET S == {Place(q.list, i) : i \in Found(q, Observed(q))}
           IN S \subseteq Places /\ IsFiniteSet(S)
<1> DEFINE F == Found(q, Observed(q))
           S == {Place(q.list, i) : i \in F}
           f == [i \in F |-> Place(q.list, i)]
<1>1. \A i \in F : i \in Ids /\ rows[i] \in Rows /\ Selects(q, Observed(q), rows[i])
  BY DEF Found, TypeOK
<1>2. S \subseteq Places
  BY <1>1, PlaceOfSelected
<1>3. IsFiniteSet(F)
  BY FS_Subset DEF Found, Constants
<1>4. f \in Surjection(F, S)
  BY DEF Surjection
<1>5. IsFiniteSet(S)
  <2> HIDE DEF F, f, S
  <2>1. QED
    BY <1>3, <1>4, FS_Surjection
<1>6. QED
  BY <1>2, <1>5

\* A slice leaves nothing out exactly when what it is cut from fits in it.
LEMMA SliceOfAll ==
    ASSUME NEW l, Ids \subseteq Nat, NEW S, IsFiniteSet(S), S \subseteq Places, NEW n \in Nat
    PROVE  Limited(l, S, n) = S <=> Cardinality(S) <= n
<1> DEFINE L == Limited(l, S, n)
<1>1. IsFiniteSet(L) /\ Cardinality(L) <= n /\ L \subseteq S
  BY LimitedPages DEF Limited
<1>2. Cardinality(S) \in Nat
  BY FS_CardinalityType
<1>3. ASSUME Cardinality(S) <= n, NEW p \in S
      PROVE  p \in L
  <2>1. Ahead(l, S, p) \subseteq S \ {p}
    BY Order DEF Ahead
  <2>2. IsFiniteSet(S \ {p}) /\ Cardinality(S \ {p}) = Cardinality(S) - 1
    BY <1>3, FS_RemoveElement
  <2>3. /\ Cardinality(Ahead(l, S, p)) <= Cardinality(S \ {p})
        /\ Cardinality(Ahead(l, S, p)) \in Nat
    BY <2>1, <2>2, FS_Subset, FS_CardinalityType
  <2>4. Cardinality(Ahead(l, S, p)) < n
    BY <1>2, <1>3, <2>2, <2>3
  <2>5. QED
    BY <2>4 DEF Limited
<1>4. QED
  BY <1>1, <1>3

\* The home page of a learner shows every current assignment exactly when their
\* number, which it shows too, is no larger than its slice.
THEOREM HomeAgrees ==
    ASSUME Constants, TypeOK, NEW q \in Queries
    PROVE  LET h == home(q)
           IN /\ Cardinality(h.items) <= HOME_SLICE
              /\ h.items = {Place(q.list, i) : i \in Found(q, Observed(q))}
                   <=> h.count <= HOME_SLICE
<1> DEFINE S == {Place(q.list, i) : i \in Found(q, Observed(q))}
           L == Limited(q.list, S, HOME_SLICE)
<1>1. S \subseteq Places /\ IsFiniteSet(S)
  BY FoundPlaces
<1>2. Ids \subseteq Nat /\ HOME_SLICE \in Nat
  BY DEF Constants, HOME_SLICE
<1>3. home(q).items = L /\ home(q).count = Cardinality(S)
  BY DEF home, Items
<1> HIDE DEF S
<1>4. Cardinality(L) <= HOME_SLICE
  BY <1>1, <1>2, LimitedPages
<1>5. L = S <=> Cardinality(S) <= HOME_SLICE
  BY <1>1, <1>2, SliceOfAll
<1>6. QED
  BY <1>3, <1>4, <1>5 DEF S

\* The mission offers a Work to continue exactly when the teacher has an active one;
\* it is one Work, which he can open; and it proposes to prepare the next day only
\* when nothing waits for his review and none of his Works is active.
THEOREM MissionAgrees ==
    ASSUME Constants, TypeOK, NEW q \in Queries, q.list = "works", NEW pending \in Nat
    PROVE  LET m == mission(q, pending)
           IN /\ Cardinality(m.continue_work) <= 1
              /\ m.continue_work = {} <=> m.active_work_count = 0
              /\ \A p \in m.continue_work : get_owned(q, p.id) = "fine"
              /\ m.hero = "PREPARE_TOMORROW" <=> pending = 0 /\ m.active_work_count = 0
<1> DEFINE S == {Place(q.list, i) : i \in Found(q, Observed(q))}
           L == Limited(q.list, S, 1)
<1>1. S \subseteq Places /\ IsFiniteSet(S) /\ Ids \subseteq Nat
  BY FoundPlaces DEF Constants
<1>2. /\ mission(q, pending).active_work_count = Cardinality(S)
      /\ mission(q, pending).continue_work = L
      /\ mission(q, pending).hero = IF pending > 0 THEN "REVIEW"
                 ELSE IF L # {} THEN "CONTINUE_WORK" ELSE "PREPARE_TOMORROW"
  BY DEF mission
<1>3. ASSUME NEW p \in S
      PROVE  get_owned(q, p.id) = "fine"
  <2>1. PICK i \in Found(q, Observed(q)) : p = Place(q.list, i)
    OBVIOUS
  <2>2. p.id = i
    BY <2>1 DEF Place
  <2>3. get_owned(q, i) = "fine"
    BY OpensWhatItLists
  <2>4. QED
    BY <2>2, <2>3
<1> HIDE DEF S
<1>4. Cardinality(L) <= 1 /\ L \subseteq S
  BY <1>1, LimitedPages DEF Limited
<1>5. L = {} <=> S = {}
  <2>1. SUFFICES ASSUME S # {} PROVE L # {}
    BY <1>4
  <2>2. PICK p \in S : \A o \in S \ {p} : Comes(q.list, p, o)
    BY <1>1, <2>1, FirstExists
  <2>3. Ahead(q.list, S, p) = {}
    BY <1>1, <2>2, Order DEF Ahead
  <2>4. p \in L
    BY <2>3, FS_EmptySet DEF Limited
  <2>5. QED
    BY <2>4
<1>6. S = {} <=> Cardinality(S) = 0
  BY <1>1, FS_EmptySet
<1>7. QED
  BY <1>2, <1>3, <1>4, <1>5, <1>6

-----------------------------------------------------------------------------
\* The run when it is read: only its version and its status have moved since its
\* executor wrote the six.
LaterRun(locked, run) ==
    /\ locked \in GenerationRuns /\ run \in GenerationRuns
    /\ \A f \in {"id", "tenant", "work", "work_revision", "provider", "model"} :
          run[f] = locked[f]
    /\ locked.version <= run.version
    /\ NoRevision \notin Nat

\* Contents are never deleted, nor do they change tenant or type; their current
\* version and their state are whatever has become of them.
StillThere(run, heads, bindings) ==
    \A b \in bindings : /\ heads[b.content] # NoContent
                        /\ heads[b.content].tenant = run.tenant
                        /\ heads[b.content].kind = b.provenance.kind

\* What was written is read as the exact six, by every later reader.
LEMMA WrittenIsExact ==
    ASSUME NEW locked, NEW run, NEW correlation, NEW content, NEW version, NEW heads,
           LaterRun(locked, run),
           StillThere(run, heads, Written(locked, correlation, content, version))
    PROVE  LET W == Written(locked, correlation, content, version)
           IN W # {} /\ ExactSix(W) /\ \A b \in W : BindingHolds(run, heads, b)
<1> DEFINE W == Written(locked, correlation, content, version)
<1>1. \A b \in W : \E k \in ArtifactKinds :
         b = [content |-> content[k], version |-> version[k], tenant |-> locked.tenant,
              provenance |-> _provenance_for_kind(ProvenanceContext(locked, correlation), k)]
  BY DEF Written
<1>2. ASSUME NEW k \in ArtifactKinds PROVE \E b \in W : b.provenance.kind = k
  <2> DEFINE b == [content |-> content[k], version |-> version[k], tenant |-> locked.tenant,
                   provenance |-> _provenance_for_kind(ProvenanceContext(locked, correlation), k)]
  <2>1. b \in W
    BY DEF Written
  <2>2. b.provenance.kind = k
    BY DEF _provenance_for_kind
  <2>3. QED
    BY <2>1, <2>2
<1>3. W # {}
  <2>1. "quiz" \in ArtifactKinds
    BY DEF ArtifactKinds
  <2> HIDE DEF W
  <2>2. QED
    BY <1>2, <2>1
<1>4. ExactSix(W)
  <2>1. {b.provenance.kind : b \in W} = ArtifactKinds
    BY <1>1, <1>2 DEF _provenance_for_kind
  <2>2. ASSUME NEW a \in W, NEW b \in W
        PROVE  /\ a.provenance.kind = b.provenance.kind => a = b
               /\ a.provenance.correlation = b.provenance.correlation
               /\ a.provenance.sources = b.provenance.sources
               /\ a.provenance.run_ref = b.provenance.run_ref
    <3>1. PICK k \in ArtifactKinds :
            a = [content |-> content[k], version |-> version[k], tenant |-> locked.tenant,
                 provenance |-> _provenance_for_kind(ProvenanceContext(locked, correlation), k)]
      BY <1>1
    <3>2. PICK m \in ArtifactKinds :
            b = [content |-> content[m], version |-> version[m], tenant |-> locked.tenant,
                 provenance |-> _provenance_for_kind(ProvenanceContext(locked, correlation), m)]
      BY <1>1
    <3>3. a.provenance.kind = k /\ b.provenance.kind = m
      BY <3>1, <3>2 DEF _provenance_for_kind
    <3>4. QED
      BY <3>1, <3>2, <3>3 DEF _provenance_for_kind
  <2> HIDE DEF W
  <2>3. QED
    BY <2>1, <2>2 DEF ExactSix
<1>5. ASSUME NEW b \in W PROVE BindingHolds(run, heads, b)
  <2>1. PICK k \in ArtifactKinds :
          b = [content |-> content[k], version |-> version[k], tenant |-> locked.tenant,
               provenance |-> _provenance_for_kind(ProvenanceContext(locked, correlation), k)]
    BY <1>1
  <2>2. b.tenant = run.tenant /\ run.provider = locked.provider /\ run.model = locked.model
        /\ run.id = locked.id /\ WorkRef(run) = WorkRef(locked)
    BY <2>1 DEF LaterRun, WorkRef
  <2>3. locked.version \in Nat /\ run.version \in Nat /\ locked.version <= run.version
    BY DEF LaterRun, GenerationRuns
  <2>4. locked.version # NoRevision
    BY <2>3 DEF LaterRun
  <2>5. /\ b.provenance.second /\ b.provenance.kind = k
        /\ b.provenance.capability = KitCapability
        /\ b.provenance.provider = locked.provider /\ b.provenance.model = locked.model
        /\ b.provenance.sources = <<WorkRef(locked)>>
        /\ b.provenance.run_ref = [type |-> "ai.generation_run", id |-> locked.id,
                                    revision |-> locked.version]
    BY <2>1 DEF _provenance_for_kind, ProvenanceContext
  <2>6. NamesRun(run, b.provenance)
    BY <2>2, <2>3, <2>4, <2>5 DEF NamesRun
  <2>7. NamesWork(run, b.provenance)
    <3>1. DOMAIN b.provenance.sources = {1} /\ b.provenance.sources[1] = WorkRef(run)
      BY <2>2, <2>5
    <3>2. QED
      BY <3>1 DEF NamesWork
  <2>8. QED
    BY <2>2, <2>5, <2>6, <2>7 DEF BindingHolds, StillThere
<1>6. QED
  BY <1>3, <1>4, <1>5

\* A preparation that was written whole is listed for as long as the Work exists:
\* no review, edit or publication of one of its artifacts takes it from the list.
\* Recovery accepts it exactly as long as none of the six has been touched.
THEOREM ReadSurvivesReview ==
    ASSUME NEW locked, NEW run, NEW correlation, NEW content, NEW version, NEW heads,
           LaterRun(locked, run),
           StillThere(run, heads, Written(locked, correlation, content, version))
    PROVE  LET W == Written(locked, correlation, content, version)
           IN /\ project_preparation_generation_artifacts(run, heads, W) = "exact six"
              /\ inspect_preparation_generation_bindings(run, heads, W) = "exact six"
                    <=> \A b \in W : AsWritten(heads, b)
<1> DEFINE W == Written(locked, correlation, content, version)
<1>1. W # {} /\ ExactSix(W) /\ \A b \in W : BindingHolds(run, heads, b)
  BY WrittenIsExact
<1> HIDE DEF W
<1>2. project_preparation_generation_artifacts(run, heads, W) = "exact six"
  BY <1>1 DEF project_preparation_generation_artifacts
<1>3. inspect_preparation_generation_bindings(run, heads, W) = "exact six"
         <=> \A b \in W : AsWritten(heads, b)
  BY <1>1 DEF inspect_preparation_generation_bindings
<1>4. QED
  BY <1>2, <1>3 DEF W

\* Whatever the recovery of a run accepts, its list accepts: a run that was
\* recovered cannot break the list of its Work.
THEOREM RecoveryIsStricter ==
    ASSUME NEW run, NEW heads, NEW bindings,
           inspect_preparation_generation_bindings(run, heads, bindings) = "exact six"
    PROVE  project_preparation_generation_artifacts(run, heads, bindings) = "exact six"
BY DEF inspect_preparation_generation_bindings, project_preparation_generation_artifacts

\* The list of a Work is never refused, and never hides an artifact, while each of
\* its preparations was written whole: the six of every one are in it with the
\* state their Content has now.
THEOREM ListNeverBroken ==
    ASSUME NEW of, NEW runs, NEW heads, NEW versions, NEW tenant, NEW teacher, NEW work,
           of # NoRow, of.tenant = tenant, of.teacher = teacher,
           \A r \in list_for_work(runs, tenant, teacher, work) :
              r.status = "SUCCEEDED" /\ r.capability = KitCapability =>
                 \E locked \in GenerationRuns, correlation \in Correlations,
                    content \in [ArtifactKinds -> Contents],
                    version \in [ArtifactKinds -> ContentVersions] :
                       /\ find_all_by_generation_run_id(versions, r)
                             = Written(locked, correlation, content, version)
                       /\ LaterRun(locked, r)
                       /\ StillThere(r, heads, find_all_by_generation_run_id(versions, r))
    PROVE  LET list == list_artifacts(of, runs, heads, versions, tenant, teacher, work)
           IN /\ list.answer = "fine"
              /\ \A r \in list_for_work(runs, tenant, teacher, work) :
                    r.status = "SUCCEEDED" /\ r.capability = KitCapability =>
                       \A k \in ArtifactKinds : \E i \in list.items :
                          /\ i.run = r.id /\ i.kind = k
                          /\ i.state = heads[i.content].state
<1> DEFINE done == {r \in list_for_work(runs, tenant, teacher, work) : r.status = "SUCCEEDED"}
           kits == {r \in done : r.capability = KitCapability}
           found(r) == find_all_by_generation_run_id(versions, r)
           items == UNION {PreparationItems(r, heads, versions) : r \in kits}
                       \cup UNION {SingularItems(r, heads) : r \in done \ kits}
<1>1. ASSUME NEW r \in kits
      PROVE  found(r) # {} /\ ExactSix(found(r))
             /\ project_preparation_generation_artifacts(r, heads, found(r)) = "exact six"
  <2>1. PICK locked, correlation, content, version :
             /\ found(r) = Written(locked, correlation, content, version)
             /\ LaterRun(locked, r) /\ StillThere(r, heads, found(r))
    OBVIOUS
  <2>2. StillThere(r, heads, Written(locked, correlation, content, version))
    BY <2>1
  <2>3. LET W == Written(locked, correlation, content, version)
        IN W # {} /\ ExactSix(W) /\ \A b \in W : BindingHolds(r, heads, b)
    BY <2>1, <2>2, WrittenIsExact
  <2> HIDE DEF found
  <2>4. QED
    BY <2>1, <2>3 DEF project_preparation_generation_artifacts
<1>2. list_artifacts(of, runs, heads, versions, tenant, teacher, work)
         = [answer |-> "fine", items |-> items]
  BY <1>1 DEF list_artifacts
<1>3. ASSUME NEW r \in kits, NEW k \in ArtifactKinds
      PROVE  \E i \in items : i.run = r.id /\ i.kind = k /\ i.state = heads[i.content].state
  <2>1. PICK b \in found(r) : b.provenance.kind = k
    <3>1. ExactSix(found(r))
      BY <1>1
    <3> HIDE DEF found
    <3>2. QED
      BY <3>1 DEF ExactSix
  <2> DEFINE i == [run |-> r.id, kind |-> b.provenance.kind, content |-> b.content,
                   version |-> b.version, state |-> heads[b.content].state]
  <2>2. i \in PreparationItems(r, heads, versions)
    BY DEF PreparationItems
  <2>3. i \in items
    BY <2>2
  <2>4. i.run = r.id /\ i.kind = k /\ i.state = heads[i.content].state
    BY <2>1
  <2>5. QED
    BY <2>3, <2>4
<1> HIDE DEF items
<1>4. QED
  BY <1>2, <1>3

-----------------------------------------------------------------------------
(***************************************************************************)
(* A parent's pages and a principal's report, for whatever the school      *)
(* answers, every database and every value of the limits.                  *)
(***************************************************************************)

-----------------------------------------------------------------------------
(* The pages of a parent. *)

Limits == /\ MaxLearners \in Nat /\ MaxAssignments \in Nat /\ RowsPerPair \in Nat
          /\ None \notin Nat

FiniteRows(db) == /\ IsFiniteSet(db.assignments)
                  /\ IsFiniteSet(db.attempts)
                  /\ IsFiniteSet(db.submissions)

\* What the keys, foreign keys and CHECKs of the tables guarantee, and that a
\* submitted attempt and its submission are written by one transaction.
Consistent(db) ==
    /\ \A a, b \in db.assignments : a.id = b.id => a = b
    /\ \A a \in db.assignments : Described(db, a)
    /\ \A t \in db.attempts :
          /\ t.state \in {"IN_PROGRESS", "SUBMITTED"}
          /\ t.state = "SUBMITTED" =>
                \E s \in db.submissions : /\ s.id = t.submission /\ s.attempt = t.id
                                          /\ s.learner = t.learner
                                          /\ s.assignment = t.assignment
    /\ \A s \in db.submissions : s.at \in Nat
    /\ \A r, s \in db.submissions : r.id = s.id => r = s

\* A read of these learners from a database of finitely many rows.
Sound(ctx, db, rd, learners) ==
    /\ Limits /\ FiniteRows(db)
    /\ IsFiniteSet(learners) /\ learners \subseteq Nat
    /\ Reads(rd, ctx, db, learners)

\* A page is shown for these learners, from what this read of a database has found.
Shown(ctx, db, rd, learners) ==
    /\ Sound(ctx, db, rd, learners)
    /\ _project(ctx, db, rd, learners).answer = "fine"
----------------------------------------------------------------------------
\* A finite set of times has a latest one.
LEMMA LatestExists ==
    ASSUME NEW S, IsFiniteSet(S), S \subseteq Nat, S # {}
    PROVE  Latest(S) \in S /\ \A m \in S : m <= Latest(S)
<1> DEFINE HasMax(T) == \E n \in T : \A m \in T : m <= n
           Bad == {T \in FiniteSubsetsOf(S) : T # {} /\ ~HasMax(T)}
<1>1. Bad = {}
  <2>1. SUFFICES ASSUME Bad # {} PROVE FALSE
    OBVIOUS
  <2>2. PICK T \in Bad : \A U \in Bad : ~(<<U, T>> \in StrictSubsetOrdering(S))
    <3>1. Bad \subseteq FiniteSubsetsOf(S)
      OBVIOUS
    <3> HIDE DEF Bad
    <3>2. QED
      BY <2>1, <3>1, FS_StrictSubsetOrderingWellFounded, WFMin
  <2>3. PICK x \in T : TRUE
    OBVIOUS
  <2>4. T \subseteq S /\ IsFiniteSet(T) /\ T \ {x} \subseteq S /\ IsFiniteSet(T \ {x})
    BY FS_RemoveElement DEF FiniteSubsetsOf
  <2>5. T \ {x} \notin Bad
    BY <2>2, <2>3, <2>4 DEF StrictSubsetOrdering
  <2>6. T \ {x} = {} \/ HasMax(T \ {x})
    BY <2>4, <2>5 DEF FiniteSubsetsOf
  <2>7. CASE T \ {x} = {}
    BY <2>3, <2>4, <2>7
  <2>8. CASE HasMax(T \ {x})
    <3>1. PICK n \in T \ {x} : \A m \in T \ {x} : m <= n
      BY <2>8
    <3>2. n \in Nat /\ x \in Nat /\ \A m \in T : m \in Nat
      BY <2>3, <2>4
    <3>3. CASE x <= n
      BY <3>1, <3>2, <3>3
    <3>4. CASE n <= x
      BY <2>3, <3>1, <3>2, <3>4
    <3>5. QED
      BY <3>2, <3>3, <3>4
  <2>9. QED
    BY <2>6, <2>7, <2>8
<1>2. HasMax(S)
  BY <1>1 DEF FiniteSubsetsOf
<1>3. QED
  BY <1>2 DEF Latest

LEMMA LeastExists ==
    ASSUME NEW S, S \subseteq Nat, S # {}
    PROVE  Least(S) \in S
<1>1. PICK n \in S : \A m \in S : <<m, n>> \notin OpToRel(<, Nat)
  BY WFMin, NatLessThanWellFounded, Zenon
<1>2. \A m \in S : ~(m < n)
  BY <1>1, Zenon DEF OpToRel
<1>3. \A m \in S : n <= m
  BY <1>2
<1>4. QED
  BY <1>3 DEF Least

LEMMA Untruncated ==
    ASSUME NEW fetched, NEW found, NEW bound \in Nat, IsFiniteSet(found),
           ReadUpTo(fetched, found, bound + 1), ~(Cardinality(fetched) > bound)
    PROVE  fetched = found
<1>1. IsFiniteSet(fetched) /\ Cardinality(fetched) \in Nat
  BY FS_Subset, FS_CardinalityType DEF ReadUpTo
<1>2. QED
  BY <1>1 DEF ReadUpTo

LEMMA Bounded ==
    ASSUME NEW ctx, NEW rd, NEW learners, learners \subseteq Nat,
           _require_bounded_rows(ctx, rd, learners) = "fine"
    PROVE  LET n == Cardinality(learners)
               dependent == _request_dependent_row_limit(n, rd.assignments)
           IN /\ ~(Cardinality(rd.assignments) > _request_assignment_row_limit(n))
              /\ ~(Cardinality(rd.attempts) > dependent)
              /\ ~(Cardinality(rd.submissions) > dependent)
              /\ \A l \in learners : Visibility(ctx, rd, l) = "fine"
<1> DEFINE n == Cardinality(learners)
           bad == {l \in learners : Visibility(ctx, rd, l) # "fine"}
<1>1. ~(Cardinality(rd.assignments) > _request_assignment_row_limit(n))
  BY DEF _require_bounded_rows
<1>2. bad = {}
  <2>1. SUFFICES ASSUME bad # {} PROVE FALSE
    OBVIOUS
  <2>2. Least(bad) \in bad
    <3>1. bad \subseteq Nat
      OBVIOUS
    <3> HIDE DEF bad
    <3>2. QED
      BY <2>1, <3>1, LeastExists
  <2>3. QED
    BY <1>1, <2>1, <2>2 DEF _require_bounded_rows
<1>3. QED
  BY <1>1, <1>2 DEF _require_bounded_rows

\* A request within its limits has read every row there is to its question.
LEMMA ReadWhole ==
    ASSUME NEW ctx, NEW db, NEW rd, NEW learners, Sound(ctx, db, rd, learners),
           _require_bounded_rows(ctx, rd, learners) = "fine"
    PROVE  /\ rd.assignments = Active(ctx, db, learners)
           /\ rd.attempts = About(db.attempts, learners, rd.assignments)
           /\ rd.submissions = About(db.submissions, learners, rd.assignments)
<1> DEFINE n == Cardinality(learners)
           dependent == _request_dependent_row_limit(n, rd.assignments)
<1>1. /\ Limits /\ FiniteRows(db) /\ IsFiniteSet(learners) /\ learners \subseteq Nat
      /\ Reads(rd, ctx, db, learners)
  BY DEF Sound
<1>2. n \in Nat /\ _request_assignment_row_limit(n) \in Nat
  BY <1>1, FS_CardinalityType DEF Limits, _request_assignment_row_limit
<1>3. IsFiniteSet(Active(ctx, db, learners))
  BY <1>1, FS_Subset DEF FiniteRows, Active
<1>4. rd.assignments = Active(ctx, db, learners)
  BY <1>1, <1>2, <1>3, Bounded, Untruncated DEF Reads
<1>5. dependent \in Nat
  <2>1. Cardinality(rd.assignments) \in Nat
    BY <1>3, <1>4, FS_CardinalityType
  <2>2. QED
    BY <1>1, <1>2, <2>1 DEF Limits, _request_dependent_row_limit
<1>6. /\ IsFiniteSet(About(db.attempts, learners, rd.assignments))
      /\ IsFiniteSet(About(db.submissions, learners, rd.assignments))
  BY <1>1, FS_Subset DEF FiniteRows, About
<1>7. rd.attempts = About(db.attempts, learners, rd.assignments)
  BY <1>1, <1>5, <1>6, Bounded, Untruncated DEF Reads
<1>8. rd.submissions = About(db.submissions, learners, rd.assignments)
  BY <1>1, <1>5, <1>6, Bounded, Untruncated DEF Reads
<1>9. QED
  BY <1>4, <1>7, <1>8

LEMMA ShownUsed ==
    ASSUME NEW ctx, NEW db, NEW rd, NEW learners, Shown(ctx, db, rd, learners)
    PROVE  /\ Sound(ctx, db, rd, learners)
           /\ _require_bounded_rows(ctx, rd, learners) = "fine"
           /\ ~Unreadable(ctx, db, rd, learners)
           /\ _project(ctx, db, rd, learners).children
                = [l \in learners |-> _learner_facts(ctx, db, rd, l)]
BY DEF Shown, _project, Refused

\* No page is computed from a truncated read: when it is shown, the limited SELECTs
\* have returned every row there is to the question.
THEOREM NothingTruncated ==
    ASSUME NEW ctx, NEW db, NEW rd, NEW learners, Shown(ctx, db, rd, learners)
    PROVE  /\ rd.assignments = Active(ctx, db, learners)
           /\ rd.attempts = About(db.attempts, learners, rd.assignments)
           /\ rd.submissions = About(db.submissions, learners, rd.assignments)
<1>1. Sound(ctx, db, rd, learners) /\ _require_bounded_rows(ctx, rd, learners) = "fine"
  BY ShownUsed
<1>2. QED
  BY <1>1, ReadWhole
----------------------------------------------------------------------------
LEMMA MatchingRead ==
    ASSUME NEW found, NEW learners, NEW assignments,
           NEW l \in learners, NEW a \in assignments
    PROVE  Matching(About(found, learners, assignments), l, a) = Matching(found, l, a)
BY DEF Matching, About

LEMMA SameStatus ==
    ASSUME NEW rd1, NEW rd2, NEW l, NEW a,
           Matching(rd1.attempts, l, a) = Matching(rd2.attempts, l, a),
           Matching(rd1.submissions, l, a) = Matching(rd2.submissions, l, a)
    PROVE  _attempt_status(rd1, l, a) = _attempt_status(rd2, l, a)
<1>1. Submitted(rd1, l, a) = Submitted(rd2, l, a)
  BY DEF Submitted
<1>2. Times(rd1, l, a) = Times(rd2, l, a)
  <2>1. \A t \in Submitted(rd1, l, a) : Evidence(rd1, l, a, t) = Evidence(rd2, l, a, t)
    BY DEF Evidence
  <2>2. {Evidence(rd1, l, a, t) : t \in Submitted(rd1, l, a)}
          = {Evidence(rd2, l, a, t) : t \in Submitted(rd2, l, a)}
    BY <1>1, <2>1
  <2> QED
    BY <2>2, Zenon DEF Times
<1>3. QED
  <2>1. (\E t \in Matching(rd1.attempts, l, a) : t.state = "IN_PROGRESS")
          <=> (\E t \in Matching(rd2.attempts, l, a) : t.state = "IN_PROGRESS")
    OBVIOUS
  <2>2. QED
    BY <1>2, <2>1 DEF _attempt_status

\* What a page shows about a learner, said of the database alone.
Own(ctx, db, l) == {a \in db.assignments : /\ a.class \in SchoolClasses(ctx, l)
                                           /\ a.state = "ACTIVE"
                                           /\ a.available_from <= ctx.now}
Whole(db) == [attempts |-> db.attempts, submissions |-> db.submissions]

LEMMA ShownOfDatabase ==
    ASSUME NEW ctx, NEW db, NEW rd, NEW learners, NEW l \in learners,
           Shown(ctx, db, rd, learners)
    PROVE  /\ _visible_assignment_rows(ctx, rd, l) = Own(ctx, db, l)
           /\ _project(ctx, db, rd, learners).children[l]
                = {_assignment_fact(db, Whole(db), l, a) : a \in Own(ctx, db, l)}
<1>0. /\ rd.assignments = Active(ctx, db, learners)
      /\ rd.attempts = About(db.attempts, learners, rd.assignments)
      /\ rd.submissions = About(db.submissions, learners, rd.assignments)
  BY NothingTruncated
<1>1. _visible_assignment_rows(ctx, rd, l) = Own(ctx, db, l)
  BY <1>0 DEF _visible_assignment_rows, Active, Own
<1>2. \A a \in Own(ctx, db, l) :
         /\ Matching(rd.attempts, l, a) = Matching(db.attempts, l, a)
         /\ Matching(rd.submissions, l, a) = Matching(db.submissions, l, a)
  BY <1>0, <1>1, MatchingRead DEF _visible_assignment_rows
<1>3. \A a \in Own(ctx, db, l) : _attempt_status(rd, l, a) = _attempt_status(Whole(db), l, a)
  BY <1>2, SameStatus DEF Whole
<1>4. \A a \in Own(ctx, db, l) :
         _assignment_fact(db, rd, l, a) = _assignment_fact(db, Whole(db), l, a)
  BY <1>3 DEF _assignment_fact
<1>5. _project(ctx, db, rd, learners).children = [k \in learners |-> _learner_facts(ctx, db, rd, k)]
  BY DEF Shown, _project, Refused
<1>6. QED
  BY <1>1, <1>4, <1>5 DEF _learner_facts

\* Two contexts and databases that tell the same about learner l.
SameChild(ctx1, db1, ctx2, db2, l) ==
    /\ Own(ctx1, db1, l) = Own(ctx2, db2, l)
    /\ {t \in db1.attempts : t.learner = l} = {t \in db2.attempts : t.learner = l}
    /\ {t \in db1.submissions : t.learner = l} = {t \in db2.submissions : t.learner = l}
    /\ \A a \in Own(ctx1, db1, l) : Catalog(db1, a) = Catalog(db2, a)

\* What a page shows of a child depends on that child alone: neither the other
\* children of the adult, nor their classes, nor what anybody else has handed in
\* can change it, whoever asks and on whichever of the two pages.
THEOREM ChildAlone ==
    ASSUME NEW ctx1, NEW db1, NEW rd1, NEW learners1, Shown(ctx1, db1, rd1, learners1),
           NEW ctx2, NEW db2, NEW rd2, NEW learners2, Shown(ctx2, db2, rd2, learners2),
           NEW l \in learners1 \cap learners2, SameChild(ctx1, db1, ctx2, db2, l)
    PROVE  _project(ctx1, db1, rd1, learners1).children[l]
             = _project(ctx2, db2, rd2, learners2).children[l]
<1>1. \A a \in Own(ctx1, db1, l) :
         /\ Matching(db1.attempts, l, a) = Matching(db2.attempts, l, a)
         /\ Matching(db1.submissions, l, a) = Matching(db2.submissions, l, a)
  BY DEF SameChild, Matching
<1>2. \A a \in Own(ctx1, db1, l) :
         _attempt_status(Whole(db1), l, a) = _attempt_status(Whole(db2), l, a)
  BY <1>1, SameStatus DEF Whole
<1>3. \A a \in Own(ctx1, db1, l) :
         _assignment_fact(db1, Whole(db1), l, a) = _assignment_fact(db2, Whole(db2), l, a)
  BY <1>2 DEF _assignment_fact, SameChild
<1>4. l \in learners1 /\ l \in learners2
  OBVIOUS
<1>5. _project(ctx1, db1, rd1, learners1).children[l]
        = {_assignment_fact(db1, Whole(db1), l, a) : a \in Own(ctx1, db1, l)}
  BY <1>4, ShownOfDatabase
<1>6. _project(ctx2, db2, rd2, learners2).children[l]
        = {_assignment_fact(db2, Whole(db2), l, a) : a \in Own(ctx2, db2, l)}
  BY <1>4, ShownOfDatabase
<1>7. QED
  BY <1>3, <1>5, <1>6 DEF SameChild

\* The page of a child shows what the home page shows of it.
THEOREM PagesAgree ==
    ASSUME NEW ctx, NEW db, NEW rd1, NEW rd2, NEW l \in Authorized(ctx),
           Sound(ctx, db, rd1, Authorized(ctx)), Sound(ctx, db, rd2, {l}),
           get_home(ctx, db, rd1).answer = "fine", get_child(ctx, db, rd2, l).answer = "fine"
    PROVE  get_home(ctx, db, rd1).children[l] = get_child(ctx, db, rd2, l).children[l]
<1>1. _current_authorized_ids(ctx) = "fine"
  BY DEF get_home, Refused
<1>2. /\ get_home(ctx, db, rd1) = _project(ctx, db, rd1, Authorized(ctx))
      /\ get_child(ctx, db, rd2, l) = _project(ctx, db, rd2, {l})
  BY <1>1 DEF get_home, get_child
<1>3. Shown(ctx, db, rd1, Authorized(ctx)) /\ Shown(ctx, db, rd2, {l})
  BY <1>2 DEF Shown
<1>4. SameChild(ctx, db, ctx, db, l) /\ l \in Authorized(ctx) \cap {l}
  BY DEF SameChild
<1>5. QED
  BY <1>2, <1>3, <1>4, ChildAlone
----------------------------------------------------------------------------
LEMMA ImageFinite ==
    ASSUME NEW S, IsFiniteSet(S)
    PROVE  IsFiniteSet({s.at : s \in S})
<1> DEFINE T == {s.at : s \in S}
           f == [s \in S |-> s.at]
<1>1. f \in Surjection(S, T)
  BY DEF Surjection
<1>2. QED
  BY <1>1, FS_Surjection

LEMMA TimesAreTimes ==
    ASSUME NEW db, NEW l, NEW a, FiniteRows(db), \A s \in db.submissions : s.at \in Nat
    PROVE  IsFiniteSet(Times(Whole(db), l, a)) /\ Times(Whole(db), l, a) \subseteq Nat
<1>1. Times(Whole(db), l, a) \subseteq {s.at : s \in db.submissions}
  BY DEF Times, Evidence, Matching, Whole
<1>2. IsFiniteSet({s.at : s \in db.submissions})
  BY ImageFinite DEF FiniteRows
<1>3. QED
  BY <1>1, <1>2, FS_Subset

\* What a card must say about learner l and assignment a.
StatusOf(db, l, a, attempt) ==
    LET mine == Matching(db.attempts, l, a)
        times == Times(Whole(db), l, a)
    IN /\ attempt.status = "NOT_STARTED" <=> mine = {}
       /\ attempt.status = "IN_PROGRESS" <=> \E t \in mine : t.state = "IN_PROGRESS"
       /\ attempt.status = "SUBMITTED" => attempt.at \in times /\ \A n \in times : n <= attempt.at

\* A card that is shown tells the truth: NOT_STARTED means that the learner has no
\* attempt at all, IN_PROGRESS that one is open, SUBMITTED that all are handed in
\* and when the last one was.  The doubtful cases are refused instead of shown.
THEOREM StatusIsTrue ==
    ASSUME NEW ctx, NEW db, NEW rd, NEW learners, Shown(ctx, db, rd, learners),
           \A s \in db.submissions : s.at \in Nat,
           NEW l \in learners, NEW a \in Own(ctx, db, l)
    PROVE  \E card \in _project(ctx, db, rd, learners).children[l] :
              card.id = a.id /\ StatusOf(db, l, a, card.attempt)
<1> DEFINE card == _assignment_fact(db, Whole(db), l, a)
           mine == Matching(db.attempts, l, a)
           times == Times(Whole(db), l, a)
           status == _attempt_status(Whole(db), l, a)
<1>1. card \in _project(ctx, db, rd, learners).children[l]
  BY ShownOfDatabase
<1>2. card.id = a.id /\ card.attempt = status
  BY DEF _assignment_fact
<1>3. a \in _visible_assignment_rows(ctx, rd, l) /\ ~Unreadable(ctx, db, rd, learners)
  <2>1. _visible_assignment_rows(ctx, rd, l) = Own(ctx, db, l)
    BY ShownOfDatabase
  <2>2. QED
    BY <2>1, ShownUsed
<1>4. ~Puzzling(rd, l, a)
  BY <1>3 DEF Unreadable
<1>5. /\ rd.attempts = About(db.attempts, learners, rd.assignments)
      /\ rd.submissions = About(db.submissions, learners, rd.assignments)
      /\ a \in rd.assignments
  BY <1>3, NothingTruncated DEF _visible_assignment_rows
<1>6. /\ Matching(rd.attempts, l, a) = mine
      /\ Matching(rd.submissions, l, a) = Matching(db.submissions, l, a)
  BY <1>5, MatchingRead
<1>7. \A t \in mine : t.state \in {"IN_PROGRESS", "SUBMITTED"}
  BY <1>4, <1>6 DEF Puzzling
<1>8. \A t \in mine : t.state = "SUBMITTED" => times # {}
  BY <1>4, <1>6 DEF Puzzling, Times, Evidence, Submitted, Whole
<1>9. times # {} => \E t \in mine : t.state = "SUBMITTED"
  BY DEF Times, Submitted, Whole
<1>10. FiniteRows(db)
  BY DEF Shown, Sound
<1>11. times # {} => Latest(times) \in times /\ \A n \in times : n <= Latest(times)
  BY <1>10, TimesAreTimes, LatestExists
<1>12. StatusOf(db, l, a, status)
  <2>1. CASE \E t \in mine : t.state = "IN_PROGRESS"
    BY <2>1 DEF _attempt_status, StatusOf, Whole
  <2>2. CASE (\A t \in mine : t.state # "IN_PROGRESS") /\ times # {}
    BY <1>9, <1>11, <2>2 DEF _attempt_status, StatusOf, Whole
  <2>3. CASE (\A t \in mine : t.state # "IN_PROGRESS") /\ times = {}
    BY <1>7, <1>8, <2>3 DEF _attempt_status, StatusOf, Whole
  <2>4. QED
    BY <2>1, <2>2, <2>3
<1>13. QED
  BY <1>1, <1>2, <1>12

\* Rows the tables can hold never make a page unavailable: what is refused then is
\* refused for its size.
THEOREM NoFalseAlarm ==
    ASSUME NEW ctx, NEW db, NEW rd, NEW learners, Sound(ctx, db, rd, learners),
           Consistent(db), _read_memberships(ctx, learners) = "fine"
    PROVE  _project(ctx, db, rd, learners).answer \in {"fine", "capacity"}
<1>1. CASE _require_bounded_rows(ctx, rd, learners) # "fine"
  <2>1. rd.assignments \subseteq db.assignments
    BY DEF Sound, Reads, ReadUpTo, Active
  <2>2. \A l \in Nat : ~Doubled(_visible_assignment_rows(ctx, rd, l))
    BY <2>1 DEF Doubled, _visible_assignment_rows, Consistent
  <2>3. \A l \in Nat : Visibility(ctx, rd, l) \in {"fine", "capacity"}
    BY <2>2 DEF Visibility
  <2>4. _require_bounded_rows(ctx, rd, learners) = "capacity"
    <3> DEFINE bad == {l \in learners : Visibility(ctx, rd, l) # "fine"}
    <3>1. learners \subseteq Nat
      BY DEF Sound
    <3>2. bad # {} => Least(bad) \in bad
      <4>1. bad \subseteq Nat
        BY <3>1
      <4> HIDE DEF bad
      <4>2. QED
        BY <4>1, LeastExists
    <3>3. bad # {} => Visibility(ctx, rd, Least(bad)) = "capacity"
      BY <2>3, <3>1, <3>2
    <3>4. QED
      BY <1>1, <3>3 DEF _require_bounded_rows
  <2>5. QED
    BY <2>4 DEF _project, Refused
<1>2. CASE _require_bounded_rows(ctx, rd, learners) = "fine"
  <2>1. /\ rd.assignments = Active(ctx, db, learners)
        /\ rd.attempts = About(db.attempts, learners, rd.assignments)
        /\ rd.submissions = About(db.submissions, learners, rd.assignments)
    BY <1>2, ReadWhole
  <2>2. rd.assignments \subseteq db.assignments
    BY <2>1 DEF Active
  <2>3. FiniteRows(db) /\ None \notin Nat /\ \A s \in db.submissions : s.at \in Nat
    BY DEF Sound, Limits, Consistent
  <2>4. ASSUME NEW l \in learners, NEW a \in _visible_assignment_rows(ctx, rd, l)
        PROVE  /\ Described(db, a) /\ ~Puzzling(rd, l, a)
               /\ _validate_assignment_fact(_assignment_fact(db, rd, l, a))
    <3>1. a \in rd.assignments
      BY DEF _visible_assignment_rows
    <3>2. /\ Matching(rd.attempts, l, a) = Matching(db.attempts, l, a)
          /\ Matching(rd.submissions, l, a) = Matching(db.submissions, l, a)
      BY <2>1, <3>1, MatchingRead
    <3>3. Described(db, a)
      BY <2>2, <3>1 DEF Consistent
    <3>4. \A t \in Matching(db.attempts, l, a) : t.state \in {"IN_PROGRESS", "SUBMITTED"}
      BY DEF Matching, Consistent
    <3>5. ASSUME NEW t \in Submitted(rd, l, a)
          PROVE  /\ Evidence(rd, l, a, t) # {}
                 /\ \A s \in Evidence(rd, l, a, t) : s.attempt = t.id /\ s.at # None
      <4>1. t \in db.attempts /\ t.state = "SUBMITTED" /\ t.learner = l /\ t.assignment = a.id
        BY <3>2 DEF Submitted, Matching
      <4>2. PICK s \in db.submissions : /\ s.id = t.submission /\ s.attempt = t.id
                                        /\ s.learner = l /\ s.assignment = a.id
        BY <4>1 DEF Consistent
      <4>3. s \in Evidence(rd, l, a, t)
        BY <3>2, <4>2 DEF Evidence, Matching
      <4>4. \A r \in Evidence(rd, l, a, t) : r \in db.submissions /\ r.id = s.id
        BY <3>2, <4>2 DEF Evidence, Matching
      <4>5. \A r \in Evidence(rd, l, a, t) : r = s
        BY <4>4 DEF Consistent
      <4>6. QED
        BY <2>3, <4>2, <4>3, <4>5
    <3>6. ~Puzzling(rd, l, a)
      BY <3>2, <3>4, <3>5 DEF Puzzling
    <3>7. _attempt_status(rd, l, a) = _attempt_status(Whole(db), l, a)
      BY <3>2, SameStatus DEF Whole
    <3>8. _attempt_status(Whole(db), l, a).at = None
            <=> _attempt_status(Whole(db), l, a).status # "SUBMITTED"
      <4> DEFINE times == Times(Whole(db), l, a)
      <4>1. times # {} => Latest(times) \in Nat
        BY <2>3, TimesAreTimes, LatestExists
      <4>2. QED
        BY <2>3, <4>1 DEF _attempt_status
    <3>9. _attempt_status(rd, l, a).status \in {"NOT_STARTED", "IN_PROGRESS", "SUBMITTED"}
      BY DEF _attempt_status
    <3>10. QED
      BY <3>3, <3>6, <3>7, <3>8, <3>9 DEF _assignment_fact, _validate_assignment_fact
  <2>5. ~Unreadable(ctx, db, rd, learners)
    BY <2>4 DEF Unreadable
  <2>6. ASSUME NEW l \in learners PROVE ~Doubled(_learner_facts(ctx, db, rd, l))
    <3>1. \A a, b \in _visible_assignment_rows(ctx, rd, l) : a.id = b.id => a = b
      BY <2>2 DEF _visible_assignment_rows, Consistent
    <3>2. \A a \in _visible_assignment_rows(ctx, rd, l) :
             _assignment_fact(db, rd, l, a).id = a.id
      BY DEF _assignment_fact
    <3>3. QED
      BY <3>1, <3>2 DEF Doubled, _learner_facts
  <2>7. Complete(ctx, db, rd, learners)
    BY <2>4, <2>6 DEF Complete, _learner_facts
  <2>8. QED
    BY <1>2, <2>5, <2>7 DEF _project
<1>3. QED
  BY <1>1, <1>2
----------------------------------------------------------------------------
\* A learner who is not one of the adult's is hidden: the answer to a guess is the
\* same for every guess, whatever the school says of its classes, whatever the
\* database holds and whenever it is made.
THEOREM Concealed ==
    ASSUME NEW ctx1, NEW db1, NEW rd1, NEW k, k \notin Authorized(ctx1),
           NEW ctx2, NEW db2, NEW rd2, NEW l, l \notin Authorized(ctx2),
           ctx1.human = ctx2.human, ctx1.decision = ctx2.decision,
           ctx1.access = ctx2.access, ctx1.principals = ctx2.principals
    PROVE  get_child(ctx1, db1, rd1, k) = get_child(ctx2, db2, rd2, l)
<1>1. BadSubjects(ctx1) = BadSubjects(ctx2)
  BY DEF BadSubjects
<1>2. current_authorized_learners(ctx1) = current_authorized_learners(ctx2)
  BY <1>1 DEF current_authorized_learners
<1>3. _current_authorized_ids(ctx1) = _current_authorized_ids(ctx2)
  BY <1>2 DEF _current_authorized_ids
<1>4. QED
  BY <1>3 DEF get_child

\* "fine" is no refusal of the gate or of the school.
ContextOK(ctx) == /\ DOMAIN ctx.access.items \subseteq Nat
                  /\ "fine" \notin {ctx.human, ctx.access.fault}

\* A page shows learners the school names as the adult's now, each of them a human
\* member of the tenant, to an adult that is human and has the capability; and it
\* shows all of them: no child is left out of a home page for its size.
THEOREM OnlyTheirChildren ==
    ASSUME NEW ctx, NEW db, NEW rd, get_home(ctx, db, rd).answer = "fine",
           ContextOK(ctx)
    PROVE  /\ DOMAIN get_home(ctx, db, rd).children = Authorized(ctx)
           /\ ctx.human = "allowed" /\ ctx.decision = "ALLOW" /\ ctx.access.fault = None
           /\ \A l \in Authorized(ctx) :
                 ctx.principals[l].kind = "HUMAN" /\ ctx.principals[l].member
<1>1. _current_authorized_ids(ctx) = "fine"
  BY DEF get_home, Refused
<1>2. current_authorized_learners(ctx) = "fine"
  BY <1>1 DEF _current_authorized_ids
<1>3. BadSubjects(ctx) = {}
  <2>1. SUFFICES ASSUME BadSubjects(ctx) # {} PROVE FALSE
    OBVIOUS
  <2>2. Least(BadSubjects(ctx)) \in BadSubjects(ctx)
    <3>1. BadSubjects(ctx) \subseteq Nat
      BY DEF BadSubjects, ContextOK
    <3>2. QED
      BY <2>1, <3>1, LeastExists
  <2>3. QED
    BY <1>2, <2>1, <2>2 DEF current_authorized_learners, BadSubjects, ContextOK, authorize
<1>4. /\ ctx.human = "allowed" /\ ctx.decision = "ALLOW"
      /\ _validate_provider_structure(ctx.access) = "fine"
  BY <1>2 DEF current_authorized_learners, ContextOK, authorize
<1>5. ctx.access.fault = None
  BY <1>4 DEF _validate_provider_structure, ContextOK
<1>6. \A l \in Authorized(ctx) : ctx.principals[l].kind = "HUMAN" /\ ctx.principals[l].member
  BY <1>3 DEF BadSubjects, Authorized, Answered, validate_learner_subject
<1>7. DOMAIN get_home(ctx, db, rd).children = Authorized(ctx)
  BY <1>1 DEF get_home, _project, Refused
<1>8. QED
  BY <1>4, <1>5, <1>6, <1>7
-----------------------------------------------------------------------------
(* The report of a principal. *)

\* The rows of the classes of a scope.
InClasses(found, classes) == {r \in found : r.class \in classes}
SameRows(db1, db2, classes) ==
    /\ InClasses(db1.assignments, classes) = InClasses(db2.assignments, classes)
    /\ InClasses(db1.submissions, classes) = InClasses(db2.submissions, classes)
    /\ InClasses(db1.evaluations, classes) = InClasses(db2.evaluations, classes)
    /\ InClasses(db1.assessments, classes) = InClasses(db2.assessments, classes)
    /\ InClasses(db1.executions, classes) = InClasses(db2.executions, classes)
    /\ InClasses(db1.origins, classes) = InClasses(db2.origins, classes)

\* The keys and CHECKs of the tables: a submission has one evaluation under a policy.
ConsistentSchool(db) ==
    /\ IsFiniteSet(db.assignments) /\ IsFiniteSet(db.submissions) /\ IsFiniteSet(db.evaluations)
    /\ \A a \in db.assignments : a.state \in {"ACTIVE", "CLOSED", "CANCELLED"}
    /\ \A r, s \in db.submissions : r.id = s.id => r = s
    /\ \A d, e \in db.evaluations : d.submission = e.submission /\ d.policy = e.policy => d = e
----------------------------------------------------------------------------
LEMMA SameCounts ==
    ASSUME NEW db1, NEW db2, NEW classes, SameRows(db1, db2, classes), NEW c \in classes, NEW time
    PROVE  _merge_class(db1, time, c) = _merge_class(db2, time, c)
<1>1. _ASSIGNMENT_SQL(db1, time, c) = _ASSIGNMENT_SQL(db2, time, c)
  <2>1. \A d1, d2 : InClasses(d1, classes) = InClasses(d2, classes)
           => {a \in d1 : a.class = c /\ a.assigned_at <= time}
                = {a \in d2 : a.class = c /\ a.assigned_at <= time}
    BY DEF InClasses
  <2>2. QED
    BY <2>1 DEF _ASSIGNMENT_SQL, SameRows
<1>2. _SUBMISSION_SQL(db1, time, c) = _SUBMISSION_SQL(db2, time, c)
  <2>1. \A s : s \in db1.submissions /\ s.class = c <=> s \in db2.submissions /\ s.class = c
    BY DEF SameRows, InClasses
  <2>2. QED
    BY <1>1, <2>1 DEF _SUBMISSION_SQL
<1>3. _EVALUATION_SQL(db1, time, c) = _EVALUATION_SQL(db2, time, c)
  <2>1. \A e : e \in db1.evaluations /\ e.class = c <=> e \in db2.evaluations /\ e.class = c
    BY DEF SameRows, InClasses
  <2>2. \A s \in _SUBMISSION_SQL(db1, time, c) : s.class = c
    BY DEF _SUBMISSION_SQL
  <2>3. QED
    BY <1>2, <2>1, <2>2 DEF _EVALUATION_SQL, Evaluates
<1>4. Recorded(db1, time, c) = Recorded(db2, time, c)
  BY DEF SameRows, InClasses, Recorded, InState
<1>5. _CLASSROOM_SQL(db1, time, c) = _CLASSROOM_SQL(db2, time, c)
  BY <1>1, <1>4 DEF _CLASSROOM_SQL
<1>6. _EXECUTION_SQL(db1, time, c) = _EXECUTION_SQL(db2, time, c)
  BY DEF SameRows, InClasses, _EXECUTION_SQL, InState
<1>7. _REMEDIATION_SQL(db1, time, c) = _REMEDIATION_SQL(db2, time, c)
  BY DEF SameRows, InClasses, _REMEDIATION_SQL
<1>8. QED
  BY <1>1, <1>2, <1>3, <1>4, <1>5, <1>6, <1>7 DEF _merge_class

\* A report is made of the classes of the principal's scope alone: no row of another
\* class can change a count, a sum, or whether there is a report at all.
THEOREM ScopeAlone ==
    ASSUME NEW ctx, NEW db1, NEW db2, SameRows(db1, db2, Scope(ctx)), NEW time
    PROVE  get(ctx, db1, time) = get(ctx, db2, time)
<1>1. \A c \in Scope(ctx) : _merge_class(db1, time, c) = _merge_class(db2, time, c)
  BY SameCounts
<1>2. _require_complete_facts_snapshot(db1, time, Scope(ctx))
        <=> _require_complete_facts_snapshot(db2, time, Scope(ctx))
  BY <1>1 DEF _require_complete_facts_snapshot
<1>3. [c \in Scope(ctx) |-> _class_card(_merge_class(db1, time, c))]
        = [c \in Scope(ctx) |-> _class_card(_merge_class(db2, time, c))]
  BY <1>1
<1>4. QED
  BY <1>2, <1>3 DEF get
----------------------------------------------------------------------------
LEMMA LifecycleAddsUp ==
    ASSUME NEW db, ConsistentSchool(db), NEW time, NEW c
    PROVE  LET facts == _merge_class(db, time, c)
           IN facts.active + facts.closed + facts.cancelled = facts.assignments
<1> DEFINE found == _ASSIGNMENT_SQL(db, time, c)
           A == InState(found, "ACTIVE")
           B == InState(found, "CLOSED")
           C == InState(found, "CANCELLED")
<1>1. IsFiniteSet(found) /\ found = (A \cup B) \cup C
  BY FS_Subset DEF ConsistentSchool, _ASSIGNMENT_SQL, InState
<1>2. IsFiniteSet(A) /\ IsFiniteSet(B) /\ IsFiniteSet(C)
  BY <1>1, FS_Subset DEF InState
<1>3. A \cap B = {} /\ (A \cup B) \cap C = {}
  BY DEF InState
<1>4. IsFiniteSet(A \cup B) /\ Cardinality(A \cup B) = Cardinality(A) + Cardinality(B) - 0
  BY <1>2, <1>3, FS_Union, FS_EmptySet
<1>5. Cardinality(found) = Cardinality(A \cup B) + Cardinality(C) - 0
  BY <1>1, <1>2, <1>3, <1>4, FS_Union, FS_EmptySet
<1>6. Cardinality(A) \in Nat /\ Cardinality(B) \in Nat /\ Cardinality(C) \in Nat
  BY <1>2, FS_CardinalityType
<1> HIDE DEF found, A, B, C
<1>7. Cardinality(A) + Cardinality(B) + Cardinality(C) = Cardinality(found)
  BY <1>4, <1>5, <1>6
<1>8. QED
  BY <1>7 DEF _merge_class, found, A, B, C

\* The submissions of class c that the current policy has evaluated.
Evaluated(db, time, c) ==
    {s \in _SUBMISSION_SQL(db, time, c) : \E e \in db.evaluations : Evaluates(e, s, time)}

LEMMA OneEvaluationEach ==
    ASSUME NEW db, ConsistentSchool(db), NEW time, NEW c
    PROVE  /\ IsFiniteSet(_SUBMISSION_SQL(db, time, c)) /\ IsFiniteSet(Evaluated(db, time, c))
           /\ Cardinality(_EVALUATION_SQL(db, time, c)) = Cardinality(Evaluated(db, time, c))
<1> DEFINE S == Evaluated(db, time, c)
           E == _EVALUATION_SQL(db, time, c)
           f == [s \in S |-> CHOOSE e \in db.evaluations : Evaluates(e, s, time)]
<1>1. IsFiniteSet(_SUBMISSION_SQL(db, time, c)) /\ IsFiniteSet(S)
  BY FS_Subset DEF ConsistentSchool, _SUBMISSION_SQL, Evaluated
<1>2. \A s \in S : f[s] \in db.evaluations /\ Evaluates(f[s], s, time)
  BY DEF Evaluated
<1>3. \A s \in S : f[s] \in E
  BY <1>2 DEF _EVALUATION_SQL, Evaluated
<1>4. \A r, s \in S : f[r] = f[s] => r = s
  <2>1. \A s \in S : s \in db.submissions /\ f[s].submission = s.id
    BY <1>2 DEF Evaluates, Evaluated, _SUBMISSION_SQL
  <2> HIDE DEF S, f
  <2> QED
    BY <2>1 DEF ConsistentSchool
<1>5. \A e \in E : \E s \in S : f[s] = e
  <2>1. SUFFICES ASSUME NEW e \in E PROVE \E s \in S : f[s] = e
    OBVIOUS
  <2>2. PICK s \in _SUBMISSION_SQL(db, time, c) : Evaluates(e, s, time)
    BY DEF _EVALUATION_SQL
  <2>3. e \in db.evaluations /\ s \in S
    BY <2>2 DEF Evaluated, _EVALUATION_SQL
  <2>4. f[s] = e
    BY <1>2, <2>2, <2>3 DEF Evaluates, ConsistentSchool
  <2>5. QED
    BY <2>3, <2>4
<1>6. f \in Bijection(S, E)
  <2> HIDE DEF E, S
  <2>1. f \in [S -> E]
    BY <1>3
  <2> HIDE DEF f
  <2>2. f \in Injection(S, E)
    BY <1>4, <2>1 DEF Injection, IsInjective
  <2>3. f \in Surjection(S, E)
    BY <1>5, <2>1 DEF Surjection
  <2>4. QED
    BY <2>2, <2>3 DEF Bijection
<1>7. QED
  BY <1>1, <1>6, FS_Bijection DEF ExistsBijection

\* A card tells how many submissions still wait for the current policy: the count the
\* report gets by subtraction is the number of submissions without an evaluation.
THEOREM NotEvaluatedIsTrue ==
    ASSUME NEW db, ConsistentSchool(db), NEW time, NEW c
    PROVE  _class_card(_merge_class(db, time, c)).not_evaluated
             = Cardinality({s \in _SUBMISSION_SQL(db, time, c) :
                               ~\E e \in db.evaluations : Evaluates(e, s, time)})
<1> DEFINE S == _SUBMISSION_SQL(db, time, c)
           V == Evaluated(db, time, c)
<1>1. {s \in S : ~\E e \in db.evaluations : Evaluates(e, s, time)} = S \ V
  BY DEF Evaluated
<1>2. S \cap V = V
  BY DEF Evaluated
<1>3. Cardinality(S \ V) = Cardinality(S) - Cardinality(V)
  BY <1>2, OneEvaluationEach, FS_Difference
<1>4. QED
  BY <1>1, <1>3, OneEvaluationEach DEF _class_card, _merge_class

\* Rows the tables can hold always give a report: the counts of one snapshot fit
\* together, so the check that refuses counts that do not never strikes.
THEOREM CountsFitTogether ==
    ASSUME NEW ctx, NEW db, ConsistentSchool(db), NEW time,
           current_authorized_classes(ctx) = "fine",
           Scope(ctx) \cap (BlankRefs \cup PaddedRefs) = {}
    PROVE  get(ctx, db, time).answer = "fine" \/ get(ctx, db, time).answer = "capacity"
<1>1. ASSUME NEW c \in Scope(ctx)
      PROVE  _merge_class(db, time, c).evaluations <= _merge_class(db, time, c).submissions
  <2>1. Evaluated(db, time, c) \subseteq _SUBMISSION_SQL(db, time, c)
    BY DEF Evaluated
  <2>2. Cardinality(Evaluated(db, time, c)) <= Cardinality(_SUBMISSION_SQL(db, time, c))
    BY <2>1, OneEvaluationEach, FS_Subset
  <2>3. QED
    BY <2>2, OneEvaluationEach DEF _merge_class
<1>2. \A c \in Scope(ctx) : _validate_class_facts(c, _merge_class(db, time, c))
  BY <1>1, LifecycleAddsUp DEF _validate_class_facts
<1>3. QED
  BY <1>2 DEF get, NotReported, Report, _require_complete_facts_snapshot

\* A ClassRef with spaces around it passes the check of the scope and fails that of
\* the facts: one such class leaves the principal without a report of any class.
THEOREM PaddedRefSilencesReport ==
    ASSUME NEW ctx, NEW db, NEW time, NEW c \in Scope(ctx), c \in PaddedRefs,
           current_authorized_classes(ctx) = "fine"
    PROVE  get(ctx, db, time).answer = "unavailable" \/ get(ctx, db, time).answer = "capacity"
<1>1. ~_require_complete_facts_snapshot(db, time, Scope(ctx))
  BY DEF _require_complete_facts_snapshot, _validate_class_facts
<1>2. QED
  BY <1>1 DEF get, NotReported
-----------------------------------------------------------------------------
(***************************************************************************)
(* The audit ledger.                                                       *)
(***************************************************************************)

AllAdmitted(checks, taken) == \A r \in taken : Admits(checks, r)

-----------------------------------------------------------------------------
(* Forwards: each migration admits what its predecessor admitted. *)

LEMMA AssetWidens ==
  ASSUME NEW r \in Records, Admits(saii020001, r)
  PROVE  Admits(pedi10b6001, r)
  BY DEF Admits, pedi10b6001, saii020001, Restated, Records, Null, Creates, Increments,
      ContentActions, ContentIncrement

LEMMA AssignmentWidens ==
  ASSUME NEW r \in Records, Admits(pedi10b6001, r)
  PROVE  Admits(tosd060002, r)
  BY DEF Admits, tosd060002, pedi10b6001, Restated, Records, Null, Creates, Increments,
      TeachingCreate, TeachingIncrement, AssessmentCreate, ClassroomActions,
      LearningActions, MemoryActions, ExecutionActions, AssignmentActions

LEMMA ExecutionWidens ==
  ASSUME NEW r \in Records, Admits(tosd060002, r)
  PROVE  Admits(tosd070002, r)
  BY DEF Admits, tosd070002, tosd060002, Restated, Records, Null, Creates, Increments,
      TeachingCreate, TeachingIncrement, AssessmentCreate, ClassroomActions,
      LearningActions, MemoryActions, ExecutionActions, AssignmentActions

LEMMA ClassroomWidens ==
  ASSUME NEW r \in Records, Admits(tosd070002, r)
  PROVE  Admits(tosd080002, r)
  BY DEF Admits, tosd080002, tosd070002, Restated, Records, Null, Creates, Increments,
      TeachingCreate, TeachingIncrement, AssessmentCreate, ClassroomActions,
      LearningActions, MemoryActions, ExecutionActions, AssignmentActions

LEMMA RemediationWidens ==
  ASSUME NEW r \in Records, Admits(tosd080002, r)
  PROVE  Admits(tosd090002, r)
  BY DEF Admits, tosd090002, tosd080002, Restated, Records, Null, Creates, Increments,
      TeachingCreate, TeachingIncrement, AssessmentCreate, ClassroomActions,
      LearningActions, MemoryActions, ExecutionActions, AssignmentActions

LEMMA MemoryWidens ==
  ASSUME NEW r \in Records, Admits(tosd090002, r)
  PROVE  Admits(tosd100001, r)
  BY DEF Admits, tosd100001, tosd090002, Restated, Records, Null, Creates, Increments,
      TeachingCreate, TeachingIncrement, AssessmentCreate, ClassroomActions,
      LearningActions, MemoryActions, ExecutionActions, AssignmentActions

LEMMA LearningWidens ==
  ASSUME NEW r \in Records, Admits(tosd100001, r)
  PROVE  Admits(a360s010002, r)
  BY DEF Admits, a360s010002, tosd100001, Restated, Records, Null, Creates, Increments,
      TeachingCreate, TeachingIncrement, AssessmentCreate, ClassroomActions,
      LearningActions, MemoryActions, ExecutionActions, AssignmentActions

LEMMA EvaluationWidens ==
  ASSUME NEW r \in Records, Admits(a360s010002, r)
  PROVE  Admits(a360s010004, r)
  BY DEF Admits, a360s010004, a360s010002, Restated, Records, Null, Creates, Increments,
      TeachingCreate, TeachingIncrement, AssessmentCreate, ClassroomActions,
      LearningActions, MemoryActions, ExecutionActions, AssignmentActions

\* A record the ledger holds at the first migration is one it holds at the head: the CHECKs are
\* added to a table with rows in it, and no row makes an upgrade fail.
THEOREM UpgradesKeepRecords ==
  ASSUME NEW taken \in SUBSET Records, AllAdmitted(saii020001, taken)
  PROVE  AllAdmitted(Current, taken)
<1> SUFFICES ASSUME NEW r \in taken PROVE Admits(Current, r)
  BY DEF AllAdmitted
<1>1. r \in Records /\ Admits(saii020001, r)
  BY DEF AllAdmitted
<1>2. Admits(tosd060002, r)
  BY <1>1, AssetWidens, AssignmentWidens
<1>3. Admits(tosd080002, r)
  BY <1>1, <1>2, ExecutionWidens, ClassroomWidens
<1>4. Admits(tosd100001, r)
  BY <1>1, <1>3, RemediationWidens, MemoryWidens
<1> QED
  BY <1>1, <1>4, LearningWidens, EvaluationWidens DEF Current

-----------------------------------------------------------------------------
(* Back: what a downgrade leaves in force admits every record there is. *)

LEMMA AssetUndone ==
  ASSUME NEW taken \in SUBSET Records, AllAdmitted(pedi10b6001, taken)
  PROVE  AllAdmitted(DowngradeAsset(taken), taken)
  BY DEF DowngradeAsset, AllAdmitted, Admits, pedi10b6001, saii020001, Restated,
      Records, Null, Creates, Increments, ContentIncrement, ContentActions,
      AssetIncrement, AssetActions, AssignmentIncrement, ExecutionCreate,
      ExecutionIncrement, AssignmentActions, ExecutionActions, MemoryActions,
      TeachingCreate, TeachingIncrement, ClassroomIncrement, ClassroomActions,
      AssessmentCreate, LearningIncrement, LearningActions

LEMMA AssignmentUndone ==
  ASSUME NEW taken \in SUBSET Records, AllAdmitted(tosd060002, taken)
  PROVE  AllAdmitted(DowngradeAssignment(taken), taken)
  BY DEF DowngradeAssignment, Undo, AllAdmitted, Admits, tosd060002, pedi10b6001,
      Restated, Records, Null, Creates, Increments, TeachingCreate, TeachingIncrement,
      AssessmentCreate, ClassroomActions, LearningActions, MemoryActions,
      ExecutionActions, AssignmentActions, ExecutionCreate, ExecutionIncrement,
      AssignmentIncrement, ClassroomIncrement, LearningIncrement

LEMMA ExecutionUndone ==
  ASSUME NEW taken \in SUBSET Records, AllAdmitted(tosd070002, taken)
  PROVE  AllAdmitted(DowngradeExecution(taken), taken)
  BY DEF DowngradeExecution, Undo, AllAdmitted, Admits, tosd070002, tosd060002,
      Restated, Records, Null, Creates, Increments, TeachingCreate, TeachingIncrement,
      AssessmentCreate, ClassroomActions, LearningActions, MemoryActions,
      ExecutionActions, AssignmentActions, ExecutionCreate, ExecutionIncrement,
      AssignmentIncrement, ClassroomIncrement, LearningIncrement

LEMMA ClassroomUndone ==
  ASSUME NEW taken \in SUBSET Records, AllAdmitted(tosd080002, taken)
  PROVE  AllAdmitted(DowngradeClassroom(taken), taken)
  BY DEF DowngradeClassroom, Undo, AllAdmitted, Admits, tosd080002, tosd070002,
      Restated, Records, Null, Creates, Increments, TeachingCreate, TeachingIncrement,
      AssessmentCreate, ClassroomActions, LearningActions, MemoryActions,
      ExecutionActions, AssignmentActions, ExecutionCreate, ExecutionIncrement,
      AssignmentIncrement, ClassroomIncrement, LearningIncrement

LEMMA RemediationUndone ==
  ASSUME NEW taken \in SUBSET Records, AllAdmitted(tosd090002, taken)
  PROVE  AllAdmitted(DowngradeRemediation(taken), taken)
  BY DEF DowngradeRemediation, Undo, AllAdmitted, Admits, tosd090002, tosd080002,
      Restated, Records, Null, Creates, Increments, TeachingCreate, TeachingIncrement,
      AssessmentCreate, ClassroomActions, LearningActions, MemoryActions,
      ExecutionActions, AssignmentActions, ExecutionCreate, ExecutionIncrement,
      AssignmentIncrement, ClassroomIncrement, LearningIncrement

LEMMA MemoryUndone ==
  ASSUME NEW taken \in SUBSET Records, AllAdmitted(tosd100001, taken)
  PROVE  AllAdmitted(DowngradeMemory(taken), taken)
  BY DEF DowngradeMemory, Undo, AllAdmitted, Admits, tosd100001, tosd090002, Restated,
      Records, Null, Creates, Increments, TeachingCreate, TeachingIncrement,
      AssessmentCreate, ClassroomActions, LearningActions, MemoryActions,
      ExecutionActions, AssignmentActions, ExecutionCreate, ExecutionIncrement,
      AssignmentIncrement, ClassroomIncrement, LearningIncrement

LEMMA LearningUndone ==
  ASSUME NEW taken \in SUBSET Records, AllAdmitted(a360s010002, taken)
  PROVE  AllAdmitted(DowngradeLearning(taken), taken)
  BY DEF DowngradeLearning, Undo, AllAdmitted, Admits, a360s010002, tosd100001,
      Restated, Records, Null, Creates, Increments, TeachingCreate, TeachingIncrement,
      AssessmentCreate, ClassroomActions, LearningActions, MemoryActions,
      ExecutionActions, AssignmentActions, ExecutionCreate, ExecutionIncrement,
      AssignmentIncrement, ClassroomIncrement, LearningIncrement

LEMMA EvaluationUndone ==
  ASSUME NEW taken \in SUBSET Records, AllAdmitted(a360s010004, taken)
  PROVE  AllAdmitted(DowngradeEvaluation(taken), taken)
  BY DEF DowngradeEvaluation, Undo, AllAdmitted, Admits, a360s010004, a360s010002,
      Restated, Records, Null, Creates, Increments, TeachingCreate, TeachingIncrement,
      AssessmentCreate, ClassroomActions, LearningActions, MemoryActions,
      ExecutionActions, AssignmentActions, ExecutionCreate, ExecutionIncrement,
      AssignmentIncrement, ClassroomIncrement, LearningIncrement

\* No downgrade of a vocabulary fails on the records of the ledger, and none takes a check back
\* that a record needs: it refuses, or the restored checks admit everything that was recorded.
THEOREM DowngradesKeepRecords ==
  ASSUME NEW taken \in SUBSET Records
  PROVE  /\ AllAdmitted(pedi10b6001, taken) => AllAdmitted(DowngradeAsset(taken), taken)
         /\ AllAdmitted(tosd060002, taken) => AllAdmitted(DowngradeAssignment(taken), taken)
         /\ AllAdmitted(tosd070002, taken) => AllAdmitted(DowngradeExecution(taken), taken)
         /\ AllAdmitted(tosd080002, taken) => AllAdmitted(DowngradeClassroom(taken), taken)
         /\ AllAdmitted(tosd090002, taken) => AllAdmitted(DowngradeRemediation(taken), taken)
         /\ AllAdmitted(tosd100001, taken) => AllAdmitted(DowngradeMemory(taken), taken)
         /\ AllAdmitted(a360s010002, taken) => AllAdmitted(DowngradeLearning(taken), taken)
         /\ AllAdmitted(a360s010004, taken) => AllAdmitted(DowngradeEvaluation(taken), taken)
  BY AssetUndone, AssignmentUndone, ExecutionUndone, ClassroomUndone, RemediationUndone,
     MemoryUndone, LearningUndone, EvaluationUndone

-----------------------------------------------------------------------------

\* The walk of the database finds what the comparisons of the code find.
LEMMA SameReferences ==
  ASSUME NEW r \in Records
  PROVE  RelatedRefs(r) <=> related_resource_refs_are_valid(r.related, r.resource, r.primary)
<1> DEFINE refs == r.related
<1>1. refs \in Seq(References) /\ DOMAIN refs = 1 .. Len(refs) /\ Len(refs) \in Nat
  BY DEF Records
<1>2. ASSUME NEW n \in 1 .. Len(refs)
      PROVE  /\ refs[n] = <<refs[n][1], refs[n][2]>>
             /\ refs[n] = <<r.resource, r.primary>>
                   <=> refs[n][1] = r.resource /\ refs[n][2] = r.primary
  <2>1. refs[n] \in References
    BY <1>1, <1>2
  <2> QED
    BY <2>1 DEF References
<1>3. (\A i, j \in 1 .. Len(refs) : i # j => refs[i] # refs[j])
        <=> \A n \in 1 .. Len(refs) : refs[n] \notin {refs[before] : before \in 1 .. n - 1}
  BY <1>1
<1> QED
  BY <1>1, <1>2, <1>3 DEF RelatedRefs, related_resource_refs_are_valid

\* The ledger of the running release takes exactly the records the code validates: a mutation
\* whose audit record is sound never fails on the CHECKs, and the CHECKs let nothing else in.
THEOREM LedgerAgreesWithCode ==
  ASSUME NEW r \in Records
  PROVE  Recordable(r) <=> Admits(Current, r)
<1>1. CASE r.action \in AssetActions
  BY <1>1, SameReferences DEF Recordable, RevisionPair, PrimaryRevision, Admits, Current,
      a360s010004, Restated, Records, Null, Creates, Increments, ContentIncrement,
      ContentActions, AssetIncrement, AssetActions, AssignmentIncrement,
      ExecutionCreate, ExecutionIncrement, AssignmentActions, ExecutionActions,
      MemoryActions, TeachingCreate, TeachingIncrement, ClassroomIncrement,
      ClassroomActions, AssessmentCreate, LearningIncrement, LearningActions
<1>2. CASE r.action \notin AssetActions
  BY <1>2, SameReferences DEF Recordable, RevisionPair, PrimaryRevision, Admits, Current,
      a360s010004, Restated, Records, Null, Creates, Increments, ContentIncrement,
      ContentActions, AssetIncrement, AssetActions, AssignmentIncrement,
      ExecutionCreate, ExecutionIncrement, AssignmentActions, ExecutionActions,
      MemoryActions, TeachingCreate, TeachingIncrement, ClassroomIncrement,
      ClassroomActions, AssessmentCreate, LearningIncrement, LearningActions
<1> QED
  BY <1>1, <1>2
-----------------------------------------------------------------------------
(***************************************************************************)
(* Importing, for any number of importers, sources and documents, whether or *)
(* not the gate of a source holds: nothing below mentions it.              *)
(***************************************************************************)

Origin == [source : Sources, evidence : ImportEvidence, batch : Batches, id : ContentIds]

\* Types of everything but the gate.
ImportTypeOK ==
    /\ records \in [Sources -> Record]
    /\ contents \in SUBSET Origin
    /\ writer \in [Sources -> Importers \cup {NoImporter}]
    /\ pc \in [Importers -> Stages]
    /\ candidate \in [Importers -> Candidate]
    /\ known \in [Importers -> Record]
    /\ target \in [Importers -> ContentIds \cup {NoTarget}]
    /\ answered \in SUBSET Importers

Working == {"validating", "writing", "committing", "recording", "committing_failure"}

\* What importer i relies on between its steps: the row it wrote is still its
\* own and still acceptable, and a record it has read still carries its evidence.
Mine(i) ==
    /\ pc[i] \in {"committing", "committing_failure"} => writer[Source(i)] = i
    /\ pc[i] = "committing" => target[i] \in ContentIds /\ Taken(i, "IMPORTED", target[i])
    /\ pc[i] = "committing_failure" => Taken(i, "FAILED", NoTarget)
    /\ pc[i] \in Working /\ known[i].outcome # "NONE" =>
          Row(i).outcome # "NONE" /\ Row(i).evidence = candidate[i].evidence
    /\ i \in answered => pc[i] \in {"idle", "leaving"}

ImportIInv == /\ ImportTypeOK
              /\ \A i \in Importers : Mine(i)
              /\ OneContentPerSource
              /\ RecordsTellTheTruth
              /\ AnswersAreTrue

EvidenceStays == \A s \in Sources :
    /\ records[s].outcome # "NONE" =>
          /\ records'[s].outcome # "NONE"
          /\ records'[s].evidence = records[s].evidence
          /\ records'[s].first_batch = records[s].first_batch
    /\ records[s].outcome = "IMPORTED" => records'[s] = records[s]
----------------------------------------------------------------------------
LEMMA SameEvidence ==
    ASSUME NEW r \in Record, NEW c \in Candidate, _fingerprints_match(r, c)
    PROVE  r.evidence = c.evidence
BY DEF _fingerprints_match, Record, Candidate, ImportEvidence

\* The row an importer writes carries its evidence, and replaces no import.
LEMMA WrittenRow ==
    ASSUME ImportTypeOK, NEW i \in Importers, Mine(i), pc[i] \in Working,
           NEW o \in {"FAILED", "IMPORTED"}, NEW id \in ContentIds \cup {NoTarget},
           Taken(i, o, id)
    PROVE  /\ RowWritten(i, o, id) \in Record
           /\ RowWritten(i, o, id).outcome = o
           /\ RowWritten(i, o, id).target = id
           /\ RowWritten(i, o, id).evidence = candidate[i].evidence
           /\ Row(i).outcome # "IMPORTED"
           /\ Row(i).outcome # "NONE" => RowWritten(i, o, id).evidence = Row(i).evidence
           /\ Row(i).outcome # "NONE" => RowWritten(i, o, id).first_batch = Row(i).first_batch
<1>1. candidate[i] \in Candidate /\ Source(i) \in Sources /\ Row(i) \in Record /\ known[i] \in Record
  BY DEF ImportTypeOK, Source, Row, Candidate
<1>2. CASE known[i].outcome = "NONE"
  <2>1. RowWritten(i, o, id) = Inserted(candidate[i], o, id) /\ Row(i).outcome = "NONE"
    BY <1>2 DEF Taken, RowWritten
  <2> QED BY <1>1, <2>1 DEF Inserted, Record, Candidate
<1>3. CASE known[i].outcome # "NONE"
  <2>1. RowWritten(i, o, id) = Updated(Row(i), known[i], candidate[i], o, id)
    BY <1>3 DEF RowWritten
  <2>2. Row(i).outcome = "FAILED" /\ Row(i).evidence = candidate[i].evidence
    BY <1>3 DEF Mine, Taken
  <2>3. known[i].attempt_count + 1 \in Nat
    BY <1>1 DEF Record
  <2> QED BY <1>1, <2>1, <2>2, <2>3 DEF Updated, Record, Candidate
<1> QED BY <1>2, <1>3

\* An importer a step leaves alone goes on relying on what it relied on.
LEMMA Bystander ==
    ASSUME ImportTypeOK, NEW j \in Importers, Mine(j),
           pc'[j] = pc[j], candidate'[j] = candidate[j], known'[j] = known[j],
           target'[j] = target[j], j \in answered' => j \in answered,
           EvidenceStays,
           pc[j] \in {"committing", "committing_failure"} =>
              /\ writer'[Source(j)] = writer[Source(j)]
              /\ records'[Source(j)] = records[Source(j)]
    PROVE  Mine(j)'
<1>1. Source(j) \in Sources /\ Source(j)' = Source(j)
  BY DEF ImportTypeOK, Source, Candidate
<1>2. pc[j] \in {"committing", "committing_failure"} => Row(j)' = Row(j)
  BY <1>1 DEF Row
<1>3. ASSUME pc[j] \in {"committing", "committing_failure"}, NEW o, NEW id
      PROVE  RowWritten(j, o, id)' = RowWritten(j, o, id) /\ Taken(j, o, id)' = Taken(j, o, id)
  BY <1>2, <1>3 DEF RowWritten, Taken
<1>4. pc[j] = "committing" =>
         target'[j] \in ContentIds /\ (Taken(j, "IMPORTED", target[j]))'
  <2> SUFFICES ASSUME pc[j] = "committing"
               PROVE  target'[j] \in ContentIds /\ (Taken(j, "IMPORTED", target[j]))'
    OBVIOUS
  <2>1. Taken(j, "IMPORTED", target[j]) /\ target[j] \in ContentIds
    BY DEF Mine
  <2>2. Row(j)' = Row(j)
    BY <1>2
  <2> QED BY <2>1, <2>2 DEF RowWritten, Taken
<1>5. pc[j] = "committing_failure" => Taken(j, "FAILED", NoTarget)'
  BY <1>2 DEF Mine, RowWritten, Taken
<1>6. pc[j] \in {"committing", "committing_failure"} => writer'[Source(j)] = j
  BY DEF Mine
<1>7. pc[j] \in Working /\ known[j].outcome # "NONE" =>
         (Row(j).outcome # "NONE" /\ Row(j).evidence = candidate[j].evidence)'
  BY <1>1 DEF Mine, EvidenceStays, Row
<1>8. j \in answered' => pc'[j] \in {"idle", "leaving"}
  BY DEF Mine
<1> QED BY <1>1, <1>4, <1>5, <1>6, <1>7, <1>8 DEF Mine

\* The three invariants hold of every step that writes no row.
LEMMA Quiet ==
    ASSUME OneContentPerSource, RecordsTellTheTruth, UNCHANGED <<records, contents>>
    PROVE  OneContentPerSource' /\ RecordsTellTheTruth' /\ EvidenceStays
BY DEF OneContentPerSource, RecordsTellTheTruth, EvidenceStays

LEMMA SameAnswers ==
    ASSUME ImportTypeOK, AnswersAreTrue, contents \subseteq contents', answered' \subseteq answered,
           \A i \in answered' : target'[i] = target[i] /\ candidate'[i] = candidate[i]
    PROVE  AnswersAreTrue'
BY DEF AnswersAreTrue, Source
----------------------------------------------------------------------------
LEMMA InitOK == ASSUME ImportInit PROVE ImportIInv
<1>1. ImportTypeOK
  BY DEF ImportInit, ImportTypeOK, Stages
<1>2. \A i \in Importers : Mine(i)
  BY DEF ImportInit, Mine, Working
<1>3. OneContentPerSource /\ RecordsTellTheTruth /\ AnswersAreTrue
  BY DEF ImportInit, OneContentPerSource, RecordsTellTheTruth, AnswersAreTrue
<1> QED BY <1>1, <1>2, <1>3 DEF ImportIInv

LEMMA StepTo ==
    ASSUME ImportTypeOK, NEW i \in Importers, NEW state \in Stages, To(i, state)
    PROVE  /\ pc' \in [Importers -> Stages] /\ pc'[i] = state
           /\ \A j \in Importers \ {i} : pc'[j] = pc[j]
BY DEF ImportTypeOK, To

LEMMA UnlockedKeeps ==
    ASSUME ImportTypeOK, NEW i \in Importers, writer' = Unlocked(i)
    PROVE  /\ writer' \in [Sources -> Importers \cup {NoImporter}]
           /\ \A s \in Sources : writer[s] # i => writer'[s] = writer[s]
BY DEF ImportTypeOK, Unlocked

\* A step of importer i that writes no row and no lock.
LEMMA QuietStep ==
    ASSUME ImportIInv, NEW i \in Importers, UNCHANGED <<records, contents>>,
           pc' \in [Importers -> Stages], candidate' \in [Importers -> Candidate],
           known' \in [Importers -> Record],
           target' \in [Importers -> ContentIds \cup {NoTarget}],
           writer' \in [Sources -> Importers \cup {NoImporter}],
           answered' \in SUBSET Importers, answered' \subseteq answered \cup {i},
           \A j \in Importers \ {i} : /\ pc'[j] = pc[j] /\ candidate'[j] = candidate[j]
                                      /\ known'[j] = known[j] /\ target'[j] = target[j],
           \A s \in Sources : writer[s] \notin {i, NoImporter} => writer'[s] = writer[s],
           NoImporter \notin Importers,
           AnswersAreTrue', Mine(i)'
    PROVE  ImportIInv' /\ EvidenceStays
<1>1. OneContentPerSource' /\ RecordsTellTheTruth' /\ EvidenceStays
  BY Quiet DEF ImportIInv
<1>2. ASSUME NEW j \in Importers PROVE Mine(j)'
  <2>1. CASE j = i
    BY <2>1
  <2>2. CASE j # i
    <3>1. Mine(j) /\ ImportTypeOK
      BY DEF ImportIInv
    <3>2. Source(j) \in Sources
      BY <3>1 DEF ImportTypeOK, Source, Candidate
    <3>3. pc[j] \in {"committing", "committing_failure"} =>
             writer'[Source(j)] = writer[Source(j)]
      BY <2>2, <3>1, <3>2 DEF Mine
    <3> QED BY <1>1, <2>2, <3>1, <3>3, Bystander
  <2> QED BY <2>1, <2>2
<1>3. ImportTypeOK'
  BY DEF ImportIInv, ImportTypeOK
<1> QED BY <1>1, <1>2, <1>3 DEF ImportIInv

\* The commit of a row by importer i, IMPORTED with its Content or FAILED.
LEMMA RowCommitted ==
    ASSUME ImportIInv, NoImporter \notin Importers, NEW i \in Importers,
           NEW o \in {"FAILED", "IMPORTED"}, NEW id \in ContentIds \cup {NoTarget},
           pc[i] \in {"committing", "committing_failure"}, Taken(i, o, id),
           records' = [records EXCEPT ![Source(i)] = RowWritten(i, o, id)],
           o = "IMPORTED" => /\ id \in ContentIds
                             /\ contents' = contents \cup {Provenance(candidate[i], id)},
           o = "FAILED" => contents' = contents,
           writer' = Unlocked(i),
           NEW state \in Stages \ Working, To(i, state),
           UNCHANGED <<candidate, known, target>>,
           answered' \in SUBSET Importers, answered' \subseteq answered \cup {i},
           i \in answered' => state = "leaving", AnswersAreTrue'
    PROVE  ImportIInv' /\ EvidenceStays
<1> DEFINE s == Source(i)
           row == RowWritten(i, o, id)
<1>1. /\ ImportTypeOK /\ Mine(i) /\ pc[i] \in Working /\ s \in Sources
      /\ candidate[i] \in Candidate /\ candidate[i].source = s
  BY DEF ImportIInv, ImportTypeOK, Working, Source, Candidate
<1>2. /\ row \in Record /\ row.outcome = o /\ row.target = id
      /\ row.evidence = candidate[i].evidence
      /\ records[s].outcome # "IMPORTED"
      /\ records[s].outcome # "NONE" => /\ row.evidence = records[s].evidence
                                        /\ row.first_batch = records[s].first_batch
  <2> HIDE DEF row
  <2>1. Row(i) = records[s]
    BY DEF Row
  <2> QED BY <1>1, <2>1, WrittenRow DEF row
<1>3. /\ records' \in [Sources -> Record]
      /\ records'[s] = row
      /\ \A t \in Sources \ {s} : records'[t] = records[t]
  <2>1. records' = [records EXCEPT ![s] = row]
    OBVIOUS
  <2>2. row \in Record /\ s \in Sources /\ records \in [Sources -> Record]
    BY <1>1, <1>2 DEF ImportTypeOK
  <2> HIDE DEF row, s
  <2> QED BY <2>1, <2>2
<1> HIDE DEF row, s
<1>4. EvidenceStays
  <2>1. \A t \in Sources : t = s \/ records'[t] = records[t]
    BY <1>3
  <2> QED BY <1>2, <1>3, <2>1 DEF EvidenceStays
<1>5. ASSUME NEW j \in Importers PROVE Mine(j)'
  <2>1. CASE j = i
    <3>1. pc'[i] = state
      BY <1>1, StepTo
    <3> QED BY <2>1, <3>1 DEF Mine, Working
  <2>2. CASE j # i
    <3>1. Mine(j) /\ Source(j) \in Sources
      BY <1>1 DEF ImportIInv, ImportTypeOK, Source, Candidate
    <3>2. pc'[j] = pc[j]
      BY <1>1, <2>2, StepTo
    <3>3. pc[j] \in {"committing", "committing_failure"} =>
             /\ writer[Source(j)] = j /\ writer[s] = i
      BY <1>1, <3>1 DEF Mine, s
    <3>4. pc[j] \in {"committing", "committing_failure"} =>
             /\ writer'[Source(j)] = writer[Source(j)]
             /\ records'[Source(j)] = records[Source(j)]
      BY <1>1, <1>3, <2>2, <3>1, <3>3, UnlockedKeeps
    <3>5. j \in answered' => j \in answered
      BY <2>2
    <3> QED BY <1>1, <1>4, <3>1, <3>2, <3>4, <3>5, Bystander
  <2> QED BY <2>1, <2>2
<1>6. ImportTypeOK' /\ OneContentPerSource' /\ RecordsTellTheTruth'
  <2>1. /\ pc' \in [Importers -> Stages]
        /\ writer' \in [Sources -> Importers \cup {NoImporter}]
    BY <1>1, StepTo, UnlockedKeeps
  <2>2. \A c \in contents : c.source # s
    BY <1>1, <1>2 DEF ImportIInv, RecordsTellTheTruth
  <2>3. CASE o = "FAILED"
    <3>1. contents' = contents
      BY <2>3
    <3>2. ImportTypeOK'
      BY <1>1, <1>3, <2>1, <3>1 DEF ImportTypeOK
    <3>3. OneContentPerSource'
      BY <3>1 DEF ImportIInv, OneContentPerSource
    <3>4. RecordsTellTheTruth'
      BY <1>2, <1>3, <2>2, <2>3, <3>1 DEF ImportIInv, RecordsTellTheTruth
    <3> QED BY <3>2, <3>3, <3>4
  <2>4. CASE o = "IMPORTED"
    <3> DEFINE new == Provenance(candidate[i], id)
    <3>1. /\ contents' = contents \cup {new}
          /\ new \in Origin /\ new.source = s /\ new.evidence = candidate[i].evidence
          /\ new.id = id
      BY <1>1, <2>4 DEF Provenance, Origin, Candidate
    <3> HIDE DEF new
    <3>2. ImportTypeOK'
      BY <1>1, <1>3, <2>1, <3>1 DEF ImportTypeOK
    <3>3. OneContentPerSource'
      BY <2>2, <3>1 DEF ImportIInv, OneContentPerSource
    <3>4. ASSUME NEW t \in Sources
          PROVE  /\ records'[t].outcome = "IMPORTED" =>
                       \E c \in contents' : /\ c.source = t /\ c.id = records'[t].target
                                            /\ c.evidence = records'[t].evidence
                 /\ \A c \in contents' : c.source = t => records'[t].outcome = "IMPORTED"
      <4>1. CASE t = s
        BY <1>2, <1>3, <2>4, <3>1, <4>1
      <4>2. CASE t # s
        <5>1. records'[t] = records[t]
          BY <1>3, <4>2
        <5>2. \A c \in contents' : c.source = t => c \in contents
          BY <3>1, <4>2
        <5>3. contents \subseteq contents'
          BY <3>1
        <5> QED BY <5>1, <5>2, <5>3 DEF ImportIInv, RecordsTellTheTruth
      <4> QED BY <4>1, <4>2
    <3>5. RecordsTellTheTruth'
      BY <3>4 DEF RecordsTellTheTruth
    <3> QED BY <3>2, <3>3, <3>5
  <2> QED BY <2>3, <2>4
<1> QED BY <1>4, <1>5, <1>6 DEF ImportIInv
----------------------------------------------------------------------------
LEMMA NextOK ==
    ASSUME NoImporter \notin Importers, ImportIInv, ImportNext PROVE ImportIInv' /\ EvidenceStays
<1>0. /\ ImportTypeOK /\ AnswersAreTrue /\ \A i \in Importers : Mine(i)
      /\ OneContentPerSource /\ RecordsTellTheTruth
  BY DEF ImportIInv
<1>1. ASSUME NEW i \in Importers, Enter(i) PROVE ImportIInv' /\ EvidenceStays
  <2>1. PICK c \in Candidate : candidate' = [candidate EXCEPT ![i] = c]
    BY <1>1 DEF Enter
  <2>2. /\ candidate' \in [Importers -> Candidate]
        /\ \A j \in Importers \ {i} : candidate'[j] = candidate[j]
    BY <1>0, <2>1 DEF ImportTypeOK
  <2>3. /\ target' \in [Importers -> ContentIds \cup {NoTarget}]
        /\ \A j \in Importers \ {i} : target'[j] = target[j]
    BY <1>0, <1>1 DEF Enter, ImportTypeOK
  <2>4. /\ pc' \in [Importers -> Stages] /\ pc'[i] = "reading"
        /\ \A j \in Importers \ {i} : pc'[j] = pc[j]
    BY <1>0, <1>1, StepTo DEF Enter, Stages
  <2>5. AnswersAreTrue'
    <3>1. answered' = answered \ {i} /\ UNCHANGED contents
      BY <1>1 DEF Enter
    <3> QED BY <1>0, <2>2, <2>3, <3>1, SameAnswers DEF ImportTypeOK
  <2>6. Mine(i)'
    <3>1. i \notin answered'
      BY <1>1 DEF Enter
    <3> QED BY <2>4, <3>1 DEF Mine, Working
  <2>7. /\ UNCHANGED <<records, contents, writer, known>> /\ answered' \in SUBSET Importers
        /\ answered' \subseteq answered
        /\ writer' \in [Sources -> Importers \cup {NoImporter}]
        /\ known' \in [Importers -> Record]
    BY <1>0, <1>1 DEF Enter, ImportTypeOK
  <2> QED BY <2>2, <2>3, <2>4, <2>5, <2>6, <2>7, QuietStep
<1>2. ASSUME NEW s \in Sources, LoseGate(s) PROVE ImportIInv' /\ EvidenceStays
  <2>1. UNCHANGED <<records, contents, writer, pc, candidate, known, target, answered>>
    BY <1>2 DEF LoseGate
  <2>2. ASSUME NEW j \in Importers PROVE Mine(j)'
    BY <1>0, <2>1, Quiet, Bystander
  <2>3. ImportTypeOK' /\ AnswersAreTrue'
    BY <1>0, <2>1 DEF ImportTypeOK, AnswersAreTrue, Source
  <2> QED BY <1>0, <2>1, <2>2, <2>3, Quiet DEF ImportIInv
<1>3. ASSUME NEW i \in Importers, Read(i) PROVE ImportIInv' /\ EvidenceStays
  <2>1. UNCHANGED <<records, contents, gate, writer, candidate>> /\ pc[i] = "reading"
    BY <1>3 DEF Read
  <2>2. Row(i) \in Record /\ candidate[i] \in Candidate /\ Source(i) \in Sources
    BY <1>0 DEF ImportTypeOK, Row, Source, Candidate
  <2>3. /\ known' \in [Importers -> Record] /\ known'[i] = Row(i)
        /\ \A j \in Importers \ {i} : known'[j] = known[j]
    BY <1>0, <1>3, <2>2 DEF Read, ImportTypeOK
  <2>4. /\ pc' \in [Importers -> Stages]
        /\ \A j \in Importers \ {i} : pc'[j] = pc[j]
        /\ pc'[i] \in {"leaving", "validating"}
    BY <1>0, <1>3, StepTo DEF Read, Stages
  <2>5. Mine(i)'
    <3>1. pc'[i] = "validating" => Row(i).outcome = "NONE" \/ _fingerprints_match(Row(i), candidate[i])
      <4>1. To(i, "leaving") => pc'[i] = "leaving"
        BY <1>0, StepTo DEF Stages
      <4> QED BY <1>3, <4>1 DEF Read
    <3>2. Row(i)' = Row(i) /\ candidate'[i] = candidate[i]
      BY <2>1 DEF Row, Source
    <3>3. pc'[i] = "validating" /\ Row(i).outcome # "NONE" => Row(i).evidence = candidate[i].evidence
      BY <2>2, <3>1, SameEvidence
    <3>4. i \in answered' => pc'[i] = "leaving"
      <4>1. i \notin answered
        BY <1>0, <2>1 DEF Mine
      <4>2. To(i, "leaving") => pc'[i] = "leaving"
        BY <1>0, StepTo DEF Stages
      <4> QED BY <1>3, <4>1, <4>2 DEF Read
    <3> QED BY <2>3, <2>4, <3>2, <3>3, <3>4 DEF Mine, Working
  <2>6. /\ target' \in [Importers -> ContentIds \cup {NoTarget}]
        /\ answered' \in SUBSET Importers /\ answered' \subseteq answered \cup {i}
        /\ \A j \in Importers \ {i} : target'[j] = target[j]
        /\ AnswersAreTrue'
    <3>1. CASE UNCHANGED <<target, answered>>
      BY <1>0, <2>1, <3>1 DEF ImportTypeOK, AnswersAreTrue, Source
    <3>2. CASE /\ Row(i).outcome = "IMPORTED" /\ _fingerprints_match(Row(i), candidate[i])
               /\ target' = [target EXCEPT ![i] = Row(i).target]
               /\ answered' = answered \cup {i}
      <4>1. PICK c \in contents : /\ c.source = Source(i) /\ c.id = Row(i).target
                                  /\ c.evidence = Row(i).evidence
        BY <1>0, <2>2, <3>2 DEF RecordsTellTheTruth, Row
      <4>2. Row(i).evidence = candidate[i].evidence
        BY <2>2, <3>2, SameEvidence
      <4>3. Row(i).target \in ContentIds \cup {NoTarget}
        BY <2>2 DEF Record
      <4>4. /\ target' \in [Importers -> ContentIds \cup {NoTarget}]
            /\ target'[i] = Row(i).target
            /\ \A j \in Importers \ {i} : target'[j] = target[j]
        BY <1>0, <3>2, <4>3 DEF ImportTypeOK
      <4>5. ASSUME NEW j \in answered'
            PROVE  \E d \in contents' : /\ d.id = target'[j] /\ d.source = Source(j)'
                                        /\ d.evidence = candidate'[j].evidence
        <5>1. Source(j)' = Source(j)
          BY <2>1 DEF Source
        <5>2. CASE j = i
          BY <2>1, <4>1, <4>2, <4>4, <5>1, <5>2
        <5>3. CASE j # i
          <6>1. j \in answered /\ target'[j] = target[j]
            BY <1>0, <3>2, <4>4, <5>3 DEF ImportTypeOK
          <6> QED BY <1>0, <2>1, <5>1, <6>1 DEF AnswersAreTrue
        <5> QED BY <5>2, <5>3
      <4> QED BY <1>0, <3>2, <4>4, <4>5 DEF ImportTypeOK, AnswersAreTrue
    <3> QED BY <1>3, <3>1, <3>2 DEF Read, _replay_imported
  <2>7. /\ candidate' \in [Importers -> Candidate]
        /\ writer' \in [Sources -> Importers \cup {NoImporter}]
    BY <1>0, <2>1 DEF ImportTypeOK
  <2> QED BY <2>1, <2>3, <2>4, <2>5, <2>6, <2>7, QuietStep
<1>4. ASSUME NEW i \in Importers, Validate(i) PROVE ImportIInv' /\ EvidenceStays
  <2>1. UNCHANGED <<records, contents, gate, writer, candidate, known, target, answered>>
    BY <1>4 DEF Validate
  <2>2. /\ pc' \in [Importers -> Stages] /\ pc'[i] \in {"writing", "failed", "leaving"}
        /\ \A j \in Importers \ {i} : pc'[j] = pc[j]
    BY <1>0, <1>4, StepTo DEF Validate, Stages
  <2>3. Mine(i)'
    <3>1. pc[i] = "validating"
      BY <1>4 DEF Validate
    <3> QED BY <1>0, <2>1, <2>2, <3>1 DEF Mine, Working, Row, Source
  <2>4. AnswersAreTrue'
    BY <1>0, <2>1 DEF AnswersAreTrue, Source
  <2> QED BY <1>0, <2>1, <2>2, <2>3, <2>4, QuietStep DEF ImportTypeOK
<1>5. ASSUME NEW i \in Importers, _materialize_new(i) PROVE ImportIInv' /\ EvidenceStays
  <2>1. /\ UNCHANGED <<records, contents, gate, candidate, known, answered>>
        /\ pc[i] = "writing" /\ writer[Source(i)] = NoImporter /\ Source(i) \in Sources
    BY <1>0, <1>5 DEF _materialize_new, ImportTypeOK, Source, Candidate
  <2>2. PICK id \in ContentIds :
          \/ /\ Taken(i, "IMPORTED", id)
             /\ writer' = [writer EXCEPT ![Source(i)] = i]
             /\ target' = [target EXCEPT ![i] = id]
             /\ To(i, "committing")
          \/ /\ To(i, "failed")
             /\ UNCHANGED <<writer, target>>
    BY <1>5 DEF _materialize_new
  <2>3. /\ pc' \in [Importers -> Stages]
        /\ \A j \in Importers \ {i} : pc'[j] = pc[j]
        /\ writer' \in [Sources -> Importers \cup {NoImporter}]
        /\ \A s \in Sources : writer[s] # NoImporter => writer'[s] = writer[s]
        /\ target' \in [Importers -> ContentIds \cup {NoTarget}]
        /\ \A j \in Importers \ {i} : target'[j] = target[j]
    <3>1. \A state \in {"committing", "failed"} : state \in Stages
      BY DEF Stages
    <3>2. /\ pc' \in [Importers -> Stages]
          /\ \A j \in Importers \ {i} : pc'[j] = pc[j]
      BY <1>0, <2>2, <3>1, StepTo
    <3> QED BY <1>0, <2>1, <2>2, <3>2 DEF ImportTypeOK
  <2>4. Mine(i)'
    <3>0. i \notin answered'
      BY <1>0, <2>1 DEF Mine
    <3>1. CASE To(i, "failed")
      <4>1. pc'[i] = "failed"
        BY <1>0, <3>1, StepTo DEF Stages
      <4> QED BY <3>0, <4>1 DEF Mine, Working
    <3>2. CASE /\ Taken(i, "IMPORTED", id)
               /\ writer' = [writer EXCEPT ![Source(i)] = i]
               /\ target' = [target EXCEPT ![i] = id]
               /\ To(i, "committing")
      <4>1. /\ pc'[i] = "committing" /\ writer'[Source(i)] = i /\ target'[i] = id
            /\ Source(i)' = Source(i) /\ Row(i)' = Row(i)
        BY <1>0, <2>1, <3>2, StepTo DEF Stages, ImportTypeOK, Source, Row
      <4>2. (Taken(i, "IMPORTED", target[i]))'
        BY <2>1, <3>2, <4>1 DEF Taken, RowWritten
      <4> QED BY <1>0, <2>1, <3>0, <4>1, <4>2 DEF Mine, Working
    <3> QED BY <2>2, <3>1, <3>2
  <2>5. AnswersAreTrue'
    <3>1. i \notin answered
      BY <1>0, <2>1 DEF Mine
    <3> QED BY <1>0, <2>1, <2>3, <3>1, SameAnswers DEF ImportTypeOK
  <2> QED BY <1>0, <2>1, <2>3, <2>4, <2>5, QuietStep DEF ImportTypeOK
<1>6. ASSUME NEW i \in Importers, Commit(i) PROVE ImportIInv' /\ EvidenceStays
  <2>1. /\ pc[i] = "committing" /\ Source(i) \in Sources
        /\ records' = [records EXCEPT ![Source(i)] = RowWritten(i, "IMPORTED", target[i])]
        /\ contents' = contents \cup {Provenance(candidate[i], target[i])}
        /\ writer' = Unlocked(i) /\ UNCHANGED <<candidate, known, target>>
        /\ target[i] \in ContentIds /\ Taken(i, "IMPORTED", target[i])
    BY <1>0, <1>6 DEF Commit, ImportTypeOK, Source, Candidate, Mine
  <2>2. AnswersAreTrue'
    <3> DEFINE new == Provenance(candidate[i], target[i])
    <3>1. /\ new \in contents' /\ new.id = target[i] /\ new.source = Source(i)
          /\ new.evidence = candidate[i].evidence
      BY <2>1 DEF Provenance, Source
    <3>2. contents \subseteq contents' /\ answered' \subseteq answered \cup {i}
      BY <1>6, <2>1 DEF Commit
    <3>3. \A j : Source(j)' = Source(j)
      BY <2>1 DEF Source
    <3> HIDE DEF new
    <3> QED BY <1>0, <2>1, <3>1, <3>2, <3>3 DEF AnswersAreTrue
  <2>3. CASE To(i, "leaving") /\ answered' = answered \cup {i}
    <3>1. "leaving" \in Stages \ Working /\ answered' \in SUBSET Importers
      BY <1>0, <2>3 DEF Stages, Working, ImportTypeOK
    <3> QED BY <2>1, <2>2, <2>3, <3>1, RowCommitted
  <2>4. CASE To(i, "failed") /\ UNCHANGED answered
    <3>1. "failed" \in Stages \ Working /\ answered' \in SUBSET Importers /\ i \notin answered
      BY <1>0, <2>1, <2>4 DEF Stages, Working, ImportTypeOK, Mine
    <3> QED BY <2>1, <2>2, <2>4, <3>1, RowCommitted
  <2> QED BY <1>6, <2>3, <2>4 DEF Commit
<1>7. ASSUME NEW i \in Importers, Abort(i) PROVE ImportIInv' /\ EvidenceStays
  <2>1. /\ UNCHANGED <<records, contents, gate, candidate, known, target, answered>>
        /\ pc[i] = "committing" /\ writer' = Unlocked(i) /\ To(i, "failed")
    BY <1>7 DEF Abort
  <2>2. /\ pc' \in [Importers -> Stages] /\ pc'[i] = "failed"
        /\ \A j \in Importers \ {i} : pc'[j] = pc[j]
    BY <1>0, <2>1, StepTo DEF Stages
  <2>3. Mine(i)'
    BY <1>0, <2>1, <2>2 DEF Mine, Working
  <2>4. AnswersAreTrue'
    BY <1>0, <2>1 DEF AnswersAreTrue, Source
  <2>5. /\ writer' \in [Sources -> Importers \cup {NoImporter}]
        /\ \A s \in Sources : writer[s] # i => writer'[s] = writer[s]
    BY <1>0, <2>1, UnlockedKeeps
  <2> QED BY <1>0, <2>1, <2>2, <2>3, <2>4, <2>5, QuietStep DEF ImportTypeOK
<1>8. ASSUME NEW i \in Importers, ReadForFailure(i) PROVE ImportIInv' /\ EvidenceStays
  <2>1. UNCHANGED <<records, contents, gate, writer, candidate, target, answered>> /\ pc[i] = "failed"
    BY <1>8 DEF ReadForFailure
  <2>2. Row(i) \in Record /\ candidate[i] \in Candidate
    BY <1>0 DEF ImportTypeOK, Row, Source, Candidate
  <2>3. /\ known' \in [Importers -> Record] /\ known'[i] = Row(i)
        /\ \A j \in Importers \ {i} : known'[j] = known[j]
    BY <1>0, <1>8, <2>2 DEF ReadForFailure, ImportTypeOK
  <2>4. /\ pc' \in [Importers -> Stages]
        /\ \A j \in Importers \ {i} : pc'[j] = pc[j]
        /\ pc'[i] \in {"leaving", "recording"}
        /\ pc'[i] = "recording" => Row(i).outcome = "NONE" \/ _fingerprints_match(Row(i), candidate[i])
    <3>1. "leaving" \in Stages /\ "recording" \in Stages
      BY DEF Stages
    <3>2. CASE To(i, "leaving")
      BY <1>0, <3>1, <3>2, StepTo
    <3>3. CASE /\ To(i, "recording")
               /\ Row(i).outcome = "NONE" \/ _fingerprints_match(Row(i), candidate[i])
      BY <1>0, <3>1, <3>3, StepTo
    <3> QED BY <1>8, <3>2, <3>3 DEF ReadForFailure
  <2>5. Mine(i)'
    <3>1. Row(i)' = Row(i) /\ candidate'[i] = candidate[i]
      BY <2>1 DEF Row, Source
    <3>2. pc'[i] = "recording" /\ Row(i).outcome # "NONE" => Row(i).evidence = candidate[i].evidence
      BY <2>2, <2>4, SameEvidence
    <3>3. i \notin answered'
      BY <1>0, <2>1 DEF Mine
    <3> QED BY <2>3, <2>4, <3>1, <3>2, <3>3 DEF Mine, Working
  <2>6. AnswersAreTrue'
    BY <1>0, <2>1 DEF AnswersAreTrue, Source
  <2> QED BY <1>0, <2>1, <2>3, <2>4, <2>5, <2>6, QuietStep DEF ImportTypeOK
<1>9. ASSUME NEW i \in Importers, WriteFailure(i) PROVE ImportIInv' /\ EvidenceStays
  <2>1. /\ UNCHANGED <<records, contents, gate, candidate, known, target, answered>>
        /\ pc[i] = "recording" /\ writer[Source(i)] = NoImporter /\ Source(i) \in Sources
        /\ \/ /\ Taken(i, "FAILED", NoTarget)
              /\ writer' = [writer EXCEPT ![Source(i)] = i]
              /\ To(i, "committing_failure")
           \/ To(i, "leaving") /\ UNCHANGED writer
    BY <1>0, <1>9 DEF WriteFailure, ImportTypeOK, Source, Candidate
  <2>2. /\ writer' \in [Sources -> Importers \cup {NoImporter}]
        /\ \A s \in Sources : writer[s] # NoImporter => writer'[s] = writer[s]
    BY <1>0, <2>1 DEF ImportTypeOK
  <2>3. /\ pc' \in [Importers -> Stages]
        /\ \A j \in Importers \ {i} : pc'[j] = pc[j]
    <3>1. \A state \in {"committing_failure", "leaving"} : state \in Stages
      BY DEF Stages
    <3> QED BY <1>0, <2>1, <3>1, StepTo
  <2>4. Mine(i)'
    <3>0. Source(i)' = Source(i) /\ Row(i)' = Row(i) /\ i \notin answered'
      BY <1>0, <2>1 DEF Source, Row, Mine
    <3>1. CASE To(i, "leaving")
      <4>1. pc'[i] = "leaving"
        BY <1>0, <3>1, StepTo DEF Stages
      <4> QED BY <4>1 DEF Mine, Working
    <3>2. CASE /\ Taken(i, "FAILED", NoTarget)
               /\ writer' = [writer EXCEPT ![Source(i)] = i]
               /\ To(i, "committing_failure")
      <4>1. pc'[i] = "committing_failure" /\ writer'[Source(i)] = i
        BY <1>0, <2>1, <3>2, StepTo DEF Stages, ImportTypeOK
      <4>2. Taken(i, "FAILED", NoTarget)'
        BY <2>1, <3>0, <3>2 DEF Taken, RowWritten
      <4> QED BY <1>0, <2>1, <3>0, <4>1, <4>2 DEF Mine, Working
    <3> QED BY <2>1, <3>1, <3>2
  <2>5. AnswersAreTrue'
    BY <1>0, <2>1 DEF AnswersAreTrue, Source
  <2> QED BY <1>0, <2>1, <2>2, <2>3, <2>4, <2>5, QuietStep DEF ImportTypeOK
<1>10. ASSUME NEW i \in Importers, CommitFailure(i) PROVE ImportIInv' /\ EvidenceStays
  <2>1. /\ UNCHANGED <<contents, gate, candidate, known, target, answered>>
        /\ pc[i] = "committing_failure" /\ writer' = Unlocked(i) /\ To(i, "leaving")
        /\ Taken(i, "FAILED", NoTarget)
    BY <1>0, <1>10 DEF CommitFailure, Mine
  <2>2. AnswersAreTrue'
    BY <1>0, <2>1 DEF AnswersAreTrue, Source
  <2>3. CASE records' = [records EXCEPT ![Source(i)] = RowWritten(i, "FAILED", NoTarget)]
    <3>1. "leaving" \in Stages \ Working /\ answered' \in SUBSET Importers
      BY <1>0, <2>1 DEF Stages, Working, ImportTypeOK
    <3> QED BY <2>1, <2>2, <2>3, <3>1, RowCommitted
  <2>4. CASE UNCHANGED records
    <3>1. /\ pc' \in [Importers -> Stages] /\ pc'[i] = "leaving"
          /\ \A j \in Importers \ {i} : pc'[j] = pc[j]
      BY <1>0, <2>1, StepTo DEF Stages
    <3>2. Mine(i)'
      BY <3>1 DEF Mine, Working
    <3>3. /\ writer' \in [Sources -> Importers \cup {NoImporter}]
          /\ \A s \in Sources : writer[s] # i => writer'[s] = writer[s]
      BY <1>0, <2>1, UnlockedKeeps
    <3> QED BY <1>0, <2>1, <2>2, <2>4, <3>1, <3>2, <3>3, QuietStep DEF ImportTypeOK
  <2> QED BY <1>10, <2>3, <2>4 DEF CommitFailure
<1>11. ASSUME NEW i \in Importers, Leave(i) \/ Crash(i) PROVE ImportIInv' /\ EvidenceStays
  <2>1. /\ UNCHANGED <<records, contents, candidate, known, target, answered>>
        /\ To(i, "idle")
        /\ writer' = Unlocked(i) \/ writer' = writer
    BY <1>11 DEF Leave, Crash
  <2>2. /\ pc' \in [Importers -> Stages] /\ pc'[i] = "idle"
        /\ \A j \in Importers \ {i} : pc'[j] = pc[j]
    BY <1>0, <1>11, StepTo DEF Leave, Crash, Stages
  <2>3. Mine(i)'
    BY <2>2 DEF Mine, Working
  <2>4. AnswersAreTrue'
    BY <1>0, <2>1 DEF AnswersAreTrue, Source
  <2>5. /\ writer' \in [Sources -> Importers \cup {NoImporter}]
        /\ \A s \in Sources : writer[s] # i => writer'[s] = writer[s]
    <3>1. writer \in [Sources -> Importers \cup {NoImporter}]
      BY <1>0 DEF ImportTypeOK
    <3> QED BY <1>0, <2>1, <3>1, UnlockedKeeps
  <2> QED BY <1>0, <2>1, <2>2, <2>3, <2>4, <2>5, QuietStep DEF ImportTypeOK
<1> QED BY <1>1, <1>2, <1>3, <1>4, <1>5, <1>6, <1>7, <1>8, <1>9, <1>10, <1>11 DEF ImportNext

LEMMA StutterOK == ASSUME ImportIInv, UNCHANGED importVars PROVE ImportIInv' /\ EvidenceStays
<1>1. UNCHANGED <<records, contents, writer, pc, candidate, known, target, answered>>
  BY DEF importVars
<1>2. ASSUME NEW j \in Importers PROVE Mine(j)'
  BY <1>1, Quiet, Bystander DEF ImportIInv
<1>3. ImportTypeOK' /\ AnswersAreTrue'
  BY <1>1 DEF ImportIInv, ImportTypeOK, AnswersAreTrue, Source
<1> QED BY <1>1, <1>2, <1>3, Quiet DEF ImportIInv

LEMMA Inductive == ASSUME NoImporter \notin Importers PROVE ImportSpec => []ImportIInv
<1>1. ImportIInv /\ [ImportNext]_importVars => ImportIInv'
  BY NextOK, StutterOK
<1> QED BY <1>1, InitOK, PTL DEF ImportSpec

\* A document is imported at most once, whatever importers of the same source do
\* at the same time, and even when their gate is lost.
THEOREM ImportedOnce ==
    ASSUME NoImporter \notin Importers PROVE ImportSpec => []OneContentPerSource
<1>1. ImportIInv => OneContentPerSource
  BY DEF ImportIInv
<1> QED BY <1>1, Inductive, PTL

\* The migration records tell exactly which documents have a Content, and from
\* which evidence it was made, after any number of failures and lost answers.
THEOREM RecordsAreTrue ==
    ASSUME NoImporter \notin Importers PROVE ImportSpec => []RecordsTellTheTruth
<1>1. ImportIInv => RecordsTellTheTruth
  BY DEF ImportIInv
<1> QED BY <1>1, Inductive, PTL

\* An importer that is answered, by its own import or by the replay of another's,
\* is answered with the one Content made from the document it brought.
THEOREM AnsweredTruly ==
    ASSUME NoImporter \notin Importers PROVE ImportSpec => []AnswersAreTrue
<1>1. ImportIInv => AnswersAreTrue
  BY DEF ImportIInv
<1> QED BY <1>1, Inductive, PTL

\* No step loses a record, rewrites its evidence or touches an import.
THEOREM EvidenceKept ==
    ASSUME NoImporter \notin Importers PROVE ImportSpec => EvidenceIsKept
<1>1. ImportIInv /\ [ImportNext]_importVars => [EvidenceStays]_importVars
  BY NextOK, StutterOK
<1>2. [][EvidenceStays]_importVars <=> EvidenceIsKept
  BY PTL DEF EvidenceStays, EvidenceIsKept
<1> QED BY <1>1, <1>2, Inductive, PTL DEF ImportSpec
-----------------------------------------------------------------------------
(***************************************************************************)
(* The authority over assets, for any number of callers, revisions and     *)
(* keys and whatever the blob store loses.  What a caller has read may be  *)
(* out of date at every later step of its: the proof says what is left of  *)
(* it.  A registered revision keeps its number and its key, and a verdict  *)
(* that is no longer PASSED never becomes PASSED again; so a revision that *)
(* is PASSED at the last read has been PASSED at every read before it.     *)
(***************************************************************************)

AssetFields == {"lifecycle", "quarantined", "current", "version"}
RevisionFields == {"number", "key", "safety"}
CallerFields == {"pc", "kind", "number", "key", "expected", "seen", "again", "tries", "held",
                 "references", "objects"}

Decided == {"PASSED", "FAILED"}
\* The table of revisions: a number belongs to one revision.
RevisionsSound(revs) ==
    /\ revs = [r \in RevisionIds |-> revs[r]]
    /\ \A r \in RevisionIds : DOMAIN revs[r] = RevisionFields /\ revs[r].number \in Nat
    /\ \A r, s \in RevisionIds : revs[r].number # 0 /\ revs[r].number = revs[s].number => r = s
\* What may become of it: a revision that is there stays what it is.
RevisionsGoOn(revs, revs2) ==
    \A r \in RevisionIds : revs[r].number # 0 =>
        /\ revs2[r].number = revs[r].number /\ revs2[r].key = revs[r].key
        /\ revs[r].safety \in Decided => revs2[r].safety \in Decided
        /\ revs[r].safety \in Decided /\ revs2[r].safety = "PASSED" => revs[r].safety = "PASSED"

\* Bytes go, but nothing that was written is forgotten.
BytesGoOn(bs, ls, bs2, ls2) == bs \cup ls \subseteq bs2 \cup ls2 /\ ls \subseteq ls2
BytesKnown(revs, bs, ls) == \A r \in RevisionIds : revs[r].number # 0 => revs[r].key \in bs \cup ls

\* What a use has found is the revision it asks for, and it had passed.
SeenPassed(job, revs) ==
    /\ job.seen.id \in RevisionIds
    /\ revs[job.seen.id].number # 0
    /\ revs[job.seen.id].number = Effective(job.seen.asset, job.number)
    /\ revs[job.seen.id].key = job.seen.revision.key
    /\ revs[job.seen.id].safety \in Decided
\* The second read of the asset: if it was still usable, and the revision is
\* PASSED even now, then the use held at that read.
HeldThen(job, revs) ==
    /\ job.again.asset.lifecycle = "ACTIVE" /\ ~ job.again.asset.quarantined
    /\ Effective(job.again.asset, job.number) = Effective(job.seen.asset, job.number)
    /\ revs[job.seen.id].safety = "PASSED"
    => job.held

CallerSound(job, revs, bs, ls) ==
    /\ DOMAIN job = CallerFields
    /\ job.pc = "usable" => job.held
    /\ job.kind = "use" /\ job.pc \in {"inspecting", "confirming", "comparing"} =>
          SeenPassed(job, revs)
    /\ job.kind = "use" /\ job.pc = "comparing" => HeldThen(job, revs)
    /\ job.kind = "activate" /\ job.pc \in {"inspecting", "committing"} =>
          /\ job.seen.asset.lifecycle # "DELETED"
          /\ job.seen.id \in RevisionIds /\ job.seen.revision.safety = "PASSED"
    /\ job.kind = "ingest" /\ job.pc \in {"stored", "prepared"} => job.key \in bs \cup ls
    /\ job.kind = "reconcile" /\ job.pc = "listing" =>
          job.number = 0 \/ (job.number = 1 /\ job.references \subseteq bs \cup ls)
    /\ job.pc = "reported" => job.references \ job.objects \subseteq ls

CatalogIInv ==
    /\ DOMAIN asset = AssetFields
    /\ RevisionsSound(revisions)
    /\ BytesKnown(revisions, blobs, lost)
    /\ jobs = [c \in Clients |-> jobs[c]]
    /\ \A c \in Clients : CallerSound(jobs[c], revisions, blobs, lost)
-----------------------------------------------------------------------------
\* The revision of a number is the one that carries it, if any does.
LEMMA FetchFinds ==
  ASSUME RevisionsSound(revisions), NEW n
  PROVE  /\ Fetch(n) \in RevisionIds \cup {NoRevisionId}
         /\ Fetch(n) # NoRevisionId => /\ Fetch(n) \in RevisionIds
                                       /\ revisions[Fetch(n)].number = n /\ n # 0
                                       /\ Fetch(n) \in OfNumber(n)
         /\ \A r \in RevisionIds : n # 0 /\ revisions[r].number = n => Fetch(n) = r
<1>1. CASE OfNumber(n) = {}
  <2>1. Fetch(n) = NoRevisionId BY <1>1 DEF Fetch
  <2>2. \A r \in RevisionIds : ~ (n # 0 /\ revisions[r].number = n)
    BY <1>1 DEF OfNumber, Registered
  <2> QED BY <2>1, <2>2
<1>2. CASE OfNumber(n) # {}
  <2>1. Fetch(n) \in OfNumber(n) BY <1>2 DEF Fetch
  <2>2. Fetch(n) \in RevisionIds /\ revisions[Fetch(n)].number = n /\ n # 0
    BY <2>1 DEF OfNumber, Registered
  <2>3. \A r \in RevisionIds : n # 0 /\ revisions[r].number = n => Fetch(n) = r
    BY <2>2 DEF RevisionsSound
  <2> QED BY <2>1, <2>2, <2>3
<1> QED BY <1>1, <1>2

\* A revision that is registered gets a number nobody has.
LEMMA NumberIsNew ==
  ASSUME RevisionsSound(revisions)
  PROVE  /\ MaxNumber \in Nat
         /\ \A r \in RevisionIds : revisions[r].number <= MaxNumber
<1> DEFINE S == {0} \cup {revisions[r].number : r \in Registered}
<1>1. IsFiniteSet(S) /\ S \subseteq Nat /\ 0 \in S
  <2>1. IsFiniteSet(Registered)
    BY CatalogAssumption, FS_Subset DEF Registered
  <2>2. IsFiniteSet({revisions[r].number : r \in Registered})
    <3> DEFINE T == {revisions[r].number : r \in Registered}
               f == [r \in Registered |-> revisions[r].number]
    <3>1. f \in Surjection(Registered, T)
      BY DEF Surjection
    <3> QED BY <2>1, <3>1, FS_Surjection
  <2>3. IsFiniteSet({0}) BY FS_Singleton
  <2>4. IsFiniteSet(S) BY <2>2, <2>3, FS_Union
  <2>5. S \subseteq Nat BY DEF RevisionsSound, Registered
  <2> QED BY <2>4, <2>5
<1>2. MaxNumber = Max(S)
  BY DEF MaxNumber
<1>3. \A r \in RevisionIds : revisions[r].number \in S
  BY DEF Registered, RevisionsSound
<1> HIDE DEF S
<1>4. Latest(S) \in S /\ \A m \in S : Latest(S) >= m
  <2>1. Latest(S) \in S /\ \A m \in S : m <= Latest(S)
    BY <1>1, LatestExists
  <2> QED BY <1>1, <2>1
<1>5. Max(S) \in S /\ \A m \in S : Max(S) >= m
  BY <1>4 DEF Max
<1>6. \A m \in S : m <= Max(S)
  BY <1>1, <1>5
<1> QED BY <1>1, <1>2, <1>3, <1>5, <1>6

\* One caller moves, the others stand by.
LEMMA CallerMoves ==
  ASSUME jobs = [c \in Clients |-> jobs[c]], NEW c \in Clients, NEW job, Become(c, job)
  PROVE  /\ jobs' = [d \in Clients |-> jobs'[d]]
         /\ jobs'[c] = job
         /\ \A d \in Clients : d # c => jobs'[d] = jobs[d]
  BY DEF Become

LEMMA CallerStandsBy ==
  ASSUME NEW job, NEW revs, NEW bs, NEW ls, NEW revs2, NEW bs2, NEW ls2,
         RevisionsGoOn(revs, revs2), BytesGoOn(bs, ls, bs2, ls2), CallerSound(job, revs, bs, ls)
  PROVE  CallerSound(job, revs2, bs2, ls2)
<1>1. SeenPassed(job, revs) => SeenPassed(job, revs2)
  BY DEF SeenPassed, RevisionsGoOn
<1>2. SeenPassed(job, revs) /\ HeldThen(job, revs) => HeldThen(job, revs2)
  BY DEF SeenPassed, HeldThen, RevisionsGoOn
<1>3. /\ DOMAIN job = CallerFields
      /\ job.pc = "usable" => job.held
      /\ job.kind = "activate" /\ job.pc \in {"inspecting", "committing"} =>
            /\ job.seen.asset.lifecycle # "DELETED"
            /\ job.seen.id \in RevisionIds /\ job.seen.revision.safety = "PASSED"
  BY DEF CallerSound
<1>4. /\ job.kind = "use" /\ job.pc \in {"inspecting", "confirming", "comparing"} =>
            SeenPassed(job, revs2)
      /\ job.kind = "use" /\ job.pc = "comparing" => HeldThen(job, revs2)
  BY <1>1, <1>2 DEF CallerSound
<1>5. /\ job.kind = "ingest" /\ job.pc \in {"stored", "prepared"} => job.key \in bs2 \cup ls2
      /\ job.kind = "reconcile" /\ job.pc = "listing" =>
            job.number = 0 \/ (job.number = 1 /\ job.references \subseteq bs2 \cup ls2)
      /\ job.pc = "reported" => job.references \ job.objects \subseteq ls2
  BY DEF CallerSound, BytesGoOn
<1> QED BY <1>3, <1>4, <1>5 DEF CallerSound

\* A step of one caller.
LEMMA CallerStep ==
  ASSUME CatalogIInv, NEW c \in Clients, NEW job, Become(c, job),
         DOMAIN asset' = AssetFields, RevisionsSound(revisions'),
         BytesKnown(revisions', blobs', lost'),
         RevisionsGoOn(revisions, revisions'), BytesGoOn(blobs, lost, blobs', lost'),
         CallerSound(job, revisions', blobs', lost')
  PROVE  CatalogIInv'
<1>1. /\ jobs' = [d \in Clients |-> jobs'[d]]
      /\ jobs'[c] = job
      /\ \A d \in Clients : d # c => jobs'[d] = jobs[d]
  BY CallerMoves DEF CatalogIInv
<1>2. \A d \in Clients : CallerSound(jobs[d], revisions', blobs', lost')
  BY CallerStandsBy DEF CatalogIInv
<1>3. \A d \in Clients : CallerSound(jobs'[d], revisions', blobs', lost')
  BY <1>1, <1>2
<1> QED BY <1>1, <1>3 DEF CatalogIInv

LEMMA NothingChanged ==
  /\ RevisionsGoOn(revisions, revisions)
  /\ BytesGoOn(blobs, lost, blobs, lost)
  BY DEF RevisionsGoOn, BytesGoOn

\* A step of one caller that only reads.
LEMMA ReaderStep ==
  ASSUME CatalogIInv, NEW c \in Clients, NEW job, Become(c, job),
         UNCHANGED <<asset, revisions, blobs, lost>>,
         CallerSound(job, revisions, blobs, lost)
  PROVE  CatalogIInv'
<1>1. asset' = asset /\ revisions' = revisions /\ blobs' = blobs /\ lost' = lost
  OBVIOUS
<1>2. /\ DOMAIN asset = AssetFields /\ RevisionsSound(revisions)
      /\ BytesKnown(revisions, blobs, lost)
  BY DEF CatalogIInv
<1> QED BY <1>1, <1>2, NothingChanged, CallerStep

\* A caller at a point where nothing is asked of it.
LEMMA IdleCaller ==
  ASSUME NEW job, NEW revs, NEW bs, NEW ls, DOMAIN job = CallerFields,
         job.pc \notin {"usable", "inspecting", "confirming", "comparing", "committing",
                        "stored", "prepared", "listing", "reported"}
  PROVE  CallerSound(job, revs, bs, ls)
  BY DEF CallerSound

\* Callers that are answered: what is left of their request.
Settled(job, point) ==
    [NewJob EXCEPT !.pc = point,
                   !.kind = IF point = "ok" THEN job.kind ELSE "none",
                   !.expected = IF point = "ok" THEN job.expected ELSE 0,
                   !.held = point = "usable" /\ job.held]

LEMMA SettledSound ==
  ASSUME NEW job, NEW point \in {"ok", "refused"}, NEW revs, NEW bs, NEW ls
  PROVE  CallerSound(Settled(job, point), revs, bs, ls)
<1> DEFINE new == Settled(job, point)
<1>1. DOMAIN new = CallerFields /\ new.pc = point
  BY DEF Settled, NewJob, CallerFields
<1> HIDE DEF new
<1>2. CallerSound(new, revs, bs, ls)
  BY <1>1, IdleCaller
<1> QED BY <1>2 DEF new

LEMMA FinishIs ==
  ASSUME NEW c, NEW point, Finish(c, point)
  PROVE  Become(c, Settled(jobs[c], point))
  BY Zenon DEF Finish, Settled

LEMMA RefuseStep ==
  ASSUME CatalogIInv, NEW c \in Clients, Refuse(c), UNCHANGED <<asset, revisions, blobs, lost>>
  PROVE  CatalogIInv'
<1>1. Become(c, Settled(jobs[c], "refused"))
  BY FinishIs DEF Refuse
<1>2. CallerSound(Settled(jobs[c], "refused"), revisions, blobs, lost)
  BY SettledSound
<1> QED BY <1>1, <1>2, ReaderStep
-----------------------------------------------------------------------------
(* Steps that change neither the asset nor the revisions. *)

LEMMA GoIs ==
  ASSUME CatalogIInv, NEW c \in Clients, NEW point, Go(c, point)
  PROVE  \E new : /\ Become(c, new) /\ DOMAIN new = CallerFields /\ new.pc = point
                  /\ \A f \in CallerFields \ {"pc"} : new[f] = jobs[c][f]
<1> DEFINE new == [jobs[c] EXCEPT !.pc = point]
<1>1. DOMAIN jobs[c] = CallerFields BY DEF CatalogIInv, CallerSound
<1>2. DOMAIN new = CallerFields /\ new.pc = point
      /\ \A f \in CallerFields \ {"pc"} : new[f] = jobs[c][f]
  BY <1>1 DEF CallerFields
<1>3. Become(c, new) BY DEF Go
<1> HIDE DEF new
<1> QED BY <1>2, <1>3

\* A caller comes with a request that is not under way yet.
LEMMA IdleStep ==
  ASSUME CatalogIInv, NEW c \in Clients, NEW job, Become(c, job),
         UNCHANGED <<asset, revisions, blobs, lost>>, DOMAIN job = CallerFields,
         job.pc \notin {"usable", "inspecting", "confirming", "comparing", "committing",
                        "stored", "prepared", "listing", "reported"}
  PROVE  CatalogIInv'
  BY IdleCaller, ReaderStep

LEMMA CreateAssetOK == ASSUME CatalogIInv, CreateAsset PROVE CatalogIInv'
<1>1. DOMAIN asset' = AssetFields /\ UNCHANGED <<revisions, blobs, lost, jobs>>
  BY DEF CatalogIInv, CreateAsset
<1> QED BY <1>1 DEF CatalogIInv

LEMMA LoseObjectOK == ASSUME CatalogIInv, LoseObject PROVE CatalogIInv'
<1>1. PICK k \in blobs : blobs' = blobs \ {k} /\ lost' = lost \cup {k}
  BY DEF LoseObject
<1>2. asset' = asset /\ revisions' = revisions /\ jobs' = jobs
  BY DEF LoseObject
<1>3. BytesGoOn(blobs, lost, blobs', lost') /\ RevisionsGoOn(revisions, revisions)
  BY <1>1 DEF BytesGoOn, RevisionsGoOn
<1>4. \A c \in Clients : CallerSound(jobs[c], revisions, blobs', lost')
  BY <1>3, CallerStandsBy DEF CatalogIInv
<1>5. BytesKnown(revisions, blobs', lost')
  BY <1>3 DEF CatalogIInv, BytesKnown, BytesGoOn
<1> QED BY <1>2, <1>4, <1>5 DEF CatalogIInv

LEMMA UploadOK == ASSUME CatalogIInv, NEW c \in Clients, Upload(c) PROVE CatalogIInv'
<1>1. PICK k : Become(c, [NewJob EXCEPT !.pc = "storing", !.kind = "ingest", !.key = k])
  BY DEF Upload, Start
<1> DEFINE new == [NewJob EXCEPT !.pc = "storing", !.kind = "ingest", !.key = k]
<1>2. DOMAIN new = CallerFields /\ new.pc = "storing"
  BY DEF NewJob, CallerFields
<1> HIDE DEF new
<1>3. Become(c, new) BY <1>1 DEF new
<1>4. UNCHANGED <<asset, revisions, blobs, lost>> BY DEF Upload
<1> QED BY <1>2, <1>3, <1>4, IdleStep

LEMMA CommandOK == ASSUME CatalogIInv, NEW c \in Clients, Command(c) PROVE CatalogIInv'
<1> DEFINE new == [NewJob EXCEPT !.pc = "ready", !.kind = "change", !.expected = asset.version]
<1>1. Become(c, new) /\ UNCHANGED <<asset, revisions, blobs, lost>>
  BY DEF Command, Start
<1>2. DOMAIN new = CallerFields /\ new.pc = "ready"
  BY DEF NewJob, CallerFields
<1> HIDE DEF new
<1> QED BY <1>1, <1>2, IdleStep

LEMMA ActivateOK == ASSUME CatalogIInv, NEW c \in Clients, Activate(c) PROVE CatalogIInv'
<1>1. PICK n : Become(c, [NewJob EXCEPT !.pc = "reading", !.kind = "activate",
                                        !.number = n, !.expected = asset.version])
  BY DEF Activate, Start
<1> DEFINE new == [NewJob EXCEPT !.pc = "reading", !.kind = "activate",
                                 !.number = n, !.expected = asset.version]
<1>2. DOMAIN new = CallerFields /\ new.pc = "reading"
  BY DEF NewJob, CallerFields
<1> HIDE DEF new
<1>3. Become(c, new) BY <1>1 DEF new
<1>4. UNCHANGED <<asset, revisions, blobs, lost>> BY DEF Activate
<1> QED BY <1>2, <1>3, <1>4, IdleStep

LEMMA UseOK == ASSUME CatalogIInv, NEW c \in Clients, Use(c) PROVE CatalogIInv'
<1>1. PICK n : Become(c, [NewJob EXCEPT !.pc = "reading", !.kind = "use", !.number = n])
  BY DEF Use, Start
<1> DEFINE new == [NewJob EXCEPT !.pc = "reading", !.kind = "use", !.number = n]
<1>2. DOMAIN new = CallerFields /\ new.pc = "reading"
  BY DEF NewJob, CallerFields
<1> HIDE DEF new
<1>3. Become(c, new) BY <1>1 DEF new
<1>4. UNCHANGED <<asset, revisions, blobs, lost>> BY DEF Use
<1> QED BY <1>2, <1>3, <1>4, IdleStep

LEMMA ReconcileOK == ASSUME CatalogIInv, NEW c \in Clients, Reconcile(c) PROVE CatalogIInv'
<1> DEFINE new == [NewJob EXCEPT !.pc = "listing", !.kind = "reconcile"]
<1>1. Become(c, new) /\ UNCHANGED <<asset, revisions, blobs, lost>>
  BY DEF Reconcile, Start
<1>2. /\ DOMAIN new = CallerFields /\ new.pc = "listing" /\ new.kind = "reconcile"
      /\ new.number = 0
  BY DEF NewJob, CallerFields
<1> HIDE DEF new
<1>3. CallerSound(new, revisions, blobs, lost)
  BY <1>2 DEF CallerSound
<1> QED BY <1>1, <1>3, ReaderStep

LEMMA StoreOK == ASSUME CatalogIInv, NEW c \in Clients, Store(c) PROVE CatalogIInv'
<1>0. jobs[c].kind = "ingest" BY DEF Store, Doing
<1>1. CASE Refuse(c) /\ UNCHANGED blobs
  BY <1>1, RefuseStep DEF Store
<1>2. CASE blobs' = blobs \cup {jobs[c].key} /\ (Go(c, "stored") \/ Refuse(c))
  <2>1. /\ asset' = asset /\ revisions' = revisions /\ lost' = lost
        /\ DOMAIN asset = AssetFields /\ RevisionsSound(revisions)
    BY DEF Store, CatalogIInv
  <2>2. BytesGoOn(blobs, lost, blobs', lost) /\ RevisionsGoOn(revisions, revisions)
    BY <1>2, NothingChanged DEF BytesGoOn
  <2>3. BytesKnown(revisions, blobs', lost)
    BY <2>2 DEF CatalogIInv, BytesKnown, BytesGoOn
  <2>4. CASE Refuse(c)
    <3>1. Become(c, Settled(jobs[c], "refused"))
      BY <2>4, FinishIs DEF Refuse
    <3>2. CallerSound(Settled(jobs[c], "refused"), revisions', blobs', lost')
      BY SettledSound
    <3> QED BY <2>1, <2>2, <2>3, <3>1, <3>2, CallerStep
  <2>5. CASE Go(c, "stored")
    <3>1. PICK new : /\ Become(c, new) /\ DOMAIN new = CallerFields /\ new.pc = "stored"
                     /\ \A f \in CallerFields \ {"pc"} : new[f] = jobs[c][f]
      BY <2>5, GoIs
    <3>2. new.kind = "ingest" /\ new.key \in blobs'
      BY <1>0, <1>2, <3>1 DEF CallerFields
    <3>3. CallerSound(new, revisions', blobs', lost')
      BY <3>1, <3>2 DEF CallerSound
    <3> QED BY <2>1, <2>2, <2>3, <3>1, <3>3, CallerStep
  <2> QED BY <1>2, <2>4, <2>5
<1> QED BY <1>1, <1>2 DEF Store

LEMMA ObserveOK == ASSUME CatalogIInv, NEW c \in Clients, Observe(c) PROVE CatalogIInv'
<1>0. /\ jobs[c].kind = "ingest" /\ jobs[c].pc = "stored"
      /\ UNCHANGED <<asset, revisions, blobs, lost>>
  BY DEF Observe, Doing
<1>1. CASE Refuse(c) BY <1>0, <1>1, RefuseStep
<1>2. CASE Go(c, "prepared")
  <2>1. PICK new : /\ Become(c, new) /\ DOMAIN new = CallerFields /\ new.pc = "prepared"
                   /\ \A f \in CallerFields \ {"pc"} : new[f] = jobs[c][f]
    BY <1>2, GoIs
  <2>2. new.kind = "ingest" /\ new.key = jobs[c].key
    BY <1>0, <2>1 DEF CallerFields
  <2>3. jobs[c].key \in blobs \cup lost
    BY <1>0 DEF CatalogIInv, CallerSound
  <2>4. CallerSound(new, revisions, blobs, lost)
    BY <2>1, <2>2, <2>3 DEF CallerSound
  <2> QED BY <1>0, <2>1, <2>4, ReaderStep
<1> QED BY <1>1, <1>2 DEF Observe
-----------------------------------------------------------------------------
(* Steps on the asset and its revisions. *)

\* A command that is answered, with or without a change of the tables.
LEMMA AnswerStep ==
  ASSUME CatalogIInv, NEW c \in Clients, NEW point \in {"ok", "refused"}, Finish(c, point),
         DOMAIN asset' = AssetFields, RevisionsSound(revisions'),
         BytesKnown(revisions', blobs, lost), RevisionsGoOn(revisions, revisions'),
         UNCHANGED <<blobs, lost>>
  PROVE  CatalogIInv'
<1>1. Become(c, Settled(jobs[c], point)) BY FinishIs
<1>2. CallerSound(Settled(jobs[c], point), revisions', blobs', lost') BY SettledSound
<1>3. blobs' = blobs /\ lost' = lost OBVIOUS
<1> QED BY <1>1, <1>2, <1>3, NothingChanged, CallerStep

\* The tables after the change of one row.
LEMMA SafetyChanges ==
  ASSUME CatalogIInv, NEW r \in RevisionIds, revisions[r].number # 0, NEW to,
         <<revisions[r].safety, to>> \in SafetyAllowed,
         revisions' = [revisions EXCEPT ![r].safety = to]
  PROVE  /\ RevisionsSound(revisions') /\ BytesKnown(revisions', blobs, lost)
         /\ RevisionsGoOn(revisions, revisions')
<1>1. RevisionsSound(revisions) /\ BytesKnown(revisions, blobs, lost)
  BY DEF CatalogIInv
<1>2. /\ revisions' = [s \in RevisionIds |-> revisions'[s]]
      /\ \A s \in RevisionIds : s # r => revisions'[s] = revisions[s]
      /\ revisions'[r] = [revisions[r] EXCEPT !.safety = to]
  BY <1>1 DEF RevisionsSound
<1>3. /\ DOMAIN revisions'[r] = RevisionFields
      /\ revisions'[r].number = revisions[r].number /\ revisions'[r].key = revisions[r].key
      /\ revisions'[r].safety = to
  BY <1>1, <1>2 DEF RevisionsSound, RevisionFields
<1>4. revisions[r].safety \in Decided => to \in Decided /\ to # "PASSED"
  BY DEF SafetyAllowed, Decided
<1>5. \A s \in RevisionIds : /\ revisions'[s].number = revisions[s].number
                             /\ revisions'[s].key = revisions[s].key
                             /\ DOMAIN revisions'[s] = RevisionFields
  BY <1>1, <1>2, <1>3 DEF RevisionsSound
<1>6. RevisionsSound(revisions')
  BY <1>1, <1>2, <1>5 DEF RevisionsSound
<1>7. BytesKnown(revisions', blobs, lost)
  BY <1>1, <1>5 DEF BytesKnown
<1>8. RevisionsGoOn(revisions, revisions')
  BY <1>2, <1>3, <1>4, <1>5 DEF RevisionsGoOn
<1> QED BY <1>6, <1>7, <1>8

LEMMA RevisionComes ==
  ASSUME CatalogIInv, NEW r \in RevisionIds, revisions[r].number = 0, NEW key \in blobs \cup lost,
         revisions' = [revisions EXCEPT ![r] =
                         [number |-> MaxNumber + 1, key |-> key, safety |-> "PENDING"]]
  PROVE  /\ RevisionsSound(revisions') /\ BytesKnown(revisions', blobs, lost)
         /\ RevisionsGoOn(revisions, revisions')
<1>1. RevisionsSound(revisions) /\ BytesKnown(revisions, blobs, lost)
  BY DEF CatalogIInv
<1>2. MaxNumber \in Nat /\ \A s \in RevisionIds : revisions[s].number <= MaxNumber
  BY <1>1, NumberIsNew
<1> DEFINE n == MaxNumber + 1
<1>3. n \in Nat /\ n # 0 /\ \A s \in RevisionIds : revisions[s].number # n
  BY <1>1, <1>2 DEF RevisionsSound
<1>4. /\ revisions' = [s \in RevisionIds |-> revisions'[s]]
      /\ \A s \in RevisionIds : s # r => revisions'[s] = revisions[s]
      /\ revisions'[r] = [number |-> n, key |-> key, safety |-> "PENDING"]
  BY <1>1 DEF RevisionsSound
<1> HIDE DEF n
<1>5. DOMAIN revisions'[r] = RevisionFields /\ revisions'[r].number = n /\ revisions'[r].key = key
  BY <1>4 DEF RevisionFields
<1>6. RevisionsSound(revisions')
  <2>1. \A s \in RevisionIds : DOMAIN revisions'[s] = RevisionFields /\ revisions'[s].number \in Nat
    BY <1>1, <1>3, <1>4, <1>5 DEF RevisionsSound
  <2>2. ASSUME NEW s \in RevisionIds, NEW t \in RevisionIds,
               revisions'[s].number # 0, revisions'[s].number = revisions'[t].number
        PROVE  s = t
    BY <1>1, <1>3, <1>4, <1>5, <2>2 DEF RevisionsSound
  <2> QED BY <1>4, <2>1, <2>2 DEF RevisionsSound
<1>7. BytesKnown(revisions', blobs, lost)
  BY <1>1, <1>4, <1>5 DEF BytesKnown
<1>8. RevisionsGoOn(revisions, revisions')
  BY <1>4 DEF RevisionsGoOn
<1> QED BY <1>6, <1>7, <1>8

LEMMA RegisterRevisionOK ==
  ASSUME CatalogIInv, NEW c \in Clients, NEW r \in RevisionIds, RegisterRevision(c, r)
  PROVE  CatalogIInv'
<1>0. /\ jobs[c].kind = "ingest" /\ jobs[c].pc = "prepared"
      /\ asset' = asset /\ blobs' = blobs /\ lost' = lost
      /\ DOMAIN asset = AssetFields /\ RevisionsSound(revisions)
      /\ BytesKnown(revisions, blobs, lost)
  BY DEF RegisterRevision, Doing, CatalogIInv
<1>1. CASE r \in Registered
  <2> DEFINE point == IF revisions[r].key = jobs[c].key THEN "ok" ELSE "refused"
  <2>1. Finish(c, point) /\ revisions' = revisions /\ point \in {"ok", "refused"}
    BY <1>1 DEF RegisterRevision
  <2> HIDE DEF point
  <2> QED BY <1>0, <2>1, NothingChanged, AnswerStep
<1>2. CASE r \notin Registered /\ MayRegister
  <2>1. revisions' = [revisions EXCEPT ![r] =
                        [number |-> MaxNumber + 1, key |-> jobs[c].key, safety |-> "PENDING"]]
        /\ (Finish(c, "ok") \/ UNCHANGED jobs)
    BY <1>2 DEF RegisterRevision
  <2>2. revisions[r].number = 0 /\ jobs[c].key \in blobs \cup lost
    BY <1>0, <1>2 DEF Registered, CatalogIInv, CallerSound
  <2>3. /\ RevisionsSound(revisions') /\ BytesKnown(revisions', blobs, lost)
        /\ RevisionsGoOn(revisions, revisions')
    BY <2>1, <2>2, RevisionComes
  <2>4. CASE Finish(c, "ok")
    BY <1>0, <2>3, <2>4, AnswerStep
  <2>5. CASE UNCHANGED jobs
    <3>1. \A d \in Clients : CallerSound(jobs[d], revisions', blobs, lost)
      BY <2>3, NothingChanged, CallerStandsBy DEF CatalogIInv
    <3>2. jobs' = jobs /\ jobs = [d \in Clients |-> jobs[d]]
      BY <2>5 DEF CatalogIInv
    <3> QED BY <1>0, <2>3, <3>1, <3>2 DEF CatalogIInv
  <2> QED BY <2>1, <2>4, <2>5
<1>3. CASE r \notin Registered /\ ~ MayRegister
  <2>1. Refuse(c) /\ UNCHANGED revisions BY <1>3 DEF RegisterRevision
  <2> QED BY <1>0, <2>1, RefuseStep
<1> QED BY <1>1, <1>2, <1>3

LEMMA RefuseChangeOK ==
  ASSUME CatalogIInv, NEW c \in Clients, RefuseChange(c), UNCHANGED <<blobs, lost>>
  PROVE  CatalogIInv'
  BY RefuseStep DEF RefuseChange

\* An answered change of the asset row alone.
LEMMA RowStep ==
  ASSUME CatalogIInv, NEW c \in Clients, NEW row, DOMAIN row = AssetFields, Changed(row),
         Finish(c, "ok"), UNCHANGED <<revisions, blobs, lost>>
  PROVE  CatalogIInv'
<1>1. DOMAIN asset' = AssetFields BY DEF Changed
<1>2. revisions' = revisions /\ RevisionsSound(revisions) /\ BytesKnown(revisions, blobs, lost)
  BY DEF CatalogIInv
<1> QED BY <1>1, <1>2, NothingChanged, AnswerStep

LEMMA TransitionLifecycleOK ==
  ASSUME CatalogIInv, NEW c \in Clients, NEW to, TransitionLifecycle(c, to)
  PROVE  CatalogIInv'
<1>0. UNCHANGED <<blobs, lost>> BY DEF TransitionLifecycle
<1>1. CASE RefuseChange(c) BY <1>0, <1>1, RefuseChangeOK
<1>2. CASE ~ RefuseChange(c)
  <2> DEFINE row == [asset EXCEPT !.lifecycle = to]
  <2>1. Changed(row) /\ Finish(c, "ok") /\ UNCHANGED revisions
    BY <1>2 DEF TransitionLifecycle
  <2>2. DOMAIN row = AssetFields BY DEF CatalogIInv
  <2> HIDE DEF row
  <2> QED BY <1>0, <2>1, <2>2, RowStep
<1> QED BY <1>1, <1>2

LEMMA TransitionQuarantineOK ==
  ASSUME CatalogIInv, NEW c \in Clients, NEW to, TransitionQuarantine(c, to)
  PROVE  CatalogIInv'
<1>0. UNCHANGED <<blobs, lost>> BY DEF TransitionQuarantine
<1>1. CASE RefuseChange(c) BY <1>0, <1>1, RefuseChangeOK
<1>2. CASE ~ RefuseChange(c)
  <2> DEFINE row == [asset EXCEPT !.quarantined = to]
  <2>1. Changed(row) /\ Finish(c, "ok") /\ UNCHANGED revisions
    BY <1>2 DEF TransitionQuarantine
  <2>2. DOMAIN row = AssetFields BY DEF CatalogIInv
  <2> HIDE DEF row
  <2> QED BY <1>0, <2>1, <2>2, RowStep
<1> QED BY <1>1, <1>2

LEMMA TransitionSafetyOK ==
  ASSUME CatalogIInv, NEW c \in Clients, NEW r \in RevisionIds, NEW to, TransitionSafety(c, r, to)
  PROVE  CatalogIInv'
<1>0. UNCHANGED <<blobs, lost>> /\ r \in Registered BY DEF TransitionSafety
<1>1. CASE RefuseChange(c) BY <1>0, <1>1, RefuseChangeOK
<1>2. CASE ~ RefuseChange(c)
  <2>1. /\ <<revisions[r].safety, to>> \in SafetyAllowed
        /\ revisions' = [revisions EXCEPT ![r].safety = to]
        /\ Changed(asset) /\ Finish(c, "ok")
    BY <1>2 DEF TransitionSafety
  <2>2. revisions[r].number # 0 BY <1>0 DEF Registered
  <2>3. /\ RevisionsSound(revisions') /\ BytesKnown(revisions', blobs, lost)
        /\ RevisionsGoOn(revisions, revisions')
    BY <2>1, <2>2, SafetyChanges
  <2>4. DOMAIN asset' = AssetFields BY <2>1 DEF Changed, CatalogIInv
  <2> QED BY <1>0, <2>1, <2>3, <2>4, AnswerStep
<1> QED BY <1>1, <1>2

LEMMA CommitActivationOK ==
  ASSUME CatalogIInv, NEW c \in Clients, CommitActivation(c) PROVE CatalogIInv'
<1>0. UNCHANGED <<blobs, lost>> BY DEF CommitActivation
<1>1. CASE RefuseChange(c) BY <1>0, <1>1, RefuseChangeOK
<1>2. CASE ~ RefuseChange(c)
  <2> DEFINE row == [asset EXCEPT !.current = jobs[c].number]
  <2>1. Changed(row) /\ Finish(c, "ok") /\ UNCHANGED revisions
    BY <1>2 DEF CommitActivation
  <2>2. DOMAIN row = AssetFields BY DEF CatalogIInv
  <2> HIDE DEF row
  <2> QED BY <1>0, <2>1, <2>2, RowStep
<1> QED BY <1>1, <1>2
-----------------------------------------------------------------------------
(* What an activation and a use have read. *)

LEMMA ReadCandidateOK == ASSUME CatalogIInv, NEW c \in Clients, ReadCandidate(c) PROVE CatalogIInv'
<1>0. /\ jobs[c].kind = "activate" /\ UNCHANGED <<asset, revisions, blobs, lost>>
      /\ RevisionsSound(revisions) /\ DOMAIN jobs[c] = CallerFields
  BY DEF ReadCandidate, Doing, CatalogIInv, CallerSound
<1>1. CASE Refuse(c) BY <1>0, <1>1, RefuseStep
<1>2. CASE ~ Refuse(c)
  <2> DEFINE id == Fetch(jobs[c].number)
             found == [asset |-> asset, id |-> id, revision |-> revisions[id]]
             new == [jobs[c] EXCEPT !.pc = "inspecting", !.seen = found]
  <2>1. /\ asset.lifecycle # "DELETED" /\ id # NoRevisionId
        /\ revisions[id].safety = "PASSED" /\ Become(c, new)
    BY <1>2 DEF ReadCandidate
  <2>2. id \in RevisionIds BY <1>0, <2>1, FetchFinds
  <2>3. /\ found.asset.lifecycle # "DELETED" /\ found.id \in RevisionIds
        /\ found.revision.safety = "PASSED"
    BY <2>1, <2>2
  <2> HIDE DEF found
  <2>4. /\ DOMAIN new = CallerFields /\ new.pc = "inspecting" /\ new.kind = "activate"
        /\ new.seen = found
    BY <1>0 DEF CallerFields
  <2> HIDE DEF new
  <2>5. CallerSound(new, revisions, blobs, lost)
    BY <2>3, <2>4 DEF CallerSound
  <2> QED BY <1>0, <2>1, <2>5, ReaderStep
<1> QED BY <1>1, <1>2

LEMMA InspectCandidateOK ==
  ASSUME CatalogIInv, NEW c \in Clients, InspectCandidate(c) PROVE CatalogIInv'
<1>0. /\ jobs[c].kind = "activate" /\ jobs[c].pc = "inspecting"
      /\ UNCHANGED <<asset, revisions, blobs, lost>>
  BY DEF InspectCandidate, Doing
<1>1. CASE Refuse(c) BY <1>0, <1>1, RefuseStep
<1>2. CASE Go(c, "committing")
  <2>1. PICK new : /\ Become(c, new) /\ DOMAIN new = CallerFields /\ new.pc = "committing"
                   /\ \A f \in CallerFields \ {"pc"} : new[f] = jobs[c][f]
    BY <1>2, GoIs
  <2>2. new.kind = "activate" /\ new.seen = jobs[c].seen
    BY <1>0, <2>1 DEF CallerFields
  <2>3. CallerSound(jobs[c], revisions, blobs, lost) BY DEF CatalogIInv
  <2>4. CallerSound(new, revisions, blobs, lost)
    BY <1>0, <2>1, <2>2, <2>3 DEF CallerSound
  <2> QED BY <1>0, <2>1, <2>4, ReaderStep
<1> QED BY <1>1, <1>2 DEF InspectCandidate

LEMMA LoadAssetOK == ASSUME CatalogIInv, NEW c \in Clients, LoadAsset(c) PROVE CatalogIInv'
<1> DEFINE found == [Nothing EXCEPT !.asset = asset]
           new == [jobs[c] EXCEPT !.pc = "loading", !.seen = found]
<1>1. Become(c, new) /\ UNCHANGED <<asset, revisions, blobs, lost>>
  BY DEF LoadAsset
<1> HIDE DEF found
<1>2. DOMAIN new = CallerFields /\ new.pc = "loading"
  BY DEF CatalogIInv, CallerSound, CallerFields
<1> HIDE DEF new
<1> QED BY <1>1, <1>2, IdleStep

LEMMA LoadedIs ==
  ASSUME RevisionsSound(revisions), NEW snapshot, NEW n
  PROVE  LET id == Fetch(Effective(snapshot.asset, n))
         IN /\ Loaded(snapshot, n).asset = snapshot.asset
            /\ Loaded(snapshot, n).id = id
            /\ id # NoRevisionId => Loaded(snapshot, n).revision = revisions[id]
  BY DEF Loaded, RowOf

LEMMA LoadRevisionOK == ASSUME CatalogIInv, NEW c \in Clients, LoadRevision(c) PROVE CatalogIInv'
<1>0. /\ jobs[c].kind = "use" /\ UNCHANGED <<asset, revisions, blobs, lost>>
      /\ RevisionsSound(revisions) /\ DOMAIN jobs[c] = CallerFields
  BY DEF LoadRevision, Doing, CatalogIInv, CallerSound
<1>1. CASE Refuse(c) BY <1>0, <1>1, RefuseStep
<1>2. CASE ~ Refuse(c)
  <2> DEFINE found == Loaded(jobs[c].seen, jobs[c].number)
             id == Fetch(Effective(jobs[c].seen.asset, jobs[c].number))
             new == [jobs[c] EXCEPT !.pc = "inspecting", !.seen = found]
  <2>1. UsableSoFar(found) /\ Become(c, new)
    BY <1>2 DEF LoadRevision
  <2>2. /\ found.asset = jobs[c].seen.asset /\ found.id = id
        /\ id # NoRevisionId => found.revision = revisions[id]
    BY <1>0, LoadedIs
  <2>3. id # NoRevisionId /\ found.revision.safety = "PASSED"
    BY <2>1, <2>2 DEF UsableSoFar
  <2>4. /\ id \in RevisionIds /\ revisions[id].number # 0
        /\ revisions[id].number = Effective(jobs[c].seen.asset, jobs[c].number)
    BY <1>0, <2>3, FetchFinds
  <2> HIDE DEF found, id
  <2>5. /\ DOMAIN new = CallerFields /\ new.pc = "inspecting" /\ new.kind = "use"
        /\ new.seen = found /\ new.number = jobs[c].number
    BY <1>0 DEF CallerFields
  <2> HIDE DEF new
  <2>6. SeenPassed(new, revisions)
    BY <2>2, <2>3, <2>4, <2>5 DEF SeenPassed, Decided
  <2>7. CallerSound(new, revisions, blobs, lost)
    BY <2>5, <2>6 DEF CallerSound
  <2> QED BY <1>0, <2>1, <2>7, ReaderStep
<1> QED BY <1>1, <1>2

LEMMA InspectUseOK == ASSUME CatalogIInv, NEW c \in Clients, InspectUse(c) PROVE CatalogIInv'
<1>0. /\ jobs[c].kind = "use" /\ jobs[c].pc = "inspecting"
      /\ UNCHANGED <<asset, revisions, blobs, lost>>
  BY DEF InspectUse, Doing
<1>1. CASE Refuse(c) BY <1>0, <1>1, RefuseStep
<1>2. CASE Go(c, "confirming")
  <2>1. PICK new : /\ Become(c, new) /\ DOMAIN new = CallerFields /\ new.pc = "confirming"
                   /\ \A f \in CallerFields \ {"pc"} : new[f] = jobs[c][f]
    BY <1>2, GoIs
  <2>2. new.kind = "use" /\ new.seen = jobs[c].seen /\ new.number = jobs[c].number
    BY <1>0, <2>1 DEF CallerFields
  <2>3. SeenPassed(jobs[c], revisions) BY <1>0 DEF CatalogIInv, CallerSound
  <2>4. SeenPassed(new, revisions) BY <2>2, <2>3 DEF SeenPassed
  <2>5. CallerSound(new, revisions, blobs, lost)
    BY <2>1, <2>2, <2>4 DEF CallerSound
  <2> QED BY <1>0, <2>1, <2>5, ReaderStep
<1> QED BY <1>1, <1>2 DEF InspectUse

LEMMA ConfirmAssetOK == ASSUME CatalogIInv, NEW c \in Clients, ConfirmAsset(c) PROVE CatalogIInv'
<1>0. /\ jobs[c].kind = "use" /\ jobs[c].pc = "confirming"
      /\ UNCHANGED <<asset, revisions, blobs, lost>>
      /\ RevisionsSound(revisions) /\ DOMAIN jobs[c] = CallerFields
      /\ SeenPassed(jobs[c], revisions)
  BY DEF ConfirmAsset, Doing, CatalogIInv, CallerSound
<1> DEFINE n == jobs[c].number
           key == jobs[c].seen.revision.key
           found == [Nothing EXCEPT !.asset = asset]
           usable == UsableNow(n, key)
           new == [jobs[c] EXCEPT !.pc = "comparing", !.again = found, !.held = usable]
<1>1. Become(c, new) BY DEF ConfirmAsset
<1>2. found.asset = asset BY DEF Nothing
<1> HIDE DEF found
<1>3. ASSUME asset.lifecycle = "ACTIVE", ~ asset.quarantined,
             Effective(asset, n) = Effective(jobs[c].seen.asset, n),
             revisions[jobs[c].seen.id].safety = "PASSED"
      PROVE  usable
  <2> DEFINE second == Loaded(found, n)
             id == jobs[c].seen.id
  <2>1. Fetch(Effective(asset, n)) = id /\ id \in RevisionIds /\ revisions[id].key = key
    BY <1>0, <1>3, FetchFinds DEF SeenPassed
  <2>2. id # NoRevisionId BY <2>1, CatalogAssumption
  <2>3. second.asset = asset /\ second.id = id /\ second.revision = revisions[id]
    <3>1. Fetch(Effective(found.asset, n)) = id BY <1>2, <2>1
    <3> QED BY <1>0, <1>2, <2>2, <3>1, LoadedIs
  <2>4. UsableSoFar(second) /\ second.revision.key = key
    BY <1>3, <2>1, <2>2, <2>3 DEF UsableSoFar
  <2> QED BY <2>4 DEF UsableNow, found
<1> HIDE DEF usable
<1>4. /\ DOMAIN new = CallerFields /\ new.pc = "comparing" /\ new.kind = "use"
      /\ new.number = n /\ new.seen = jobs[c].seen /\ new.again = found
  BY <1>0 DEF CallerFields
<1>5. new.held = usable
  BY <1>0 DEF CallerFields
<1> HIDE DEF new
<1>6. SeenPassed(new, revisions) BY <1>0, <1>4 DEF SeenPassed
<1>7. HeldThen(new, revisions)
  BY <1>2, <1>3, <1>4, <1>5 DEF HeldThen
<1>8. CallerSound(new, revisions, blobs, lost)
  BY <1>4, <1>6, <1>7 DEF CallerSound
<1> QED BY <1>0, <1>1, <1>8, ReaderStep

LEMMA CompareOK == ASSUME CatalogIInv, NEW c \in Clients, Compare(c) PROVE CatalogIInv'
<1>0. /\ jobs[c].kind = "use" /\ jobs[c].pc = "comparing"
      /\ UNCHANGED <<asset, revisions, blobs, lost>>
      /\ RevisionsSound(revisions) /\ DOMAIN jobs[c] = CallerFields
      /\ SeenPassed(jobs[c], revisions) /\ HeldThen(jobs[c], revisions)
  BY DEF Compare, Doing, CatalogIInv, CallerSound
<1> DEFINE n == jobs[c].number
           first == jobs[c].seen
           second == Loaded(jobs[c].again, n)
<1>1. CASE Confirmed(first, second, n)
  <2>1. Finish(c, "usable") BY <1>1 DEF Compare
  <2> DEFINE new == Settled(jobs[c], "usable")
             id == Fetch(Effective(jobs[c].again.asset, n))
  <2>2. Become(c, new) BY <2>1, FinishIs
  <2>3. /\ second.asset = jobs[c].again.asset /\ second.id = id
        /\ id # NoRevisionId => second.revision = revisions[id]
    BY <1>0, LoadedIs
  <2>4. UsableSoFar(second) /\ StabilityKey(first, n) = StabilityKey(second, n)
    BY <1>1 DEF Confirmed
  <2> HIDE DEF second, id
  <2>5. /\ jobs[c].again.asset.lifecycle = "ACTIVE" /\ ~ jobs[c].again.asset.quarantined
        /\ id # NoRevisionId /\ revisions[id].safety = "PASSED"
    BY <2>3, <2>4 DEF UsableSoFar
  <2>6. first.id = id /\ (n = 0 => first.asset.current = jobs[c].again.asset.current)
    BY <2>3, <2>4 DEF StabilityKey
  <2>7. Effective(jobs[c].again.asset, n) = Effective(first.asset, n)
    BY <2>6 DEF Effective
  <2>8. jobs[c].held
    BY <1>0, <2>5, <2>6, <2>7 DEF HeldThen
  <2>9. DOMAIN new = CallerFields /\ new.pc = "usable" /\ new.kind = "none"
    BY DEF Settled, NewJob, CallerFields
  <2>10. new.held = ("usable" = "usable" /\ jobs[c].held)
    BY DEF Settled, NewJob
  <2> HIDE DEF new
  <2>11. CallerSound(new, revisions, blobs, lost)
    BY <2>8, <2>9, <2>10 DEF CallerSound
  <2> QED BY <1>0, <2>2, <2>11, ReaderStep
<1>2. CASE ~ Confirmed(first, second, n) /\ jobs[c].tries + 1 < MaxAttempts
  <2> DEFINE new == [NewJob EXCEPT !.pc = "reading", !.kind = "use", !.number = jobs[c].number,
                                   !.tries = jobs[c].tries + 1]
  <2>1. Become(c, new) BY <1>2 DEF Compare
  <2>2. DOMAIN new = CallerFields /\ new.pc = "reading"
    BY DEF NewJob, CallerFields
  <2> HIDE DEF new
  <2> QED BY <1>0, <2>1, <2>2, IdleStep
<1>3. CASE ~ Confirmed(first, second, n) /\ ~ (jobs[c].tries + 1 < MaxAttempts)
  <2>1. Refuse(c) BY <1>3 DEF Compare
  <2> QED BY <1>0, <2>1, RefuseStep
<1> QED BY <1>1, <1>2, <1>3

LEMMA ListOK == ASSUME CatalogIInv, NEW c \in Clients, List(c) PROVE CatalogIInv'
<1>0. /\ jobs[c].kind = "reconcile" /\ jobs[c].pc = "listing"
      /\ UNCHANGED <<asset, revisions, blobs, lost>>
      /\ BytesKnown(revisions, blobs, lost) /\ DOMAIN jobs[c] = CallerFields
      /\ jobs[c].number = 0 \/ (jobs[c].number = 1 /\ jobs[c].references \subseteq blobs \cup lost)
  BY DEF List, Doing, CatalogIInv, CallerSound
<1> DEFINE refs == {revisions[r].key : r \in Registered}
<1>1. CASE jobs[c].number = 0
  <2> DEFINE new == [jobs[c] EXCEPT !.references = refs, !.objects = @, !.number = 1,
                                    !.pc = "listing"]
  <2>1. Passes[jobs[c].number + 1] = "references"
    BY <1>1 DEF Passes
  <2>2. Become(c, new)
    BY <1>1, <2>1 DEF List
  <2>3. refs \subseteq blobs \cup lost
    BY <1>0 DEF BytesKnown, Registered
  <2> HIDE DEF refs
  <2>4. /\ DOMAIN new = CallerFields /\ new.pc = "listing" /\ new.kind = "reconcile"
        /\ new.number = 1 /\ new.references = refs
    BY <1>0 DEF CallerFields
  <2> HIDE DEF new
  <2>5. CallerSound(new, revisions, blobs, lost)
    BY <2>3, <2>4 DEF CallerSound
  <2> QED BY <1>0, <2>2, <2>5, ReaderStep
<1>2. CASE jobs[c].number = 1
  <2> DEFINE new == [jobs[c] EXCEPT !.references = @, !.objects = blobs, !.number = 0,
                                    !.pc = "reported"]
  <2>1. Passes[jobs[c].number + 1] = "objects"
    BY <1>2 DEF Passes
  <2>2. Become(c, new)
    BY <1>2, <2>1 DEF List
  <2>3. /\ DOMAIN new = CallerFields /\ new.pc = "reported" /\ new.kind = "reconcile"
        /\ new.references = jobs[c].references /\ new.objects = blobs
    BY <1>0 DEF CallerFields
  <2> HIDE DEF new
  <2>4. new.references \ new.objects \subseteq lost
    BY <1>0, <1>2, <2>3
  <2>5. CallerSound(new, revisions, blobs, lost)
    BY <2>3, <2>4 DEF CallerSound
  <2> QED BY <1>0, <2>2, <2>5, ReaderStep
<1> QED BY <1>0, <1>1, <1>2
-----------------------------------------------------------------------------
LEMMA CatalogInitOK == ASSUME CatalogInit PROVE CatalogIInv
<1>1. /\ asset = NoAsset /\ revisions = [r \in RevisionIds |-> NoRevisionRow]
      /\ blobs = {} /\ lost = {} /\ jobs = [c \in Clients |-> NewJob]
  BY DEF CatalogInit
<1>2. DOMAIN asset = AssetFields
  BY <1>1 DEF NoAsset, AssetFields
<1>3. \A r \in RevisionIds : DOMAIN revisions[r] = RevisionFields /\ revisions[r].number = 0
  BY <1>1 DEF NoRevisionRow, RevisionFields
<1>4. RevisionsSound(revisions) /\ BytesKnown(revisions, blobs, lost)
  BY <1>1, <1>3 DEF RevisionsSound, BytesKnown
<1>5. DOMAIN NewJob = CallerFields /\ NewJob.pc = "new"
  BY DEF NewJob, CallerFields
<1>6. \A c \in Clients : CallerSound(jobs[c], revisions, blobs, lost)
  BY <1>1, <1>5, IdleCaller
<1> QED BY <1>1, <1>2, <1>4, <1>6 DEF CatalogIInv

LEMMA CatalogNextOK == ASSUME CatalogIInv, [CatalogNext]_catalogVars PROVE CatalogIInv'
<1>1. CASE UNCHANGED catalogVars
  BY <1>1 DEF catalogVars, CatalogIInv
<1>2. CASE CatalogNext
  <2>1. CASE CreateAsset BY <2>1, CreateAssetOK
  <2>2. CASE LoseObject BY <2>2, LoseObjectOK
  <2>3. ASSUME NEW c \in Clients,
               \/ Upload(c) \/ Store(c) \/ Observe(c)
               \/ \E r \in RevisionIds : RegisterRevision(c, r)
        PROVE  CatalogIInv'
    BY <2>3, UploadOK, StoreOK, ObserveOK, RegisterRevisionOK
  <2>4. ASSUME NEW c \in Clients,
               \/ Command(c)
               \/ \E to \in {"ACTIVE", "WITHDRAWN", "DELETED"} : TransitionLifecycle(c, to)
               \/ \E to \in BOOLEAN : TransitionQuarantine(c, to)
               \/ \E r \in RevisionIds, to \in {"PASSED", "FAILED"} : TransitionSafety(c, r, to)
        PROVE  CatalogIInv'
    BY <2>4, CommandOK, TransitionLifecycleOK, TransitionQuarantineOK, TransitionSafetyOK
  <2>5. ASSUME NEW c \in Clients,
               Activate(c) \/ ReadCandidate(c) \/ InspectCandidate(c) \/ CommitActivation(c)
        PROVE  CatalogIInv'
    BY <2>5, ActivateOK, ReadCandidateOK, InspectCandidateOK, CommitActivationOK
  <2>6. ASSUME NEW c \in Clients,
               \/ Use(c) \/ LoadAsset(c) \/ LoadRevision(c) \/ InspectUse(c) \/ ConfirmAsset(c)
               \/ Compare(c)
        PROVE  CatalogIInv'
    BY <2>6, UseOK, LoadAssetOK, LoadRevisionOK, InspectUseOK, ConfirmAssetOK, CompareOK
  <2>7. ASSUME NEW c \in Clients, Reconcile(c) \/ List(c) PROVE CatalogIInv'
    BY <2>7, ReconcileOK, ListOK
  <2> QED BY <1>2, <2>1, <2>2, <2>3, <2>4, <2>5, <2>6, <2>7, Zenon DEF CatalogNext
<1> QED BY <1>1, <1>2

LEMMA CatalogInvariance == CatalogSpec => []CatalogIInv
  BY CatalogInitOK, CatalogNextOK, PTL DEF CatalogSpec

\* An asset that is answered to be usable was: at the second read of its row it
\* was active and clear, and its revision had passed and had the inspected bytes.
THEOREM UsesAreTrue == CatalogSpec => []UseIsTrue
<1>1. CatalogIInv => UseIsTrue
  BY DEF CatalogIInv, CallerSound, UseIsTrue
<1> QED BY <1>1, CatalogInvariance, PTL

\* A reconciliation, whatever is registered, stored and lost while it runs, calls
\* missing only what the blob store has lost.
THEOREM MissingWasLost == CatalogSpec => []MissingIsReal
<1>1. CatalogIInv => MissingIsReal
  BY DEF CatalogIInv, CallerSound, MissingIsReal, Missing
<1> QED BY <1>1, CatalogInvariance, PTL

CurrentMovesSoundly ==
    asset'.current # asset.current =>
      /\ asset.lifecycle # "DELETED"
      /\ \E c \in Clients : \E r \in OfNumber(asset'.current) :
            /\ Doing(c, "activate", "committing")
            /\ revisions[r].safety = "PASSED" /\ revisions[r].key = jobs[c].seen.revision.key

\* What CommitActivation has to do with the facts it was asked about.
LEMMA ActivationIsSound ==
  ASSUME CatalogIInv, NEW c \in Clients, CommitActivation(c), asset'.current # asset.current
  PROVE  /\ asset.lifecycle # "DELETED"
         /\ \E r \in OfNumber(asset'.current) :
               /\ Doing(c, "activate", "committing")
               /\ revisions[r].safety = "PASSED" /\ revisions[r].key = jobs[c].seen.revision.key
<1> DEFINE n == jobs[c].number
           id == Fetch(n)
<1>1. /\ Doing(c, "activate", "committing") /\ SameActivationFacts(c)
      /\ Changed([asset EXCEPT !.current = n])
  BY DEF CommitActivation, RefuseChange
<1>2. DOMAIN asset = AssetFields /\ RevisionsSound(revisions)
  BY DEF CatalogIInv
<1>3. asset'.current = n
  BY <1>1, <1>2 DEF Changed, AssetFields
<1>4. jobs[c].seen.asset = asset /\ jobs[c].seen.id = id /\ jobs[c].seen.revision = RowOf(id)
  BY <1>1 DEF SameActivationFacts
<1>5. /\ jobs[c].seen.asset.lifecycle # "DELETED"
      /\ jobs[c].seen.id \in RevisionIds /\ jobs[c].seen.revision.safety = "PASSED"
  BY <1>1 DEF Doing, CatalogIInv, CallerSound
<1>6. id # NoRevisionId BY <1>4, <1>5, CatalogAssumption
<1>7. RowOf(id) = revisions[id] BY <1>6 DEF RowOf
<1>8. id \in OfNumber(n) BY <1>2, <1>6, FetchFinds
<1> QED BY <1>1, <1>3, <1>4, <1>5, <1>7, <1>8

LEMMA CurrentStays ==
  ASSUME CatalogIInv, [CatalogNext]_catalogVars, \A c \in Clients : ~ CommitActivation(c)
  PROVE  asset'.current = asset.current
<1>0. DOMAIN asset = AssetFields BY DEF CatalogIInv
<1>1. ASSUME NEW to, asset' = [[asset EXCEPT !.lifecycle = to] EXCEPT !.version = @ + 1]
      PROVE  asset'.current = asset.current
  BY <1>0, <1>1 DEF AssetFields
<1>2. ASSUME NEW to, asset' = [[asset EXCEPT !.quarantined = to] EXCEPT !.version = @ + 1]
      PROVE  asset'.current = asset.current
  BY <1>0, <1>2 DEF AssetFields
<1>3. ASSUME asset' = [asset EXCEPT !.version = @ + 1]
      PROVE  asset'.current = asset.current
  BY <1>0, <1>3 DEF AssetFields
<1>4. ASSUME CreateAsset PROVE asset'.current = asset.current
  BY <1>0, <1>4 DEF CreateAsset, AssetFields
<1>5. ASSUME NEW c \in Clients, NEW to, TransitionLifecycle(c, to)
      PROVE  asset'.current = asset.current
  BY <1>1, <1>5 DEF TransitionLifecycle, RefuseChange, Changed
<1>6. ASSUME NEW c \in Clients, NEW to, TransitionQuarantine(c, to)
      PROVE  asset'.current = asset.current
  BY <1>2, <1>6 DEF TransitionQuarantine, RefuseChange, Changed
<1>7. ASSUME NEW c \in Clients, NEW r, NEW to, TransitionSafety(c, r, to)
      PROVE  asset'.current = asset.current
  BY <1>3, <1>7 DEF TransitionSafety, RefuseChange, Changed
<1>8. ASSUME UNCHANGED asset PROVE asset'.current = asset.current
  BY <1>8
<1>9. CASE UNCHANGED catalogVars BY <1>8, <1>9 DEF catalogVars
<1>10. CASE CatalogNext
  <2>1. ASSUME NEW c \in Clients,
               \/ Upload(c) \/ Store(c) \/ Observe(c)
               \/ \E r \in RevisionIds : RegisterRevision(c, r)
               \/ Command(c) \/ Activate(c) \/ ReadCandidate(c) \/ InspectCandidate(c)
               \/ Use(c) \/ LoadAsset(c) \/ LoadRevision(c) \/ InspectUse(c) \/ ConfirmAsset(c)
               \/ Compare(c) \/ Reconcile(c) \/ List(c)
        PROVE  UNCHANGED asset
    BY <2>1 DEF Upload, Store, Observe, RegisterRevision, Command, Activate, ReadCandidate,
                InspectCandidate, Use, LoadAsset, LoadRevision, InspectUse, ConfirmAsset,
                Compare, Reconcile, List
  <2>2. ASSUME LoseObject PROVE UNCHANGED asset BY <2>2 DEF LoseObject
  <2> QED BY <1>4, <1>5, <1>6, <1>7, <1>8, <1>10, <2>1, <2>2, Zenon DEF CatalogNext
<1> QED BY <1>9, <1>10

\* The pointer to the current revision moves only by an activation, to a revision
\* that has passed at that moment and whose bytes were seen, and never after the
\* asset is deleted: whatever other callers did between the inspection and the lock.
THEOREM ActivationsAreSound == CatalogSpec => ActivationSound
<1>1. CatalogIInv /\ [CatalogNext]_catalogVars => [CurrentMovesSoundly]_catalogVars
  BY ActivationIsSound, CurrentStays DEF CurrentMovesSoundly
<1>2. [][CurrentMovesSoundly]_catalogVars <=> ActivationSound
  BY PTL DEF CurrentMovesSoundly, ActivationSound
<1> QED BY <1>1, <1>2, CatalogInvariance, PTL DEF CatalogSpec
=============================================================================

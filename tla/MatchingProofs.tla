--------------------------- MODULE MatchingProofs ---------------------------
(***************************************************************************)
(* The matcher in memory and the SQL of both engines select the same       *)
(* events, for every set of keys, events and filters. First for one filter *)
(* and one event, then, with what the broadcasts have sent, for every      *)
(* reachable state. At the end, what a limit may leave out.                *)
(***************************************************************************)
EXTENDS Matching, FiniteSetTheorems, TLAPS

-----------------------------------------------------------------------------
(* Keys and tags                                                            *)

\* Of texts that are whole keys the prefix match and the decoded match agree.
LEMMA WholeTexts ==
  ASSUME NEW S, NEW k, \A t \in S : Whole(t)
  PROVE  PrefixMatch(S, k) <=> Decodes(S, k)
<1>1. \A t \in S : k \in t.starts <=> k \in t.blob
  BY DEF Whole
<1> QED
  BY <1>1 DEF PrefixMatch, Decodes

\* Of lower case texts what decodes to a key is a prefix of it.
LEMMA LowerCaseTexts ==
  ASSUME NEW S, NEW k, \A t \in S : t.blob \subseteq t.starts, Decodes(S, k)
  PROVE  PrefixMatch(S, k)
BY DEF PrefixMatch, Decodes

\* The rows of the table tag that a clause finds are in the index of the event.
LEMMA RowValue ==
  ASSUME NEW e, NEW c, NEW i, IsTagRow(c, e, i), i \in DOMAIN e.tags
  PROVE  e.tags[i][2] \in TagValues(e, c.name) \cap c.values
BY DEF IsTagRow, TagValues

\* A value in the index has its row.
LEMMA ValueRow ==
  ASSUME NEW e, NEW name, NEW v \in TagValues(e, name), NEW V, v \in V
  PROVE  \E i \in DOMAIN e.tags : IsTagRow([name |-> name, values |-> V], e, i)
<1>1. PICK i \in Searchable(e) : e.tags[i][1] = name /\ e.tags[i][2] = v
  BY DEF TagValues
<1>2. i \in DOMAIN e.tags
  BY DEF Searchable
<1> QED
  BY <1>1, <1>2 DEF IsTagRow

HasRow(c, e) == \E i \in DOMAIN e.tags : IsTagRow(c, e, i)

\* The index matches whenever the clauses of a letter with values find rows.
LEMMA RowsMatch ==
  ASSUME NEW e, NEW q, q.values # {}, \A c \in ClausesOf(q) : HasRow(c, e)
  PROVE  TagIntersects(q, e)
<1> DEFINE one(v) == [name |-> q.name, values |-> {v}]
           all == [name |-> q.name, values |-> q.values]
<1>1. CASE q.op = "or"
  <2>1. all \in ClausesOf(q)
    BY <1>1 DEF ClausesOf
  <2>2. PICK i \in DOMAIN e.tags : IsTagRow(all, e, i)
    BY <2>1 DEF HasRow
  <2>3. e.tags[i][2] \in TagValues(e, all.name) \cap all.values
    BY <2>2, RowValue
  <2> QED
    BY <1>1, <2>3 DEF TagIntersects
<1>2. CASE q.op # "or"
  <2>1. ASSUME NEW v \in q.values PROVE v \in TagValues(e, q.name)
    <3>1. one(v) \in ClausesOf(q)
      BY <1>2 DEF ClausesOf
    <3>2. PICK i \in DOMAIN e.tags : IsTagRow(one(v), e, i)
      BY <3>1 DEF HasRow
    <3>3. e.tags[i][2] \in TagValues(e, one(v).name) \cap one(v).values
      BY <3>2, RowValue
    <3> QED
      BY <3>3
  <2> QED
    BY <1>2, <2>1 DEF TagIntersects
<1> QED
  BY <1>1, <1>2

\* The clauses find rows whenever the index matches.
LEMMA MatchRows ==
  ASSUME NEW e, NEW q, q.op \in {"or", "and"}, TagIntersects(q, e),
         NEW c \in ClausesOf(q)
  PROVE  HasRow(c, e)
<1>1. CASE q.op = "or"
  <2>1. c = [name |-> q.name, values |-> q.values]
    BY <1>1 DEF ClausesOf
  <2>2. PICK v \in TagValues(e, q.name) : v \in q.values
    BY <1>1 DEF TagIntersects
  <2> QED
    BY <2>1, <2>2, ValueRow DEF HasRow
<1>2. CASE q.op = "and"
  <2>1. PICK v \in q.values : c = [name |-> q.name, values |-> {v}]
    BY <1>2 DEF ClausesOf
  <2>2. v \in TagValues(e, q.name)
    BY <1>2 DEF TagIntersects
  <2> QED
    BY <2>1, <2>2, ValueRow DEF HasRow
<1> QED
  BY <1>1, <1>2

\* The joins of a query have a row when every clause has one.
LEMMA JoinsExist ==
  ASSUME NEW e, NEW f
  PROVE  Joins(f, e) # {} <=> \A c \in Clauses(f) : HasRow(PostgresClause(c), e)
<1>1. ASSUME NEW j \in Joins(f, e), NEW c \in Clauses(f)
      PROVE  HasRow(PostgresClause(c), e)
  BY DEF Joins, HasRow
<1>2. ASSUME \A c \in Clauses(f) : HasRow(PostgresClause(c), e)
      PROVE  Joins(f, e) # {}
  <2> DEFINE j == [c \in Clauses(f) |->
                     CHOOSE i \in DOMAIN e.tags : IsTagRow(PostgresClause(c), e, i)]
  <2>1. \A c \in Clauses(f) : j[c] \in DOMAIN e.tags /\ IsTagRow(PostgresClause(c), e, j[c])
    BY <1>2 DEF HasRow
  <2>2. j \in [Clauses(f) -> DOMAIN e.tags]
    BY <2>1
  <2>3. j \in Joins(f, e)
    BY <2>1, <2>2 DEF Joins
  <2> QED
    BY <2>3
<1> QED
  BY <1>1, <1>2

\* The name of a clause, and that its values are among those of its letter.
LEMMA ClauseShape ==
  ASSUME NEW q, NEW c \in ClausesOf(q)
  PROVE  c = [name |-> c.name, values |-> c.values] /\ c.values \subseteq q.values
BY DEF ClausesOf

\* What PostgreSQL makes of a clause finds no more than the clause.
LEMMA PostgresFindsLess ==
  ASSUME NEW e, NEW c, HasRow(PostgresClause(c), e)
  PROVE  HasRow(c, e)
BY DEF PostgresClause, HasRow, IsTagRow

\* Without odd hex it is the clause.
LEMMA PostgresSameClause ==
  ASSUME NEW q, NEW c \in ClausesOf(q), q.values \cap OddHex = {}
  PROVE  PostgresClause(c) = c
<1>1. c.values \ OddHex = c.values
  BY ClauseShape
<1> QED
  BY <1>1, ClauseShape DEF PostgresClause
-----------------------------------------------------------------------------
(* One filter and one event                                                 *)

\* The tags as SQLite asks for them, of letters with values.
LEMMA SqliteTags ==
  ASSUME NEW f, NEW e,
         \A T \in f.tags : \A q \in T : q.values # {} /\ q.op \in {"or", "and"}
  PROVE  TagMatch(f, e) <=>
           \A T \in f.tags : \A q \in T : \A c \in ClausesOf(q) : HasRow(c, e)
BY RowsMatch, MatchRows DEF TagMatch

\* The tags as PostgreSQL joins them, without odd hex.
LEMMA PostgresTags ==
  ASSUME NEW f, NEW e,
         \A T \in f.tags : \A q \in T :
           q.values # {} /\ q.op \in {"or", "and"} /\ q.values \cap OddHex = {}
  PROVE  TagMatch(f, e) <=> Joins(f, e) # {}
<1>1. \A T \in f.tags : \A q \in T : \A c \in ClausesOf(q) : PostgresClause(c) = c
  BY PostgresSameClause
<1>2. Joins(f, e) # {} <=>
        \A T \in f.tags : \A q \in T : \A c \in ClausesOf(q) : HasRow(c, e)
  BY <1>1, JoinsExist DEF Clauses
<1> QED
  BY <1>2, SqliteTags

\* The operands of the filters that clients can have.
LEMMA FilterOperands ==
  ASSUME NEW r \in RawFilters
  PROVE  \A T \in Parse(r).tags : \A q \in T : q.op \in {"or", "and"}
BY MatchingAssumption DEF MatchingAssumption, Parse, ParsedTags

\* On a clear filter the matcher in memory and the SQL of the engine agree: live
\* and stored events are selected by the same rule.
THEOREM SameSelection ==
  ASSUME NEW r \in RawFilters, NEW e, engine \in Engines, Clear(Parse(r), e)
  PROVE  InterestedIn(Parse(r), e) <=> Selects(Parse(r), e)
<1> DEFINE f == Parse(r)
<1>1. \A T \in f.tags : \A q \in T : q.values # {} /\ q.op \in {"or", "and"}
  BY FilterOperands DEF Clear
<1>2. \A S \in f.ids \cup f.authors : \A k : PrefixMatch(S, k) <=> Decodes(S, k)
  BY WholeTexts DEF Clear
<1> HIDE DEF f
<1>3. CASE engine = "sqlite"
  <2>1. TagMatch(f, e) <=>
          \A T \in f.tags : \A q \in T : \A c \in ClausesOf(q) : HasRow(c, e)
    BY <1>1, SqliteTags
  <2>2. AuthorsMatch(f, e) <=> \A S \in f.authors : Decodes(S, e.author)
    <3>1. DelegatedBy(e) = {} \/ \A S \in f.authors : PrefixMatch(S, e.author)
      BY <1>3 DEF Clear, f
    <3> QED
      BY <1>2, <3>1 DEF AuthorsMatch
  <2> QED
    BY <1>1, <1>2, <1>3, <2>1, <2>2
    DEF InterestedIn, Selects, SqliteSelects, SqlCommon, HasRow, f
<1>4. CASE engine = "postgres"
  <2>1. \A T \in f.tags : \A q \in T : q.values \cap OddHex = {}
    BY <1>4 DEF Clear, f
  <2>2. TagMatch(f, e) <=> Joins(f, e) # {}
    BY <1>1, <2>1, PostgresTags
  <2>3. AuthorsMatch(f, e) <=> \A S \in f.authors : PostgresAuthorOrDelegator(S, e)
    BY <1>2 DEF AuthorsMatch, PostgresAuthorOrDelegator
  <2>4. ASSUME InterestedIn(f, e) PROVE ~PostgresFails(f)
    <3>1. \A t \in f.since \cup f.until : t <= LastStamp
      BY <1>4 DEF Clear, f
    <3>2. f.ids = {} \/ Clauses(f) = {}
      BY <1>4 DEF Clear, f
    <3> QED
      BY <1>1, <2>1, <3>1, <3>2 DEF PostgresFails
  <2> QED
    BY <1>2, <1>4, <2>2, <2>3, <2>4
    DEF InterestedIn, Selects, PostgresSelects, SqlCommon, f
<1> QED
  BY <1>3, <1>4, MatchingAssumption DEF MatchingAssumption

\* What is true of a filter whose texts are lower case and, for SQLite, whose
\* letters all have values.
NotWider(f) ==
  /\ \A S \in f.ids \cup f.authors : \A t \in S : t.blob \subseteq t.starts
  /\ engine = "sqlite" => \A T \in f.tags : \A q \in T : q.values # {}

\* The SQL then selects nothing that the matcher in memory would not.
THEOREM SelectionIsInterest ==
  ASSUME NEW f, NEW e, engine \in Engines, NotWider(f), Selects(f, e)
  PROVE  InterestedIn(f, e)
<1>1. \A S \in f.ids \cup f.authors : \A k : Decodes(S, k) => PrefixMatch(S, k)
  BY LowerCaseTexts DEF NotWider
<1>2. SqlCommon(f, e)
  BY DEF Selects, SqliteSelects, PostgresSelects
<1>3. CASE engine = "sqlite"
  <2>1. \A T \in f.tags : \A q \in T : q.values # {} /\ \A c \in ClausesOf(q) : HasRow(c, e)
    BY <1>3 DEF NotWider, Selects, SqliteSelects, HasRow
  <2>2. TagMatch(f, e)
    BY <2>1, RowsMatch DEF TagMatch
  <2>3. AuthorsMatch(f, e)
    BY <1>1, <1>3 DEF Selects, SqliteSelects, AuthorsMatch
  <2> QED
    BY <1>1, <1>2, <2>2, <2>3 DEF InterestedIn, SqlCommon
<1>4. CASE engine # "sqlite"
  <2>1. ~PostgresFails(f) /\ Joins(f, e) # {}
        /\ \A S \in f.authors : PostgresAuthorOrDelegator(S, e)
    BY <1>4 DEF Selects, PostgresSelects
  <2>2. \A T \in f.tags : \A q \in T : q.values # {} /\ \A c \in ClausesOf(q) : HasRow(c, e)
    BY <2>1, JoinsExist, PostgresFindsLess DEF PostgresFails, Clauses
  <2>3. TagMatch(f, e)
    BY <2>2, RowsMatch DEF TagMatch
  <2>4. AuthorsMatch(f, e)
    BY <1>1, <2>1 DEF AuthorsMatch, PostgresAuthorOrDelegator
  <2> QED
    BY <1>1, <1>2, <2>3, <2>4 DEF InterestedIn, SqlCommon
<1> QED
  BY <1>3, <1>4
-----------------------------------------------------------------------------
(* The invariants                                                           *)

\* The state has its shape, for every set of events and requests.
THEOREM TypeCorrect == Spec => []TypeOK
<1>1. Init => TypeOK
  BY MatchingAssumption DEF MatchingAssumption, Init, TypeOK
<1>2. TypeOK /\ [Next]_vars => TypeOK'
  <2> SUFFICES ASSUME TypeOK, [Next]_vars PROVE TypeOK'
    OBVIOUS
  <2>1. ASSUME NEW r \in Requests, Register(r) PROVE TypeOK'
    <3>1. r \subseteq RawFilters
      BY MatchingAssumption DEF MatchingAssumption
    <3>2. sub' \subseteq {Parse(x) : x \in RawFilters}
      BY <2>1, <3>1 DEF Register
    <3> QED
      BY <2>1, <3>2 DEF TypeOK, Register
  <2>2. ASSUME Query PROVE TypeOK'
    <3>1. PICK A \in [sub -> SUBSET (UNION {Rows(f) : f \in sub})] :
            answer' = {a[1] : a \in UNION {A[f] : f \in sub}}
      BY <2>2 DEF Query
    <3>2. ASSUME NEW f \in sub, NEW a \in Rows(f) PROVE a[1] \in stored
      BY <3>2 DEF Rows, Found
    <3>3. answer' \subseteq stored
      BY <3>1, <3>2
    <3> QED
      BY <2>2, <3>3 DEF TypeOK, Query
  <2>3. ASSUME NEW e \in Events, Publish(e) PROVE TypeOK'
    BY <2>3 DEF TypeOK, Publish
  <2>4. ASSUME NEW e \in Events, Hide(e) PROVE TypeOK'
    BY <2>4 DEF TypeOK, Hide
  <2>5. ASSUME Tick PROVE TypeOK'
    BY <2>5, MatchingAssumption DEF MatchingAssumption, TypeOK, Tick
  <2>6. CASE UNCHANGED vars
    BY <2>6 DEF TypeOK, vars
  <2> QED
    BY <2>1, <2>2, <2>3, <2>4, <2>5, <2>6 DEF Next
<1> QED
  BY <1>1, <1>2, PTL DEF Spec

\* What the client has heard since it registered is what interests it.
HeardInv ==
  \A e \in stored \ before : e \in heard <=> \E f \in sub : InterestedIn(f, e)

LEMMA HeardInvariant == Spec => []HeardInv
<1>1. Init => HeardInv
  BY DEF Init, HeardInv
<1>2. TypeOK /\ HeardInv /\ [Next]_vars => HeardInv'
  <2> SUFFICES ASSUME TypeOK, HeardInv, [Next]_vars PROVE HeardInv'
    OBVIOUS
  <2>1. ASSUME NEW r \in Requests, Register(r) PROVE HeardInv'
    BY <2>1 DEF HeardInv, Register
  <2>2. ASSUME Query PROVE HeardInv'
    BY <2>2 DEF HeardInv, Query, InterestedIn
  <2>3. ASSUME NEW e \in Events, Publish(e) PROVE HeardInv'
    BY <2>3 DEF HeardInv, Publish, TypeOK
  <2>4. ASSUME NEW e \in Events, Hide(e) PROVE HeardInv'
    BY <2>4 DEF HeardInv, Hide
  <2>5. ASSUME Tick PROVE HeardInv'
    BY <2>5 DEF HeardInv, Tick
  <2>6. CASE UNCHANGED vars
    BY <2>6 DEF HeardInv, vars
  <2> QED
    BY <2>1, <2>2, <2>3, <2>4, <2>5, <2>6 DEF Next
<1> QED
  BY <1>1, <1>2, TypeCorrect, PTL DEF Spec

\* One who stays subscribed and one who asks later see the same, on either engine
\* and for every clear subscription.
THEOREM LiveAndStoredAgree == Spec => []SameAnswer
<1>1. TypeOK /\ HeardInv => SameAnswer
  <2> SUFFICES ASSUME TypeOK, HeardInv, NEW e \in stored \ before,
                      \A f \in sub : Clear(f, e)
               PROVE  e \in heard <=> \E f \in sub : Selects(f, e)
    BY DEF SameAnswer
  <2>1. \A f \in sub : InterestedIn(f, e) <=> Selects(f, e)
    BY SameSelection DEF TypeOK
  <2> QED
    BY <2>1 DEF HeardInv
<1> QED
  BY <1>1, TypeCorrect, HeardInvariant, PTL

\* A query finds nothing among the newer events that was not sent when it was
\* broadcast.
THEOREM StoredIsPartOfLive == Spec => []FoundIsHeard
<1>1. TypeOK /\ HeardInv => FoundIsHeard
  <2> SUFFICES ASSUME TypeOK, HeardInv, NEW e \in stored \ before, NEW f \in sub,
                      e \in Found(f), NotWider(f)
               PROVE  e \in heard
    BY DEF FoundIsHeard, NotWider
  <2>1. InterestedIn(f, e)
    BY SelectionIsInterest DEF Found, TypeOK
  <2> QED
    BY <2>1 DEF HeardInv
<1> QED
  BY <1>1, TypeCorrect, HeardInvariant, PTL

\* A delegation that was honoured allows the event, on either engine.
THEOREM DelegationsStand == Spec => []DelegationStands
<1>1. TypeOK => DelegationStands
  <2> SUFFICES ASSUME TypeOK, NEW f \in sub, NEW e \in Found(f), NEW S \in f.authors,
                      ~Decodes(S, e.author)
               PROVE  LET d == e.delegations[1] IN
                      /\ d.sig = "good" /\ Decodes(S, d.by)
                      /\ \A i \in DOMAIN d.parts :
                           LET c == d.parts[i][1]
                               x == IF c.field = "kind" THEN e.kind ELSE e.at
                               V == {c.values[n] : n \in DOMAIN c.values} IN
                           /\ c.op = "<" => \A v \in V : x < v
                           /\ c.op = ">" => \A v \in V : x > v
                           /\ c.op = "=" => x \in V
                           /\ c.op = "!" => x \notin V
    BY DEF DelegationStands
  <2> DEFINE d == e.delegations[1]
  <2>1. e \in Events
    BY DEF Found, TypeOK
  <2>2. PostgresAuthorOrDelegator(S, e)
    BY DEF Found, Selects, SqliteSelects, PostgresSelects
  <2>3. PICK k \in DelegatedBy(e) : Decodes(S, k)
    BY <2>2 DEF PostgresAuthorOrDelegator
  <2>4. /\ e.delegations # <<>> /\ d.by = k /\ d.sig = "good"
        /\ Parses(d.parts) /\ AllowsEvent(d.parts, e)
    BY <2>3 DEF DelegatedBy
  <2>5. d \in [by : Keys, sig : {"good", "bad", "malformed"}, parts : Seq(Seq(Condition))]
    <3> DEFINE D == [by : Keys, sig : {"good", "bad", "malformed"}, parts : Seq(Seq(Condition))]
    <3>1. e.delegations \in Seq(D)
      BY <2>1, MatchingAssumption DEF MatchingAssumption
    <3> HIDE DEF D
    <3>2. d \in D
      BY <2>4, <3>1
    <3> QED
      BY <3>2 DEF D
  <2>6. ASSUME NEW i \in DOMAIN d.parts
        PROVE  LET c == d.parts[i][1]
                   x == IF c.field = "kind" THEN e.kind ELSE e.at
                   V == {c.values[n] : n \in DOMAIN c.values} IN
               /\ c.op = "<" => \A v \in V : x < v
               /\ c.op = ">" => \A v \in V : x > v
               /\ c.op = "=" => x \in V
               /\ c.op = "!" => x \notin V
    <3> DEFINE c == d.parts[i][1]
    <3>1. d.parts[i] \in Seq(Condition) /\ d.parts[i] # <<>>
      BY <2>4, <2>5 DEF Parses
    <3>2. c \in Condition
      BY <3>1
    <3>3. c.values \in Seq(Nat)
      BY <3>2 DEF Condition
    <3>4. ConditionAllows(c, e)
      BY <2>4 DEF AllowsEvent
    <3> HIDE DEF c
    <3>5. DOMAIN c.values = 1..Len(c.values) /\ Len(c.values) \in Nat
      BY <3>3
    <3>6. ASSUME c.op = "<" \/ c.op = ">", NEW n \in DOMAIN c.values PROVE n = 1
      <4>1. Len(c.values) = 1
        BY <3>4, <3>6 DEF ConditionAllows
      <4>2. n \in 1..1
        BY <3>5, <3>6, <4>1
      <4> QED
        BY <4>2
    <3> QED
      BY <3>4, <3>6 DEF ConditionAllows, c
  <2> QED
    BY <2>3, <2>4, <2>6
<1> QED
  BY <1>1, TypeCorrect, PTL

-----------------------------------------------------------------------------
(* Limits. The rows of a query are finitely many: what is stored came one   *)
(* event at a time, and a filter has finitely many clauses.                 *)

LEMMA ImageIsFinite ==
  ASSUME NEW S, IsFiniteSet(S), NEW T, NEW g \in [S -> T], T = {g[x] : x \in S}
  PROVE  IsFiniteSet(T)
<1>1. g \in Surjection(S, T)
  BY DEF Surjection
<1> QED
  BY <1>1, FS_Surjection

\* A function is known by its graph, and there are finitely many graphs.
LEMMA FunctionsAreFinite ==
  ASSUME NEW S, NEW T, IsFiniteSet(S), IsFiniteSet(T)
  PROVE  IsFiniteSet([S -> T])
<1> DEFINE graph == [g \in [S -> T] |-> {<<x, g[x]>> : x \in S}]
<1>1. graph \in [[S -> T] -> SUBSET (S \X T)]
  OBVIOUS
<1>2. ASSUME NEW g \in [S -> T], NEW h \in [S -> T], graph[g] = graph[h]
      PROVE  g = h
  <2>1. ASSUME NEW x \in S
        PROVE  g[x] = h[x]
    <3>1. <<x, g[x]>> \in graph[h]
      BY <1>2
    <3>2. PICK y \in S : <<x, g[x]>> = <<y, h[y]>>
      BY <3>1
    <3> QED
      BY <3>2
  <2> QED
    BY <2>1
<1>3. graph \in Injection([S -> T], SUBSET (S \X T))
  BY <1>1, <1>2 DEF Injection, IsInjective
<1>4. IsFiniteSet(SUBSET (S \X T))
  BY FS_Product, FS_SUBSET
<1> QED
  BY <1>3, <1>4, FS_Injection

LEMMA ClausesOfAreFinite ==
  ASSUME NEW q, IsFiniteSet(q.values)
  PROVE  IsFiniteSet(ClausesOf(q))
<1>1. CASE q.op = "or"
  BY <1>1, FS_Singleton DEF ClausesOf
<1>2. CASE q.op # "or"
  <2> DEFINE g == [v \in q.values |-> [name |-> q.name, values |-> {v}]]
  <2>1. ClausesOf(q) = {g[v] : v \in q.values}
    BY <1>2 DEF ClausesOf
  <2>2. g \in [q.values -> {g[v] : v \in q.values}]
    OBVIOUS
  <2> HIDE DEF g
  <2> QED
    BY <2>1, <2>2, ImageIsFinite
<1> QED
  BY <1>1, <1>2

LEMMA ClausesAreFinite ==
  ASSUME NEW r \in RawFilters
  PROVE  IsFiniteSet(Clauses(Parse(r)))
<1>1. /\ IsFiniteSet(DOMAIN r.tags)
      /\ \A i \in DOMAIN r.tags : IsFiniteSet(r.tags[i].values)
  BY MatchingAssumption DEF MatchingAssumption
<1>2. Parse(r).tags = ParsedTags(r)
  BY DEF Parse
<1>3. CASE r.tags = <<>>
  <2>1. Clauses(Parse(r)) = {}
    BY <1>2, <1>3 DEF ParsedTags, Clauses
  <2> QED
    BY <2>1, FS_EmptySet
<1>4. CASE r.tags # <<>>
  <2> DEFINE part(i) == [name |-> r.tags[i].name, op |-> r.tags[i].op,
                         values |-> r.tags[i].values]
  <2>1. PICK last \in SUBSET (DOMAIN r.tags) : ParsedTags(r) = {{part(i) : i \in last}}
    BY <1>4 DEF ParsedTags
  <2> DEFINE g == [i \in last |-> ClausesOf(part(i))]
  <2>2. Clauses(Parse(r)) = UNION {g[i] : i \in last}
    <3>1. PICK P : P = {part(i) : i \in last}
      OBVIOUS
    <3>2. Parse(r).tags = {P}
      BY <1>2, <2>1, <3>1
    <3>3. Clauses(Parse(r)) = UNION {ClausesOf(q) : q \in P}
      BY <3>2 DEF Clauses
    <3> QED
      BY <3>1, <3>3
  <2>3. IsFiniteSet(last)
    BY <1>1, FS_Subset
  <2>4. \A i \in last : IsFiniteSet(g[i])
    BY <1>1, ClausesOfAreFinite
  <2>5. g \in [last -> {g[i] : i \in last}]
    OBVIOUS
  <2> HIDE DEF g
  <2>6. IsFiniteSet({g[i] : i \in last})
    BY <2>3, <2>5, ImageIsFinite
  <2> QED
    BY <2>2, <2>4, <2>6, FS_UNION
<1> QED
  BY <1>3, <1>4

LEMMA RowsAreFinite ==
  ASSUME TypeOK, IsFiniteSet(stored), NEW f \in sub
  PROVE  IsFiniteSet(Found(f)) /\ IsFiniteSet(Rows(f))
<1>1. IsFiniteSet(Found(f)) /\ Found(f) \subseteq Events
  BY FS_Subset DEF Found, TypeOK
<1>2. CASE engine = "sqlite"
  BY <1>1, <1>2, FS_Product, FS_Singleton DEF Rows
<1>3. CASE engine # "sqlite"
  <2>1. IsFiniteSet(Clauses(f))
    BY ClausesAreFinite DEF TypeOK
  <2> DEFINE g == [e \in Found(f) |-> {e} \X Joins(f, e)]
  <2>2. ASSUME NEW e \in Found(f)
        PROVE  IsFiniteSet(g[e])
    <3>1. e.tags \in Seq(Seq(STRING))
      BY <1>1, MatchingAssumption DEF MatchingAssumption
    <3>2. DOMAIN e.tags = 1..Len(e.tags) /\ Len(e.tags) \in Nat
      BY <3>1
    <3>3. IsFiniteSet(DOMAIN e.tags)
      BY <3>2, FS_Interval
    <3>4. IsFiniteSet([Clauses(f) -> DOMAIN e.tags])
      BY <2>1, <3>3, FunctionsAreFinite
    <3>5. IsFiniteSet(Joins(f, e))
      BY <3>4, FS_Subset DEF Joins
    <3> QED
      BY <3>5, FS_Singleton, FS_Product
  <2>3. Rows(f) = UNION {g[e] : e \in Found(f)}
    BY <1>3 DEF Rows
  <2>4. g \in [Found(f) -> {g[e] : e \in Found(f)}]
    OBVIOUS
  <2> HIDE DEF g
  <2>5. IsFiniteSet({g[e] : e \in Found(f)})
    BY <1>1, <2>4, ImageIsFinite
  <2>6. IsFiniteSet(Rows(f))
    BY <2>2, <2>3, <2>5, FS_UNION
  <2> QED
    BY <1>1, <2>6
<1> QED
  BY <1>1, <1>2, <1>3

\* The rows are of the events that are found, and of each of them there is one.
LEMMA RowsOfFound ==
  ASSUME NEW f, engine \in Engines
  PROVE  /\ \A a \in Rows(f) : a[1] \in Found(f)
         /\ \A e \in Found(f) : \E a \in Rows(f) : a[1] = e
         /\ engine = "sqlite" => \A a, b \in Rows(f) : a[1] = b[1] => a = b
<1>1. CASE engine = "sqlite"
  <2>1. Rows(f) = Found(f) \X {<<>>}
    BY <1>1 DEF Rows
  <2>2. ASSUME NEW e \in Found(f)
        PROVE  \E a \in Rows(f) : a[1] = e
    <3>1. <<e, <<>>>> \in Rows(f)
      BY <2>1
    <3> QED
      BY <3>1
  <2> QED
    BY <2>1, <2>2
<1>2. CASE engine # "sqlite"
  <2>1. Rows(f) = UNION {{e} \X Joins(f, e) : e \in Found(f)}
    BY <1>2 DEF Rows
  <2>2. \A a \in Rows(f) : a[1] \in Found(f)
    BY <2>1
  <2>3. ASSUME NEW e \in Found(f)
        PROVE  \E a \in Rows(f) : a[1] = e
    <3>1. PICK j : j \in Joins(f, e)
      BY <1>2 DEF Found, Selects, PostgresSelects
    <3>2. <<e, j>> \in Rows(f)
      BY <2>1, <3>1
    <3> QED
      BY <3>2
  <2> QED
    BY <1>2, <2>2, <2>3
<1> QED
  BY <1>1, <1>2

\* A cut of rows with different events: who is not in it has as many newer ones.
LEMMA CutKeepsNewest ==
  ASSUME NEW R, IsFiniteSet(R), NEW F, IsFiniteSet(F), \A g \in F : g.at \in Nat,
         \A a \in R : a[1] \in F,
         \A a, b \in R : a[1] = b[1] => a = b,
         NEW n \in Nat, NEW A \in CutNewest(R, n), NEW b \in R, b \notin A
  PROVE  Cardinality({g \in F : g.at >= b[1].at}) > n
<1> DEFINE G == {g \in F : g.at >= b[1].at}
           first == [a \in A |-> a[1]]
<1>1. /\ A \subseteq R
      /\ Cardinality(A) = IF Cardinality(R) < n THEN Cardinality(R) ELSE n
      /\ \A a \in A : a[1].at >= b[1].at
  BY DEF CutNewest
<1>2. IsFiniteSet(A) /\ IsFiniteSet(G)
  BY <1>1, FS_Subset
<1>3. first \in [A -> G \ {b[1]}]
  <2>1. ASSUME NEW a \in A
        PROVE  a[1] \in G \ {b[1]}
    <3>1. a \in R /\ a # b
      BY <1>1
    <3> QED
      BY <1>1, <3>1
  <2> QED
    BY <2>1
<1>4. first \in Injection(A, G \ {b[1]})
  <2>1. \A x, y \in A : first[x] = first[y] => x = y
    BY <1>1
  <2> QED
    BY <1>3, <2>1 DEF Injection, IsInjective
<1>5. b[1] \in G
  OBVIOUS
<1> HIDE DEF G, first
<1>6. /\ IsFiniteSet(G \ {b[1]})
      /\ Cardinality(G \ {b[1]}) = Cardinality(G) - 1
  BY <1>2, <1>5, FS_RemoveElement
<1>7. Cardinality(A) <= Cardinality(G \ {b[1]})
  BY <1>4, <1>6, FS_Injection
<1>8. Cardinality(A) # Cardinality(R)
  BY <1>1, FS_Subset
<1>9. Cardinality(A) \in Nat /\ Cardinality(G) \in Nat
  BY <1>2, FS_CardinalityType
<1>10. Cardinality(G) > n
  BY <1>1, <1>6, <1>7, <1>8, <1>9
<1> QED
  BY <1>10 DEF G

\* A cut at no less than there are rows leaves them all.
LEMMA CutLeavesAll ==
  ASSUME NEW R, IsFiniteSet(R), NEW m \in Nat, Cardinality(R) <= m, NEW A \in SUBSET R,
         Cardinality(A) = IF Cardinality(R) < m THEN Cardinality(R) ELSE m
  PROVE  A = R
<1>1. Cardinality(R) \in Nat
  BY FS_CardinalityType
<1>2. Cardinality(R) = Cardinality(A)
  BY <1>1
<1> QED
  BY <1>2, FS_Subset

\* Where every event makes a single row, rows of one event are one.
LEMMA SingleRowsDiffer ==
  ASSUME NEW f, engine \in Engines, IsFiniteSet(Rows(f)), SingleRows(f)
  PROVE  \A a, b \in Rows(f) : a[1] = b[1] => a = b
<1> DEFINE first == [a \in Rows(f) |-> a[1]]
<1>1. first \in Surjection(Rows(f), Found(f))
  BY RowsOfFound DEF Surjection
<1>2. first \in Injection(Rows(f), Found(f))
  BY <1>1, FS_Surjection DEF SingleRows
<1>3. \A a, b \in Rows(f) : first[a] = first[b] => a = b
  BY <1>2 DEF Injection, IsInjective
<1> QED
  BY <1>3

\* An answer leaves out a row of a found event only if the limit does.
LEMMA AnswerKeepsNewest ==
  ASSUME TypeOK, IsFiniteSet(stored), NEW f \in sub, NEW A \in Answers(f),
         NEW e \in Found(f), \A a \in A : a[1] # e,
         engine = "postgres" => SingleRows(f) /\ ~(Cardinality(Rows(f)) > MaxRows)
  PROVE  \E n \in f.limit : Cardinality({g \in Found(f) : g.at >= e.at}) > n
<1>1. engine \in Engines /\ (engine = "sqlite" \/ engine = "postgres") /\ MaxRows \in Nat
  BY MatchingAssumption DEF MatchingAssumption, TypeOK
<1>2. IsFiniteSet(Rows(f)) /\ IsFiniteSet(Found(f)) /\ Cardinality(Rows(f)) \in Nat
  BY RowsAreFinite, FS_CardinalityType
<1>3. /\ \A a \in Rows(f) : a[1] \in Found(f)
      /\ \A a, b \in Rows(f) : a[1] = b[1] => a = b
  BY <1>1, <1>2, RowsOfFound, SingleRowsDiffer
<1>4. PICK b \in Rows(f) : b[1] = e
  BY <1>1, RowsOfFound
<1>5. b \notin A
  BY <1>4
<1>6. f.limit \subseteq Nat
  BY MatchingAssumption DEF MatchingAssumption, TypeOK, Parse, Kept
<1>7. \A g \in Found(f) : g.at \in Nat
  BY MatchingAssumption DEF MatchingAssumption, Found, TypeOK
<1>8. ASSUME engine = "postgres", A \in SUBSET Rows(f),
             Cardinality(A) = IF Cardinality(Rows(f)) < MaxRows THEN Cardinality(Rows(f))
                              ELSE MaxRows
      PROVE  FALSE
  BY <1>1, <1>2, <1>4, <1>5, <1>8, CutLeavesAll
<1>9. CASE f.limit = {}
  <2>1. CASE engine = "sqlite"
    BY <1>4, <1>5, <1>9, <2>1 DEF Answers
  <2>2. CASE engine = "postgres"
    BY <1>8, <1>9, <2>2 DEF Answers
  <2> QED
    BY <1>1, <2>1, <2>2
<1>10. CASE f.limit # {}
  <2>1. PICK n \in f.limit :
          A \in CutNewest(Rows(f), IF engine = "postgres" /\ n > MaxRows THEN MaxRows ELSE n)
    BY <1>10 DEF Answers
  <2>2. ~(engine = "postgres" /\ n > MaxRows)
    BY <1>8, <2>1 DEF CutNewest
  <2>3. n \in Nat /\ A \in CutNewest(Rows(f), n)
    BY <1>6, <2>1, <2>2
  <2>4. Cardinality({g \in Found(f) : g.at >= b[1].at}) > n
    BY <1>2, <1>3, <1>5, <1>7, <2>3, CutKeepsNewest
  <2> QED
    BY <1>4, <2>4
<1> QED
  BY <1>9, <1>10

LEMMA StoreIsFinite == Spec => []IsFiniteSet(stored)
<1>1. Init => IsFiniteSet(stored)
  BY FS_EmptySet DEF Init
<1>2. IsFiniteSet(stored) /\ [Next]_vars => IsFiniteSet(stored)'
  <2> SUFFICES ASSUME IsFiniteSet(stored), [Next]_vars PROVE IsFiniteSet(stored)'
    OBVIOUS
  <2>1. stored' = stored \/ \E e \in Events : stored' = stored \cup {e}
    BY DEF Next, Register, Query, Publish, Hide, Tick, vars
  <2> QED
    BY <2>1, FS_AddElement
<1> QED
  BY <1>1, <1>2, PTL DEF Spec

\* Whatever the filters, the events and the limits, a query leaves out a visible event it
\* selects only if the limit is used up by events that are as new (or PostgreSQL repeats
\* rows or cuts at its own maximum).
THEOREM LimitsKeepTheNewest == Spec => LimitKeepsNewest
<1> DEFINE KeepsNewest == \A f \in sub : \A e \in Found(f) :
             \/ \E n \in f.limit : Cardinality({g \in Found(f) : g.at >= e.at}) > n
             \/ e \in answer'
             \/ engine = "postgres" /\ (~SingleRows(f) \/ Cardinality(Rows(f)) > MaxRows)
<1>1. TypeOK /\ IsFiniteSet(stored) /\ [Next]_vars => [Query => KeepsNewest]_vars
  <2> SUFFICES ASSUME TypeOK, IsFiniteSet(stored), Query,
                      NEW f \in sub, NEW e \in Found(f), e \notin answer',
                      engine = "postgres" =>
                        SingleRows(f) /\ ~(Cardinality(Rows(f)) > MaxRows)
               PROVE  \E n \in f.limit : Cardinality({g \in Found(f) : g.at >= e.at}) > n
    OBVIOUS
  <2>1. PICK A : /\ A[f] \in Answers(f)
                 /\ answer' = {a[1] : a \in UNION {A[g] : g \in sub}}
    BY DEF Query
  <2>2. \A a \in A[f] : a[1] # e
    BY <2>1
  <2> QED
    BY <2>1, <2>2, AnswerKeepsNewest
<1> QED
  BY <1>1, TypeCorrect, StoreIsFinite, PTL DEF Spec, LimitKeepsNewest
=============================================================================

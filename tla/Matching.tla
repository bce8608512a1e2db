------------------------------ MODULE Matching ------------------------------
(***************************************************************************)
(* Which events a subscription gets: by the matcher in memory when they    *)
(* are broadcast (subscription.rs, event.rs), and by the SQL that SQLite   *)
(* and PostgreSQL make of the same filters (query_from_filter of each).    *)
(* With it the delegations of NIP-26 (delegation.rs), under which an event *)
(* counts as one of another author.                                        *)
(*                                                                         *)
(* An optional member is a set with no or one element. The text of a key   *)
(* is known by the keys it is a prefix of and by the key it decodes to. A  *)
(* part of a delegation's conditions (between two "&") is the sequence of  *)
(* the conditions in it; what the parser's expression does not match       *)
(* stands between them.                                                    *)
(***************************************************************************)
EXTENDS Integers, Sequences, FiniteSets

CONSTANTS Engines,   (* database.engine: "sqlite", "postgres"                  *)
          Keys,      (* event ids and public keys                             *)
          Events,    (* the events that may be published                      *)
          RawFilters,(* the filters of the clients' requests, as sent         *)
          Requests,  (* the requests, sets of them                            *)
          Letters,   (* the tag names of a single character                   *)
          EvenHex, OddHex, (* the tag values in lower case hex, by length     *)
          MaxRows,   (* the LIMIT of every PostgreSQL query (1000)            *)
          LastStamp, (* the last time PostgreSQL can represent                *)
          LimitScrapers, (* limits.limit_scrapers                             *)
          MaxTime    (* bound on the clock                                    *)

Option(S) == {{}} \cup {{x} : x \in S}

Text == [starts : SUBSET Keys, blob : Option(Keys)]
EmptyText == [starts |-> Keys, blob |-> {}]

Condition == [field : STRING, op : STRING, values : Seq(Nat)]

MatchingAssumption ==
  /\ Engines \subseteq {"sqlite", "postgres"}
  /\ \A e \in Events :
       /\ e.id \in Keys /\ e.author \in Keys
       /\ e.kind \in Nat /\ e.at \in Nat /\ e.exp \in SUBSET Nat
       /\ e.tags \in Seq(Seq(STRING))
       /\ e.delegations \in Seq([by : Keys, sig : {"good", "bad", "malformed"},
                                 parts : Seq(Seq(Condition))])
  /\ \A e, g \in Events : e.id = g.id => e = g
  /\ EvenHex \cap OddHex = {}
  /\ \A r \in RawFilters :
       /\ \A S \in r.ids \cup r.authors : S \subseteq Text
       /\ IsFiniteSet(DOMAIN r.tags)
       /\ \A i \in DOMAIN r.tags : /\ r.tags[i].op \in {"or", "and"}
                                   /\ IsFiniteSet(r.tags[i].values)
       /\ r.limit \subseteq Nat
  /\ Requests \subseteq SUBSET RawFilters
  /\ MaxRows \in Nat /\ LastStamp \in Nat /\ LimitScrapers \in BOOLEAN
  /\ MaxTime \in Nat

ASSUME MatchingAssumption

VARIABLES
  engine,  (* the store of this relay                                         *)
  stored,  (* the events that have been written                               *)
  hidden,  (* those of them a deletion has hidden                             *)
  now,     (* the clock                                                       *)
  phase,   (* of the client: "idle", "registered" or, after its query,        *)
           (* "answered"                                                      *)
  sub,     (* the filters of the client's subscription                        *)
  before,  (* history: what was stored when it was registered                 *)
  heard,   (* history: what it was sent of the broadcasts                     *)
  answer   (* history: what it was sent by its query                          *)

vars == <<engine, stored, hidden, now, phase, sub, before, heard, answer>>

-----------------------------------------------------------------------------
(* The tags of an event                                                     *)

\* The positions of the tags with a value and a name of one character: the only
\* ones in the index of the event and in the table tag.
Searchable(e) == {i \in DOMAIN e.tags : Len(e.tags[i]) > 1 /\ e.tags[i][1] \in Letters}

TagValues(e, name) == {e.tags[i][2] : i \in {j \in Searchable(e) : e.tags[j][1] = name}}

-----------------------------------------------------------------------------
(* Delegation                                                               *)

\* A condition on one field; an order takes exactly one value.
ConditionAllows(c, e) ==
  LET x == IF c.field = "kind" THEN e.kind ELSE e.at IN
  \/ c.op = "<" /\ Len(c.values) = 1 /\ x < c.values[1]
  \/ c.op = ">" /\ Len(c.values) = 1 /\ x > c.values[1]
  \/ c.op = "=" /\ \E i \in DOMAIN c.values : x = c.values[i]
  \/ c.op = "!" /\ \A i \in DOMAIN c.values : x # c.values[i]

\* The expression finds the first condition of a part. Without one, or with
\* another field or operator, the whole query is refused.
Parses(parts) ==
  \A i \in DOMAIN parts :
    /\ parts[i] # <<>>
    /\ parts[i][1].field \in {"kind", "created_at"}
    /\ parts[i][1].op \in {"<", ">", "=", "!"}

\* A variant that is content with one condition.
AllowsEventByOne(parts, e) == \E i \in DOMAIN parts : ConditionAllows(parts[i][1], e)

AllowsEvent(parts, e) == \A i \in DOMAIN parts : ConditionAllows(parts[i][1], e)

\* The first delegation tag decides: signed for this author, and allowing the
\* event.
DelegatedBy(e) ==
  {d \in Keys :
     /\ e.delegations # <<>>
     /\ e.delegations[1].by = d
     /\ e.delegations[1].sig = "good"
     /\ Parses(e.delegations[1].parts)
     /\ AllowsEvent(e.delegations[1].parts, e)}

-----------------------------------------------------------------------------
(* Filters as parsed                                                        *)

\* An element of the wrong type counts as absent.
Kept(r, name, value) == IF name \in r.wrong THEN {} ELSE value

\* Of the keys "#x" and "#x&" for one letter the last one stands.
ParsedTags(r) ==
  LET usable == {i \in DOMAIN r.tags : r.tags[i].ok}
      last == {i \in usable : \A j \in usable : r.tags[j].name = r.tags[i].name => j <= i} IN
  IF r.tags = <<>> THEN {}
  ELSE {{[name |-> r.tags[i].name, op |-> r.tags[i].op, values |-> r.tags[i].values] :
           i \in last}}

Parse(r) ==
  [ids |-> Kept(r, "ids", r.ids), authors |-> Kept(r, "authors", r.authors),
   kinds |-> Kept(r, "kinds", r.kinds), since |-> Kept(r, "since", r.since),
   until |-> Kept(r, "until", r.until), limit |-> Kept(r, "limit", r.limit),
   tags |-> ParsedTags(r)]

\* A prefix that is the empty string fails the whole request.
ParseFails(r) == \E S \in Parse(r).ids \cup Parse(r).authors : EmptyText \in S

\* A request that names less than an id or two of author, kind and tag.
IsScraper(f) ==
  2 * Cardinality(f.ids) + Cardinality(f.authors) + Cardinality(f.kinds)
    + Cardinality(f.tags) < 2

NeedsHistoricalEvents(F) == \E f \in F : f.limit # {0}

-----------------------------------------------------------------------------
(* In memory                                                                *)

PrefixMatch(S, k) == \E t \in S : k \in t.starts

\* A variant that forgets the delegator.
InterestedInAuthor(f, e) == \A S \in f.authors : PrefixMatch(S, e.author)

AuthorsMatch(f, e) ==
  \A S \in f.authors : \E k \in {e.author} \cup DelegatedBy(e) : PrefixMatch(S, k)

\* The event has tags of that letter, and among them one (or) or all (and).
TagIntersects(q, e) ==
  LET vs == TagValues(e, q.name) IN
  /\ vs # {}
  /\ q.op = "or" => q.values \cap vs # {}
  /\ q.op = "and" => q.values \subseteq vs

TagMatch(f, e) == \A T \in f.tags : \A q \in T : TagIntersects(q, e)

InterestedIn(f, e) ==
  /\ \A S \in f.ids : PrefixMatch(S, e.id)
  /\ \A t \in f.since : e.at >= t
  /\ \A t \in f.until : e.at <= t
  /\ \A K \in f.kinds : e.kind \in K
  /\ AuthorsMatch(f, e)
  /\ TagMatch(f, e)

-----------------------------------------------------------------------------
(* In SQL. Every clause (a letter, values) asks for a row of the table tag; *)
(* an "and" makes one clause of each value.                                 *)

ClausesOf(q) ==
  IF q.op = "or" THEN {[name |-> q.name, values |-> q.values]}
  ELSE {[name |-> q.name, values |-> {v}] : v \in q.values}

Clauses(f) == UNION {UNION {ClausesOf(q) : q \in T} : T \in f.tags}

IsTagRow(c, e, i) ==
  i \in Searchable(e) /\ e.tags[i][1] = c.name /\ e.tags[i][2] \in c.values

Decodes(S, k) == \E t \in S : k \in t.blob

\* The clauses that are the same in both engines where the statement is accepted
\* (in PostgreSQL's the id is not qualified, see PostgresFails).
SqlCommon(f, e) ==
  /\ \A S \in f.ids : Decodes(S, e.id)
  /\ \A K \in f.kinds : e.kind \in K
  /\ \A t \in f.since : e.at >= t
  /\ \A t \in f.until : e.at <= t

\* A letter without values is skipped; the delegator is not looked at.
SqliteSelects(f, e) ==
  /\ SqlCommon(f, e)
  /\ \A S \in f.authors : Decodes(S, e.author)
  /\ \A T \in f.tags : \A q \in T :
       q.values = {} \/ \A c \in ClausesOf(q) : \E i \in DOMAIN e.tags : IsTagRow(c, e, i)

\* A value of odd length in lower case hex is stored in the column value and
\* looked for in value_hex, where hex::decode has made NULL of it.
PostgresClause(c) == [name |-> c.name, values |-> c.values \ OddHex]

\* No query is made, or it fails: a letter without values; an "or" of which the
\* hex part is an empty list; ids beside a join, as "id" is then a column of the
\* event and of every joined tag; a time that makes no timestamp (a panic).
PostgresFails(f) ==
  \/ \E T \in f.tags : \E q \in T :
       \/ q.values = {}
       \/ q.op = "or" /\ q.values \cap OddHex # {} /\ q.values \cap EvenHex = {}
  \/ f.ids # {} /\ Clauses(f) # {}
  \/ \E t \in f.since \cup f.until : ~(t <= LastStamp)

\* A variant that does not look at the delegator.
PostgresAuthor(S, e) == Decodes(S, e.author)

PostgresAuthorOrDelegator(S, e) == \E k \in {e.author} \cup DelegatedBy(e) : Decodes(S, k)

\* The joins: a row for every choice of a tag for every clause.
Joins(f, e) ==
  {j \in [Clauses(f) -> DOMAIN e.tags] : \A c \in Clauses(f) :
     IsTagRow(PostgresClause(c), e, j[c])}

PostgresSelects(f, e) ==
  /\ ~PostgresFails(f)
  /\ SqlCommon(f, e)
  /\ \A S \in f.authors : PostgresAuthorOrDelegator(S, e)
  /\ Joins(f, e) # {}

Selects(f, e) == IF engine = "sqlite" THEN SqliteSelects(f, e) ELSE PostgresSelects(f, e)

Visible(e) == e \in stored \ hidden /\ \A x \in e.exp : x > now

Found(f) == {e \in stored : Visible(e) /\ Selects(f, e)}

Rows(f) ==
  IF engine = "sqlite" THEN Found(f) \X {<<>>}
  ELSE UNION {{e} \X Joins(f, e) : e \in Found(f)}

\* A variant that cuts at the wrong end.
CutOldest(R, n) ==
  {A \in SUBSET R : /\ Cardinality(A) = IF Cardinality(R) < n THEN Cardinality(R) ELSE n
                    /\ \A a \in A, b \in R \ A : a[1].at <= b[1].at}

\* ORDER BY created_at DESC LIMIT n; rows of one time come in any order.
CutNewest(R, n) ==
  {A \in SUBSET R : /\ Cardinality(A) = IF Cardinality(R) < n THEN Cardinality(R) ELSE n
                    /\ \A a \in A, b \in R \ A : a[1].at >= b[1].at}

\* The rows a query may return. Without a limit PostgreSQL is asked for the
\* first MaxRows in ascending order.
Answers(f) ==
  IF f.limit # {} THEN
    UNION {CutNewest(Rows(f), IF engine = "postgres" /\ n > MaxRows THEN MaxRows ELSE n) :
             n \in f.limit}
  ELSE IF engine = "sqlite" THEN {Rows(f)}
  ELSE {A \in SUBSET Rows(f) :
          /\ Cardinality(A) = IF Cardinality(Rows(f)) < MaxRows THEN Cardinality(Rows(f))
                              ELSE MaxRows
          /\ \A a \in A, b \in Rows(f) \ A : a[1].at <= b[1].at}

-----------------------------------------------------------------------------
(* The relay and one client                                                 *)

\* A request that parses and is no scraper's is registered; of the others the
\* client is told, and nothing changes. (Filters repeated in a request only
\* repeat rows.)
Register(r) ==
  LET F == {Parse(x) : x \in r} IN
  /\ phase = "idle"
  /\ \A x \in r : ~ParseFails(x)
  /\ ~(LimitScrapers /\ \E f \in F : IsScraper(f))
  /\ sub' = F
  /\ phase' = IF NeedsHistoricalEvents(F) THEN "registered" ELSE "answered"
  /\ before' = stored
  /\ UNCHANGED <<engine, stored, hidden, now, heard, answer>>

\* Every filter has a query of its own.
Query ==
  /\ phase = "registered"
  /\ \E A \in [sub -> SUBSET (UNION {Rows(f) : f \in sub})] :
       /\ \A f \in sub : A[f] \in Answers(f)
       /\ answer' = {a[1] : a \in UNION {A[f] : f \in sub}}
  /\ phase' = "answered"
  /\ UNCHANGED <<engine, stored, hidden, now, sub, before, heard>>

\* An event is written and broadcast. Converting one whose delegation has a
\* malformed signature panics before that.
Publish(e) ==
  /\ e \notin stored
  /\ \A x \in e.exp : x > now
  /\ e.delegations # <<>> => e.delegations[1].sig # "malformed"
  /\ stored' = stored \cup {e}
  /\ heard' = heard \cup {x \in {e} : \E f \in sub : InterestedIn(f, x)}
  /\ UNCHANGED <<engine, hidden, now, phase, sub, before, answer>>

\* A variant that also marks an event which is yet to come.
HideInAdvance(e) ==
  /\ e \notin hidden
  /\ hidden' = hidden \cup {e}
  /\ UNCHANGED <<engine, stored, now, phase, sub, before, heard, answer>>

\* A deletion names the event.
Hide(e) ==
  /\ e \in stored \ hidden
  /\ hidden' = hidden \cup {e}
  /\ UNCHANGED <<engine, stored, now, phase, sub, before, heard, answer>>

Tick ==
  /\ now < MaxTime
  /\ now' = now + 1
  /\ UNCHANGED <<engine, stored, hidden, phase, sub, before, heard, answer>>

Init ==
  /\ engine \in Engines
  /\ stored = {} /\ hidden = {} /\ now = 0
  /\ phase = "idle" /\ sub = {} /\ before = {} /\ heard = {} /\ answer = {}

Next ==
  \/ \E r \in Requests : Register(r)
  \/ Query
  \/ \E e \in Events : Publish(e) \/ Hide(e)
  \/ Tick

Spec == Init /\ [][Next]_vars

-----------------------------------------------------------------------------
(* Properties                                                               *)

\* The state is of the right shape, what was sent is stored, and without a
\* subscription nothing was.
TypeOK ==
  /\ engine \in Engines
  /\ stored \subseteq Events /\ hidden \subseteq stored
  /\ now \in 0..MaxTime
  /\ phase \in {"idle", "registered", "answered"}
  /\ sub \subseteq {Parse(r) : r \in RawFilters}
  /\ phase = "idle" => sub = {} /\ heard = {}
  /\ before \subseteq stored /\ heard \subseteq stored \ before /\ answer \subseteq stored

Whole(t) == \E k \in Keys : t = [starts |-> {k}, blob |-> {k}]

\* The filters and events on which memory and SQL agree: whole keys in lower
\* case, no letter without values, for SQLite no event that is only its
\* delegator's, for PostgreSQL no odd hex, not both ids and tags, and no time out
\* of range.
Clear(f, e) ==
  /\ \A S \in f.ids \cup f.authors : \A t \in S : Whole(t)
  /\ \A T \in f.tags : \A q \in T : q.values # {}
  /\ engine = "sqlite" =>
       DelegatedBy(e) = {} \/ \A S \in f.authors : PrefixMatch(S, e.author)
  /\ engine = "postgres" =>
       /\ \A T \in f.tags : \A q \in T : q.values \cap OddHex = {}
       /\ f.ids = {} \/ Clauses(f) = {}
       /\ \A t \in f.since \cup f.until : t <= LastStamp

\* One who stays subscribed and one who asks the same later see the same: of the
\* visible events published since the registration the matcher in memory has
\* sent those the SQL finds now, whatever the engine.
SameAnswer ==
  \A e \in stored \ before :
    Visible(e) /\ (\A f \in sub : Clear(f, e)) => (e \in heard <=> \E f \in sub : Selects(f, e))

\* For any filter the stored events are part of the live ones: what a query finds
\* the matcher in memory sends too. Upper case hex (which SQL decodes) and a
\* letter without values (which SQLite skips) are the exceptions.
FoundIsHeard ==
  \A e \in stored \ before, f \in sub :
    \/ e \notin Found(f)
    \/ e \in heard
    \/ \E S \in f.ids \cup f.authors : \E t \in S : ~(t.blob \subseteq t.starts)
    \/ engine = "sqlite" /\ \E T \in f.tags : \E q \in T : q.values = {}

\* An event that is found for an author who did not sign it carries this author's
\* delegation, and satisfies every condition of it that is the first of its part.
DelegationStands ==
  \A f \in sub : \A e \in Found(f), S \in f.authors :
    \/ Decodes(S, e.author)
    \/ LET d == e.delegations[1] IN
       /\ d.sig = "good" /\ Decodes(S, d.by)
       /\ \A i \in DOMAIN d.parts :
            LET c == d.parts[i][1]
                x == IF c.field = "kind" THEN e.kind ELSE e.at
                V == {c.values[n] : n \in DOMAIN c.values} IN
            /\ c.op = "<" => \A v \in V : x < v
            /\ c.op = ">" => \A v \in V : x > v
            /\ c.op = "=" => x \in V
            /\ c.op = "!" => x \notin V

\* Every selected event of f makes a single row.
SingleRows(f) == Cardinality(Rows(f)) = Cardinality(Found(f))

\* A limit keeps the newest: a selected event with less than limit others that are
\* as new is in the answer. PostgreSQL, which repeats an event per matching tag
\* and cuts everything at MaxRows, keeps it when neither happens.
LimitKeepsNewest ==
  [][Query => \A f \in sub : \A e \in Found(f) :
       \/ \E n \in f.limit : Cardinality({g \in Found(f) : g.at >= e.at}) > n
       \/ e \in answer'
       \/ engine = "postgres" /\ (~SingleRows(f) \/ Cardinality(Rows(f)) > MaxRows)]_vars
=============================================================================

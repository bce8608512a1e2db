-------------------------- MODULE PostgresStoreProofs --------------------------
(***************************************************************************)
(* Theorems about PostgresStore, for any number of writers. That nothing   *)
(* is lost needs what the transactions are about to do: each of them has,  *)
(* for all rows that it removes, one newer row at their address that it    *)
(* keeps, and no other transaction can remove that one without keeping a   *)
(* newer one still. That the versions of an address are few rests on who   *)
(* owns them: no writer ever leaves two of its own.                        *)
(***************************************************************************)
EXTENDS PostgresStore, FiniteSetTheorems, TLAPS

\* Parameterised events have one "d" tag, with a value.
AllPlain == \A e \in Events : IsPlain(e)

\* Besides, of one address no two events have one created_at.
NoTies == /\ \A e, f \in Events : SameAddress(e, f) /\ e.at = f.at => e = f
          /\ AllPlain

Mine(t) == t.gone \cup t.hid

\* What a transaction has before its statements have done something.
Stages ==
  \A w \in Writers :
    /\ tx[w].at # "idle" => tx[w].of \in Events
    /\ tx[w].at \in {"idle", "insert", "replace", "replacing"} => tx[w].gone = {}
    /\ tx[w].at # "commit" => tx[w].hid = {}

\* The rows that a transaction removes or is about to remove as replaced.
Leaving(t) == IF t.at = "replacing" THEN t.todo \cup t.gone ELSE t.gone

Keeps(k, S) == \A f \in S : SameAddress(f, k) /\ f.at < k.at

Keepers ==
  \A w \in Writers :
    tx[w].at # "idle" =>
      \E k \in answered \cup {tx[w].of} : Keeps(k, Leaving(tx[w]))

----------------------------------------------------------------------------
LEMMA LockedBy ==
  \A w \in Writers : \A x :
    x \in Locked(w) <=> \E v \in Writers \ {w} : x \in Mine(tx[v])
  BY DEF Locked, Mine

LEMMA NoTxTyped ==
  /\ NoTx \in Transactions /\ Mine(NoTx) = {} /\ Leaving(NoTx) = {}
  /\ NoTx.at = "idle" /\ NoTx.gone = {} /\ NoTx.hid = {}
  BY DEF NoTx, Transactions, Mine, Leaving, Places

\* A step of one writer that changes its transaction only.
LEMMA OwnStepTyped ==
  ASSUME TypeOK, Stages, NEW w \in Writers,
         tx' = [tx EXCEPT ![w] = tx'[w]],
         UNCHANGED <<event, hidden, now>>,
         answered \subseteq answered', answered' \subseteq Events,
         tx'[w] \in Transactions,
         tx'[w].at # "idle" => tx'[w].of \in Events,
         tx'[w].at \in {"idle", "insert", "replace", "replacing"} => tx'[w].gone = {},
         tx'[w].at # "commit" => tx'[w].hid = {},
         Mine(tx'[w]) \subseteq event \cup {tx'[w].of},
         Mine(tx'[w]) \cap Locked(w) = {},
         tx'[w].at \notin {"idle", "insert"} =>
           /\ tx'[w].of \notin event
           /\ \A v \in Writers \ {w} : ~(Has(v) /\ tx[v].of = tx'[w].of)
  PROVE  TypeOK' /\ Stages'
<1>1. \A v \in Writers : v # w => tx'[v] = tx[v]
  BY DEF TypeOK
<1>0. tx' \in [Writers -> Transactions]
  BY DEF TypeOK
<1>2. /\ event' \subseteq answered' /\ answered' \subseteq Events
      /\ hidden' \subseteq event' /\ now' \in 0 .. MaxNow
  BY DEF TypeOK
<1>3. ASSUME NEW v \in Writers
      PROVE  Mine(tx'[v]) \subseteq event \cup {tx'[v].of}
  BY <1>1, <1>3 DEF TypeOK, Mine
<1>4. \A u, v \in Writers : u # v => Mine(tx'[u]) \cap Mine(tx'[v]) = {}
  <2>1. \A u, v \in Writers : u # v => Mine(tx[u]) \cap Mine(tx[v]) = {}
    BY LockedBy DEF TypeOK, Mine
  <2>2. \A v \in Writers : v # w => Mine(tx'[w]) \cap Mine(tx[v]) = {}
    BY LockedBy
  <2> QED
    BY <2>1, <2>2, <1>1
<1>5. ASSUME NEW v \in Writers, tx'[v].at \notin {"idle", "insert"}
      PROVE  /\ tx'[v].of \notin event
             /\ \A u \in Writers \ {v} :
                  ~(tx'[u].at \notin {"idle", "insert"} /\ tx'[u].of = tx'[v].of)
  BY <1>1, <1>5 DEF TypeOK, Has
<1>6. \A v \in Writers : Mine(tx'[v]) \cap Locked(v)' = {}
  BY <1>4 DEF Locked, Mine
<1>7. Stages'
  BY <1>1 DEF Stages
<1> QED
  BY <1>0, <1>2, <1>3, <1>5, <1>6, <1>7 DEF TypeOK, Mine, Has

\* What a step of one writer that changes its transaction only must keep of the rest.
LEMMA OwnStepKeeps ==
  ASSUME TypeOK, Keepers, NEW w \in Writers,
         tx' = [tx EXCEPT ![w] = tx'[w]], answered \subseteq answered',
         tx'[w].at # "idle" =>
           \E k \in answered' \cup {tx'[w].of} : Keeps(k, Leaving(tx'[w]))
  PROVE  Keepers'
<1>1. \A v \in Writers : v # w => tx'[v] = tx[v]
  BY DEF TypeOK
<1>2. ASSUME NEW v \in Writers, tx'[v].at # "idle"
      PROVE  \E k \in answered' \cup {tx'[v].of} : Keeps(k, Leaving(tx'[v]))
  <2>1. CASE v = w
    BY <2>1, <1>2
  <2>2. CASE v # w
    <3>1. PICK k \in answered \cup {tx[v].of} : Keeps(k, Leaving(tx[v]))
      BY <2>2, <1>1, <1>2 DEF Keepers
    <3> QED
      BY <3>1, <2>2, <1>1
  <2> QED
    BY <2>1, <2>2
<1> QED
  BY <1>2 DEF Keepers, Keeps, Leaving

----------------------------------------------------------------------------
(* Addresses and the order of versions. *)

LEMMA AddressOrder ==
  /\ \A e, f \in Events : SameAddress(e, f) => SameAddress(f, e)
  /\ \A e, f, g \in Events : SameAddress(e, f) /\ SameAddress(f, g) => SameAddress(e, g)
  /\ \A e, f, g \in Events : Covers(f, e) /\ Covers(g, f) => Covers(g, e)
<1>1. \A e \in Events : e.at \in Nat
  BY EventsAssumption DEF EventsAssumption
<1>2. \A e, f \in Events : SameAddress(e, f) => SameAddress(f, e)
  BY DEF SameAddress, SameAuthorKind, IsReplaceable, IsParamReplaceable
<1>3. \A e, f, g \in Events : SameAddress(e, f) /\ SameAddress(f, g) => SameAddress(e, g)
  BY DEF SameAddress, SameAuthorKind, IsReplaceable, IsParamReplaceable
<1>4. \A e, f, g \in Events : Covers(f, e) /\ Covers(g, f) => Covers(g, e)
  BY <1>1, <1>3 DEF Covers
<1> QED
  BY <1>2, <1>3, <1>4

\* What the replacement queries find is at the address of the event.
LEMMA MatchingIsAddress ==
  ASSUME AllPlain, NEW S \in SUBSET Events, NEW e \in Events
  PROVE  /\ \A f \in Matching(e, S) : SameAddress(e, f) /\ f \in S
         /\ \A f \in Matching(e, S) : IsParamReplaceable(e) =>
              Cardinality(DTagRows(f, DistinctParam(e))) = 1
<1>1. ASSUME NEW f \in Matching(e, S)
      PROVE  /\ SameAddress(e, f) /\ f \in S
             /\ IsParamReplaceable(e) => Cardinality(DTagRows(f, DistinctParam(e))) = 1
  <2>1. f \in S /\ f \in Events /\ SameAuthorKind(e, f)
    BY DEF Matching
  <2>2. CASE IsReplaceable(e)
    BY <2>1, <2>2, EventsAssumption
       DEF SameAddress, IsReplaceable, IsParamReplaceable, EventsAssumption
  <2>3. CASE ~IsReplaceable(e)
    <3>1. IsParamReplaceable(e) /\ DTagRows(f, DistinctParam(e)) # {}
      BY <2>3 DEF Matching
    <3>2. IsParamReplaceable(f)
      BY <2>1, <3>1 DEF SameAuthorKind, IsParamReplaceable
    <3>3. f.ds \in Seq(STRING \cup {NoValue}) /\ Len(f.ds) = 1 /\ f.ds[1] # NoValue
      BY <2>1, <3>2, EventsAssumption DEF AllPlain, IsPlain, EventsAssumption
    <3>4. DOMAIN f.ds = {1}
      BY <3>3
    <3>5. DistinctParam(f) = f.ds[1]
      <4>1. f.ds # <<>>
        BY <3>3
      <4> QED
        BY <3>3, <4>1 DEF DistinctParam
    <3>6. DTagRows(f, DistinctParam(e)) = {1} /\ f.ds[1] = DistinctParam(e)
      BY <3>1, <3>4 DEF DTagRows
    <3>7. Cardinality({1}) = 1
      BY FS_Singleton
    <3> QED
      BY <2>1, <3>1, <3>5, <3>6, <3>7 DEF SameAddress
  <2> QED
    BY <2>2, <2>3
<1> QED
  BY <1>1

\* All rows that a replacement removes are older than the one that it keeps.
LEMMA ReplacedAreOlder ==
  ASSUME NoTies, NEW S \in SUBSET Events, NEW e \in Events,
         NEW first \in NewestOf(Matching(e, S))
  PROVE  first \in S /\ Keeps(first, Replaced(e, S, first))
<1>1. first \in Matching(e, S) /\ \A g \in Matching(e, S) : g.at <= first.at
  BY DEF NewestOf
<1>2. ASSUME NEW f \in Replaced(e, S, first)
      PROVE  SameAddress(f, first) /\ f.at < first.at
  <2>1. f \in Matching(e, S)
    BY DEF Replaced
  <2>2. f # first
    <3>1. IsParamReplaceable(e) => ~(Cardinality(DTagRows(f, DistinctParam(e))) > 1)
      BY <2>1, MatchingIsAddress DEF NoTies
    <3> QED
      BY <3>1 DEF Replaced
  <2>3. f \in Events /\ first \in Events
    BY <1>1, <2>1 DEF Matching
  <2>4. SameAddress(f, first)
    BY <1>1, <2>1, <2>3, MatchingIsAddress, AddressOrder DEF NoTies
  <2>5. f.at <= first.at /\ f.at # first.at /\ f.at \in Int /\ first.at \in Int
    BY <1>1, <2>1, <2>2, <2>3, <2>4, EventsAssumption DEF NoTies, EventsAssumption
  <2> QED
    BY <2>4, <2>5
<1> QED
  BY <1>1, <1>2 DEF Keeps, Matching
----------------------------------------------------------------------------
(* Type correctness. *)

\* What is known of a writer's transaction before its step.
LEMMA OwnTyped ==
  ASSUME TypeOK, Stages, NEW w \in Writers
  PROVE  /\ tx[w] \in Transactions
         /\ Mine(tx[w]) \subseteq event \cup {tx[w].of}
         /\ Mine(tx[w]) \cap Locked(w) = {}
         /\ tx[w].at # "idle" => tx[w].of \in Events
         /\ event \subseteq Events
         /\ Has(w) => /\ tx[w].of \notin event
                      /\ tx[w].of \notin Locked(w)
                      /\ \A v \in Writers \ {w} : ~(Has(v) /\ tx[v].of = tx[w].of)
<1>1. ASSUME Has(w)
      PROVE  tx[w].of \notin Locked(w)
  <2>1. ASSUME NEW v \in Writers \ {w}, tx[w].of \in Mine(tx[v])
        PROVE  FALSE
    <3>1. Has(v)
      BY <2>1 DEF Stages, Has, Mine
    <3> QED
      BY <1>1, <2>1, <3>1 DEF TypeOK, Mine
  <2> QED
    BY <2>1, LockedBy
<1> QED
  BY <1>1 DEF TypeOK, Stages, Mine

\* write_event returns without having changed a row.
LEMMA ReturnTyped ==
  ASSUME TypeOK, Stages, NEW w \in Writers, NEW e \in Events,
         tx' = [tx EXCEPT ![w] = NoTx], answered' \in {answered, answered \cup {e}},
         UNCHANGED <<event, hidden, now>>
  PROVE  TypeOK' /\ Stages'
<1>1. tx'[w] = NoTx
  BY DEF TypeOK
<1>2. answered \subseteq answered' /\ answered' \subseteq Events
  BY DEF TypeOK
<1> QED
  BY <1>1, <1>2, NoTxTyped, OwnStepTyped

LEMMA BeginTyped ==
  ASSUME TypeOK, Stages, NEW w \in Writers, NEW e \in Calls[w], Begin(w, e)
  PROVE  TypeOK' /\ Stages'
<1>1. e \in Events
  BY PostgresAssumption DEF PostgresAssumption
<1>2. CASE IsShadowed(e)
  BY <1>1, <1>2, ReturnTyped DEF Begin, Return, Continue
<1>3. CASE ~IsShadowed(e)
  <2>0. /\ tx' = [tx EXCEPT ![w] = [NoTx EXCEPT !.of = e, !.at = "insert"]]
        /\ UNCHANGED <<event, hidden, now, answered>>
    BY <1>3 DEF Begin, Continue
  <2>1. tx'[w] = [NoTx EXCEPT !.of = e, !.at = "insert"]
    BY <2>0 DEF TypeOK
  <2>2. /\ tx'[w] \in Transactions /\ Mine(tx'[w]) = {}
        /\ tx'[w].at = "insert" /\ tx'[w].of = e /\ tx'[w].gone = {} /\ tx'[w].hid = {}
    BY <1>1, <2>1 DEF NoTx, Transactions, Places, Mine
  <2>3. /\ tx' = [tx EXCEPT ![w] = tx'[w]]
        /\ UNCHANGED <<event, hidden, now, answered>>
    BY <2>0, <2>1
  <2>4. answered' \subseteq Events
    BY <2>3 DEF TypeOK
  <2> QED
    BY <1>1, <2>2, <2>3, <2>4, OwnStepTyped
<1> QED
  BY <1>2, <1>3

LEMMA InsertTyped ==
  ASSUME TypeOK, Stages, NEW w \in Writers, Insert(w)
  PROVE  TypeOK' /\ Stages'
<1>1. tx[w].of \in Events /\ tx[w].at = "insert" /\ tx[w] \in Transactions
  BY OwnTyped DEF Insert
<1>2. CASE tx[w].of \in event
  BY <1>1, <1>2, ReturnTyped DEF Insert, Return, Continue
<1>3. CASE tx[w].of \notin event
  <2>1. /\ tx'[w] = [tx[w] EXCEPT !.at = "replace"]
        /\ tx' = [tx EXCEPT ![w] = tx'[w]]
        /\ UNCHANGED <<event, hidden, now, answered>>
    BY <1>3 DEF Insert, Continue, TypeOK
  <2>2. tx[w].gone = {} /\ tx[w].hid = {}
    BY <1>1 DEF Stages
  <2>3. tx'[w] \in Transactions
    BY <1>1, <2>1 DEF Transactions, Places
  <2>4. tx'[w].of = tx[w].of /\ tx'[w].at = "replace" /\ tx'[w].gone = {} /\ tx'[w].hid = {}
    BY <1>1, <2>1, <2>2 DEF Transactions
  <2>5. Mine(tx'[w]) = {}
    BY <2>4 DEF Mine
  <2>6. \A v \in Writers \ {w} : ~(Has(v) /\ tx[v].of = tx[w].of)
    BY DEF Insert
  <2>7. answered' \subseteq Events
    BY <2>1 DEF TypeOK
  <2> QED
    BY <1>1, <1>3, <2>1, <2>3, <2>4, <2>5, <2>6, <2>7, OwnStepTyped
<1> QED
  BY <1>2, <1>3

\* A statement after the INSERT, which changes the transaction only.
LEMMA StatementTyped ==
  ASSUME TypeOK, Stages, NEW w \in Writers, Has(w),
         tx' = [tx EXCEPT ![w] = tx'[w]],
         UNCHANGED <<event, hidden, now, answered>>,
         tx'[w] \in Transactions, tx'[w].of = tx[w].of,
         tx'[w].at \notin {"idle", "insert"},
         tx'[w].at \in {"replace", "replacing"} => tx'[w].gone = {},
         tx'[w].at # "commit" => tx'[w].hid = {},
         Mine(tx'[w]) \subseteq event \cup {tx[w].of},
         Mine(tx'[w]) \cap Locked(w) = {}
  PROVE  TypeOK' /\ Stages'
<1>1. answered' \subseteq Events
  BY DEF TypeOK
<1>2. tx[w].of \in Events
  BY OwnTyped DEF Has
<1> QED
  BY <1>1, <1>2, OwnTyped, OwnStepTyped

LEMMA ReplaceTyped ==
  ASSUME TypeOK, Stages, NEW w \in Writers, Replace(w)
  PROVE  TypeOK' /\ Stages'
<1>1. tx[w] \in Transactions /\ Has(w) /\ tx[w].at = "replace"
  BY OwnTyped DEF Replace, Has
<1>2. tx[w].of \in Events /\ event \subseteq Events
  BY <1>1, OwnTyped
<1>3. tx[w].gone = {} /\ tx[w].hid = {}
  BY <1>1 DEF Stages
<1>4. PICK T \in SUBSET Events, at \in {"replacing", "delete"} :
        tx' = [tx EXCEPT ![w] = [tx[w] EXCEPT !.at = at, !.todo = T]]
  <2> DEFINE e == tx[w].of
             rows == event \cup {e}
  <2>1. CASE IsReplaceable(e) \/ IsParamReplaceable(e)
    <3>1. PICK first :
            tx' = [tx EXCEPT ![w] = [tx[w] EXCEPT !.at = "replacing",
                                                  !.todo = Replaced(e, rows, first)]]
      BY <2>1 DEF Replace, Continue
    <3>2. Replaced(e, rows, first) \in SUBSET Events
      BY <1>2 DEF Replaced, Matching
    <3> QED
      BY <3>1, <3>2
  <2>2. CASE ~(IsReplaceable(e) \/ IsParamReplaceable(e))
    <3>1. tx' = [tx EXCEPT ![w] = [tx[w] EXCEPT !.at = "delete"]]
      BY <2>2 DEF Replace, Continue
    <3>2. [tx[w] EXCEPT !.at = "delete"] = [tx[w] EXCEPT !.at = "delete", !.todo = tx[w].todo]
      BY <1>1 DEF Transactions
    <3>3. tx[w].todo \in SUBSET Events
      BY <1>1 DEF Transactions
    <3> QED
      BY <3>1, <3>2, <3>3
  <2> QED
    BY <2>1, <2>2
<1>5. tx'[w] = [tx[w] EXCEPT !.at = at, !.todo = T]
  BY <1>4 DEF TypeOK
<1>6. tx'[w] \in Transactions
  BY <1>1, <1>5 DEF Transactions, Places
<1>7. tx'[w].of = tx[w].of /\ tx'[w].at = at /\ tx'[w].gone = {} /\ tx'[w].hid = {}
  BY <1>1, <1>3, <1>5 DEF Transactions
<1>8. Mine(tx'[w]) = {}
  BY <1>7 DEF Mine
<1>9. UNCHANGED <<event, hidden, now, answered>> /\ tx' = [tx EXCEPT ![w] = tx'[w]]
  BY <1>4, <1>5 DEF Replace
<1> QED
  BY <1>1, <1>6, <1>7, <1>8, <1>9, StatementTyped

LEMMA FinishReplaceTyped ==
  ASSUME TypeOK, Stages, NEW w \in Writers, FinishReplace(w)
  PROVE  TypeOK' /\ Stages'
<1> DEFINE R == tx[w].todo \cap (event \cup {tx[w].of})
<1>1. tx[w] \in Transactions /\ Has(w) /\ tx[w].at = "replacing"
  BY OwnTyped DEF FinishReplace, Has
<1>2. tx[w].hid = {} /\ R \in SUBSET Events
  BY <1>1 DEF Stages, Transactions
<1>3. /\ tx' = [tx EXCEPT ![w] = [tx[w] EXCEPT !.at = "delete", !.todo = {}, !.gone = R]]
      /\ UNCHANGED <<event, hidden, now, answered>>
  BY DEF FinishReplace, Continue
<1>4. tx'[w] = [tx[w] EXCEPT !.at = "delete", !.todo = {}, !.gone = R]
  BY <1>3 DEF TypeOK
<1>5. tx'[w] \in Transactions
  BY <1>1, <1>2, <1>4 DEF Transactions, Places
<1>6. tx'[w].of = tx[w].of /\ tx'[w].at = "delete" /\ tx'[w].gone = R /\ tx'[w].hid = {}
  BY <1>1, <1>2, <1>4 DEF Transactions
<1>7. Mine(tx'[w]) = R
  BY <1>6 DEF Mine
<1>8. R \cap Locked(w) = {}
  BY DEF FinishReplace
<1> QED
  BY <1>1, <1>3, <1>4, <1>5, <1>6, <1>7, <1>8, StatementTyped

LEMMA DeleteTyped ==
  ASSUME TypeOK, Stages, NEW w \in Writers, Delete(w)
  PROVE  TypeOK' /\ Stages'
<1> DEFINE e == tx[w].of
<1>1. tx[w] \in Transactions /\ Has(w) /\ tx[w].at = "delete"
  BY OwnTyped DEF Delete, Has
<1>2. /\ e \in Events /\ event \subseteq Events /\ e \notin Locked(w)
      /\ tx[w].gone \subseteq event \cup {e} /\ tx[w].gone \cap Locked(w) = {}
  BY <1>1, OwnTyped DEF Mine
<1>3. tx[w].hid = {}
  BY <1>1 DEF Stages
<1>4. UNCHANGED <<event, hidden, now, answered>>
  BY DEF Delete
<1>5. CASE IsDeletion(e)
  <2> DEFINE T == {f \in event \cup {e} : IsDeletedBy(f, e)}
  <2>1. tx' = [tx EXCEPT ![w] = [tx[w] EXCEPT !.at = "hiding", !.todo = T]]
    BY <1>5 DEF Delete, Continue
  <2>2. tx'[w] = [tx[w] EXCEPT !.at = "hiding", !.todo = T]
    BY <2>1 DEF TypeOK
  <2>3. T \in SUBSET Events
    BY <1>2
  <2>4. tx'[w] \in Transactions
    BY <1>1, <2>2, <2>3 DEF Transactions, Places
  <2>5. tx'[w].of = e /\ tx'[w].at = "hiding" /\ tx'[w].gone = tx[w].gone /\ tx'[w].hid = {}
    BY <1>1, <1>3, <2>2 DEF Transactions
  <2>6. Mine(tx'[w]) = tx[w].gone
    BY <2>5 DEF Mine
  <2> QED
    BY <1>1, <1>2, <1>4, <2>1, <2>2, <2>4, <2>5, <2>6, StatementTyped
<1>6. CASE ~IsDeletion(e)
  <2>1. PICK H \in SUBSET {e} :
          tx' = [tx EXCEPT ![w] = [tx[w] EXCEPT !.at = "commit", !.hid = H]]
    BY <1>6 DEF Delete, Continue
  <2>2. tx'[w] = [tx[w] EXCEPT !.at = "commit", !.hid = H]
    BY <2>1 DEF TypeOK
  <2>3. H \in SUBSET Events
    BY <1>2
  <2>4. tx'[w] \in Transactions
    BY <1>1, <2>2, <2>3 DEF Transactions, Places
  <2>5. tx'[w].of = e /\ tx'[w].at = "commit" /\ tx'[w].gone = tx[w].gone /\ tx'[w].hid = H
    BY <1>1, <2>2 DEF Transactions
  <2>6. Mine(tx'[w]) = tx[w].gone \cup H
    BY <2>5 DEF Mine
  <2> QED
    BY <1>1, <1>2, <1>4, <2>1, <2>2, <2>4, <2>5, <2>6, StatementTyped
<1> QED
  BY <1>5, <1>6

LEMMA FinishDeleteTyped ==
  ASSUME TypeOK, Stages, NEW w \in Writers, FinishDelete(w)
  PROVE  TypeOK' /\ Stages'
<1> DEFINE H == tx[w].todo \cap event
<1>1. tx[w] \in Transactions /\ Has(w) /\ tx[w].at = "hiding"
  BY OwnTyped DEF FinishDelete, Has
<1>2. /\ H \in SUBSET Events
      /\ tx[w].gone \subseteq event \cup {tx[w].of} /\ tx[w].gone \cap Locked(w) = {}
  BY <1>1, OwnTyped DEF Transactions, Mine
<1>3. /\ tx' = [tx EXCEPT ![w] = [tx[w] EXCEPT !.at = "commit", !.todo = {}, !.hid = H]]
      /\ UNCHANGED <<event, hidden, now, answered>>
  BY DEF FinishDelete, Continue
<1>4. tx'[w] = [tx[w] EXCEPT !.at = "commit", !.todo = {}, !.hid = H]
  BY <1>3 DEF TypeOK
<1>5. tx'[w] \in Transactions
  BY <1>1, <1>2, <1>4 DEF Transactions, Places
<1>6. tx'[w].of = tx[w].of /\ tx'[w].at = "commit" /\ tx'[w].gone = tx[w].gone /\ tx'[w].hid = H
  BY <1>1, <1>4 DEF Transactions
<1>7. Mine(tx'[w]) = tx[w].gone \cup H
  BY <1>6 DEF Mine
<1>8. H \cap Locked(w) = {}
  BY DEF FinishDelete
<1> QED
  BY <1>1, <1>2, <1>3, <1>4, <1>5, <1>6, <1>7, <1>8, StatementTyped

LEMMA FailTyped ==
  ASSUME TypeOK, Stages, NEW w \in Writers, Fail(w)
  PROVE  TypeOK' /\ Stages'
BY OwnTyped, ReturnTyped DEF Fail, Continue

LEMMA CommitTyped ==
  ASSUME TypeOK, Stages, NEW w \in Writers, Commit(w)
  PROVE  TypeOK' /\ Stages'
<1> DEFINE e == tx[w].of
<1>1. /\ tx[w] \in Transactions /\ e \in Events /\ Has(w)
      /\ \A v \in Writers \ {w} : ~(Has(v) /\ tx[v].of = e)
  BY OwnTyped DEF Commit, Has
<1>2. /\ event' = (event \cup {e}) \ tx[w].gone
      /\ hidden' = (hidden \cup tx[w].hid) \cap event'
      /\ answered' = answered \cup {e} /\ now' = now
      /\ tx' = [tx EXCEPT ![w] = NoTx]
  BY DEF Commit, Return, Continue
<1>3. tx'[w] = NoTx /\ \A v \in Writers : v # w => tx'[v] = tx[v]
  BY <1>2 DEF TypeOK
<1>4. /\ event' \subseteq answered' /\ answered' \subseteq Events
      /\ hidden' \subseteq event' /\ now' \in 0 .. MaxNow
  BY <1>1, <1>2 DEF TypeOK
<1>5. tx' \in [Writers -> Transactions]
  BY <1>2, NoTxTyped DEF TypeOK
<1>6. \A u, v \in Writers : u # v => Mine(tx[u]) \cap Mine(tx[v]) = {}
  BY LockedBy DEF TypeOK, Mine
<1>7. \A v \in Writers : Mine(tx'[v]) \cap Locked(v)' = {}
  <2>1. \A u, v \in Writers : u # v => Mine(tx'[u]) \cap Mine(tx'[v]) = {}
    BY <1>3, <1>6, NoTxTyped
  <2> QED
    BY <2>1 DEF Locked, Mine
<1>8. ASSUME NEW v \in Writers
      PROVE  Mine(tx'[v]) \subseteq event' \cup {tx'[v].of}
  <2>1. CASE v = w
    BY <2>1, <1>3, NoTxTyped
  <2>2. CASE v # w
    <3>1. Mine(tx[v]) \subseteq event \cup {tx[v].of} /\ Mine(tx[v]) \cap tx[w].gone = {}
      BY <2>2, <1>6 DEF TypeOK, Mine
    <3> QED
      BY <2>2, <3>1, <1>2, <1>3
  <2> QED
    BY <2>1, <2>2
<1>9. ASSUME NEW v \in Writers, tx'[v].at \notin {"idle", "insert"}
      PROVE  /\ tx'[v].of \notin event'
             /\ \A u \in Writers \ {v} :
                  ~(tx'[u].at \notin {"idle", "insert"} /\ tx'[u].of = tx'[v].of)
  <2>1. v # w /\ Has(v) /\ tx'[v] = tx[v]
    BY <1>3, <1>9, NoTxTyped DEF Has
  <2>2. /\ tx[v].of \notin event /\ tx[v].of # e
        /\ \A u \in Writers \ {v} : ~(Has(u) /\ tx[u].of = tx[v].of)
    BY <2>1, <1>1 DEF TypeOK
  <2> QED
    BY <2>1, <2>2, <1>2, <1>3, NoTxTyped DEF Has
<1>10. Stages'
  BY <1>3, NoTxTyped DEF Stages
<1> QED
  BY <1>4, <1>5, <1>7, <1>8, <1>9, <1>10 DEF TypeOK, Mine, Has

LEMMA DeleteExpiredTyped ==
  ASSUME TypeOK, Stages, DeleteExpired
  PROVE  TypeOK' /\ Stages'
<1> DEFINE expired == {e \in event : IsExpired(e)}
<1>1. /\ event' = event \ expired /\ hidden' = hidden \ expired
      /\ UNCHANGED <<tx, answered, now>>
      /\ \A w \in Writers : Mine(tx[w]) \cap expired = {}
  BY DEF DeleteExpired, Mine
<1> QED
  BY <1>1 DEF TypeOK, Mine, Locked, Has, Stages

LEMMA TickTyped ==
  ASSUME TypeOK, Stages, Tick
  PROVE  TypeOK' /\ Stages'
<1>1. now \in 0 .. MaxNow /\ now < MaxNow /\ MaxNow \in Nat /\ now' = now + 1
  BY PostgresAssumption DEF Tick, TypeOK, PostgresAssumption
<1>2. now' \in 0 .. MaxNow
  BY <1>1
<1> QED
  BY <1>2 DEF Tick, TypeOK, Locked, Has, Stages

LEMMA NextTyped ==
  ASSUME TypeOK, Stages, [Next]_vars
  PROVE  TypeOK' /\ Stages'
<1>1. CASE UNCHANGED vars
  BY <1>1 DEF vars, TypeOK, Locked, Has, Stages
<1>2. ASSUME NEW w \in Writers, WriterStep(w)
      PROVE  TypeOK' /\ Stages'
  BY <1>2, BeginTyped, InsertTyped, ReplaceTyped, FinishReplaceTyped, DeleteTyped,
     FinishDeleteTyped, CommitTyped, FailTyped DEF WriterStep
<1> QED
  BY <1>1, <1>2, DeleteExpiredTyped, TickTyped DEF Next

LEMMA InitTyped ==
  Init => TypeOK /\ Stages
<1>1. 0 \in 0 .. MaxNow
  BY PostgresAssumption DEF PostgresAssumption
<1> SUFFICES ASSUME Init PROVE TypeOK /\ Stages
  OBVIOUS
<1>2. tx \in [Writers -> Transactions] /\ \A w \in Writers : tx[w] = NoTx
  BY NoTxTyped DEF Init
<1>3. \A w \in Writers : tx[w].at = "idle" /\ tx[w].gone = {} /\ tx[w].hid = {}
  BY <1>2, NoTxTyped
<1> QED
  BY <1>1, <1>2, <1>3 DEF Init, TypeOK, Has, Stages

\* The transactions of any number of writers keep the types: no row is changed by two
\* of them, no id is inserted twice, every row in the table was answered for.
THEOREM TypeCorrect == Spec => []TypeOK
<1>1. Init => TypeOK /\ Stages
  BY InitTyped
<1>2. TypeOK /\ Stages /\ [Next]_vars => TypeOK' /\ Stages'
  BY NextTyped
<1> QED
  BY <1>1, <1>2, PTL DEF Spec

----------------------------------------------------------------------------
(* Nothing is lost. *)

LEMMA ReplaceKeeps ==
  ASSUME NoTies, TypeOK, Stages, Keepers, NEW w \in Writers, Replace(w)
  PROVE  Keepers'
<1> DEFINE e == tx[w].of
           rows == event \cup {e}
<1>1. tx[w] \in Transactions /\ tx[w].gone = {} /\ e \in Events /\ rows \in SUBSET Events
  BY OwnTyped DEF Replace, Stages
<1>2. answered' = answered /\ event \subseteq answered
  BY DEF Replace, TypeOK
<1>3. CASE IsReplaceable(e) \/ IsParamReplaceable(e)
  <2>1. PICK first \in IF Matching(e, rows) = {} THEN {e} ELSE NewestOf(Matching(e, rows)) :
          tx' = [tx EXCEPT ![w] = [tx[w] EXCEPT !.at = "replacing",
                                                !.todo = Replaced(e, rows, first)]]
    BY <1>3 DEF Replace, Continue
  <2>2. tx'[w] = [tx[w] EXCEPT !.at = "replacing", !.todo = Replaced(e, rows, first)]
    BY <2>1 DEF TypeOK
  <2>3. Leaving(tx'[w]) = Replaced(e, rows, first) /\ tx'[w].of = e
    BY <1>1, <2>2 DEF Leaving, Transactions
  <2>4. first \in rows /\ Keeps(first, Replaced(e, rows, first))
    <3>1. CASE Matching(e, rows) = {}
      BY <3>1, <2>1 DEF Replaced, Keeps
    <3>2. CASE Matching(e, rows) # {}
      BY <3>2, <2>1, <1>1, ReplacedAreOlder
    <3> QED
      BY <3>1, <3>2
  <2>5. tx' = [tx EXCEPT ![w] = tx'[w]]
    BY <2>1, <2>2
  <2> QED
    BY <1>2, <2>3, <2>4, <2>5, OwnStepKeeps
<1>4. CASE ~(IsReplaceable(e) \/ IsParamReplaceable(e))
  <2>1. tx' = [tx EXCEPT ![w] = [tx[w] EXCEPT !.at = "delete"]]
    BY <1>4 DEF Replace, Continue
  <2>2. tx'[w] = [tx[w] EXCEPT !.at = "delete"]
    BY <2>1 DEF TypeOK
  <2>3. Leaving(tx'[w]) = {} /\ tx'[w].of = e
    BY <1>1, <2>2 DEF Leaving, Transactions
  <2>4. Keeps(e, Leaving(tx'[w])) /\ tx' = [tx EXCEPT ![w] = tx'[w]]
    BY <2>1, <2>2, <2>3 DEF Keeps
  <2> QED
    BY <1>2, <2>3, <2>4, OwnStepKeeps
<1> QED
  BY <1>3, <1>4

\* A later statement removes no more rows than the transaction was to remove.
LEMMA StatementKeeps ==
  ASSUME TypeOK, Stages, Keepers, NEW w \in Writers, tx[w].at # "idle",
         tx' = [tx EXCEPT ![w] = tx'[w]], answered' = answered,
         tx'[w].of = tx[w].of, Leaving(tx'[w]) \subseteq Leaving(tx[w])
  PROVE  Keepers'
<1>1. PICK k \in answered \cup {tx[w].of} : Keeps(k, Leaving(tx[w]))
  BY DEF Keepers
<1>2. Keeps(k, Leaving(tx'[w]))
  BY <1>1 DEF Keeps
<1> QED
  BY <1>1, <1>2, OwnStepKeeps

LEMMA FinishReplaceKeeps ==
  ASSUME TypeOK, Stages, Keepers, NEW w \in Writers, FinishReplace(w)
  PROVE  Keepers'
<1> DEFINE R == tx[w].todo \cap (event \cup {tx[w].of})
<1>1. tx[w] \in Transactions /\ tx[w].at = "replacing"
  BY OwnTyped DEF FinishReplace
<1>2. /\ tx' = [tx EXCEPT ![w] = [tx[w] EXCEPT !.at = "delete", !.todo = {}, !.gone = R]]
      /\ answered' = answered
  BY DEF FinishReplace, Continue
<1>3. tx'[w] = [tx[w] EXCEPT !.at = "delete", !.todo = {}, !.gone = R]
  BY <1>2 DEF TypeOK
<1>4. tx'[w].of = tx[w].of /\ Leaving(tx'[w]) = R /\ R \subseteq Leaving(tx[w])
  BY <1>1, <1>3 DEF Leaving, Transactions
<1>5. tx' = [tx EXCEPT ![w] = tx'[w]]
  BY <1>2, <1>3
<1> QED
  BY <1>1, <1>2, <1>4, <1>5, StatementKeeps

\* The statements after the DELETE change neither the event nor what was removed.
LaterStatement(w, t) ==
  /\ tx' = [tx EXCEPT ![w] = t]
  /\ t.of = tx[w].of /\ t.gone = tx[w].gone
  /\ t.at # "replacing"

LEMMA DeleteIsLater ==
  ASSUME TypeOK, Stages, NEW w \in Writers, Delete(w) \/ FinishDelete(w)
  PROVE  \E t : LaterStatement(w, t)
<1>1. tx[w] \in Transactions
  BY OwnTyped
<1>2. CASE Delete(w) /\ IsDeletion(tx[w].of)
  <2>1. PICK T :
          tx' = [tx EXCEPT ![w] = [tx[w] EXCEPT !.at = "hiding", !.todo = T]]
    BY <1>2 DEF Delete, Continue
  <2> DEFINE t == [tx[w] EXCEPT !.at = "hiding", !.todo = T]
  <2>2. tx' = [tx EXCEPT ![w] = t]
    BY <2>1
  <2>3. t.of = tx[w].of /\ t.gone = tx[w].gone /\ t.at # "replacing"
    BY <1>1 DEF Transactions
  <2> HIDE DEF t
  <2> QED
    BY <2>2, <2>3 DEF LaterStatement
<1>3. CASE Delete(w) /\ ~IsDeletion(tx[w].of)
  <2>1. PICK H :
          tx' = [tx EXCEPT ![w] = [tx[w] EXCEPT !.at = "commit", !.hid = H]]
    BY <1>3 DEF Delete, Continue
  <2> DEFINE t == [tx[w] EXCEPT !.at = "commit", !.hid = H]
  <2>2. tx' = [tx EXCEPT ![w] = t]
    BY <2>1
  <2>3. t.of = tx[w].of /\ t.gone = tx[w].gone /\ t.at # "replacing"
    BY <1>1 DEF Transactions
  <2> HIDE DEF t
  <2> QED
    BY <2>2, <2>3 DEF LaterStatement
<1>4. CASE FinishDelete(w)
  <2>1. PICK H :
          tx' = [tx EXCEPT ![w] = [tx[w] EXCEPT !.at = "commit", !.todo = {}, !.hid = H]]
    BY <1>4 DEF FinishDelete, Continue
  <2> DEFINE t == [tx[w] EXCEPT !.at = "commit", !.todo = {}, !.hid = H]
  <2>2. tx' = [tx EXCEPT ![w] = t]
    BY <2>1
  <2>3. t.of = tx[w].of /\ t.gone = tx[w].gone /\ t.at # "replacing"
    BY <1>1 DEF Transactions
  <2> HIDE DEF t
  <2> QED
    BY <2>2, <2>3 DEF LaterStatement
<1> QED
  BY <1>2, <1>3, <1>4

LEMMA DeleteKeeps ==
  ASSUME TypeOK, Stages, Keepers, NEW w \in Writers, Delete(w) \/ FinishDelete(w)
  PROVE  Keepers'
<1>1. tx[w] \in Transactions /\ tx[w].at \in {"delete", "hiding"} /\ answered' = answered
  BY OwnTyped DEF Delete, FinishDelete
<1>2. PICK t : LaterStatement(w, t)
  BY DeleteIsLater
<1>3. tx'[w] = t
  BY <1>2 DEF TypeOK, LaterStatement
<1>4. Leaving(tx'[w]) = Leaving(tx[w])
  BY <1>1, <1>2, <1>3 DEF Leaving, LaterStatement
<1>5. tx' = [tx EXCEPT ![w] = tx'[w]]
  BY <1>2, <1>3 DEF LaterStatement
<1> QED
  BY <1>1, <1>2, <1>3, <1>4, <1>5, StatementKeeps DEF LaterStatement

\* The steps after which a transaction has nothing to remove.
LEMMA EmptyKeeps ==
  ASSUME TypeOK, Stages, Keepers, NEW w \in Writers,
         \/ \E e \in Calls[w] : Begin(w, e)
         \/ Insert(w) \/ Commit(w) \/ Fail(w)
  PROVE  Keepers'
<1>1. answered \subseteq answered'
  BY DEF Begin, Insert, Commit, Fail, Return
<1>2. PICK t : /\ tx' = [tx EXCEPT ![w] = t]
               /\ Leaving(t) = {}
  <2>1. CASE \E e \in Calls[w] : Begin(w, e)
    <3>1. PICK e \in Calls[w] : Begin(w, e)
      BY <2>1
    <3>2. Leaving([NoTx EXCEPT !.of = e, !.at = "insert"]) = {}
      BY DEF NoTx, Leaving
    <3> QED
      BY <3>1, <3>2, NoTxTyped DEF Begin, Return, Continue
  <2>2. CASE Insert(w)
    <3>1. tx[w].gone = {} /\ tx[w] \in Transactions
      BY <2>2, OwnTyped DEF Insert, Stages
    <3>2. Leaving([tx[w] EXCEPT !.at = "replace"]) = {}
      BY <3>1 DEF Leaving, Transactions
    <3> QED
      BY <2>2, <3>2, NoTxTyped DEF Insert, Return, Continue
  <2>3. CASE Commit(w) \/ Fail(w)
    BY <2>3, NoTxTyped DEF Commit, Fail, Return, Continue
  <2> QED
    BY <2>1, <2>2, <2>3
<1>3. tx'[w] = t
  BY <1>2 DEF TypeOK
<1>4. Keeps(tx'[w].of, Leaving(tx'[w]))
  BY <1>2, <1>3 DEF Keeps
<1> QED
  BY <1>1, <1>2, <1>3, <1>4, OwnStepKeeps

LEMMA CommitLosesNothing ==
  ASSUME TypeOK, Stages, Keepers, NothingLost, NEW w \in Writers, Commit(w)
  PROVE  NothingLost'
<1> DEFINE e == tx[w].of
<1>1. /\ event' = (event \cup {e}) \ tx[w].gone /\ answered' = answered \cup {e}
      /\ now' = now
  BY DEF Commit, Return
<1>2. e \in Events /\ event \subseteq answered /\ answered \subseteq Events
      /\ tx[w].at = "commit"
  BY OwnTyped DEF Commit, TypeOK
<1>3. PICK k \in answered \cup {e} : Keeps(k, tx[w].gone)
  BY <1>2 DEF Keepers, Leaving
<1>4. \A f \in Events : f.at \in Nat
  BY EventsAssumption DEF EventsAssumption
<1>5. \A f \in tx[w].gone : Covers(k, f) /\ ~Covers(f, k) /\ f \in Events
  <2>1. ASSUME NEW f \in tx[w].gone
        PROVE  Covers(k, f) /\ ~Covers(f, k) /\ f \in Events
    <3>1. f \in Events /\ k \in Events
      BY <1>2, OwnTyped DEF Mine
    <3>2. SameAddress(f, k) /\ f.at < k.at /\ f.at \in Nat /\ k.at \in Nat
      BY <1>3, <1>4, <3>1 DEF Keeps
    <3>3. ~(f.at >= k.at) /\ k.at >= f.at /\ f # k
      BY <3>2
    <3> QED
      BY <3>1, <3>2, <3>3 DEF Covers
  <2> QED
    BY <2>1
<1>6. ASSUME NEW a \in answered \cup {e}
      PROVE  \E f \in answered \cup {e} : Covers(f, a) /\ (f \in event' \/ IsExpired(f))
  <2>1. PICK f \in answered \cup {e} :
          Covers(f, a) /\ (f \in event \cup {e} \/ IsExpired(f))
    BY DEF NothingLost, Covers
  <2>2. CASE IsExpired(f) \/ f \notin tx[w].gone
    BY <2>1, <2>2, <1>1
  <2>3. CASE f \in tx[w].gone
    <3>1. Covers(k, a)
      BY <1>2, <1>5, <2>1, <2>3, AddressOrder
    <3>2. PICK g \in answered \cup {e} :
            Covers(g, k) /\ (g \in event \cup {e} \/ IsExpired(g))
      BY <1>3 DEF NothingLost, Covers
    <3>3. Covers(g, a)
      BY <1>2, <3>1, <3>2, AddressOrder
    <3>4. g \notin tx[w].gone
      BY <3>2, <1>5
    <3> QED
      BY <3>2, <3>3, <3>4, <1>1
  <2> QED
    BY <2>2, <2>3
<1>7. \A f : IsExpired(f)' <=> IsExpired(f)
  BY <1>1 DEF IsExpired, IsExpiredAt
<1> QED
  BY <1>1, <1>6, <1>7 DEF NothingLost, IsExpired, Covers

\* write_event finds a row that makes its event superfluous.
LEMMA ReturnLosesNothing ==
  ASSUME TypeOK, NothingLost, NEW e \in Events, NEW f \in event, Covers(f, e),
         answered' = answered \cup {e}, UNCHANGED <<event, now>>
  PROVE  NothingLost'
<1>1. f \in answered
  BY DEF TypeOK
<1> QED
  BY <1>1 DEF NothingLost, IsExpired, Covers

LEMMA StepLosesNothing ==
  ASSUME NoTies, TypeOK, Stages, Keepers, NothingLost, [Next]_vars
  PROVE  Keepers' /\ NothingLost'
<1>1. ASSUME UNCHANGED <<event, answered, now>>
      PROVE  NothingLost'
  BY <1>1 DEF NothingLost, IsExpired, Covers
<1>2. ASSUME NEW w \in Writers, NEW e \in Calls[w], Begin(w, e)
      PROVE  NothingLost'
  <2>1. e \in Events /\ event \in SUBSET Events
    BY PostgresAssumption DEF PostgresAssumption, TypeOK
  <2>2. CASE IsShadowed(e)
    <3>1. PICK f \in Matching(e, event) : f.at >= e.at
      BY <2>2 DEF IsShadowed
    <3>2. f \in event /\ Covers(f, e)
      BY <2>1, <3>1, MatchingIsAddress DEF Covers, NoTies
    <3> QED
      BY <1>2, <2>1, <2>2, <3>2, ReturnLosesNothing DEF Begin, Return
  <2>3. CASE ~IsShadowed(e)
    BY <1>1, <1>2, <2>3 DEF Begin
  <2> QED
    BY <2>2, <2>3
<1>3. ASSUME NEW w \in Writers, Insert(w)
      PROVE  NothingLost'
  <2>1. tx[w].of \in Events /\ Covers(tx[w].of, tx[w].of)
    BY <1>3, OwnTyped DEF Insert, Covers
  <2>2. CASE tx[w].of \in event
    BY <1>3, <2>1, <2>2, ReturnLosesNothing DEF Insert, Return
  <2>3. CASE tx[w].of \notin event
    BY <1>1, <1>3, <2>3 DEF Insert
  <2> QED
    BY <2>2, <2>3
<1>4. ASSUME NEW w \in Writers, WriterStep(w)
      PROVE  Keepers' /\ NothingLost'
  <2>1. CASE Replace(w) \/ FinishReplace(w) \/ Delete(w) \/ FinishDelete(w) \/ Fail(w)
    <3>1. UNCHANGED <<event, answered, now>>
      BY <2>1 DEF Replace, FinishReplace, Delete, FinishDelete, Fail
    <3> QED
      BY <2>1, <3>1, <1>1, ReplaceKeeps, FinishReplaceKeeps, DeleteKeeps, EmptyKeeps
  <2>2. CASE (\E e \in Calls[w] : Begin(w, e)) \/ Insert(w) \/ Commit(w)
    BY <2>2, <1>2, <1>3, CommitLosesNothing, EmptyKeeps
  <2> QED
    BY <1>4, <2>1, <2>2 DEF WriterStep
<1>5. ASSUME DeleteExpired
      PROVE  Keepers' /\ NothingLost'
  BY <1>5 DEF DeleteExpired, Keepers, NothingLost, IsExpired, Covers, Keeps, Leaving
<1>6. ASSUME Tick
      PROVE  Keepers' /\ NothingLost'
  <2>1. now \in Nat /\ now' = now + 1 /\ UNCHANGED <<event, tx, answered>>
    BY <1>6, PostgresAssumption DEF Tick, TypeOK, PostgresAssumption
  <2>2. \A f \in Events : IsExpired(f) => IsExpired(f)'
    BY <2>1, EventsAssumption DEF IsExpired, IsExpiredAt, EventsAssumption
  <2>3. NothingLost'
    <3>1. ASSUME NEW a \in answered
          PROVE  \E f \in answered : Covers(f, a) /\ (f \in event \/ IsExpired(f)')
      <4>1. PICK f \in answered : Covers(f, a) /\ (f \in event \/ IsExpired(f))
        BY DEF NothingLost
      <4> QED
        BY <4>1, <2>2 DEF TypeOK
    <3> QED
      BY <2>1, <3>1 DEF NothingLost, IsExpired, Covers
  <2> QED
    BY <2>1, <2>3 DEF Keepers, Keeps, Leaving
<1>7. CASE UNCHANGED vars
  BY <1>1, <1>7 DEF vars, Keepers, Keeps, Leaving
<1> QED
  BY <1>4, <1>5, <1>6, <1>7 DEF Next

\* For any number of overlapping writers: where no two versions of one address carry the
\* same created_at, every event that write_event has accepted is in the table or is
\* covered by an accepted version that is at least as new and is there or has expired.
THEOREM NothingIsLost ==
  ASSUME NoTies
  PROVE  Spec => []NothingLost
<1>1. Init => TypeOK /\ Stages /\ Keepers /\ NothingLost
  <2>1. Init => Keepers /\ NothingLost
    BY NoTxTyped DEF Init, Keepers, NothingLost
  <2> QED
    BY <2>1, InitTyped
<1>2. TypeOK /\ Stages /\ Keepers /\ NothingLost /\ [Next]_vars
        => TypeOK' /\ Stages' /\ Keepers' /\ NothingLost'
  BY NextTyped, StepLosesNothing
<1> QED
  BY <1>1, <1>2, PTL DEF Spec

----------------------------------------------------------------------------
(* The versions of one address. *)

\* From its DELETE on, a transaction removes a row at the address of its event, or it
\* removes the event.
Yields(t, f) ==
  SameAddress(t.of, f) =>
    /\ t.at = "replacing" => f \in t.todo \/ t.of \in t.todo
    /\ t.at \in {"delete", "hiding", "commit"} => f \in t.gone \/ t.of \in t.gone

\* Every row in the table belongs to a writer (the one that inserted it), a writer owns
\* at most one row of an address, and its transaction does not keep a second one.
Owned(own) ==
  /\ own \in [event -> Writers]
  /\ \A f, g \in event : SameAddress(f, g) /\ own[f] = own[g] => f = g
  /\ \A f \in event : Yields(tx[own[f]], f)

EachOwns == \E own : Owned(own)

\* A step of one writer that leaves the table alone.
LEMMA OwnStepOwns ==
  ASSUME TypeOK, NEW w \in Writers, NEW own, Owned(own),
         tx' = [tx EXCEPT ![w] = tx'[w]], event' = event,
         \A f \in event : own[f] = w => Yields(tx'[w], f)
  PROVE  EachOwns'
<1>1. \A v \in Writers : v # w => tx'[v] = tx[v]
  BY DEF TypeOK
<1>2. ASSUME NEW f \in event
      PROVE  Yields(tx'[own[f]], f)
  <2>1. own[f] \in Writers /\ Yields(tx[own[f]], f)
    BY DEF Owned
  <2> QED
    BY <2>1, <1>1
<1>3. Owned(own)'
  BY <1>2 DEF Owned, Yields
<1> QED
  BY <1>3 DEF EachOwns

\* Of the rows of one address and the event, a replacement keeps one at most.
LEMMA ReplacedLeavesOne ==
  ASSUME AllPlain, NEW e \in Events, NEW S \in SUBSET Events, e \in S,
         NEW f \in S, f # e, SameAddress(e, f),
         NEW first
  PROVE  f \in Replaced(e, S, first) \/ e \in Replaced(e, S, first)
<1>1. ASSUME NEW g \in S, SameAddress(e, g)
      PROVE  g \in Matching(e, S)
  <2>1. SameAuthorKind(e, g)
    BY <1>1 DEF SameAddress
  <2>2. CASE IsReplaceable(e)
    BY <2>1, <2>2 DEF Matching
  <2>3. CASE IsParamReplaceable(e) /\ DistinctParam(e) = DistinctParam(g)
    <3>1. IsParamReplaceable(g)
      BY <2>1, <2>3 DEF SameAuthorKind, IsParamReplaceable
    <3>2. g.ds \in Seq(STRING \cup {NoValue}) /\ Len(g.ds) = 1 /\ g.ds[1] # NoValue
      BY <3>1, EventsAssumption DEF AllPlain, IsPlain, EventsAssumption
    <3>3. g.ds # <<>> /\ 1 \in DOMAIN g.ds
      BY <3>2
    <3>4. DistinctParam(g) = g.ds[1]
      BY <3>2, <3>3 DEF DistinctParam
    <3>5. 1 \in DTagRows(g, DistinctParam(e))
      BY <2>3, <3>3, <3>4 DEF DTagRows
    <3> QED
      BY <2>1, <2>3, <3>5 DEF Matching
  <2> QED
    BY <1>1, <2>2, <2>3 DEF SameAddress
<1>2. SameAddress(e, e)
  BY DEF SameAddress, SameAuthorKind
<1>3. f \in Matching(e, S) /\ e \in Matching(e, S)
  BY <1>1, <1>2
<1> QED
  BY <1>3 DEF Replaced

LEMMA ReplaceOwns ==
  ASSUME AllPlain, TypeOK, Stages, EachOwns, NEW w \in Writers, Replace(w)
  PROVE  EachOwns'
<1> DEFINE e == tx[w].of
           rows == event \cup {e}
<1>1. PICK own : Owned(own)
  BY DEF EachOwns
<1>2. /\ tx[w] \in Transactions /\ e \in Events /\ rows \in SUBSET Events
      /\ e \notin event /\ event' = event
  BY OwnTyped DEF Replace, Has
<1>3. CASE IsReplaceable(e) \/ IsParamReplaceable(e)
  <2>1. PICK first :
          tx' = [tx EXCEPT ![w] = [tx[w] EXCEPT !.at = "replacing",
                                                !.todo = Replaced(e, rows, first)]]
    BY <1>3 DEF Replace, Continue
  <2>2. tx'[w] = [tx[w] EXCEPT !.at = "replacing", !.todo = Replaced(e, rows, first)]
    BY <2>1 DEF TypeOK
  <2>3. tx'[w].at = "replacing" /\ tx'[w].of = e /\ tx'[w].todo = Replaced(e, rows, first)
    BY <1>2, <2>2 DEF Transactions
  <2>4. \A f \in event : SameAddress(e, f) =>
          f \in Replaced(e, rows, first) \/ e \in Replaced(e, rows, first)
    BY <1>2, ReplacedLeavesOne
  <2>5. \A f \in event : Yields(tx'[w], f)
    BY <2>3, <2>4 DEF Yields
  <2>6. tx' = [tx EXCEPT ![w] = tx'[w]]
    BY <2>1, <2>2
  <2> QED
    BY <1>1, <1>2, <2>5, <2>6, OwnStepOwns
<1>4. CASE ~(IsReplaceable(e) \/ IsParamReplaceable(e))
  <2>1. tx' = [tx EXCEPT ![w] = [tx[w] EXCEPT !.at = "delete"]]
    BY <1>4 DEF Replace, Continue
  <2>2. tx'[w] = [tx[w] EXCEPT !.at = "delete"]
    BY <2>1 DEF TypeOK
  <2>3. tx'[w].of = e
    BY <1>2, <2>2 DEF Transactions
  <2>4. \A f \in event : Yields(tx'[w], f)
    BY <1>4, <2>3 DEF Yields, SameAddress
  <2>5. tx' = [tx EXCEPT ![w] = tx'[w]]
    BY <2>1, <2>2
  <2> QED
    BY <1>1, <1>2, <2>4, <2>5, OwnStepOwns
<1> QED
  BY <1>3, <1>4

LEMMA FinishReplaceOwns ==
  ASSUME TypeOK, Stages, EachOwns, NEW w \in Writers, FinishReplace(w)
  PROVE  EachOwns'
<1> DEFINE R == tx[w].todo \cap (event \cup {tx[w].of})
<1>1. PICK own : Owned(own)
  BY DEF EachOwns
<1>2. tx[w] \in Transactions /\ tx[w].at = "replacing" /\ event' = event
  BY OwnTyped DEF FinishReplace
<1>3. tx' = [tx EXCEPT ![w] = [tx[w] EXCEPT !.at = "delete", !.todo = {}, !.gone = R]]
  BY DEF FinishReplace, Continue
<1>4. tx'[w] = [tx[w] EXCEPT !.at = "delete", !.todo = {}, !.gone = R]
  BY <1>3 DEF TypeOK
<1>5. tx'[w].of = tx[w].of /\ tx'[w].at = "delete" /\ tx'[w].gone = R
  BY <1>2, <1>4 DEF Transactions
<1>6. ASSUME NEW f \in event, own[f] = w
      PROVE  Yields(tx'[w], f)
  <2>1. SameAddress(tx[w].of, f) => f \in tx[w].todo \/ tx[w].of \in tx[w].todo
    BY <1>1, <1>2, <1>6 DEF Owned, Yields
  <2> QED
    BY <1>5, <2>1 DEF Yields
<1>7. tx' = [tx EXCEPT ![w] = tx'[w]]
  BY <1>3, <1>4
<1> QED
  BY <1>1, <1>2, <1>6, <1>7, OwnStepOwns

\* A later statement leaves the rows to be removed as they are.
LEMMA DeleteOwns ==
  ASSUME TypeOK, Stages, EachOwns, NEW w \in Writers, Delete(w) \/ FinishDelete(w)
  PROVE  EachOwns'
<1>1. PICK own : Owned(own)
  BY DEF EachOwns
<1>2. tx[w] \in Transactions /\ tx[w].at \in {"delete", "hiding"} /\ event' = event
  BY OwnTyped DEF Delete, FinishDelete
<1>3. PICK t : LaterStatement(w, t)
  BY DeleteIsLater
<1>4. /\ tx' = [tx EXCEPT ![w] = t] /\ t.of = tx[w].of /\ t.gone = tx[w].gone
      /\ t.at # "replacing"
  BY <1>3 DEF LaterStatement
<1>5. tx'[w] = t
  BY <1>4 DEF TypeOK
<1>6. ASSUME NEW f \in event, own[f] = w
      PROVE  Yields(tx'[w], f)
  <2>1. SameAddress(tx[w].of, f) => f \in tx[w].gone \/ tx[w].of \in tx[w].gone
    BY <1>1, <1>2, <1>6 DEF Owned, Yields
  <2> QED
    BY <1>4, <1>5, <2>1 DEF Yields
<1>7. tx' = [tx EXCEPT ![w] = tx'[w]]
  BY <1>4, <1>5
<1> QED
  BY <1>1, <1>2, <1>6, <1>7, OwnStepOwns

\* A transaction that has not come to its DELETE, or is over, keeps nothing back.
LEMMA EarlyOwns ==
  ASSUME TypeOK, Stages, EachOwns, NEW w \in Writers,
         (\E e \in Calls[w] : Begin(w, e)) \/ Insert(w) \/ Fail(w)
  PROVE  EachOwns'
<1>1. PICK own : Owned(own)
  BY DEF EachOwns
<1>2. event' = event
  BY DEF Begin, Insert, Fail
<1>3. PICK t : /\ tx' = [tx EXCEPT ![w] = t]
               /\ t.at \in {"idle", "insert", "replace"}
  <2>1. CASE \E e \in Calls[w] : Begin(w, e)
    <3>1. PICK e \in Calls[w] : Begin(w, e)
      BY <2>1
    <3>2. [NoTx EXCEPT !.of = e, !.at = "insert"].at = "insert"
      BY DEF NoTx
    <3> QED
      BY <3>1, <3>2, NoTxTyped DEF Begin, Return, Continue
  <2>2. CASE Insert(w)
    <3>1. tx[w] \in Transactions
      BY OwnTyped
    <3>2. [tx[w] EXCEPT !.at = "replace"].at = "replace"
      BY <3>1 DEF Transactions
    <3> QED
      BY <2>2, <3>2, NoTxTyped DEF Insert, Return, Continue
  <2>3. CASE Fail(w)
    BY <2>3, NoTxTyped DEF Fail, Continue
  <2> QED
    BY <2>1, <2>2, <2>3
<1>4. tx'[w] = t
  BY <1>3 DEF TypeOK
<1>5. \A f : Yields(tx'[w], f)
  BY <1>3, <1>4 DEF Yields
<1>6. tx' = [tx EXCEPT ![w] = tx'[w]]
  BY <1>3, <1>4
<1> QED
  BY <1>1, <1>2, <1>5, <1>6, OwnStepOwns

\* The committed row passes to its writer, which had at most one other at its address
\* and keeps one of the two.
LEMMA CommitOwns ==
  ASSUME TypeOK, Stages, EachOwns, NEW w \in Writers, Commit(w)
  PROVE  EachOwns'
<1> DEFINE e == tx[w].of
<1>1. PICK own : Owned(own)
  BY DEF EachOwns
<1>0. PICK new : new = [f \in event' |-> IF f = e THEN w ELSE own[f]]
  OBVIOUS
<1>2. /\ tx[w].at = "commit" /\ e \in Events /\ event \subseteq Events /\ e \notin event
      /\ event' = (event \cup {e}) \ tx[w].gone
      /\ tx' = [tx EXCEPT ![w] = NoTx]
  BY OwnTyped DEF Commit, Return, Continue, Has
<1>3. tx'[w] = NoTx /\ \A v \in Writers : v # w => tx'[v] = tx[v]
  BY <1>2 DEF TypeOK
<1>4. \A f \in event : own[f] \in Writers /\ Yields(tx[own[f]], f)
  BY <1>1 DEF Owned
<1>5. ASSUME NEW f \in event', f # e, own[f] = w
      PROVE  ~SameAddress(e, f) \/ e \notin event'
  <2>1. f \in event /\ f \notin tx[w].gone
    BY <1>2, <1>5
  <2>2. SameAddress(e, f) => f \in tx[w].gone \/ e \in tx[w].gone
    BY <1>2, <1>4, <1>5, <2>1 DEF Yields
  <2> QED
    BY <1>2, <2>1, <2>2
<1>6. new \in [event' -> Writers]
  BY <1>0, <1>2, <1>4
<1>7. ASSUME NEW f \in event', NEW g \in event', SameAddress(f, g),
             new[f] = new[g]
      PROVE  f = g
  <2>1. f \in Events /\ g \in Events /\ SameAddress(g, f)
    BY <1>2, <1>7, AddressOrder
  <2>2. CASE f # e /\ g # e
    BY <1>0, <1>1, <1>2, <1>7, <2>2 DEF Owned
  <2>3. CASE f = e
    BY <1>0, <1>5, <1>7, <2>3
  <2>4. CASE g = e
    BY <1>0, <1>5, <1>7, <2>1, <2>4
  <2> QED
    BY <2>2, <2>3, <2>4
<1>8. ASSUME NEW f \in event'
      PROVE  Yields(tx'[new[f]], f)
  <2>1. \A v \in Writers : (v = w \/ Yields(tx[v], f)) => Yields(tx'[v], f)
    BY <1>3, NoTxTyped DEF Yields
  <2>2. CASE f = e
    BY <1>0, <2>1, <2>2
  <2>3. CASE f # e
    BY <1>0, <1>2, <1>4, <2>1, <2>3
  <2> QED
    BY <2>2, <2>3
<1>9. Owned(new)'
  BY <1>6, <1>7, <1>8 DEF Owned
<1> QED
  BY <1>9 DEF EachOwns

LEMMA StepOwns ==
  ASSUME AllPlain, TypeOK, Stages, EachOwns, [Next]_vars
  PROVE  EachOwns'
<1>1. ASSUME event' \subseteq event, tx' = tx
      PROVE  EachOwns'
  <2>1. PICK own : Owned(own)
    BY DEF EachOwns
  <2>2. PICK new : new = [f \in event' |-> own[f]]
    OBVIOUS
  <2>3. Owned(new)'
    BY <1>1, <2>1, <2>2 DEF Owned
  <2> QED
    BY <2>3 DEF EachOwns
<1>2. ASSUME NEW w \in Writers, WriterStep(w)
      PROVE  EachOwns'
  BY <1>2, EarlyOwns, ReplaceOwns, FinishReplaceOwns, DeleteOwns, CommitOwns DEF WriterStep
<1>3. CASE DeleteExpired \/ Tick \/ UNCHANGED vars
  <2>1. event' \subseteq event /\ tx' = tx
    BY <1>3 DEF DeleteExpired, Tick, vars
  <2> QED
    BY <2>1, <1>1
<1> QED
  BY <1>2, <1>3 DEF Next

\* The rows of an address are no more than their owners.
LEMMA OwnersBound ==
  ASSUME TypeOK, EachOwns
  PROVE  VersionsBounded
<1>1. PICK own : Owned(own)
  BY DEF EachOwns
<1>2. ASSUME NEW e \in event
      PROVE  Cardinality({f \in event : SameAddress(e, f)}) <= Cardinality(Writers)
  <2> DEFINE V == {f \in event : SameAddress(e, f)}
             inj == [f \in V |-> own[f]]
  <2>1. \A f, g \in V : SameAddress(f, g)
    BY AddressOrder DEF TypeOK
  <2>2. inj \in [V -> Writers] /\ \A f, g \in V : inj[f] = inj[g] => f = g
    BY <1>1, <2>1 DEF Owned
  <2>3. inj \in Injection(V, Writers)
    BY <2>2 DEF Injection, IsInjective
  <2>4. IsFiniteSet(Writers)
    BY PostgresAssumption DEF PostgresAssumption
  <2> HIDE DEF V, inj
  <2>5. Cardinality(V) <= Cardinality(Writers)
    BY <2>3, <2>4, FS_Injection
  <2> QED
    BY <2>5 DEF V
<1> QED
  BY <1>2 DEF VersionsBounded

\* For any finite number of overlapping writers: no address has more rows in the table
\* than there are writers. (Parameterised events have one "d" tag with a value; others
\* are not found by the DELETE.)
THEOREM VersionsAreBounded ==
  ASSUME AllPlain
  PROVE  Spec => []VersionsBounded
<1>1. Init => TypeOK /\ Stages /\ EachOwns
  <2>1. ASSUME Init
        PROVE  EachOwns
    <3>1. Owned([f \in {} |-> f])
      BY <2>1 DEF Init, Owned
    <3> QED
      BY <3>1 DEF EachOwns
  <2> QED
    BY <2>1, InitTyped
<1>2. TypeOK /\ Stages /\ EachOwns /\ [Next]_vars => TypeOK' /\ Stages' /\ EachOwns'
  BY NextTyped, StepOwns
<1>3. TypeOK /\ EachOwns => VersionsBounded
  BY OwnersBound
<1> QED
  BY <1>1, <1>2, <1>3, PTL DEF Spec
=============================================================================

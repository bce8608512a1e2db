-------------------------- MODULE EventStoreProofs --------------------------
(* Theorems of EventStore, for every set of events and every clock bound. *)
EXTENDS EventStore, TLAPS

-----------------------------------------------------------------------------
(* What the replacement queries select.                                     *)

\* No kind is both replaceable and parameterised replaceable.
LEMMA ClassesDisjoint ==
  ASSUME NEW e \in Events, IsParamReplaceable(e)
  PROVE  ~IsReplaceable(e)
BY EventsAssumption DEF EventsAssumption, IsReplaceable, IsParamReplaceable

\* A deletion event matches no replacement query.
LEMMA DeletionsDoNotMatch ==
  ASSUME NEW e, NEW S, NEW f \in Matching(e, S)
  PROVE  f \in S /\ ~IsDeletion(f) /\ SameAuthorKind(e, f)
<1>1. f \in S /\ SameAuthorKind(e, f)
  BY DEF Matching
<1>2. IsReplaceable(e) \/ IsParamReplaceable(e)
  BY DEF Matching
<1>3. e.kind # 5
  BY <1>2 DEF IsReplaceable, IsParamReplaceable
<1>4. QED
  BY <1>1, <1>3 DEF SameAuthorKind, IsDeletion

\* An explicit first "d" value has a row in the tag table.
LEMMA ExplicitDHasRow ==
  ASSUME NEW e \in Events, HasExplicitD(e)
  PROVE  DTagRows(e, DistinctParam(e)) # {}
<1>1. e.ds \in Seq(STRING \cup {NoValue}) /\ e.ds # <<>> /\ e.ds[1] # NoValue
  BY EventsAssumption DEF EventsAssumption, HasExplicitD
<1>2. 1 \in DOMAIN e.ds
  BY <1>1
<1>3. e.ds[1] = DistinctParam(e)
  BY <1>1 DEF DistinctParam
<1>4. QED
  BY <1>2, <1>3 DEF DTagRows

\* The inserted event is the newest of the rows its own replacement query
\* selects, so that row is the one that query keeps.
LEMMA KeepIsInserted ==
  ASSUME NEW e \in Events, stored \subseteq Events, ~IsShadowed(e),
         e \in Matching(e, stored \cup {e}),
         NEW keep \in NewestOf(Matching(e, stored \cup {e}))
  PROVE  keep = e
<1>1. keep \in Matching(e, stored \cup {e}) /\ e.at <= keep.at
  BY DEF NewestOf
<1>2. keep \in stored => keep \in Matching(e, stored)
  BY <1>1 DEF Matching
<1>3. QED
  BY <1>1, <1>2 DEF IsShadowed, Matching

\* InsertEvent, with its choice of the kept row named.
LEMMA InsertedRows ==
  ASSUME NEW e \in Events, InsertEvent(e)
  PROVE  \E keep : /\ Matching(e, stored \cup {e}) # {} =>
                        keep \in NewestOf(Matching(e, stored \cup {e}))
                   /\ stored' = (stored \cup {e}) \ Replaced(e, stored \cup {e}, keep)
BY DEF InsertEvent

\* Insertion only adds the event, and every row it takes away matches it.
LEMMA InsertKeepsOthers ==
  ASSUME NEW e \in Events, InsertEvent(e)
  PROVE  /\ stored' \subseteq stored \cup {e}
         /\ \A f \in stored \cup {e} : f \notin stored' =>
              f \in Matching(e, stored \cup {e})
BY InsertedRows DEF Replaced

-----------------------------------------------------------------------------
(* Type correctness.                                                        *)

\* The type invariant holds of every behaviour of the store.
THEOREM TypeCorrect == Spec => []TypeOK
<1>1. Init => TypeOK
  BY ClockAssumption DEF Init, TypeOK, ClockAssumption
<1>2. TypeOK /\ [Next]_vars => TypeOK'
  <2> SUFFICES ASSUME TypeOK, [Next]_vars PROVE TypeOK'
    OBVIOUS
  <2> USE DEF TypeOK
  <2>1. ASSUME NEW e \in Events, IgnoreEvent(e) PROVE TypeOK'
    BY <2>1 DEF IgnoreEvent, Reply
  <2>2. ASSUME NEW e \in Events, InsertEvent(e) PROVE TypeOK'
    <3>1. stored' \subseteq offered' /\ offered' \subseteq Events
      BY <2>2, InsertKeepsOthers DEF InsertEvent
    <3>2. hidden' \subseteq stored' /\ now' \in 0..MaxNow
      BY <2>2 DEF InsertEvent
    <3>3. reply' \in [event : Events, outcome : {"new", "nothing"}]
      BY <2>2 DEF InsertEvent, Reply
    <3>4. QED
      BY <3>1, <3>2, <3>3
  <2>3. ASSUME NEW e \in Events, WriteFails(e) PROVE TypeOK'
    BY <2>3 DEF WriteFails
  <2>4. CASE DeleteExpired
    BY <2>4 DEF DeleteExpired
  <2>5. CASE Tick
    BY <2>5, ClockAssumption DEF Tick, ClockAssumption
  <2>6. CASE UNCHANGED vars
    BY <2>6 DEF vars
  <2>7. QED
    BY <2>1, <2>2, <2>3, <2>4, <2>5, <2>6 DEF Next, PersistEvent
<1>3. QED
  BY <1>1, <1>2, PTL DEF Spec

-----------------------------------------------------------------------------
(* One row per replaceable address.                                         *)

\* Rows of one replaceable author and kind are one row, at any time.
THEOREM ReplaceableUnique == Spec => []OneReplaceable
<1>1. Init => OneReplaceable
  BY DEF Init, OneReplaceable
<1>2. TypeOK /\ OneReplaceable /\ [Next]_vars => OneReplaceable'
  <2> SUFFICES ASSUME TypeOK, OneReplaceable, [Next]_vars,
                      NEW g \in stored', NEW h \in stored',
                      IsReplaceable(g), SameAuthorKind(g, h)
               PROVE  g = h
    BY DEF OneReplaceable
  <2>1. ASSUME NEW e \in Events, IgnoreEvent(e) PROVE g = h
    BY <2>1 DEF IgnoreEvent, OneReplaceable
  <2>2. ASSUME NEW e \in Events, InsertEvent(e) PROVE g = h
    <3>1. g \in stored \cup {e} /\ h \in stored \cup {e}
      BY <2>2, InsertKeepsOthers
    <3>2. CASE g \in stored /\ h \in stored
      BY <3>2 DEF OneReplaceable
    <3>3. CASE g = e \/ h = e
      <4>1. IsReplaceable(e) /\ SameAuthorKind(e, g) /\ SameAuthorKind(e, h)
        BY <3>3 DEF IsReplaceable, SameAuthorKind
      <4>2. {e, g, h} \subseteq Matching(e, stored \cup {e})
        BY <3>1, <4>1 DEF Matching, SameAuthorKind
      <4>3. ~IsShadowed(e) /\ stored \subseteq Events
        BY <2>2 DEF InsertEvent, TypeOK
      <4>4. PICK keep : /\ keep \in NewestOf(Matching(e, stored \cup {e}))
                        /\ stored' = (stored \cup {e}) \ Replaced(e, stored \cup {e}, keep)
        BY <2>2, <4>2, InsertedRows
      <4>5. keep = e
        BY <4>2, <4>3, <4>4, KeepIsInserted
      <4>6. g = e /\ h = e
        BY <4>2, <4>4, <4>5 DEF Replaced
      <4>7. QED
        BY <4>6
    <3>4. QED
      BY <3>1, <3>2, <3>3
  <2>3. ASSUME NEW e \in Events, WriteFails(e) PROVE g = h
    BY <2>3 DEF WriteFails, OneReplaceable
  <2>4. CASE DeleteExpired
    BY <2>4 DEF DeleteExpired, OneReplaceable
  <2>5. CASE Tick
    BY <2>5 DEF Tick, OneReplaceable
  <2>6. CASE UNCHANGED vars
    BY <2>6 DEF vars, OneReplaceable
  <2>7. QED
    BY <2>1, <2>2, <2>3, <2>4, <2>5, <2>6 DEF Next, PersistEvent
<1>3. QED
  BY <1>1, <1>2, TypeCorrect, PTL DEF Spec

-----------------------------------------------------------------------------
(* Steps that change the table, for the proofs that follow.                 *)

LEMMA StepCases ==
  ASSUME [Next]_vars
  PROVE  \/ UNCHANGED <<stored, hidden, offered>>
         \/ \E e \in Events : IgnoreEvent(e)
         \/ \E e \in Events : InsertEvent(e)
         \/ DeleteExpired
<1>1. CASE Next
  BY <1>1 DEF Next, PersistEvent, WriteFails, Tick
<1>2. CASE UNCHANGED vars
  BY <1>2 DEF vars
<1>3. QED
  BY <1>1, <1>2

\* Rows of one author, kind and explicit first "d" value are one row.
THEOREM ExplicitParamUnique == Spec => []OneExplicitParam
<1>1. Init => OneExplicitParam
  BY DEF Init, OneExplicitParam
<1>2. TypeOK /\ OneExplicitParam /\ [Next]_vars => OneExplicitParam'
  <2> SUFFICES ASSUME TypeOK, OneExplicitParam, [Next]_vars,
                      NEW g \in stored', NEW h \in stored',
                      HasExplicitD(g), HasExplicitD(h), SameAddress(g, h)
               PROVE  g = h
    BY DEF OneExplicitParam
  <2>1. CASE stored' \subseteq stored
    BY <2>1 DEF OneExplicitParam
  <2>2. ASSUME NEW e \in Events, InsertEvent(e) PROVE g = h
    <3>1. g \in stored \cup {e} /\ h \in stored \cup {e}
      BY <2>2, InsertKeepsOthers
    <3>2. CASE g \in stored /\ h \in stored
      BY <3>2 DEF OneExplicitParam
    <3>3. CASE g = e \/ h = e
      <4>1. /\ IsParamReplaceable(e)
            /\ SameAuthorKind(e, g) /\ SameAuthorKind(e, h)
            /\ DistinctParam(g) = DistinctParam(e)
            /\ DistinctParam(h) = DistinctParam(e)
        <5>1. IsParamReplaceable(g) /\ IsParamReplaceable(h)
          BY DEF HasExplicitD
        <5>2. SameAuthorKind(g, h)
          BY DEF SameAddress
        <5>3. ~IsReplaceable(g)
          BY <3>1, <5>1, ClassesDisjoint DEF TypeOK
        <5>4. DistinctParam(g) = DistinctParam(h)
          BY <5>3 DEF SameAddress
        <5>5. QED
          BY <3>3, <5>1, <5>2, <5>4 DEF SameAuthorKind
      <4>2. g \in Events /\ h \in Events /\ e \in {g, h}
        BY <3>1, <3>3 DEF TypeOK
      <4>3. /\ DTagRows(g, DistinctParam(e)) # {}
            /\ DTagRows(h, DistinctParam(e)) # {}
        BY <4>1, <4>2, ExplicitDHasRow
      <4>4. {e, g, h} \subseteq Matching(e, stored \cup {e})
        BY <3>1, <4>1, <4>2, <4>3 DEF Matching
      <4>5. ~IsShadowed(e) /\ stored \subseteq Events
        BY <2>2 DEF InsertEvent, TypeOK
      <4>6. PICK keep : /\ keep \in NewestOf(Matching(e, stored \cup {e}))
                        /\ stored' = (stored \cup {e}) \ Replaced(e, stored \cup {e}, keep)
        BY <2>2, <4>4, InsertedRows
      <4>7. keep = e
        BY <4>4, <4>5, <4>6, KeepIsInserted
      <4>8. QED
        BY <4>4, <4>6, <4>7 DEF Replaced
    <3>4. QED
      BY <3>1, <3>2, <3>3
  <2>3. QED
    BY <2>1, <2>2, StepCases DEF IgnoreEvent, DeleteExpired
<1>3. QED
  BY <1>1, <1>2, TypeCorrect, PTL DEF Spec

-----------------------------------------------------------------------------
(* Deletions are permanent.                                                 *)

\* The inductive form: a deletion that cannot expire stays in the table, and
\* whatever a stored deletion names is hidden.
DeletionInv ==
  /\ \A d \in offered : IsDeletion(d) /\ d.exp = {} => d \in stored
  /\ \A d, e \in stored : IsDeletedBy(e, d) => e \in hidden

LEMMA DeletionStep ==
  TypeOK /\ DeletionInv /\ [Next]_vars => DeletionInv'
<1> SUFFICES ASSUME TypeOK, DeletionInv, [Next]_vars PROVE DeletionInv'
  OBVIOUS
<1>1. CASE UNCHANGED <<stored, hidden, offered>>
  BY <1>1 DEF DeletionInv
<1>2. ASSUME NEW e \in Events, IgnoreEvent(e) PROVE DeletionInv'
  <2>1. IsDeletion(e) => e \in stored
    <3>1. IsDeletion(e) => ~IsShadowed(e)
      BY DeletionsDoNotMatch DEF IsShadowed, IsDeletion, SameAuthorKind
    <3>2. QED
      BY <1>2, <3>1 DEF IgnoreEvent
  <2>2. QED
    BY <1>2, <2>1 DEF IgnoreEvent, DeletionInv
<1>3. ASSUME NEW e \in Events, InsertEvent(e) PROVE DeletionInv'
  <2>1. \A d \in stored \cup {e} : IsDeletion(d) => d \in stored'
    BY <1>3, InsertKeepsOthers, DeletionsDoNotMatch
  <2>2. \A d \in offered' : IsDeletion(d) /\ d.exp = {} => d \in stored'
    BY <1>3, <2>1 DEF InsertEvent, DeletionInv
  <2>3. ASSUME NEW d \in stored', NEW g \in stored', IsDeletedBy(g, d)
        PROVE  g \in hidden'
    <3>1. d \in stored \cup {e} /\ g \in stored \cup {e}
      BY <1>3, InsertKeepsOthers
    <3>2. CASE d \in stored /\ g \in stored
      BY <1>3, <2>3, <3>2 DEF DeletionInv, InsertEvent
    <3>3. CASE d = e \/ g = e
      <4>1. g \in NewlyHidden(e, stored')
        BY <2>3, <3>3 DEF NewlyHidden
      <4>2. QED
        BY <1>3, <4>1 DEF InsertEvent
    <3>4. QED
      BY <3>1, <3>2, <3>3
  <2>4. QED
    BY <2>2, <2>3 DEF DeletionInv
<1>4. CASE DeleteExpired
  BY <1>4 DEF DeleteExpired, DeletionInv, IsExpired, IsExpiredAt
<1>5. QED
  BY <1>1, <1>2, <1>3, <1>4, StepCases

\* Once a deletion without expiration was offered, no row of its author that it
\* names is visible in any later state.
THEOREM DeletionPermanence == Spec => []DeletionIsPermanent
<1>1. Init => DeletionInv
  BY DEF Init, DeletionInv
<1>2. TypeOK /\ DeletionInv => DeletionIsPermanent
  BY DEF TypeOK, DeletionInv, DeletionIsPermanent, IsDeletedBy
<1>3. QED
  BY <1>1, <1>2, DeletionStep, TypeCorrect, PTL DEF Spec

-----------------------------------------------------------------------------
(* Events with plain "d" tags: the replacement queries select the address.  *)

AllPlain == \A e \in Events : IsPlain(e)

LEMMA SameAddressEquivalence ==
  ASSUME NEW e, NEW f, NEW g
  PROVE  /\ SameAddress(e, f) => SameAddress(f, e)
         /\ SameAddress(e, f) /\ SameAddress(f, g) => SameAddress(e, g)
BY DEF SameAddress, SameAuthorKind, IsReplaceable, IsParamReplaceable

LEMMA PlainRows ==
  ASSUME NEW f \in Events, IsPlain(f), IsParamReplaceable(f), NEW v
  PROVE  /\ DTagRows(f, v) # {} <=> DistinctParam(f) = v
         /\ \A i, j \in DTagRows(f, v) : i = j
<1>1. f.ds \in Seq(STRING \cup {NoValue}) /\ Len(f.ds) = 1 /\ f.ds[1] # NoValue
  BY EventsAssumption DEF EventsAssumption, IsPlain
<1>2. DOMAIN f.ds = {1} /\ f.ds # <<>>
  BY <1>1
<1>3. DistinctParam(f) = f.ds[1]
  BY <1>1, <1>2 DEF DistinctParam
<1>4. QED
  BY <1>2, <1>3 DEF DTagRows

LEMMA PlainMatching ==
  ASSUME AllPlain, NEW e \in Events, NEW f \in Events, NEW S, f \in S
  PROVE  f \in Matching(e, S) <=> SameAddress(e, f)
<1>1. CASE IsReplaceable(e)
  BY <1>1 DEF Matching, SameAddress
<1>2. CASE IsParamReplaceable(e) /\ SameAuthorKind(e, f)
  <2>1. IsParamReplaceable(f)
    BY <1>2 DEF IsParamReplaceable, SameAuthorKind
  <2>2. DTagRows(f, DistinctParam(e)) # {} <=> DistinctParam(f) = DistinctParam(e)
    BY <1>2, <2>1, PlainRows DEF AllPlain
  <2>3. QED
    BY <1>2, <2>2 DEF Matching, SameAddress
<1>3. CASE ~IsReplaceable(e) /\ ~(IsParamReplaceable(e) /\ SameAuthorKind(e, f))
  BY <1>3 DEF Matching, SameAddress
<1>4. QED
  BY <1>1, <1>2, <1>3

\* Inserting a plain event takes away exactly the other rows of its address, all
\* of them older.
LEMMA PlainInsert ==
  ASSUME AllPlain, stored \subseteq Events, NEW e \in Events, InsertEvent(e)
  PROVE  /\ stored' = {f \in stored \cup {e} : f = e \/ ~SameAddress(e, f)}
         /\ \A f \in stored : SameAddress(e, f) => f.at < e.at
<1>1. ~IsShadowed(e) /\ e \notin stored
  BY DEF InsertEvent
<1>2. \A f \in stored : SameAddress(e, f) => f.at < e.at
  BY <1>1, PlainMatching, EventsAssumption DEF IsShadowed, EventsAssumption
<1>3. PICK keep : /\ Matching(e, stored \cup {e}) # {} =>
                        keep \in NewestOf(Matching(e, stored \cup {e}))
                  /\ stored' = (stored \cup {e}) \ Replaced(e, stored \cup {e}, keep)
  BY InsertedRows
<1>4. CASE IsReplaceable(e) \/ IsParamReplaceable(e)
  <2>1. e \in Matching(e, stored \cup {e})
    BY <1>4, PlainMatching DEF SameAddress, SameAuthorKind
  <2>2. keep = e
    BY <1>1, <1>3, <2>1, KeepIsInserted
  <2>3. e \notin Replaced(e, stored \cup {e}, keep)
    BY <2>2, PlainRows DEF Replaced, AllPlain
  <2>4. ASSUME NEW f \in stored
        PROVE  f \in Replaced(e, stored \cup {e}, keep) <=> SameAddress(e, f)
    <3>1. f \in Matching(e, stored \cup {e}) <=> SameAddress(e, f)
      BY PlainMatching
    <3>2. f # keep
      BY <1>1, <2>2
    <3>3. QED
      BY <3>1, <3>2 DEF Replaced
  <2>5. QED
    BY <1>2, <1>3, <2>3, <2>4
<1>5. CASE ~(IsReplaceable(e) \/ IsParamReplaceable(e))
  BY <1>2, <1>3, <1>5 DEF Replaced, Matching, SameAddress
<1>6. QED
  BY <1>4, <1>5

-----------------------------------------------------------------------------
(* Nothing is lost.                                                         *)

LEMMA CoversTransitive ==
  ASSUME NEW e \in Events, NEW f \in Events, NEW g \in Events,
         Covers(g, f), Covers(f, e)
  PROVE  Covers(g, e)
BY SameAddressEquivalence, EventsAssumption DEF Covers, EventsAssumption

LEMMA ClockStep ==
  ASSUME now \in 0..MaxNow, [Next]_vars
  PROVE  now \in Nat /\ now' \in Nat /\ now <= now'
<1>1. now \in Nat
  BY ClockAssumption DEF ClockAssumption
<1>2. CASE Tick
  BY <1>1, <1>2 DEF Tick
<1>3. CASE now' = now
  BY <1>1, <1>3
<1>4. CASE DeleteExpired \/ UNCHANGED vars
  BY <1>3, <1>4 DEF DeleteExpired, vars
<1>5. ASSUME NEW e \in Events, PersistEvent(e) \/ WriteFails(e) PROVE now' = now
  BY <1>5 DEF PersistEvent, IgnoreEvent, InsertEvent, WriteFails
<1>6. QED
  BY <1>2, <1>3, <1>4, <1>5 DEF Next

\* An event that is covered before a step is covered after it.
LEMMA NothingLostStep ==
  AllPlain => (TypeOK /\ NothingLost /\ [Next]_vars => NothingLost')
<1> SUFFICES ASSUME AllPlain, TypeOK, NothingLost, [Next]_vars,
                    NEW g \in offered'
             PROVE  \E f \in offered' : Covers(f, g) /\ (f \in stored' \/ IsExpired(f)')
  BY DEF NothingLost
<1>1. \A f \in offered : IsExpired(f) => IsExpired(f)'
  <2>1. now <= now' /\ now \in Nat /\ now' \in Nat
    BY ClockStep DEF TypeOK
  <2>2. QED
    BY <2>1, EventsAssumption DEF IsExpired, IsExpiredAt, TypeOK, EventsAssumption
<1>2. CASE UNCHANGED <<stored, hidden, offered>>
  BY <1>1, <1>2 DEF NothingLost
<1>3. ASSUME NEW e \in Events, IgnoreEvent(e)
      PROVE  \E f \in offered' : Covers(f, g) /\ (f \in stored' \/ IsExpired(f)')
  <2>1. CASE g \in offered
    BY <1>1, <1>3, <2>1 DEF NothingLost, IgnoreEvent
  <2>2. CASE g = e
    <3>1. \E f \in stored : Covers(f, e)
      BY <1>3, PlainMatching DEF IgnoreEvent, IsShadowed, Matching, Covers, TypeOK
    <3>2. QED
      BY <1>3, <2>2, <3>1 DEF IgnoreEvent, TypeOK
  <2>3. QED
    BY <1>3, <2>1, <2>2 DEF IgnoreEvent
<1>4. ASSUME NEW e \in Events, InsertEvent(e)
      PROVE  \E f \in offered' : Covers(f, g) /\ (f \in stored' \/ IsExpired(f)')
  <2>1. e \in stored' /\ e \in offered' /\ offered \subseteq offered'
    BY <1>4, PlainInsert DEF InsertEvent, TypeOK
  <2>2. \A f \in stored : f \in stored' \/ Covers(e, f)
    <3>1. ASSUME NEW f \in stored, f \notin stored' PROVE Covers(e, f)
      <4>1. SameAddress(e, f) /\ f.at < e.at
        BY <1>4, <3>1, PlainInsert DEF TypeOK
      <4>2. QED
        BY <4>1, SameAddressEquivalence, EventsAssumption
           DEF Covers, EventsAssumption, TypeOK
    <3>2. QED
      BY <3>1
  <2>3. CASE g \in offered
    <3>1. PICK f \in offered : Covers(f, g) /\ (f \in stored \/ IsExpired(f))
      BY <2>3 DEF NothingLost
    <3>2. CASE f \in stored' \/ IsExpired(f)
      BY <1>1, <2>1, <3>1, <3>2
    <3>3. CASE f \in stored /\ f \notin stored'
      BY <2>1, <2>2, <2>3, <3>1, <3>3, CoversTransitive DEF TypeOK
    <3>4. QED
      BY <3>1, <3>2, <3>3
  <2>4. CASE g = e
    BY <2>1, <2>4 DEF Covers
  <2>5. QED
    BY <1>4, <2>3, <2>4 DEF InsertEvent
<1>5. CASE DeleteExpired
  BY <1>1, <1>5 DEF DeleteExpired, NothingLost
<1>6. QED
  BY <1>2, <1>3, <1>4, <1>5, StepCases

\* If every parameterised event has one "d" tag with a value, then no offered
\* event is ever lost before it expires or something as new replaces it.
THEOREM NothingIsLost ==
  ASSUME AllPlain
  PROVE  Spec => []NothingLost
<1>1. Init => NothingLost
  BY DEF Init, NothingLost
<1>2. TypeOK /\ NothingLost /\ [Next]_vars => NothingLost'
  BY NothingLostStep
<1>3. QED
  BY <1>1, <1>2, TypeCorrect, PTL DEF Spec

-----------------------------------------------------------------------------
(* The table is a function of the set of events offered.                    *)

\* The inductive form: every offered event has a row at its address that is as
\* new, the rows are the survivors, and exactly the deleted ones are hidden.
Converged ==
  /\ \A e \in offered : \E f \in stored : Covers(f, e)
  /\ stored = Surviving(offered)
  /\ hidden = stored \cap Deleted(offered)

ConvergenceInv == Unambiguous(offered) => Converged

LEMMA ConvergenceIgnore ==
  ASSUME AllPlain, TypeOK, Unambiguous(offered'), Converged, NEW e \in Events, IgnoreEvent(e)
  PROVE  Converged'
<1>1. CASE e \in offered
  BY <1>1 DEF IgnoreEvent, Converged, Surviving, Deleted
<1>2. CASE e \notin offered
  <2>1. PICK f \in stored : SameAddress(e, f) /\ e.at <= f.at
    BY <1>2, PlainMatching DEF IgnoreEvent, IsShadowed, Matching, TypeOK
  <2>2. f \in Events /\ f \in offered /\ f # e /\ e.at < f.at
    BY <1>2, <2>1, EventsAssumption DEF TypeOK, IgnoreEvent, Unambiguous, EventsAssumption
  <2>3. ~IsDeletion(e)
    BY <2>1 DEF SameAddress, IsDeletion, IsReplaceable, IsParamReplaceable
  <2>4. Deleted(offered') = Deleted(offered) \cup ({e} \cap Deleted(offered'))
    BY <2>3 DEF IgnoreEvent, Deleted, IsDeletedBy
  <2>5. e \notin Surviving(offered')
    BY <2>1, <2>2, EventsAssumption DEF Surviving, IgnoreEvent, EventsAssumption
  <2>6. ASSUME NEW g \in offered, SameAddress(g, e), g.at < e.at
        PROVE  g \notin Surviving(offered)
    <3>1. SameAddress(g, f)
      BY <2>1, <2>6, SameAddressEquivalence
    <3>2. g \in Events /\ g.at \in Nat /\ f.at \in Nat /\ e.at \in Nat
      BY <2>2, EventsAssumption DEF TypeOK, EventsAssumption
    <3>3. ~(f.at <= g.at)
      BY <2>2, <2>6, <3>2
    <3>4. QED
      BY <2>2, <3>1, <3>3 DEF Surviving
  <2>7. Surviving(offered') = Surviving(offered)
    BY <2>5, <2>6, EventsAssumption
       DEF Surviving, IgnoreEvent, TypeOK, EventsAssumption
  <2>8. \E g \in stored : Covers(g, e)
    BY <2>1 DEF Covers
  <2>9. QED
    BY <1>2, <2>4, <2>7, <2>8 DEF Converged, IgnoreEvent, TypeOK
<1>3. QED
  BY <1>1, <1>2

LEMMA ConvergenceInsert ==
  ASSUME AllPlain, TypeOK, Unambiguous(offered'), Converged, NEW e \in Events, InsertEvent(e)
  PROVE  Converged'
<1>1. /\ stored' = {f \in stored \cup {e} : f = e \/ ~SameAddress(e, f)}
      /\ \A f \in stored : SameAddress(e, f) => f.at < e.at
  BY PlainInsert DEF TypeOK
<1>2. /\ stored \subseteq Events /\ offered \subseteq Events
      /\ offered' = offered \cup {e}
  BY DEF TypeOK, InsertEvent
<1>3. ASSUME NEW g \in offered, SameAddress(e, g) PROVE g.at < e.at
  <2>1. PICK f \in stored : Covers(f, g)
    BY DEF Converged
  <2>2. SameAddress(e, f) /\ g.at <= f.at
    BY <1>2, <1>3, <2>1, SameAddressEquivalence, EventsAssumption
       DEF Covers, EventsAssumption
  <2>3. QED
    BY <1>1, <1>2, <2>2, EventsAssumption DEF EventsAssumption
<1>4. \A g \in offered' : \E f \in stored' : Covers(f, g)
  <2>1. ASSUME NEW g \in offered PROVE \E f \in stored' : Covers(f, g)
    <3>1. PICK f \in stored : Covers(f, g)
      BY DEF Converged
    <3>2. CASE f \in stored'
      BY <3>1, <3>2
    <3>3. CASE f \notin stored'
      <4>1. SameAddress(e, f)
        BY <1>1, <3>3
      <4>2. Covers(e, f)
        BY <1>1, <1>2, <4>1, SameAddressEquivalence, EventsAssumption
           DEF Covers, EventsAssumption
      <4>3. e \in stored'
        BY <1>1
      <4>4. QED
        BY <1>2, <3>1, <4>2, <4>3, CoversTransitive
    <3>4. QED
      BY <3>2, <3>3
  <2>2. Covers(e, e) /\ e \in stored'
    BY <1>1 DEF Covers
  <2>3. QED
    BY <1>2, <2>1, <2>2
<1>5. e \in Surviving(offered')
  BY <1>2, <1>3, EventsAssumption DEF Surviving, EventsAssumption
<1>6. ASSUME NEW g \in offered, g # e
      PROVE  g \in Surviving(offered') <=>
               g \in Surviving(offered) /\ ~SameAddress(e, g)
  <2>1. SameAddress(e, g) <=> SameAddress(g, e)
    BY SameAddressEquivalence
  <2>2. SameAddress(e, g) => ~(e.at <= g.at)
    BY <1>2, <1>3, EventsAssumption DEF EventsAssumption
  <2>3. QED
    BY <1>2, <2>1, <2>2 DEF Surviving
<1>7. stored' = Surviving(offered')
  <2>1. stored = Surviving(offered) /\ e \notin stored
    BY DEF Converged, InsertEvent
  <2>2. Surviving(offered') \subseteq offered' /\ stored \subseteq offered
    BY DEF Surviving, TypeOK
  <2>3. QED
    BY <1>1, <1>2, <1>5, <1>6, <2>1, <2>2
<1>8. hidden' = stored' \cap Deleted(offered')
  <2>1. hidden' = (hidden \cup NewlyHidden(e, stored')) \cap stored'
    BY DEF InsertEvent
  <2>2. ASSUME NEW d \in offered, IsDeletion(d) PROVE d \in stored'
    <3>1. d \in Surviving(offered')
      BY <2>2 DEF Surviving, SameAddress, IsDeletion, IsReplaceable,
                  IsParamReplaceable, InsertEvent
    <3>2. QED
      BY <1>7, <3>1
  <2>3. ASSUME NEW g \in stored'
        PROVE  g \in hidden' <=> g \in Deleted(offered')
    <3>1. CASE g = e
      BY <1>2, <2>1, <2>2, <2>3, <3>1
         DEF NewlyHidden, Deleted, IsDeletedBy, TypeOK, InsertEvent
    <3>2. CASE g # e
      <4>1. g \in stored /\ g \in offered
        BY <1>1, <2>3, <3>2 DEF TypeOK
      <4>2. g \in NewlyHidden(e, stored') <=> IsDeletedBy(g, e)
        BY <2>3, <3>2 DEF NewlyHidden
      <4>3. g \in hidden <=> \E d \in offered : IsDeletedBy(g, d)
        BY <4>1 DEF Converged, Deleted
      <4>4. QED
        BY <1>2, <2>1, <2>3, <4>1, <4>2, <4>3 DEF Deleted
    <3>3. QED
      BY <3>1, <3>2
  <2>4. QED
    BY <2>1, <2>3
<1>9. QED
  BY <1>4, <1>7, <1>8 DEF Converged

\* If every parameterised event has one "d" tag with a value, then the table is
\* determined by the set of events offered, whatever the order of arrival and
\* however often each is delivered.
THEOREM Convergence ==
  ASSUME AllPlain
  PROVE  Spec => []Converges
<1>1. Init => ConvergenceInv
  BY DEF Init, ConvergenceInv, Converged, Surviving, Deleted
<1>2. TypeOK /\ ConvergenceInv /\ [Next]_vars => ConvergenceInv'
  <2> SUFFICES ASSUME TypeOK, ConvergenceInv, [Next]_vars, Unambiguous(offered')
               PROVE  Converged'
    BY DEF ConvergenceInv
  <2>1. Converged /\ \A e \in offered : e.exp = {}
    BY StepCases DEF ConvergenceInv, Unambiguous, IgnoreEvent, InsertEvent,
                     DeleteExpired
  <2>2. CASE UNCHANGED <<stored, hidden, offered>>
    BY <2>1, <2>2 DEF Converged, Surviving, Deleted
  <2>3. ~DeleteExpired
    BY <2>1 DEF DeleteExpired, IsExpired, IsExpiredAt, TypeOK
  <2>4. QED
    BY <2>1, <2>2, <2>3, StepCases, ConvergenceIgnore, ConvergenceInsert
<1>3. TypeOK /\ ConvergenceInv => Converges
  BY DEF TypeOK, ConvergenceInv, Converged, Converges, Unambiguous, Visible,
         IsExpired, IsExpiredAt
<1>4. QED
  BY <1>1, <1>2, <1>3, TypeCorrect, PTL DEF Spec

-----------------------------------------------------------------------------
(* What a query can return, step by step.                                   *)

\* Time does not bring an expired event back.
LEMMA ExpiredStays ==
  ASSUME NEW e \in Events, now \in 0..MaxNow, [Next]_vars, IsExpired(e)
  PROVE  IsExpired(e)'
<1>1. now <= now' /\ now \in Nat /\ now' \in Nat
  BY ClockStep
<1>2. PICK x \in e.exp : x <= now
  BY DEF IsExpired, IsExpiredAt
<1>3. x \in Nat
  BY EventsAssumption DEF EventsAssumption
<1>4. QED
  BY <1>1, <1>2, <1>3 DEF IsExpired, IsExpiredAt

\* A deletion is never among the rows an insertion takes away.
LEMMA DeletionsStay ==
  ASSUME NEW e \in Events, InsertEvent(e), NEW d \in stored \cup {e}, IsDeletion(d)
  PROVE  d \in stored'
BY InsertKeepsOthers, DeletionsDoNotMatch

\* An insertion hides what the event deletes, and the event itself if it had
\* been deleted before.
LEMMA InsertHides ==
  ASSUME TypeOK, NEW e \in Events, InsertEvent(e), NEW f \in stored'
  PROVE  f \in hidden' <=>
           \/ f \in hidden
           \/ IsDeletedBy(f, e)
           \/ f = e /\ \E d \in stored : IsDeletedBy(e, d)
<1>1. hidden' = (hidden \cup NewlyHidden(e, stored')) \cap stored'
  BY DEF InsertEvent
<1>2. \A d : IsDeletedBy(e, d) => IsDeletion(d) /\ d # e
  BY DEF IsDeletedBy
<1>3. (\E d \in stored' : IsDeletedBy(e, d)) <=> \E d \in stored : IsDeletedBy(e, d)
  BY <1>2, DeletionsStay, InsertKeepsOthers
<1>4. QED
  BY <1>1, <1>3 DEF NewlyHidden

\* What can be seen after a plain event was inserted.
LEMMA InsertShows ==
  ASSUME AllPlain, TypeOK, NEW e \in Events, InsertEvent(e)
  PROVE  Visible' = {f \in Visible \cup {e} :
                       /\ ~IsExpired(f)
                       /\ f = e \/ ~SameAddress(e, f)
                       /\ ~IsDeletedBy(f, e)
                       /\ f = e => \A d \in stored : ~IsDeletedBy(e, d)}
<1>1. stored' = {f \in stored \cup {e} : f = e \/ ~SameAddress(e, f)} /\ now' = now
  BY PlainInsert DEF TypeOK, InsertEvent
<1>2. e \notin hidden
  BY DEF InsertEvent, TypeOK
<1>3. \A f : IsExpired(f)' <=> IsExpired(f)
  BY <1>1 DEF IsExpired
<1>4. ASSUME NEW f
      PROVE  f \in Visible' <=>
               /\ f \in stored \cup {e} /\ (f = e \/ ~SameAddress(e, f))
               /\ ~IsExpired(f) /\ f \notin hidden /\ ~IsDeletedBy(f, e)
               /\ f = e => \A d \in stored : ~IsDeletedBy(e, d)
  BY <1>1, <1>3, InsertHides DEF Visible
<1>5. QED
  BY <1>2, <1>4 DEF Visible

\* No step but an insertion adds to what can be seen or takes away more than
\* has expired.
LEMMA OthersShow ==
  ASSUME TypeOK, [Next]_vars, \A e \in Events : ~InsertEvent(e)
  PROVE  Visible' = {f \in Visible : ~IsExpired(f)'}
<1>1. stored \subseteq Events /\ now \in 0..MaxNow
  BY DEF TypeOK
<1>2. \A f \in stored : IsExpired(f) => IsExpired(f)'
  BY <1>1, ExpiredStays
<1>3. \/ UNCHANGED <<stored, hidden>>
      \/ /\ stored' = {f \in stored : ~IsExpired(f)}
         /\ hidden' = hidden \cap stored'
  BY StepCases DEF IgnoreEvent, DeleteExpired, TypeOK
<1>4. QED
  BY <1>2, <1>3 DEF Visible

-----------------------------------------------------------------------------
(* Visible rows leave for a reason.                                         *)

\* A row that a query can return stays so until something as new arrives at its
\* address, its author deletes it, or it expires: no other write, no clean-up
\* and no repetition takes it away.
THEOREM NothingVisibleVanishes ==
  ASSUME AllPlain
  PROVE  Spec => LeavesVisibleOnlyFor
<1> DEFINE Reason(e) ==
      \/ IsExpired(e)'
      \/ \E f \in offered' \ {e} : Covers(f, e) \/ IsDeletedBy(e, f)
<1>1. ASSUME TypeOK, [Next]_vars, NEW e \in Visible, e \notin Visible'
      PROVE  Reason(e)
  <2>1. CASE \A f \in Events : ~InsertEvent(f)
    BY <1>1, <2>1, OthersShow
  <2>2. ASSUME NEW f \in Events, InsertEvent(f) PROVE Reason(e)
    <3>1. f \in offered' /\ f # e /\ now' = now
      BY <1>1, <2>2 DEF InsertEvent, Visible
    <3>2. CASE SameAddress(f, e)
      <4>1. e.at < f.at /\ e \in Events
        BY <1>1, <2>2, <3>2, PlainInsert DEF TypeOK, Visible
      <4>2. Covers(f, e)
        BY <3>2, <4>1, SameAddressEquivalence, EventsAssumption
           DEF Covers, EventsAssumption
      <4>3. QED
        BY <3>1, <4>2
    <3>3. CASE ~SameAddress(f, e)
      <4>1. ~IsExpired(e)
        BY <1>1 DEF Visible
      <4>2. IsDeletedBy(e, f)
        BY <1>1, <2>2, <3>1, <3>3, <4>1, InsertShows
      <4>3. QED
        BY <3>1, <4>2
    <3>4. QED
      BY <3>2, <3>3
  <2>3. QED
    BY <2>1, <2>2
<1>2. TypeOK /\ [Next]_vars =>
        [\A e \in Visible : e \notin Visible' => Reason(e)]_vars
  BY <1>1
<1>3. QED
  BY <1>2, TypeCorrect, PTL DEF Spec, LeavesVisibleOnlyFor

-----------------------------------------------------------------------------
(* The store implements the archive.                                        *)

\* The archive sorts events into the same classes as the store.
LEMMA SameClasses ==
  ASSUME NEW e, NEW f, NEW t
  PROVE  /\ Archive!SameAddress(e, f) <=> SameAddress(e, f)
         /\ Archive!IsDeletedBy(e, f) <=> IsDeletedBy(e, f)
         /\ Archive!IsExpiredAt(e, t) <=> IsExpiredAt(e, t)
<1>1. Archive!SameAddress(e, f) <=> SameAddress(e, f)
  BY DEF SameAddress, SameAuthorKind, IsReplaceable, IsParamReplaceable, DistinctParam,
         Archive!SameAddress, Archive!SameAuthorKind, Archive!IsReplaceable,
         Archive!IsParamReplaceable, Archive!DistinctParam
<1>2. Archive!IsDeletedBy(e, f) <=> IsDeletedBy(e, f)
  BY DEF IsDeletedBy, IsDeletion, Archive!IsDeletedBy, Archive!IsDeletion
<1>3. Archive!IsExpiredAt(e, t) <=> IsExpiredAt(e, t)
  BY DEF IsExpiredAt, Archive!IsExpiredAt
<1>4. QED
  BY <1>1, <1>2, <1>3

\* An inserted plain event is archived, or absorbed if it had been deleted.
LEMMA InsertArchives ==
  ASSUME AllPlain, TypeOK, NEW e \in Events, InsertEvent(e)
  PROVE  Archive!Archive(e) \/ Archive!Absorb(e)
<1>1. now' = now /\ ~IsShadowed(e) /\ Visible \subseteq stored /\ stored \subseteq Events
  BY DEF InsertEvent, Visible, TypeOK
<1>2. \A f \in stored : SameAddress(e, f) => f.at < e.at
  BY PlainInsert DEF TypeOK
<1>3. /\ \A f \in Visible : SameAddress(e, f) <=> Archive!Supersedes(e, f)
      /\ \A f \in Visible : ~(SameAddress(e, f) /\ f.at >= e.at)
      /\ ~Archive!Supersedes(e, e)
  BY <1>1, <1>2, SameClasses, EventsAssumption DEF Archive!Supersedes, EventsAssumption
<1>4. \A f \in Visible : ~IsExpired(f)
  BY DEF Visible
<1>5. (\E d \in stored' : IsDeletedBy(e, d)) <=> \E d \in stored : IsDeletedBy(e, d)
  BY DeletionsStay, InsertKeepsOthers DEF IsDeletedBy
<1>6. ~IsDeletedBy(e, e)
  BY DEF IsDeletedBy
<1>7. CASE \A d \in stored : ~IsDeletedBy(e, d)
  <2>1. reply' = Archive!Reply(e, "new")
    BY <1>5, <1>7 DEF InsertEvent, Reply, Archive!Reply
  <2>2. Visible' = {f \in Visible \cup {e} : /\ ~IsExpiredAt(f, now)
                                             /\ ~Archive!Supersedes(e, f)
                                             /\ ~IsDeletedBy(f, e)}
    BY <1>3, <1>7, InsertShows DEF IsExpired
  <2>3. QED
    BY <1>1, <1>3, <1>7, <2>1, <2>2, SameClasses DEF Archive!Archive
<1>8. CASE \E d \in stored : IsDeletedBy(e, d)
  <2>1. reply' = Archive!Reply(e, "nothing")
    BY <1>5, <1>8 DEF InsertEvent, Reply, Archive!Reply
  <2>2. \A f : ~IsDeletedBy(f, e)
    BY <1>8 DEF IsDeletedBy
  <2>3. e \notin Visible
    BY <1>1 DEF InsertEvent
  <2>4. Visible' = {f \in Visible : ~Archive!Supersedes(e, f)}
    BY <1>3, <1>4, <1>8, <2>2, <2>3, InsertShows
  <2>5. QED
    BY <1>1, <2>1, <2>4 DEF Archive!Absorb
<1>9. QED
  BY <1>7, <1>8

\* A step that inserts nothing absorbs, fails, lets time pass or is not seen.
LEMMA OthersArchive ==
  ASSUME TypeOK, [Next]_vars, \A e \in Events : ~InsertEvent(e)
  PROVE  [Archive!Next]_Archive!vars
<1>1. Visible' = {f \in Visible : ~IsExpiredAt(f, now')}
  BY OthersShow DEF IsExpired
<1>2. now' = now => Visible' = Visible
  BY <1>1 DEF Visible, IsExpired
<1>3. ASSUME NEW e \in Events, IgnoreEvent(e) PROVE Archive!Absorb(e)
  BY <1>2, <1>3 DEF IgnoreEvent, Reply, Archive!Absorb, Archive!Reply
<1>4. ASSUME NEW e \in Events, WriteFails(e) PROVE Archive!Fail
  BY <1>2, <1>4 DEF WriteFails, Failed, Archive!Fail, Archive!Failed
<1>5. CASE DeleteExpired \/ UNCHANGED vars
  BY <1>2, <1>5 DEF DeleteExpired, vars, Archive!vars
<1>6. CASE Tick
  <2>1. Visible' = {f \in Visible : ~Archive!IsExpiredAt(f, now')}
    BY <1>1, SameClasses
  <2>2. now' = now + 1 /\ reply' = reply
    BY <1>6 DEF Tick
  <2>3. Archive!Pass
    BY <2>1, <2>2 DEF Archive!Pass
  <2>4. QED
    BY <2>3 DEF Archive!Next
<1>7. QED
  BY <1>3, <1>4, <1>5, <1>6 DEF Next, PersistEvent, Archive!Next

\* The table with its hidden rows, its clean-up and its one transaction per
\* event is an archive to those who query it and to those who write: for events
\* with plain "d" tags no reader and no writer can tell the two apart.
THEOREM StoreIsArchive ==
  ASSUME AllPlain
  PROVE  Spec => ImplementsArchive
<1>1. Init => Archive!Init
  BY DEF Init, Visible, NoReply, Archive!Init, Archive!NoReply
<1>2. TypeOK /\ [Next]_vars => [Archive!Next]_Archive!vars
  <2> SUFFICES ASSUME TypeOK, [Next]_vars PROVE [Archive!Next]_Archive!vars
    OBVIOUS
  <2>1. CASE \E e \in Events : InsertEvent(e)
    BY <2>1, InsertArchives DEF Archive!Next
  <2>2. CASE \A e \in Events : ~InsertEvent(e)
    BY <2>2, OthersArchive
  <2>3. QED
    BY <2>1, <2>2
<1>3. QED
  BY <1>1, <1>2, TypeCorrect, PTL DEF Spec, ImplementsArchive, Archive!Spec

\* What a query can return never holds two versions of one address, an event
\* beside its author's deletion of it, or an event past its expiration.
THEOREM QueriesAreConsistent ==
  ASSUME AllPlain
  PROVE  Spec => []Archive!Consistent
<1>1. TypeOK /\ OneReplaceable /\ OneExplicitParam /\ DeletionInv => Archive!Consistent
  <2> SUFFICES ASSUME TypeOK, OneReplaceable, OneExplicitParam, DeletionInv,
                      NEW e \in Visible
               PROVE  /\ ~Archive!IsExpiredAt(e, now)
                      /\ \A f \in Visible : /\ Archive!SameAddress(e, f) => e = f
                                            /\ ~Archive!IsDeletedBy(e, f)
    BY DEF Archive!Consistent
  <2>1. e \in stored /\ e \in Events /\ e \notin hidden /\ ~IsExpired(e)
    BY DEF Visible, TypeOK
  <2>2. ASSUME NEW f \in Visible, SameAddress(e, f) PROVE e = f
    <3>1. f \in stored /\ f \in Events
      BY DEF Visible, TypeOK
    <3>2. CASE IsReplaceable(e)
      BY <2>1, <2>2, <3>1, <3>2 DEF SameAddress, OneReplaceable
    <3>3. CASE ~IsReplaceable(e)
      <4>1. IsParamReplaceable(e) /\ IsParamReplaceable(f)
        BY <2>2, <3>3 DEF SameAddress, SameAuthorKind, IsParamReplaceable
      <4>2. HasExplicitD(e) /\ HasExplicitD(f)
        BY <2>1, <3>1, <4>1 DEF AllPlain, IsPlain, HasExplicitD
      <4>3. QED
        BY <2>1, <2>2, <3>1, <4>2 DEF OneExplicitParam
    <3>4. QED
      BY <3>2, <3>3
  <2>3. ASSUME NEW f \in Visible PROVE ~IsDeletedBy(e, f)
    BY <2>1, <2>3 DEF DeletionInv, Visible
  <2>4. QED
    BY <2>1, <2>2, <2>3, SameClasses DEF IsExpired
<1>2. Init => DeletionInv
  BY DEF Init, DeletionInv
<1>3. QED
  BY <1>1, <1>2, DeletionStep, TypeCorrect, ReplaceableUnique, ExplicitParamUnique, PTL DEF Spec
=============================================================================

----------------------------- MODULE EventStore -----------------------------
(***************************************************************************)
(* The event table of the relay's SQLite repository: what persist_event    *)
(* writes, ignores, replaces and hides in its one transaction, what the    *)
(* expiry task deletes, and which rows a query can return.                 *)
(***************************************************************************)
EXTENDS NostrEvent

CONSTANT MaxNow     (* bound on the clock                                    *)

ClockAssumption == MaxNow \in Nat

ASSUME ClockAssumption

VARIABLES stored,   (* the rows of table event                               *)
          hidden,   (* the rows whose column hidden is TRUE                  *)
          now,      (* the wall clock                                        *)
          offered,  (* history: every event persist_event was run on         *)
          reply     (* what the last call of write_event answered            *)

vars == <<stored, hidden, now, offered, reply>>

NoReply == [outcome |-> "none"]
Failed == [outcome |-> "error"]
Reply(e, outcome) == [event |-> e, outcome |-> outcome]

-----------------------------------------------------------------------------
(* persist_event                                                            *)

\* The rows of the tag table that event f contributes for t.name='d' AND
\* t.value=v: one per "d" tag that has the value, repeated tags included.
DTagRows(f, v) == {i \in DOMAIN f.ds : f.ds[i] = v}

\* A variant that looks only at rows that are not hidden.
MatchingSkipsHidden(e, S) ==
  {f \in S \ hidden : /\ SameAuthorKind(e, f)
                      /\ \/ IsReplaceable(e)
                         \/ IsParamReplaceable(e) /\ DTagRows(f, DistinctParam(e)) # {}}

\* The rows of S that the replacement queries for e range over.
Matching(e, S) ==
  {f \in S : /\ SameAuthorKind(e, f)
             /\ \/ IsReplaceable(e)
                \/ IsParamReplaceable(e) /\ DTagRows(f, DistinctParam(e)) # {}}

\* A variant that compares created_at > ? instead of >=.
IsShadowedStrictly(e) == \E f \in Matching(e, stored) : f.at > e.at

\* A row at the same address that is as new as e: e is not even inserted.
IsShadowed(e) == \E f \in Matching(e, stored) : f.at >= e.at

\* A variant that orders by created_at without DESC.
OldestOf(S) == {f \in S : \A g \in S : g.at >= f.at}

NewestOf(S) == {f \in S : \A g \in S : g.at <= f.at}

\* A variant that forgets the parameterised DELETE.
ReplacedOnlyPlain(e, S, keep) ==
  {f \in Matching(e, S) : IsReplaceable(e) /\ f # keep}

\* The rows the replacement DELETEs remove when "keep" is the event of the
\* first row of ORDER BY created_at DESC. The parameterised DELETE skips one
\* row of the join with the tag table, not one event: an event with two equal
\* "d" rows is still in the list.
Replaced(e, S, keep) ==
  {f \in Matching(e, S) :
     \/ f # keep
     \/ /\ IsParamReplaceable(e)
        /\ \E i, j \in DTagRows(f, DistinctParam(e)) : i # j}

\* A variant without the check for a deletion that came first.
HiddenByLaterDeletion(e, S) == {f \in S : IsDeletedBy(f, e)}

\* A variant whose UPDATE does not compare the author.
HiddenByAnyAuthor(e, S) ==
  {f \in S : \/ IsDeletion(e) /\ ~IsDeletion(f) /\ f.id \in e.refs
             \/ f = e /\ \E d \in S : IsDeletedBy(e, d)}

\* The rows a deletion event hides, or the new row if its own author's
\* deletion of it is already stored.
NewlyHidden(e, S) ==
  {f \in S : \/ IsDeletedBy(f, e)
             \/ f = e /\ \E d \in S : IsDeletedBy(e, d)}

\* Not inserted: shadowed by a newer row, or the hash is already there.
IgnoreEvent(e) ==
  /\ IsShadowed(e) \/ e \in stored
  /\ offered' = offered \cup {e}
  /\ reply' = Reply(e, "nothing")
  /\ UNCHANGED <<stored, hidden, now>>

\* Inserted; replaced rows deleted; deletions applied in either direction.
InsertEvent(e) ==
  LET inserted == stored \cup {e} IN
  /\ ~IsShadowed(e)
  /\ e \notin stored
  /\ \E keep \in IF Matching(e, inserted) = {} THEN {e}
                 ELSE NewestOf(Matching(e, inserted)) :
       stored' = inserted \ Replaced(e, inserted, keep)
  /\ hidden' = (hidden \cup NewlyHidden(e, stored')) \cap stored'
  /\ offered' = offered \cup {e}
  /\ reply' = Reply(e, IF \E d \in stored' : IsDeletedBy(e, d)
                       THEN "nothing" ELSE "new")
  /\ UNCHANGED now

\* write_event gives up: ten attempts failed on a busy or broken database. Each
\* attempt is one transaction, so nothing of it stays.
WriteFails(e) ==
  /\ e \in Events
  /\ reply' = Failed
  /\ UNCHANGED <<stored, hidden, now, offered>>

PersistEvent(e) == IgnoreEvent(e) \/ InsertEvent(e)

-----------------------------------------------------------------------------
(* Expiry                                                                   *)

IsExpired(e) == IsExpiredAt(e, now)

\* Variants: the hidden mark outlives its row; hidden rows are purged as well.
DeleteExpiredKeepsMark ==
  LET expired == {e \in stored : IsExpired(e)} IN
  /\ expired # {}
  /\ stored' = stored \ expired
  /\ UNCHANGED <<hidden, now, offered, reply>>

DeleteExpiredAndHidden ==
  LET expired == {e \in stored : IsExpired(e) \/ e \in hidden} IN
  /\ expired # {}
  /\ stored' = stored \ expired
  /\ hidden' = hidden \ expired
  /\ UNCHANGED <<now, offered, reply>>

DeleteExpired ==
  LET expired == {e \in stored : IsExpired(e)} IN
  /\ expired # {}
  /\ stored' = stored \ expired
  /\ hidden' = hidden \ expired
  /\ UNCHANGED <<now, offered, reply>>

Tick ==
  /\ now < MaxNow
  /\ now' = now + 1
  /\ UNCHANGED <<stored, hidden, offered, reply>>

\* The rows query_from_filter can return: hidden!=TRUE and not expired.
Visible == {e \in stored : e \notin hidden /\ ~IsExpired(e)}

-----------------------------------------------------------------------------

Init ==
  /\ stored = {}
  /\ hidden = {}
  /\ now = 0
  /\ offered = {}
  /\ reply = NoReply

Next ==
  \/ \E e \in Events : PersistEvent(e)
  \/ \E e \in Events : WriteFails(e)
  \/ DeleteExpired
  \/ Tick

Spec == Init /\ [][Next]_vars

-----------------------------------------------------------------------------
(* Properties                                                               *)

\* The table holds offered events, hidden rows are rows, the clock is bounded.
TypeOK ==
  /\ stored \subseteq offered
  /\ offered \subseteq Events
  /\ hidden \subseteq stored
  /\ now \in 0..MaxNow
  /\ reply \in {NoReply, Failed} \cup [event : Events, outcome : {"new", "nothing"}]

\* Of one author and replaceable kind there is never more than one row, hidden
\* rows included (persist_event's pre-check and DELETE together).
OneReplaceable ==
  \A e, f \in stored :
    IsReplaceable(e) /\ SameAuthorKind(e, f) => e = f

\* An event whose address is spelled by its own first "d" tag.
HasExplicitD(e) == IsParamReplaceable(e) /\ e.ds # <<>> /\ e.ds[1] # NoValue

\* Of one author, kind and explicit first "d" tag there is never more than one
\* row, whatever further "d" tags the events carry.
OneExplicitParam ==
  \A e, f \in stored :
    HasExplicitD(e) /\ HasExplicitD(f) /\ SameAddress(e, f) => e = f

\* A deletion without an expiration is for good: once offered, no row it names
\* of its author is ever visible again, whether the row came before the
\* deletion, comes after it, or was replaced, expired and offered once more.
DeletionIsPermanent ==
  \A d \in offered : d.exp = {} =>
    \A e \in stored : IsDeletedBy(e, d) => e \in hidden

\* Nothing is lost: an event that was offered and has not expired is in the
\* table, or an event at its address that is at least as new was offered, and
\* that one is in the table or has expired.
Covers(f, e) == f = e \/ (SameAddress(e, f) /\ f.at >= e.at)

NothingLost ==
  \A e \in offered : \E f \in offered :
    Covers(f, e) /\ (f \in stored \/ IsExpired(f))

\* What the table must hold after a set of events was offered, in any order and
\* any number of times: the newest of each address, hidden if its author
\* deleted it.
Surviving(S) == {e \in S : \A f \in S : SameAddress(e, f) => f.at <= e.at}
Deleted(S) == {e \in S : \E d \in S : IsDeletedBy(e, d)}

\* No event of S expires, and of one address no two have one created_at (of
\* those the first to arrive wins).
Unambiguous(S) ==
  /\ \A e \in S : e.exp = {}
  /\ \A e, f \in S : SameAddress(e, f) /\ e.at = f.at => e = f

\* The table is a function of the set of events offered: neither the order in
\* which they arrive nor repeated deliveries make a difference.
Converges ==
  Unambiguous(offered) =>
    /\ stored = Surviving(offered)
    /\ Visible = Surviving(offered) \ Deleted(offered)

\* No visible row is taken away, except by a newer event at its address, by its
\* author's deletion, or by its expiration.
LeavesVisibleOnlyFor ==
  [][\A e \in Visible :
       e \notin Visible' =>
         \/ IsExpired(e)'
         \/ \E f \in offered' \ {e} :
              Covers(f, e) \/ IsDeletedBy(e, f)]_vars

\* An event reported as new (it is then acknowledged as saved and broadcast) is
\* in the table at that moment and is not hidden.
NewMeansStored ==
  [][\A e \in Events :
       reply' # reply /\ reply' = Reply(e, "new") =>
         e \in stored' /\ e \notin hidden']_vars

\* The unit tests of distinct_param give an event without a "d" value the
\* address "": of one author, kind and address at most one row is kept.
OnePerAddress ==
  \A e, f \in stored :
    IsParamReplaceable(e) /\ SameAddress(e, f) => e = f

\* For events with plain "d" tags the table implements the archive: a query can
\* return what the archive shows, and writers get the archive's answers.
Archive == INSTANCE EventArchive WITH shown <- Visible

ImplementsArchive == Archive!Spec
=============================================================================

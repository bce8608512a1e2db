---------------------------- MODULE PostgresStore ----------------------------
(***************************************************************************)
(* The event table of the PostgreSQL repository (postgres.rs). What        *)
(* SQLite's store does in one exclusive transaction, write_event does here *)
(* in one of several that overlap: the event writer's and the NIP-05       *)
(* verifier's. At READ COMMITTED each statement sees what is committed     *)
(* when it starts and what its own transaction has done; a statement that  *)
(* changes a row another transaction has changed waits for the end of that *)
(* one and then skips the row if it is gone.                               *)
(*                                                                         *)
(* Rows of the tag table follow from their event and are not stored.       *)
(***************************************************************************)
EXTENDS NostrEvent, FiniteSets

CONSTANTS Writers,   (* tasks that call write_event, one call at a time        *)
          Calls,     (* of each writer, the events it may call it with         *)
          None,      (* no event                                               *)
          MaxNow     (* bound on the clock                                     *)

PostgresAssumption ==
  /\ None \notin Events
  /\ IsFiniteSet(Writers)
  /\ Calls \in [Writers -> SUBSET Events]
  /\ MaxNow \in Nat

ASSUME PostgresAssumption

VARIABLES event,     (* the committed rows                                     *)
          hidden,    (* those with hidden = 1                                  *)
          tx,        (* each writer's transaction                              *)
          answered,  (* history: events for which write_event returned Ok      *)
          now        (* the wall clock                                         *)

vars == <<event, hidden, tx, answered, now>>

\* A transaction: the event, the statement that comes next, the rows its present
\* statement is to change, and the rows it has deleted and hidden.
NoTx == [of |-> None, at |-> "idle", todo |-> {}, gone |-> {}, hid |-> {}]
Places == {"idle", "insert", "replace", "replacing", "delete", "hiding", "commit"}
Transactions == [of : Events \cup {None}, at : Places, todo : SUBSET Events,
                 gone : SUBSET Events, hid : SUBSET Events]

Has(w) == tx[w].at \notin {"idle", "insert"}        \* its own row is inserted

\* Rows that other transactions have changed and not yet committed.
Locked(w) == UNION {tx[v].gone \cup tx[v].hid : v \in Writers \ {w}}

----------------------------------------------------------------------------
(* The queries of write_event. *)

DTagRows(f, v) == {i \in DOMAIN f.ds : f.ds[i] = v}

\* Rows of S at the address of e, as the replacement queries find them.
Matching(e, S) ==
  {f \in S : /\ SameAuthorKind(e, f)
             /\ \/ IsReplaceable(e)
                \/ IsParamReplaceable(e) /\ DTagRows(f, DistinctParam(e)) # {}}

IsShadowed(e) == \E f \in Matching(e, event) : f.at >= e.at

\* A variant that orders by created_at without "desc".
OldestOf(S) == {f \in S : \A g \in S : g.at >= f.at}

NewestOf(S) == {f \in S : \A g \in S : g.at <= f.at}

\* All but the row that comes first ("limit 1", "OFFSET 1"); an event with two equal
\* "d" tags comes twice.
Replaced(e, S, first) ==
  {f \in Matching(e, S) :
     \/ f # first
     \/ IsParamReplaceable(e) /\ Cardinality(DTagRows(f, DistinctParam(e))) > 1}

\* An id is 64 hex digits in lower case, so an "e" tag keeps it as a BLOB.
TagRow(id) == [value |-> None, value_hex |-> id]

\* "check if a deletion has already been recorded for this event": the query compares
\* the id with the column value.
DeletionRecorded(e, S) ==
  \E d \in S : /\ IsDeletion(d) /\ d.author = e.author
               /\ \E id \in d.refs : TagRow(id).value = e.id

----------------------------------------------------------------------------
(* The statements of write_event. *)

Continue(w, t) == tx' = [tx EXCEPT ![w] = t]

\* write_event returns Ok, the transaction is dropped or has just been committed.
Return(w, e) ==
  /\ Continue(w, NoTx)
  /\ answered' = answered \cup {e}

\* The transaction begins and looks for a newer row at the address.
Begin(w, e) ==
  /\ tx[w].at = "idle"
  /\ IF IsShadowed(e)
     THEN Return(w, e)
     ELSE Continue(w, [NoTx EXCEPT !.of = e, !.at = "insert"]) /\ UNCHANGED answered
  /\ UNCHANGED <<event, hidden, now>>

\* INSERT ... ON CONFLICT (id) DO NOTHING, which waits for a transaction that has
\* inserted or deleted the same id; then the tags.
Insert(w) ==
  LET e == tx[w].of IN
  /\ tx[w].at = "insert"
  /\ \A v \in Writers \ {w} : ~(Has(v) /\ tx[v].of = e) /\ e \notin tx[v].gone
  /\ IF e \in event
     THEN Return(w, e)
     ELSE Continue(w, [tx[w] EXCEPT !.at = "replace"]) /\ UNCHANGED answered
  /\ UNCHANGED <<event, hidden, now>>

\* The DELETE starts: it fixes the rows to remove.
Replace(w) ==
  LET e == tx[w].of
      rows == event \cup {e}
  IN
  /\ tx[w].at = "replace"
  /\ IF IsReplaceable(e) \/ IsParamReplaceable(e)
     THEN \E first \in IF Matching(e, rows) = {} THEN {e}
                       ELSE NewestOf(Matching(e, rows)) :
            Continue(w, [tx[w] EXCEPT !.at = "replacing", !.todo = Replaced(e, rows, first)])
     ELSE Continue(w, [tx[w] EXCEPT !.at = "delete"])
  /\ UNCHANGED <<event, hidden, answered, now>>

\* Variants: no DELETE at all; one that does not wait.
FinishNoReplace(w) ==
  /\ tx[w].at = "replacing"
  /\ Continue(w, [tx[w] EXCEPT !.at = "delete", !.todo = {}])
  /\ UNCHANGED <<event, hidden, answered, now>>

FinishReplaceAtOnce(w) ==
  /\ tx[w].at = "replacing"
  /\ Continue(w, [tx[w] EXCEPT !.at = "delete", !.todo = {},
                               !.gone = tx[w].todo \cap (event \cup {tx[w].of})])
  /\ UNCHANGED <<event, hidden, answered, now>>

\* The rows are removed once no other transaction holds one of them.
FinishReplace(w) ==
  /\ tx[w].at = "replacing"
  /\ tx[w].todo \cap Locked(w) = {}
  /\ Continue(w, [tx[w] EXCEPT !.at = "delete", !.todo = {},
                               !.gone = tx[w].todo \cap (event \cup {tx[w].of})])
  /\ UNCHANGED <<event, hidden, answered, now>>

\* A deletion's UPDATE starts, or another event is looked up among the deletions. A
\* deletion that names no id leaves the list after IN empty, which is an error (Fail).
Delete(w) ==
  LET e == tx[w].of
      rows == event \cup {e}
  IN
  /\ tx[w].at = "delete"
  /\ IF IsDeletion(e)
     THEN /\ e.refs # {}
          /\ Continue(w, [tx[w] EXCEPT !.at = "hiding",
                                       !.todo = {f \in rows : IsDeletedBy(f, e)}])
     ELSE Continue(w, [tx[w] EXCEPT !.at = "commit",
                                    !.hid = IF DeletionRecorded(e, rows) THEN {e} ELSE {}])
  /\ UNCHANGED <<event, hidden, answered, now>>

FinishDelete(w) ==
  /\ tx[w].at = "hiding"
  /\ tx[w].todo \cap Locked(w) = {}
  /\ Continue(w, [tx[w] EXCEPT !.at = "commit", !.todo = {},
                               !.hid = tx[w].todo \cap event])
  /\ UNCHANGED <<event, hidden, answered, now>>

Commit(w) ==
  /\ tx[w].at = "commit"
  /\ event' = (event \cup {tx[w].of}) \ tx[w].gone
  /\ hidden' = (hidden \cup tx[w].hid) \cap event'
  /\ Return(w, tx[w].of)
  /\ UNCHANGED now

\* An error, a deadlock that the database resolves, a lost connection, a crash.
Fail(w) ==
  /\ tx[w].at # "idle"
  /\ Continue(w, NoTx)
  /\ UNCHANGED <<event, hidden, answered, now>>

----------------------------------------------------------------------------
(* Expiry *)

IsExpired(e) == IsExpiredAt(e, now)

DeleteExpired ==
  LET expired == {e \in event : IsExpired(e)} IN
  /\ expired # {}
  /\ \A w \in Writers : (tx[w].gone \cup tx[w].hid) \cap expired = {}
  /\ event' = event \ expired
  /\ hidden' = hidden \ expired
  /\ UNCHANGED <<tx, answered, now>>

Tick ==
  /\ now < MaxNow
  /\ now' = now + 1
  /\ UNCHANGED <<event, hidden, tx, answered>>

----------------------------------------------------------------------------
Init ==
  /\ event = {}
  /\ hidden = {}
  /\ tx = [w \in Writers |-> NoTx]
  /\ answered = {}
  /\ now = 0

WriterStep(w) ==
  \/ \E e \in Calls[w] : Begin(w, e)
  \/ Insert(w) \/ Replace(w) \/ FinishReplace(w) \/ Delete(w) \/ FinishDelete(w)
  \/ Commit(w) \/ Fail(w)

Next ==
  \/ \E w \in Writers : WriterStep(w)
  \/ DeleteExpired \/ Tick

Spec == Init /\ [][Next]_vars

----------------------------------------------------------------------------
(* Properties *)

\* The values of the variables: rows are answered for, no row is changed by two
\* transactions, and no two have inserted one id.
TypeOK ==
  /\ event \subseteq answered /\ answered \subseteq Events
  /\ hidden \subseteq event
  /\ now \in 0 .. MaxNow
  /\ tx \in [Writers -> Transactions]
  /\ \A w \in Writers :
       /\ tx[w].gone \cup tx[w].hid \subseteq event \cup {tx[w].of}
       /\ (tx[w].gone \cup tx[w].hid) \cap Locked(w) = {}
       /\ Has(w) => /\ tx[w].of \notin event
                    /\ \A v \in Writers \ {w} : ~(Has(v) /\ tx[v].of = tx[w].of)

\* Nothing that write_event has accepted is lost, however transactions overlap: it is
\* in the table or an event at its address that is at least as new has been accepted,
\* and that one is in the table or has expired. Two writers never delete each other's
\* newest version.
Covers(f, e) == f = e \/ (SameAddress(e, f) /\ f.at >= e.at)

NothingLost ==
  \A e \in answered : \E f \in answered :
    Covers(f, e) /\ (f \in event \/ IsExpired(f))

\* Overlapping transactions do not see each other's versions, so an address may keep
\* more than one row; but never more than there are writers: each write leaves only
\* what overlapped with it.
VersionsBounded ==
  \A e \in event : Cardinality({f \in event : SameAddress(e, f)}) <= Cardinality(Writers)

\* "check if a deletion has already been recorded for this event" (postgres.rs): once
\* all calls have returned, no event is shown that a recorded deletion of its author
\* names.
RecordedDeletionHides ==
  (\A w \in Writers : tx[w].at = "idle") =>
    \A d, e \in event : IsDeletedBy(e, d) => e \in hidden
=============================================================================

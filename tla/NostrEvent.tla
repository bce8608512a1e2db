----------------------------- MODULE NostrEvent -----------------------------
(***************************************************************************)
(* The events the relay's stores work on, and the classes event.rs puts    *)
(* them in. An event is a record                                           *)
(*   id      the event hash (the event table's unique key)                 *)
(*   author  the signing key          kind  the event kind                 *)
(*   at      created_at               exp   {} or {its expiration}         *)
(*   ds      the second elements of its "d" tags in order, NoValue for a   *)
(*           "d" tag that has none (no row of the tag table comes of it)   *)
(*   refs    the ids its "e" tags name                                     *)
(* Content, signature and the tags no rule of the table reads are left     *)
(* out.                                                                    *)
(***************************************************************************)
EXTENDS Integers, Sequences

CONSTANTS Events,   (* the events that may be offered to the store           *)
          NoValue   (* stands for the missing second element of ["d"]        *)

EventsAssumption ==
  /\ \A e \in Events : /\ e.kind \in Nat /\ e.at \in Nat
                       /\ e.exp \in SUBSET Nat
                       /\ e.ds \in Seq(STRING \cup {NoValue})
  /\ \A e, f \in Events : e.id = f.id => e = f    \* the id is a SHA-256 hash

ASSUME EventsAssumption

IsReplaceable(e) ==
  e.kind = 0 \/ e.kind = 3 \/ e.kind = 41 \/ (e.kind >= 10000 /\ e.kind < 20000)

IsParamReplaceable(e) == e.kind >= 30000 /\ e.kind < 40000

IsEphemeral(e) == e.kind >= 20000 /\ e.kind < 30000

DistinctParam(e) ==
  IF e.ds = <<>> THEN "" ELSE IF e.ds[1] = NoValue THEN "" ELSE e.ds[1]

IsDeletion(e) == e.kind = 5

IsExpiredAt(e, t) == \E x \in e.exp : x <= t

SameAuthorKind(e, f) == e.author = f.author /\ e.kind = f.kind

\* Two events that replace one another: one author, one kind, and for the
\* parameterised kinds one distinct parameter.
SameAddress(e, f) ==
  /\ SameAuthorKind(e, f)
  /\ \/ IsReplaceable(e)
     \/ IsParamReplaceable(e) /\ DistinctParam(e) = DistinctParam(f)

\* d is a deletion that names e and is by the author of e; deletions themselves
\* cannot be deleted.
IsDeletedBy(e, d) ==
  IsDeletion(d) /\ ~IsDeletion(e) /\ d.author = e.author /\ e.id \in d.refs

\* The events that use "d" tags the way clients do: a parameterised event has
\* one "d" tag, with a value.
IsPlain(e) == IsParamReplaceable(e) => Len(e.ds) = 1 /\ e.ds[1] # NoValue
=============================================================================

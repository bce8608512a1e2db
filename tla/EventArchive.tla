---------------------------- MODULE EventArchive ----------------------------
(***************************************************************************)
(* What the event store promises to those who query it and to those who    *)
(* wait for its answer, with no table, no hidden rows and no clean-up:     *)
(* the set of events a query can return, and the last answer.              *)
(***************************************************************************)
EXTENDS NostrEvent

VARIABLES shown,  (* the events a query can return                            *)
          now,    (* the wall clock                                           *)
          reply   (* the last answer to a writer                              *)

vars == <<shown, now, reply>>

NoReply == [outcome |-> "none"]
Failed == [outcome |-> "error"]
Reply(e, outcome) == [event |-> e, outcome |-> outcome]

Supersedes(e, f) == SameAddress(e, f) /\ e.at > f.at

\* e is new: it is shown unless it has just expired, and what it supersedes or
\* deletes is not shown any more. Nothing that is shown outranks it.
Archive(e) ==
  /\ \A f \in shown : /\ ~(SameAddress(e, f) /\ f.at >= e.at)
                      /\ ~IsDeletedBy(e, f)
  /\ shown' = {f \in shown \cup {e} : /\ ~IsExpiredAt(f, now)
                                      /\ ~Supersedes(e, f)
                                      /\ ~IsDeletedBy(f, e)}
  /\ reply' = Reply(e, "new")
  /\ UNCHANGED now

\* e is not news: it is not shown from now on if it was not shown before. If it
\* had been deleted before it arrived it still supersedes older versions.
Absorb(e) ==
  /\ \/ UNCHANGED shown
     \/ shown' = {f \in shown : ~Supersedes(e, f)}
  /\ reply' = Reply(e, "nothing")
  /\ UNCHANGED now

Fail ==
  /\ reply' = Failed
  /\ UNCHANGED <<shown, now>>

Pass ==
  /\ now' = now + 1
  /\ shown' = {f \in shown : ~IsExpiredAt(f, now')}
  /\ UNCHANGED reply

Init == shown = {} /\ now = 0 /\ reply = NoReply

Next ==
  \/ \E e \in Events : Archive(e) \/ Absorb(e)
  \/ Fail
  \/ Pass

Spec == Init /\ [][Next]_vars

\* A query never shows two versions of one address, an event together with its
\* deletion, or an event past its expiration.
Consistent ==
  \A e \in shown :
    /\ ~IsExpiredAt(e, now)
    /\ \A f \in shown : /\ SameAddress(e, f) => e = f
                        /\ ~IsDeletedBy(e, f)
=============================================================================

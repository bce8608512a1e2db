------------------------------ MODULE MCSession ------------------------------
(* An instance of Session: two connections; an ephemeral event and one of a       *)
(* blocked kind with the same key of the duplicate filter, a direct message, one  *)
(* that is of the future and expires before, and one event for each refusal.      *)
EXTENDS Session, TLC

CONSTANTS c1, c2, u1, u2, u3

Event(author, kind, text) ==
  [author |-> author, kind |-> kind, at |-> 0, exp |-> {}, text |-> text,
   to |-> <<>>, form |-> "valid"]

MCEvents ==
  {Event(u1, 20000, "x"), Event(u1, 7, "x"),
   [Event(u1, 1, "x") EXCEPT !.exp = {1}, !.at = 2],
   [Event(u1, 4, "y") EXCEPT !.to = <<u2, u3>>],
   [Event(u2, 1, "x") EXCEPT !.form = "invalid"],
   [Event(u2, 1, "x") EXCEPT !.form = "panics"], Event(u3, 1, "x")}

Auth(by, at, challenge) ==
  [by |-> by, at |-> at, challenge |-> challenge, valid |-> TRUE, relay |-> TRUE]

MCAuthEvents ==
  {Auth(u2, 0, c2), Auth(u3, 1, c2), [Auth(u1, 1, c1) EXCEPT !.relay = FALSE]}

\* The author of the direct message proves who it is.
AuthorSignsIn == {Auth(u1, 0, c1)}

MCAsks == (c1 :> 2) @@ (c2 :> 1)
=============================================================================

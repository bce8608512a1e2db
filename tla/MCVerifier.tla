----------------------------- MODULE MCVerifier -----------------------------
(* Profiles and settings for model checking Verifier. *)
EXTENDS Verifier

\* One author changes from a name to another, and a second author claims the first.
Mine == [author |-> "a", at |-> 1, name |-> "n"]
Renamed == [author |-> "a", at |-> 2, name |-> "m"]
Yours == [author |-> "b", at |-> 1, name |-> "n"]
TwoNames == {Mine, Renamed, Yours}

\* Passive, enabled, and enabled with the domain of the name denied.
Settings == {[enabled |-> FALSE, denied |-> {}],
             [enabled |-> TRUE, denied |-> {}],
             [enabled |-> TRUE, denied |-> {"n"}]}
=============================================================================

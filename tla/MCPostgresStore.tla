--------------------------- MODULE MCPostgresStore ---------------------------
(* An instance of PostgresStore: the event writer and the verifier, which writes  *)
(* the profiles of verified authors.                                              *)
EXTENDS PostgresStore, TLC

Ev(id, author, kind, at, ds, refs, exp) ==
  [id |-> id, author |-> author, kind |-> kind, at |-> at,
   ds |-> ds, refs |-> refs, exp |-> exp]

\* Versions of a profile, two of one time, of which one expires; versions of a
\* parameterised event; a note and deletions.
Profiles ==
  {Ev("p1", "alice", 0, 1, <<>>, {}, {}), Ev("p2", "alice", 0, 2, <<>>, {}, {}),
   Ev("p2b", "alice", 0, 2, <<>>, {}, {1}), Ev("p3", "alice", 0, 3, <<>>, {}, {})}
Others ==
  {Ev("x1", "alice", 30000, 1, <<"x">>, {}, {}), Ev("x2", "alice", 30000, 2, <<"x">>, {}, {}),
   Ev("del", "alice", 5, 1, <<>>, {"p2", "x1"}, {}), Ev("bare", "alice", 5, 1, <<>>, {}, {})}

MCEvents == Profiles \cup Others
MCCalls == "db_writer" :> MCEvents @@ "verifier" :> Profiles
=============================================================================

---------------------------- MODULE MCEventStore ----------------------------
(* Event families for model checking EventStore. *)
EXTENDS EventStore

Ev(id, author, kind, at, ds, refs, exp) ==
  [id |-> id, author |-> author, kind |-> kind, at |-> at,
   ds |-> ds, refs |-> refs, exp |-> exp]

\* Alice's profile in three versions, two with one created_at of which one
\* expires; Bob's note, which expires too; two versions and another address of
\* a parameterised kind; deletions by Alice (one expires), one of them naming
\* Bob's note and the other deletion; Bob's deletions of his note and of what is
\* not his.
PlainEvents ==
  { Ev("p1", "alice", 0, 1, <<>>, {}, {}),
    Ev("p2", "alice", 0, 2, <<>>, {}, {}),
    Ev("p2b", "alice", 0, 2, <<>>, {}, {1}),
    Ev("note", "bob", 1, 1, <<>>, {}, {1}),
    Ev("x1", "alice", 30000, 1, <<"x">>, {}, {}),
    Ev("x2", "alice", 30000, 2, <<"x">>, {}, {}),
    Ev("y1", "alice", 30000, 1, <<"y">>, {}, {}),
    Ev("del", "alice", 5, 1, <<>>, {"p2", "x2", "note", "del2"}, {}),
    Ev("del2", "alice", 5, 2, <<>>, {"p1"}, {1}),
    Ev("bdel", "bob", 5, 1, <<>>, {"note", "x1"}, {}) }

\* The address "" as the unit tests of distinct_param spell it: no "d" tag, a
\* "d" tag without value, an explicit empty value.
ImplicitEvents ==
  { Ev("none", "alice", 30000, 1, <<>>, {}, {}),
    Ev("bare", "alice", 30000, 2, <<NoValue>>, {}, {}),
    Ev("empty", "alice", 30000, 3, <<"">>, {}, {}) }

\* An event that repeats its "d" tag.
RepeatedDEvents ==
  { Ev("x1", "alice", 30000, 1, <<"x">>, {}, {}),
    Ev("xx2", "alice", 30000, 2, <<"x", "x">>, {}, {}) }
=============================================================================

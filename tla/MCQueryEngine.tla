---------------------------- MODULE MCQueryEngine ----------------------------
(* Clients, requests and capacities for model checking QueryEngine. *)
EXTENDS QueryEngine, TLC

\* Ids are interchangeable.
Symmetry == Permutations(SubIds)

\* Two filters that overlap, and only what is to come.
Stored == <<{"e1"}, {"e1", "e2"}>>
Live == <<{"e2"}>>
MixedRequests == {Stored, Live}
LiveRequests == {Live}

\* A request that can have a row and one that never has.
Once == <<{"e1"}>>
Never == <<{}>>
OneEventRequests == {Once, Never}
NoRequests == {}
=============================================================================

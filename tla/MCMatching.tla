----------------------------- MODULE MCMatching -----------------------------
(* Matching with four publishable events, two authors, and a filter for     *)
(* each thing the matchers may treat differently.                           *)
EXTENDS Matching

MCKeys == {"a", "b", "i1", "i2", "i3", "i4", "i5"}

Key(k) == [starts |-> {k}, blob |-> {k}]
Upper(k) == [starts |-> {}, blob |-> {k}]
Prefix(S) == [starts |-> S, blob |-> {}]

Cond(f, o, v) == <<[field |-> f, op |-> o, values |-> v]>>
Delegation(d, s, p) == <<[by |-> d, sig |-> s, parts |-> p]>>
UntilThree == <<Cond("kind", "=", <<1, 4>>), Cond("created_at", "<", <<3>>)>>

Event(i, a, k, t, x, g, d) ==
  [id |-> i, author |-> a, kind |-> k, at |-> t, exp |-> x, tags |-> g, delegations |-> d]

MCEvents ==
  {Event("i1", "a", 1, 1, {}, <<<<"t", "x">>>>, <<>>),
   Event("i2", "b", 1, 2, {}, <<<<"t", "x">>, <<"t", "y">>>>, Delegation("a", "good", UntilThree)),
   Event("i3", "a", 2, 2, {2}, <<<<"t", "ab">>, <<"t", "abc">>, <<"t">>, <<"topic", "x">>>>, <<>>),
   Event("i4", "b", 1, 3, {}, <<<<"t", "y">>>>, Delegation("a", "good", UntilThree)),
   Event("i5", "b", 1, 3, {}, <<>>, Delegation("a", "malformed", UntilThree))}

Plain ==
  [ids |-> {}, authors |-> {}, kinds |-> {}, since |-> {}, until |-> {}, limit |-> {},
   tags |-> <<>>, wrong |-> {}]
TagKey(o, v) == [name |-> "t", op |-> o, values |-> v, ok |-> TRUE]

Both == {{Key("a"), Key("b")}}

OfA == [Plain EXCEPT !.authors = {{Key("a")}}, !.kinds = {{1, 2}}]
XorY == [Plain EXCEPT !.kinds = {{1}}, !.tags = <<TagKey("or", {"x", "y"})>>, !.limit = {1}]
XandY ==
  [Plain EXCEPT !.authors = Both, !.tags = <<TagKey("or", {"ab"}), TagKey("and", {"x", "y"})>>]
OddOrX == [Plain EXCEPT !.kinds = {{1, 2}}, !.tags = <<TagKey("or", {"abc", "x"})>>]
OddOrEven == [Plain EXCEPT !.kinds = {{1, 2}}, !.tags = <<TagKey("or", {"abc", "ab"})>>]
NoValues == [Plain EXCEPT !.authors = {{Key("a")}}, !.tags = <<TagKey("or", {})>>]
ByPrefix == [Plain EXCEPT !.ids = {{Prefix({"i1", "i2"}), Key("i3")}}]
ByUpper == [Plain EXCEPT !.authors = {{Upper("a")}}, !.kinds = {{1, 2}}]
IdAndTag == [Plain EXCEPT !.ids = {{Key("i1")}}, !.tags = <<TagKey("or", {"x"})>>]
Nobody == [Plain EXCEPT !.authors = {{}}, !.kinds = {{1}}]
Times == [Plain EXCEPT !.authors = Both, !.kinds = {{1, 2}}, !.since = {1}, !.until = {2}]
TooLate == [Plain EXCEPT !.authors = Both, !.kinds = {{1}}, !.until = {9}]
LiveOnly == [Plain EXCEPT !.authors = Both, !.kinds = {{1}}, !.limit = {0}]
Latest == [Plain EXCEPT !.authors = Both, !.kinds = {{1, 2}}, !.limit = {2}]
WrongKind ==
  [Plain EXCEPT !.authors = {{Key("b")}}, !.tags = <<TagKey("or", {"y"})>>, !.kinds = {{7}},
                !.wrong = {"kinds"}]
EmptyPrefix == [Plain EXCEPT !.ids = {{EmptyText}}]
KindsOnly == [Plain EXCEPT !.kinds = {{1, 2}}]

MCRawFilters ==
  {OfA, XorY, XandY, OddOrX, OddOrEven, NoValues, ByPrefix, ByUpper, IdAndTag, Nobody,
   Times, TooLate, LiveOnly, Latest, WrongKind, EmptyPrefix, KindsOnly}

MCRequests ==
  {{r} : r \in MCRawFilters} \cup {{OfA, Latest}, {LiveOnly, XandY}, {EmptyPrefix, OfA}}
=============================================================================

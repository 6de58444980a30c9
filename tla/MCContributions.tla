------------------------- MODULE MCContributions -------------------------
(***************************************************************************)
(* Two documents with a source person in common, which is equivalent to    *)
(* one of another platform in one of them, and whose namesakes are an      *)
(* internal person by its identifiers and one by its name; organizations   *)
(* that share an identifier, with states that contradict each other; one   *)
(* that is only a name, and one without even that.                         *)
(***************************************************************************)
EXTENDS Contributions

CONSTANTS w1, w2

From(contributor, affiliations) == [contributor |-> contributor, affiliations |-> affiliations]
Holding(owners, from) == [owners |-> owners, contributions |-> from]

MCRecorded == [r \in {"r", "s", "t", "u", "v"} |->
    CASE r = "r" -> Holding({}, {From("a", {"lab"}), From("c", {})})
      [] r = "s" -> Holding({}, {From("b", {"unit"})})
      [] r = "t" -> Holding({"ann"}, {From("a", {"old", "name"})})
      [] r = "u" -> Holding({}, {From("c", {})})
      [] r = "v" -> Holding({}, {From("c", {"blank"})})]

MCRank == [p \in {"a", "b", "c"} |-> IF p = "b" THEN 2 ELSE 1]
MCIdentifiers ==
    [p \in {"ann", "a", "b", "c"} |-> IF p \in {"ann", "a"} THEN {"orcid"} ELSE {"idref"}]
MCSimilar == {<<"ann", "c">>}
MCDistance == [p \in {<<"a", "b">>} |-> 1]

Organization(name, ids) == [name |-> name, ids |-> ids]
MCDescribed == [o \in {"lab", "unit", "old", "name", "blank"} |->
    CASE o = "lab" -> Organization("n", {<<"ror", "x">>})
      [] o = "unit" -> Organization("n", {<<"ror", "x">>, <<"idref", "u">>})
      [] o = "old" -> Organization("m", {<<"ror", "x">>, <<"idref", "v">>})
      [] o = "name" -> Organization("n", {})
      [] o = "blank" -> Organization("", {})]
MCNameLength == [n \in {"n", "m"} |-> IF n = "n" THEN 2 ELSE 1]

MCEvent == {<<"s", "d">>, <<"t", "e">>}
MCPast ==
    {[events |-> <<>>, coming |-> 2],
     [events |-> <<<<"r", "d">>, <<"t", "e">>>>, coming |-> 1],
     [events |-> <<<<"r", "d">>, <<"s", "e">>>>, coming |-> 1],
     [events |-> <<<<"r", "d">>, <<"s", "e">>, <<"t", "e">>, <<"s", "d">>, <<"s", "e">>>>,
      coming |-> 0],
     [events |-> <<<<"u", "d">>, <<"t", "d">>>>, coming |-> 1],
     [events |-> <<<<"u", "d">>, <<"t", "d">>, <<"u", "e">>, <<"v", "d">>>>, coming |-> 0],
     [events |-> <<<<"u", "d">>, <<"s", "e">>>>, coming |-> 1]}
===========================================================================

------------------------- MODULE MCSourceRecords -------------------------
(***************************************************************************)
(* Two records with a contributor in common, a subject with labels in two  *)
(* languages and one without uri, and a journal of two ISSNs.              *)
(***************************************************************************)
EXTENDS SourceRecords

CONSTANTS w1, w2

MCPortal == [i \in {"p", "e"} |-> [journal |-> "j", issns |-> {"p", "e"}]]

Described(c, pref, alt) == [concept |-> c, pref |-> pref, alt |-> alt]
From(contributor, affiliations) == [contributor |-> contributor, affiliations |-> affiliations]

First == [event |-> "created", record |-> "r", owner |-> "ann",
          contributions |-> <<From("a", {"o"}), From("b", {})>>,
          subjects |-> <<Described("c", {<<"en", "x">>}, {})>>,
          issue |-> "v1", journals |-> {"s"}, issns |-> {"p"}]

MCMessage ==
    {First,
     [First EXCEPT !.event = "updated", !.owner = "bob", !.contributions = <<From("b", {"o"})>>,
                   !.subjects = <<Described("c", {<<"en", "y">>, <<"fr", "z">>}, {<<"fr", "t">>})>>,
                   !.issue = "v2", !.journals = {}],
     [First EXCEPT !.event = "enhanced", !.record = "q", !.contributions = <<From("a", {"o"})>>,
                   !.subjects = <<Described("k", {<<"en", "k">>}, {})>>, !.issns = {"e", "n"}],
     [First EXCEPT !.event = "unchanged", !.record = "q"]}
===========================================================================

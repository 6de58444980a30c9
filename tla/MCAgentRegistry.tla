------------------------- MODULE MCAgentRegistry -------------------------
(***************************************************************************)
(* Two people and two units, of which one has the local identifier of a    *)
(* person; an ORCID both people may list.                                  *)
(***************************************************************************)
EXTENDS AgentRegistry

CONSTANTS w1, w2

MCPerson == {"ann", "bob"}
MCUnit == {"bob", "lab"}
MCInstitution == {"uai"}
MCIdentifier ==
    {Key("ann"), Key("bob"), Key("lab"), <<"orcid", "a">>, <<"orcid", "b">>, <<"idhals", "h">>,
     <<"idhals", "k">>}

About(topic, event, agent, identifiers) ==
    [topic |-> topic, event |-> event, agent |-> agent, identifiers |-> identifiers,
     units |-> {}, employers |-> <<>>, described |-> TRUE]

MCMessage ==
    {[About("person", "created", "ann", {Key("ann")})
        EXCEPT !.units = {"bob", "lab"}, !.employers = <<"uai">>],
     [About("person", "updated", "ann", {Key("ann"), <<"orcid", "a">>}) EXCEPT !.units = {"lab"}],
     About("person", "unchanged", "ann", {Key("ann"), <<"idhals", "h">>}),
     About("person", "updated", "bob", {Key("bob"), <<"orcid", "a">>}),
     About("person", "created", "bob", {<<"orcid", "b">>}),
     About("authenticate", "added", "ann", {<<"idhals", "k">>}),
     About("unit", "unchanged", "bob", {Key("bob")}),
     [About("unit", "created", "lab", {Key("lab")}) EXCEPT !.described = FALSE]}
===========================================================================

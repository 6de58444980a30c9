------------------------- MODULE MCDocumentChanges -------------------------
(***************************************************************************)
(* The changes of one document, in the order of their timestamps.          *)
(***************************************************************************)
EXTENDS DocumentChanges

\* Both changes replace the type.
TwoTypes == <<"article", "book">>

\* The first change removes the title the second one adds again; the third
\* and the fourth are about the type.
TitlesAndTypes == <<"title", "title", "article", "book">>

TitleOnly == <<"title">>

Types == {"article", "book"}

First == {1}
FirstTwo == {1, 2}
Third == {3}
Fourth == {4}
ButFirst == {2, 3, 4}
None == {}

Concurrency == {"handler_error", "recompute_error", "channel", "crash"}
Outages == {"handler_error", "replay_error", "recompute_error", "crash"}
============================================================================

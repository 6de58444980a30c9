------------------------ MODULE MCDocumentClusters ------------------------
EXTENDS DocumentClusters, TLC
CONSTANTS doi, hal
Identifiers == {doi, hal}
Symmetry == Permutations(Identifiers)
===========================================================================

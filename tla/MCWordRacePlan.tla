--------------------------- MODULE MCWordRacePlan ---------------------------
\* Songs of every shape against the windows and the gaps; the words are alike.
EXTENDS WordRacePlan

Alike == Permutations(Words)
=============================================================================

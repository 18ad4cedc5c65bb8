---------------------------- MODULE MCGraphIndex ----------------------------
(* GraphIndex for TLC: documents, texts, names and clients are               *)
(* interchangeable.                                                          *)
EXTENDS GraphIndex, TLC

Symmetry == Permutations(Docs) \cup Permutations(Contents)
                \cup Permutations(Names) \cup Permutations(Clients)
=============================================================================

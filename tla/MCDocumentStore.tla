-------------------------- MODULE MCDocumentStore --------------------------
(* DocumentStore for TLC: the uploads' ids and the clients are interchangeable, *)
(* and so are the contents that no source file of a seed holds.                 *)
EXTENDS DocumentStore, TLC

Symmetry == Permutations(Docs \ Seeds) \cup Permutations(Versions \ {SeedText})
            \cup Permutations(Clients)
=============================================================================

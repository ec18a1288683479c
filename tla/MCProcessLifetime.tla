------------------------- MODULE MCProcessLifetime -------------------------
(* A few processes, threads and creators, which are interchangeable.       *)
EXTENDS ProcessLifetime, TLC

Symmetry == Permutations(Processes) \union Permutations(Threads)
            \union Permutations(Creators)
=============================================================================

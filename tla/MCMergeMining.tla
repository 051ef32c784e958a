----------------------------- MODULE MCMergeMining -----------------------------
(* A small instance of MergeMining: the history holds fewer entries than the   *)
(* identifiers that are issued, so eviction, refusal and reuse all happen.     *)
EXTENDS MergeMining, TLC

CONSTANTS t1, t2, j1, rsk, other, c1, c2, cb, n1, n2

\* Values that only ever get stored and compared are interchangeable.
Symmetry ==
    Permutations({t1, t2}) \cup Permutations({c1, c2}) \cup Permutations({n1, n2})

=============================================================================

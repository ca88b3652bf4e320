-------------------------- MODULE MCModelRegistry --------------------------
(* Instances of ModelRegistry for TLC. *)
EXTENDS ModelRegistry, TLC

CONSTANTS c1, c2, m1, m2, p1, p2, NoProv

MCSymmetry == Permutations({c1, c2}) \cup Permutations({m1, m2}) \cup Permutations({p1, p2})

\* Bound: lists of at most two entries.
ShortLists == {l \in [Models -> 0..MaxCopies] : l[m1] + l[m2] <= 2}
==============================================================================

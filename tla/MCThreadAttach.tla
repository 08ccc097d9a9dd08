--------------------------- MODULE MCThreadAttach ---------------------------
(* Model-checking instances of ThreadAttach.                               *)
EXTENDS ThreadAttach, TLC

\* Host threads are interchangeable, and so are created ones.
Symmetry == Permutations(Hosts) \cup Permutations(Threads \ Hosts)
=============================================================================

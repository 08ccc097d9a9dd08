--------------------------- MODULE MCWaitObjects ----------------------------
(* Model-checking instance of WaitObjects.                                 *)
EXTENDS WaitObjects

CONSTANTS auto, nauto, manual, nmanual, sem, nsem, j, k

\* What a behaviour waits for: one object of each kind and back end, a join
\* of two threads, and arrays that mix kinds.
MenusDef ==
    {{<<o>>} : o \in {auto, manual, nauto, nmanual, sem, nsem}}
        \cup {{<<j, k>>}, {<<auto, nsem>>}, {<<sem>>, <<j, sem>>}}
=============================================================================

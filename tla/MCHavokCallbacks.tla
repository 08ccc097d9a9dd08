-------------------------- MODULE MCHavokCallbacks --------------------------
(* Model-checking instance of HavokCallbacks.                              *)
EXTENDS HavokCallbacks

CONSTANTS f, g

\* A shape with all handlers, one without a delete handler, and one whose
\* handlers are others.
ChoicesDef ==
    {[enter |-> f, leave |-> f, delete |-> f],
     [enter |-> g, leave |-> f, delete |-> None],
     [enter |-> g, leave |-> None, delete |-> g]}
=============================================================================

----------------------------- MODULE MCStartup ------------------------------
(* Model-checking instance of Startup.                                     *)
EXTENDS Startup

CONSTANTS game, other, one, two, three

\* Two threads of a game and one of another program on the same files.
InDef == [t \in {one, two, three} |-> IF t = three THEN other ELSE game]
KindsOfDef ==
    [p \in {game, other} |-> IF p = game THEN Kinds \ {"tool"} ELSE {"tool", "physics"}]
=============================================================================

---------------------------- MODULE MCDllLoader -----------------------------
(* Model-checking instances of DllLoader.                                  *)
EXTENDS DllLoader

CONSTANTS app, mid, side, base, absent, f, g

\* The wrapper's DLL imports two others, which share two more; base and mid
\* export a symbol of one name, and side has no named export.
SharedExports == [m \in Present |->
    IF m = base THEN {f, g} ELSE IF m = mid THEN {f} ELSE {}]
SharedImports == [m \in Present |->
    IF m = app THEN <<<<mid, f>>, <<side, g>>, <<absent, g>>>>
    ELSE IF m = mid THEN <<<<base, f>>, <<side, g>>>>
    ELSE IF m = side THEN <<<<base, g>>>>
    ELSE <<>>]

\* What the theorems assume of the DLLs holds of these.
SharedRank == [m \in Present |->
    IF m = app THEN 3 ELSE IF m = mid THEN 2 ELSE IF m = side THEN 1 ELSE 0]
ASSUME SharedAssumption == Ordered(SharedRank) /\ Room
=============================================================================

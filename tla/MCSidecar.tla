------------------------------ MODULE MCSidecar -----------------------------
(***************************************************************************)
(* Model-checking instance of the sidecar: how it is made and loaded       *)
(* (Startup), and what a stack walk reads in it (Unwind).  Startup knows a *)
(* file by the version it is of, Unwind looks into one, so they share no   *)
(* state and a behaviour is one of the two.                                *)
(***************************************************************************)
EXTENDS MCStartup, MCUnwind

VARIABLE part

sidecar_vars == <<vars, unwind_vars, part>>

\* The half that is not looked at stays in one of its initial states.
SidecarInit ==
    /\ part \in {"loading", "unwinding"}
    /\ Init /\ (part = "unwinding" => \A p \in Processes : kind[p] = "physics")
    /\ UnwindInit /\ (part = "loading" => info = <<Unit(<<>>)>> /\ Cardinality(layout.sections) = 2)

SidecarNext ==
    \/ part = "loading" /\ Next /\ UNCHANGED <<unwind_vars, part>>
    \/ part = "unwinding" /\ UnwindNext /\ UNCHANGED <<vars, part>>

SidecarSpec ==
    /\ SidecarInit /\ [][SidecarNext]_sidecar_vars
    /\ \A p \in Processes : WF_vars(Loads(p))
=============================================================================

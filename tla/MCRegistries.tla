---------------------------- MODULE MCRegistries ----------------------------
(***************************************************************************)
(* Model-checking instance of the registries that know a thing by its      *)
(* address, which its owner gives to another later: worlds and sessions    *)
(* (ContactRoutes), shapes (HavokCallbacks), pages (VirtualMemory).  They  *)
(* share no state, so a behaviour is one of the three.                     *)
(***************************************************************************)
EXTENDS ContactRoutes, MCHavokCallbacks, MCVirtualMemory

VARIABLE registry   \* the one that is used

vars == <<contact_vars, havok_vars, memory_vars, registry>>

Init ==
    /\ ContactInit /\ HavokInit /\ MemoryInit
    /\ registry \in {"contacts", "phantoms", "reservations"}

Next ==
    \/ registry = "contacts" /\ ContactNext /\ UNCHANGED <<havok_vars, memory_vars, registry>>
    \/ registry = "phantoms" /\ HavokNext /\ UNCHANGED <<contact_vars, memory_vars, registry>>
    \/ registry = "reservations" /\ MemoryNext /\ UNCHANGED <<contact_vars, havok_vars, registry>>

Spec == Init /\ [][Next]_vars
=============================================================================

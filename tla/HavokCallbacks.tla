---------------------------- MODULE HavokCallbacks --------------------------
(***************************************************************************)
(* The callbacks Havok makes through bridges that know only an address or  *)
(* nothing at all (src/src/Havok.cpp): a phantom shape's enter, leave and  *)
(* delete handlers are looked up by the shape, the reader of a query in a  *)
(* slot that belongs to the query under way.                               *)
(*                                                                         *)
(* A section under g_phantom_shape_mutex is one action, a call into the    *)
(* engine or the host another.  The engine reuses the addresses of shapes. *)
(***************************************************************************)
EXTENDS Naturals

CONSTANTS
    Threads,
    Shapes,     \* addresses
    Handlers,   \* functions of the host
    Choices,    \* what the host may pass for enter, leave and delete
    Slots,      \* the queries with a reader: constraint reader, shape loader
    None        \* no shape, no handler, no thread

Kinds == {"enter", "leave", "delete"}
Callbacks == [Kinds -> Handlers \cup {None}]

ASSUME HavokAssumption ==
    /\ Choices \subseteq Callbacks
    /\ None \notin Shapes \cup Handlers \cup Threads

NoBinding == [k \in Kinds |-> None]

VARIABLES
    bound,      \* shapes with an entry in g_phantom_shape_bindings
    bindings,   \* that entry
    alive,      \* engine: shapes that exist
    given,      \* what the host gave the shape at an address
    held,       \* shapes the host has a reference to
    target,     \* per slot: g_constraint_reader_target and its like
    holder,     \* per slot: who holds its mutex
    pc,         \* what a thread is doing
    shape,      \* the shape it does it to
    kind,       \* the kind of handler, or the slot of its query
    handler,    \* what its bridge has found
    reader,     \* what the host passed to its query
    aborted     \* std::abort was called

phantom == <<bound, bindings, alive, given, held>>
query == <<target, holder>>
thread == <<pc, shape, kind, handler>>
havok_vars == <<phantom, query, thread, reader, aborted>>

HavokInit ==
    /\ bound = {}
    /\ bindings = [a \in Shapes |-> NoBinding]
    /\ alive = {}
    /\ given = [a \in Shapes |-> NoBinding]
    /\ held = {}
    /\ target = [q \in Slots |-> None]
    /\ holder = [q \in Slots |-> None]
    /\ pc = [t \in Threads |-> "idle"]
    /\ shape = [t \in Threads |-> None]
    /\ kind = [t \in Threads |-> None]
    /\ handler = [t \in Threads |-> None]
    /\ reader = [t \in Threads |-> None]
    /\ aborted = FALSE

At(t, l, a, k, h) ==
    /\ ~aborted
    /\ pc' = [pc EXCEPT ![t] = l]
    /\ shape' = [shape EXCEPT ![t] = a]
    /\ kind' = [kind EXCEPT ![t] = k]
    /\ handler' = [handler EXCEPT ![t] = h]

Return(t) == At(t, "idle", None, None, None)

---------------------------------------------------------------------------
(* HkPhantomCallbackShape_Create.  A bridge is passed for each handler the *)
(* host gave.                                                              *)

EngineCreates(t, a, c) ==
    /\ pc[t] = "idle"
    /\ a \notin alive
    /\ alive' = alive \cup {a}
    /\ given' = [given EXCEPT ![a] = c]
    /\ At(t, "created", a, None, None)
    /\ UNCHANGED <<bound, bindings, held, query, reader, aborted>>

Registered(t, entry) ==
    /\ pc[t] = "created"
    /\ bound' = bound \cup {shape[t]}
    /\ bindings' = [bindings EXCEPT ![shape[t]] = entry]
    /\ held' = held \cup {shape[t]}
    /\ Return(t)
    /\ UNCHANGED <<alive, given, query, reader, aborted>>

\* (variant) An entry that is there is kept.
RegisterOnce(t) ==
    Registered(t, IF shape[t] \in bound THEN bindings[shape[t]] ELSE given[shape[t]])

RegisterPhantomCallbacks(t) == Registered(t, given[shape[t]])

---------------------------------------------------------------------------
(* The bridges.                                                            *)

\* Some thread steps a world with the shape in it.
EngineMeets(t, a, k) ==
    /\ pc[t] = "idle"
    /\ a \in held /\ k \in {"enter", "leave"}
    /\ given[a][k] # None
    /\ At(t, "bridge", a, k, None)
    /\ UNCHANGED <<phantom, query, reader, aborted>>

InUse(a) == \E t \in Threads : shape[t] = a

\* The last reference goes.
EngineDeletes(t, a) ==
    /\ pc[t] = "idle"
    /\ a \in held /\ ~InUse(a)
    /\ held' = held \ {a}
    /\ IF given[a]["delete"] # None
       THEN At(t, "bridge", a, "delete", None)
       ELSE At(t, "freeing", a, None, None)
    /\ UNCHANGED <<bound, bindings, alive, given, query, reader, aborted>>

GetPhantomCallbacks(t, remove) ==
    /\ pc[t] = "bridge"
    /\ bound' = IF remove THEN bound \ {shape[t]} ELSE bound
    /\ IF shape[t] \in bound
       THEN At(t, "calling", shape[t], kind[t], bindings[shape[t]][kind[t]]) /\ UNCHANGED aborted
       ELSE ~aborted /\ aborted' = TRUE /\ UNCHANGED thread
    /\ UNCHANGED <<bindings, alive, given, held, query, reader>>

\* (variant) The leave bridge removes the entry too.
LookUpAndRemove(t) == GetPhantomCallbacks(t, kind[t] # "enter")

LookUp(t) == GetPhantomCallbacks(t, kind[t] = "delete")

\* The handler returns, and with it the bridge.
HandlerReturns(t) ==
    /\ pc[t] = "calling"
    /\ IF kind[t] = "delete" THEN At(t, "freeing", shape[t], None, None) ELSE Return(t)
    /\ UNCHANGED <<phantom, query, reader, aborted>>

EngineFrees(t) ==
    /\ pc[t] = "freeing"
    /\ alive' = alive \ {shape[t]}
    /\ given' = [given EXCEPT ![shape[t]] = NoBinding]
    /\ Return(t)
    /\ UNCHANGED <<bound, bindings, held, query, reader, aborted>>

---------------------------------------------------------------------------
(* HkConstraint_FindConnectedConstraints and                               *)
(* HkShapeLoader_CleanupShapesBuffer: one mutex and one target each.       *)

Asking(t, q, h) ==
    /\ pc[t] = "idle"
    /\ holder' = [holder EXCEPT ![q] = t]
    /\ target' = [target EXCEPT ![q] = h]
    /\ reader' = [reader EXCEPT ![t] = h]
    /\ At(t, "asking", None, q, None)
    /\ UNCHANGED <<phantom, aborted>>

\* (variant) The mutex is not taken.
AskUnlocked(t, q, h) == Asking(t, q, h)

Ask(t, q, h) == holder[q] = None /\ Asking(t, q, h)

\* The engine calls the bridge, which reads the target: any number of times.
ReaderBridge(t) ==
    /\ pc[t] = "asking" /\ reader[t] # None
    /\ IF target[kind[t]] = None
       THEN ~aborted /\ aborted' = TRUE /\ UNCHANGED thread
       ELSE At(t, "reading", None, kind[t], target[kind[t]]) /\ UNCHANGED aborted
    /\ UNCHANGED <<phantom, query, reader>>

ReaderReturns(t) ==
    /\ pc[t] = "reading"
    /\ At(t, "asking", None, kind[t], None)
    /\ UNCHANGED <<phantom, query, reader, aborted>>

Answered(t) ==
    /\ pc[t] = "asking"
    /\ target' = [target EXCEPT ![kind[t]] = None]
    /\ holder' = [holder EXCEPT ![kind[t]] = None]
    /\ reader' = [reader EXCEPT ![t] = None]
    /\ Return(t)
    /\ UNCHANGED <<phantom, aborted>>

---------------------------------------------------------------------------

HavokNext ==
    \E t \in Threads :
        \/ \E a \in Shapes, c \in Choices : EngineCreates(t, a, c)
        \/ RegisterPhantomCallbacks(t)
        \/ \E a \in Shapes, k \in Kinds : EngineMeets(t, a, k)
        \/ \E a \in Shapes : EngineDeletes(t, a)
        \/ LookUp(t)
        \/ HandlerReturns(t)
        \/ EngineFrees(t)
        \/ \E q \in Slots, h \in Handlers \cup {None} : Ask(t, q, h)
        \/ ReaderBridge(t)
        \/ ReaderReturns(t)
        \/ Answered(t)

HavokSpec == HavokInit /\ [][HavokNext]_havok_vars

---------------------------------------------------------------------------
(* Properties.                                                             *)

\* Every variable has its kind of value.
HavokTypeOK ==
    /\ bound \subseteq Shapes /\ alive \subseteq Shapes /\ held \subseteq Shapes
    /\ bindings \in [Shapes -> Callbacks] /\ given \in [Shapes -> Callbacks]
    /\ target \in [Slots -> Handlers \cup {None}]
    /\ holder \in [Slots -> Threads \cup {None}]
    /\ pc \in [Threads -> {"idle", "created", "bridge", "calling", "freeing", "asking", "reading"}]
    /\ shape \in [Threads -> Shapes \cup {None}]
    /\ kind \in [Threads -> Kinds \cup Slots \cup {None}]
    /\ handler \in [Threads -> Handlers \cup {None}]
    /\ reader \in [Threads -> Handlers \cup {None}]
    /\ aborted \in BOOLEAN

\* No callback meets a shape without an entry or a query without a target:
\* the process is never aborted for one.
EveryCallbackFindsItsTarget == ~aborted

\* The handler a bridge calls is the one the shape was created with, although
\* an earlier shape at its address may have left an entry behind.
HandlersAreTheShapes ==
    \A t \in Threads : pc[t] = "calling" => handler[t] = given[shape[t]][kind[t]]

\* A reader is called for the query it was passed to.
ReadersAreTheQuerys ==
    \A t \in Threads : pc[t] = "reading" => handler[t] = reader[t]

\* A bridge calls what the host passed for this shape or this query, never a
\* handler of an earlier shape at the address or of another thread's query.
CallbacksAreTheirOwn == HandlersAreTheShapes /\ ReadersAreTheQuerys
=============================================================================

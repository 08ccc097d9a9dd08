---------------------------- MODULE ContactRoutes ---------------------------
(***************************************************************************)
(* How a contact that the physics engine reports for a world finds the     *)
(* callback its session was constructed with (src/src/Physics.cpp).        *)
(*                                                                         *)
(* The engine knows one bridge for all sessions.  The wrapper keeps, under *)
(* contact_mutex, a callback per session and a route per world; the engine *)
(* gives the address of a session or a world that is gone to a later one.  *)
(* A section under contact_mutex is one action, a call into the engine     *)
(* another.                                                                *)
(***************************************************************************)
EXTENDS Naturals

CONSTANTS
    Callers,
    Sessions, Worlds,   \* addresses
    HostCallbacks,          \* functions of the host
    Nothing             \* no session, no world, no callback

ASSUME ContactAssumption == Nothing \notin Sessions \cup Worlds \cup HostCallbacks

VARIABLES
    contact_callbacks,  \* per session; Nothing: no entry
    contact_routes,     \* per world: a session and its callback
    constructed,        \* engine: sessions that exist
    passed,              \* the callback the host gave the session at an address
    owner,              \* engine: the session a world was allocated from
    settled,            \* worlds the host has and has not given back
    doing,                 \* what a thread is doing
    session, world,     \* the session and the world it does it to
    callback            \* what a bridge has found

maps == <<contact_callbacks, contact_routes>>
engine == <<constructed, passed, owner>>
caller == <<doing, session, world, callback>>
contact_vars == <<maps, engine, settled, caller>>

Route == [session : Sessions, callback : HostCallbacks]
NoRoute == [session |-> Nothing, callback |-> Nothing]

ContactInit ==
    /\ contact_callbacks = [s \in Sessions |-> Nothing]
    /\ contact_routes = [w \in Worlds |-> NoRoute]
    /\ constructed = {}
    /\ passed = [s \in Sessions |-> Nothing]
    /\ owner = [w \in Worlds |-> Nothing]
    /\ settled = {}
    /\ doing = [t \in Callers |-> "idle"]
    /\ session = [t \in Callers |-> Nothing]
    /\ world = [t \in Callers |-> Nothing]
    /\ callback = [t \in Callers |-> Nothing]

\* Thread t goes on at l with session s and world w.
GoesOn(t, l, s, w) ==
    /\ doing' = [doing EXCEPT ![t] = l]
    /\ session' = [session EXCEPT ![t] = s]
    /\ world' = [world EXCEPT ![t] = w]

Returns(t) == GoesOn(t, "idle", Nothing, Nothing) /\ callback' = [callback EXCEPT ![t] = Nothing]

\* The host calls into sessions that exist, and constructs and destroys one
\* when no thread is in a call on it.
Untouched(s) == \A t \in Callers : session[t] # s
Available(s) ==
    /\ s \in constructed
    /\ \A t \in Callers : session[t] = s => doing[t] \notin {"constructed", "forgotten"}

\* The engine frees a world when it has reported its last contact.
Reporting(w) == \E t \in Callers : world[t] = w /\ doing[t] \in {"reported", "calling"}

---------------------------------------------------------------------------
(* HkSession_ctor: the host constructs in storage no session is in.        *)

ConstructSession(t, s, c) ==
    /\ doing[t] = "idle"
    /\ s \notin constructed /\ Untouched(s)
    /\ constructed' = constructed \cup {s}
    /\ passed' = [passed EXCEPT ![s] = c]
    /\ GoesOn(t, "constructed", s, Nothing)
    /\ UNCHANGED <<maps, owner, settled, callback>>

RememberCallback(t) ==
    /\ doing[t] = "constructed"
    /\ contact_callbacks' =
        IF passed[session[t]] = Nothing THEN contact_callbacks
        ELSE [contact_callbacks EXCEPT ![session[t]] = passed[session[t]]]
    /\ Returns(t)
    /\ UNCHANGED <<contact_routes, engine, settled>>

---------------------------------------------------------------------------
(* AllocateWorld.                                                          *)

EngineAllocates(t, s, w) ==
    /\ doing[t] = "idle"
    /\ Available(s) /\ owner[w] = Nothing
    /\ owner' = [owner EXCEPT ![w] = s]
    /\ GoesOn(t, "allocated", s, w)
    /\ UNCHANGED <<maps, constructed, passed, settled, callback>>

AddRoute(t) ==
    /\ doing[t] = "allocated"
    /\ contact_routes' =
        IF contact_callbacks[session[t]] = Nothing THEN contact_routes
        ELSE [contact_routes EXCEPT ![world[t]] =
                [session |-> session[t], callback |-> contact_callbacks[session[t]]]]
    /\ settled' = settled \cup {world[t]}
    /\ Returns(t)
    /\ UNCHANGED <<contact_callbacks, engine>>

---------------------------------------------------------------------------
(* ReleaseWorld.                                                           *)

Releasing(t, w, routes) ==
    /\ doing[t] = "idle"
    /\ w \in settled /\ Available(owner[w])
    /\ settled' = settled \ {w}
    /\ contact_routes' = routes
    /\ GoesOn(t, "erased", owner[w], w)
    /\ UNCHANGED <<contact_callbacks, engine, callback>>

\* (variant) The route is left for the next AllocateWorld to overwrite.
LeaveRoute(t, w) == Releasing(t, w, contact_routes)

EraseRoute(t, w) == Releasing(t, w, [contact_routes EXCEPT ![w] = NoRoute])

EngineReleases(t) ==
    /\ doing[t] = "erased"
    /\ ~Reporting(world[t])
    /\ owner' = [owner EXCEPT ![world[t]] = Nothing]
    /\ Returns(t)
    /\ UNCHANGED <<maps, constructed, passed, settled>>

---------------------------------------------------------------------------
(* HkSession_dtor: the worlds of a session go with it.                     *)

WorldsOf(s) == {w \in Worlds : owner[w] = s}

Forgetting(t, s, W) ==
    /\ doing[t] = "idle"
    /\ s \in constructed /\ Untouched(s)
    /\ settled' = settled \ WorldsOf(s)
    /\ contact_routes' = [w \in Worlds |-> IF w \in W THEN NoRoute ELSE contact_routes[w]]
    /\ contact_callbacks' = [contact_callbacks EXCEPT ![s] = Nothing]
    /\ GoesOn(t, "forgotten", s, Nothing)
    /\ UNCHANGED <<engine, callback>>

\* (variant) The routes that lead to the session's callback are erased.
ForgetCallback(t, s) ==
    Forgetting(t, s, {w \in Worlds : contact_routes[w].callback = contact_callbacks[s]})

ForgetSession(t, s) ==
    Forgetting(t, s, {w \in Worlds : contact_routes[w].session = s})

EngineDestroys(t) ==
    /\ doing[t] = "forgotten"
    /\ \A w \in WorldsOf(session[t]) : ~Reporting(w)
    /\ owner' = [w \in Worlds |-> IF owner[w] = session[t] THEN Nothing ELSE owner[w]]
    /\ constructed' = constructed \ {session[t]}
    /\ passed' = [passed EXCEPT ![session[t]] = Nothing]
    /\ Returns(t)
    /\ UNCHANGED <<maps, settled>>

---------------------------------------------------------------------------
(* contact_impulse_bridge, on whichever thread the engine calls it.        *)

ReportContact(t, w) ==
    /\ doing[t] = "idle"
    /\ owner[w] # Nothing /\ passed[owner[w]] # Nothing
    /\ GoesOn(t, "reported", Nothing, w)
    /\ UNCHANGED <<maps, engine, settled, callback>>

FindRoute(t) ==
    /\ doing[t] = "reported"
    /\ callback' = [callback EXCEPT ![t] = contact_routes[world[t]].callback]
    /\ doing' = [doing EXCEPT ![t] = "calling"]
    /\ UNCHANGED <<maps, engine, settled, session, world>>

\* Nothing is called when nothing was found.
CallBack(t) ==
    /\ doing[t] = "calling"
    /\ Returns(t)
    /\ UNCHANGED <<maps, engine, settled>>

---------------------------------------------------------------------------

ContactNext ==
    \E t \in Callers :
        \/ \E s \in Sessions, c \in HostCallbacks \cup {Nothing} : ConstructSession(t, s, c)
        \/ RememberCallback(t)
        \/ \E s \in Sessions, w \in Worlds : EngineAllocates(t, s, w)
        \/ AddRoute(t)
        \/ \E w \in Worlds : EraseRoute(t, w)
        \/ EngineReleases(t)
        \/ \E s \in Sessions : ForgetSession(t, s)
        \/ EngineDestroys(t)
        \/ \E w \in Worlds : ReportContact(t, w)
        \/ FindRoute(t)
        \/ CallBack(t)

ContactSpec == ContactInit /\ [][ContactNext]_contact_vars

---------------------------------------------------------------------------
(* Properties.                                                             *)

\* Every variable has its kind of value.
ContactTypeOK ==
    /\ contact_callbacks \in [Sessions -> HostCallbacks \cup {Nothing}]
    /\ contact_routes \in [Worlds -> Route \cup {NoRoute}]
    /\ constructed \subseteq Sessions
    /\ passed \in [Sessions -> HostCallbacks \cup {Nothing}]
    /\ owner \in [Worlds -> Sessions \cup {Nothing}]
    /\ settled \subseteq Worlds
    /\ doing \in [Callers -> {"idle", "constructed", "allocated", "erased", "forgotten",
                            "reported", "calling"}]
    /\ session \in [Callers -> Sessions \cup {Nothing}]
    /\ world \in [Callers -> Worlds \cup {Nothing}]
    /\ callback \in [Callers -> HostCallbacks \cup {Nothing}]

\* What contact_impulse_bridge calls is the callback of the session whose
\* world the contact is in, whoever had that address before.
ContactsReachTheirSession ==
    \A t \in Callers :
        doing[t] = "calling" => callback[t] \in {Nothing, passed[owner[world[t]]]}

\* From the return of AllocateWorld to the call of ReleaseWorld or of the
\* session's destructor, no contact of a world is dropped.
NoContactIsDropped ==
    \A w \in settled :
        passed[owner[w]] # Nothing => contact_routes[w].callback = passed[owner[w]]
=============================================================================

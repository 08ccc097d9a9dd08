-------------------------- MODULE RegistriesProofs --------------------------
(***************************************************************************)
(* Proofs about the registries that know a thing by its address.           *)
(*                                                                         *)
(* ContactRoutes, for any threads, sessions and worlds: a contact reaches  *)
(* the callback of its own session, and none is dropped while the host has *)
(* the world.                                                              *)
(* HavokCallbacks, for any threads, shapes, slots and handlers: no         *)
(* callback aborts the process, and each runs the handler it was made for. *)
(* VirtualMemory: reservations and the contents of committed pages in      *)
(* every process; access, leaks and the pages of others for as long as it  *)
(* is below vm.max_map_count.                                              *)
(***************************************************************************)
EXTENDS ContactRoutes, HavokCallbacks, VirtualMemory, TLAPS

---------------------------------------------------------------------------
(* Contact routes.                                                       *)

\* A thread has a session or a world in hand only during a call, and what it
\* has in hand exists.
ContactInHand ==
    \A t \in Callers :
        /\ session[t] # Nothing => session[t] \in constructed
        /\ doing[t] \in {"constructed", "allocated", "erased", "forgotten"} <=> session[t] # Nothing
        /\ doing[t] \in {"allocated", "erased", "reported", "calling"} => owner[world[t]] # Nothing
        /\ doing[t] \in {"allocated", "erased", "reported", "calling"} <=> world[t] # Nothing
        /\ doing[t] \in {"allocated", "erased"} =>
            owner[world[t]] = session[t] /\ world[t] \notin settled

\* Nobody shares a session that is being constructed or destroyed, nor a
\* world that is being allocated or released.
Exclusive ==
    \A t, u \in Callers : t # u =>
        /\ doing[t] \in {"constructed", "forgotten"} => session[u] # session[t]
        /\ doing[t] \in {"allocated", "erased"} /\ doing[u] \in {"allocated", "erased"} =>
            world[u] # world[t]

\* Worlds belong to sessions that exist; only worlds the host has are routed,
\* and to their own session's callback.
Owned ==
    /\ \A w \in Worlds : owner[w] # Nothing => owner[w] \in constructed
    /\ \A w \in settled : owner[w] # Nothing
    /\ \A w \in Worlds : contact_routes[w] # NoRoute =>
        /\ w \in settled
        /\ contact_routes[w].session = owner[w]
        /\ contact_routes[w].callback = passed[owner[w]]

\* A session under construction has no world, one under destruction none
\* that the host still has; any other has its callback remembered.
Remembered ==
    /\ \A t \in Callers : doing[t] = "constructed" => WorldsOf(session[t]) = {}
    /\ \A t \in Callers : doing[t] = "forgotten" => WorldsOf(session[t]) \cap settled = {}
    /\ \A s \in Sessions : Available(s) => contact_callbacks[s] = passed[s]
    /\ \A s \in Sessions : ~Available(s) => contact_callbacks[s] = Nothing

ContactIInv ==
    /\ ContactTypeOK
    /\ ContactInHand
    /\ Exclusive
    /\ Owned
    /\ Remembered
    /\ ContactsReachTheirSession
    /\ NoContactIsDropped

---------------------------------------------------------------------------
(* One lemma per action: the invariant is kept.                            *)

LEMMA ConstructSessionStep ==
    ASSUME ContactIInv, NEW t \in Callers, NEW s \in Sessions,
           NEW c \in HostCallbacks \cup {Nothing}, ConstructSession(t, s, c)
    PROVE  ContactIInv'
<1>1. ContactTypeOK'
    BY ContactAssumption, SMTT(30) DEF ContactIInv, ContactTypeOK, ConstructSession, GoesOn,
      Untouched, maps, engine, caller, Available, WorldsOf, NoRoute, Route
<1>2. ContactInHand'
    BY ContactAssumption, SMTT(30) DEF ContactIInv, ContactTypeOK, ContactInHand, Exclusive,
      Owned, Remembered, ConstructSession, GoesOn, Untouched, maps, engine, caller,
      Available, WorldsOf, NoRoute, Route
<1>3. Exclusive'
    BY ContactAssumption, SMTT(30) DEF ContactIInv, ContactTypeOK, ContactInHand, Exclusive,
      ConstructSession, GoesOn, Untouched, maps, engine, caller, Available, WorldsOf,
      NoRoute, Route
<1>4. Owned'
    BY ContactAssumption, SMTT(30) DEF ContactIInv, ContactTypeOK, ContactInHand, Exclusive,
      Owned, Remembered, ConstructSession, GoesOn, Untouched, maps, engine, caller,
      Available, WorldsOf, NoRoute, Route
<1>5. Remembered'
    BY ContactAssumption, SMTT(30) DEF ContactIInv, ContactTypeOK, ContactInHand, Exclusive,
      Owned, Remembered, ConstructSession, GoesOn, Untouched, maps, engine, caller,
      Available, WorldsOf, NoRoute, Route
<1>6. ContactsReachTheirSession'
    BY ContactAssumption, SMTT(30) DEF ContactIInv, ContactTypeOK, ContactInHand, Owned,
      ContactsReachTheirSession, ConstructSession, GoesOn, Untouched, maps, engine, caller,
      Available, WorldsOf, NoRoute, Route
<1>7. NoContactIsDropped'
    BY ContactAssumption, SMTT(30) DEF ContactIInv, ContactTypeOK, ContactInHand, Exclusive,
      Owned, Remembered, NoContactIsDropped, ConstructSession, GoesOn, Untouched, maps,
      engine, caller, Available, WorldsOf, NoRoute, Route
<1> QED  BY <1>1, <1>2, <1>3, <1>4, <1>5, <1>6, <1>7 DEF ContactIInv

LEMMA RememberCallbackStep ==
    ASSUME ContactIInv, NEW t \in Callers, RememberCallback(t)
    PROVE  ContactIInv'
<1>0. session[t] \in Sessions
    BY DEF ContactIInv, ContactTypeOK, ContactInHand, RememberCallback
<1>1. ContactTypeOK'
    BY <1>0, ContactAssumption, SMTT(30) DEF ContactIInv, ContactTypeOK, RememberCallback,
      GoesOn, Returns, maps, engine, caller, Available, WorldsOf, NoRoute, Route
<1>2. ContactInHand'
    BY ContactAssumption, SMTT(30) DEF ContactIInv, ContactTypeOK, ContactInHand, Exclusive,
      Owned, Remembered, RememberCallback, GoesOn, Returns, maps, engine, caller, Available,
      WorldsOf, NoRoute, Route
<1>3. Exclusive'
    BY ContactAssumption, SMTT(30) DEF ContactIInv, ContactTypeOK, ContactInHand, Exclusive,
      RememberCallback, GoesOn, Returns, maps, engine, caller, Available, WorldsOf, NoRoute,
      Route
<1>4. Owned'
    BY ContactAssumption, SMTT(30) DEF ContactIInv, ContactTypeOK, ContactInHand, Exclusive,
      Owned, Remembered, RememberCallback, GoesOn, Returns, maps, engine, caller, Available,
      WorldsOf, NoRoute, Route
<1>5. Remembered'
    BY ContactAssumption, SMTT(30) DEF ContactIInv, ContactTypeOK, ContactInHand, Exclusive,
      Owned, Remembered, RememberCallback, GoesOn, Returns, maps, engine, caller, Available,
      WorldsOf, NoRoute, Route
<1>6. ContactsReachTheirSession'
    BY ContactAssumption, SMTT(30) DEF ContactIInv, ContactTypeOK, ContactInHand, Owned,
      ContactsReachTheirSession, RememberCallback, GoesOn, Returns, maps, engine, caller,
      Available, WorldsOf, NoRoute, Route
<1>7. NoContactIsDropped'
    BY ContactAssumption, SMTT(30) DEF ContactIInv, ContactTypeOK, ContactInHand, Exclusive,
      Owned, Remembered, NoContactIsDropped, RememberCallback, GoesOn, Returns, maps,
      engine, caller, Available, WorldsOf, NoRoute, Route
<1> QED  BY <1>1, <1>2, <1>3, <1>4, <1>5, <1>6, <1>7 DEF ContactIInv

LEMMA EngineAllocatesStep ==
    ASSUME ContactIInv, NEW t \in Callers, NEW s \in Sessions, NEW w \in Worlds,
           EngineAllocates(t, s, w)
    PROVE  ContactIInv'
<1>1. ContactTypeOK'
    BY ContactAssumption, SMTT(30) DEF ContactIInv, ContactTypeOK, EngineAllocates, GoesOn,
      maps, engine, caller, Available, WorldsOf, NoRoute, Route
<1>2. ContactInHand'
    BY ContactAssumption, SMTT(30) DEF ContactIInv, ContactTypeOK, ContactInHand, Exclusive,
      Owned, Remembered, EngineAllocates, GoesOn, maps, engine, caller, Available, WorldsOf,
      NoRoute, Route
<1>3. Exclusive'
    BY ContactAssumption, SMTT(30) DEF ContactIInv, ContactTypeOK, ContactInHand, Exclusive,
      EngineAllocates, GoesOn, maps, engine, caller, Available, WorldsOf, NoRoute, Route
<1>4. Owned'
    BY ContactAssumption, SMTT(30) DEF ContactIInv, ContactTypeOK, ContactInHand, Exclusive,
      Owned, Remembered, EngineAllocates, GoesOn, maps, engine, caller, Available, WorldsOf,
      NoRoute, Route
<1>5. Remembered'
    BY ContactAssumption, SMTT(30) DEF ContactIInv, ContactTypeOK, ContactInHand, Exclusive,
      Owned, Remembered, EngineAllocates, GoesOn, maps, engine, caller, Available, WorldsOf,
      NoRoute, Route
<1>6. ContactsReachTheirSession'
    BY ContactAssumption, SMTT(30) DEF ContactIInv, ContactTypeOK, ContactInHand, Owned,
      ContactsReachTheirSession, EngineAllocates, GoesOn, maps, engine, caller, Available,
      WorldsOf, NoRoute, Route
<1>7. NoContactIsDropped'
    BY ContactAssumption, SMTT(30) DEF ContactIInv, ContactTypeOK, ContactInHand, Exclusive,
      Owned, Remembered, NoContactIsDropped, EngineAllocates, GoesOn, maps, engine, caller,
      Available, WorldsOf, NoRoute, Route
<1> QED  BY <1>1, <1>2, <1>3, <1>4, <1>5, <1>6, <1>7 DEF ContactIInv

LEMMA AddRouteStep ==
    ASSUME ContactIInv, NEW t \in Callers, AddRoute(t)
    PROVE  ContactIInv'
<1>0. session[t] \in Sessions /\ world[t] \in Worlds
    BY DEF ContactIInv, ContactTypeOK, ContactInHand, AddRoute
<1>1. ContactTypeOK'
    BY <1>0, ContactAssumption, SMTT(30) DEF ContactIInv, ContactTypeOK, AddRoute, GoesOn,
      Returns, Route, maps, engine, caller, Available, WorldsOf, NoRoute
<1>2. ContactInHand'
    BY ContactAssumption, SMTT(30) DEF ContactIInv, ContactTypeOK, ContactInHand, Exclusive,
      Owned, Remembered, AddRoute, GoesOn, Returns, Route, maps, engine, caller, Available,
      WorldsOf, NoRoute
<1>3. Exclusive'
    BY ContactAssumption, SMTT(30) DEF ContactIInv, ContactTypeOK, ContactInHand, Exclusive,
      AddRoute, GoesOn, Returns, Route, maps, engine, caller, Available, WorldsOf, NoRoute
<1>4. Owned'
    BY ContactAssumption, SMTT(30) DEF ContactIInv, ContactTypeOK, ContactInHand, Exclusive,
      Owned, Remembered, AddRoute, GoesOn, Returns, Route, maps, engine, caller, Available,
      WorldsOf, NoRoute
<1>5. Remembered'
    BY ContactAssumption, SMTT(30) DEF ContactIInv, ContactTypeOK, ContactInHand, Exclusive,
      Owned, Remembered, AddRoute, GoesOn, Returns, Route, maps, engine, caller, Available,
      WorldsOf, NoRoute
<1>6. ContactsReachTheirSession'
    BY ContactAssumption, SMTT(30) DEF ContactIInv, ContactTypeOK, ContactInHand, Owned,
      ContactsReachTheirSession, AddRoute, GoesOn, Returns, Route, maps, engine, caller,
      Available, WorldsOf, NoRoute
<1>7. NoContactIsDropped'
    BY ContactAssumption, SMTT(30) DEF ContactIInv, ContactTypeOK, ContactInHand, Exclusive,
      Owned, Remembered, NoContactIsDropped, AddRoute, GoesOn, Returns, Route, maps, engine,
      caller, Available, WorldsOf, NoRoute
<1> QED  BY <1>1, <1>2, <1>3, <1>4, <1>5, <1>6, <1>7 DEF ContactIInv

LEMMA EraseRouteStep ==
    ASSUME ContactIInv, NEW t \in Callers, NEW w \in Worlds, EraseRoute(t, w)
    PROVE  ContactIInv'
<1>1. ContactTypeOK'
    BY ContactAssumption, SMTT(30) DEF ContactIInv, ContactTypeOK, EraseRoute, GoesOn,
      Releasing, maps, engine, caller, Available, WorldsOf, NoRoute, Route
<1>2. ContactInHand'
    BY ContactAssumption, SMTT(30) DEF ContactIInv, ContactTypeOK, ContactInHand, Exclusive,
      Owned, Remembered, EraseRoute, GoesOn, Releasing, maps, engine, caller, Available,
      WorldsOf, NoRoute, Route
<1>3. Exclusive'
    BY ContactAssumption, SMTT(30) DEF ContactIInv, ContactTypeOK, ContactInHand, Exclusive,
      EraseRoute, GoesOn, Releasing, maps, engine, caller, Available, WorldsOf, NoRoute,
      Route
<1>4. Owned'
    BY ContactAssumption, SMTT(30) DEF ContactIInv, ContactTypeOK, ContactInHand, Exclusive,
      Owned, Remembered, EraseRoute, GoesOn, Releasing, maps, engine, caller, Available,
      WorldsOf, NoRoute, Route
<1>5. Remembered'
    BY ContactAssumption, SMTT(30) DEF ContactIInv, ContactTypeOK, ContactInHand, Exclusive,
      Owned, Remembered, EraseRoute, GoesOn, Releasing, maps, engine, caller, Available,
      WorldsOf, NoRoute, Route
<1>6. ContactsReachTheirSession'
    BY ContactAssumption, SMTT(30) DEF ContactIInv, ContactTypeOK, ContactInHand, Owned,
      ContactsReachTheirSession, EraseRoute, GoesOn, Releasing, maps, engine, caller, Available,
      WorldsOf, NoRoute, Route
<1>7. NoContactIsDropped'
    BY ContactAssumption, SMTT(30) DEF ContactIInv, ContactTypeOK, ContactInHand, Exclusive,
      Owned, Remembered, NoContactIsDropped, EraseRoute, GoesOn, Releasing, maps, engine,
      caller, Available, WorldsOf, NoRoute, Route
<1> QED  BY <1>1, <1>2, <1>3, <1>4, <1>5, <1>6, <1>7 DEF ContactIInv

LEMMA EngineReleasesStep ==
    ASSUME ContactIInv, NEW t \in Callers, EngineReleases(t)
    PROVE  ContactIInv'
<1>0. world[t] \in Worlds
    BY DEF ContactIInv, ContactTypeOK, ContactInHand, EngineReleases
<1>1. ContactTypeOK'
    BY <1>0, ContactAssumption, SMTT(30) DEF ContactIInv, ContactTypeOK, EngineReleases,
      GoesOn, Returns, Reporting, maps, engine, caller, Available, WorldsOf, NoRoute, Route
<1>2. ContactInHand'
    BY ContactAssumption, SMTT(30) DEF ContactIInv, ContactTypeOK, ContactInHand, Exclusive,
      Owned, Remembered, EngineReleases, GoesOn, Returns, Reporting, maps, engine, caller,
      Available, WorldsOf, NoRoute, Route
<1>3. Exclusive'
    BY ContactAssumption, SMTT(30) DEF ContactIInv, ContactTypeOK, ContactInHand, Exclusive,
      EngineReleases, GoesOn, Returns, Reporting, maps, engine, caller, Available, WorldsOf,
      NoRoute, Route
<1>4. Owned'
    BY ContactAssumption, SMTT(30) DEF ContactIInv, ContactTypeOK, ContactInHand, Exclusive,
      Owned, Remembered, EngineReleases, GoesOn, Returns, Reporting, maps, engine, caller,
      Available, WorldsOf, NoRoute, Route
<1>5. Remembered'
    BY ContactAssumption, SMTT(30) DEF ContactIInv, ContactTypeOK, ContactInHand, Exclusive,
      Owned, Remembered, EngineReleases, GoesOn, Returns, Reporting, maps, engine, caller,
      Available, WorldsOf, NoRoute, Route
<1>6. ContactsReachTheirSession'
    BY ContactAssumption, SMTT(30) DEF ContactIInv, ContactTypeOK, ContactInHand, Owned,
      ContactsReachTheirSession, EngineReleases, GoesOn, Returns, Reporting, maps, engine,
      caller, Available, WorldsOf, NoRoute, Route
<1>7. NoContactIsDropped'
    BY ContactAssumption, SMTT(30) DEF ContactIInv, ContactTypeOK, ContactInHand, Exclusive,
      Owned, Remembered, NoContactIsDropped, EngineReleases, GoesOn, Returns, Reporting,
      maps, engine, caller, Available, WorldsOf, NoRoute, Route
<1> QED  BY <1>1, <1>2, <1>3, <1>4, <1>5, <1>6, <1>7 DEF ContactIInv

LEMMA ForgetSessionStep ==
    ASSUME ContactIInv, NEW t \in Callers, NEW s \in Sessions, ForgetSession(t, s)
    PROVE  ContactIInv'
<1>1. ContactTypeOK'
    BY ContactAssumption, SMTT(30) DEF ContactIInv, ContactTypeOK, ForgetSession, GoesOn,
      Forgetting, Untouched, maps, engine, caller, Available, WorldsOf, NoRoute, Route
<1>2. ContactInHand'
    BY ContactAssumption, SMTT(30) DEF ContactIInv, ContactTypeOK, ContactInHand, Exclusive,
      Owned, Remembered, ForgetSession, GoesOn, Forgetting, Untouched, maps, engine, caller,
      Available, WorldsOf, NoRoute, Route
<1>3. Exclusive'
    BY ContactAssumption, SMTT(30) DEF ContactIInv, ContactTypeOK, ContactInHand, Exclusive,
      ForgetSession, GoesOn, Forgetting, Untouched, maps, engine, caller, Available,
      WorldsOf, NoRoute, Route
<1>4. Owned'
    BY ContactAssumption, SMTT(30) DEF ContactIInv, ContactTypeOK, ContactInHand, Exclusive,
      Owned, Remembered, ForgetSession, GoesOn, Forgetting, Untouched, maps, engine, caller,
      Available, WorldsOf, NoRoute, Route
<1>5. Remembered'
    BY ContactAssumption, SMTT(30) DEF ContactIInv, ContactTypeOK, ContactInHand, Exclusive,
      Owned, Remembered, ForgetSession, GoesOn, Forgetting, Untouched, maps, engine, caller,
      Available, WorldsOf, NoRoute, Route
<1>6. ContactsReachTheirSession'
    BY ContactAssumption, SMTT(30) DEF ContactIInv, ContactTypeOK, ContactInHand, Owned,
      ContactsReachTheirSession, ForgetSession, GoesOn, Forgetting, Untouched, maps, engine,
      caller, Available, WorldsOf, NoRoute, Route
<1>7. NoContactIsDropped'
    BY ContactAssumption, SMTT(30) DEF ContactIInv, ContactTypeOK, ContactInHand, Exclusive,
      Owned, Remembered, NoContactIsDropped, ForgetSession, GoesOn, Forgetting, Untouched,
      maps, engine, caller, Available, WorldsOf, NoRoute, Route
<1> QED  BY <1>1, <1>2, <1>3, <1>4, <1>5, <1>6, <1>7 DEF ContactIInv

LEMMA EngineDestroysStep ==
    ASSUME ContactIInv, NEW t \in Callers, EngineDestroys(t)
    PROVE  ContactIInv'
<1>0. session[t] \in Sessions
    BY DEF ContactIInv, ContactTypeOK, ContactInHand, EngineDestroys
<1>1. ContactTypeOK'
    BY <1>0, ContactAssumption, SMTT(30) DEF ContactIInv, ContactTypeOK, EngineDestroys,
      GoesOn, Returns, Reporting, maps, engine, caller, Available, WorldsOf, NoRoute, Route
<1>2. ContactInHand'
    BY ContactAssumption, SMTT(30) DEF ContactIInv, ContactTypeOK, ContactInHand, Exclusive,
      Owned, Remembered, EngineDestroys, GoesOn, Returns, Reporting, maps, engine, caller,
      Available, WorldsOf, NoRoute, Route
<1>3. Exclusive'
    BY ContactAssumption, SMTT(30) DEF ContactIInv, ContactTypeOK, ContactInHand, Exclusive,
      EngineDestroys, GoesOn, Returns, Reporting, maps, engine, caller, Available, WorldsOf,
      NoRoute, Route
<1>4. Owned'
    BY ContactAssumption, SMTT(30) DEF ContactIInv, ContactTypeOK, ContactInHand, Exclusive,
      Owned, Remembered, EngineDestroys, GoesOn, Returns, Reporting, maps, engine, caller,
      Available, WorldsOf, NoRoute, Route
<1>5. Remembered'
    BY ContactAssumption, SMTT(30) DEF ContactIInv, ContactTypeOK, ContactInHand, Exclusive,
      Owned, Remembered, EngineDestroys, GoesOn, Returns, Reporting, maps, engine, caller,
      Available, WorldsOf, NoRoute, Route
<1>6. ContactsReachTheirSession'
    BY ContactAssumption, SMTT(30) DEF ContactIInv, ContactTypeOK, ContactInHand, Owned,
      ContactsReachTheirSession, EngineDestroys, GoesOn, Returns, Reporting, maps, engine,
      caller, Available, WorldsOf, NoRoute, Route
<1>7. NoContactIsDropped'
    BY ContactAssumption, SMTT(30) DEF ContactIInv, ContactTypeOK, ContactInHand, Exclusive,
      Owned, Remembered, NoContactIsDropped, EngineDestroys, GoesOn, Returns, Reporting,
      maps, engine, caller, Available, WorldsOf, NoRoute, Route
<1> QED  BY <1>1, <1>2, <1>3, <1>4, <1>5, <1>6, <1>7 DEF ContactIInv

LEMMA ReportContactStep ==
    ASSUME ContactIInv, NEW t \in Callers, NEW w \in Worlds, ReportContact(t, w)
    PROVE  ContactIInv'
<1>1. ContactTypeOK'
    BY ContactAssumption, SMTT(30) DEF ContactIInv, ContactTypeOK, ReportContact, GoesOn,
      maps, engine, caller, Available, WorldsOf, NoRoute, Route
<1>2. ContactInHand'
    BY ContactAssumption, SMTT(30) DEF ContactIInv, ContactTypeOK, ContactInHand, Exclusive,
      Owned, Remembered, ReportContact, GoesOn, maps, engine, caller, Available, WorldsOf,
      NoRoute, Route
<1>3. Exclusive'
    BY ContactAssumption, SMTT(30) DEF ContactIInv, ContactTypeOK, ContactInHand, Exclusive,
      ReportContact, GoesOn, maps, engine, caller, Available, WorldsOf, NoRoute, Route
<1>4. Owned'
    BY ContactAssumption, SMTT(30) DEF ContactIInv, ContactTypeOK, ContactInHand, Exclusive,
      Owned, Remembered, ReportContact, GoesOn, maps, engine, caller, Available, WorldsOf,
      NoRoute, Route
<1>5. Remembered'
    BY ContactAssumption, SMTT(30) DEF ContactIInv, ContactTypeOK, ContactInHand, Exclusive,
      Owned, Remembered, ReportContact, GoesOn, maps, engine, caller, Available, WorldsOf,
      NoRoute, Route
<1>6. ContactsReachTheirSession'
    BY ContactAssumption, SMTT(30) DEF ContactIInv, ContactTypeOK, ContactInHand, Owned,
      ContactsReachTheirSession, ReportContact, GoesOn, maps, engine, caller, Available,
      WorldsOf, NoRoute, Route
<1>7. NoContactIsDropped'
    BY ContactAssumption, SMTT(30) DEF ContactIInv, ContactTypeOK, ContactInHand, Exclusive,
      Owned, Remembered, NoContactIsDropped, ReportContact, GoesOn, maps, engine, caller,
      Available, WorldsOf, NoRoute, Route
<1> QED  BY <1>1, <1>2, <1>3, <1>4, <1>5, <1>6, <1>7 DEF ContactIInv

LEMMA FindRouteStep ==
    ASSUME ContactIInv, NEW t \in Callers, FindRoute(t)
    PROVE  ContactIInv'
<1>0. world[t] \in Worlds
    BY DEF ContactIInv, ContactTypeOK, ContactInHand, FindRoute
<1>1. ContactTypeOK'
    BY <1>0, ContactAssumption, SMTT(30) DEF ContactIInv, ContactTypeOK, FindRoute, GoesOn,
      maps, engine, caller, Available, WorldsOf, NoRoute, Route
<1>2. ContactInHand'
    BY ContactAssumption, SMTT(30) DEF ContactIInv, ContactTypeOK, ContactInHand, Exclusive,
      Owned, Remembered, FindRoute, GoesOn, maps, engine, caller, Available, WorldsOf,
      NoRoute, Route
<1>3. Exclusive'
    BY ContactAssumption, SMTT(30) DEF ContactIInv, ContactTypeOK, ContactInHand, Exclusive,
      FindRoute, GoesOn, maps, engine, caller, Available, WorldsOf, NoRoute, Route
<1>4. Owned'
    BY ContactAssumption, SMTT(30) DEF ContactIInv, ContactTypeOK, ContactInHand, Exclusive,
      Owned, Remembered, FindRoute, GoesOn, maps, engine, caller, Available, WorldsOf,
      NoRoute, Route
<1>5. Remembered'
    BY ContactAssumption, SMTT(30) DEF ContactIInv, ContactTypeOK, ContactInHand, Exclusive,
      Owned, Remembered, FindRoute, GoesOn, maps, engine, caller, Available, WorldsOf,
      NoRoute, Route
<1>6. ContactsReachTheirSession'
    BY ContactAssumption, SMTT(30) DEF ContactIInv, ContactTypeOK, ContactInHand, Owned,
      ContactsReachTheirSession, FindRoute, GoesOn, maps, engine, caller, Available, WorldsOf,
      NoRoute, Route
<1>7. NoContactIsDropped'
    BY ContactAssumption, SMTT(30) DEF ContactIInv, ContactTypeOK, ContactInHand, Exclusive,
      Owned, Remembered, NoContactIsDropped, FindRoute, GoesOn, maps, engine, caller,
      Available, WorldsOf, NoRoute, Route
<1> QED  BY <1>1, <1>2, <1>3, <1>4, <1>5, <1>6, <1>7 DEF ContactIInv

LEMMA CallBackStep ==
    ASSUME ContactIInv, NEW t \in Callers, CallBack(t)
    PROVE  ContactIInv'
<1>1. ContactTypeOK'
    BY ContactAssumption, SMTT(30) DEF ContactIInv, ContactTypeOK, CallBack, GoesOn,
      Returns, maps, engine, caller, Available, WorldsOf, NoRoute, Route
<1>2. ContactInHand'
    BY ContactAssumption, SMTT(30) DEF ContactIInv, ContactTypeOK, ContactInHand, Exclusive,
      Owned, Remembered, CallBack, GoesOn, Returns, maps, engine, caller, Available,
      WorldsOf, NoRoute, Route
<1>3. Exclusive'
    BY ContactAssumption, SMTT(30) DEF ContactIInv, ContactTypeOK, ContactInHand, Exclusive,
      CallBack, GoesOn, Returns, maps, engine, caller, Available, WorldsOf, NoRoute, Route
<1>4. Owned'
    BY ContactAssumption, SMTT(30) DEF ContactIInv, ContactTypeOK, ContactInHand, Exclusive,
      Owned, Remembered, CallBack, GoesOn, Returns, maps, engine, caller, Available,
      WorldsOf, NoRoute, Route
<1>5. Remembered'
    BY ContactAssumption, SMTT(30) DEF ContactIInv, ContactTypeOK, ContactInHand, Exclusive,
      Owned, Remembered, CallBack, GoesOn, Returns, maps, engine, caller, Available,
      WorldsOf, NoRoute, Route
<1>6. ContactsReachTheirSession'
    BY ContactAssumption, SMTT(30) DEF ContactIInv, ContactTypeOK, ContactInHand, Owned,
      ContactsReachTheirSession, CallBack, GoesOn, Returns, maps, engine, caller, Available,
      WorldsOf, NoRoute, Route
<1>7. NoContactIsDropped'
    BY ContactAssumption, SMTT(30) DEF ContactIInv, ContactTypeOK, ContactInHand, Exclusive,
      Owned, Remembered, NoContactIsDropped, CallBack, GoesOn, Returns, maps, engine,
      caller, Available, WorldsOf, NoRoute, Route
<1> QED  BY <1>1, <1>2, <1>3, <1>4, <1>5, <1>6, <1>7 DEF ContactIInv


---------------------------------------------------------------------------

LEMMA ContactInitially == ContactInit => ContactIInv
BY ContactAssumption DEF ContactInit, ContactIInv, ContactTypeOK, ContactInHand, Exclusive,
  Owned, Remembered, Available, WorldsOf, NoRoute, Route, ContactsReachTheirSession,
  NoContactIsDropped

LEMMA ContactInductive == ContactIInv /\ [ContactNext]_contact_vars => ContactIInv'
<1> SUFFICES ASSUME ContactIInv, [ContactNext]_contact_vars PROVE ContactIInv'
    OBVIOUS
<1>1. CASE UNCHANGED contact_vars
    BY <1>1 DEF contact_vars, maps, engine, caller, ContactIInv, ContactTypeOK,
      ContactInHand, Exclusive, Owned, Remembered, Available, WorldsOf,
      ContactsReachTheirSession, NoContactIsDropped
<1>2. CASE ContactNext
    BY <1>2, ConstructSessionStep, RememberCallbackStep, EngineAllocatesStep, AddRouteStep,
       EraseRouteStep, EngineReleasesStep, ForgetSessionStep, EngineDestroysStep,
       ReportContactStep, FindRouteStep, CallBackStep
       DEF ContactNext
<1> QED  BY <1>1, <1>2

\* The invariant the results below follow from.
THEOREM ContactInvariance == ContactSpec => []ContactIInv
BY ContactInitially, ContactInductive, PTL DEF ContactSpec

\* Every variable keeps its kind of value.
THEOREM ContactTypeCorrect == ContactSpec => []ContactTypeOK
<1>1. ContactIInv => ContactTypeOK
    BY DEF ContactIInv
<1> QED  BY <1>1, ContactInvariance, PTL

\* contact_impulse_bridge calls the callback of the session whose world the
\* contact is in, and never that of an earlier owner of the address.
THEOREM ContactsArrive == ContactSpec => []ContactsReachTheirSession
<1>1. ContactIInv => ContactsReachTheirSession
    BY DEF ContactIInv
<1> QED  BY <1>1, ContactInvariance, PTL

\* A world the host holds has its route, so none of its contacts is dropped.
THEOREM NothingDropped == ContactSpec => []NoContactIsDropped
<1>1. ContactIInv => NoContactIsDropped
    BY DEF ContactIInv
<1> QED  BY <1>1, ContactInvariance, PTL

---------------------------------------------------------------------------
(* Phantom callbacks and constraint readers.                              *)

\* Thread t creates or destroys the shape it has in hand.
Alone(t) ==
    \/ pc[t] \in {"created", "freeing"}
    \/ pc[t] \in {"bridge", "calling"} /\ kind[t] = "delete"

\* What a thread has in hand exists, and who is not alone with it has it from
\* the host.
HavokInHand ==
    \A t \in Threads :
        /\ pc[t] \in {"created", "bridge", "calling", "freeing"} <=> shape[t] # None
        /\ shape[t] # None => shape[t] \in alive
        /\ pc[t] \in {"bridge", "calling"} => kind[t] \in Kinds
        /\ shape[t] # None => (Alone(t) <=> shape[t] \notin held)

\* A shape the host has, or whose delete handler is about to be looked up,
\* has the entry it was created with.
Bound ==
    /\ held \subseteq alive
    /\ \A a \in held : a \in bound /\ bindings[a] = given[a]
    /\ \A t \in Threads : pc[t] = "bridge" =>
        shape[t] \in bound /\ bindings[shape[t]] = given[shape[t]]

\* Nobody else is at a shape that is created or destroyed.
Sole ==
    \A t, u \in Threads : t # u /\ Alone(t) => shape[u] # shape[t]

\* The mutex of a query is held, and its target set, until it is answered.
Queries ==
    \A t \in Threads : pc[t] \in {"asking", "reading"} =>
        kind[t] \in Slots /\ holder[kind[t]] = t /\ target[kind[t]] = reader[t]

HavokIInv ==
    /\ HavokTypeOK
    /\ HavokInHand
    /\ Bound
    /\ Sole
    /\ Queries
    /\ EveryCallbackFindsItsTarget
    /\ HandlersAreTheShapes
    /\ ReadersAreTheQuerys

---------------------------------------------------------------------------
(* One lemma per action: the invariant is kept.                            *)

LEMMA EngineCreatesStep ==
    ASSUME HavokIInv, NEW t \in Threads, NEW a \in Shapes, NEW c \in Choices, EngineCreates(t, a, c)
    PROVE  HavokIInv'
<1>1. HavokTypeOK'
    BY HavokAssumption, SMTT(30) DEF HavokIInv, HavokTypeOK, HavokInHand, Queries,
      EngineCreates, At, phantom, query, thread, Alone, Callbacks, NoBinding, Kinds
<1>2. HavokInHand'
    BY HavokAssumption, SMTT(30) DEF HavokIInv, HavokTypeOK, HavokInHand, Sole,
      EveryCallbackFindsItsTarget, Bound, EngineCreates, At, phantom, query, thread, Alone,
      Kinds
<1>3. Bound'
    BY HavokAssumption, SMTT(30) DEF HavokIInv, HavokTypeOK, HavokInHand, Bound, Sole,
      EngineCreates, At, phantom, query, thread, Alone, Kinds
<1>4. Sole'
    BY HavokAssumption, SMTT(30) DEF HavokIInv, HavokTypeOK, HavokInHand, Bound, Sole,
      EngineCreates, At, phantom, query, thread, Alone, Kinds
<1>5. Queries'
    BY HavokAssumption, SMTT(30) DEF HavokIInv, HavokTypeOK, HavokInHand, Queries,
      EngineCreates, At, phantom, query, thread, Alone
<1>6. EveryCallbackFindsItsTarget'
    BY HavokAssumption, SMTT(30) DEF HavokIInv, HavokTypeOK, HavokInHand, Bound, Queries,
      EveryCallbackFindsItsTarget, EngineCreates, At, phantom, query, thread, Alone, Kinds
<1>7. HandlersAreTheShapes'
    BY HavokAssumption, SMTT(30) DEF HavokIInv, HavokTypeOK, HavokInHand, Bound, Sole,
      HandlersAreTheShapes, EngineCreates, At, phantom, query, thread, Alone, Callbacks,
      NoBinding, Kinds
<1>8. ReadersAreTheQuerys'
    BY HavokAssumption, SMTT(30) DEF HavokIInv, HavokTypeOK, HavokInHand, Queries,
      ReadersAreTheQuerys, EngineCreates, At, phantom, query, thread, Alone
<1> QED  BY <1>1, <1>2, <1>3, <1>4, <1>5, <1>6, <1>7, <1>8 DEF HavokIInv

LEMMA RegisterPhantomCallbacksStep ==
    ASSUME HavokIInv, NEW t \in Threads, RegisterPhantomCallbacks(t)
    PROVE  HavokIInv'
<1>1. HavokTypeOK'
    BY HavokAssumption, SMTT(30) DEF HavokIInv, HavokTypeOK, HavokInHand, Queries,
      RegisterPhantomCallbacks, At, Registered, Return, phantom, query, thread, Alone,
      Callbacks, NoBinding, Kinds
<1>2. HavokInHand'
    BY HavokAssumption, SMTT(30) DEF HavokIInv, HavokTypeOK, HavokInHand, Sole,
      EveryCallbackFindsItsTarget, Bound, RegisterPhantomCallbacks, At, Registered, Return,
      phantom, query, thread, Alone, Kinds
<1>3. Bound'
    BY HavokAssumption, SMTT(30) DEF HavokIInv, HavokTypeOK, HavokInHand, Bound, Sole,
      RegisterPhantomCallbacks, At, Registered, Return, phantom, query, thread, Alone, Kinds
<1>4. Sole'
    BY HavokAssumption, SMTT(30) DEF HavokIInv, HavokTypeOK, HavokInHand, Bound, Sole,
      RegisterPhantomCallbacks, At, Registered, Return, phantom, query, thread, Alone, Kinds
<1>5. Queries'
    BY HavokAssumption, SMTT(30) DEF HavokIInv, HavokTypeOK, HavokInHand, Queries,
      RegisterPhantomCallbacks, At, Registered, Return, phantom, query, thread, Alone
<1>6. EveryCallbackFindsItsTarget'
    BY HavokAssumption, SMTT(30) DEF HavokIInv, HavokTypeOK, HavokInHand, Bound, Queries,
      EveryCallbackFindsItsTarget, RegisterPhantomCallbacks, At, Registered, Return,
      phantom, query, thread, Alone, Kinds
<1>7. HandlersAreTheShapes'
    BY HavokAssumption, SMTT(30) DEF HavokIInv, HavokTypeOK, HavokInHand, Bound, Sole,
      HandlersAreTheShapes, RegisterPhantomCallbacks, At, Registered, Return, phantom,
      query, thread, Alone, Callbacks, NoBinding, Kinds
<1>8. ReadersAreTheQuerys'
    BY HavokAssumption, SMTT(30) DEF HavokIInv, HavokTypeOK, HavokInHand, Queries,
      ReadersAreTheQuerys, RegisterPhantomCallbacks, At, Registered, Return, phantom, query,
      thread, Alone
<1> QED  BY <1>1, <1>2, <1>3, <1>4, <1>5, <1>6, <1>7, <1>8 DEF HavokIInv

LEMMA EngineMeetsStep ==
    ASSUME HavokIInv, NEW t \in Threads, NEW a \in Shapes, NEW k \in Kinds, EngineMeets(t, a, k)
    PROVE  HavokIInv'
<1>1. HavokTypeOK'
    BY HavokAssumption, SMTT(30) DEF HavokIInv, HavokTypeOK, HavokInHand, Queries,
      EngineMeets, At, phantom, query, thread, Alone, Callbacks, NoBinding, Kinds
<1>2. HavokInHand'
    BY HavokAssumption, SMTT(30) DEF HavokIInv, HavokTypeOK, HavokInHand, Sole,
      EveryCallbackFindsItsTarget, Bound, EngineMeets, At, phantom, query, thread, Alone,
      Kinds
<1>3. Bound'
    BY HavokAssumption, SMTT(30) DEF HavokIInv, HavokTypeOK, HavokInHand, Bound, Sole,
      EngineMeets, At, phantom, query, thread, Alone, Kinds
<1>4. Sole'
    BY HavokAssumption, SMTT(30) DEF HavokIInv, HavokTypeOK, HavokInHand, Bound, Sole,
      EngineMeets, At, phantom, query, thread, Alone, Kinds
<1>5. Queries'
    BY HavokAssumption, SMTT(30) DEF HavokIInv, HavokTypeOK, HavokInHand, Queries,
      EngineMeets, At, phantom, query, thread, Alone
<1>6. EveryCallbackFindsItsTarget'
    BY HavokAssumption, SMTT(30) DEF HavokIInv, HavokTypeOK, HavokInHand, Bound, Queries,
      EveryCallbackFindsItsTarget, EngineMeets, At, phantom, query, thread, Alone, Kinds
<1>7. HandlersAreTheShapes'
    BY HavokAssumption, SMTT(30) DEF HavokIInv, HavokTypeOK, HavokInHand, Bound, Sole,
      HandlersAreTheShapes, EngineMeets, At, phantom, query, thread, Alone, Callbacks,
      NoBinding, Kinds
<1>8. ReadersAreTheQuerys'
    BY HavokAssumption, SMTT(30) DEF HavokIInv, HavokTypeOK, HavokInHand, Queries,
      ReadersAreTheQuerys, EngineMeets, At, phantom, query, thread, Alone
<1> QED  BY <1>1, <1>2, <1>3, <1>4, <1>5, <1>6, <1>7, <1>8 DEF HavokIInv

LEMMA EngineDeletesStep ==
    ASSUME HavokIInv, NEW t \in Threads, NEW a \in Shapes, EngineDeletes(t, a)
    PROVE  HavokIInv'
<1>1. HavokTypeOK'
  <2>1. HavokTypeOK /\ "delete" \in Kinds
    BY DEF HavokIInv, Kinds
  <2>2. /\ held' \subseteq Shapes
        /\ UNCHANGED <<bound, bindings, alive, given, target, holder, reader, aborted>>
    BY <2>1 DEF HavokTypeOK, EngineDeletes, query
  <2>3. \E l \in {"bridge", "freeing"}, k \in {"delete", None} : At(t, l, a, k, None)
    BY DEF EngineDeletes
  <2> QED
    BY <2>1, <2>2, <2>3 DEF HavokTypeOK, At
<1>2. HavokInHand'
    BY HavokAssumption, SMTT(30) DEF HavokIInv, HavokTypeOK, HavokInHand, Sole,
      EveryCallbackFindsItsTarget, Bound, EngineDeletes, At, InUse, phantom, query, thread,
      Alone, Kinds
<1>3. Bound'
    BY HavokAssumption, SMTT(30) DEF HavokIInv, HavokTypeOK, HavokInHand, Bound, Sole,
      EngineDeletes, At, InUse, phantom, query, thread, Alone, Kinds
<1>4. Sole'
    BY HavokAssumption, SMTT(30) DEF HavokIInv, HavokTypeOK, HavokInHand, Bound, Sole,
      EngineDeletes, At, InUse, phantom, query, thread, Alone, Kinds
<1>5. Queries'
    BY HavokAssumption, SMTT(30) DEF HavokIInv, HavokTypeOK, HavokInHand, Queries,
      EngineDeletes, At, InUse, phantom, query, thread, Alone
<1>6. EveryCallbackFindsItsTarget'
    BY HavokAssumption, SMTT(30) DEF HavokIInv, HavokTypeOK, HavokInHand, Bound, Queries,
      EveryCallbackFindsItsTarget, EngineDeletes, At, InUse, phantom, query, thread, Alone,
      Kinds
<1>7. HandlersAreTheShapes'
    BY HavokAssumption, SMTT(30) DEF HavokIInv, HavokTypeOK, HavokInHand, Bound, Sole,
      HandlersAreTheShapes, EngineDeletes, At, InUse, phantom, query, thread, Alone,
      Callbacks, NoBinding, Kinds
<1>8. ReadersAreTheQuerys'
    BY HavokAssumption, SMTT(30) DEF HavokIInv, HavokTypeOK, HavokInHand, Queries,
      ReadersAreTheQuerys, EngineDeletes, At, InUse, phantom, query, thread, Alone
<1> QED  BY <1>1, <1>2, <1>3, <1>4, <1>5, <1>6, <1>7, <1>8 DEF HavokIInv

LEMMA LookUpStep ==
    ASSUME HavokIInv, NEW t \in Threads, LookUp(t)
    PROVE  HavokIInv'
<1>0. bindings[shape[t]][kind[t]] \in Handlers \cup {None}
<2>1. shape[t] \in Shapes /\ kind[t] \in Kinds
    BY DEF HavokIInv, HavokTypeOK, HavokInHand, LookUp, GetPhantomCallbacks
<2>2. bindings[shape[t]] \in Callbacks
    BY <2>1 DEF HavokIInv, HavokTypeOK
<2> QED  BY <2>1, <2>2 DEF Callbacks
<1>1. HavokTypeOK'
<2>1. shape[t] \in bound
    BY DEF HavokIInv, Bound, LookUp, GetPhantomCallbacks
<2>2. PICK h \in Handlers \cup {None} : handler' = [handler EXCEPT ![t] = h]
    BY <1>0, <2>1 DEF LookUp, GetPhantomCallbacks, At
<2>3. /\ pc' = [pc EXCEPT ![t] = "calling"]
      /\ shape' = [shape EXCEPT ![t] = shape[t]]
      /\ kind' = [kind EXCEPT ![t] = kind[t]]
      /\ bound' \subseteq bound
      /\ UNCHANGED <<bindings, alive, given, held, target, holder, reader, aborted>>
    BY <2>1 DEF LookUp, GetPhantomCallbacks, At, query
<2> QED  BY <2>2, <2>3 DEF HavokIInv, HavokTypeOK
<1>2. HavokInHand'
    BY HavokAssumption, SMTT(30) DEF HavokIInv, HavokTypeOK, HavokInHand, Sole,
      EveryCallbackFindsItsTarget, Bound, LookUp, At, GetPhantomCallbacks, phantom, query,
      thread, Alone, Kinds
<1>3. Bound'
    BY HavokAssumption, SMTT(30) DEF HavokIInv, HavokTypeOK, HavokInHand, Bound, Sole,
      LookUp, At, GetPhantomCallbacks, phantom, query, thread, Alone, Kinds
<1>4. Sole'
    BY HavokAssumption, SMTT(30) DEF HavokIInv, HavokTypeOK, HavokInHand, Bound, Sole,
      LookUp, At, GetPhantomCallbacks, phantom, query, thread, Alone, Kinds
<1>5. Queries'
    BY HavokAssumption, SMTT(30) DEF HavokIInv, HavokTypeOK, HavokInHand, Queries, LookUp, At,
      GetPhantomCallbacks, phantom, query, thread, Alone
<1>6. EveryCallbackFindsItsTarget'
    BY HavokAssumption, SMTT(30) DEF HavokIInv, HavokTypeOK, HavokInHand, Bound, Queries,
      EveryCallbackFindsItsTarget, LookUp, At, GetPhantomCallbacks, phantom, query, thread,
      Alone, Kinds
<1>7. HandlersAreTheShapes'
    BY HavokAssumption, SMTT(30) DEF HavokIInv, HavokTypeOK, HavokInHand, Bound, Sole,
      HandlersAreTheShapes, LookUp, At, GetPhantomCallbacks, phantom, query, thread, Alone,
      Callbacks, NoBinding, Kinds
<1>8. ReadersAreTheQuerys'
    BY HavokAssumption, SMTT(30) DEF HavokIInv, HavokTypeOK, HavokInHand, Queries,
      ReadersAreTheQuerys, LookUp, At, GetPhantomCallbacks, phantom, query, thread, Alone
<1> QED  BY <1>1, <1>2, <1>3, <1>4, <1>5, <1>6, <1>7, <1>8 DEF HavokIInv

LEMMA HandlerReturnsStep ==
    ASSUME HavokIInv, NEW t \in Threads, HandlerReturns(t)
    PROVE  HavokIInv'
<1>1. HavokTypeOK'
    BY HavokAssumption, SMTT(30) DEF HavokIInv, HavokTypeOK, HandlerReturns, At,
      Return, phantom, query, thread
<1>2. HavokInHand'
    BY HavokAssumption, SMTT(30) DEF HavokIInv, HavokTypeOK, HavokInHand, Sole,
      EveryCallbackFindsItsTarget, Bound, HandlerReturns, At, Return, phantom, query,
      thread, Alone, Kinds
<1>3. Bound'
    BY HavokAssumption, SMTT(30) DEF HavokIInv, HavokTypeOK, HavokInHand, Bound, Sole,
      HandlerReturns, At, Return, phantom, query, thread, Alone, Kinds
<1>4. Sole'
    BY HavokAssumption, SMTT(30) DEF HavokIInv, HavokTypeOK, HavokInHand, Bound, Sole,
      HandlerReturns, At, Return, phantom, query, thread, Alone, Kinds
<1>5. Queries'
    BY HavokAssumption, SMTT(30) DEF HavokIInv, HavokTypeOK, HavokInHand, Queries,
      HandlerReturns, At, Return, phantom, query, thread, Alone
<1>6. EveryCallbackFindsItsTarget'
    BY HavokAssumption, SMTT(30) DEF HavokIInv, HavokTypeOK, HavokInHand, Bound, Queries,
      EveryCallbackFindsItsTarget, HandlerReturns, At, Return, phantom, query, thread,
      Alone, Kinds
<1>7. HandlersAreTheShapes'
    BY HavokAssumption, SMTT(30) DEF HavokIInv, HavokTypeOK, HavokInHand, Bound, Sole,
      HandlersAreTheShapes, HandlerReturns, At, Return, phantom, query, thread, Alone,
      Callbacks, NoBinding, Kinds
<1>8. ReadersAreTheQuerys'
    BY HavokAssumption, SMTT(30) DEF HavokIInv, HavokTypeOK, HavokInHand, Queries,
      ReadersAreTheQuerys, HandlerReturns, At, Return, phantom, query, thread, Alone
<1> QED  BY <1>1, <1>2, <1>3, <1>4, <1>5, <1>6, <1>7, <1>8 DEF HavokIInv

LEMMA EngineFreesStep ==
    ASSUME HavokIInv, NEW t \in Threads, EngineFrees(t)
    PROVE  HavokIInv'
<1>1. HavokTypeOK'
    BY HavokAssumption, SMTT(30) DEF HavokIInv, HavokTypeOK, HavokInHand, Queries,
      EngineFrees, At, Return, phantom, query, thread, Alone, Callbacks, NoBinding, Kinds
<1>2. HavokInHand'
    BY HavokAssumption, SMTT(30) DEF HavokIInv, HavokTypeOK, HavokInHand, Sole,
      EveryCallbackFindsItsTarget, Bound, EngineFrees, At, Return, phantom, query, thread,
      Alone, Kinds
<1>3. Bound'
    BY HavokAssumption, SMTT(30) DEF HavokIInv, HavokTypeOK, HavokInHand, Bound, Sole,
      EngineFrees, At, Return, phantom, query, thread, Alone, Kinds
<1>4. Sole'
    BY HavokAssumption, SMTT(30) DEF HavokIInv, HavokTypeOK, HavokInHand, Bound, Sole,
      EngineFrees, At, Return, phantom, query, thread, Alone, Kinds
<1>5. Queries'
    BY HavokAssumption, SMTT(30) DEF HavokIInv, HavokTypeOK, HavokInHand, Queries,
      EngineFrees, At, Return, phantom, query, thread, Alone
<1>6. EveryCallbackFindsItsTarget'
    BY HavokAssumption, SMTT(30) DEF HavokIInv, HavokTypeOK, HavokInHand, Bound, Queries,
      EveryCallbackFindsItsTarget, EngineFrees, At, Return, phantom, query, thread, Alone,
      Kinds
<1>7. HandlersAreTheShapes'
    BY HavokAssumption, SMTT(30) DEF HavokIInv, HavokTypeOK, HavokInHand, Bound, Sole,
      HandlersAreTheShapes, EngineFrees, At, Return, phantom, query, thread, Alone,
      Callbacks, NoBinding, Kinds
<1>8. ReadersAreTheQuerys'
    BY HavokAssumption, SMTT(30) DEF HavokIInv, HavokTypeOK, HavokInHand, Queries,
      ReadersAreTheQuerys, EngineFrees, At, Return, phantom, query, thread, Alone
<1> QED  BY <1>1, <1>2, <1>3, <1>4, <1>5, <1>6, <1>7, <1>8 DEF HavokIInv

LEMMA AskStep ==
    ASSUME HavokIInv, NEW t \in Threads, NEW q \in Slots, NEW h \in Handlers \cup {None}, Ask(t, q, h)
    PROVE  HavokIInv'
<1>1. HavokTypeOK'
    BY HavokAssumption, SMTT(30) DEF HavokIInv, HavokTypeOK, HavokInHand, Queries, Ask, At,
      Asking, phantom, query, thread, Alone, Callbacks, NoBinding, Kinds
<1>2. HavokInHand'
    BY HavokAssumption, SMTT(30) DEF HavokIInv, HavokTypeOK, HavokInHand, Sole,
      EveryCallbackFindsItsTarget, Bound, Ask, At, Asking, phantom, query, thread, Alone,
      Kinds
<1>3. Bound'
    BY HavokAssumption, SMTT(30) DEF HavokIInv, HavokTypeOK, HavokInHand, Bound, Sole, Ask,
      At, Asking, phantom, query, thread, Alone, Kinds
<1>4. Sole'
    BY HavokAssumption, SMTT(30) DEF HavokIInv, HavokTypeOK, HavokInHand, Bound, Sole, Ask,
      At, Asking, phantom, query, thread, Alone, Kinds
<1>5. Queries'
    BY HavokAssumption, SMTT(30) DEF HavokIInv, HavokTypeOK, HavokInHand, Queries, Ask, At,
      Asking, phantom, query, thread, Alone
<1>6. EveryCallbackFindsItsTarget'
    BY HavokAssumption, SMTT(30) DEF HavokIInv, HavokTypeOK, HavokInHand, Bound, Queries,
      EveryCallbackFindsItsTarget, Ask, At, Asking, phantom, query, thread, Alone, Kinds
<1>7. HandlersAreTheShapes'
    BY HavokAssumption, SMTT(30) DEF HavokIInv, HavokTypeOK, HavokInHand, Bound, Sole,
      HandlersAreTheShapes, Ask, At, Asking, phantom, query, thread, Alone, Callbacks,
      NoBinding, Kinds
<1>8. ReadersAreTheQuerys'
    BY HavokAssumption, SMTT(30) DEF HavokIInv, HavokTypeOK, HavokInHand, Queries,
      ReadersAreTheQuerys, Ask, At, Asking, phantom, query, thread, Alone
<1> QED  BY <1>1, <1>2, <1>3, <1>4, <1>5, <1>6, <1>7, <1>8 DEF HavokIInv

LEMMA ReaderBridgeStep ==
    ASSUME HavokIInv, NEW t \in Threads, ReaderBridge(t)
    PROVE  HavokIInv'
<1>1. HavokTypeOK'
  <2>1. HavokTypeOK /\ kind[t] \in Slots /\ target[kind[t]] \in Handlers \cup {None}
    BY DEF HavokIInv, HavokTypeOK, HavokInHand, Queries, ReaderBridge
  <2>2. UNCHANGED <<bound, alive, held, bindings, given, target, holder, reader>>
    BY DEF ReaderBridge, phantom, query
  <2>3. CASE target[kind[t]] = None
    <3>1. aborted' \in BOOLEAN /\ UNCHANGED <<pc, shape, kind, handler>>
      BY <2>3 DEF ReaderBridge, thread
    <3> QED
      BY <2>1, <2>2, <3>1 DEF HavokTypeOK
  <2>4. CASE target[kind[t]] # None
    <3>1. At(t, "reading", None, kind[t], target[kind[t]]) /\ UNCHANGED aborted
      BY <2>4 DEF ReaderBridge
    <3> QED
      BY <2>1, <2>2, <3>1 DEF HavokTypeOK, At
  <2> QED
    BY <2>3, <2>4
<1>2. HavokInHand'
    BY HavokAssumption, SMTT(30) DEF HavokIInv, HavokTypeOK, HavokInHand, Sole,
      EveryCallbackFindsItsTarget, Bound, ReaderBridge, At, phantom, query, thread, Alone,
      Kinds
<1>3. Bound'
    BY HavokAssumption, SMTT(30) DEF HavokIInv, HavokTypeOK, HavokInHand, Bound, Sole,
      ReaderBridge, At, phantom, query, thread, Alone, Kinds
<1>4. Sole'
    BY HavokAssumption, SMTT(30) DEF HavokIInv, HavokTypeOK, HavokInHand, Bound, Sole,
      ReaderBridge, At, phantom, query, thread, Alone, Kinds
<1>5. Queries'
    BY HavokAssumption, SMTT(30) DEF HavokIInv, HavokTypeOK, HavokInHand, Queries,
      ReaderBridge, At, phantom, query, thread, Alone
<1>6. EveryCallbackFindsItsTarget'
    BY HavokAssumption, SMTT(30) DEF HavokIInv, HavokTypeOK, HavokInHand, Bound, Queries,
      EveryCallbackFindsItsTarget, ReaderBridge, At, phantom, query, thread, Alone, Kinds
<1>7. HandlersAreTheShapes'
    BY HavokAssumption, SMTT(30) DEF HavokIInv, HavokTypeOK, HavokInHand, Bound, Sole,
      HandlersAreTheShapes, ReaderBridge, At, phantom, query, thread, Alone, Callbacks,
      NoBinding, Kinds
<1>8. ReadersAreTheQuerys'
    BY HavokAssumption, SMTT(30) DEF HavokIInv, HavokTypeOK, HavokInHand, Queries,
      ReadersAreTheQuerys, ReaderBridge, At, phantom, query, thread, Alone
<1> QED  BY <1>1, <1>2, <1>3, <1>4, <1>5, <1>6, <1>7, <1>8 DEF HavokIInv

LEMMA ReaderReturnsStep ==
    ASSUME HavokIInv, NEW t \in Threads, ReaderReturns(t)
    PROVE  HavokIInv'
<1>1. HavokTypeOK'
    BY HavokAssumption, SMTT(30) DEF HavokIInv, HavokTypeOK, HavokInHand, Queries,
      ReaderReturns, At, phantom, query, thread, Alone, Callbacks, NoBinding, Kinds
<1>2. HavokInHand'
    BY HavokAssumption, SMTT(30) DEF HavokIInv, HavokTypeOK, HavokInHand, Sole,
      EveryCallbackFindsItsTarget, Bound, ReaderReturns, At, phantom, query, thread, Alone,
      Kinds
<1>3. Bound'
    BY HavokAssumption, SMTT(30) DEF HavokIInv, HavokTypeOK, HavokInHand, Bound, Sole,
      ReaderReturns, At, phantom, query, thread, Alone, Kinds
<1>4. Sole'
    BY HavokAssumption, SMTT(30) DEF HavokIInv, HavokTypeOK, HavokInHand, Bound, Sole,
      ReaderReturns, At, phantom, query, thread, Alone, Kinds
<1>5. Queries'
    BY HavokAssumption, SMTT(30) DEF HavokIInv, HavokTypeOK, HavokInHand, Queries,
      ReaderReturns, At, phantom, query, thread, Alone
<1>6. EveryCallbackFindsItsTarget'
    BY HavokAssumption, SMTT(30) DEF HavokIInv, HavokTypeOK, HavokInHand, Bound, Queries,
      EveryCallbackFindsItsTarget, ReaderReturns, At, phantom, query, thread, Alone, Kinds
<1>7. HandlersAreTheShapes'
    BY HavokAssumption, SMTT(30) DEF HavokIInv, HavokTypeOK, HavokInHand, Bound, Sole,
      HandlersAreTheShapes, ReaderReturns, At, phantom, query, thread, Alone, Callbacks,
      NoBinding, Kinds
<1>8. ReadersAreTheQuerys'
    BY HavokAssumption, SMTT(30) DEF HavokIInv, HavokTypeOK, HavokInHand, Queries,
      ReadersAreTheQuerys, ReaderReturns, At, phantom, query, thread, Alone
<1> QED  BY <1>1, <1>2, <1>3, <1>4, <1>5, <1>6, <1>7, <1>8 DEF HavokIInv

LEMMA AnsweredStep ==
    ASSUME HavokIInv, NEW t \in Threads, Answered(t)
    PROVE  HavokIInv'
<1>1. HavokTypeOK'
    BY HavokAssumption, SMTT(30) DEF HavokIInv, HavokTypeOK, HavokInHand, Queries, Answered,
      At, Return, phantom, query, thread, Alone, Callbacks, NoBinding, Kinds
<1>2. HavokInHand'
    BY HavokAssumption, SMTT(30) DEF HavokIInv, HavokTypeOK, HavokInHand, Sole,
      EveryCallbackFindsItsTarget, Bound, Answered, At, Return, phantom, query, thread,
      Alone, Kinds
<1>3. Bound'
    BY HavokAssumption, SMTT(30) DEF HavokIInv, HavokTypeOK, HavokInHand, Bound, Sole,
      Answered, At, Return, phantom, query, thread, Alone, Kinds
<1>4. Sole'
    BY HavokAssumption, SMTT(30) DEF HavokIInv, HavokTypeOK, HavokInHand, Bound, Sole,
      Answered, At, Return, phantom, query, thread, Alone, Kinds
<1>5. Queries'
    BY HavokAssumption, SMTT(30) DEF HavokIInv, HavokTypeOK, HavokInHand, Queries, Answered,
      At, Return, phantom, query, thread, Alone
<1>6. EveryCallbackFindsItsTarget'
    BY HavokAssumption, SMTT(30) DEF HavokIInv, HavokTypeOK, HavokInHand, Bound, Queries,
      EveryCallbackFindsItsTarget, Answered, At, Return, phantom, query, thread, Alone,
      Kinds
<1>7. HandlersAreTheShapes'
    BY HavokAssumption, SMTT(30) DEF HavokIInv, HavokTypeOK, HavokInHand, Bound, Sole,
      HandlersAreTheShapes, Answered, At, Return, phantom, query, thread, Alone, Callbacks,
      NoBinding, Kinds
<1>8. ReadersAreTheQuerys'
    BY HavokAssumption, SMTT(30) DEF HavokIInv, HavokTypeOK, HavokInHand, Queries,
      ReadersAreTheQuerys, Answered, At, Return, phantom, query, thread, Alone
<1> QED  BY <1>1, <1>2, <1>3, <1>4, <1>5, <1>6, <1>7, <1>8 DEF HavokIInv

---------------------------------------------------------------------------

LEMMA HavokInitially == HavokInit => HavokIInv
<1> SUFFICES ASSUME HavokInit PROVE HavokIInv
    OBVIOUS
<1>1. NoBinding \in Callbacks
    BY DEF NoBinding, Callbacks
<1>2. HavokTypeOK
    BY <1>1 DEF HavokInit, HavokTypeOK
<1>3. HavokInHand /\ Bound /\ Sole /\ Queries
    BY HavokAssumption DEF HavokInit, HavokInHand, Bound, Sole, Queries, Alone
<1>4. EveryCallbackFindsItsTarget /\ HandlersAreTheShapes /\ ReadersAreTheQuerys
    BY DEF HavokInit, EveryCallbackFindsItsTarget, HandlersAreTheShapes, ReadersAreTheQuerys
<1> QED  BY <1>2, <1>3, <1>4 DEF HavokIInv

LEMMA HavokInductive == HavokIInv /\ [HavokNext]_havok_vars => HavokIInv'
<1> SUFFICES ASSUME HavokIInv, [HavokNext]_havok_vars PROVE HavokIInv'
    OBVIOUS
<1>1. CASE UNCHANGED havok_vars
    BY <1>1 DEF havok_vars, phantom, query, thread, HavokIInv, HavokTypeOK, HavokInHand,
      Bound, Sole, Queries, Alone, EveryCallbackFindsItsTarget, HandlersAreTheShapes,
      ReadersAreTheQuerys
<1>2. CASE HavokNext
    BY <1>2, EngineCreatesStep, RegisterPhantomCallbacksStep, EngineMeetsStep,
      EngineDeletesStep, LookUpStep, HandlerReturnsStep, EngineFreesStep, AskStep,
      ReaderBridgeStep, ReaderReturnsStep, AnsweredStep DEF HavokNext
<1> QED  BY <1>1, <1>2

\* The invariant the results below follow from.
THEOREM HavokInvariance == HavokSpec => []HavokIInv
BY HavokInitially, HavokInductive, PTL DEF HavokSpec

\* Every variable keeps its kind of value.
THEOREM HavokTypeCorrect == HavokSpec => []HavokTypeOK
<1>1. HavokIInv => HavokTypeOK
    BY DEF HavokIInv
<1> QED  BY <1>1, HavokInvariance, PTL

\* No bridge of Havok.cpp finds nothing and aborts the process.
THEOREM NeverAborted == HavokSpec => []EveryCallbackFindsItsTarget
<1>1. HavokIInv => EveryCallbackFindsItsTarget
    BY DEF HavokIInv
<1> QED  BY <1>1, HavokInvariance, PTL

\* A bridge calls the handler its shape was created with, or the reader of
\* its own query.
THEOREM OwnCallbacks == HavokSpec => []CallbacksAreTheirOwn
<1>1. HavokIInv => CallbacksAreTheirOwn
    BY DEF HavokIInv, CallbacksAreTheirOwn
<1> QED  BY <1>1, HavokInvariance, PTL

---------------------------------------------------------------------------
(* Virtual memory.                                                       *)

USE MemoryAssumption

---------------------------------------------------------------------------
(* The inductive invariant.                                                *)

Trimming == {"prefix", "suffix", "rollback"}

\* The pages the call under way has mapped, those it has given back included.
Claimed ==
    IF call.at \in Trimming THEN Pages(call.mapping, call.end)
    ELSE IF call.at = "mapped" THEN Pages(call.base, call.base + call.size)
    ELSE {}

\* What a call has mapped is in no reservation, and its trims leave the
\* pages that it will record.
CallInv ==
    /\ \A b \in Recorded : Claimed \cap Reserved(b) = {}
    /\ call.at # "rollback" => InCall \subseteq ours
    /\ call.at \in Trimming => call.mapping <= call.base /\ call.base + call.size <= call.end

\* Only pages of reservations are promised to be anything, and those that are
\* not committed hold nothing.
ContentsInv ==
    /\ \A p \in UserPages : promised[p] # "free" => \E b \in Recorded : p \in Reserved(b)
    /\ \A p \in UserPages : promised[p] \notin Protections => p \notin dirty \cup stored

Apart == ours \cap others = {}

\* Below vm.max_map_count no trim fails, and commits that fail take nothing.
BelowInv ==
    ~full => NothingLeaks /\ AccessIsGiven /\ call.at # "rollback"

MemoryIInv ==
    MemoryTypeOK /\ ReservationsHold /\ CallInv /\ ContentsInv /\ ContentsKept /\ Apart /\ BelowInv

---------------------------------------------------------------------------
(* Addresses.                                                              *)

LEMMA DivMonotone ==
    ASSUME NEW a \in Int, NEW b \in Int, a <= b
    PROVE  a \div PageSize \in Int /\ a \div PageSize <= b \div PageSize
OBVIOUS

LEMMA PagesWithin ==
    ASSUME NEW a \in Int, NEW b \in Int, NEW c \in Int, NEW d \in Int, a <= c, d <= b
    PROVE  Pages(c, d) \subseteq Pages(a, b)
<1>1. /\ a \div PageSize \in Int /\ b \div PageSize \in Int
      /\ c \div PageSize \in Int /\ d \div PageSize \in Int
  BY DivMonotone
<1>2. a \div PageSize <= c \div PageSize /\ d \div PageSize <= b \div PageSize
  BY DivMonotone
<1> QED BY <1>1, <1>2 DEF Pages

LEMMA PagesSplit ==
    ASSUME NEW a \in Int, NEW b \in Int, NEW c \in Int, a <= b, b <= c
    PROVE  /\ Pages(a, c) = Pages(a, b) \cup Pages(b, c)
           /\ Pages(a, b) \cap Pages(b, c) = {}
<1>1. /\ a \div PageSize \in Int /\ b \div PageSize \in Int /\ c \div PageSize \in Int
      /\ a \div PageSize <= b \div PageSize /\ b \div PageSize <= c \div PageSize
  BY DivMonotone
<1> QED BY <1>1 DEF Pages

LEMMA Rounding ==
    ASSUME NEW v \in Int, NEW a \in Nat \ {0}
    PROVE  /\ RoundDown(v, a) \in Int /\ RoundDown(v, a) <= v
           /\ RoundUp(v, a) \in Int /\ v <= RoundUp(v, a) /\ RoundUp(v, a) <= v + a
<1>1. v % a \in 0..(a - 1) /\ (v + a - 1) % a \in 0..(a - 1)
  OBVIOUS
<1>2. RoundDown(v, a) \in Int /\ RoundDown(v, a) <= v
  BY <1>1 DEF RoundDown
<1>3. RoundUp(v, a) \in Int /\ v <= RoundUp(v, a) /\ RoundUp(v, a) <= v + a
  BY <1>1 DEF RoundDown, RoundUp
<1> QED BY <1>2, <1>3

\* A range that find_reservation accepts is of one reservation's pages.
LEMMA Within ==
    ASSUME MemoryTypeOK, NEW start \in Int, NEW end \in Int, InReservation(start, end)
    PROVE  \E b \in DOMAIN reservations : Pages(start, end) \subseteq Reserved(b)
<1>1. PICK b \in DOMAIN reservations : b <= start /\ end <= b + reservations[b]
  BY DEF InReservation
<1>2. b \in Int /\ b + reservations[b] \in Int
  BY <1>1 DEF MemoryTypeOK
<1>3. Pages(start, end) \subseteq Pages(b, b + reservations[b])
  BY <1>1, <1>2, PagesWithin
<1> QED BY <1>1, <1>3 DEF Reserved

---------------------------------------------------------------------------
(* Calls.                                                                  *)

\* The fields a call has where it is.
LEMMA Fields ==
    ASSUME MemoryTypeOK
    PROVE  /\ call.at \in Trimming =>
                /\ call.mapping \in Int /\ call.end \in Int /\ call.base \in Int /\ call.size \in Nat
                /\ call.commit \in Protections \cup {"reserved"}
                /\ call = [at |-> call.at, mapping |-> call.mapping, end |-> call.end,
                           base |-> call.base, size |-> call.size, commit |-> call.commit]
           /\ call.at = "mapped" =>
                /\ call.base \in Int /\ call.size \in Int
                /\ call.commit \in Protections \cup {"reserved"}
           /\ call.at = "idle" => call = Idle
           /\ call.at \in Trimming \cup {"mapped", "idle", "released"}
BY DEF MemoryTypeOK, Calls, Idle, Trimming

\* What a place of a call says of it.
LEMMA AtMapped ==
    ASSUME NEW base \in Int, NEW size \in Int, NEW commit \in Protections \cup {"reserved"},
           call' = Mapped(base, size, commit)
    PROVE  /\ (call \in Calls)'
           /\ Claimed' = Pages(base, base + size) /\ InCall' = Pages(base, base + size)
           /\ Recorded' = DOMAIN reservations'
           /\ call'.at \notin Trimming /\ call'.at # "rollback"
BY DEF Mapped, Calls, Claimed, InCall, Recorded, Trimming

LEMMA AtIdle ==
    ASSUME call' = Idle
    PROVE  /\ (call \in Calls)' /\ Claimed' = {} /\ InCall' = {}
           /\ Recorded' = DOMAIN reservations'
           /\ call'.at \notin Trimming /\ call'.at # "rollback"
BY DEF Idle, Calls, Claimed, InCall, Recorded, Trimming

LEMMA AtTrimming ==
    ASSUME NEW mapping \in Int, NEW end \in Int, NEW base \in Int, NEW size \in Nat,
           NEW commit \in Protections \cup {"reserved"}, NEW at \in Trimming,
           call' = [at |-> at, mapping |-> mapping, end |-> end,
                    base |-> base, size |-> size, commit |-> commit]
    PROVE  /\ (call \in Calls)'
           /\ Claimed' = Pages(mapping, end)
           /\ InCall' = IF at = "suffix" THEN Pages(base, end) ELSE Pages(mapping, end)
           /\ Recorded' = DOMAIN reservations'
           /\ call'.at = at /\ call'.mapping = mapping /\ call'.end = end
           /\ call'.base = base /\ call'.size = size
BY DEF Calls, Claimed, InCall, Recorded, Trimming

LEMMA RecordedBefore ==
    ASSUME MemoryTypeOK, call.at # "released"
    PROVE  Recorded = DOMAIN reservations
BY DEF Recorded

LEMMA UnionIs ==
    ASSUME NEW O, NEW A, NEW C
    PROVE  O = A \cup C <=> \A p : p \in O <=> p \in A \/ p \in C
OBVIOUS

\* NothingLeaks, page by page.
LEMMA Leaks ==
    /\ NothingLeaks <=>
        \A p : p \in ours <=> (\E b \in Recorded : p \in Reserved(b)) \/ p \in InCall
    /\ NothingLeaks' <=>
        \A p : p \in ours' <=> (\E b \in Recorded' : p \in Reserved(b)') \/ p \in InCall'
<1> DEFINE A == UNION {Reserved(b) : b \in Recorded}
           B == UNION {Reserved(b)' : b \in Recorded'}
<1>1. \A p : p \in A <=> \E b \in Recorded : p \in Reserved(b)
  OBVIOUS
<1>2. \A p : p \in B <=> \E b \in Recorded' : p \in Reserved(b)'
  OBVIOUS
<1>3. (NothingLeaks <=> ours = A \cup InCall) /\ (NothingLeaks' <=> ours' = B \cup InCall')
  BY DEF NothingLeaks
<1> HIDE DEF A, B
<1>4. ours = A \cup InCall <=> \A p : p \in ours <=> p \in A \/ p \in InCall
  BY UnionIs
<1>5. ours' = B \cup InCall' <=> \A p : p \in ours' <=> p \in B \/ p \in InCall'
  BY UnionIs
<1> QED BY <1>1, <1>2, <1>3, <1>4, <1>5

LEMMA IdleIs == call = Idle => call.at = "idle" /\ InCall = {} /\ Claimed = {}
BY DEF Idle, InCall, Claimed, Trimming

---------------------------------------------------------------------------
(* What system calls do, whoever makes them.                               *)

\* Fresh pages for a call that begins.
LEMMA FreshPages ==
    ASSUME MemoryIInv, UNCHANGED full, call.at = "idle", NEW R, Vacant(R), Map(R), others' = others,
           UNCHANGED <<reservations, program>>,
           (call \in Calls)', Recorded' = DOMAIN reservations',
           Claimed' = R, InCall' = R, call'.at # "rollback",
           (call.at \in Trimming => call.mapping <= call.base /\ call.base + call.size <= call.end)'
    PROVE  MemoryIInv'
<1>1. Recorded = DOMAIN reservations /\ Recorded' = Recorded
  BY RecordedBefore DEF MemoryIInv
<1>2. \A b \in Recorded : Reserved(b)' = Reserved(b) /\ Reserved(b) \subseteq ours
  BY <1>1 DEF MemoryIInv, ReservationsHold, Reserved
<1>3. R \subseteq UserPages /\ R \cap ours = {} /\ R \cap others = {}
  BY DEF Vacant
<1>4. \A p \in R : promised[p] = "free"
  BY <1>2, <1>3 DEF MemoryIInv, ContentsInv
<1>5. MemoryTypeOK'
  BY <1>3 DEF MemoryIInv, MemoryTypeOK, Map, program
<1>6. ReservationsHold'
  BY <1>1, <1>2 DEF MemoryIInv, ReservationsHold, Map
<1>7. CallInv'
  BY <1>1, <1>2, <1>3 DEF MemoryIInv, CallInv, Map
<1>8. ContentsInv' /\ ContentsKept'
  <2>1. promised' = promised /\ stored' = stored /\ dirty' = dirty \ R
    BY DEF program, Map
  <2>2. \A p \in R : p \notin stored
    BY <1>3, <1>4 DEF MemoryIInv, ContentsInv, Protections
  <2> QED BY <1>1, <1>2, <1>4, <2>1, <2>2 DEF MemoryIInv, ContentsInv, ContentsKept, Protections
<1>9. Apart'
  BY <1>3 DEF MemoryIInv, Apart, Map
<1>10. BelowInv'
  <2> SUFFICES ASSUME ~full PROVE NothingLeaks' /\ AccessIsGiven'
    BY DEF BelowInv
  <2>1. InCall = {}
    BY DEF InCall
  <2>2. NothingLeaks'
    BY <1>1, <1>2, <2>1, Leaks DEF MemoryIInv, BelowInv, Map
  <2>3. AccessIsGiven'
    BY <1>4 DEF MemoryIInv, BelowInv, AccessIsGiven, Map, program
  <2> QED BY <2>2, <2>3
<1> QED BY <1>5, <1>6, <1>7, <1>8, <1>9, <1>10 DEF MemoryIInv

\* Pages that a call has mapped go, or nothing does.
LEMMA GiveBack ==
    ASSUME MemoryIInv, UNCHANGED full, NEW R, R \subseteq Claimed, Unmap(R),
           UNCHANGED <<reservations, program>>,
           (call \in Calls)', Recorded' = Recorded, Claimed' \subseteq Claimed,
           (call.at # "rollback" => InCall \subseteq ours)',
           full \/ (InCall' = InCall \ R /\ call'.at # "rollback"),
           (call.at \in Trimming => call.mapping <= call.base /\ call.base + call.size <= call.end)'
    PROVE  MemoryIInv'
<1>1. \A b \in Recorded : /\ Reserved(b)' = Reserved(b) /\ Reserved(b) \subseteq ours
                          /\ R \cap Reserved(b) = {}
  BY DEF MemoryIInv, ReservationsHold, Reserved, CallInv
<1>2. \A p \in R \cap UserPages : promised[p] = "free"
  BY <1>1 DEF MemoryIInv, ContentsInv
<1>3. MemoryTypeOK'
  BY DEF MemoryIInv, MemoryTypeOK, Unmap, program
<1>4. ReservationsHold'
  BY <1>1 DEF MemoryIInv, ReservationsHold, Unmap
<1>5. CallInv'
  BY <1>1 DEF MemoryIInv, CallInv
<1>6. ContentsInv' /\ ContentsKept'
  <2>1. promised' = promised /\ stored' = stored /\ dirty' = dirty \ R
    BY DEF program, Unmap
  <2> QED BY <1>1, <1>2, <2>1 DEF MemoryIInv, ContentsInv, ContentsKept, Protections
<1>7. Apart'
  BY DEF MemoryIInv, Apart, Unmap
<1>8. BelowInv'
  <2> SUFFICES ASSUME ~full PROVE NothingLeaks' /\ AccessIsGiven'
    BY DEF BelowInv
  <2>1. NothingLeaks'
    BY <1>1, Leaks DEF MemoryIInv, BelowInv, Unmap, CallInv
  <2>2. AccessIsGiven'
    BY <1>2 DEF MemoryIInv, BelowInv, AccessIsGiven, Unmap, program
  <2> QED BY <2>1, <2>2
<1> QED BY <1>3, <1>4, <1>5, <1>6, <1>7, <1>8 DEF MemoryIInv

LEMMA NothingUnmapped == UNCHANGED <<pages, others>> => Unmap({})
BY DEF pages, Unmap

---------------------------------------------------------------------------
(* Every step keeps the invariant.                                         *)

LEMMA InitInv == MemoryInit => MemoryIInv
<1> SUFFICES ASSUME MemoryInit PROVE MemoryIInv
  OBVIOUS
<1>1. DOMAIN reservations = {} /\ Recorded = {} /\ Claimed = {} /\ InCall = {}
  BY DEF MemoryInit, Recorded, Claimed, InCall, Idle, Trimming
<1>2. MemoryTypeOK
  BY <1>1 DEF MemoryInit, MemoryTypeOK, Calls
<1>3. CallInv
  BY <1>1 DEF MemoryInit, CallInv, Idle, Trimming
<1>4. ReservationsHold /\ ContentsInv /\ ContentsKept /\ Apart
  BY <1>1 DEF MemoryInit, ReservationsHold, ContentsInv, ContentsKept, Apart, Protections
<1>5. BelowInv
  BY <1>1 DEF MemoryInit, BelowInv, NothingLeaks, AccessIsGiven, Idle
<1> QED BY <1>2, <1>3, <1>4, <1>5 DEF MemoryIInv

\* The pages of a commit or a decommit are of one reservation.
LEMMA RangeReserved ==
    ASSUME MemoryIInv, call.at = "idle", NEW start \in Int, NEW end \in Int, InReservation(start, end)
    PROVE  \E b \in Recorded : Pages(start, end) \subseteq Reserved(b)
BY Within, RecordedBefore DEF MemoryIInv

LEMMA CommitKeeps ==
    ASSUME MemoryIInv, UNCHANGED full, NEW a \in Addresses, NEW s \in Sizes, NEW protection \in Protections,
           Commit(a, s, protection)
    PROVE  MemoryIInv'
<1> DEFINE start == RoundDown(a, PageSize)
           end == RoundUp(a + s, PageSize)
           R == Pages(start, end)
<1>1. /\ call.at = "idle" /\ InReservation(start, end)
      /\ UNCHANGED <<reservations, ours, dirty, others, call, stored>>
  BY IdleIs DEF Commit, Committing
<1>2. start \in Int /\ end \in Int
  BY Rounding, a \in Int, s \in Int
<1>3. PICK b \in Recorded : R \subseteq Reserved(b)
  BY <1>1, <1>2, RangeReserved
<1>4. Reserved(b) \subseteq ours
  BY DEF MemoryIInv, ReservationsHold
<1>5. \E P \in SUBSET R : Protect(P, protection)
  BY DEF Commit, Committing, MayFailAfter
<1>6. promised' = promised \/ promised' = [p \in UserPages |-> IF p \in R THEN protection ELSE promised[p]]
  BY DEF Commit, Committing, Promise
<1>7. MemoryTypeOK'
  BY <1>1, <1>3, <1>4, <1>5, <1>6 DEF MemoryIInv, MemoryTypeOK, Protect
<1>8. /\ Recorded' = Recorded /\ Claimed' = Claimed /\ InCall' = InCall
      /\ \A c \in Recorded : Reserved(c)' = Reserved(c)
  BY <1>1 DEF Recorded, Claimed, InCall, Reserved
<1>9. ReservationsHold' /\ CallInv' /\ Apart'
  BY <1>1, <1>8 DEF MemoryIInv, ReservationsHold, CallInv, Apart
<1>10. ContentsInv' /\ ContentsKept'
  BY <1>1, <1>3, <1>6, <1>8 DEF MemoryIInv, MemoryTypeOK, ContentsInv, ContentsKept, Protections
<1>11. BelowInv'
  <2> SUFFICES ASSUME ~full PROVE (NothingLeaks /\ AccessIsGiven)'
    BY <1>1 DEF BelowInv
  <2>1. NothingLeaks'
    BY <1>1, <1>8 DEF MemoryIInv, BelowInv, NothingLeaks
  <2>2. \/ Protect(R, protection) /\ Promise(R, protection)
        \/ protection = "readwrite" /\ open \subseteq open' /\ promised' = promised
    BY DEF Commit, Committing, MayFailAfter, Protect
  <2>3. AccessIsGiven'
    BY <2>2 DEF MemoryIInv, BelowInv, AccessIsGiven, Protect, Promise
  <2> QED BY <2>1, <2>3
<1> QED BY <1>7, <1>9, <1>10, <1>11 DEF MemoryIInv

LEMMA ReserveAtKeeps ==
    ASSUME MemoryIInv, UNCHANGED full, NEW a \in Addresses, NEW s \in Sizes,
           NEW commit \in Protections \cup {"reserved"}, ReserveAt(a, s, commit)
    PROVE  MemoryIInv'
<1> DEFINE base == RoundDown(a, Granularity)
           end == RoundUp(a + s, PageSize)
<1>1. /\ call = Idle /\ Vacant(Pages(base, end)) /\ Map(Pages(base, end))
      /\ others' = others \ Pages(base, end)
      /\ call' = Mapped(base, end - base, commit)
      /\ UNCHANGED <<reservations, program>>
  BY DEF ReserveAt, Reserving, Asked
<1>2. a \in Int /\ a + s \in Int
  OBVIOUS
<1>3. base \in Int /\ end \in Int
  BY <1>2, Rounding
<1> HIDE DEF base, end
<1>4. end - base \in Int /\ base + (end - base) = end
  BY <1>3
<1>5. others' = others
  BY <1>1 DEF Vacant
<1>6. /\ (call \in Calls)' /\ Claimed' = Pages(base, end) /\ InCall' = Pages(base, end)
      /\ Recorded' = DOMAIN reservations'
      /\ call'.at \notin Trimming /\ call'.at # "rollback"
  BY <1>1, <1>3, <1>4, AtMapped
<1> QED BY <1>1, <1>5, <1>6, IdleIs, FreshPages

LEMMA MapAnywhereKeeps ==
    ASSUME MemoryIInv, UNCHANGED full, NEW s \in Sizes, NEW commit \in Protections \cup {"reserved"},
           MapAnywhere(s, commit)
    PROVE  MemoryIInv'
<1> DEFINE size == RoundUp(s, PageSize)
<1>1. PICK p \in UserPages :
        LET mapping == p * PageSize
            base == RoundUp(mapping, Granularity)
            end == mapping + size + Granularity
        IN  /\ Vacant(Pages(mapping, end))
            /\ Map(Pages(mapping, end))
            /\ call' = [at |-> IF base = mapping THEN "suffix" ELSE "prefix",
                        mapping |-> mapping, end |-> end,
                        base |-> base, size |-> size, commit |-> commit]
  BY DEF MapAnywhere
<1> DEFINE mapping == p * PageSize
           base == RoundUp(mapping, Granularity)
           end == mapping + size + Granularity
           at == IF base = mapping THEN "suffix" ELSE "prefix"
<1>2. call = Idle /\ UNCHANGED <<reservations, others, program>>
  BY DEF MapAnywhere
<1>3. size \in Nat /\ mapping \in Int
  <2>1. s \in Int /\ 0 <= s /\ mapping \in Int
    OBVIOUS
  <2>2. size \in Int /\ s <= size
    BY <2>1, Rounding
  <2> QED BY <2>1, <2>2
<1>4. base \in Int /\ mapping <= base /\ base <= mapping + Granularity
  BY <1>3, Rounding
<1>5. end \in Int /\ base + size <= end /\ at \in Trimming
  BY <1>3, <1>4 DEF Trimming
<1>6. /\ Vacant(Pages(mapping, end)) /\ Map(Pages(mapping, end))
      /\ call' = [at |-> at, mapping |-> mapping, end |-> end,
                  base |-> base, size |-> size, commit |-> commit]
  BY <1>1
<1>7. (at = "suffix" => base = mapping) /\ at # "rollback"
  OBVIOUS
<1> HIDE DEF size, mapping, base, end, at
<1>8. /\ (call \in Calls)' /\ Claimed' = Pages(mapping, end)
      /\ InCall' = IF at = "suffix" THEN Pages(base, end) ELSE Pages(mapping, end)
      /\ Recorded' = DOMAIN reservations'
      /\ call'.at = at /\ call'.mapping = mapping /\ call'.end = end
      /\ call'.base = base /\ call'.size = size
  BY <1>3, <1>4, <1>5, <1>6, AtTrimming
<1>9. InCall' = Pages(mapping, end) /\ at # "rollback"
  BY <1>7, <1>8
<1> QED BY <1>2, <1>4, <1>5, <1>6, <1>8, <1>9, IdleIs, FreshPages

LEMMA UndoKeeps ==
    ASSUME MemoryIInv, UNCHANGED full, Undo(Claimed), call.at \in {"rollback", "mapped"}
    PROVE  MemoryIInv'
<1>1. PICK R \in SUBSET Claimed : Unmap(R) /\ (full \/ R = Claimed)
  BY NothingUnmapped DEF Undo, MayFailToUnmap
<1>2. /\ (call \in Calls)' /\ Claimed' = {} /\ InCall' = {}
      /\ Recorded' = DOMAIN reservations'
      /\ call'.at \notin Trimming /\ call'.at # "rollback"
  BY AtIdle DEF Undo
<1>3. Recorded' = Recorded
  BY <1>2, RecordedBefore DEF MemoryIInv, Undo
<1>4. full \/ (InCall' = InCall \ R /\ call'.at # "rollback")
  <2>1. full \/ InCall = Claimed
    BY DEF MemoryIInv, BelowInv, InCall, Claimed, Trimming
  <2> QED BY <1>1, <1>2, <2>1
<1> QED BY <1>1, <1>2, <1>3, <1>4, GiveBack DEF Undo, Trimming

LEMMA RollbackKeeps ==
    ASSUME MemoryIInv, UNCHANGED full, Rollback
    PROVE  MemoryIInv'
<1>1. call.at = "rollback" /\ Claimed = Pages(call.mapping, call.end)
  BY DEF Rollback, Claimed, Trimming
<1> QED BY <1>1, UndoKeeps DEF Rollback

LEMMA DiscardKeeps ==
    ASSUME MemoryIInv, UNCHANGED full, Discard
    PROVE  MemoryIInv'
<1>1. call.at = "mapped" /\ Claimed = Pages(call.base, call.base + call.size)
  BY DEF Discard, Claimed, Trimming
<1> QED BY <1>1, UndoKeeps DEF Discard

\* A trim that fails leaves the whole mapping to the rollback.
LEMMA TrimFails ==
    ASSUME MemoryIInv, UNCHANGED full, call.at \in {"prefix", "suffix"},
           call' = [call EXCEPT !.at = "rollback"],
           UNCHANGED <<pages, others>>, UNCHANGED <<reservations, program>>, full
    PROVE  MemoryIInv'
<1>1. /\ call.mapping \in Int /\ call.end \in Int /\ call.base \in Int /\ call.size \in Nat
      /\ call.commit \in Protections \cup {"reserved"}
      /\ call = [at |-> call.at, mapping |-> call.mapping, end |-> call.end,
                 base |-> call.base, size |-> call.size, commit |-> call.commit]
  BY Fields DEF MemoryIInv, Trimming
<1>2. call' = [at |-> "rollback", mapping |-> call.mapping, end |-> call.end,
               base |-> call.base, size |-> call.size, commit |-> call.commit]
  BY <1>1
<1>9. /\ call'.at = "rollback" /\ call'.mapping = call.mapping /\ call'.end = call.end
      /\ call'.base = call.base /\ call'.size = call.size
  BY <1>2
<1>3. /\ (call \in Calls)'
      /\ Claimed' = Pages(call.mapping, call.end)
      /\ Recorded' = DOMAIN reservations'
  <2>1. "rollback" \in Trimming
    BY DEF Trimming
  <2> QED
    BY <1>1, <1>2, <1>9, <2>1, AtTrimming
<1>4. Claimed' = Claimed /\ Recorded' = Recorded
  BY <1>3, RecordedBefore DEF Claimed, Trimming, MemoryIInv
<1>5. (call.at \in Trimming => call.mapping <= call.base /\ call.base + call.size <= call.end)'
  BY <1>9 DEF MemoryIInv, CallInv, Trimming
<1> QED BY <1>3, <1>9, <1>4, <1>5, NothingUnmapped, GiveBack

LEMMA TrimPrefixKeeps ==
    ASSUME MemoryIInv, UNCHANGED full, TrimPrefix
    PROVE  MemoryIInv'
<1> DEFINE R == Pages(call.mapping, call.base)
<1>1. call.at = "prefix" /\ UNCHANGED <<reservations, program>>
  BY DEF TrimPrefix, Trim
<1>2. /\ call.mapping \in Int /\ call.end \in Int /\ call.base \in Int /\ call.size \in Nat
      /\ call.commit \in Protections \cup {"reserved"}
      /\ call = [at |-> call.at, mapping |-> call.mapping, end |-> call.end,
                 base |-> call.base, size |-> call.size, commit |-> call.commit]
  BY <1>1, Fields DEF MemoryIInv, Trimming
<1>3. CASE Unmap(R) /\ call' = [call EXCEPT !.at = "suffix"]
  <2>1. call' = [at |-> "suffix", mapping |-> call.mapping, end |-> call.end,
                 base |-> call.base, size |-> call.size, commit |-> call.commit]
    BY <1>2, <1>3
  <2>8. /\ call'.at = "suffix" /\ call'.mapping = call.mapping /\ call'.end = call.end
        /\ call'.base = call.base /\ call'.size = call.size
    BY <2>1
  <2>9. "suffix" \in Trimming
    BY DEF Trimming
  <2>2. /\ (call \in Calls)'
        /\ Claimed' = Pages(call.mapping, call.end) /\ InCall' = Pages(call.base, call.end)
        /\ Recorded' = DOMAIN reservations'
        /\ call'.at = "suffix" /\ call'.mapping = call.mapping /\ call'.end = call.end
        /\ call'.base = call.base /\ call'.size = call.size
    BY <1>2, <2>1, <2>8, <2>9, AtTrimming
  <2>3. Claimed' = Claimed /\ Recorded' = Recorded
    BY <1>1, <2>2, RecordedBefore DEF Claimed, Trimming, MemoryIInv
  <2>4. /\ call.mapping <= call.base /\ call.base + call.size <= call.end
        /\ Pages(call.mapping, call.end) \subseteq ours
    BY <1>1 DEF MemoryIInv, CallInv, InCall, Trimming
  <2>5. /\ Pages(call.mapping, call.end) = R \cup Pages(call.base, call.end)
        /\ R \cap Pages(call.base, call.end) = {}
    BY <1>2, <2>4, PagesSplit
  <2>6. InCall' \subseteq ours'
    BY <1>3, <2>2, <2>4, <2>5 DEF Unmap
  <2>7. R \subseteq Claimed /\ InCall' = InCall \ R
    BY <1>1, <2>2, <2>5 DEF Claimed, InCall, Trimming
  <2> QED BY <1>1, <1>3, <2>2, <2>3, <2>4, <2>6, <2>7, GiveBack
<1>4. CASE /\ full
           /\ call' = [call EXCEPT !.at = "rollback"] /\ UNCHANGED <<pages, others>>
  BY <1>1, <1>4, TrimFails
<1> QED BY <1>3, <1>4 DEF TrimPrefix, Trim, MayFailToUnmap

LEMMA TrimSuffixKeeps ==
    ASSUME MemoryIInv, UNCHANGED full, TrimSuffix
    PROVE  MemoryIInv'
<1> DEFINE next == call.base + call.size
           R == Pages(next, call.end)
<1>1. call.at = "suffix" /\ UNCHANGED <<reservations, program>>
  BY DEF TrimSuffix, Trim
<1>2. /\ call.mapping \in Int /\ call.end \in Int /\ call.base \in Int /\ call.size \in Nat
      /\ call.commit \in Protections \cup {"reserved"}
  BY <1>1, Fields DEF MemoryIInv, Trimming
<1>3. CASE Unmap(R) /\ call' = Mapped(call.base, call.size, call.commit)
  <2>1. /\ (call \in Calls)'
        /\ Claimed' = Pages(call.base, next) /\ InCall' = Pages(call.base, next)
        /\ Recorded' = DOMAIN reservations'
      /\ call'.at \notin Trimming /\ call'.at # "rollback"
    BY <1>2, <1>3, AtMapped
  <2>2. Recorded' = Recorded
    BY <1>1, <2>1, RecordedBefore DEF MemoryIInv
  <2>3. /\ call.mapping <= call.base /\ next <= call.end
        /\ Pages(call.base, call.end) \subseteq ours
    BY <1>1 DEF MemoryIInv, CallInv, InCall, Trimming
  <2>4. call.base <= next /\ next \in Int
    BY <1>2
  <2>5. /\ Pages(call.base, call.end) = Pages(call.base, next) \cup R
        /\ Pages(call.base, next) \cap R = {}
    BY <1>2, <2>3, <2>4, PagesSplit
  <2>6. InCall' \subseteq ours'
    BY <1>3, <2>1, <2>3, <2>5 DEF Unmap
  <2>7. Claimed = Pages(call.mapping, call.end)
    BY <1>1 DEF Claimed, Trimming
  <2>8. Pages(call.base, call.end) \subseteq Claimed
    BY <1>2, <2>3, <2>7, PagesWithin
  <2>9. InCall' = InCall \ R
    BY <1>1, <2>1, <2>5 DEF InCall
  <2> QED BY <1>1, <1>3, <2>1, <2>2, <2>5, <2>6, <2>8, <2>9, GiveBack DEF Trimming
<1>4. CASE /\ full
           /\ call' = [call EXCEPT !.at = "rollback"] /\ UNCHANGED <<pages, others>>
  BY <1>1, <1>4, TrimFails
<1> QED BY <1>3, <1>4 DEF TrimSuffix, Trim, MayFailToUnmap

LEMMA RecordKeeps ==
    ASSUME MemoryIInv, UNCHANGED full, Record
    PROVE  MemoryIInv'
<1>1. PICK base, size : base = call.base /\ size = call.size
  OBVIOUS
<1> DEFINE R == Pages(base, base + size)
<1>2. /\ call.at = "mapped" /\ base \notin DOMAIN reservations
      /\ \/ UNCHANGED open
         \/ Protect(R, call.commit)
      /\ reservations' = [b \in DOMAIN reservations \cup {base} |->
            IF b = base THEN size ELSE reservations[b]]
      /\ promised' = [p \in UserPages |-> IF p \in R THEN call.commit ELSE promised[p]]
      /\ call' = Idle /\ UNCHANGED <<ours, others, dirty, stored>>
  BY <1>1 DEF Record, Promise
<1>3. /\ base \in Int /\ size \in Int
      /\ call.commit \in Protections \cup {"reserved"}
  BY <1>1, <1>2, Fields DEF MemoryIInv
<1>4. /\ (call \in Calls)' /\ Claimed' = {} /\ InCall' = {}
      /\ Recorded' = DOMAIN reservations'
      /\ call'.at \notin Trimming /\ call'.at # "rollback"
  BY <1>2, AtIdle
<1>5. Recorded = DOMAIN reservations
  BY <1>2, RecordedBefore DEF MemoryIInv
<1>6. Recorded' = Recorded \cup {base} /\ base \notin Recorded
  BY <1>2, <1>4, <1>5
<1>7. Reserved(base)' = R /\ \A b \in Recorded : Reserved(b)' = Reserved(b)
  BY <1>2, <1>5 DEF Reserved
<1>8. R = Claimed /\ R = InCall
  BY <1>1, <1>2 DEF Claimed, InCall, Trimming
<1>9. R \subseteq ours /\ \A b \in Recorded : R \cap Reserved(b) = {}
  BY <1>2, <1>8 DEF MemoryIInv, CallInv
<1>10. MemoryTypeOK'
  <2>1. open' \subseteq ours
    BY <1>2, <1>9 DEF MemoryIInv, MemoryTypeOK, Protect
  <2>2. promised' \in [UserPages -> Protections \cup {"reserved", "free"}]
    BY <1>2, <1>3 DEF MemoryIInv, MemoryTypeOK
  <2>3. /\ (\A b \in DOMAIN reservations : b \in Int /\ reservations[b] \in Int)'
        /\ (reservations = [b \in DOMAIN reservations |-> reservations[b]])'
    BY <1>2, <1>3 DEF MemoryIInv, MemoryTypeOK
  <2> QED BY <1>2, <1>4, <2>1, <2>2, <2>3 DEF MemoryIInv, MemoryTypeOK
<1>11. ReservationsHold'
  BY <1>2, <1>6, <1>7, <1>9 DEF MemoryIInv, ReservationsHold
<1>12. CallInv'
  BY <1>4 DEF CallInv
<1>13. \A p \in R : p \in UserPages => promised[p] = "free" /\ p \notin dirty \cup stored
  BY <1>9 DEF MemoryIInv, ContentsInv, Protections
<1>14. ContentsInv' /\ ContentsKept'
  BY <1>2, <1>6, <1>7, <1>13 DEF MemoryIInv, ContentsInv, ContentsKept, Protections
<1>15. Apart'
  BY <1>2 DEF MemoryIInv, Apart
<1>16. BelowInv'
  <2> SUFFICES ASSUME ~full PROVE (NothingLeaks /\ AccessIsGiven)'
    BY <1>4 DEF BelowInv
  <2>1. NothingLeaks'
    BY <1>2, <1>4, <1>6, <1>7, <1>8, Leaks DEF MemoryIInv, BelowInv
  <2>2. IF call.commit = "reserved" THEN UNCHANGED open ELSE Protect(R, call.commit)
    BY <1>1 DEF Record
  <2>3. AccessIsGiven'
    BY <1>2, <1>3, <2>2 DEF MemoryIInv, BelowInv, AccessIsGiven, Protect
  <2> QED BY <2>1, <2>3
<1> QED BY <1>10, <1>11, <1>12, <1>14, <1>15, <1>16 DEF MemoryIInv

LEMMA ReleaseKeeps ==
    ASSUME MemoryIInv, UNCHANGED full, NEW a \in Addresses, Release(a)
    PROVE  MemoryIInv'
<1>1. /\ call.at = "idle" /\ a \in DOMAIN reservations /\ Unmap(Reserved(a))
      /\ promised' = [p \in UserPages |-> IF p \in Reserved(a) THEN "free" ELSE promised[p]]
      /\ stored' = stored \ Reserved(a)
      /\ call' = [at |-> "released", base |-> a] /\ reservations' = reservations
  BY IdleIs DEF Release, Promise
<1>2. /\ (call \in Calls)' /\ Claimed' = {} /\ InCall' = {} /\ call'.at = "released"
      /\ Recorded' = DOMAIN reservations \ {a}
  BY <1>1 DEF Calls, Claimed, InCall, Recorded, Trimming
<1>3. Recorded = DOMAIN reservations
  BY <1>1, RecordedBefore DEF MemoryIInv
<1>4. \A b \in Recorded' : /\ b \in Recorded /\ Reserved(b)' = Reserved(b)
                           /\ Reserved(a) \cap Reserved(b) = {}
  BY <1>1, <1>2, <1>3 DEF MemoryIInv, ReservationsHold, Reserved
<1>5. MemoryTypeOK'
  BY <1>1, <1>2 DEF MemoryIInv, MemoryTypeOK, Unmap
<1>6. ReservationsHold'
  BY <1>1, <1>4 DEF MemoryIInv, ReservationsHold, Unmap
<1>7. CallInv' /\ Apart'
  BY <1>1, <1>2 DEF MemoryIInv, CallInv, Apart, Unmap, Trimming
<1>8. ContentsInv'
  BY <1>1, <1>2, <1>3, <1>4 DEF MemoryIInv, ContentsInv, Unmap, Protections
<1>9. ContentsKept'
  BY <1>1 DEF MemoryIInv, ContentsKept, Unmap, Protections
<1>10. BelowInv'
  <2> SUFFICES ASSUME ~full PROVE (NothingLeaks /\ AccessIsGiven)'
    BY <1>2 DEF BelowInv
  <2>1. InCall = {} /\ Recorded = Recorded' \cup {a}
    BY <1>1, <1>2, <1>3 DEF InCall
  <2>2. NothingLeaks'
    BY <1>1, <1>2, <1>4, <2>1 DEF MemoryIInv, BelowInv, NothingLeaks, Unmap
  <2>3. AccessIsGiven'
    BY <1>1 DEF MemoryIInv, BelowInv, AccessIsGiven, Unmap
  <2> QED BY <2>2, <2>3
<1> QED BY <1>5, <1>6, <1>7, <1>8, <1>9, <1>10 DEF MemoryIInv

LEMMA EraseKeeps ==
    ASSUME MemoryIInv, UNCHANGED full, Erase
    PROVE  MemoryIInv'
<1>1. /\ call.at = "released" /\ call' = Idle /\ UNCHANGED <<pages, others, program>>
      /\ reservations' = [b \in DOMAIN reservations \ {call.base} |-> reservations[b]]
  BY DEF Erase
<1>2. /\ (call \in Calls)' /\ Claimed' = {} /\ InCall' = {}
      /\ Recorded' = DOMAIN reservations'
      /\ call'.at \notin Trimming /\ call'.at # "rollback"
  BY <1>1, AtIdle
<1>3. Recorded' = Recorded
  BY <1>1, <1>2 DEF Recorded
<1>4. \A b \in Recorded : Reserved(b)' = Reserved(b)
  BY <1>1 DEF Reserved, Recorded
<1>5. MemoryTypeOK'
  BY <1>1, <1>2 DEF MemoryIInv, MemoryTypeOK, pages, program
<1>6. BelowInv'
  <2>1. InCall = {}
    BY <1>1 DEF InCall
  <2> QED BY <1>1, <1>2, <1>3, <1>4, <2>1, Leaks
      DEF MemoryIInv, BelowInv, AccessIsGiven, pages, program
<1> QED BY <1>1, <1>2, <1>3, <1>4, <1>5, <1>6 DEF MemoryIInv, ReservationsHold, CallInv,
  ContentsInv, ContentsKept, Apart, pages, program

LEMMA DecommitKeeps ==
    ASSUME MemoryIInv, UNCHANGED full, NEW a \in Addresses, NEW s \in Sizes, Decommit(a, s)
    PROVE  MemoryIInv'
<1> DEFINE R == Pages(DecommitStart(a, s), DecommitEnd(a, s))
<1>1. /\ call.at = "idle" /\ UNCHANGED <<reservations, others, call>> /\ Map(R)
      /\ promised' = [p \in UserPages |-> IF p \in R THEN "reserved" ELSE promised[p]]
      /\ stored' = stored \ R
  BY IdleIs DEF Decommit, Promise
<1>2. PICK b \in Recorded : R \subseteq Reserved(b)
  <2>1. CASE s = 0
    BY <1>1, <2>1, RecordedBefore
    DEF Decommit, DecommitStart, DecommitEnd, Reserved, MemoryIInv
  <2>2. CASE s # 0
    <3>1. InReservation(RoundDown(a, PageSize), RoundUp(a + s, PageSize))
      BY <2>2 DEF Decommit, DecommitStart, DecommitEnd
    <3>2. a \in Int /\ a + s \in Int
      OBVIOUS
    <3>3. RoundDown(a, PageSize) \in Int /\ RoundUp(a + s, PageSize) \in Int
      BY <3>2, Rounding
    <3> QED BY <1>1, <2>2, <3>1, <3>3, RangeReserved DEF DecommitStart, DecommitEnd
  <2> QED BY <2>1, <2>2
<1> HIDE DEF R
<1>3. R \subseteq ours /\ ours \cup R = ours
  BY <1>2 DEF MemoryIInv, ReservationsHold
<1>4. /\ Recorded' = Recorded /\ Claimed' = Claimed /\ InCall' = InCall
      /\ \A c \in Recorded : Reserved(c)' = Reserved(c)
  BY <1>1 DEF Recorded, Claimed, InCall, Reserved
<1>5. MemoryTypeOK'
  BY <1>1, <1>3 DEF MemoryIInv, MemoryTypeOK, Map
<1>6. ReservationsHold' /\ CallInv' /\ Apart'
  BY <1>1, <1>3, <1>4 DEF MemoryIInv, ReservationsHold, CallInv, Apart, Map
<1>7. ContentsInv' /\ ContentsKept'
  BY <1>1, <1>2, <1>4 DEF MemoryIInv, MemoryTypeOK, ContentsInv, ContentsKept, Map, Protections
<1>8. BelowInv'
  BY <1>1, <1>3, <1>4 DEF MemoryIInv, MemoryTypeOK, BelowInv, NothingLeaks, AccessIsGiven, Map
<1> QED BY <1>5, <1>6, <1>7, <1>8 DEF MemoryIInv

\* What the rest of the process does.
LEMMA OthersKeep ==
    ASSUME MemoryIInv, UNCHANGED full, NEW p \in UserPages, Write(p) \/ OthersMap(p) \/ OthersUnmap(p)
    PROVE  MemoryIInv'
<1>1. /\ UNCHANGED <<reservations, ours, open, call, promised>>
  BY DEF Write, OthersMap, OthersUnmap, pages, program
<1>2. /\ Recorded' = Recorded /\ Claimed' = Claimed /\ InCall' = InCall
      /\ \A c \in Recorded : Reserved(c)' = Reserved(c)
  BY <1>1 DEF Recorded, Claimed, InCall, Reserved
<1>3. BelowInv'
  BY <1>1, <1>2 DEF MemoryIInv, BelowInv, NothingLeaks, AccessIsGiven
<1>4. CASE Write(p)
  BY <1>1, <1>2, <1>3, <1>4 DEF Write, MemoryIInv, MemoryTypeOK, ReservationsHold, CallInv,
    ContentsInv, ContentsKept, Apart, Protections
<1>5. CASE OthersMap(p) \/ OthersUnmap(p)
  <2>1. /\ UNCHANGED <<dirty, stored>> /\ others' \subseteq UserPages
        /\ ours \cap others' = {}
    BY <1>5 DEF OthersMap, OthersUnmap, pages, program, Vacant, MemoryIInv, MemoryTypeOK, Apart
  <2> QED BY <1>1, <1>2, <1>3, <2>1
      DEF MemoryIInv, MemoryTypeOK, ReservationsHold, CallInv, ContentsInv, ContentsKept, Apart
<1> QED BY <1>4, <1>5

\* With the limit reached less is promised.
LEMMA LimitKeeps ==
    ASSUME MemoryIInv, UNCHANGED <<reservations, pages, others, call, program>>, full' \in BOOLEAN,
           ~full' => ~full
    PROVE  MemoryIInv'
<1>1. UNCHANGED <<reservations, ours, open, dirty, others, call, promised, stored>>
  BY DEF pages, program
<1>2. /\ Recorded' = Recorded /\ Claimed' = Claimed /\ InCall' = InCall
      /\ \A c \in Recorded : Reserved(c)' = Reserved(c)
  BY <1>1 DEF Recorded, Claimed, InCall, Reserved
<1> QED BY <1>1, <1>2
    DEF MemoryIInv, MemoryTypeOK, ReservationsHold, CallInv, ContentsInv, ContentsKept, Apart,
        BelowInv, NothingLeaks, AccessIsGiven

LEMMA StepKeeps ==
    ASSUME MemoryIInv, [MemoryNext]_memory_vars
    PROVE  MemoryIInv'
<1>1. ASSUME VirtualAlloc, UNCHANGED full PROVE MemoryIInv'
  BY <1>1, CommitKeeps, ReserveAtKeeps, MapAnywhereKeeps, TrimPrefixKeeps, TrimSuffixKeeps,
     RollbackKeeps, RecordKeeps, DiscardKeeps DEF VirtualAlloc
<1>2. ASSUME VirtualFree, UNCHANGED full PROVE MemoryIInv'
  BY <1>2, ReleaseKeeps, DecommitKeeps, EraseKeeps DEF VirtualFree
<1>3. ASSUME Others, UNCHANGED full PROVE MemoryIInv'
  BY <1>3, OthersKeep DEF Others
<1>4. CASE FillMapCount
  BY <1>4, LimitKeeps DEF FillMapCount
<1>5. CASE UNCHANGED memory_vars
  BY <1>5, LimitKeeps DEF memory_vars, MemoryIInv, MemoryTypeOK
<1> QED BY <1>1, <1>2, <1>3, <1>4, <1>5 DEF MemoryNext

---------------------------------------------------------------------------
(* Theorems.                                                               *)

\* The inductive invariant of VirtualAlloc and VirtualFree.
THEOREM MemoryInvariance == MemorySpec => []MemoryIInv
<1>1. MemoryInit => MemoryIInv
  BY InitInv
<1>2. MemoryIInv /\ [MemoryNext]_memory_vars => MemoryIInv'
  BY StepKeeps
<1> QED BY <1>1, <1>2, PTL DEF MemorySpec

\* Every variable keeps its kind of value.
THEOREM MemoryTypeCorrect == MemorySpec => []MemoryTypeOK
<1>1. MemoryIInv => MemoryTypeOK
  BY DEF MemoryIInv
<1> QED BY <1>1, MemoryInvariance, PTL

\* Reservations are mapped and apart, whatever munmap and mprotect refused,
\* and below vm.max_map_count every mapped page is accounted for.
THEOREM Recording == MemorySpec => []MappingsAreRecorded
<1>1. MemoryIInv => MappingsAreRecorded
  BY DEF MemoryIInv, BelowInv, MappingsAreRecorded
<1> QED BY <1>1, MemoryInvariance, PTL

\* A committed page reads what was written to it since, or zero, and below
\* vm.max_map_count it can be written.
THEOREM CommittingWorks == MemorySpec => []CommittedPagesWork
<1>1. MemoryIInv => CommittedPagesWork
  BY DEF MemoryIInv, BelowInv, CommittedPagesWork
<1> QED BY <1>1, MemoryInvariance, PTL

\* A system call on pages that the calls have mapped leaves others alone.
LEMMA OursOnly ==
    ASSUME MemoryIInv, NEW R, Unmap(R), R \subseteq ours
    PROVE  others' = others
BY DEF MemoryIInv, Apart, Unmap

\* Below vm.max_map_count no call takes a page from the rest of the process.
LEMMA OthersStay ==
    ASSUME MemoryIInv, [MemoryNext]_memory_vars, ~full
    PROVE  ~(others \subseteq others') => UNCHANGED <<reservations, pages, call, program>>
<1>1. call.at # "rollback" /\ InCall \subseteq ours
  BY DEF MemoryIInv, BelowInv, CallInv
<1>2. CASE VirtualAlloc
  <2>1. CASE TrimPrefix
    <3>1. /\ call.at = "prefix" /\ call.mapping \in Int /\ call.end \in Int /\ call.base \in Int
          /\ call.base <= call.end
      BY <2>1, Fields DEF TrimPrefix, Trim, MemoryIInv, CallInv, Trimming
    <3>2. Pages(call.mapping, call.base) \subseteq InCall
      BY <3>1, PagesWithin DEF InCall
    <3> QED BY <1>1, <2>1, <3>2, OursOnly DEF TrimPrefix, Trim, MayFailToUnmap
  <2>2. CASE TrimSuffix
    <3>1. /\ call.at = "suffix" /\ call.end \in Int /\ call.base \in Int /\ call.size \in Nat
      BY <2>2, Fields DEF TrimSuffix, Trim, MemoryIInv, Trimming
    <3>2. call.base <= call.base + call.size /\ call.base + call.size \in Int
      BY <3>1
    <3>3. Pages(call.base + call.size, call.end) \subseteq InCall
      BY <3>1, <3>2, PagesWithin DEF InCall
    <3> QED BY <1>1, <2>2, <3>3, OursOnly DEF TrimSuffix, Trim, MayFailToUnmap
  <2>3. CASE Discard
    <3>1. Pages(call.base, call.base + call.size) \subseteq InCall
      BY <2>3 DEF Discard, InCall
    <3> QED BY <1>1, <2>3, <3>1, OursOnly DEF Discard, Undo, MayFailToUnmap
  <2>4. CASE Record
    BY <2>4 DEF Record
  <2>5. ASSUME NEW a \in Addresses, NEW s \in Sizes,
               NEW c \in Protections \cup {"reserved"}, ReserveAt(a, s, c)
        PROVE  others' = others
    BY <2>5 DEF ReserveAt, Reserving, Vacant
  <2>6. ASSUME NEW a \in Addresses, NEW s \in Sizes, NEW c \in Protections, Commit(a, s, c)
        PROVE  others' = others
    BY <2>6 DEF Commit, Committing
  <2>7. ASSUME NEW s \in Sizes, NEW c \in Protections \cup {"reserved"}, MapAnywhere(s, c)
        PROVE  others' = others
    BY <2>7 DEF MapAnywhere
  <2>8. ~Rollback
    BY <1>1 DEF Rollback
  <2> QED BY <1>2, <2>1, <2>2, <2>3, <2>4, <2>5, <2>6, <2>7, <2>8 DEF VirtualAlloc
<1>3. CASE VirtualFree
  <2>1. ASSUME NEW a \in Addresses, Release(a) PROVE others' = others
    <3>1. Reserved(a) \subseteq ours
      BY <2>1, IdleIs, RecordedBefore DEF Release, MemoryIInv, ReservationsHold
    <3> QED BY <2>1, <3>1, OursOnly DEF Release
  <2>2. ASSUME NEW a \in Addresses, NEW s \in Sizes, Decommit(a, s) PROVE others' = others
    BY <2>2 DEF Decommit
  <2>3. CASE Erase
    BY <2>3 DEF Erase
  <2> QED BY <1>3, <2>1, <2>2, <2>3 DEF VirtualFree
<1>4. CASE Others
  BY <1>4 DEF Others, Write, OthersMap, OthersUnmap, pages, program
<1>5. CASE FillMapCount \/ UNCHANGED memory_vars
  BY <1>5 DEF FillMapCount, memory_vars
<1> QED BY <1>2, <1>3, <1>4, <1>5 DEF MemoryNext

\* Below vm.max_map_count the rest of the process keeps what it mapped.
THEOREM OthersKept == MemorySpec => OthersKeepTheirs
<1>1. MemoryIInv /\ [MemoryNext]_memory_vars => [~full /\ ~(others \subseteq others')
        => UNCHANGED <<reservations, pages, call, program>>]_memory_vars
  BY OthersStay
<1> QED BY <1>1, MemoryInvariance, PTL DEF MemorySpec, OthersKeepTheirs
=============================================================================

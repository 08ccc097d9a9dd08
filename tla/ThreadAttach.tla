---------------------------- MODULE ThreadAttach ----------------------------
(***************************************************************************)
(* The loader lock, the list of loaded images and the attachment of        *)
(* threads to them (src/src/pe_loader.cpp, src/src/dll_loader.cpp and the  *)
(* thread start in src/src/winlibs.cpp).                                   *)
(*                                                                         *)
(* A Windows DLL mapped by the loader is told, through its DllMain and TLS *)
(* callbacks, of every thread that arrives and leaves.  The threads here   *)
(* are the host's own (they reach the DLL through an exported wrapper) and *)
(* those the DLL creates with CreateThread.  Both read the image list      *)
(* under the loader lock; the wrappers skip the lock when a thread-local   *)
(* copy of the list's generation says the thread has seen the whole list.  *)
(***************************************************************************)
EXTENDS Naturals, FiniteSets

CONSTANTS
    Threads,            \* every thread of the process
    Hosts,              \* those the host starts; the others need CreateThread
    Images,             \* the PE images that may be loaded
    TlsImages,          \* those with a TLS directory
    NoThread, NoImage,  \* null
    MaxImages,          \* MAX_LOADED_IMAGES
    TlsAllocMayFail,    \* whether calloc of a TLS block may return null
    MaxLoads,           \* bound: calls of load_dll
    MaxLateCalls        \* bound: wrapper calls by later key destructors

ASSUME ThreadsAssumption == Hosts \subseteq Threads /\ NoThread \notin Threads
ASSUME ImagesAssumption == TlsImages \subseteq Images /\ NoImage \notin Images
ASSUME SizesAssumption ==
    /\ MaxImages \in Nat \ {0}
    /\ TlsAllocMayFail \in BOOLEAN
    /\ MaxLoads \in Nat
    /\ MaxLateCalls \in Nat

VARIABLES
    loader,      \* owner of g_loader_mutex
    slot,        \* slot[i] = k iff g_loaded_images[k-1] = i; 0: not registered
    count,       \* g_loaded_image_count
    pending,     \* g_pending_image_count
    generation,  \* g_image_list_generation
    disabled,    \* images whose thread_notifications_disabled is set
    gen,         \* t_thread_attach_generation
    ctx,         \* the nt_thread_context: none, live, or cleaning_up
    attached,    \* its attached_images
    tls,         \* images with a TLS block in its local_storage
    pc,          \* where the thread is
    seen,        \* the generation read by pe_ensure_tls_for_loaded_images
    todo, off,   \* snapshot left to visit; its notifications_disabled flags
    cur,         \* the image being attached, or whose DllMain is running
    awaiting,    \* the thread whose id CreateThread is waiting for
    inside,      \* what the DllMains were told: images the thread is in
    loads, late  \* counters of the two bounds

lock    == <<loader, loads>>
list    == <<slot, count, pending, generation, disabled>>
context == <<ctx, attached, tls, inside>>
pass    == <<todo, off, cur>>
call    == <<gen, seen, awaiting, late>>
vars    == <<lock, list, context, pass, call, pc>>

DllMain == {"dllmain_process", "dllmain_undo", "dllmain_attach",
            "dllmain_detach"}

\* The places where a thread holds the loader lock.
Locked == DllMain \cup {"held", "release", "loading", "attaching", "detaching"}

Places == Locked \cup {"unborn", "starting", "idle", "ensure", "attached",
                       "incall", "exiting", "drain", "exited"}

Registered == {i \in Images : slot[i] > 0}

\* A thread inside CreateThread does nothing else until it has the id.
Runs(t) == awaiting[t] = NoThread

Init ==
    /\ loader = NoThread
    /\ slot = [i \in Images |-> 0]
    /\ count = 0
    /\ pending = 0
    /\ generation = 1
    /\ disabled = {}
    /\ loads = 0
    /\ gen = [t \in Threads |-> 0]
    /\ ctx = [t \in Threads |-> "none"]
    /\ attached = [t \in Threads |-> {}]
    /\ tls = [t \in Threads |-> {}]
    /\ pc = [t \in Threads |-> IF t \in Hosts THEN "idle" ELSE "unborn"]
    /\ seen = [t \in Threads |-> 0]
    /\ todo = [t \in Threads |-> {}]
    /\ off = [t \in Threads |-> {}]
    /\ cur = [t \in Threads |-> NoImage]
    /\ awaiting = [t \in Threads |-> NoThread]
    /\ inside = [t \in Threads |-> {}]
    /\ late = [t \in Threads |-> 0]

Goto(t, place) == pc' = [pc EXCEPT ![t] = place]

Move(t, from, to) == pc[t] = from /\ Runs(t) /\ Goto(t, to)

-----------------------------------------------------------------------------
(* load_dll: the whole load, siblings included, runs under the lock.       *)

LoadLock(t) ==
    /\ Move(t, "idle", "held")
    /\ loader = NoThread
    /\ loads < MaxLoads
    /\ loader' = t
    /\ loads' = loads + 1
    /\ UNCHANGED <<list, context, pass, call>>

\* (variant) No slot is reserved: the list's size is not looked at.
BeginProcessAttachUnreserved(t, i) ==
    /\ Move(t, "held", "loading")
    /\ i \notin Registered
    /\ ctx' = [ctx EXCEPT ![t] = "live"]
    /\ pending' = pending + 1
    /\ cur' = [cur EXCEPT ![t] = i]
    /\ UNCHANGED <<lock, slot, count, generation, disabled, attached, tls,
                   inside, todo, off, call>>

\* Reserves a slot; a full list discards the image and fails the load.
BeginProcessAttach(t, i) ==
    /\ pc[t] = "held" /\ Runs(t)
    /\ i \notin Registered
    /\ ctx' = [ctx EXCEPT ![t] = "live"]
    /\ IF count + pending = MaxImages
       THEN /\ Goto(t, "release")
            /\ UNCHANGED <<pending, cur>>
       ELSE /\ pending' = pending + 1
            /\ cur' = [cur EXCEPT ![t] = i]
            /\ Goto(t, "loading")
    /\ UNCHANGED <<lock, slot, count, generation, disabled, attached, tls,
                   inside, todo, off, call>>

\* pe_initialize_tls_for_current_thread on an image that is not attached yet.
CanInitialize(t) == Cardinality(attached[t]) < MaxImages
MayNotInitialize(t, i) ==
    ~CanInitialize(t) \/ (i \in TlsImages /\ TlsAllocMayFail)

Initialize(t, i) ==
    /\ CanInitialize(t)
    /\ attached' = [attached EXCEPT ![t] = @ \cup {i}]
    /\ tls' = [tls EXCEPT ![t] = @ \cup ({i} \cap TlsImages)]
    /\ inside' = [inside EXCEPT ![t] = @ \cup {i}]
    /\ cur' = [cur EXCEPT ![t] = i]

ProcessAttach(t) ==
    /\ pc[t] = "loading" /\ Runs(t)
    /\ \/ /\ Initialize(t, cur[t])
          /\ Goto(t, "dllmain_process")
          /\ UNCHANGED pending
       \/ /\ MayNotInitialize(t, cur[t])
          /\ pending' = pending - 1
          /\ cur' = [cur EXCEPT ![t] = NoImage]
          /\ Goto(t, "release")
          /\ UNCHANGED <<attached, tls, inside>>
    /\ UNCHANGED <<lock, slot, count, generation, disabled, ctx, todo, off,
                   call>>

\* DllMain returned TRUE: the image becomes visible to every thread.
FinishAttached(t) ==
    /\ Move(t, "dllmain_process", "held")
    /\ pending' = pending - 1
    /\ slot' = [slot EXCEPT ![cur[t]] = count + 1]
    /\ count' = count + 1
    /\ generation' = generation + 1
    /\ cur' = [cur EXCEPT ![t] = NoImage]
    /\ UNCHANGED <<lock, disabled, context, todo, off, call>>

\* DllMain returned FALSE: the slot is given back, then DllMain hears
\* DLL_PROCESS_DETACH while its TLS block is still there.
FinishRefused(t) ==
    /\ Move(t, "dllmain_process", "dllmain_undo")
    /\ pending' = pending - 1
    /\ inside' = [inside EXCEPT ![t] = @ \ {cur[t]}]
    /\ UNCHANGED <<lock, slot, count, generation, disabled, ctx, attached, tls,
                   pass, call>>

Detach(t, i) ==
    /\ attached' = [attached EXCEPT ![t] = @ \ {i}]
    /\ tls' = [tls EXCEPT ![t] = @ \ {i}]

\* (variant) The thread stays attached.
DiscardImageStaysAttached(t) ==
    /\ Move(t, "dllmain_undo", "release")
    /\ tls' = [tls EXCEPT ![t] = @ \ {cur[t]}]
    /\ disabled' = disabled \ {cur[t]}
    /\ cur' = [cur EXCEPT ![t] = NoImage]
    /\ UNCHANGED <<lock, slot, count, pending, generation, ctx, attached,
                   inside, todo, off, call>>

\* The block is freed, the thread detached and the image discarded.
DiscardImage(t) ==
    /\ Move(t, "dllmain_undo", "release")
    /\ Detach(t, cur[t])
    /\ disabled' = disabled \ {cur[t]}
    /\ cur' = [cur EXCEPT ![t] = NoImage]
    /\ UNCHANGED <<lock, slot, count, pending, generation, ctx, inside, todo,
                   off, call>>

LoadUnlock(t) ==
    /\ pc[t] \in {"held", "release"} /\ Runs(t)
    /\ loader' = NoThread
    /\ Goto(t, "idle")
    /\ UNCHANGED <<loads, list, context, pass, call>>

-----------------------------------------------------------------------------
(* pe_ensure_tls_for_loaded_images, on every exported wrapper call, and    *)
(* pe_notify_loaded_images(DLL_THREAD_ATTACH).                             *)

\* The generation is read before the list; a match skips the lock.
EnsureBegin(t) ==
    /\ pc[t] \in {"idle", "incall"} /\ Runs(t)
    /\ ctx' = [ctx EXCEPT ![t] = "live"]
    /\ IF gen[t] = generation
       THEN Goto(t, "incall") /\ UNCHANGED seen
       ELSE Goto(t, "ensure") /\ seen' = [seen EXCEPT ![t] = generation]
    /\ UNCHANGED <<lock, list, attached, tls, inside, pass, gen, awaiting,
                   late>>

\* pe_notify_loaded_images: take the lock and a snapshot of the list.
Snapshot(t, from, to) ==
    /\ Move(t, from, to)
    /\ loader = NoThread
    /\ loader' = t
    /\ todo' = [todo EXCEPT ![t] = Registered]
    /\ off' = [off EXCEPT ![t] = disabled]
    /\ UNCHANGED <<loads, list, context, cur, call>>

NotifyAttach(t) == Snapshot(t, "ensure", "attaching")

\* (variant) The list of a detach pass is not reversed.
NewestUnreversed(t) == {i \in todo[t] : \A j \in todo[t] : slot[i] <= slot[j]}

\* The next image of an attach pass is the oldest, of a detach pass the newest.
Oldest(t) == {i \in todo[t] : \A j \in todo[t] : slot[i] <= slot[j]}
Newest(t) == {i \in todo[t] : \A j \in todo[t] : slot[i] >= slot[j]}

\* (variant) The images the thread is attached to are not skipped.
AttachNextRepeats(t) ==
    /\ pc[t] = "attaching" /\ Runs(t)
    /\ \E i \in Oldest(t) :
          /\ todo' = [todo EXCEPT ![t] = @ \ {i}]
          /\ \/ /\ i \notin off[t]
                /\ Goto(t, "dllmain_attach")
                /\ \/ i \notin attached[t] /\ Initialize(t, i)
                   \/ /\ i \in attached[t]
                      /\ cur' = [cur EXCEPT ![t] = i]
                      /\ UNCHANGED <<attached, tls, inside>>
             \/ /\ i \in off[t] \/ MayNotInitialize(t, i)
                /\ UNCHANGED <<attached, tls, inside, cur, pc>>
    /\ UNCHANGED <<lock, list, ctx, off, call>>

AttachNext(t) ==
    /\ pc[t] = "attaching" /\ Runs(t)
    /\ \E i \in Oldest(t) :
          /\ todo' = [todo EXCEPT ![t] = @ \ {i}]
          /\ \/ /\ i \notin attached[t] /\ i \notin off[t]
                /\ Initialize(t, i)
                /\ Goto(t, "dllmain_attach")
             \/ /\ \/ i \in attached[t]
                   \/ i \in off[t]
                   \/ MayNotInitialize(t, i)
                /\ UNCHANGED <<attached, tls, inside, cur, pc>>
    /\ UNCHANGED <<lock, list, ctx, off, call>>

\* DllMain returned from DLL_THREAD_ATTACH.
AttachReturns(t) ==
    /\ Move(t, "dllmain_attach", "attaching")
    /\ cur' = [cur EXCEPT ![t] = NoImage]
    /\ UNCHANGED <<lock, list, context, todo, off, call>>

AttachUnlock(t) ==
    /\ Move(t, "attaching", "attached")
    /\ todo[t] = {}
    /\ loader' = NoThread
    /\ off' = [off EXCEPT ![t] = {}]
    /\ UNCHANGED <<loads, list, context, todo, cur, call>>

\* (variant) The generation is read again when it is stored.
StoreGenerationRereads(t) ==
    /\ Move(t, "attached", "incall")
    /\ gen' = [gen EXCEPT ![t] = IF seen[t] = 0 THEN 0 ELSE generation]
    /\ seen' = [seen EXCEPT ![t] = 0]
    /\ UNCHANGED <<lock, list, context, pass, awaiting, late>>

\* After the lock is gone, the generation read before it is stored.
StoreGeneration(t) ==
    /\ Move(t, "attached", "incall")
    /\ gen' = [gen EXCEPT ![t] = seen[t]]
    /\ seen' = [seen EXCEPT ![t] = 0]
    /\ UNCHANGED <<lock, list, context, pass, awaiting, late>>

CallReturns(t) ==
    /\ Move(t, "incall", "idle")
    /\ UNCHANGED <<lock, list, context, pass, call>>

-----------------------------------------------------------------------------
(* CreateThread and DisableThreadLibraryCalls, called by DLL code, from    *)
(* within its DllMain too.                                                 *)

CreateThread(t, u, wantsId) ==
    /\ pc[t] \in DllMain \cup {"incall"} /\ Runs(t)
    /\ pc[u] = "unborn"
    /\ Goto(u, "starting")
    /\ awaiting' = [awaiting EXCEPT ![t] = IF wantsId THEN u ELSE NoThread]
    /\ UNCHANGED <<lock, list, context, pass, gen, seen, late>>

\* thread_entry publishes the id before it asks for the loader lock; its
\* attach is not an ensure: it leaves the thread's generation at zero.
PublishThreadId(u) ==
    /\ pc[u] = "starting"
    /\ ctx' = [ctx EXCEPT ![u] = "live"]
    /\ seen' = [seen EXCEPT ![u] = gen[u]]
    /\ Goto(u, "ensure")
    /\ UNCHANGED <<lock, list, attached, tls, inside, pass, gen, awaiting,
                   late>>

\* (variant) The id is published after the attach notifications.
CreateThreadReturnsLate(t) ==
    /\ awaiting[t] # NoThread
    /\ pc[awaiting[t]] \notin {"starting", "ensure", "attaching",
                               "dllmain_attach"}
    /\ awaiting' = [awaiting EXCEPT ![t] = NoThread]
    /\ UNCHANGED <<lock, list, context, pass, gen, seen, late, pc>>

CreateThreadReturns(t) ==
    /\ awaiting[t] # NoThread
    /\ pc[awaiting[t]] # "starting"
    /\ awaiting' = [awaiting EXCEPT ![t] = NoThread]
    /\ UNCHANGED <<lock, list, context, pass, gen, seen, late, pc>>

\* The thread-local attaching image is looked at first, then the list.
Attaching(t) == IF pc[t] \in {"dllmain_process", "dllmain_undo"}
                THEN {cur[t]} ELSE {}

DisableThreadLibraryCalls(t, i) ==
    /\ pc[t] \in DllMain \cup {"incall"} /\ Runs(t)
    /\ i \in Attaching(t) \cup Registered
    /\ i \notin TlsImages
    /\ disabled' = disabled \cup {i}
    /\ UNCHANGED <<lock, slot, count, pending, generation, context, pass, call,
                   pc>>

-----------------------------------------------------------------------------
(* pe_cleanup_current_thread: from finish_thread, from _endthreadex or     *)
(* from the destructor of the context's key.                               *)

\* (variant) A thread without a generation is taken for one never attached.
CleanupBeginByGeneration(t) ==
    /\ pc[t] = "idle" \/ (pc[t] = "incall" /\ t \notin Hosts)
    /\ Runs(t)
    /\ IF gen[t] = 0
       THEN Goto(t, "exited") /\ UNCHANGED ctx
       ELSE Goto(t, "exiting") /\ ctx' = [ctx EXCEPT ![t] = "cleaning"]
    /\ UNCHANGED <<lock, list, attached, tls, inside, pass, call>>

CleanupBegin(t) ==
    /\ pc[t] = "idle" \/ (pc[t] = "incall" /\ t \notin Hosts)
    /\ Runs(t)
    /\ IF ctx[t] = "none"
       THEN Goto(t, "exited") /\ UNCHANGED ctx
       ELSE Goto(t, "exiting") /\ ctx' = [ctx EXCEPT ![t] = "cleaning"]
    /\ UNCHANGED <<lock, list, attached, tls, inside, pass, call>>

NotifyDetach(t) == Snapshot(t, "exiting", "detaching")

\* (variant) An image that disabled the calls is passed over altogether.
DetachNextPassesOver(t) ==
    /\ pc[t] = "detaching" /\ Runs(t)
    /\ \E i \in Newest(t) :
          /\ todo' = [todo EXCEPT ![t] = @ \ {i}]
          /\ \/ /\ i \notin attached[t] \/ i \in off[t]
                /\ UNCHANGED <<attached, tls, inside, cur, pc>>
             \/ /\ i \in attached[t] /\ i \notin off[t]
                /\ inside' = [inside EXCEPT ![t] = @ \ {i}]
                /\ cur' = [cur EXCEPT ![t] = i]
                /\ Goto(t, "dllmain_detach")
                /\ UNCHANGED <<attached, tls>>
    /\ UNCHANGED <<lock, list, ctx, off, call>>

\* The DllMain of an attached image is called unless it disabled the calls.
DetachNext(t) ==
    /\ pc[t] = "detaching" /\ Runs(t)
    /\ \E i \in Newest(t) :
          /\ todo' = [todo EXCEPT ![t] = @ \ {i}]
          /\ \/ /\ i \notin attached[t]
                /\ UNCHANGED <<attached, tls, inside, cur, pc>>
             \/ /\ i \in attached[t] /\ i \in off[t]
                /\ Detach(t, i)
                /\ UNCHANGED <<inside, cur, pc>>
             \/ /\ i \in attached[t] /\ i \notin off[t]
                /\ inside' = [inside EXCEPT ![t] = @ \ {i}]
                /\ cur' = [cur EXCEPT ![t] = i]
                /\ Goto(t, "dllmain_detach")
                /\ UNCHANGED <<attached, tls>>
    /\ UNCHANGED <<lock, list, ctx, off, call>>

\* DllMain returned from DLL_THREAD_DETACH: only now is its block freed.
DetachReturns(t) ==
    /\ Move(t, "dllmain_detach", "detaching")
    /\ Detach(t, cur[t])
    /\ cur' = [cur EXCEPT ![t] = NoImage]
    /\ UNCHANGED <<lock, list, ctx, inside, todo, off, call>>

DetachUnlock(t) ==
    /\ Move(t, "detaching", "drain")
    /\ todo[t] = {}
    /\ loader' = NoThread
    /\ off' = [off EXCEPT ![t] = {}]
    /\ UNCHANGED <<loads, list, context, todo, cur, call>>

\* After the FLS callbacks the generation is reset and the context freed;
\* a TLS block still in it would be lost with it.
CleanupEnd(t) ==
    /\ Move(t, "drain", "exited")
    /\ gen' = [gen EXCEPT ![t] = 0]
    /\ ctx' = [ctx EXCEPT ![t] = "none"]
    /\ attached' = [attached EXCEPT ![t] = {}]
    /\ UNCHANGED <<lock, list, tls, inside, pass, seen, awaiting, late>>

\* The destructor of another library's key, run later on the same thread,
\* calls a wrapper again: a new context is made and destroyed in its turn.
LateCall(t) ==
    /\ pc[t] = "exited"
    /\ late[t] < MaxLateCalls
    /\ late' = [late EXCEPT ![t] = @ + 1]
    /\ Goto(t, "idle")
    /\ UNCHANGED <<lock, list, context, pass, gen, seen, awaiting>>

-----------------------------------------------------------------------------

\* Steps the thread takes by itself once it is inside the loader, DllMain's
\* return among them.
Progress(t) ==
    \/ ProcessAttach(t) \/ FinishAttached(t) \/ FinishRefused(t)
    \/ DiscardImage(t) \/ LoadUnlock(t)
    \/ NotifyAttach(t) \/ AttachNext(t) \/ AttachReturns(t)
    \/ AttachUnlock(t) \/ StoreGeneration(t)
    \/ PublishThreadId(t) \/ CreateThreadReturns(t)
    \/ NotifyDetach(t) \/ DetachNext(t) \/ DetachReturns(t)
    \/ DetachUnlock(t) \/ CleanupEnd(t)

\* Steps the host or the DLL chooses to take.
Choice(t) ==
    \/ LoadLock(t) \/ EnsureBegin(t) \/ CallReturns(t)
    \/ CleanupBegin(t) \/ LateCall(t)
    \/ \E i \in Images : BeginProcessAttach(t, i)
                         \/ DisableThreadLibraryCalls(t, i)
    \/ \E u \in Threads, wantsId \in BOOLEAN : CreateThread(t, u, wantsId)

Next == \E t \in Threads : Progress(t) \/ Choice(t)

Spec == Init /\ [][Next]_vars

\* Every runnable thread is scheduled, and a DllMain returns.
FairSpec == Spec /\ \A t \in Threads : WF_vars(Progress(t))

-----------------------------------------------------------------------------

TypeOK ==
    /\ loader \in Threads \cup {NoThread}
    /\ slot \in [Images -> Nat]
    /\ count \in Nat
    /\ pending \in Nat
    /\ generation \in Nat
    /\ disabled \in SUBSET Images
    /\ loads \in Nat
    /\ gen \in [Threads -> Nat]
    /\ ctx \in [Threads -> {"none", "live", "cleaning"}]
    /\ attached \in [Threads -> SUBSET Images]
    /\ tls \in [Threads -> SUBSET Images]
    /\ pc \in [Threads -> Places]
    /\ seen \in [Threads -> Nat]
    /\ todo \in [Threads -> SUBSET Images]
    /\ off \in [Threads -> SUBSET Images]
    /\ cur \in [Threads -> Images \cup {NoImage}]
    /\ awaiting \in [Threads -> Threads \cup {NoThread}]
    /\ inside \in [Threads -> SUBSET Images]
    /\ late \in [Threads -> Nat]

\* The images a thread may miss because a TLS block could not be allocated.
MayMiss(i) == TlsAllocMayFail /\ i \in TlsImages

\* A thread inside wrapper or DLL code holds the generation of a list it is
\* attached to: no call reaches an image that has no TLS block and no
\* DLL_THREAD_ATTACH for the thread, however the load of that image and the
\* thread's unlocked read of g_image_list_generation interleaved.
GenerationMeansAttached ==
    \A t \in Threads : ctx[t] # "cleaning" =>
        \A i \in Registered : slot[i] < gen[t] =>
            i \in attached[t] \/ i \in disabled \/ MayMiss(i)

\* The same, where a TLS block may fail to be allocated: what the comment of
\* pe_ensure_tls_for_loaded_images says of the skipped locks.
SkipsOnlyOnceAttached ==
    \A t \in Threads : pc[t] = "incall" /\ gen[t] = generation =>
        \A i \in Registered : i \in attached[t] \/ i \in disabled

\* No thread is attached to an image, or is about to notify one, that the
\* loader did not keep: a refused image is unmapped with no user left.
NoDanglingImage ==
    \A t \in Threads :
        /\ attached[t] \subseteq Registered \cup Attaching(t)
        /\ todo[t] \subseteq Registered

\* When the context of a leaving thread is freed it is attached to no image
\* and owns no TLS block, whatever was loaded while the thread lived.
LeavesNothingBehind ==
    \A t \in Threads : pc[t] \in {"drain", "exited"} =>
        attached[t] = {} /\ tls[t] = {}

\* A DllMain that was told of a thread is told that it left, unless it asked
\* not to be.
ArrivalsAreMatched ==
    \A t \in Threads :
        pc[t] \in {"drain", "exited"} => inside[t] \subseteq disabled

\* A DllMain runs with its thread's TLS block in place, for all four reasons.
DllMainHasItsTls ==
    \A t \in Threads : pc[t] \in DllMain /\ cur[t] \in TlsImages =>
        cur[t] \in tls[t]

\* Threads arrive at images in load order and leave in the reverse order: a
\* dependency, loaded before its importer, is there whenever the importer is
\* notified.
DependenciesFirst ==
    \A t \in Threads : \A i \in Registered :
        /\ pc[t] = "dllmain_attach" /\ slot[i] < slot[cur[t]] =>
               i \in attached[t] \/ i \in disabled \/ MayMiss(i)
        /\ pc[t] = "dllmain_detach" /\ slot[i] > slot[cur[t]] =>
               i \notin attached[t]

\* The slot reserved before DllMain runs is enough: the per-thread table,
\* of the same size as the list, has room for whatever must be attached.
RoomToAttach ==
    \A t \in Threads :
        \/ pc[t] = "loading"
        \/ pc[t] = "attaching" /\ ~(todo[t] \subseteq attached[t])
        => CanInitialize(t)

\* A DllMain is never told twice of a thread it was not told had left.
NoRepeatedArrival ==
    [][\A t \in Threads :
          pc[t] # pc'[t] /\ pc'[t] \in {"dllmain_attach", "dllmain_process"}
              /\ pc[t] \in {"attaching", "loading"}
          => cur'[t] \notin inside[t]]_vars

\* CreateThread gets its id, a call gets in and a thread gets out, although
\* DllMain may create threads and wait for their ids under the loader lock.
NobodyIsStuck ==
    \A t \in Threads :
        /\ awaiting[t] # NoThread ~> awaiting[t] = NoThread
        /\ pc[t] \in {"starting", "ensure"} ~> pc[t] = "incall"
        /\ pc[t] = "exiting" ~> pc[t] = "exited"

=============================================================================

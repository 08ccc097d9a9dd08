------------------------------ MODULE ThreadEnd -----------------------------
(***************************************************************************)
(* The end of a thread: the drain of its fiber-local storage, the signal   *)
(* to those who join it, and the release of the object behind its handle   *)
(* (src/src/winlibs.cpp, pe_cleanup_current_thread in                      *)
(* src/src/pe_loader.cpp).                                                 *)
(*                                                                         *)
(* A section under g_fls_mutex or under the thread object's mutex is one   *)
(* action; the FLS callbacks run outside of both.                          *)
(***************************************************************************)
EXTENDS Naturals, FiniteSets

CONSTANTS
    Threads,
    Hosts,      \* threads CreateThread did not make: no handle, no object
    NoThread,
    SlotCount,  \* MAX_FLS_SLOTS
    MaxPasses,  \* PTHREAD_DESTRUCTOR_ITERATIONS
    MaxAllocs   \* bound: how often one slot is allocated

ASSUME ThreadEndAssumption ==
    /\ Hosts \subseteq Threads /\ NoThread \notin Threads
    /\ SlotCount \in Nat \ {0}
    /\ MaxPasses \in Nat \ {0}
    /\ MaxAllocs \in Nat

Slots == 1..SlotCount

VARIABLES
    alloc,      \* the allocation a slot is in, counted from 1; 0: it is free
    callback,   \* whether the slot has a callback
    allocs,     \* how often the slot was allocated
    states,     \* g_fls_threads: the threads with an fls_thread_state
    values,     \* its values, each named by the allocation it was stored in
    pc,         \* where the thread is
    pass,       \* passes its drain has made
    batch,      \* callbacks taken out of the slots and not yet run
    owed,       \* how many callbacks are still due for a thread's slot
    lost,       \* threads whose drain dropped a value
    finished, closed,  \* of the thread object
    freed,      \* how often it was deleted
    on          \* the thread whose handle a call is using

slots  == <<alloc, callback, allocs>>
fls    == <<states, values, batch, owed, lost>>
object == <<finished, closed, freed, on>>
vars   == <<slots, fls, object, pc, pass>>

Init ==
    /\ alloc = [s \in Slots |-> 0]
    /\ callback = [s \in Slots |-> FALSE]
    /\ allocs = [s \in Slots |-> 0]
    /\ states = {}
    /\ values = [t \in Threads |-> [s \in Slots |-> 0]]
    /\ pc = [t \in Threads |-> IF t \in Hosts THEN "running" ELSE "none"]
    /\ pass = [t \in Threads |-> 0]
    /\ batch = [t \in Threads |-> {}]
    /\ owed = [t \in Threads |-> [s \in Slots |-> 0]]
    /\ lost = {}
    /\ finished = [t \in Threads |-> FALSE]
    /\ closed = [t \in Threads |-> FALSE]
    /\ freed = [t \in Threads |-> 0]
    /\ on = [t \in Threads |-> NoThread]

GoTo(t, l) == pc' = [pc EXCEPT ![t] = l]

---------------------------------------------------------------------------
(* Fiber-local storage.                                                    *)

\* The first free slot.
FlsAlloc(t, s, cb) ==
    /\ pc[t] = "running"
    /\ alloc[s] = 0 /\ \A r \in 1..(s - 1) : alloc[r] # 0
    /\ allocs[s] < MaxAllocs
    /\ allocs' = [allocs EXCEPT ![s] = @ + 1]
    /\ alloc' = [alloc EXCEPT ![s] = allocs[s] + 1]
    /\ callback' = [callback EXCEPT ![s] = cb]
    /\ UNCHANGED <<fls, object, pc, pass>>

\* What is due for the slot s of thread t beside what batches hold.
Due(t, s) == IF values[t][s] # 0 /\ callback[s] THEN 1 ELSE 0

\* FlsSetValue, from the thread's own code, from a DLL_THREAD_DETACH handler
\* or from an FLS callback: v = 0 stores null.  get_fls_state gives the thread
\* its state.  Storing into a slot while it is freed is the caller's bug.
FlsSetValue(t, s, null) ==
    /\ pc[t] \in {"running", "detaching", "calling", "freeing slot"}
    /\ alloc[s] # 0
    /\ states' = states \cup {t}
    /\ values' = [values EXCEPT ![t][s] = IF null THEN 0 ELSE alloc[s]]
    /\ owed' = [owed EXCEPT ![t][s] = @ - Due(t, s) + (IF callback[s] /\ ~null THEN 1 ELSE 0)]
    /\ UNCHANGED <<slots, object, pc, pass, batch, lost>>

\* Values leave their slots together with the callback of the moment.
Entries(T, S) ==
    {[of |-> t, slot |-> s, value |-> values[t][s], callback |-> alloc[s]] :
        t \in T, s \in {r \in S : callback[r]}}

Taken(T, S) == {e \in Entries(T, S) : e.value # 0}

Cleared(T, S) ==
    [t \in Threads |-> [s \in Slots |-> IF t \in T /\ s \in S THEN 0 ELSE values[t][s]]]

\* (variant) Only the caller's own value is taken.
FlsFreeOwn(t, s) ==
    /\ pc[t] = "running"
    /\ alloc[s] # 0
    /\ alloc' = [alloc EXCEPT ![s] = 0]
    /\ callback' = [callback EXCEPT ![s] = FALSE]
    /\ batch' = [batch EXCEPT ![t] = Taken({t}, {s})]
    /\ values' = Cleared({t}, {s})
    /\ GoTo(t, IF Taken({t}, {s}) = {} THEN "running" ELSE "freeing slot")
    /\ UNCHANGED <<allocs, states, owed, lost, object, pass>>

\* FlsFree takes the values of all threads and runs their callbacks itself.
FlsFree(t, s) ==
    /\ pc[t] = "running"
    /\ alloc[s] # 0
    /\ alloc' = [alloc EXCEPT ![s] = 0]
    /\ callback' = [callback EXCEPT ![s] = FALSE]
    /\ batch' = [batch EXCEPT ![t] = Taken(states, {s})]
    /\ values' = Cleared(states, {s})
    /\ GoTo(t, IF Taken(states, {s}) = {} THEN "running" ELSE "freeing slot")
    /\ UNCHANGED <<allocs, states, owed, lost, object, pass>>

RunCallback(t) ==
    /\ pc[t] \in {"calling", "freeing slot"}
    /\ \E e \in batch[t] :
        /\ batch' = [batch EXCEPT ![t] = @ \ {e}]
        /\ owed' = [owed EXCEPT ![e.of][e.slot] = @ - 1]
        /\ GoTo(t, IF batch[t] # {e} THEN pc[t]
                   ELSE IF pc[t] = "calling" THEN "draining" ELSE "running")
    /\ UNCHANGED <<slots, states, values, lost, object, pass>>

---------------------------------------------------------------------------
(* The end of the thread.                                                  *)

CreateThread(t, c) ==
    /\ pc[t] = "running"
    /\ c \notin Hosts /\ pc[c] = "none"
    /\ GoTo(c, "running")
    /\ UNCHANGED <<slots, fls, object, pass>>

\* The start routine returns or calls _endthreadex; a host thread reaches the
\* destructor of its context key.  DLL_THREAD_DETACH comes first.
Leave(t) ==
    /\ pc[t] = "running"
    /\ GoTo(t, "detaching")
    /\ UNCHANGED <<slots, fls, object, pass>>

DetachReturns(t) ==
    /\ pc[t] = "detaching"
    /\ GoTo(t, IF t \in states THEN "draining" ELSE "drained")
    /\ UNCHANGED <<slots, fls, object, pass>>

\* (variant) Values that callbacks install are left to nobody.
DrainOnce(t) ==
    LET taken == Taken({t}, {s \in Slots : alloc[s] # 0}) IN
    /\ pc[t] = "draining"
    /\ pass' = [pass EXCEPT ![t] = 1]
    /\ IF pass[t] = 1
       THEN UNCHANGED <<values, batch>> /\ GoTo(t, "erasing")
       ELSE /\ values' = Cleared({t}, {s \in Slots : alloc[s] # 0})
            /\ batch' = [batch EXCEPT ![t] = taken]
            /\ GoTo(t, IF taken = {} THEN "erasing" ELSE "calling")
    /\ UNCHANGED <<slots, states, owed, lost, object>>

\* (variant) Passes are made until no callback is left.
DrainForever(t) ==
    LET taken == Taken({t}, {s \in Slots : alloc[s] # 0}) IN
    /\ pc[t] = "draining"
    /\ values' = Cleared({t}, {s \in Slots : alloc[s] # 0})
    /\ batch' = [batch EXCEPT ![t] = taken]
    /\ GoTo(t, IF taken = {} THEN "erasing" ELSE "calling")
    /\ UNCHANGED <<slots, states, owed, lost, object, pass>>

\* One pass of winlibs_cleanup_fls_for_current_thread.
Drain(t) ==
    LET taken == Taken({t}, {s \in Slots : alloc[s] # 0}) IN
    /\ pc[t] = "draining" /\ pass[t] < MaxPasses
    /\ pass' = [pass EXCEPT ![t] = @ + 1]
    /\ values' = Cleared({t}, {s \in Slots : alloc[s] # 0})
    /\ batch' = [batch EXCEPT ![t] = taken]
    /\ GoTo(t, IF taken = {} THEN "erasing" ELSE "calling")
    /\ UNCHANGED <<slots, states, owed, lost, object>>

DrainGivesUp(t) ==
    /\ pc[t] = "draining" /\ pass[t] = MaxPasses
    /\ GoTo(t, "erasing")
    /\ UNCHANGED <<slots, fls, object, pass>>

\* The state is unregistered and deleted with the values it still has.
EraseState(t) ==
    /\ pc[t] = "erasing"
    /\ states' = states \ {t}
    /\ values' = Cleared({t}, Slots)
    /\ owed' = [owed EXCEPT ![t] = [s \in Slots |-> owed[t][s] - Due(t, s)]]
    /\ lost' = IF \E s \in Slots : Due(t, s) = 1 THEN lost \cup {t} ELSE lost
    /\ GoTo(t, "drained")
    /\ UNCHANGED <<slots, batch, object, pass>>

\* finish_thread under the object's mutex: whether it is its turn to delete
\* the object is decided here.
FinishThread(t) ==
    /\ pc[t] = "drained"
    /\ IF t \in Hosts
       THEN UNCHANGED finished /\ GoTo(t, "gone")
       ELSE /\ finished' = [finished EXCEPT ![t] = TRUE]
            /\ GoTo(t, IF closed[t] THEN "deleting" ELSE "gone")
    /\ UNCHANGED <<slots, fls, closed, freed, on, pass>>

DeleteOwn(t) ==
    /\ pc[t] = "deleting"
    /\ freed' = [freed EXCEPT ![t] = @ + 1]
    /\ GoTo(t, "gone")
    /\ UNCHANGED <<slots, fls, finished, closed, on, pass>>

---------------------------------------------------------------------------
(* The handle.                                                             *)

\* WaitForSingleObjectEx without a time-out.
Join(t, c) ==
    /\ pc[t] = "running"
    /\ c \notin Hosts \cup {t} /\ pc[c] # "none" /\ ~closed[c]
    /\ on' = [on EXCEPT ![t] = c]
    /\ GoTo(t, "joining")
    /\ UNCHANGED <<slots, fls, finished, closed, freed, pass>>

JoinReturns(t) ==
    /\ pc[t] = "joining" /\ finished[on[t]]
    /\ on' = [on EXCEPT ![t] = NoThread]
    /\ GoTo(t, "running")
    /\ UNCHANGED <<slots, fls, finished, closed, freed, pass>>

\* (variant) The object goes with the handle.
CloseHandleDeletes(t, c) ==
    /\ pc[t] = "running"
    /\ c \notin Hosts /\ pc[c] # "none" /\ ~closed[c]
    /\ \A u \in Threads : on[u] # c
    /\ closed' = [closed EXCEPT ![c] = TRUE]
    /\ on' = [on EXCEPT ![t] = c]
    /\ GoTo(t, "closing")
    /\ UNCHANGED <<slots, fls, finished, freed, pass>>

\* A handle is closed once, and while no call uses it, as Windows asks.
CloseHandle(t, c) ==
    /\ pc[t] = "running"
    /\ c \notin Hosts /\ pc[c] # "none" /\ ~closed[c]
    /\ \A u \in Threads : on[u] # c
    /\ closed' = [closed EXCEPT ![c] = TRUE]
    /\ IF finished[c]
       THEN on' = [on EXCEPT ![t] = c] /\ GoTo(t, "closing")
       ELSE UNCHANGED <<on, pc>>
    /\ UNCHANGED <<slots, fls, finished, freed, pass>>

DeleteClosed(t) ==
    /\ pc[t] = "closing"
    /\ freed' = [freed EXCEPT ![on[t]] = @ + 1]
    /\ on' = [on EXCEPT ![t] = NoThread]
    /\ GoTo(t, "running")
    /\ UNCHANGED <<slots, fls, finished, closed, pass>>

---------------------------------------------------------------------------

Storage(t) ==
    \/ \E s \in Slots, cb \in BOOLEAN : FlsAlloc(t, s, cb)
    \/ \E s \in Slots, null \in BOOLEAN : FlsSetValue(t, s, null)
    \/ \E s \in Slots : FlsFree(t, s)

Ends(t) ==
    \/ RunCallback(t)
    \/ DetachReturns(t)
    \/ Drain(t)
    \/ DrainGivesUp(t)
    \/ EraseState(t)
    \/ FinishThread(t)
    \/ DeleteOwn(t)

Next == \E t \in Threads :
    \/ Storage(t)
    \/ Ends(t)
    \/ Leave(t)
    \/ \E c \in Threads : CreateThread(t, c) \/ Join(t, c) \/ CloseHandle(t, c)
    \/ JoinReturns(t)
    \/ DeleteClosed(t)

Spec == Init /\ [][Next]_vars

\* A thread that is leaving goes on leaving, and a join that may return does.
FairSpec == Spec /\ \A t \in Threads : WF_vars(Ends(t)) /\ WF_vars(JoinReturns(t))

---------------------------------------------------------------------------
(* Correctness.                                                            *)

\* Type invariant: a slot is in its last allocation or in none, only a thread
\* with a state has values, and only who runs callbacks has some to run.
TypeOK ==
    /\ alloc \in [Slots -> 0..MaxAllocs] /\ allocs \in [Slots -> 0..MaxAllocs]
    /\ callback \in [Slots -> BOOLEAN]
    /\ \A s \in Slots : alloc[s] \in {0, allocs[s]} /\ (callback[s] => alloc[s] # 0)
    /\ states \subseteq Threads /\ lost \subseteq Threads
    /\ values \in [Threads -> [Slots -> Nat]]
    /\ \A t \in Threads \ states : \A s \in Slots : values[t][s] = 0
    /\ batch \in [Threads -> SUBSET [of : Threads, slot : Slots, value : Nat, callback : Nat]]
    /\ \A t \in Threads : batch[t] # {} => pc[t] \in {"calling", "freeing slot"}
    /\ owed \in [Threads -> [Slots -> Nat]]
    /\ pc \in [Threads -> {"none", "running", "joining", "closing", "freeing slot", "detaching",
                           "draining", "calling", "erasing", "drained", "deleting", "gone"}]
    /\ pass \in [Threads -> 0..MaxPasses]
    /\ finished \in [Threads -> BOOLEAN] /\ closed \in [Threads -> BOOLEAN]
    /\ freed \in [Threads -> Nat]
    /\ on \in [Threads -> Threads \cup {NoThread}]

\* The values of a slot belong to its present allocation, those on their way
\* to a callback go to the callback of theirs, and each is in one place: what
\* is due for a slot is its value and what the drain and FlsFree hold of it.
EachValueOnce ==
    \A t \in Threads, s \in Slots :
        LET held == UNION {{<<u, e>> : e \in {b \in batch[u] : b.of = t /\ b.slot = s}} :
                             u \in Threads} IN
        /\ values[t][s] \in {0, alloc[s]}
        /\ \A h \in held : h[2].value = h[2].callback
        /\ owed[t][s] = Due(t, s) + Cardinality(held)

\* Whoever has joined a thread finds its storage gone: its state is off the
\* list, its own drain has run every callback, and it left a value without
\* one only after all the passes a drain has.  What an FlsFree of another
\* thread took is that thread's to run.
DrainedBeforeFinished ==
    \A t \in Threads : finished[t] =>
        /\ t \notin states /\ batch[t] = {}
        /\ t \in lost => pass[t] = MaxPasses
        /\ \A s \in Slots : owed[t][s] > 0 =>
            \E u \in Threads \ {t} : \E e \in batch[u] : e.of = t /\ e.slot = s

\* The thread object is deleted once, by the later of its thread's end and
\* the closing of its handle, and nobody is to touch it any more.
FreedByTheLast ==
    \A t \in Threads :
        /\ freed[t] <= 1
        /\ freed[t] = 1 =>
            /\ finished[t] /\ closed[t]
            /\ pc[t] = "gone" /\ \A u \in Threads : on[u] # t
        /\ closed[t] /\ pc[t] = "gone" /\ (\A u \in Threads : on[u] # t) => freed[t] = 1

\* A join of a thread that leaves returns, although callbacks may install
\* new values for ever.
JoinsReturn ==
    \A t \in Threads :
        (pc[t] = "joining" /\ pc[on[t]] \in {"detaching", "draining", "calling"})
            ~> pc[t] # "joining"
=============================================================================

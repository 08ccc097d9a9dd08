----------------------------- MODULE WaitObjects ----------------------------
(***************************************************************************)
(* Events, semaphores and thread handles, and the calls that wait for them *)
(* (src/src/winlibs.cpp).  An object lives in one of two back ends: the    *)
(* kernel's ntsync device, or a flag under a pthread mutex with its        *)
(* condition (a sem_t for semaphores).                                     *)
(*                                                                         *)
(* A section under the mutex is one action: nothing else reads or writes   *)
(* the flag, and pthread_cond_wait gives the mutex up as it parks.         *)
(***************************************************************************)
EXTENDS Naturals, Sequences, FiniteSets

CONSTANTS
    Waiters, Signallers,  \* bound: the threads that wait, that signal
    AutoEvents,    \* CreateEventW(.., bManualReset = FALSE, ..)
    ManualEvents,
    Semaphores,
    Jobs,          \* handles of CreateThread
    Ntsync,        \* the objects the ntsync device took
    NoObject,      \* null
    Menus,         \* bound: sets of handle arrays used together in a behaviour
    MaximumCount,  \* lMaximumCount of the semaphores
    MaxPosted,     \* bound: how far a sem_t, which has no maximum, is posted
    MaxRelease     \* bound: lReleaseCount

Threads == Waiters \cup Signallers
Events  == AutoEvents \cup ManualEvents
Objects == Events \cup Semaphores \cup Jobs
Lasting == ManualEvents \cup Jobs   \* a wait leaves them signaled
Flags   == (Events \cup Jobs) \ Ntsync
Timeouts == {"zero", "some", "infinite"}

ASSUME ObjectsAssumption ==
    /\ Ntsync \subseteq Events \cup Semaphores
    /\ NoObject \notin Objects
    /\ \A m \in Menus : m # {} /\ m \subseteq Seq(Objects) \ {<<>>}
ASSUME BoundsAssumption ==
    /\ MaximumCount \in Nat \ {0}
    /\ MaxPosted \in Nat \ {0} /\ MaxRelease \in 1..MaxPosted
    /\ IsFiniteSet(Threads)

\* A handle is of one kind, as its tag says.
ASSUME KindsAssumption ==
    /\ AutoEvents \cap ManualEvents = {}
    /\ Events \cap Semaphores = {} /\ Events \cap Jobs = {} /\ Semaphores \cap Jobs = {}

VARIABLES
    signaled,  \* event->signaled, thread->finished
    posted,    \* the value of the sem_t
    kernel,    \* the level of the ntsync objects
    pc,        \* where a thread is
    call,      \* the call it is in: which wait, the array, the index, the time-out
    told,      \* threads the condition, or the kernel, has picked to wake
    left,      \* posts ReleaseSemaphore still makes
    got,       \* what WaitForSingleObjectEx just returned
    menu       \* the handle arrays of this behaviour

state == <<signaled, posted, kernel>>
vars  == <<state, pc, call, told, left, got, menu>>

NoCall == [wait |-> "none", on |-> <<>>, at |-> 0, for |-> "zero"]
Idle(t) == pc[t] = "idle"
Obj(t)  == call[t].on[call[t].at]
For(t)  == IF call[t].wait = "any" THEN "zero" ELSE call[t].for
InPlay  == UNION {{s[i] : i \in DOMAIN s} : s \in menu}

Level(o) ==
    IF o \in Ntsync THEN kernel[o]
    ELSE IF o \in Semaphores THEN posted[o]
    ELSE IF signaled[o] THEN 1 ELSE 0

\* The threads asleep in a wait for o that nothing has picked to wake.
Sleepers(o) == {t \in Threads : pc[t] = "asleep" /\ Obj(t) = o /\ t \notin told}

\* CreateEventW, CreateSemaphoreW and CreateThread happened before.
Init ==
    /\ menu \in Menus
    /\ signaled \in [Events \cup Jobs -> BOOLEAN]
    /\ posted \in [Semaphores -> 0..MaximumCount]
    /\ kernel \in [Ntsync -> 0..1]
    /\ \A o \in Objects \ InPlay :
        /\ o \in Events \cup Jobs => ~signaled[o]
        /\ o \in Semaphores => posted[o] = 0
        /\ o \in Ntsync => kernel[o] = 0
    /\ \A j \in Jobs : ~signaled[j]
    /\ \A o \in Ntsync \cap InPlay :
        IF o \in Events THEN signaled[o] = (kernel[o] = 1) ELSE posted[o] = kernel[o]
    /\ pc = [t \in Threads |-> "idle"]
    /\ call = [t \in Threads |-> NoCall]
    /\ told = {}
    /\ left = [t \in Threads |-> 0]
    /\ got = [t \in Threads |-> "none"]

---------------------------------------------------------------------------
(* Waiting.                                                                *)

\* WaitForSingleObjectEx is the wait for all of an array of one.
BeginWait(t, on, wait, for) ==
    /\ Idle(t)
    /\ call' = [call EXCEPT ![t] = [wait |-> wait, on |-> on, at |-> 1, for |-> for]]
    /\ pc' = [pc EXCEPT ![t] = "wait"]
    /\ UNCHANGED <<state, told, left, got, menu>>

\* WaitForSingleObjectEx returns r.
SingleReturns(t, r) ==
    /\ pc' = [pc EXCEPT ![t] = "got"]
    /\ got' = [got EXCEPT ![t] = r]
    /\ told' = told \ {t}
    /\ UNCHANGED <<call, left, menu>>

Consume(o) ==
    /\ signaled' = IF o \in AutoEvents \ Ntsync
                   THEN [signaled EXCEPT ![o] = FALSE] ELSE signaled
    /\ posted' = IF o \in Semaphores \ Ntsync
                 THEN [posted EXCEPT ![o] = @ - 1] ELSE posted
    /\ kernel' = IF o \in Ntsync \ Lasting
                 THEN [kernel EXCEPT ![o] = @ - 1] ELSE kernel

Take(t) ==
    /\ Level(Obj(t)) > 0
    /\ Consume(Obj(t))
    /\ SingleReturns(t, "ok")

GiveUp(t) ==
    /\ Level(Obj(t)) = 0
    /\ SingleReturns(t, "timeout")
    /\ UNCHANGED state

Sleep(t) ==
    /\ Level(Obj(t)) = 0
    /\ pc' = [pc EXCEPT ![t] = "asleep"]
    /\ told' = told \ {t}
    /\ UNCHANGED <<state, call, left, got, menu>>

\* The first look at the object.
Look(t) ==
    /\ pc[t] = "wait"
    /\ \/ Take(t)
       \/ For(t) = "zero" /\ GiveUp(t)
       \/ For(t) # "zero" /\ Sleep(t)

\* (variant) The flag is not looked at again after a wake-up.
WakeUpOnce(t) ==
    /\ pc[t] = "asleep" /\ Obj(t) \in Flags
    /\ Consume(Obj(t))
    /\ SingleReturns(t, "ok")

\* The condition wakes a waiter, told or for no reason: it looks again.
WakeUp(t) ==
    /\ pc[t] = "asleep" /\ Obj(t) \in Flags
    /\ Take(t) \/ Sleep(t)

\* (variant) ETIMEDOUT is believed although the event is signaled.
TimesOutBlindly(t) ==
    /\ pc[t] = "asleep" /\ Obj(t) \in Flags /\ For(t) = "some"
    /\ SingleReturns(t, "timeout")
    /\ UNCHANGED state

\* pthread_cond_timedwait reports ETIMEDOUT: the flag decides.
TimesOut(t) ==
    /\ pc[t] = "asleep" /\ Obj(t) \in Flags /\ For(t) = "some"
    /\ Take(t) \/ GiveUp(t)

\* A wait in sem_wait or sem_timedwait.
SemTakes(t) ==
    /\ pc[t] = "asleep" /\ Obj(t) \in Semaphores \ Ntsync
    /\ Take(t)

\* sem_timedwait may find its time out just as a post arrives.
SemTimesOut(t) ==
    /\ pc[t] = "asleep" /\ Obj(t) \in Semaphores \ Ntsync /\ For(t) = "some"
    /\ SingleReturns(t, "timeout")
    /\ UNCHANGED state

\* NTSYNC_IOC_WAIT_ANY returns to a thread the kernel has served; an
\* interrupted call is made again with the same deadline.
NtsyncReturns(t) ==
    /\ pc[t] = "asleep" /\ Obj(t) \in Ntsync
    /\ \/ t \in told /\ SingleReturns(t, "ok")
       \/ t \notin told /\ For(t) = "some" /\ SingleReturns(t, "timeout")
    /\ UNCHANGED state

\* WaitForMultipleObjects, after one of its waits.
CallReturns(t) ==
    /\ pc' = [pc EXCEPT ![t] = "idle"]
    /\ call' = [call EXCEPT ![t] = NoCall]
    /\ got' = [got EXCEPT ![t] = "none"]

NextHandle(t, i) ==
    /\ pc' = [pc EXCEPT ![t] = "wait"]
    /\ call' = [call EXCEPT ![t].at = i]
    /\ got' = [got EXCEPT ![t] = "none"]

\* (variant) Only the last wait's outcome counts.
WaitAllNextRegardless(t) ==
    /\ pc[t] = "got" /\ call[t].wait = "all"
    /\ IF call[t].at < Len(call[t].on)
       THEN NextHandle(t, call[t].at + 1)
       ELSE CallReturns(t)
    /\ UNCHANGED <<state, told, left, menu>>

WaitAllNext(t) ==
    /\ pc[t] = "got" /\ call[t].wait = "all"
    /\ IF got[t] = "ok" /\ call[t].at < Len(call[t].on)
       THEN NextHandle(t, call[t].at + 1)
       ELSE CallReturns(t)
    /\ UNCHANGED <<state, told, left, menu>>

WaitAnyNext(t) ==
    /\ pc[t] = "got" /\ call[t].wait = "any"
    /\ \/ got[t] = "ok" /\ CallReturns(t)
       \/ got[t] # "ok" /\ call[t].at < Len(call[t].on) /\ NextHandle(t, call[t].at + 1)
       \/ /\ got[t] # "ok" /\ call[t].at = Len(call[t].on)
          /\ \/ call[t].for # "infinite" /\ CallReturns(t)
             \/ call[t].for # "zero" /\ NextHandle(t, 1)
    /\ UNCHANGED <<state, told, left, menu>>

---------------------------------------------------------------------------
(* Signalling.                                                             *)

Broadcast(o) == told' = told \cup Sleepers(o)

SignalOne(o) ==
    IF Sleepers(o) = {} THEN UNCHANGED told
    ELSE \E t \in Sleepers(o) : told' = told \cup {t}

\* NTSYNC_IOC_EVENT_SET and NTSYNC_IOC_SEM_RELEASE serve sleepers at once.
Serve(o, n) ==
    IF o \in Lasting
    THEN /\ Broadcast(o)
         /\ kernel' = [kernel EXCEPT ![o] = 1]
    ELSE \E S \in SUBSET Sleepers(o) :
         /\ Cardinality(S) <= n
         /\ Cardinality(S) < n => S = Sleepers(o)
         /\ told' = told \cup S
         /\ kernel' = [kernel EXCEPT ![o] =
                         IF o \in Events THEN (IF S = {} THEN 1 ELSE 0)
                         ELSE @ + n - Cardinality(S)]

\* Between the two halves of a call that signals: the device has been told
\* and the flag has not, or posts are left to make.
Halfway(t, what, o) ==
    /\ pc' = [pc EXCEPT ![t] = "signal"]
    /\ call' = [call EXCEPT ![t] = [wait |-> what, on |-> <<o>>, at |-> 1, for |-> "zero"]]

SecondHalf(t, what) == pc[t] = "signal" /\ call[t].wait = what

\* (variant) A manual-reset event wakes one sleeper too.
SetEventWakesOne(t, e) ==
    /\ Idle(t)
    /\ IF e \in Ntsync
       THEN /\ Serve(e, 1)
            /\ Halfway(t, "set", e)
            /\ UNCHANGED signaled
       ELSE /\ signaled' = [signaled EXCEPT ![e] = TRUE]
            /\ SignalOne(e)
            /\ UNCHANGED <<kernel, pc, call>>
    /\ UNCHANGED <<posted, left, got, menu>>

\* Objects of the device have a flag too, which nothing reads.
SetEvent(t, e) ==
    /\ Idle(t)
    /\ IF e \in Ntsync
       THEN /\ Serve(e, 1)
            /\ Halfway(t, "set", e)
            /\ UNCHANGED signaled
       ELSE /\ signaled' = [signaled EXCEPT ![e] = TRUE]
            /\ IF e \in ManualEvents THEN Broadcast(e) ELSE SignalOne(e)
            /\ UNCHANGED <<kernel, pc, call>>
    /\ UNCHANGED <<posted, left, got, menu>>

SetEventFlag(t) ==
    /\ SecondHalf(t, "set")
    /\ signaled' = [signaled EXCEPT ![Obj(t)] = TRUE]
    /\ CallReturns(t)
    /\ UNCHANGED <<posted, kernel, told, left, menu>>

ResetEvent(t, e) ==
    /\ Idle(t)
    /\ IF e \in Ntsync
       THEN /\ kernel' = [kernel EXCEPT ![e] = 0]
            /\ Halfway(t, "reset", e)
            /\ UNCHANGED signaled
       ELSE /\ signaled' = [signaled EXCEPT ![e] = FALSE]
            /\ UNCHANGED <<kernel, pc, call>>
    /\ UNCHANGED <<posted, told, left, got, menu>>

ResetEventFlag(t) ==
    /\ SecondHalf(t, "reset")
    /\ signaled' = [signaled EXCEPT ![Obj(t)] = FALSE]
    /\ CallReturns(t)
    /\ UNCHANGED <<posted, kernel, told, left, menu>>

\* The kernel refuses a release past the maximum; a sem_t has none.
ReleaseSemaphore(t, s, n) ==
    /\ Idle(t)
    /\ IF s \in Ntsync
       THEN /\ kernel[s] + n <= MaximumCount
            /\ Serve(s, n)
            /\ UNCHANGED <<pc, call, left>>
       ELSE /\ posted[s] + n <= MaxPosted
            /\ Halfway(t, "post", s)
            /\ left' = [left EXCEPT ![t] = n]
            /\ UNCHANGED <<kernel, told>>
    /\ UNCHANGED <<signaled, posted, got, menu>>

SemPost(t) ==
    /\ SecondHalf(t, "post")
    /\ posted' = [posted EXCEPT ![Obj(t)] = @ + 1]
    /\ left' = [left EXCEPT ![t] = @ - 1]
    /\ IF left[t] = 1 THEN CallReturns(t) ELSE UNCHANGED <<pc, call, got>>
    /\ UNCHANGED <<signaled, kernel, told, menu>>

\* finish_thread, for a thread of the handle j.
FinishThread(j) ==
    /\ ~signaled[j]
    /\ signaled' = [signaled EXCEPT ![j] = TRUE]
    /\ Broadcast(j)
    /\ UNCHANGED <<posted, kernel, pc, call, left, got, menu>>

---------------------------------------------------------------------------

Waits(t) ==
    \/ \E on \in menu, for \in Timeouts : \E wait \in {"all", "any"} : BeginWait(t, on, wait, for)
    \/ Look(t)
    \/ WakeUp(t)
    \/ TimesOut(t)
    \/ SemTakes(t)
    \/ SemTimesOut(t)
    \/ NtsyncReturns(t)
    \/ WaitAllNext(t)
    \/ WaitAnyNext(t)

Signals(t) ==
    \/ \E e \in Events \cap InPlay : SetEvent(t, e) \/ ResetEvent(t, e)
    \/ SetEventFlag(t)
    \/ ResetEventFlag(t)
    \/ \E s \in Semaphores \cap InPlay, n \in 1..MaxRelease : ReleaseSemaphore(t, s, n)
    \/ SemPost(t)

Next ==
    \/ \E t \in Waiters : Waits(t)
    \/ \E t \in Signallers : Signals(t)
    \/ \E j \in Jobs \cap InPlay : FinishThread(j)

Spec == Init /\ [][Next]_vars

\* A thread that was told, or can take from a semaphore, is scheduled; calls
\* go on; nothing is promised of spurious wake-ups, time-outs or new calls.
Scheduled(t) ==
    \/ Look(t)
    \/ t \in told /\ (WakeUp(t) \/ NtsyncReturns(t))
    \/ SemTakes(t)
    \/ WaitAllNext(t)
    \/ WaitAnyNext(t)
    \/ SetEventFlag(t)
    \/ ResetEventFlag(t)
    \/ SemPost(t)

FairSpec == Spec /\ \A t \in Threads : WF_vars(Scheduled(t))

---------------------------------------------------------------------------
(* Correctness.                                                            *)

\* The handle array of a call and the index into it.
Calls == [wait : {"all", "any", "set", "reset", "post"},
          on : Seq(Objects), at : Nat, for : Timeouts]

\* Type invariant: what a thread waits for or is halfway through signaling is
\* in its call, the device's events hold one signal, and only the threads
\* asleep have been picked to wake.
TypeOK ==
    /\ signaled \in [Events \cup Jobs -> BOOLEAN]
    /\ posted \in [Semaphores -> Nat]
    /\ kernel \in [Ntsync -> 0..MaximumCount]
    /\ \A o \in Ntsync \cap Events : kernel[o] <= 1
    /\ pc \in [Threads -> {"idle", "wait", "asleep", "got", "signal"}]
    /\ call \in [Threads -> Calls \cup {NoCall}]
    /\ \A t \in Threads :
        /\ Idle(t) <=> call[t] = NoCall
        /\ ~Idle(t) => call[t].at \in DOMAIN call[t].on
        /\ pc[t] \in {"wait", "asleep", "got"} <=> call[t].wait \in {"all", "any"}
        /\ SecondHalf(t, "set") \/ SecondHalf(t, "reset") => Obj(t) \in Events \cap Ntsync
        /\ SecondHalf(t, "post") => Obj(t) \in Semaphores \ Ntsync
    /\ told \subseteq {t \in Threads : pc[t] = "asleep"}
    /\ left \in [Threads -> Nat]
    /\ \A t \in Threads : left[t] > 0 <=> SecondHalf(t, "post")
    /\ got \in [Threads -> {"none", "ok", "timeout"}]
    /\ \A t \in Threads : got[t] # "none" <=> pc[t] = "got"
    /\ menu \in Menus

\* While an object is signaled nobody sleeps on it for nothing: a broadcast
\* object has told every sleeper, and an auto-reset event with sleepers has
\* told one that still has to look, whoever else took or timed out meanwhile.
NoLostWakeUp ==
    \A o \in Flags : signaled[o] /\ Sleepers(o) # {} =>
        /\ o \in AutoEvents
        /\ \E t \in told : Obj(t) = o

\* Joining with WaitForMultipleObjects: a wait for all of some handles that
\* succeeds has every thread among them finished, although the handles are
\* waited for one by one.
JoinedAllHaveFinished ==
    [][\A t \in Threads :
        call[t].wait = "all" /\ Idle(t)' /\ got[t] = "ok" =>
            \A i \in DOMAIN call[t].on : call[t].on[i] \in Jobs => signaled[call[t].on[i]]]_vars

\* In a wait whose outcome is open: the kernel has not served the thread.
Waiting(t) ==
    \/ pc[t] = "wait"
    \/ pc[t] = "asleep" /\ (t \in told => Obj(t) \notin Ntsync)

WaitsFor(t) == IF Waiting(t) THEN Obj(t) ELSE NoObject
Outcome(t)  == IF Waiting(t) THEN "none" ELSE IF pc[t] = "asleep" THEN "ok" ELSE got[t]

\* Every wait behaves as on Windows, on either back end: what a thread got is
\* decided at one instant, a success takes one signal and a time-out none.
\* Only sem_timedwait may report a time-out beside a post that just came.
D == INSTANCE Dispatcher WITH
        Binary <- Events \cup Jobs,
        Exact <- Objects \ (Semaphores \ Ntsync),
        Most <- MaxRelease,
        level <- [o \in Objects |-> Level(o)],
        waiting <- [t \in Threads |-> WaitsFor(t)],
        got <- [t \in Threads |-> Outcome(t)]

ImplementsDispatcher == D!DSpec

\* A sleeper whose object stays signaled is served in the end.
SignalsArrive ==
    \A t \in Threads :
        (pc[t] = "asleep" /\ Level(Obj(t)) > 0) ~> ~(pc[t] = "asleep" /\ Level(Obj(t)) > 0)
=============================================================================

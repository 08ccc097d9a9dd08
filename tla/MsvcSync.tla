------------------------------ MODULE MsvcSync ------------------------------
(***************************************************************************)
(* The MSVCP140 mutex and condition variable that src/src/winlibs.cpp      *)
(* implements over two futex words (_Mtx_lock, _Mtx_trylock, _Mtx_unlock,  *)
(* _Cnd_wait, _Cnd_broadcast), at the grain of their atomic operations and *)
(* system calls.  The callers keep the STL's contract: a thread unlocks    *)
(* and waits only on a mutex it holds.                                     *)
(***************************************************************************)
EXTENDS Naturals

CONSTANTS
    Threads, NoThread,
    Recursive,      \* whether type & MSVC_MTX_RECURSIVE
    SeqMod,         \* the range of the condition's sequence word: 2^32
    MaxBroadcasts,  \* bound: calls of _Cnd_broadcast
    MaxCalls        \* bound: other calls

ASSUME SyncAssumption ==
    /\ NoThread \notin Threads
    /\ Recursive \in BOOLEAN
    /\ MaxCalls \in Nat

\* The word must not come round while a waiter stands between its reading of
\* the word and its futex call.
ASSUME SequenceAssumption ==
    /\ SeqMod \in Nat \ {0}
    /\ MaxBroadcasts \in Nat
    /\ MaxBroadcasts < SeqMod

VARIABLES
    lock,        \* the mutex's word: 0 free, 1 locked, 2 locked with waiters
    owner,       \* thread_id
    count,       \* how many times the owner locked it
    sequence,    \* the condition's word
    pc,          \* where each thread is
    seq,         \* the sequence a waiting thread read
    saved,       \* the count it will restore; 0: not in _Cnd_wait
    signalled,   \* (history) waiting threads a broadcast was for
    broadcasts, calls

vars == <<lock, owner, count, sequence, pc, seq, saved, signalled,
          broadcasts, calls>>

Places == {"out", "acquire", "exchange", "fwait", "asleep", "own",
           "release", "wake", "c_fwait", "c_asleep", "b_wake"}

Init ==
    /\ lock = 0
    /\ owner = NoThread
    /\ count = 0
    /\ sequence = 0
    /\ pc = [t \in Threads |-> "out"]
    /\ seq = [t \in Threads |-> 0]
    /\ saved = [t \in Threads |-> 0]
    /\ signalled = {}
    /\ broadcasts = 0
    /\ calls = 0

Goto(t, place) == pc' = [pc EXCEPT ![t] = place]

Call(t) ==
    /\ pc[t] = "out" /\ calls < MaxCalls
    /\ calls' = calls + 1

\* The caller already holds the mutex: count it, or return MSVC_THRD_BUSY.
LockAgain(t) ==
    /\ owner = t
    /\ count' = IF Recursive THEN count + 1 ELSE count
    /\ UNCHANGED <<lock, pc, signalled>>

MtxLock(t) ==
    /\ Call(t)
    /\ \/ LockAgain(t)
       \/ /\ owner # t
          /\ Goto(t, "acquire")
          /\ UNCHANGED <<lock, count, signalled>>
    /\ UNCHANGED <<owner, sequence, seq, saved, broadcasts>>

\* The word is the thread's; its owner and count are set in a later step.
Acquired(t) ==
    /\ Goto(t, "own")
    /\ signalled' = signalled \ {t}

\* trylock returns MSVC_THRD_BUSY on a taken mutex and changes nothing.
MtxTrylock(t) ==
    /\ Call(t)
    /\ \/ LockAgain(t)
       \/ /\ owner # t /\ lock = 0
          /\ lock' = 1
          /\ Acquired(t)
          /\ UNCHANGED count
       \/ /\ owner # t /\ lock # 0
          /\ UNCHANGED <<lock, count, pc, signalled>>
    /\ UNCHANGED <<owner, sequence, seq, saved, broadcasts>>

\* The compare-and-exchange of msvc_mutex_acquire.
Acquire(t) ==
    /\ pc[t] = "acquire"
    /\ \/ lock = 0 /\ lock' = 1 /\ Acquired(t)
       \/ lock = 1 /\ Goto(t, "exchange") /\ UNCHANGED <<lock, signalled>>
       \/ lock = 2 /\ Goto(t, "fwait") /\ UNCHANGED <<lock, signalled>>
    /\ UNCHANGED <<owner, count, sequence, seq, saved, broadcasts, calls>>

\* Every later attempt announces a waiter, even when it succeeds.
Exchange(t) ==
    /\ pc[t] = "exchange"
    /\ lock' = 2
    /\ IF lock = 0 THEN Acquired(t) ELSE Goto(t, "fwait") /\ UNCHANGED signalled
    /\ UNCHANGED <<owner, count, sequence, seq, saved, broadcasts, calls>>

\* FUTEX_WAIT compares the word and goes to sleep in one step.
FutexWait(t) ==
    /\ pc[t] = "fwait"
    /\ Goto(t, IF lock = 2 THEN "asleep" ELSE "exchange")
    /\ UNCHANGED <<lock, owner, count, sequence, seq, saved, signalled,
                   broadcasts, calls>>

\* A signal ends a futex call; both callers ignore its result.
Interrupt(t) ==
    /\ \/ pc[t] = "asleep" /\ Goto(t, "exchange")
       \/ pc[t] = "c_asleep" /\ Goto(t, "acquire")
    /\ UNCHANGED <<lock, owner, count, sequence, seq, saved, signalled,
                   broadcasts, calls>>

\* (variant) The saved count is not restored.
TakeOwnershipForgetsDepth(t) ==
    /\ pc[t] = "own"
    /\ owner' = t
    /\ count' = count + 1
    /\ saved' = [saved EXCEPT ![t] = 0]
    /\ Goto(t, "out")
    /\ UNCHANGED <<lock, sequence, seq, signalled, broadcasts, calls>>

\* thread_id and count: one more after _Mtx_lock, the saved one after a wait.
TakeOwnership(t) ==
    /\ pc[t] = "own"
    /\ owner' = t
    /\ count' = IF saved[t] > 0 THEN saved[t] ELSE count + 1
    /\ saved' = [saved EXCEPT ![t] = 0]
    /\ Goto(t, "out")
    /\ UNCHANGED <<lock, sequence, seq, signalled, broadcasts, calls>>

MtxUnlock(t) ==
    /\ pc[t] = "out" /\ owner = t
    /\ count' = count - 1
    /\ IF count = 1
       THEN owner' = NoThread /\ Goto(t, "release")
       ELSE UNCHANGED <<owner, pc>>
    /\ UNCHANGED <<lock, sequence, seq, saved, signalled, broadcasts, calls>>

AfterRelease(t) == IF saved[t] > 0 THEN "c_fwait" ELSE "out"

\* The exchange of msvc_mutex_release.
Release(t) ==
    /\ pc[t] = "release"
    /\ lock' = 0
    /\ Goto(t, IF lock = 2 THEN "wake" ELSE AfterRelease(t))
    /\ UNCHANGED <<owner, count, sequence, seq, saved, signalled, broadcasts,
                   calls>>

\* FUTEX_WAKE of one sleeper, if there is one.
Wake(t) ==
    /\ pc[t] = "wake"
    /\ \/ \E s \in Threads :
             /\ pc[s] = "asleep"
             /\ pc' = [pc EXCEPT ![t] = AfterRelease(t), ![s] = "exchange"]
       \/ /\ \A s \in Threads : pc[s] # "asleep"
          /\ Goto(t, AfterRelease(t))
    /\ UNCHANGED <<lock, owner, count, sequence, seq, saved, signalled,
                   broadcasts, calls>>

\* _Cnd_wait reads the sequence while it still holds the mutex.
CndWait(t) ==
    /\ Call(t) /\ owner = t
    /\ seq' = [seq EXCEPT ![t] = sequence]
    /\ saved' = [saved EXCEPT ![t] = count]
    /\ count' = 0
    /\ owner' = NoThread
    /\ Goto(t, "release")
    /\ UNCHANGED <<lock, sequence, signalled, broadcasts>>

\* (variant) The sequence is read again once the mutex is given up.
CndFutexWaitRereads(t) ==
    /\ pc[t] = "c_fwait"
    /\ Goto(t, "c_asleep")
    /\ seq' = [seq EXCEPT ![t] = sequence]
    /\ UNCHANGED <<lock, owner, count, sequence, saved, signalled, broadcasts,
                   calls>>

CndFutexWait(t) ==
    /\ pc[t] = "c_fwait"
    /\ Goto(t, IF sequence = seq[t] THEN "c_asleep" ELSE "acquire")
    /\ UNCHANGED <<lock, owner, count, sequence, seq, saved, signalled,
                   broadcasts, calls>>

\* Those who gave the mutex up to wait and have not got it back.
Waiting(t) == saved[t] > 0 /\ pc[t] \notin {"release", "own"}

Advanced == IF sequence + 1 = SeqMod THEN 0 ELSE sequence + 1

CndBroadcast(t) ==
    /\ pc[t] = "out" /\ broadcasts < MaxBroadcasts
    /\ broadcasts' = broadcasts + 1
    /\ sequence' = Advanced
    /\ signalled' = {u \in Threads : Waiting(u)}
    /\ Goto(t, "b_wake")
    /\ UNCHANGED <<lock, owner, count, seq, saved, calls>>

\* (variant) Only one sleeper is woken.
BroadcastWakesOne(t) ==
    /\ pc[t] = "b_wake"
    /\ \/ \E u \in Threads :
             /\ pc[u] = "c_asleep"
             /\ pc' = [pc EXCEPT ![t] = "out", ![u] = "acquire"]
       \/ /\ \A u \in Threads : pc[u] # "c_asleep"
          /\ Goto(t, "out")
    /\ UNCHANGED <<lock, owner, count, sequence, seq, saved, signalled,
                   broadcasts, calls>>

\* FUTEX_WAKE of INT_MAX sleepers.
BroadcastWake(t) ==
    /\ pc[t] = "b_wake"
    /\ pc' = [u \in Threads |-> IF u = t THEN "out"
                                ELSE IF pc[u] = "c_asleep" THEN "acquire"
                                ELSE pc[u]]
    /\ UNCHANGED <<lock, owner, count, sequence, seq, saved, signalled,
                   broadcasts, calls>>

-----------------------------------------------------------------------------

Progress(t) ==
    \/ Acquire(t) \/ Exchange(t) \/ FutexWait(t) \/ TakeOwnership(t)
    \/ MtxUnlock(t) \/ Release(t) \/ Wake(t)
    \/ CndFutexWait(t) \/ BroadcastWake(t)

Choice(t) ==
    \/ MtxLock(t) \/ MtxTrylock(t) \/ CndWait(t) \/ CndBroadcast(t)
    \/ Interrupt(t)

Next == \E t \in Threads : Progress(t) \/ Choice(t)

Spec == Init /\ [][Next]_vars

\* Threads are scheduled, and whoever holds the mutex unlocks it.
FairSpec == Spec /\ \A t \in Threads : WF_vars(Progress(t))

-----------------------------------------------------------------------------

TypeOK ==
    /\ lock \in 0..2
    /\ owner \in Threads \cup {NoThread}
    /\ count \in Nat
    /\ sequence \in 0..(SeqMod - 1)
    /\ pc \in [Threads -> Places]
    /\ seq \in [Threads -> 0..(SeqMod - 1)]
    /\ saved \in [Threads -> Nat]
    /\ signalled \in SUBSET Threads
    /\ broadcasts \in Nat
    /\ calls \in Nat

\* The thread the mutex belongs to: from the atomic operation that took the
\* word to the one that gives it back.
Holds(t) == owner = t \/ pc[t] \in {"own", "release"}

\* At most one thread holds the mutex, and the word says whether one does.
MutualExclusion ==
    /\ \A t, u \in Threads : Holds(t) /\ Holds(u) => t = u
    /\ lock = 0 <=> \A t \in Threads : ~Holds(t)

\* A thread asleep on the mutex is not forgotten: the word still announces a
\* waiter, or some thread is about to wake one or to set the word to 2.
SleepersAreAnnounced ==
    (\E t \in Threads : pc[t] = "asleep") =>
        lock = 2 \/ \E t \in Threads : pc[t] \in {"wake", "exchange", "fwait"}

\* A broadcast is not lost on a thread that had given up the mutex to wait:
\* if that thread sleeps, a FUTEX_WAKE for it is still to come.
NoLostBroadcast ==
    \A t \in Threads : t \in signalled /\ pc[t] = "c_asleep" =>
        \E u \in Threads : pc[u] = "b_wake"

HolderOrNone ==
    IF \E t \in Threads : Holds(t) THEN CHOOSE t \in Threads : Holds(t)
    ELSE NoThread

\* The depth the holder has in the monitor: the count, except between the
\* atomic operations on the word and the plain stores beside them.
DepthOf(t) ==
    IF pc[t] = "own" \/ pc[t] = "release"
    THEN IF saved[t] > 0 THEN saved[t] ELSE 1
    ELSE count

\* The two futex words implement the monitor the C++ headers expect.
Abstract == INSTANCE Monitor WITH
    holder <- HolderOrNone,
    depth  <- IF HolderOrNone = NoThread THEN 0 ELSE DepthOf(HolderOrNone),
    parked <- [t \in Threads |-> IF Waiting(t) THEN saved[t] ELSE 0],
    told   <- signalled

ImplementsMonitor == Abstract!MSpec

\* _Mtx_lock returns once the mutex is given back often enough, and so does
\* a _Cnd_wait that a broadcast was for.
EveryCallReturns ==
    \A t \in Threads :
        /\ pc[t] \in {"acquire", "exchange", "fwait", "asleep"} ~> pc[t] = "out"
        /\ t \in signalled ~> t \notin signalled

=============================================================================

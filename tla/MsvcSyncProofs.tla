--------------------------- MODULE MsvcSyncProofs ---------------------------
(***************************************************************************)
(* Proofs about MsvcSync: what holds for any set of threads, any number of *)
(* calls, and any number of broadcasts the sequence word has room for.     *)
(***************************************************************************)
EXTENDS MsvcSync, TLAPS

\* The owner and the count are kept by the thread that holds the word, and
\* not while it is on its way in or out.
OwnerInv ==
    /\ \A t \in Threads : owner = t => pc[t] \in {"out", "b_wake"}
    /\ \A t \in Threads : pc[t] \in {"own", "release"} => owner = NoThread
    /\ owner = NoThread <=> count = 0

\* A thread inside _Cnd_wait remembers its count; a signalled one is past
\* giving the mutex up and has not got it back.
WaitInv ==
    \A t \in Threads :
        /\ saved[t] > 0 => pc[t] \notin {"out", "b_wake"}
        /\ pc[t] \in {"c_fwait", "c_asleep"} => saved[t] > 0
        /\ t \in signalled => Waiting(t)

\* The sequence counts the broadcasts, and a broadcast that finds a thread
\* between its two futex calls has moved the sequence beyond what it read.
SequenceInv ==
    /\ sequence = broadcasts /\ broadcasts <= MaxBroadcasts
    /\ \A t \in Threads :
          /\ seq[t] <= sequence
          /\ t \in signalled /\ pc[t] \in {"wake", "c_fwait"} =>
                 seq[t] < sequence

\* The inductive invariant.
IInv ==
    /\ TypeOK
    /\ MutualExclusion
    /\ OwnerInv
    /\ WaitInv
    /\ SequenceInv
    /\ SleepersAreAnnounced
    /\ NoLostBroadcast

\* The invariant holds initially: everybody is out and the word is 0.
LEMMA InitEstablishes == Init => IInv
<1> SUFFICES ASSUME Init PROVE IInv
  OBVIOUS
<1> USE SyncAssumption, SequenceAssumption DEF Init
<1>1. TypeOK
  BY DEF TypeOK, Places
<1>2. MutualExclusion /\ OwnerInv
  BY DEF MutualExclusion, OwnerInv, Holds
<1>3. WaitInv /\ SequenceInv /\ SleepersAreAnnounced /\ NoLostBroadcast
  BY DEF WaitInv, SequenceInv, SleepersAreAnnounced, NoLostBroadcast
<1> QED
  BY <1>1, <1>2, <1>3 DEF IInv

\* A lock by the owner is counted; any other one only sets out.
LEMMA MtxLockPreserves ==
    ASSUME NEW t \in Threads, IInv, MtxLock(t)
    PROVE  IInv'
<1> USE SyncAssumption, SequenceAssumption
<1> USE DEF MtxLock, Call, LockAgain, Goto
<1>1. TypeOK'
  BY DEF IInv, TypeOK, Places, OwnerInv, SequenceInv
<1>2. MutualExclusion'
  BY DEF IInv, TypeOK, MutualExclusion, OwnerInv, Holds
<1>3. OwnerInv'
  BY DEF IInv, TypeOK, OwnerInv
<1>4. WaitInv'
  BY DEF IInv, TypeOK, OwnerInv, WaitInv, Waiting
<1>5. SequenceInv'
  BY DEF IInv, TypeOK, WaitInv, Waiting, SequenceInv
<1>6. SleepersAreAnnounced'
  BY DEF IInv, TypeOK, SleepersAreAnnounced
<1>7. NoLostBroadcast'
  BY DEF IInv, TypeOK, NoLostBroadcast
<1> QED
  BY <1>1, <1>2, <1>3, <1>4, <1>5, <1>6, <1>7 DEF IInv

\* A try that succeeds finds the word 0, so nobody holds the mutex.
LEMMA MtxTrylockPreserves ==
    ASSUME NEW t \in Threads, IInv, MtxTrylock(t)
    PROVE  IInv'
<1> USE SyncAssumption, SequenceAssumption
<1> USE DEF MtxTrylock, Call, LockAgain, Acquired, Goto
<1>1. TypeOK'
  BY DEF IInv, TypeOK, Places, OwnerInv, SequenceInv
<1>2. MutualExclusion'
  BY DEF IInv, TypeOK, MutualExclusion, OwnerInv, Holds
<1>3. OwnerInv'
  BY DEF IInv, TypeOK, MutualExclusion, OwnerInv, Holds, WaitInv
<1>4. WaitInv'
  BY DEF IInv, TypeOK, OwnerInv, WaitInv, Waiting
<1>5. SequenceInv'
  BY DEF IInv, TypeOK, WaitInv, Waiting, SequenceInv
<1>6. SleepersAreAnnounced'
  BY DEF IInv, TypeOK, SleepersAreAnnounced
<1>7. NoLostBroadcast'
  BY DEF IInv, TypeOK, NoLostBroadcast
<1> QED
  BY <1>1, <1>2, <1>3, <1>4, <1>5, <1>6, <1>7 DEF IInv

\* The compare-and-exchange takes the word only when nobody holds it.
LEMMA AcquirePreserves ==
    ASSUME NEW t \in Threads, IInv, Acquire(t)
    PROVE  IInv'
<1> USE SyncAssumption, SequenceAssumption
<1> USE DEF Acquire, Acquired, Goto
<1>1. TypeOK'
  BY DEF IInv, TypeOK, Places, OwnerInv, SequenceInv
<1>2. MutualExclusion'
  BY DEF IInv, TypeOK, MutualExclusion, OwnerInv, Holds
<1>3. OwnerInv'
  BY DEF IInv, TypeOK, MutualExclusion, OwnerInv, Holds, WaitInv
<1>4. WaitInv'
  BY DEF IInv, TypeOK, OwnerInv, WaitInv, Waiting
<1>5. SequenceInv'
  BY DEF IInv, TypeOK, WaitInv, Waiting, SequenceInv
<1>6. SleepersAreAnnounced'
  BY DEF IInv, TypeOK, SleepersAreAnnounced
<1>7. NoLostBroadcast'
  BY DEF IInv, TypeOK, NoLostBroadcast
<1> QED
  BY <1>1, <1>2, <1>3, <1>4, <1>5, <1>6, <1>7 DEF IInv

\* The exchange leaves the word at 2, whoever had it.
LEMMA ExchangePreserves ==
    ASSUME NEW t \in Threads, IInv, Exchange(t)
    PROVE  IInv'
<1> USE SyncAssumption, SequenceAssumption
<1> USE DEF Exchange, Acquired, Goto
<1>1. TypeOK'
  BY DEF IInv, TypeOK, Places, OwnerInv, SequenceInv
<1>2. MutualExclusion'
  BY DEF IInv, TypeOK, MutualExclusion, OwnerInv, Holds
<1>3. OwnerInv'
  BY DEF IInv, TypeOK, MutualExclusion, OwnerInv, Holds, WaitInv
<1>4. WaitInv'
  BY DEF IInv, TypeOK, OwnerInv, WaitInv, Waiting
<1>5. SequenceInv'
  BY DEF IInv, TypeOK, WaitInv, Waiting, SequenceInv
<1>6. SleepersAreAnnounced'
  BY DEF SleepersAreAnnounced
<1>7. NoLostBroadcast'
  BY DEF IInv, TypeOK, NoLostBroadcast
<1> QED
  BY <1>1, <1>2, <1>3, <1>4, <1>5, <1>6, <1>7 DEF IInv

\* A thread falls asleep only while the word announces a waiter, and a
\* thread that does not will announce one.
LEMMA FutexWaitPreserves ==
    ASSUME NEW t \in Threads, IInv, FutexWait(t)
    PROVE  IInv'
<1> USE SyncAssumption, SequenceAssumption
<1> USE DEF FutexWait, Goto
<1>1. TypeOK'
  BY DEF IInv, TypeOK, Places, OwnerInv, SequenceInv
<1>2. MutualExclusion'
  BY DEF IInv, MutualExclusion, Holds
<1>3. OwnerInv'
  BY DEF IInv, OwnerInv
<1>4. WaitInv'
  BY DEF IInv, WaitInv, Waiting
<1>5. SequenceInv'
  BY DEF IInv, SequenceInv
<1>6. SleepersAreAnnounced'
  BY DEF SleepersAreAnnounced
<1>7. NoLostBroadcast'
  BY DEF IInv, NoLostBroadcast
<1> QED
  BY <1>1, <1>2, <1>3, <1>4, <1>5, <1>6, <1>7 DEF IInv

\* A thread woken by a signal announces itself again.
LEMMA InterruptPreserves ==
    ASSUME NEW t \in Threads, IInv, Interrupt(t)
    PROVE  IInv'
<1> USE SyncAssumption, SequenceAssumption
<1> USE DEF Interrupt, Goto
<1>1. TypeOK'
  BY DEF IInv, TypeOK, Places, OwnerInv, SequenceInv
<1>2. MutualExclusion'
  BY DEF IInv, TypeOK, MutualExclusion, OwnerInv, Holds
<1>3. OwnerInv'
  BY DEF IInv, TypeOK, OwnerInv
<1>4. WaitInv'
  BY DEF IInv, TypeOK, OwnerInv, WaitInv, Waiting
<1>5. SequenceInv'
  BY DEF IInv, TypeOK, WaitInv, Waiting, SequenceInv
<1>6. SleepersAreAnnounced'
  BY DEF IInv, TypeOK, SleepersAreAnnounced
<1>7. NoLostBroadcast'
  BY DEF IInv, TypeOK, NoLostBroadcast
<1> QED
  BY <1>1, <1>2, <1>3, <1>4, <1>5, <1>6, <1>7 DEF IInv

\* The only thread that holds the word becomes the owner.
LEMMA TakeOwnershipPreserves ==
    ASSUME NEW t \in Threads, IInv, TakeOwnership(t)
    PROVE  IInv'
<1> USE SyncAssumption, SequenceAssumption
<1> USE DEF TakeOwnership, Goto
<1>1. TypeOK'
  BY DEF IInv, TypeOK, Places, OwnerInv, SequenceInv
<1>2. MutualExclusion'
  BY DEF IInv, MutualExclusion, Holds
<1>3. OwnerInv'
  BY DEF IInv, TypeOK, MutualExclusion, OwnerInv, Holds, WaitInv
<1>4. WaitInv'
  BY DEF IInv, TypeOK, OwnerInv, WaitInv, Waiting
<1>5. SequenceInv'
  BY DEF IInv, SequenceInv
<1>6. SleepersAreAnnounced'
  BY DEF IInv, SleepersAreAnnounced
<1>7. NoLostBroadcast'
  BY DEF IInv, NoLostBroadcast
<1> QED
  BY <1>1, <1>2, <1>3, <1>4, <1>5, <1>6, <1>7 DEF IInv

\* The last unlock clears the owner before the word is given back.
LEMMA MtxUnlockPreserves ==
    ASSUME NEW t \in Threads, IInv, MtxUnlock(t)
    PROVE  IInv'
<1> USE SyncAssumption, SequenceAssumption
<1> USE DEF MtxUnlock, Goto
<1>1. TypeOK'
  BY DEF IInv, TypeOK, Places, OwnerInv, SequenceInv
<1>2. MutualExclusion'
  BY DEF IInv, TypeOK, MutualExclusion, OwnerInv, Holds
<1>3. OwnerInv'
  BY DEF IInv, OwnerInv
<1>4. WaitInv'
  BY DEF IInv, TypeOK, OwnerInv, WaitInv, Waiting
<1>5. SequenceInv'
  BY DEF IInv, TypeOK, WaitInv, Waiting, SequenceInv
<1>6. SleepersAreAnnounced'
  BY DEF IInv, TypeOK, SleepersAreAnnounced
<1>7. NoLostBroadcast'
  BY DEF IInv, TypeOK, NoLostBroadcast
<1> QED
  BY <1>1, <1>2, <1>3, <1>4, <1>5, <1>6, <1>7 DEF IInv

\* The holder gives the word back and wakes a sleeper if it read 2.
LEMMA ReleasePreserves ==
    ASSUME NEW t \in Threads, IInv, Release(t)
    PROVE  IInv'
<1> USE SyncAssumption, SequenceAssumption
<1> USE DEF Release, AfterRelease, Goto
<1>1. TypeOK'
  BY DEF IInv, TypeOK, Places, OwnerInv, SequenceInv
<1>2. MutualExclusion'
  BY DEF IInv, TypeOK, MutualExclusion, OwnerInv, Holds
<1>3. OwnerInv'
  BY DEF IInv, OwnerInv
<1>4. WaitInv'
  BY DEF IInv, WaitInv, Waiting
<1>5. SequenceInv'
  BY DEF IInv, WaitInv, Waiting, SequenceInv
<1>6. SleepersAreAnnounced'
  BY DEF IInv, TypeOK, SleepersAreAnnounced
<1>7. NoLostBroadcast'
  BY DEF IInv, NoLostBroadcast
<1> QED
  BY <1>1, <1>2, <1>3, <1>4, <1>5, <1>6, <1>7 DEF IInv

\* A sleeper woken is about to announce a waiter again.
LEMMA WakePreserves ==
    ASSUME NEW t \in Threads, IInv, Wake(t)
    PROVE  IInv'
<1> USE SyncAssumption, SequenceAssumption
<1> USE DEF Wake, AfterRelease, Goto
<1>1. TypeOK'
  BY DEF IInv, TypeOK, Places, OwnerInv, SequenceInv
<1>2. MutualExclusion'
  BY DEF IInv, TypeOK, MutualExclusion, OwnerInv, Holds
<1>3. OwnerInv'
  BY DEF IInv, TypeOK, OwnerInv
<1>4. WaitInv'
  BY DEF IInv, TypeOK, OwnerInv, WaitInv, Waiting
<1>5. SequenceInv'
  BY DEF IInv, TypeOK, WaitInv, Waiting, SequenceInv
<1>6. SleepersAreAnnounced'
  BY DEF IInv, TypeOK, SleepersAreAnnounced
<1>7. NoLostBroadcast'
  BY DEF IInv, TypeOK, NoLostBroadcast
<1> QED
  BY <1>1, <1>2, <1>3, <1>4, <1>5, <1>6, <1>7 DEF IInv

\* A waiter reads the sequence while it still holds the mutex.
LEMMA CndWaitPreserves ==
    ASSUME NEW t \in Threads, IInv, CndWait(t)
    PROVE  IInv'
<1> USE SyncAssumption, SequenceAssumption
<1> USE DEF CndWait, Call, Goto
<1>1. TypeOK'
  BY DEF IInv, TypeOK, Places, OwnerInv, SequenceInv
<1>2. MutualExclusion'
  BY DEF IInv, TypeOK, MutualExclusion, OwnerInv, Holds
<1>3. OwnerInv'
  BY DEF OwnerInv
<1>4. WaitInv'
  BY DEF IInv, TypeOK, OwnerInv, WaitInv, Waiting
<1>5. SequenceInv'
  BY DEF IInv, TypeOK, WaitInv, Waiting, SequenceInv
<1>6. SleepersAreAnnounced'
  BY DEF IInv, SleepersAreAnnounced
<1>7. NoLostBroadcast'
  BY DEF IInv, NoLostBroadcast
<1> QED
  BY <1>1, <1>2, <1>3, <1>4, <1>5, <1>6, <1>7 DEF IInv

\* A waiter a broadcast was for finds the sequence changed.
LEMMA CndFutexWaitPreserves ==
    ASSUME NEW t \in Threads, IInv, CndFutexWait(t)
    PROVE  IInv'
<1> USE SyncAssumption, SequenceAssumption
<1> USE DEF CndFutexWait, Goto
<1>1. TypeOK'
  BY DEF IInv, TypeOK, Places, OwnerInv, SequenceInv
<1>2. MutualExclusion'
  BY DEF IInv, MutualExclusion, Holds
<1>3. OwnerInv'
  BY DEF IInv, OwnerInv
<1>4. WaitInv'
  BY DEF IInv, WaitInv, Waiting
<1>5. SequenceInv'
  BY DEF IInv, SequenceInv
<1>6. SleepersAreAnnounced'
  BY DEF IInv, SleepersAreAnnounced
<1>7. NoLostBroadcast'
  BY DEF IInv, TypeOK, SequenceInv, NoLostBroadcast
<1> QED
  BY <1>1, <1>2, <1>3, <1>4, <1>5, <1>6, <1>7 DEF IInv

\* A broadcast advances the sequence beyond what any waiter read.
LEMMA CndBroadcastPreserves ==
    ASSUME NEW t \in Threads, IInv, CndBroadcast(t)
    PROVE  IInv'
<1> USE SyncAssumption, SequenceAssumption
<1> USE DEF CndBroadcast, Advanced, Goto
<1>1. TypeOK'
  BY DEF IInv, TypeOK, Places, OwnerInv, SequenceInv
<1>2. MutualExclusion'
  BY DEF IInv, MutualExclusion, Holds
<1>3. OwnerInv'
  BY DEF IInv, OwnerInv
<1>4. WaitInv'
  BY DEF IInv, WaitInv, Waiting
<1>5. SequenceInv'
  BY DEF IInv, TypeOK, WaitInv, Waiting, SequenceInv
<1>6. SleepersAreAnnounced'
  BY DEF IInv, SleepersAreAnnounced
<1>7. NoLostBroadcast'
  BY <1>1 DEF TypeOK, NoLostBroadcast
<1> QED
  BY <1>1, <1>2, <1>3, <1>4, <1>5, <1>6, <1>7 DEF IInv

\* All sleepers on the condition wake at once.
LEMMA BroadcastWakePreserves ==
    ASSUME NEW t \in Threads, IInv, BroadcastWake(t)
    PROVE  IInv'
<1> USE SyncAssumption, SequenceAssumption
<1> USE DEF BroadcastWake, Goto
<1>1. TypeOK'
  BY DEF IInv, TypeOK, Places, OwnerInv, SequenceInv
<1>2. MutualExclusion'
  BY DEF IInv, MutualExclusion, Holds
<1>3. OwnerInv'
  BY DEF IInv, OwnerInv
<1>4. WaitInv'
  BY DEF IInv, WaitInv, Waiting
<1>5. SequenceInv'
  BY DEF IInv, SequenceInv
<1>6. SleepersAreAnnounced'
  BY DEF IInv, SleepersAreAnnounced
<1>7. NoLostBroadcast'
  BY DEF NoLostBroadcast
<1> QED
  BY <1>1, <1>2, <1>3, <1>4, <1>5, <1>6, <1>7 DEF IInv

\* Every step keeps the invariant: the lemmas above, one for each action.
LEMMA StepPreserves == IInv /\ [Next]_vars => IInv'
<1> SUFFICES ASSUME IInv, [Next]_vars PROVE IInv'
  OBVIOUS
<1>1. ASSUME NEW t \in Threads, Progress(t) PROVE IInv'
  BY <1>1, AcquirePreserves, ExchangePreserves, FutexWaitPreserves,
     TakeOwnershipPreserves, MtxUnlockPreserves, ReleasePreserves,
     WakePreserves, CndFutexWaitPreserves, BroadcastWakePreserves
     DEF Progress
<1>2. ASSUME NEW t \in Threads, Choice(t) PROVE IInv'
  BY <1>2, MtxLockPreserves, MtxTrylockPreserves, CndWaitPreserves,
     CndBroadcastPreserves, InterruptPreserves
     DEF Choice
<1>3. CASE UNCHANGED vars
  BY <1>3
     DEF vars, IInv, TypeOK, MutualExclusion, Holds, OwnerInv, WaitInv,
         Waiting, SequenceInv, SleepersAreAnnounced, NoLostBroadcast
<1> QED
  BY <1>1, <1>2, <1>3 DEF Next

\* The inductive invariant holds of every behaviour.
THEOREM Invariance == Spec => []IInv
BY InitEstablishes, StepPreserves, PTL DEF Spec

\* At most one thread holds the mutex and the futex word tells whether one
\* does, with any number of threads.
THEOREM HoldersExclude == Spec => []MutualExclusion
<1>1. IInv => MutualExclusion
  BY DEF IInv
<1> QED
  BY <1>1, Invariance, PTL

\* No thread is left asleep on the mutex while the word says nobody waits.
THEOREM SleepersAreRemembered == Spec => []SleepersAreAnnounced
<1>1. IInv => SleepersAreAnnounced
  BY DEF IInv
<1> QED
  BY <1>1, Invariance, PTL

\* No waiter sleeps through a broadcast made after it gave the mutex up.
THEOREM BroadcastsArrive == Spec => []NoLostBroadcast
<1>1. IInv => NoLostBroadcast
  BY DEF IInv
<1> QED
  BY <1>1, Invariance, PTL

-----------------------------------------------------------------------------
(* The two futex words implement the monitor.                              *)

\* The holder the refinement mapping chooses is the one there is.
LEMMA HolderIs ==
    /\ MutualExclusion => \A t \in Threads : Holds(t) => HolderOrNone = t
    /\ (\A t \in Threads : ~Holds(t)) => HolderOrNone = NoThread
<1>1. ASSUME MutualExclusion, NEW t \in Threads, Holds(t)
      PROVE  HolderOrNone = t
  <2>1. \A u \in Threads : Holds(u) => u = t
    BY <1>1 DEF MutualExclusion
  <2>2. HolderOrNone = CHOOSE u \in Threads : Holds(u)
    BY DEF HolderOrNone
  <2> QED
    BY <1>1, <2>2
<1>2. ASSUME \A t \in Threads : ~Holds(t) PROVE HolderOrNone = NoThread
  BY <1>2 DEF HolderOrNone
<1> QED
  BY <1>1, <1>2

\* The same after a step.
LEMMA HolderIsNext ==
    (/\ MutualExclusion => \A t \in Threads : Holds(t) => HolderOrNone = t
     /\ (\A t \in Threads : ~Holds(t)) => HolderOrNone = NoThread)'
BY HolderIs, PTL

\* A step that keeps the holder, its depth, the waiters with the depth they
\* return to, and the waiters a broadcast was for, is no step of the monitor.
LEMMA Stutters ==
    ASSUME IInv, IInv',
           \A u \in Threads : Holds(u)' <=> Holds(u),
           \A u \in Threads : Holds(u) => DepthOf(u)' = DepthOf(u),
           \A u \in Threads : Waiting(u)' <=> Waiting(u),
           \A u \in Threads : Waiting(u) => saved'[u] = saved[u],
           signalled' = signalled
    PROVE  UNCHANGED Abstract!mvars
<1>1. HolderOrNone' = HolderOrNone
  BY HolderIs, HolderIsNext DEF IInv
<1>2. CASE \A u \in Threads : ~Holds(u)
  BY <1>1, <1>2, HolderIs DEF Abstract!mvars
<1>3. CASE \E u \in Threads : Holds(u)
  <2>1. PICK h \in Threads : Holds(h)
    BY <1>3
  <2>2. HolderOrNone = h /\ DepthOf(h)' = DepthOf(h)
    BY <2>1, HolderIs DEF IInv
  <2>3. DepthOf(HolderOrNone)' = DepthOf(HolderOrNone)
    BY <1>1, <2>2
  <2> QED
    BY <1>1, <2>3 DEF Abstract!mvars
<1> QED
  BY <1>2, <1>3

\* The thread that gets the word while nobody holds the mutex enters the
\* monitor, or resumes at the depth it waited with.
LEMMA AcquiredSimulated ==
    ASSUME NEW t \in Threads, IInv, IInv', Acquired(t),
           lock = 0, pc[t] \in {"out", "acquire", "exchange"},
           UNCHANGED <<owner, count, saved>>
    PROVE  Abstract!Enter(t) \/ Abstract!Resume(t)
<1>1. HolderOrNone = NoThread
  BY HolderIs DEF IInv, MutualExclusion
<1>2. pc'[t] = "own" /\ HolderOrNone' = t /\ t # NoThread
  BY HolderIsNext, SyncAssumption DEF IInv, TypeOK, Acquired, Goto, Holds
<1>3. \A u \in Threads : u # t => (Waiting(u)' <=> Waiting(u))
  BY DEF Acquired, Goto, Waiting
<1>4. ~Waiting(t)' /\ (Waiting(t) <=> saved[t] > 0)
  BY <1>2 DEF IInv, TypeOK, Waiting
<1>5. DepthOf(t)' = IF saved[t] > 0 THEN saved[t] ELSE 1
  BY <1>2 DEF DepthOf
<1>6. saved[t] \in Nat
  BY DEF IInv, TypeOK
<1>7. DepthOf(HolderOrNone)' = DepthOf(t)'
  BY <1>2
<1>8. CASE saved[t] > 0
  BY <1>1, <1>2, <1>3, <1>4, <1>5, <1>8
     DEF Abstract!Resume, Acquired, IInv, TypeOK
<1>9. CASE saved[t] = 0
  <2>1. t \notin signalled
    BY <1>9 DEF IInv, WaitInv, Waiting
  <2> QED
    BY <1>1, <1>2, <1>3, <1>5, <1>9, <2>1
       DEF Abstract!Enter, Acquired, IInv, TypeOK
<1> QED
  BY <1>6, <1>8, <1>9

\* Locking again deepens the holder's stay, if the mutex is recursive.
LEMMA LockAgainSimulated ==
    ASSUME NEW t \in Threads, IInv, IInv', LockAgain(t),
           UNCHANGED <<owner, saved>>
    PROVE  Abstract!EnterAgain(t) \/ UNCHANGED Abstract!mvars
<1>1. CASE Recursive
  <2>1. Holds(t) /\ Holds(t)' /\ t # NoThread
    BY SyncAssumption DEF LockAgain, Holds
  <2>2. HolderOrNone = t /\ HolderOrNone' = t
    BY <2>1, HolderIs, HolderIsNext DEF IInv
  <2>3. pc[t] \notin {"own", "release"}
    BY DEF IInv, OwnerInv, LockAgain
  <2>4. DepthOf(t) = count /\ DepthOf(t)' = count + 1
    BY <1>1, <2>3 DEF LockAgain, DepthOf
  <2>5. DepthOf(HolderOrNone)' = DepthOf(t)'
    BY <2>2
  <2>6. \A u \in Threads : Waiting(u)' <=> Waiting(u)
    BY DEF LockAgain, Waiting
  <2> QED
    BY <1>1, <2>1, <2>2, <2>4, <2>6 DEF Abstract!EnterAgain, LockAgain
<1>2. CASE ~Recursive
  <2>1. \A u \in Threads : /\ Holds(u)' <=> Holds(u)
                           /\ DepthOf(u)' = DepthOf(u)
                           /\ Waiting(u)' <=> Waiting(u)
    BY <1>2 DEF LockAgain, Holds, DepthOf, Waiting
  <2> QED
    BY <2>1, Stutters DEF LockAgain
<1> QED
  BY <1>1, <1>2

\* The exchange that frees the word leaves the monitor or waits in it.
LEMMA ReleaseSimulated ==
    ASSUME NEW t \in Threads, IInv, IInv', Release(t)
    PROVE  Abstract!Leave(t) \/ Abstract!Wait(t)
<1>1. HolderOrNone = t /\ t # NoThread
  BY HolderIs, SyncAssumption DEF IInv, Release, Holds
<1>2. HolderOrNone' = NoThread
  BY HolderIsNext DEF IInv, MutualExclusion, Release
<1>3. /\ pc'[t] \in {"wake", "c_fwait", "out"}
      /\ \A u \in Threads : u # t => pc'[u] = pc[u]
  BY DEF IInv, TypeOK, Release, Goto, AfterRelease
<1>4. \A u \in Threads : u # t => (Waiting(u)' <=> Waiting(u))
  BY <1>3 DEF Waiting, Release
<1>5. ~Waiting(t) /\ (Waiting(t)' <=> saved[t] > 0) /\ saved[t] \in Nat
  BY <1>3 DEF Waiting, Release, IInv, TypeOK
<1>6. DepthOf(HolderOrNone) = IF saved[t] > 0 THEN saved[t] ELSE 1
  BY <1>1 DEF DepthOf, Release
<1>7. CASE saved[t] > 0
  BY <1>1, <1>2, <1>4, <1>5, <1>6, <1>7 DEF Abstract!Wait, Release
<1>8. CASE saved[t] = 0
  BY <1>1, <1>2, <1>4, <1>6, <1>8 DEF Abstract!Leave, Release
<1> QED
  BY <1>5, <1>7, <1>8

\* An unlock that is not the last leaves one level of the monitor; the last
\* one has yet to free the word.
LEMMA MtxUnlockSimulated ==
    ASSUME NEW t \in Threads, IInv, IInv', MtxUnlock(t)
    PROVE  Abstract!Leave(t) \/ UNCHANGED Abstract!mvars
<1>1. /\ Holds(t) /\ t # NoThread /\ saved[t] = 0
      /\ count \in Nat /\ count # 0
  BY DEF MtxUnlock, Holds, IInv, TypeOK, OwnerInv, WaitInv
<1>2. CASE count = 1
  <2>1. pc' = [pc EXCEPT ![t] = "release"] /\ owner' = NoThread
    BY <1>2 DEF MtxUnlock, Goto
  <2>2. pc'[t] = "release" /\ \A u \in Threads : u # t => pc'[u] = pc[u]
    BY <2>1 DEF IInv, TypeOK
  <2>3. \A u \in Threads : Holds(u) <=> u = t
    BY <1>1 DEF IInv, MutualExclusion
  <2>4. \A u \in Threads : Holds(u)' <=> u = t
    BY <2>1, <2>2, <2>3, SyncAssumption DEF Holds
  <2>5. DepthOf(t) = 1 /\ DepthOf(t)' = 1
    BY <1>1, <2>2 DEF DepthOf, MtxUnlock
  <2>6. \A u \in Threads : Waiting(u)' <=> Waiting(u)
    BY <1>1, <2>2 DEF Waiting, MtxUnlock
  <2> QED
    BY <2>3, <2>4, <2>5, <2>6, Stutters DEF MtxUnlock
<1>3. CASE count > 1
  <2>1. UNCHANGED <<owner, pc, saved, signalled>> /\ count' = count - 1
    BY <1>3 DEF MtxUnlock
  <2>2. HolderOrNone = t /\ HolderOrNone' = t
    BY <1>1, <2>1, HolderIs, HolderIsNext DEF IInv, Holds
  <2>3. DepthOf(HolderOrNone) = count /\ DepthOf(HolderOrNone)' = count - 1
    BY <2>1, <2>2 DEF DepthOf, MtxUnlock
  <2>4. \A u \in Threads : Waiting(u)' <=> Waiting(u)
    BY <2>1 DEF Waiting
  <2> QED
    BY <1>1, <1>3, <2>1, <2>2, <2>3, <2>4 DEF Abstract!Leave
<1> QED
  BY <1>1, <1>2, <1>3

\* Becoming the owner on paper changes neither the holder nor its depth.
LEMMA TakeOwnershipSimulated ==
    ASSUME NEW t \in Threads, IInv, IInv', TakeOwnership(t)
    PROVE  UNCHANGED Abstract!mvars
<1>1. Holds(t) /\ count = 0 /\ saved[t] \in Nat
  BY DEF TakeOwnership, Holds, IInv, TypeOK, OwnerInv
<1>2. /\ pc'[t] = "out" /\ saved'[t] = 0
      /\ \A u \in Threads : u # t => pc'[u] = pc[u] /\ saved'[u] = saved[u]
  BY DEF TakeOwnership, Goto, IInv, TypeOK
<1>3. \A u \in Threads : Holds(u) <=> u = t
  BY <1>1 DEF IInv, MutualExclusion
<1>4. \A u \in Threads : Holds(u)' <=> u = t
  BY <1>2, <1>3 DEF TakeOwnership, Holds
<1>5. DepthOf(t)' = DepthOf(t)
  BY <1>1, <1>2 DEF DepthOf, TakeOwnership
<1>6. \A u \in Threads : /\ Waiting(u)' <=> Waiting(u)
                         /\ Waiting(u) => saved'[u] = saved[u]
  BY <1>2 DEF Waiting, TakeOwnership
<1> QED
  BY <1>3, <1>4, <1>5, <1>6, Stutters DEF TakeOwnership

\* A wait that begins still has the mutex, at the depth it saved.
LEMMA CndWaitSimulated ==
    ASSUME NEW t \in Threads, IInv, IInv', CndWait(t)
    PROVE  UNCHANGED Abstract!mvars
<1>1. Holds(t) /\ saved[t] = 0 /\ count \in Nat /\ count > 0 /\ t # NoThread
  BY SyncAssumption DEF CndWait, Holds, IInv, TypeOK, OwnerInv, WaitInv
<1>2. /\ pc'[t] = "release" /\ saved'[t] = count
      /\ \A u \in Threads : u # t => pc'[u] = pc[u] /\ saved'[u] = saved[u]
  BY DEF CndWait, Goto, IInv, TypeOK
<1>3. \A u \in Threads : Holds(u) <=> u = t
  BY <1>1 DEF IInv, MutualExclusion
<1>4. \A u \in Threads : Holds(u)' <=> u = t
  BY <1>2, <1>3, SyncAssumption DEF CndWait, Holds
<1>5. DepthOf(t)' = DepthOf(t)
  BY <1>1, <1>2 DEF DepthOf, CndWait, Call
<1>6. \A u \in Threads : /\ Waiting(u)' <=> Waiting(u)
                         /\ Waiting(u) => saved'[u] = saved[u]
  BY <1>1, <1>2 DEF Waiting, CndWait
<1> QED
  BY <1>3, <1>4, <1>5, <1>6, Stutters DEF CndWait

\* Moving among the places where a thread does not hold the word, and no
\* more than that, is no step of the monitor.
LEMMA MovesSimulated ==
    ASSUME IInv, IInv', UNCHANGED <<owner, count, saved, signalled>>,
           \A u \in Threads : \/ pc'[u] = pc[u]
                              \/ /\ pc[u] \notin {"own", "release"}
                                 /\ pc'[u] \notin {"own", "release"}
    PROVE  UNCHANGED Abstract!mvars
<1>1. \A u \in Threads : /\ Holds(u)' <=> Holds(u)
                         /\ DepthOf(u)' = DepthOf(u)
                         /\ Waiting(u)' <=> Waiting(u)
  BY DEF Holds, DepthOf, Waiting
<1> QED
  BY <1>1, Stutters

\* Each call, and each atomic operation or system call within one, is a step
\* of the monitor or none.
LEMMA StepSimulated ==
    IInv /\ IInv' /\ [Next]_vars => [Abstract!MNext]_Abstract!mvars
<1> SUFFICES ASSUME IInv, IInv', [Next]_vars
             PROVE  Abstract!MNext \/ UNCHANGED Abstract!mvars
  OBVIOUS
<1>1. ASSUME NEW t \in Threads, MtxLock(t) \/ MtxTrylock(t)
      PROVE  Abstract!MNext \/ UNCHANGED Abstract!mvars
  <2>1. CASE LockAgain(t)
    <3>1. UNCHANGED <<owner, saved>>
      BY <1>1 DEF MtxLock, MtxTrylock
    <3> QED
      BY <2>1, <3>1, LockAgainSimulated DEF Abstract!MNext
  <2>2. CASE Acquired(t) /\ ~LockAgain(t)
    <3>1. /\ lock = 0 /\ pc[t] = "out"
          /\ UNCHANGED <<owner, count, saved>>
      BY <1>1, <2>2 DEF MtxLock, MtxTrylock, Call, Acquired, Goto, IInv, TypeOK
    <3> QED
      BY <2>2, <3>1, AcquiredSimulated DEF Abstract!MNext
  <2>3. CASE ~Acquired(t) /\ ~LockAgain(t)
    <3>1. /\ UNCHANGED <<owner, count, saved, signalled>>
          /\ pc[t] = "out" /\ (pc' = pc \/ Goto(t, "acquire"))
      BY <1>1, <2>3 DEF MtxLock, MtxTrylock, Call
    <3>2. \A u \in Threads : \/ pc'[u] = pc[u]
                             \/ pc[u] = "out" /\ pc'[u] = "acquire"
      BY <3>1 DEF Goto, IInv, TypeOK
    <3> QED
      BY <3>1, <3>2, MovesSimulated
  <2> QED
    BY <2>1, <2>2, <2>3
<1>2. ASSUME NEW t \in Threads, Acquire(t) \/ Exchange(t)
      PROVE  Abstract!MNext \/ UNCHANGED Abstract!mvars
  <2>1. UNCHANGED <<owner, count, saved>>
    BY <1>2 DEF Acquire, Exchange
  <2>2. CASE lock = 0
    <3>1. Acquired(t) /\ pc[t] \in {"acquire", "exchange"}
      BY <1>2, <2>2 DEF Acquire, Exchange
    <3> QED
      BY <2>1, <2>2, <3>1, AcquiredSimulated DEF Abstract!MNext
  <2>3. CASE lock # 0
    <3>1. \A u \in Threads : \/ pc'[u] = pc[u]
                             \/ /\ pc[u] \in {"acquire", "exchange"}
                                /\ pc'[u] \in {"exchange", "fwait"}
      BY <1>2, <2>3 DEF Acquire, Exchange, Goto, IInv, TypeOK
    <3>2. signalled' = signalled
      BY <1>2, <2>3 DEF Acquire, Exchange
    <3> QED
      BY <2>1, <3>1, <3>2, MovesSimulated
  <2> QED
    BY <2>2, <2>3
<1>3. ASSUME NEW t \in Threads,
             \/ FutexWait(t) \/ Interrupt(t) \/ Wake(t) \/ CndFutexWait(t)
             \/ BroadcastWake(t)
      PROVE  UNCHANGED Abstract!mvars
  <2>1. UNCHANGED <<owner, count, saved, signalled>>
    BY <1>3 DEF FutexWait, Interrupt, Wake, CndFutexWait, BroadcastWake
  <2>2. \A u \in Threads : \/ pc'[u] = pc[u]
                           \/ /\ pc[u] \notin {"own", "release"}
                              /\ pc'[u] \notin {"own", "release"}
    BY <1>3
       DEF FutexWait, Interrupt, Wake, CndFutexWait, BroadcastWake, Goto,
           AfterRelease, IInv, TypeOK
  <2> QED
    BY <2>1, <2>2, MovesSimulated
<1>4. ASSUME NEW t \in Threads, CndBroadcast(t) PROVE Abstract!MNext
  <2>1. /\ UNCHANGED <<owner, count, saved>>
        /\ pc[t] = "out" /\ pc'[t] = "b_wake"
        /\ \A u \in Threads : u # t => pc'[u] = pc[u]
    BY <1>4 DEF CndBroadcast, Goto, IInv, TypeOK
  <2>2. \A u \in Threads : /\ Holds(u)' <=> Holds(u)
                           /\ DepthOf(u)' = DepthOf(u)
                           /\ Waiting(u)' <=> Waiting(u)
    BY <2>1 DEF Holds, DepthOf, Waiting, IInv, WaitInv
  <2>3. HolderOrNone' = HolderOrNone
    BY <2>2, HolderIs, HolderIsNext DEF IInv
  <2>4. HolderOrNone \in Threads \cup {NoThread}
    BY DEF HolderOrNone
  <2>5. HolderOrNone # NoThread =>
            DepthOf(HolderOrNone)' = DepthOf(HolderOrNone)
    BY <2>1, <2>3, <2>4 DEF DepthOf
  <2>6. signalled' = {u \in Threads : Waiting(u)}
    BY <1>4 DEF CndBroadcast
  <2>7. \A u \in Threads : Waiting(u) <=> saved[u] > 0 /\ Waiting(u)
    BY DEF Waiting
  <2>8. Abstract!NotifyAll
    BY <2>1, <2>2, <2>3, <2>5, <2>6, <2>7 DEF Abstract!NotifyAll
  <2> QED
    BY <2>8 DEF Abstract!MNext
<1>5. CASE UNCHANGED vars
  BY <1>5, MovesSimulated DEF vars
<1> QED
  BY <1>1, <1>2, <1>3, <1>4, <1>5, ReleaseSimulated, MtxUnlockSimulated,
     TakeOwnershipSimulated, CndWaitSimulated
     DEF Next, Progress, Choice, Abstract!MNext

\* The futex mutex and condition variable implement the monitor the C++
\* headers expect, for any number of threads and calls.
THEOREM Refinement == Spec => ImplementsMonitor
<1>1. Init => Abstract!MInit
  <2> SUFFICES ASSUME Init PROVE Abstract!MInit
    OBVIOUS
  <2>1. \A t \in Threads : t # NoThread /\ pc[t] = "out" /\ saved[t] = 0
    BY SyncAssumption DEF Init
  <2>2. ASSUME NEW t \in Threads PROVE ~Holds(t) /\ ~Waiting(t)
    <3>1. owner # t /\ pc[t] \notin {"own", "release"} /\ ~(saved[t] > 0)
      BY <2>1 DEF Init
    <3> QED
      BY <3>1 DEF Holds, Waiting
  <2>3. HolderOrNone = NoThread
    BY <2>2, HolderIs
  <2> QED
    BY <2>3 DEF Init, Abstract!MInit
<1> QED
  BY <1>1, Invariance, StepSimulated, PTL
     DEF Spec, ImplementsMonitor, Abstract!MSpec

=============================================================================

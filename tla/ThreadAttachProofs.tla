------------------------- MODULE ThreadAttachProofs -------------------------
(***************************************************************************)
(* Proofs about ThreadAttach: what holds for any set of threads and        *)
(* images, any size of the image list and any number of loads.             *)
(***************************************************************************)
EXTENDS ThreadAttach, FiniteSetTheorems, TLAPS

\* Why thread t need not be notified of image i any more.
Settled(t, i) == i \in attached[t] \/ i \in disabled \/ MayMiss(i)

\* The lock is held exactly in the locked places.
LockInv == \A t \in Threads : pc[t] \in Locked <=> loader = t

\* The list: slots are distinct, the generation counts them, and a pending
\* attach, of which there is at most one, has a slot reserved.
ListInv ==
    /\ generation = count + 1
    /\ \A i \in Images : slot[i] <= count
    /\ IsFiniteSet(Registered) /\ Cardinality(Registered) = count
    /\ count + pending <= MaxImages
    /\ \A t \in Threads : pc[t] \in {"loading", "dllmain_process"} => pending = 1
    /\ (\A t \in Threads : pc[t] \notin {"loading", "dllmain_process"}) =>
           pending = 0

\* The image under way is new while it loads and registered in a notification.
CurInv == \A t \in Threads :
    /\ pc[t] \in {"loading", "dllmain_process", "dllmain_undo"} =>
           cur[t] \in Images /\ slot[cur[t]] = 0
    /\ pc[t] \in {"dllmain_attach", "dllmain_detach"} => cur[t] \in Registered
    /\ pc[t] \in DllMain => cur[t] \in attached[t]
    /\ pc[t] \in {"dllmain_detach", "dllmain_undo"} => cur[t] \notin inside[t]

\* What a thread refers to, and what the DllMains believe of it.
UserInv == \A t \in Threads :
    /\ attached[t] \subseteq Registered \cup Attaching(t)
    /\ todo[t] \subseteq Registered
    /\ tls[t] = attached[t] \cap TlsImages
    /\ inside[t] \subseteq Registered \cup Attaching(t)
    /\ inside[t] \subseteq attached[t] \cup disabled
    /\ pc[t] \in {"attaching", "dllmain_attach"} =>
           inside[t] \subseteq attached[t] \cup off[t]
    /\ pc[t] \in {"attaching", "dllmain_attach", "detaching",
                  "dllmain_detach"} =>
           off[t] \cap Registered \subseteq disabled

\* How far a detach pass has come.
DetachInv == \A t \in Threads :
    /\ pc[t] = "detaching" => attached[t] \subseteq todo[t]
    /\ pc[t] = "dllmain_detach" =>
           /\ attached[t] \subseteq todo[t] \cup {cur[t]}
           /\ \A j \in todo[t] : slot[j] <= slot[cur[t]]
    /\ pc[t] = "drain" \/ ctx[t] = "none" => attached[t] = {}
    /\ pc[t] \in {"unborn", "starting", "exited"} => ctx[t] = "none"
    /\ pc[t] \in {"exiting", "detaching", "dllmain_detach", "drain"} <=>
           ctx[t] = "cleaning"
    /\ pc[t] \in (Locked \ {"held", "release"}) \cup {"ensure", "attached"}
           => ctx[t] # "none"

\* How far an attach pass has come, and what a generation stands for.
AttachInv == \A t \in Threads :
    /\ seen[t] <= generation /\ gen[t] <= generation
    /\ pc[t] \in {"attaching", "dllmain_attach"} =>
           \A i \in Registered : i \in todo[t] \/ Settled(t, i)
    /\ pc[t] = "dllmain_attach" =>
           \A j \in todo[t] : slot[j] >= slot[cur[t]]
    /\ pc[t] = "attached" =>
           \A i \in Registered : slot[i] < seen[t] => Settled(t, i)
    /\ ctx[t] # "cleaning" =>
           \A i \in Registered : slot[i] < gen[t] => Settled(t, i)

\* The inductive invariant.
IInv ==
    /\ TypeOK
    /\ LockInv
    /\ ListInv
    /\ CurInv
    /\ UserInv
    /\ DetachInv
    /\ AttachInv

\* The table of a thread about to attach one more image is not full: what it
\* holds is registered, and a slot of the list is reserved for the rest.
LEMMA Room == IInv => RoomToAttach
<1> SUFFICES ASSUME IInv, NEW t \in Threads,
                    \/ pc[t] = "loading"
                    \/ pc[t] = "attaching" /\ ~(todo[t] \subseteq attached[t])
             PROVE  Cardinality(attached[t]) < MaxImages
  BY DEF RoomToAttach, CanInitialize
<1>1. attached[t] \subseteq Registered
  BY DEF IInv, UserInv, Attaching
<1>2. /\ IsFiniteSet(attached[t])
      /\ Cardinality(attached[t]) <= Cardinality(Registered)
      /\ Cardinality(attached[t]) = Cardinality(Registered) => attached[t] = Registered
  BY <1>1, FS_Subset DEF IInv, ListInv
<1>3. Cardinality(attached[t]) \in Nat /\ Cardinality(Registered) \in Nat
  BY <1>2, FS_CardinalityType DEF IInv, ListInv
<1>4. CASE pc[t] = "loading"
  BY <1>2, <1>3, <1>4, SizesAssumption DEF IInv, TypeOK, ListInv
<1>5. CASE pc[t] = "attaching" /\ ~(todo[t] \subseteq attached[t])
  <2>1. attached[t] # Registered
    BY <1>5 DEF IInv, UserInv
  <2>2. Cardinality(attached[t]) < Cardinality(Registered)
    BY <1>2, <1>3, <2>1
  <2> QED
    BY <1>3, <2>2, SizesAssumption DEF IInv, TypeOK, ListInv
<1> QED
  BY <1>4, <1>5

\* Taking the lock to load changes the owner and one place only.
LEMMA LoadLockPreserves ==
    ASSUME NEW t \in Threads, IInv, LoadLock(t)
    PROVE  IInv'
<1> USE ThreadsAssumption, ImagesAssumption, SizesAssumption
<1> USE DEF LoadLock, Move, Goto, Runs, lock, list, context, pass, call
<1>1. TypeOK'
  BY DEF IInv, TypeOK, Places, Locked, DllMain, LockInv, ListInv, CurInv,
         Registered
<1>2. LockInv'
  BY DEF IInv, TypeOK, LockInv, Locked
<1>3. ListInv'
  BY DEF IInv, ListInv, Registered
<1>4. CurInv'
  BY DEF IInv, CurInv, Locked, DllMain, Registered, UserInv, Attaching
<1>5. UserInv'
  BY DEF IInv, UserInv, Attaching, DetachInv, Locked, DllMain, Registered
<1>6. DetachInv'
  BY DEF IInv, DetachInv
<1>7. AttachInv'
  BY DEF IInv, AttachInv, Settled, Registered
<1> QED
  BY <1>1, <1>2, <1>3, <1>4, <1>5, <1>6, <1>7 DEF IInv

\* The loading thread attaches to an image no list holds yet, or gives
\* its reserved slot back.
LEMMA ProcessAttachPreserves ==
    ASSUME NEW t \in Threads, IInv, ProcessAttach(t)
    PROVE  IInv'
<1> USE ThreadsAssumption, ImagesAssumption, SizesAssumption
<1> USE DEF ProcessAttach, Initialize, MayNotInitialize, Move, Goto, Runs,
            lock, list, context, pass, call
<1>1. TypeOK'
  BY DEF IInv, TypeOK, Places, Locked, DllMain, LockInv, ListInv, CurInv,
         Registered
<1>2. LockInv'
  BY DEF IInv, TypeOK, LockInv, Locked, DllMain
<1>3. ListInv'
  <2>1. Registered' = Registered /\ pending = 1
    BY DEF IInv, ListInv, Registered
  <2>2. \A v \in Threads : v # t => pc'[v] \notin {"loading", "dllmain_process"}
    BY DEF IInv, TypeOK, LockInv, Locked, DllMain
  <2>3. CASE pc'[t] = "dllmain_process"
    BY <2>1, <2>2, <2>3 DEF IInv, TypeOK, ListInv
  <2>4. CASE pc'[t] = "release"
    BY <2>1, <2>2, <2>4 DEF IInv, TypeOK, ListInv
  <2> QED
    BY <2>3, <2>4 DEF IInv, TypeOK
<1>4. CurInv'
  BY DEF IInv, TypeOK, CurInv, Locked, DllMain, Registered, UserInv, Attaching
<1>5. UserInv'
  BY DEF IInv, TypeOK, UserInv, Attaching, DetachInv, Locked, DllMain,
         Registered
<1>6. DetachInv'
  BY DEF IInv, TypeOK, DetachInv, Locked
<1>7. AttachInv'
  BY DEF IInv, TypeOK, AttachInv, Settled, MayMiss, Registered
<1> QED
  BY <1>1, <1>2, <1>3, <1>4, <1>5, <1>6, <1>7 DEF IInv

\* The image enters the list in the slot that was reserved for it; its
\* number is above every generation a thread holds.
LEMMA FinishAttachedPreserves ==
    ASSUME NEW t \in Threads, IInv, FinishAttached(t)
    PROVE  IInv'
<1> USE ThreadsAssumption, ImagesAssumption, SizesAssumption
<1> USE DEF FinishAttached, Move, Goto, Runs, lock, list, context, pass, call
<1>1. TypeOK'
  BY DEF IInv, TypeOK, Places, Locked, DllMain, LockInv, ListInv, CurInv,
         Registered
<1>2. LockInv'
  BY DEF IInv, LockInv, Locked, DllMain
<1>3. ListInv'
  <2>1. /\ cur[t] \in Images /\ slot[cur[t]] = 0 /\ cur[t] \notin Registered
        /\ pending = 1
    BY DEF IInv, ListInv, CurInv, Registered
  <2>2. Registered' = Registered \cup {cur[t]}
    BY <2>1 DEF IInv, TypeOK, Registered
  <2>3. IsFiniteSet(Registered') /\ Cardinality(Registered') = count + 1
    BY <2>1, <2>2, FS_AddElement DEF IInv, ListInv
  <2>4. \A v \in Threads : pc'[v] \notin {"loading", "dllmain_process"}
    BY DEF IInv, TypeOK, LockInv, Locked, DllMain
  <2> QED
    BY <2>3, <2>4 DEF IInv, TypeOK, ListInv
<1>4. CurInv'
  BY DEF IInv, TypeOK, LockInv, CurInv, Locked, DllMain, Registered, UserInv,
         Attaching
<1>5. UserInv'
  BY DEF IInv, TypeOK, LockInv, UserInv, Attaching, DetachInv, Locked, DllMain,
         Registered
<1>6. DetachInv'
  BY DEF IInv, LockInv, DetachInv, Locked, DllMain
<1>7. AttachInv'
  BY DEF IInv, TypeOK, LockInv, ListInv, AttachInv, Settled, Locked, DllMain,
         Registered
<1> QED
  BY <1>1, <1>2, <1>3, <1>4, <1>5, <1>6, <1>7 DEF IInv

\* A refused image was never registered, so only its loader refers to it.
LEMMA FinishRefusedPreserves ==
    ASSUME NEW t \in Threads, IInv, FinishRefused(t)
    PROVE  IInv'
<1> USE ThreadsAssumption, ImagesAssumption, SizesAssumption
<1> USE DEF FinishRefused, Move, Goto, Runs, lock, list, context, pass, call
<1>1. TypeOK'
  BY DEF IInv, TypeOK, Places, Locked, DllMain, LockInv, ListInv, CurInv,
         Registered
<1>2. LockInv'
  BY DEF IInv, LockInv, Locked, DllMain
<1>3. ListInv'
  BY DEF IInv, TypeOK, ListInv, LockInv, Locked, DllMain, Registered
<1>4. CurInv'
  BY DEF IInv, TypeOK, CurInv, Locked, DllMain, Registered, UserInv, Attaching
<1>5. UserInv'
  BY DEF IInv, UserInv, Attaching, DetachInv, Locked, DllMain, Registered
<1>6. DetachInv'
  BY <1>4 DEF IInv, CurInv, DetachInv, Locked
<1>7. AttachInv'
  BY DEF IInv, AttachInv, Settled, Registered
<1> QED
  BY <1>1, <1>2, <1>3, <1>4, <1>5, <1>6, <1>7 DEF IInv

\* The loader of a refused image lets go of it: nobody refers to it.
LEMMA DiscardImagePreserves ==
    ASSUME NEW t \in Threads, IInv, DiscardImage(t)
    PROVE  IInv'
<1> USE ThreadsAssumption, ImagesAssumption, SizesAssumption
<1> USE DEF DiscardImage, Detach, Move, Goto, Runs, lock, list, context, pass,
            call
<1>1. TypeOK'
  BY DEF IInv, TypeOK, Places, Locked, DllMain, LockInv, ListInv, CurInv,
         Registered
<1>2. LockInv'
  BY DEF IInv, LockInv, Locked, DllMain
<1>3. ListInv'
  BY DEF IInv, ListInv, Registered
<1>4. CurInv'
  BY DEF IInv, TypeOK, CurInv, Locked, DllMain, Registered, UserInv, Attaching
<1>5. UserInv'
  BY DEF IInv, TypeOK, CurInv, UserInv, Attaching, DetachInv, Locked, DllMain,
         Registered
<1>6. DetachInv'
  BY DEF IInv, DetachInv
<1>7. AttachInv'
  BY DEF IInv, CurInv, AttachInv, Settled, Registered
<1> QED
  BY <1>1, <1>2, <1>3, <1>4, <1>5, <1>6, <1>7 DEF IInv

\* Giving the lock back disturbs no image and no table.
LEMMA LoadUnlockPreserves ==
    ASSUME NEW t \in Threads, IInv, LoadUnlock(t)
    PROVE  IInv'
<1> USE ThreadsAssumption, ImagesAssumption, SizesAssumption
<1> USE DEF LoadUnlock, Move, Goto, Runs, lock, list, context, pass, call
<1>1. TypeOK'
  BY DEF IInv, TypeOK, Places
<1>2. LockInv'
  BY DEF IInv, TypeOK, LockInv, Locked, DllMain
<1>3. ListInv'
  BY DEF IInv, ListInv, Registered
<1>4. CurInv'
  BY DEF IInv, CurInv, Locked, DllMain, Registered, UserInv, Attaching
<1>5. UserInv'
  BY DEF IInv, UserInv, Attaching, DetachInv, Locked, DllMain, Registered
<1>6. DetachInv'
  BY <1>4 DEF IInv, CurInv, DetachInv, Locked
<1>7. AttachInv'
  BY DEF IInv, AttachInv, Settled, Registered
<1> QED
  BY <1>1, <1>2, <1>3, <1>4, <1>5, <1>6, <1>7 DEF IInv

\* The generation read without the lock is at most the current one.
LEMMA EnsureBeginPreserves ==
    ASSUME NEW t \in Threads, IInv, EnsureBegin(t)
    PROVE  IInv'
<1> USE ThreadsAssumption, ImagesAssumption, SizesAssumption
<1> USE DEF EnsureBegin, Move, Goto, Runs, lock, list, context, pass, call
<1>1. TypeOK'
  BY DEF IInv, TypeOK, Places
<1>2. LockInv'
  BY DEF IInv, TypeOK, LockInv, Locked, DllMain
<1>3. ListInv'
  BY DEF IInv, TypeOK, ListInv, LockInv, Locked, DllMain, Registered
<1>4. CurInv'
  BY DEF IInv, TypeOK, CurInv, Locked, DllMain, Registered, UserInv, Attaching
<1>5. UserInv'
  BY DEF IInv, TypeOK, UserInv, Attaching, DetachInv, Locked, DllMain,
         Registered
<1>6. DetachInv'
  BY DEF IInv, TypeOK, DetachInv
<1>7. AttachInv'
  BY DEF IInv, TypeOK, AttachInv, DetachInv, Settled, MayMiss, Locked, DllMain,
         Registered
<1> QED
  BY <1>1, <1>2, <1>3, <1>4, <1>5, <1>6, <1>7 DEF IInv

\* A snapshot under the lock is the whole list, all of it to be visited.
LEMMA NotifyAttachPreserves ==
    ASSUME NEW t \in Threads, IInv, NotifyAttach(t)
    PROVE  IInv'
<1> USE ThreadsAssumption, ImagesAssumption, SizesAssumption
<1> USE DEF NotifyAttach, Snapshot, Move, Goto, Runs, lock, list, context,
            pass, call
<1>1. TypeOK'
  BY DEF IInv, TypeOK, Places, Locked, DllMain, LockInv, ListInv, CurInv,
         Registered
<1>2. LockInv'
  BY DEF IInv, TypeOK, LockInv, Locked
<1>3. ListInv'
  BY DEF IInv, ListInv, Registered
<1>4. CurInv'
  BY DEF IInv, CurInv, Locked, DllMain, Registered, UserInv, Attaching
<1>5. UserInv'
  BY DEF IInv, TypeOK, UserInv, Attaching, DetachInv, Locked, DllMain,
         Registered
<1>6. DetachInv'
  BY DEF IInv, DetachInv
<1>7. AttachInv'
  BY DEF IInv, TypeOK, AttachInv, Settled, Registered
<1> QED
  BY <1>1, <1>2, <1>3, <1>4, <1>5, <1>6, <1>7 DEF IInv

\* The image visited is attached, was already, asked not to be told, or
\* has no TLS block: it is settled, and the older ones were before it.
LEMMA AttachNextPreserves ==
    ASSUME NEW t \in Threads, IInv, AttachNext(t)
    PROVE  IInv'
<1> USE ThreadsAssumption, ImagesAssumption, SizesAssumption
<1> USE DEF AttachNext, Initialize, Oldest, Move, Goto, Runs, lock, list,
            context, pass, call
<1>1. TypeOK'
  BY DEF IInv, TypeOK, Places, Locked, DllMain, LockInv, ListInv, CurInv,
         Registered
<1>2. LockInv'
  BY DEF IInv, TypeOK, LockInv, Locked, DllMain
<1>3. ListInv'
  BY DEF IInv, TypeOK, ListInv, LockInv, Locked, DllMain, Registered
<1>4. CurInv'
  BY DEF IInv, TypeOK, CurInv, Locked, DllMain, Registered, UserInv, Attaching
<1>5. UserInv'
  BY DEF IInv, TypeOK, UserInv, Attaching, DetachInv, Locked, DllMain,
         Registered
<1>6. DetachInv'
  BY DEF IInv, TypeOK, DetachInv, Locked
<1>7. AttachInv'
  <2>1. PICK i \in Oldest(t) :
          /\ todo' = [todo EXCEPT ![t] = @ \ {i}]
          /\ \/ /\ i \notin attached[t] /\ i \notin off[t]
                /\ Initialize(t, i)
                /\ Goto(t, "dllmain_attach")
             \/ /\ \/ i \in attached[t]
                   \/ i \in off[t]
                   \/ MayNotInitialize(t, i)
                /\ UNCHANGED <<attached, tls, inside, cur, pc>>
    OBVIOUS
  <2>2. i \in todo[t] /\ i \in Registered /\ \A j \in todo[t] : slot[i] <= slot[j]
    BY DEF IInv, UserInv
  <2>3. i \notin attached[t] => CanInitialize(t)
    BY Room DEF RoomToAttach
  <2>4. Settled(t, i)'
    BY <2>1, <2>3 DEF IInv, TypeOK, UserInv, Settled, MayMiss, MayNotInitialize
  <2>5. \A v \in Threads, j \in Images : Settled(v, j) => Settled(v, j)'
    BY DEF IInv, TypeOK, Settled
  <2>6. Registered' = Registered
    BY DEF Registered
  <2> QED
    BY <2>1, <2>4, <2>5 DEF IInv, TypeOK, AttachInv, Registered
<1> QED
  BY <1>1, <1>2, <1>3, <1>4, <1>5, <1>6, <1>7 DEF IInv

\* The return of DllMain leaves the rest of the pass to be done.
LEMMA AttachReturnsPreserves ==
    ASSUME NEW t \in Threads, IInv, AttachReturns(t)
    PROVE  IInv'
<1> USE ThreadsAssumption, ImagesAssumption, SizesAssumption
<1> USE DEF AttachReturns, Move, Goto, Runs, lock, list, context, pass, call
<1>1. TypeOK'
  BY DEF IInv, TypeOK, Places, Locked, DllMain, LockInv, ListInv, CurInv,
         Registered
<1>2. LockInv'
  BY DEF IInv, LockInv, Locked, DllMain
<1>3. ListInv'
  BY DEF IInv, ListInv, Registered
<1>4. CurInv'
  BY DEF IInv, TypeOK, CurInv, Locked, DllMain, Registered, UserInv, Attaching
<1>5. UserInv'
  BY DEF IInv, UserInv, Attaching, DetachInv, Locked, DllMain, Registered
<1>6. DetachInv'
  BY DEF IInv, CurInv, DetachInv, DllMain
<1>7. AttachInv'
  BY DEF IInv, TypeOK, AttachInv, Settled, Registered
<1> QED
  BY <1>1, <1>2, <1>3, <1>4, <1>5, <1>6, <1>7 DEF IInv

\* At the end of a pass every image that was in the list is settled.
LEMMA AttachUnlockPreserves ==
    ASSUME NEW t \in Threads, IInv, AttachUnlock(t)
    PROVE  IInv'
<1> USE ThreadsAssumption, ImagesAssumption, SizesAssumption
<1> USE DEF AttachUnlock, Move, Goto, Runs, lock, list, context, pass, call
<1>1. TypeOK'
  BY DEF IInv, TypeOK, Places
<1>2. LockInv'
  BY DEF IInv, TypeOK, LockInv, Locked, DllMain
<1>3. ListInv'
  BY DEF IInv, ListInv, Registered
<1>4. CurInv'
  BY DEF IInv, CurInv, Locked, DllMain, Registered, UserInv, Attaching
<1>5. UserInv'
  BY DEF IInv, TypeOK, UserInv, Attaching, DetachInv, Locked, DllMain,
         Registered
<1>6. DetachInv'
  BY DEF IInv, DetachInv, Locked
<1>7. AttachInv'
  BY DEF IInv, AttachInv, Settled, Registered
<1> QED
  BY <1>1, <1>2, <1>3, <1>4, <1>5, <1>6, <1>7 DEF IInv

\* The generation stored was read before the snapshot was taken: what it
\* stands for was in the list, hence settled.
LEMMA StoreGenerationPreserves ==
    ASSUME NEW t \in Threads, IInv, StoreGeneration(t)
    PROVE  IInv'
<1> USE ThreadsAssumption, ImagesAssumption, SizesAssumption
<1> USE DEF StoreGeneration, Move, Goto, Runs, lock, list, context, pass, call
<1>1. TypeOK'
  BY DEF IInv, TypeOK, Places
<1>2. LockInv'
  BY DEF IInv, LockInv, Locked, DllMain
<1>3. ListInv'
  BY DEF IInv, ListInv, Registered
<1>4. CurInv'
  BY DEF IInv, CurInv, Locked, DllMain, Registered, UserInv, Attaching
<1>5. UserInv'
  BY DEF IInv, UserInv, Attaching, DetachInv, Locked, DllMain, Registered
<1>6. DetachInv'
  BY DEF IInv, DetachInv
<1>7. AttachInv'
  BY DEF IInv, TypeOK, AttachInv, Settled, Registered
<1> QED
  BY <1>1, <1>2, <1>3, <1>4, <1>5, <1>6, <1>7 DEF IInv

\* A wrapper that returns changes only where its thread is.
LEMMA CallReturnsPreserves ==
    ASSUME NEW t \in Threads, IInv, CallReturns(t)
    PROVE  IInv'
<1> USE ThreadsAssumption, ImagesAssumption, SizesAssumption
<1> USE DEF CallReturns, Move, Goto, Runs, lock, list, context, pass, call
<1>1. TypeOK'
  BY DEF IInv, TypeOK, Places
<1>2. LockInv'
  BY DEF IInv, LockInv, Locked, DllMain
<1>3. ListInv'
  BY DEF IInv, ListInv, Registered
<1>4. CurInv'
  BY DEF IInv, CurInv, Locked, DllMain, Registered, UserInv, Attaching
<1>5. UserInv'
  BY DEF IInv, UserInv, Attaching, DetachInv, Locked, DllMain, Registered
<1>6. DetachInv'
  BY <1>4 DEF IInv, CurInv, DetachInv, Locked
<1>7. AttachInv'
  BY DEF IInv, AttachInv, Settled, Registered
<1> QED
  BY <1>1, <1>2, <1>3, <1>4, <1>5, <1>6, <1>7 DEF IInv

\* A created thread begins with an empty context and generation zero.
LEMMA PublishThreadIdPreserves ==
    ASSUME NEW t \in Threads, IInv, PublishThreadId(t)
    PROVE  IInv'
<1> USE ThreadsAssumption, ImagesAssumption, SizesAssumption
<1> USE DEF PublishThreadId, Move, Goto, Runs, lock, list, context, pass, call
<1>1. TypeOK'
  BY DEF IInv, TypeOK, Places
<1>2. LockInv'
  BY DEF IInv, LockInv, Locked, DllMain
<1>3. ListInv'
  BY DEF IInv, ListInv, Registered
<1>4. CurInv'
  BY DEF IInv, CurInv, Locked, DllMain, Registered, UserInv, Attaching
<1>5. UserInv'
  BY DEF IInv, UserInv, Attaching, DetachInv, Locked, DllMain, Registered
<1>6. DetachInv'
  BY DEF IInv, TypeOK, DetachInv
<1>7. AttachInv'
  BY DEF IInv, AttachInv, DetachInv, Settled, MayMiss, Locked, DllMain,
         Registered
<1> QED
  BY <1>1, <1>2, <1>3, <1>4, <1>5, <1>6, <1>7 DEF IInv

\* The wait for an id ends; nothing it protects depends on it.
LEMMA CreateThreadReturnsPreserves ==
    ASSUME NEW t \in Threads, IInv, CreateThreadReturns(t)
    PROVE  IInv'
<1> USE ThreadsAssumption, ImagesAssumption, SizesAssumption
<1> USE DEF CreateThreadReturns, Move, Goto, Runs, lock, list, context, pass,
            call
<1>1. TypeOK'
  BY DEF IInv, TypeOK
<1>2. LockInv'
  BY DEF IInv, LockInv
<1>3. ListInv'
  BY DEF IInv, ListInv, Registered
<1>4. CurInv'
  BY DEF IInv, CurInv, Locked, DllMain, Registered, UserInv, Attaching
<1>5. UserInv'
  BY DEF IInv, UserInv, Attaching, DetachInv, Locked, DllMain, Registered
<1>6. DetachInv'
  BY DEF IInv, DetachInv
<1>7. AttachInv'
  BY DEF IInv, AttachInv, Settled, Registered
<1> QED
  BY <1>1, <1>2, <1>3, <1>4, <1>5, <1>6, <1>7 DEF IInv

\* A leaving thread marks its context before it takes the lock.
LEMMA CleanupBeginPreserves ==
    ASSUME NEW t \in Threads, IInv, CleanupBegin(t)
    PROVE  IInv'
<1> USE ThreadsAssumption, ImagesAssumption, SizesAssumption
<1> USE DEF CleanupBegin, Move, Goto, Runs, lock, list, context, pass, call
<1>1. TypeOK'
  BY DEF IInv, TypeOK, Places
<1>2. LockInv'
  BY DEF IInv, TypeOK, LockInv, Locked, DllMain
<1>3. ListInv'
  BY DEF IInv, TypeOK, ListInv, LockInv, Locked, DllMain, Registered
<1>4. CurInv'
  BY DEF IInv, TypeOK, CurInv, Locked, DllMain, Registered, UserInv, Attaching
<1>5. UserInv'
  BY DEF IInv, TypeOK, UserInv, Attaching, DetachInv, Locked, DllMain,
         Registered
<1>6. DetachInv'
  BY <1>4 DEF IInv, TypeOK, CurInv, DetachInv, Locked
<1>7. AttachInv'
  BY DEF IInv, TypeOK, AttachInv, Settled, Registered
<1> QED
  BY <1>1, <1>2, <1>3, <1>4, <1>5, <1>6, <1>7 DEF IInv

\* The snapshot of a leaving thread holds every image it is attached to.
LEMMA NotifyDetachPreserves ==
    ASSUME NEW t \in Threads, IInv, NotifyDetach(t)
    PROVE  IInv'
<1> USE ThreadsAssumption, ImagesAssumption, SizesAssumption
<1> USE DEF NotifyDetach, Snapshot, Move, Goto, Runs, lock, list, context,
            pass, call
<1>1. TypeOK'
  BY DEF IInv, TypeOK, Places, Locked, DllMain, LockInv, ListInv, CurInv,
         Registered
<1>2. LockInv'
  BY DEF IInv, TypeOK, LockInv, Locked
<1>3. ListInv'
  BY DEF IInv, ListInv, Registered
<1>4. CurInv'
  BY DEF IInv, CurInv, Locked, DllMain, Registered, UserInv, Attaching
<1>5. UserInv'
  BY DEF IInv, TypeOK, UserInv, Attaching, DetachInv, Locked, DllMain,
         Registered
<1>6. DetachInv'
  BY DEF IInv, TypeOK, UserInv, Attaching, DetachInv, Locked, DllMain,
         Registered
<1>7. AttachInv'
  BY DEF IInv, AttachInv, Settled, Registered
<1> QED
  BY <1>1, <1>2, <1>3, <1>4, <1>5, <1>6, <1>7 DEF IInv

\* Whatever a detach pass leaves behind it is detached, newest first.
LEMMA DetachNextPreserves ==
    ASSUME NEW t \in Threads, IInv, DetachNext(t)
    PROVE  IInv'
<1> USE ThreadsAssumption, ImagesAssumption, SizesAssumption
<1> USE DEF DetachNext, Detach, Newest, Move, Goto, Runs, lock, list, context,
            pass, call
<1>1. TypeOK'
  BY DEF IInv, TypeOK, Places, Locked, DllMain, LockInv, ListInv, CurInv,
         Registered
<1>2. LockInv'
  BY DEF IInv, TypeOK, LockInv, Locked, DllMain
<1>3. ListInv'
  BY DEF IInv, TypeOK, ListInv, LockInv, Locked, DllMain, Registered
<1>4. CurInv'
  BY DEF IInv, TypeOK, CurInv, Locked, DllMain, Registered, UserInv, Attaching
<1>5. UserInv'
  BY DEF IInv, TypeOK, UserInv, Attaching, DetachInv, Locked, DllMain,
         Registered
<1>6. DetachInv'
  BY DEF IInv, TypeOK, DetachInv
<1>7. AttachInv'
  BY DEF IInv, TypeOK, UserInv, AttachInv, Settled, Registered
<1> QED
  BY <1>1, <1>2, <1>3, <1>4, <1>5, <1>6, <1>7 DEF IInv

\* The TLS block is freed after the DllMain that may use it.
LEMMA DetachReturnsPreserves ==
    ASSUME NEW t \in Threads, IInv, DetachReturns(t)
    PROVE  IInv'
<1> USE ThreadsAssumption, ImagesAssumption, SizesAssumption
<1> USE DEF DetachReturns, Detach, Move, Goto, Runs, lock, list, context, pass,
            call
<1>1. TypeOK'
  BY DEF IInv, TypeOK, Places, Locked, DllMain, LockInv, ListInv, CurInv,
         Registered
<1>2. LockInv'
  BY DEF IInv, LockInv, Locked, DllMain
<1>3. ListInv'
  BY DEF IInv, ListInv, Registered
<1>4. CurInv'
  BY DEF IInv, TypeOK, CurInv, Locked, DllMain, Registered, UserInv, Attaching
<1>5. UserInv'
  BY DEF IInv, TypeOK, CurInv, UserInv, Attaching, DetachInv, Locked, DllMain,
         Registered
<1>6. DetachInv'
  BY DEF IInv, TypeOK, DetachInv
<1>7. AttachInv'
  BY DEF IInv, AttachInv, DetachInv, Settled, MayMiss, Locked, DllMain,
         Registered
<1> QED
  BY <1>1, <1>2, <1>3, <1>4, <1>5, <1>6, <1>7 DEF IInv

\* A finished detach pass has emptied the table.
LEMMA DetachUnlockPreserves ==
    ASSUME NEW t \in Threads, IInv, DetachUnlock(t)
    PROVE  IInv'
<1> USE ThreadsAssumption, ImagesAssumption, SizesAssumption
<1> USE DEF DetachUnlock, Move, Goto, Runs, lock, list, context, pass, call
<1>1. TypeOK'
  BY DEF IInv, TypeOK, Places
<1>2. LockInv'
  BY DEF IInv, TypeOK, LockInv, Locked, DllMain
<1>3. ListInv'
  BY DEF IInv, ListInv, Registered
<1>4. CurInv'
  BY DEF IInv, CurInv, Locked, DllMain, Registered, UserInv, Attaching
<1>5. UserInv'
  BY DEF IInv, UserInv, Attaching, DetachInv, Locked, DllMain, Registered
<1>6. DetachInv'
  BY DEF IInv, DetachInv
<1>7. AttachInv'
  BY DEF IInv, AttachInv, Settled, Registered
<1> QED
  BY <1>1, <1>2, <1>3, <1>4, <1>5, <1>6, <1>7 DEF IInv

\* The context goes away empty and the generation with it.
LEMMA CleanupEndPreserves ==
    ASSUME NEW t \in Threads, IInv, CleanupEnd(t)
    PROVE  IInv'
<1> USE ThreadsAssumption, ImagesAssumption, SizesAssumption
<1> USE DEF CleanupEnd, Move, Goto, Runs, lock, list, context, pass, call
<1>1. TypeOK'
  BY DEF IInv, TypeOK, Places
<1>2. LockInv'
  BY DEF IInv, LockInv, Locked, DllMain
<1>3. ListInv'
  BY DEF IInv, ListInv, Registered
<1>4. CurInv'
  BY DEF IInv, CurInv, Locked, DllMain, Registered, UserInv, Attaching
<1>5. UserInv'
  BY DEF IInv, UserInv, Attaching, DetachInv, Locked, DllMain, Registered
<1>6. DetachInv'
  BY <1>4 DEF IInv, TypeOK, CurInv, DetachInv, Locked
<1>7. AttachInv'
  BY DEF IInv, TypeOK, AttachInv, Settled, Registered
<1> QED
  BY <1>1, <1>2, <1>3, <1>4, <1>5, <1>6, <1>7 DEF IInv

\* A thread that comes back has no context and generation zero.
LEMMA LateCallPreserves ==
    ASSUME NEW t \in Threads, IInv, LateCall(t)
    PROVE  IInv'
<1> USE ThreadsAssumption, ImagesAssumption, SizesAssumption
<1> USE DEF LateCall, Move, Goto, Runs, lock, list, context, pass, call
<1>1. TypeOK'
  BY DEF IInv, TypeOK, Places
<1>2. LockInv'
  BY DEF IInv, LockInv, Locked, DllMain
<1>3. ListInv'
  BY DEF IInv, ListInv, Registered
<1>4. CurInv'
  BY DEF IInv, CurInv, Locked, DllMain, Registered, UserInv, Attaching
<1>5. UserInv'
  BY DEF IInv, UserInv, Attaching, DetachInv, Locked, DllMain, Registered
<1>6. DetachInv'
  BY <1>4 DEF IInv, CurInv, DetachInv, Locked
<1>7. AttachInv'
  BY DEF IInv, AttachInv, Settled, Registered
<1> QED
  BY <1>1, <1>2, <1>3, <1>4, <1>5, <1>6, <1>7 DEF IInv

\* A slot is reserved only while the list has one free.
LEMMA BeginProcessAttachPreserves ==
    ASSUME NEW t \in Threads, NEW i \in Images, IInv, BeginProcessAttach(t, i)
    PROVE  IInv'
<1> USE ThreadsAssumption, ImagesAssumption, SizesAssumption
<1> USE DEF BeginProcessAttach, Move, Goto, Runs, lock, list, context, pass,
            call
<1>1. TypeOK'
  BY DEF IInv, TypeOK, Places, Locked, DllMain, LockInv, ListInv, CurInv,
         Registered
<1>2. LockInv'
  BY DEF IInv, TypeOK, LockInv, Locked
<1>3. ListInv'
  <2>1. Registered' = Registered
    BY DEF Registered
  <2>2. \A v \in Threads : pc[v] \notin {"loading", "dllmain_process"}
    BY DEF IInv, LockInv, Locked, DllMain
  <2>3. pending = 0
    BY <2>2 DEF IInv, ListInv
  <2>4. CASE count + pending = MaxImages
    BY <2>1, <2>4 DEF IInv, TypeOK, ListInv
  <2>5. CASE count + pending # MaxImages
    <3>1. pending' = 1 /\ count + 1 <= MaxImages
      BY <2>3, <2>5 DEF IInv, TypeOK, ListInv
    <3>2. pc'[t] = "loading"
      BY <2>5 DEF IInv, TypeOK
    <3> QED
      BY <2>1, <3>1, <3>2 DEF IInv, TypeOK, ListInv
  <2> QED
    BY <2>4, <2>5
<1>4. CurInv'
  BY DEF IInv, TypeOK, CurInv, Locked, DllMain, Registered, UserInv, Attaching
<1>5. UserInv'
  BY DEF IInv, TypeOK, UserInv, Attaching, DetachInv, Locked, DllMain,
         Registered
<1>6. DetachInv'
  BY DEF IInv, TypeOK, DetachInv
<1>7. AttachInv'
  BY DEF IInv, TypeOK, AttachInv, DetachInv, Settled, MayMiss, Locked, DllMain,
         Registered
<1> QED
  BY <1>1, <1>2, <1>3, <1>4, <1>5, <1>6, <1>7 DEF IInv

\* Opting out of notifications only weakens what must be attached.
LEMMA DisableThreadLibraryCallsPreserves ==
    ASSUME NEW t \in Threads, NEW i \in Images, IInv,
           DisableThreadLibraryCalls(t, i)
    PROVE  IInv'
<1> USE ThreadsAssumption, ImagesAssumption, SizesAssumption
<1> USE DEF DisableThreadLibraryCalls, Attaching, Move, Goto, Runs, lock, list,
            context, pass, call
<1>1. TypeOK'
  BY DEF IInv, TypeOK
<1>2. LockInv'
  BY DEF IInv, LockInv
<1>3. ListInv'
  BY DEF IInv, ListInv, Registered
<1>4. CurInv'
  BY DEF IInv, CurInv, Locked, DllMain, Registered, UserInv, Attaching
<1>5. UserInv'
  BY DEF IInv, UserInv, Attaching, DetachInv, Locked, DllMain, Registered
<1>6. DetachInv'
  BY DEF IInv, DetachInv
<1>7. AttachInv'
  BY DEF IInv, AttachInv, Settled, Registered
<1> QED
  BY <1>1, <1>2, <1>3, <1>4, <1>5, <1>6, <1>7 DEF IInv

\* The creator gains nothing but a thread to wait for.
LEMMA CreateThreadPreserves ==
    ASSUME NEW t \in Threads, NEW u \in Threads, NEW wantsId \in BOOLEAN,
           IInv, CreateThread(t, u, wantsId)
    PROVE  IInv'
<1> USE ThreadsAssumption, ImagesAssumption, SizesAssumption
<1> USE DEF CreateThread, Move, Goto, Runs, lock, list, context, pass, call
<1>1. TypeOK'
  BY DEF IInv, TypeOK, Places
<1>2. LockInv'
  BY DEF IInv, LockInv, Locked, DllMain
<1>3. ListInv'
  BY DEF IInv, ListInv, Registered
<1>4. CurInv'
  BY DEF IInv, CurInv, Locked, DllMain, Registered, UserInv, Attaching
<1>5. UserInv'
  BY DEF IInv, UserInv, Attaching, DetachInv, Locked, DllMain, Registered
<1>6. DetachInv'
  BY <1>4 DEF IInv, CurInv, DetachInv, Locked
<1>7. AttachInv'
  BY DEF IInv, AttachInv, Settled, Registered
<1> QED
  BY <1>1, <1>2, <1>3, <1>4, <1>5, <1>6, <1>7 DEF IInv

-----------------------------------------------------------------------------
(* The invariant and what follows from it.                                 *)

\* The invariant holds in the initial state: no image, no context.
LEMMA InitEstablishes == Init => IInv
<1> SUFFICES ASSUME Init PROVE IInv
  OBVIOUS
<1> USE ThreadsAssumption, ImagesAssumption, SizesAssumption DEF Init
<1>1. TypeOK
  BY DEF TypeOK, Places
<1>2. LockInv
  BY DEF LockInv, Locked, DllMain
<1>3. ListInv
  <2>1. Registered = {}
    BY DEF Registered
  <2> QED
    BY <2>1, FS_EmptySet DEF ListInv
<1>4. CurInv /\ UserInv
  BY DEF CurInv, UserInv, DllMain
<1>5. DetachInv /\ AttachInv
  BY DEF DetachInv, AttachInv, Registered, Locked, DllMain
<1> QED
  BY <1>1, <1>2, <1>3, <1>4, <1>5 DEF IInv

\* Every step keeps the invariant: the lemmas above, one for each action.
LEMMA StepPreserves == IInv /\ [Next]_vars => IInv'
<1> SUFFICES ASSUME IInv, [Next]_vars PROVE IInv'
  OBVIOUS
<1>1. ASSUME NEW t \in Threads, Progress(t) PROVE IInv'
  BY <1>1, ProcessAttachPreserves, FinishAttachedPreserves,
     FinishRefusedPreserves, DiscardImagePreserves, LoadUnlockPreserves,
     NotifyAttachPreserves, AttachNextPreserves, AttachReturnsPreserves,
     AttachUnlockPreserves, StoreGenerationPreserves, PublishThreadIdPreserves,
     CreateThreadReturnsPreserves, NotifyDetachPreserves, DetachNextPreserves,
     DetachReturnsPreserves, DetachUnlockPreserves, CleanupEndPreserves
     DEF Progress
<1>2. ASSUME NEW t \in Threads, Choice(t) PROVE IInv'
  BY <1>2, LoadLockPreserves, EnsureBeginPreserves, CallReturnsPreserves,
     CleanupBeginPreserves, LateCallPreserves, BeginProcessAttachPreserves,
     DisableThreadLibraryCallsPreserves, CreateThreadPreserves
     DEF Choice
<1>3. CASE UNCHANGED vars
  BY <1>3
     DEF vars, lock, list, context, pass, call, IInv, TypeOK, LockInv, ListInv,
         CurInv, UserInv, DetachInv, AttachInv, Settled, MayMiss, Attaching,
         Registered
<1> QED
  BY <1>1, <1>2, <1>3 DEF Next

\* The inductive invariant holds of every behaviour: the other theorems are
\* read off it.
THEOREM Invariance == Spec => []IInv
BY InitEstablishes, StepPreserves, PTL DEF Spec

\* Type correctness; the counters of the image list never underflow.
THEOREM TypeCorrect == Spec => []TypeOK
<1>1. IInv => TypeOK
  BY DEF IInv
<1> QED
  BY <1>1, Invariance, PTL

\* A generation a thread holds stands for images it is attached to.
THEOREM GenerationIsSound == Spec => []GenerationMeansAttached
<1>1. IInv => GenerationMeansAttached
  BY DEF IInv, AttachInv, Settled, GenerationMeansAttached
<1> QED
  BY <1>1, Invariance, PTL

\* No thread refers to an image the loader threw away.
THEOREM ImagesAreSafe == Spec => []NoDanglingImage
<1>1. IInv => NoDanglingImage
  BY DEF IInv, UserInv, NoDanglingImage
<1> QED
  BY <1>1, Invariance, PTL

\* A thread's context is freed with nothing left in it.
THEOREM CleanupIsComplete == Spec => []LeavesNothingBehind
<1>1. IInv => LeavesNothingBehind
  BY DEF IInv, UserInv, DetachInv, LeavesNothingBehind
<1> QED
  BY <1>1, Invariance, PTL

\* Every DllMain told of a thread hears that it left, unless it opted out.
THEOREM ArrivalsMatched == Spec => []ArrivalsAreMatched
<1>1. IInv => ArrivalsAreMatched
  BY DEF IInv, UserInv, DetachInv, ArrivalsAreMatched
<1> QED
  BY <1>1, Invariance, PTL

\* A DllMain runs with its thread's TLS block allocated.
THEOREM TlsIsThere == Spec => []DllMainHasItsTls
<1>1. IInv => DllMainHasItsTls
  BY DEF IInv, CurInv, UserInv, DllMainHasItsTls
<1> QED
  BY <1>1, Invariance, PTL

\* Dependencies are notified before their importers and released after them.
THEOREM OrderIsKept == Spec => []DependenciesFirst
<1>1. IInv => DependenciesFirst
  <2> SUFFICES ASSUME IInv, NEW t \in Threads, NEW i \in Registered
               PROVE /\ pc[t] = "dllmain_attach" /\ slot[i] < slot[cur[t]] =>
                            i \in attached[t] \/ i \in disabled \/ MayMiss(i)
                     /\ pc[t] = "dllmain_detach" /\ slot[i] > slot[cur[t]] =>
                            i \notin attached[t]
    BY DEF DependenciesFirst
  <2>1. i \in Images /\ slot[i] \in Nat
    BY DEF IInv, TypeOK, Registered
  <2>2. pc[t] \in {"dllmain_attach", "dllmain_detach"} =>
            cur[t] \in Images /\ slot[cur[t]] \in Nat
    BY DEF IInv, TypeOK, CurInv, Registered
  <2>3. \A j \in todo[t] : slot[j] \in Nat
    BY DEF IInv, TypeOK
  <2> QED
    BY <2>2, <2>3 DEF IInv, DetachInv, AttachInv, Settled
<1> QED
  BY <1>1, Invariance, PTL

\* The per-thread table never refuses an image.
THEOREM TableHasRoom == Spec => []RoomToAttach
BY Room, Invariance, PTL

\* No DllMain is told twice of a thread that has not left.
THEOREM ArrivalsAreNew == Spec => NoRepeatedArrival
<1>1. ASSUME NEW t \in Threads, IInv, Next,
             pc[t] # pc'[t], pc'[t] \in {"dllmain_attach", "dllmain_process"},
             pc[t] \in {"attaching", "loading"}
      PROVE  cur'[t] \notin inside[t]
  <2>1. CASE pc[t] = "loading"
    <3>1. ProcessAttach(t)
      BY <1>1, <2>1
         DEF IInv, TypeOK, Next, Progress, Choice, Move, Goto, Snapshot,
             ProcessAttach, FinishAttached, FinishRefused, DiscardImage,
             LoadUnlock, NotifyAttach, AttachNext, AttachReturns, AttachUnlock,
             StoreGeneration, PublishThreadId, CreateThreadReturns,
             NotifyDetach, DetachNext, DetachReturns, DetachUnlock, CleanupEnd,
             LoadLock, EnsureBegin, CallReturns, CleanupBegin, LateCall,
             BeginProcessAttach, DisableThreadLibraryCalls, CreateThread
    <3> QED
      BY <1>1, <3>1
         DEF IInv, TypeOK, ProcessAttach, Initialize, CurInv, UserInv,
             Registered, Attaching, Goto
  <2>2. CASE pc[t] = "attaching"
    <3>1. AttachNext(t)
      BY <1>1, <2>2
         DEF IInv, TypeOK, Next, Progress, Choice, Move, Goto, Snapshot,
             ProcessAttach, FinishAttached, FinishRefused, DiscardImage,
             LoadUnlock, NotifyAttach, AttachNext, AttachReturns, AttachUnlock,
             StoreGeneration, PublishThreadId, CreateThreadReturns,
             NotifyDetach, DetachNext, DetachReturns, DetachUnlock, CleanupEnd,
             LoadLock, EnsureBegin, CallReturns, CleanupBegin, LateCall,
             BeginProcessAttach, DisableThreadLibraryCalls, CreateThread
    <3> QED
      BY <1>1, <3>1
         DEF IInv, TypeOK, AttachNext, Initialize, UserInv, Move, Goto
  <2> QED
    BY <1>1, <2>1, <2>2
<1>2. IInv /\ [Next]_vars =>
        [\A t \in Threads :
            pc[t] # pc'[t] /\ pc'[t] \in {"dllmain_attach", "dllmain_process"}
                /\ pc[t] \in {"attaching", "loading"}
            => cur'[t] \notin inside[t]]_vars
  BY <1>1
<1> QED
  BY <1>2, Invariance, PTL DEF Spec, NoRepeatedArrival

=============================================================================

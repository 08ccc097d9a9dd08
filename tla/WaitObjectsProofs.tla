------------------------- MODULE WaitObjectsProofs --------------------------
(***************************************************************************)
(* Proofs about WaitObjects, for any threads and objects: no wake-up is    *)
(* lost, a join that succeeds has joined, and the waits and signals on     *)
(* both back ends implement the Dispatcher of Windows.                     *)
(***************************************************************************)
EXTENDS WaitObjects, FiniteSetTheorems, SequenceTheorems, TLAPS

\* What the type invariant says of one thread.
ThreadOK(t) ==
    /\ call[t] \in Calls \cup {NoCall}
    /\ Idle(t) <=> call[t] = NoCall
    /\ ~Idle(t) => call[t].at \in DOMAIN call[t].on
    /\ pc[t] \in {"wait", "asleep", "got"} <=> call[t].wait \in {"all", "any"}
    /\ SecondHalf(t, "set") \/ SecondHalf(t, "reset") => Obj(t) \in Events \cap Ntsync
    /\ SecondHalf(t, "post") => Obj(t) \in Semaphores \ Ntsync
    /\ left[t] > 0 <=> SecondHalf(t, "post")
    /\ got[t] # "none" <=> pc[t] = "got"

\* What it says of the objects.
ObjectsOK ==
    /\ signaled \in [Events \cup Jobs -> BOOLEAN]
    /\ posted \in [Semaphores -> Nat]
    /\ kernel \in [Ntsync -> 0..MaximumCount]
    /\ \A o \in Ntsync \cap Events : kernel[o] <= 1

-----------------------------------------------------------------------------
(* Types.                                                                  *)

\* The kinds of objects, and the handle arrays.
LEMMA Kinds ==
    /\ Ntsync \subseteq Events \cup Semaphores
    /\ NoObject \notin Objects
    /\ \A m \in Menus : \A on \in m : on \in Seq(Objects) /\ Len(on) \in Nat \ {0}
                                      /\ DOMAIN on = 1..Len(on)
    /\ MaximumCount \in Nat \ {0} /\ MaxRelease \in Nat \ {0} /\ IsFiniteSet(Threads)
    /\ \A o \in Objects : \/ o \in Events /\ o \notin Semaphores /\ o \notin Jobs
                          \/ o \in Semaphores /\ o \notin Events /\ o \notin Jobs
                          \/ o \in Jobs /\ o \notin Events /\ o \notin Semaphores
    /\ \A o \in Events : (o \in AutoEvents) <=> (o \notin ManualEvents)
<1>1. \A m \in Menus : \A on \in m : on \in Seq(Objects) /\ Len(on) \in Nat \ {0}
                                     /\ DOMAIN on = 1..Len(on)
  <2>1. ASSUME NEW m \in Menus, NEW on \in m
        PROVE  on \in Seq(Objects) /\ Len(on) \in Nat \ {0} /\ DOMAIN on = 1..Len(on)
    <3>1. on \in Seq(Objects) /\ on # <<>>
      BY ObjectsAssumption
    <3> QED
      BY <3>1, EmptySeq, LenProperties
  <2> QED
    BY <2>1
<1>2. \A o \in Objects : \/ o \in Events /\ o \notin Semaphores /\ o \notin Jobs
                         \/ o \in Semaphores /\ o \notin Events /\ o \notin Jobs
                         \/ o \in Jobs /\ o \notin Events /\ o \notin Semaphores
  BY KindsAssumption DEF Objects
<1>3. \A o \in Events : (o \in AutoEvents) <=> (o \notin ManualEvents)
  BY KindsAssumption DEF Events
<1> QED
  BY <1>1, <1>2, <1>3, ObjectsAssumption, BoundsAssumption

\* A thread in a call has an object.
LEMMA InCall ==
    ASSUME TypeOK, NEW t \in Threads, ~Idle(t)
    PROVE  /\ call[t] \in Calls /\ call[t].on \in Seq(Objects) /\ call[t].at \in Nat \ {0}
           /\ Len(call[t].on) \in Nat /\ DOMAIN call[t].on = 1..Len(call[t].on)
           /\ call[t].at \in 1..Len(call[t].on)
           /\ call[t].wait \in {"all", "any", "set", "reset", "post"}
           /\ call[t].for \in Timeouts
           /\ Obj(t) \in Objects
<1>1. call[t] \in Calls /\ call[t].at \in DOMAIN call[t].on
  BY DEF TypeOK
<1>2. call[t].on \in Seq(Objects)
  BY <1>1 DEF Calls
<1>3. Len(call[t].on) \in Nat /\ DOMAIN call[t].on = 1..Len(call[t].on)
  BY <1>2, LenProperties
<1>4. Obj(t) \in Objects
  BY <1>1, <1>2, <1>3, ElementOfSeq DEF Obj
<1> QED
  BY <1>1, <1>2, <1>3, <1>4 DEF Calls

\* An idle thread is in no call.
LEMMA NotInCall ==
    ASSUME TypeOK, NEW t \in Threads, Idle(t)
    PROVE  call[t] = NoCall /\ call[t].wait = "none" /\ left[t] = 0 /\ got[t] = "none"
<1>1. call[t] = NoCall
  BY DEF TypeOK
<1>2. left[t] \in Nat /\ ~(left[t] > 0)
  BY DEF TypeOK, SecondHalf, Idle
<1>3. got[t] = "none"
  BY DEF TypeOK, Idle
<1> QED
  BY <1>1, <1>2, <1>3 DEF NoCall

\* A step of one thread leaves the types in order if it does so for its own
\* part and for the objects.
LEMMA OneThread ==
    ASSUME TypeOK, NEW t \in Threads, NEW p, NEW c, NEW l, NEW g,
           pc' = [pc EXCEPT ![t] = p], call' = [call EXCEPT ![t] = c],
           left' = [left EXCEPT ![t] = l], got' = [got EXCEPT ![t] = g],
           p \in {"idle", "wait", "asleep", "got", "signal"},
           c \in Calls \cup {NoCall}, l \in Nat, g \in {"none", "ok", "timeout"},
           ThreadOK(t)', ObjectsOK', told' \subseteq {u \in Threads : pc'[u] = "asleep"},
           menu' = menu
    PROVE  TypeOK'
<1>1. /\ pc' \in [Threads -> {"idle", "wait", "asleep", "got", "signal"}]
      /\ call' \in [Threads -> Calls \cup {NoCall}] /\ left' \in [Threads -> Nat]
      /\ got' \in [Threads -> {"none", "ok", "timeout"}]
  BY DEF TypeOK
<1>2. \A u \in Threads : ThreadOK(u)'
  <2>1. ASSUME NEW u \in Threads, u # t PROVE ThreadOK(u)'
    <3>1. pc'[u] = pc[u] /\ call'[u] = call[u] /\ left'[u] = left[u] /\ got'[u] = got[u]
      BY <2>1 DEF TypeOK
    <3>2. ThreadOK(u)
      BY DEF TypeOK, ThreadOK
    <3> QED
      BY <3>1, <3>2 DEF ThreadOK, Idle, SecondHalf, Obj
  <2> QED
    BY <2>1
<1>3. menu' \in Menus
  BY DEF TypeOK
<1> QED
  BY <1>1, <1>2, <1>3 DEF TypeOK, ThreadOK, ObjectsOK

\* Taking a signal from an object that has one.
LEMMA ConsumeTypes ==
    ASSUME TypeOK, NEW o \in Objects, Level(o) > 0, Consume(o)
    PROVE  ObjectsOK'
<1>1. signaled' \in [Events \cup Jobs -> BOOLEAN]
  BY DEF Consume, TypeOK
<1>2. posted' \in [Semaphores -> Nat]
  <2>1. CASE o \in Semaphores \ Ntsync
    <3>1. posted[o] > 0 /\ posted' = [posted EXCEPT ![o] = posted[o] - 1]
      BY <2>1 DEF Consume, Level
    <3>2. posted \in [Semaphores -> Nat] /\ posted[o] - 1 \in Nat
      BY <2>1, <3>1 DEF TypeOK
    <3> QED
      BY <3>1, <3>2
  <2>2. CASE o \notin Semaphores \ Ntsync
    BY <2>2 DEF Consume, TypeOK
  <2> QED
    BY <2>1, <2>2
<1>3. /\ kernel' \in [Ntsync -> 0..MaximumCount]
      /\ \A x \in Ntsync \cap Events : kernel'[x] <= 1
  <2>1. CASE o \in Ntsync \ Lasting
    <3>1. kernel[o] > 0 /\ kernel' = [kernel EXCEPT ![o] = kernel[o] - 1]
      BY <2>1 DEF Consume, Level
    <3>2. /\ kernel \in [Ntsync -> 0..MaximumCount] /\ MaximumCount \in Nat
          /\ \A x \in Ntsync \cap Events : kernel[x] <= 1
      BY Kinds DEF TypeOK
    <3>3. kernel[o] \in 0..MaximumCount
      BY <2>1, <3>2
    <3>4. kernel[o] - 1 \in 0..MaximumCount /\ (kernel[o] <= 1 => kernel[o] - 1 <= 1)
      BY <3>1, <3>2, <3>3
    <3>5. kernel' \in [Ntsync -> 0..MaximumCount]
      BY <3>1, <3>2, <3>4
    <3>6. \A x \in Ntsync \cap Events : kernel'[x] <= 1
      BY <3>1, <3>2, <3>4
    <3> QED
      BY <3>5, <3>6
  <2>2. CASE o \notin Ntsync \ Lasting
    BY <2>2 DEF Consume, TypeOK
  <2> QED
    BY <2>1, <2>2
<1> QED
  BY <1>1, <1>2, <1>3 DEF ObjectsOK

\* A wait for one object returns.
LEMMA SingleReturnsTypes ==
    ASSUME TypeOK, NEW t \in Threads, pc[t] \in {"wait", "asleep"},
           NEW r \in {"ok", "timeout"}, SingleReturns(t, r), ObjectsOK'
    PROVE  TypeOK'
<1>1. ~Idle(t) /\ pc' = [pc EXCEPT ![t] = "got"] /\ got' = [got EXCEPT ![t] = r]
      /\ call' = [call EXCEPT ![t] = call[t]] /\ left' = [left EXCEPT ![t] = left[t]]
      /\ told' = told \ {t} /\ call' = call /\ left' = left /\ menu' = menu
  BY DEF SingleReturns, TypeOK, Idle
<1>2. call[t] \in Calls \cup {NoCall} /\ left[t] \in Nat
  BY DEF TypeOK
<1>3. pc'[t] = "got" /\ got'[t] = r
  BY <1>1 DEF TypeOK
<1>4. ThreadOK(t)'
  BY <1>1, <1>3 DEF TypeOK, ThreadOK, Idle, SecondHalf, Obj
<1>5. told' \subseteq {u \in Threads : pc'[u] = "asleep"}
  BY <1>1 DEF TypeOK
<1> QED
  BY <1>1, <1>2, <1>4, <1>5, OneThread

LEMMA TakeTypes ==
    ASSUME TypeOK, NEW t \in Threads, pc[t] \in {"wait", "asleep"}, Take(t)
    PROVE  TypeOK'
<1>1. Obj(t) \in Objects
  BY InCall DEF Idle
<1>2. ObjectsOK'
  BY <1>1, ConsumeTypes DEF Take
<1> QED
  BY <1>2, SingleReturnsTypes DEF Take

LEMMA TimeoutTypes ==
    ASSUME TypeOK, NEW t \in Threads, pc[t] \in {"wait", "asleep"},
           NEW r \in {"ok", "timeout"}, SingleReturns(t, r), UNCHANGED state
    PROVE  TypeOK'
<1>1. ObjectsOK'
  BY DEF ObjectsOK, TypeOK, state
<1> QED
  BY <1>1, SingleReturnsTypes

LEMMA SleepTypes ==
    ASSUME TypeOK, NEW t \in Threads, pc[t] \in {"wait", "asleep"}, Sleep(t)
    PROVE  TypeOK'
<1>1. ~Idle(t) /\ pc' = [pc EXCEPT ![t] = "asleep"] /\ got' = [got EXCEPT ![t] = got[t]]
      /\ call' = [call EXCEPT ![t] = call[t]] /\ left' = [left EXCEPT ![t] = left[t]]
      /\ told' = told \ {t} /\ call' = call /\ left' = left /\ got' = got /\ menu' = menu
  BY DEF Sleep, TypeOK, Idle
<1>2. call[t] \in Calls \cup {NoCall} /\ left[t] \in Nat /\ got[t] \in {"none", "ok", "timeout"}
  BY DEF TypeOK
<1>3. pc'[t] = "asleep"
  BY <1>1 DEF TypeOK
<1>4. ThreadOK(t)'
  BY <1>1, <1>3 DEF TypeOK, ThreadOK, Idle, SecondHalf, Obj
<1>5. told' \subseteq {u \in Threads : pc'[u] = "asleep"}
  BY <1>1 DEF TypeOK
<1>6. ObjectsOK'
  BY DEF Sleep, ObjectsOK, TypeOK, state
<1> QED
  BY <1>1, <1>2, <1>4, <1>5, <1>6, OneThread

\* A wait for several goes on with another of its handles.
LEMMA NextHandleTypes ==
    ASSUME TypeOK, NEW t \in Threads, pc[t] = "got", NEW i \in DOMAIN call[t].on,
           NextHandle(t, i), UNCHANGED <<state, told, left, menu>>
    PROVE  /\ TypeOK'
           /\ call'[t].on = call[t].on /\ call'[t].at = i
           /\ call'[t].wait = call[t].wait /\ call'[t].for = call[t].for
<1> DEFINE c == [call[t] EXCEPT !.at = i]
<1>1. /\ ~Idle(t) /\ call[t] \in Calls /\ i \in Nat
  BY InCall DEF Idle
<1>2. /\ c \in Calls /\ c.on = call[t].on /\ c.at = i
      /\ c.wait = call[t].wait /\ c.for = call[t].for
  BY <1>1 DEF Calls
<1>3. /\ call' = [call EXCEPT ![t] = c] /\ pc' = [pc EXCEPT ![t] = "wait"]
      /\ got' = [got EXCEPT ![t] = "none"] /\ left' = [left EXCEPT ![t] = left[t]]
      /\ left' = left
  BY DEF NextHandle, TypeOK
<1>4. pc'[t] = "wait" /\ got'[t] = "none" /\ call'[t] = c
  BY <1>3 DEF TypeOK
<1>5. c # NoCall
  BY <1>1, <1>2 DEF Calls, NoCall
<1>6. call[t].wait \in {"all", "any"} /\ left[t] \in Nat /\ ~(left[t] > 0)
  BY DEF TypeOK, SecondHalf
<1> HIDE DEF c
<1>7. ThreadOK(t)'
  BY <1>2, <1>3, <1>4, <1>5, <1>6 DEF ThreadOK, Idle, SecondHalf, Obj
<1>8. told' \subseteq {u \in Threads : pc'[u] = "asleep"}
  BY <1>3 DEF TypeOK
<1>9. ObjectsOK'
  BY DEF ObjectsOK, TypeOK, state
<1>10. TypeOK'
  BY <1>2, <1>3, <1>6, <1>7, <1>8, <1>9, OneThread
<1> QED
  BY <1>2, <1>4, <1>10

\* A call ends.
LEMMA CallReturnsTypes ==
    ASSUME TypeOK, NEW t \in Threads, pc[t] \in {"got", "signal"}, CallReturns(t), ObjectsOK',
           left' = [left EXCEPT ![t] = 0], told' = told, menu' = menu
    PROVE  TypeOK'
<1>1. /\ call' = [call EXCEPT ![t] = NoCall] /\ pc' = [pc EXCEPT ![t] = "idle"]
      /\ got' = [got EXCEPT ![t] = "none"]
  BY DEF CallReturns
<1>2. pc'[t] = "idle" /\ got'[t] = "none" /\ call'[t] = NoCall /\ left'[t] = 0
  BY <1>1 DEF TypeOK
<1>3. ThreadOK(t)'
  BY <1>2 DEF ThreadOK, Idle, SecondHalf, NoCall
<1>4. told' \subseteq {u \in Threads : pc'[u] = "asleep"}
  BY <1>1 DEF TypeOK
<1> QED
  BY <1>1, <1>3, <1>4, OneThread

\* A call that signals is halfway.
LEMMA HalfwayTypes ==
    ASSUME TypeOK, NEW t \in Threads, Idle(t), NEW what, NEW o, Halfway(t, what, o), ObjectsOK',
           \/ what \in {"set", "reset"} /\ o \in Events \cap Ntsync /\ left' = left
           \/ /\ what = "post" /\ o \in Semaphores \ Ntsync
              /\ \E n \in Nat \ {0} : left' = [left EXCEPT ![t] = n],
           told' \subseteq {u \in Threads : pc[u] = "asleep"}, got' = got, menu' = menu
    PROVE  TypeOK'
<1> DEFINE c == [wait |-> what, on |-> <<o>>, at |-> 1, for |-> "zero"]
<1>1. call' = [call EXCEPT ![t] = c] /\ pc' = [pc EXCEPT ![t] = "signal"]
      /\ got' = [got EXCEPT ![t] = "none"]
  BY NotInCall DEF Halfway, TypeOK
<1>2. o \in Objects /\ <<o>> \in Seq(Objects) /\ what \in {"set", "reset", "post"}
  BY DEF Objects
<1>3. c \in Calls /\ c # NoCall /\ c.wait = what /\ c.at = 1 /\ c.on = <<o>>
      /\ c.at \in DOMAIN c.on /\ c.on[c.at] = o
  BY <1>2 DEF Calls, NoCall, Timeouts
<1>4. pc'[t] = "signal" /\ got'[t] = "none" /\ call'[t] = c
  BY <1>1 DEF TypeOK
<1>5. PICK l \in Nat : /\ left' = [left EXCEPT ![t] = l] /\ left'[t] = l
                       /\ l > 0 <=> what = "post"
  <2>1. left[t] = 0
    BY NotInCall
  <2> QED
    BY <2>1 DEF TypeOK
<1> HIDE DEF c
<1>6. ThreadOK(t)'
  BY <1>3, <1>4, <1>5 DEF ThreadOK, Idle, SecondHalf, Obj
<1>7. told' \subseteq {u \in Threads : pc'[u] = "asleep"}
  BY <1>1 DEF TypeOK, Idle
<1> QED
  BY <1>1, <1>3, <1>5, <1>6, <1>7, OneThread

\* The device serves sleepers only, and keeps to its levels.
LEMMA ServeTypes ==
    ASSUME TypeOK, NEW o \in Ntsync, NEW n \in Nat \ {0}, Serve(o, n),
           o \in Semaphores => kernel[o] + n <= MaximumCount
    PROVE  /\ kernel' \in [Ntsync -> 0..MaximumCount]
           /\ \A x \in Ntsync \cap Events : kernel'[x] <= 1
           /\ told \subseteq told' /\ told' \subseteq told \cup Sleepers(o)
<1>1. Sleepers(o) \subseteq Threads /\ IsFiniteSet(Threads) /\ MaximumCount \in Nat \ {0}
  BY Kinds DEF Sleepers
<1>2. CASE o \in Lasting
  BY <1>1, <1>2 DEF Serve, Broadcast, TypeOK
<1>3. CASE o \notin Lasting
  <2>1. PICK S \in SUBSET Sleepers(o) :
          /\ Cardinality(S) <= n
          /\ told' = told \cup S
          /\ kernel' = [kernel EXCEPT ![o] =
                         IF o \in Events THEN (IF S = {} THEN 1 ELSE 0)
                         ELSE kernel[o] + n - Cardinality(S)]
    BY <1>3 DEF Serve
  <2>2. Cardinality(S) \in Nat
    BY <1>1, FS_Subset, FS_CardinalityType
  <2>3. CASE o \in Events
    BY <1>1, <2>1, <2>3 DEF TypeOK
  <2>4. CASE o \notin Events
    <3>1. o \in Semaphores
      BY <2>4, Kinds
    <3>2. kernel[o] + n - Cardinality(S) \in 0..MaximumCount
      BY <1>1, <2>1, <2>2, <3>1 DEF TypeOK
    <3> QED
      BY <2>1, <2>4, <3>2 DEF TypeOK
  <2> QED
    BY <2>1, <2>3, <2>4
<1> QED
  BY <1>2, <1>3

\* A step that leaves the threads where they are, and tells only sleepers.
LEMMA ObjectTypes ==
    ASSUME TypeOK, ObjectsOK', UNCHANGED <<pc, call, left, got, menu>>,
           told' \subseteq {u \in Threads : pc[u] = "asleep"}
    PROVE  TypeOK'
BY DEF TypeOK, ObjectsOK, Idle, SecondHalf, Obj

LEMMA WaitsTypes ==
    ASSUME TypeOK, NEW t \in Threads, Waits(t)
    PROVE  TypeOK'
<1>1. ASSUME NEW on \in menu, NEW for \in Timeouts, NEW wait \in {"all", "any"},
             BeginWait(t, on, wait, for)
      PROVE  TypeOK'
  <2> DEFINE c == [wait |-> wait, on |-> on, at |-> 1, for |-> for]
  <2>1. on \in Seq(Objects) /\ DOMAIN on = 1..Len(on) /\ Len(on) \in Nat \ {0}
    BY Kinds DEF TypeOK
  <2>2. /\ c \in Calls /\ c # NoCall /\ c.wait = wait /\ c.at = 1 /\ c.on = on
        /\ c.at \in DOMAIN c.on
    BY <2>1 DEF Calls, NoCall
  <2>3. /\ call' = [call EXCEPT ![t] = c] /\ pc' = [pc EXCEPT ![t] = "wait"]
        /\ got' = [got EXCEPT ![t] = "none"] /\ left' = [left EXCEPT ![t] = 0]
    BY <1>1, NotInCall DEF BeginWait, TypeOK
  <2>4. pc'[t] = "wait" /\ got'[t] = "none" /\ call'[t] = c /\ left'[t] = 0
    BY <2>3 DEF TypeOK
  <2> HIDE DEF c
  <2>5. ThreadOK(t)'
    BY <2>2, <2>4 DEF ThreadOK, Idle, SecondHalf
  <2>6. ObjectsOK' /\ told' \subseteq {u \in Threads : pc'[u] = "asleep"} /\ menu' = menu
    BY <1>1, <2>3 DEF BeginWait, Idle, ObjectsOK, TypeOK, state
  <2> QED
    BY <2>2, <2>3, <2>5, <2>6, OneThread
<1>2. ASSUME Look(t) PROVE TypeOK'
  BY <1>2, TakeTypes, TimeoutTypes, SleepTypes DEF Look, GiveUp
<1>3. ASSUME WakeUp(t) \/ TimesOut(t) \/ SemTakes(t) PROVE TypeOK'
  BY <1>3, TakeTypes, TimeoutTypes, SleepTypes DEF WakeUp, TimesOut, SemTakes, GiveUp
<1>4. ASSUME SemTimesOut(t) \/ NtsyncReturns(t) PROVE TypeOK'
  BY <1>4, TimeoutTypes DEF SemTimesOut, NtsyncReturns
<1>5. ASSUME WaitAllNext(t) \/ WaitAnyNext(t) PROVE TypeOK'
  <2>1. pc[t] = "got" /\ UNCHANGED <<state, told, left, menu>>
    BY <1>5 DEF WaitAllNext, WaitAnyNext
  <2>2. /\ DOMAIN call[t].on = 1..Len(call[t].on) /\ Len(call[t].on) \in Nat
        /\ call[t].at \in 1..Len(call[t].on)
    BY <2>1, InCall DEF Idle
  <2>3. CallReturns(t) \/ \E i \in DOMAIN call[t].on : NextHandle(t, i)
    <3>1. 1 \in DOMAIN call[t].on
      BY <2>2
    <3>2. call[t].at < Len(call[t].on) => call[t].at + 1 \in DOMAIN call[t].on
      BY <2>2
    <3> QED
      BY <1>5, <3>1, <3>2 DEF WaitAllNext, WaitAnyNext
  <2>4. left[t] = 0 /\ ObjectsOK'
    BY <2>1 DEF TypeOK, SecondHalf, ObjectsOK, state
  <2>5. left' = [left EXCEPT ![t] = 0]
    BY <2>1, <2>4 DEF TypeOK
  <2> QED
    BY <2>1, <2>3, <2>4, <2>5, CallReturnsTypes, NextHandleTypes
<1> QED
  BY <1>1, <1>2, <1>3, <1>4, <1>5 DEF Waits

LEMMA SignalsTypes ==
    ASSUME TypeOK, NEW t \in Threads, Signals(t)
    PROVE  TypeOK'
<1> DEFINE asleep == {u \in Threads : pc[u] = "asleep"}
<1>1. told \subseteq asleep /\ \A o : Sleepers(o) \subseteq asleep
  BY DEF TypeOK, Sleepers
<1>2. ObjectsOK
  BY DEF TypeOK, ObjectsOK
<1>3. ASSUME NEW e \in Events, SetEvent(t, e) PROVE TypeOK'
  <2>1. CASE e \in Ntsync
    <3>1. Idle(t) /\ Serve(e, 1) /\ Halfway(t, "set", e)
          /\ UNCHANGED <<signaled, posted, left, got, menu>>
      BY <1>3, <2>1 DEF SetEvent
    <3>2. e \notin Semaphores
      BY Kinds DEF Objects
    <3>3. /\ kernel' \in [Ntsync -> 0..MaximumCount]
          /\ \A x \in Ntsync \cap Events : kernel'[x] <= 1
          /\ told' \subseteq asleep
      BY <1>1, <2>1, <3>1, <3>2, ServeTypes
    <3>4. ObjectsOK'
      BY <1>2, <3>1, <3>3 DEF ObjectsOK
    <3> QED
      BY <2>1, <3>1, <3>3, <3>4, HalfwayTypes
  <2>2. CASE e \notin Ntsync
    <3>1. /\ signaled' = [signaled EXCEPT ![e] = TRUE]
          /\ Broadcast(e) \/ SignalOne(e)
          /\ UNCHANGED <<kernel, pc, call, posted, left, got, menu>>
      BY <1>3, <2>2 DEF SetEvent
    <3>2. told' \subseteq asleep
      BY <1>1, <3>1 DEF Broadcast, SignalOne
    <3>3. ObjectsOK'
      BY <1>2, <3>1 DEF ObjectsOK
    <3> QED
      BY <3>1, <3>2, <3>3, ObjectTypes
  <2> QED
    BY <2>1, <2>2
<1>4. ASSUME NEW e \in Events, ResetEvent(t, e) PROVE TypeOK'
  <2>1. CASE e \in Ntsync
    <3>1. Idle(t) /\ kernel' = [kernel EXCEPT ![e] = 0] /\ Halfway(t, "reset", e)
          /\ UNCHANGED <<signaled, posted, told, left, got, menu>>
      BY <1>4, <2>1 DEF ResetEvent
    <3>2. ObjectsOK'
      BY <1>2, <2>1, <3>1, Kinds DEF ObjectsOK
    <3> QED
      BY <1>1, <2>1, <3>1, <3>2, HalfwayTypes
  <2>2. CASE e \notin Ntsync
    <3>1. /\ signaled' = [signaled EXCEPT ![e] = FALSE]
          /\ UNCHANGED <<kernel, pc, call, posted, told, left, got, menu>>
      BY <1>4, <2>2 DEF ResetEvent
    <3>2. ObjectsOK'
      BY <1>2, <3>1 DEF ObjectsOK
    <3> QED
      BY <1>1, <3>1, <3>2, ObjectTypes
  <2> QED
    BY <2>1, <2>2
<1>5. ASSUME SetEventFlag(t) \/ ResetEventFlag(t) PROVE TypeOK'
  <2>1. /\ pc[t] = "signal" /\ call[t].wait \in {"set", "reset"} /\ CallReturns(t)
        /\ \E b \in BOOLEAN : signaled' = [signaled EXCEPT ![Obj(t)] = b]
        /\ UNCHANGED <<posted, kernel, told, left, menu>>
    BY <1>5 DEF SetEventFlag, ResetEventFlag, SecondHalf
  <2>2. ObjectsOK'
    BY <1>2, <2>1 DEF ObjectsOK
  <2>3. left[t] = 0
    BY <2>1 DEF TypeOK, SecondHalf
  <2>4. left' = [left EXCEPT ![t] = 0]
    BY <2>1, <2>3 DEF TypeOK
  <2> QED
    BY <2>1, <2>2, <2>4, CallReturnsTypes
<1>6. ASSUME NEW s \in Semaphores, NEW n \in 1..MaxRelease, ReleaseSemaphore(t, s, n) PROVE TypeOK'
  <2>1. n \in Nat \ {0}
    BY Kinds
  <2>2. CASE s \in Ntsync
    <3>1. /\ kernel[s] + n <= MaximumCount /\ Serve(s, n)
          /\ UNCHANGED <<pc, call, left, signaled, posted, got, menu>>
      BY <1>6, <2>2 DEF ReleaseSemaphore
    <3>2. /\ kernel' \in [Ntsync -> 0..MaximumCount]
          /\ \A x \in Ntsync \cap Events : kernel'[x] <= 1
          /\ told' \subseteq asleep
      BY <1>1, <2>1, <2>2, <3>1, ServeTypes
    <3>3. ObjectsOK'
      BY <1>2, <3>1, <3>2 DEF ObjectsOK
    <3> QED
      BY <3>1, <3>2, <3>3, ObjectTypes
  <2>3. CASE s \notin Ntsync
    <3>1. /\ Idle(t) /\ Halfway(t, "post", s) /\ left' = [left EXCEPT ![t] = n]
          /\ UNCHANGED <<kernel, told, signaled, posted, got, menu>>
      BY <1>6, <2>3 DEF ReleaseSemaphore
    <3>2. ObjectsOK'
      BY <1>2, <3>1 DEF ObjectsOK
    <3> QED
      BY <1>1, <2>1, <2>3, <3>1, <3>2, HalfwayTypes
  <2> QED
    BY <2>2, <2>3
<1>7. ASSUME SemPost(t) PROVE TypeOK'
  <2>1. /\ pc[t] = "signal" /\ call[t].wait = "post"
        /\ posted' = [posted EXCEPT ![Obj(t)] = posted[Obj(t)] + 1]
        /\ left' = [left EXCEPT ![t] = left[t] - 1]
        /\ UNCHANGED <<signaled, kernel, told, menu>>
    BY <1>7 DEF SemPost, SecondHalf
  <2>2. Obj(t) \in Semaphores /\ left[t] \in Nat \ {0} /\ call[t] \in Calls
    BY <2>1, InCall DEF TypeOK, SecondHalf, Idle
  <2>3. posted[Obj(t)] + 1 \in Nat
    BY <2>2 DEF TypeOK
  <2>4. ObjectsOK'
    BY <1>2, <2>1, <2>3 DEF ObjectsOK
  <2>5. CASE left[t] = 1
    <3>1. CallReturns(t) /\ left' = [left EXCEPT ![t] = 0]
      BY <1>7, <2>1, <2>5 DEF SemPost
    <3> QED
      BY <2>1, <2>4, <3>1, CallReturnsTypes
  <2>6. CASE left[t] # 1
    <3>1. left[t] - 1 \in Nat \ {0} /\ got[t] = "none"
      BY <2>1, <2>2, <2>6 DEF TypeOK
    <3>2. UNCHANGED <<pc, call, got>>
      BY <1>7, <2>6 DEF SemPost
    <3>3. /\ pc' = [pc EXCEPT ![t] = "signal"] /\ call' = [call EXCEPT ![t] = call[t]]
          /\ got' = [got EXCEPT ![t] = "none"]
      BY <2>1, <3>1, <3>2 DEF TypeOK
    <3>4. left'[t] = left[t] - 1
      BY <2>1 DEF TypeOK
    <3>5. left'[t] > 0 /\ left[t] > 0
      BY <2>2, <3>1, <3>4
    <3>6. ThreadOK(t)
      BY DEF TypeOK, ThreadOK
    <3>7. ThreadOK(t)'
      BY <3>2, <3>5, <3>6 DEF ThreadOK, Idle, SecondHalf, Obj
    <3>8. told' \subseteq {u \in Threads : pc'[u] = "asleep"}
      BY <1>1, <2>1, <3>2
    <3>9. left[t] - 1 \in Nat /\ call[t] \in Calls \cup {NoCall} /\ menu' = menu
      BY <2>1, <2>2, <3>1
    <3> QED
      BY <2>1, <2>4, <3>3, <3>7, <3>8, <3>9, OneThread
  <2> QED
    BY <2>5, <2>6
<1> QED
  BY <1>3, <1>4, <1>5, <1>6, <1>7 DEF Signals

LEMMA FinishTypes ==
    ASSUME TypeOK, NEW j \in Jobs, FinishThread(j)
    PROVE  TypeOK'
<1>1. ObjectsOK' /\ told' \subseteq {u \in Threads : pc[u] = "asleep"}
  BY DEF FinishThread, Broadcast, Sleepers, ObjectsOK, TypeOK
<1> QED
  BY <1>1, ObjectTypes DEF FinishThread

\* Types are preserved.
LEMMA NextTypes == ASSUME TypeOK, [Next]_vars PROVE TypeOK'
<1>1. ASSUME NEW t \in Threads, Waits(t) \/ Signals(t) PROVE TypeOK'
  BY <1>1, WaitsTypes, SignalsTypes
<1>2. CASE UNCHANGED vars
  BY <1>2 DEF vars, state, TypeOK, Idle, SecondHalf, Obj
<1> QED
  BY <1>1, <1>2, FinishTypes DEF Next, Threads

LEMMA InitTypes == Init => TypeOK
<1> SUFFICES ASSUME Init PROVE TypeOK
  OBVIOUS
<1>1. /\ posted \in [Semaphores -> Nat] /\ kernel \in [Ntsync -> 0..MaximumCount]
      /\ \A o \in Ntsync \cap Events : kernel[o] <= 1
  <2>1. /\ posted \in [Semaphores -> 0..MaximumCount] /\ kernel \in [Ntsync -> 0..1]
        /\ MaximumCount \in Nat \ {0}
    BY Kinds DEF Init
  <2>2. 0..MaximumCount \subseteq Nat /\ 0..1 \subseteq 0..MaximumCount
    BY <2>1
  <2> QED
    BY <2>1, <2>2
<1>2. NoCall.wait = "none"
  BY DEF NoCall
<1> QED
  BY <1>1, <1>2 DEF Init, TypeOK, Idle, SecondHalf

\* What a thread waits for or signals is in its call, a device's event holds
\* one signal at most and a semaphore of the device no more than its maximum.
THEOREM TypeCorrect == Spec => []TypeOK
BY InitTypes, NextTypes, PTL DEF Spec

-----------------------------------------------------------------------------
(* No wake-up is lost.                                                     *)

\* A step of one thread that signals no flag, unless it takes the signal that
\* it was told of, or falls asleep beside one.
LEMMA ThreadWakes ==
    ASSUME TypeOK, NoLostWakeUp, NEW t \in Threads,
           \A u \in Threads \ {t} : pc'[u] = pc[u] /\ call'[u] = call[u],
           told \ {t} \subseteq told',
           \A o \in Flags : signaled'[o] => signaled[o],
           pc'[t] = "asleep" => t \in told' \/ Obj(t)' \notin Flags \/ ~signaled'[Obj(t)'],
           t \in told /\ Obj(t) \in Flags \cap AutoEvents =>
               ~signaled'[Obj(t)] \/ (t \in told' /\ Obj(t)' = Obj(t))
    PROVE  NoLostWakeUp'
<1> SUFFICES ASSUME NEW o \in Flags, signaled'[o], NEW u \in Sleepers(o)'
             PROVE  o \in AutoEvents /\ \E v \in told' : Obj(v)' = o
  BY DEF NoLostWakeUp
<1>1. signaled[o] /\ u \in Threads /\ pc'[u] = "asleep" /\ Obj(u)' = o /\ u \notin told'
  BY DEF Sleepers
<1>2. u # t
  BY <1>1
<1>3. u \in Sleepers(o)
  BY <1>1, <1>2 DEF Sleepers, Obj
<1>4. o \in AutoEvents /\ \E v \in told : Obj(v) = o
  BY <1>1, <1>3 DEF NoLostWakeUp
<1>5. PICK v \in told : Obj(v) = o
  BY <1>4
<1>6. CASE v = t
  BY <1>4, <1>5, <1>6
<1>7. CASE v # t
  <2>1. v \in told' /\ Obj(v)' = o
    BY <1>5, <1>7 DEF TypeOK, Obj
  <2> QED
    BY <1>4, <2>1
<1> QED
  BY <1>6, <1>7

\* Who takes the signal of a flag takes it from everybody, if it is not a
\* lasting one.
LEMMA TakeWakes ==
    ASSUME TypeOK, NoLostWakeUp, NEW t \in Threads, pc[t] \in {"wait", "asleep"}, Take(t)
    PROVE  NoLostWakeUp'
<1>1. /\ \A u \in Threads \ {t} : pc'[u] = pc[u] /\ call'[u] = call[u]
      /\ told' = told \ {t} /\ pc'[t] = "got"
  BY DEF Take, SingleReturns, TypeOK
<1>2. /\ \A o \in Flags : signaled'[o] => signaled[o]
      /\ Obj(t) \in Flags \cap AutoEvents => ~signaled'[Obj(t)]
  BY DEF Take, Consume, Flags, TypeOK
<1> QED
  BY <1>1, <1>2, ThreadWakes

\* Who gives up or falls asleep finds no signal.
LEMMA LooksInVain ==
    ASSUME TypeOK, NoLostWakeUp, NEW t \in Threads, pc[t] \in {"wait", "asleep"},
           Obj(t) \in Flags => Level(Obj(t)) = 0, UNCHANGED state,
           (\E r \in {"ok", "timeout"} : SingleReturns(t, r)) \/ Sleep(t)
    PROVE  NoLostWakeUp'
<1>1. /\ \A u \in Threads \ {t} : pc'[u] = pc[u] /\ call'[u] = call[u]
      /\ told' = told \ {t} /\ call' = call
  BY DEF SingleReturns, Sleep, TypeOK
<1>2. signaled' = signaled /\ Obj(t)' = Obj(t)
  BY <1>1 DEF state, Obj
<1>3. Obj(t) \in Flags => ~signaled[Obj(t)]
  <2>1. ASSUME Obj(t) \in Flags PROVE Level(Obj(t)) = IF signaled[Obj(t)] THEN 1 ELSE 0
    <3>1. Obj(t) \notin Ntsync /\ Obj(t) \notin Semaphores
      BY <2>1, Kinds DEF Flags, Objects
    <3> QED
      BY <3>1 DEF Level
  <2> QED
    BY <2>1
<1> QED
  BY <1>1, <1>2, <1>3, ThreadWakes

\* A thread that is not asleep, and signals no flag.
LEMMA AwakeWakes ==
    ASSUME TypeOK, NoLostWakeUp, NEW t \in Threads, pc[t] # "asleep", pc'[t] # "asleep",
           \A u \in Threads \ {t} : pc'[u] = pc[u] /\ call'[u] = call[u],
           told \subseteq told', \A o \in Flags : signaled'[o] => signaled[o]
    PROVE  NoLostWakeUp'
<1>1. t \notin told
  BY DEF TypeOK
<1> QED
  BY <1>1, ThreadWakes

LEMMA WaitsWake == ASSUME TypeOK, NoLostWakeUp, NEW t \in Threads, Waits(t) PROVE NoLostWakeUp'
<1>1. ASSUME pc[t] \in {"idle", "got"}, pc'[t] \in {"idle", "wait"}, told' = told,
             signaled' = signaled,
             \E p, c : pc' = [pc EXCEPT ![t] = p] /\ call' = [call EXCEPT ![t] = c]
      PROVE  NoLostWakeUp'
  <2>1. \A u \in Threads \ {t} : pc'[u] = pc[u] /\ call'[u] = call[u]
    BY <1>1 DEF TypeOK
  <2> QED
    BY <1>1, <2>1, AwakeWakes
<1>2. ASSUME NEW on, NEW for, NEW wait, BeginWait(t, on, wait, for) PROVE NoLostWakeUp'
  <2>1. pc'[t] = "wait"
    BY <1>2 DEF BeginWait, TypeOK
  <2> QED
    BY <1>1, <1>2, <2>1 DEF BeginWait, Idle, state
<1>3. ASSUME WaitAllNext(t) \/ WaitAnyNext(t) PROVE NoLostWakeUp'
  <2>1. /\ pc[t] = "got" /\ told' = told /\ signaled' = signaled
        /\ CallReturns(t) \/ \E i : NextHandle(t, i)
    BY <1>3 DEF WaitAllNext, WaitAnyNext, state
  <2>2. pc'[t] \in {"idle", "wait"}
    BY <2>1 DEF CallReturns, NextHandle, TypeOK
  <2>3. \E p, c : pc' = [pc EXCEPT ![t] = p] /\ call' = [call EXCEPT ![t] = c]
    BY <2>1 DEF CallReturns, NextHandle
  <2> QED
    BY <1>1, <2>1, <2>2, <2>3
<1>4. ASSUME Look(t) \/ WakeUp(t) \/ TimesOut(t) \/ SemTakes(t) PROVE NoLostWakeUp'
  <2>1. pc[t] \in {"wait", "asleep"} /\ (Take(t) \/ GiveUp(t) \/ Sleep(t))
    BY <1>4 DEF Look, WakeUp, TimesOut, SemTakes
  <2>2. GiveUp(t) \/ Sleep(t) =>
          Level(Obj(t)) = 0 /\ UNCHANGED state /\ (SingleReturns(t, "timeout") \/ Sleep(t))
    BY DEF GiveUp, Sleep
  <2> QED
    BY <2>1, <2>2, TakeWakes, LooksInVain
<1>5. ASSUME SemTimesOut(t) \/ NtsyncReturns(t) PROVE NoLostWakeUp'
  <2>1. pc[t] = "asleep" /\ Obj(t) \notin Flags /\ UNCHANGED state
    <3>1. pc[t] = "asleep" /\ UNCHANGED state /\ Obj(t) \in Semaphores \cup Ntsync
      BY <1>5 DEF SemTimesOut, NtsyncReturns
    <3> QED
      BY <3>1, Kinds DEF Flags, Objects
  <2>2. \E r \in {"ok", "timeout"} : SingleReturns(t, r)
    BY <1>5 DEF SemTimesOut, NtsyncReturns
  <2> QED
    BY <2>1, <2>2, LooksInVain
<1> QED
  BY <1>2, <1>3, <1>4, <1>5 DEF Waits

\* A broadcast leaves no sleeper untold, and one that is told of an auto-reset
\* event is a witness for the others.
LEMMA SignalsFlag ==
    ASSUME TypeOK, NoLostWakeUp, NEW o \in Flags, signaled' = [signaled EXCEPT ![o] = TRUE],
           Broadcast(o) \/ (o \in AutoEvents /\ SignalOne(o)), UNCHANGED <<pc, call>>
    PROVE  NoLostWakeUp'
<1>1. told \subseteq told'
  BY DEF Broadcast, SignalOne
<1>2. \A x : Sleepers(x)' \subseteq Sleepers(x)
  BY <1>1 DEF Sleepers, Obj
<1>3. \A x \in Flags : x # o => signaled'[x] = signaled[x]
  BY DEF TypeOK, Flags
<1>4. Sleepers(o)' # {} => o \in AutoEvents /\ \E t \in told' : Obj(t)' = o
  <2>1. CASE Broadcast(o)
    BY <2>1 DEF Broadcast, Sleepers, Obj
  <2>2. CASE o \in AutoEvents /\ SignalOne(o)
    <3>1. CASE Sleepers(o) = {}
      BY <1>2, <3>1
    <3>2. CASE Sleepers(o) # {}
      <4>1. PICK t \in Sleepers(o) : t \in told'
        BY <2>2, <3>2 DEF SignalOne
      <4> QED
        BY <2>2, <4>1 DEF Sleepers, Obj
    <3> QED
      BY <3>1, <3>2
  <2> QED
    BY <2>1, <2>2
<1>5. \A x \in Flags : x # o /\ signaled'[x] /\ Sleepers(x)' # {} =>
        x \in AutoEvents /\ \E t \in told' : Obj(t)' = x
  BY <1>1, <1>2, <1>3 DEF NoLostWakeUp, Obj
<1> QED
  BY <1>4, <1>5 DEF NoLostWakeUp

LEMMA SignalsWake == ASSUME TypeOK, NoLostWakeUp, NEW t \in Threads, Signals(t) PROVE NoLostWakeUp'
<1>1. Flags \cap Ntsync = {} /\ Flags \cap Semaphores = {}
  BY Kinds DEF Flags, Objects
<1>2. ASSUME pc[t] \in {"idle", "signal"}, pc'[t] \in {"idle", "signal"},
             told \subseteq told', \A o \in Flags : signaled'[o] => signaled[o],
             \A u \in Threads \ {t} : pc'[u] = pc[u] /\ call'[u] = call[u]
      PROVE  NoLostWakeUp'
  BY <1>2, AwakeWakes
<1>3. ASSUME NEW what, NEW o, Halfway(t, what, o)
      PROVE  pc'[t] = "signal" /\ \A u \in Threads \ {t} : pc'[u] = pc[u] /\ call'[u] = call[u]
  BY <1>3 DEF Halfway, TypeOK
<1>4. ASSUME CallReturns(t)
      PROVE  pc'[t] = "idle" /\ \A u \in Threads \ {t} : pc'[u] = pc[u] /\ call'[u] = call[u]
  BY <1>4 DEF CallReturns, TypeOK
<1>5. ASSUME NEW o, NEW n, Serve(o, n) PROVE told \subseteq told'
  BY <1>5 DEF Serve, Broadcast
<1>6. ASSUME NEW e \in Events, SetEvent(t, e) PROVE NoLostWakeUp'
  <2>1. CASE e \in Ntsync
    <3>1. Idle(t) /\ Serve(e, 1) /\ Halfway(t, "set", e) /\ signaled' = signaled
      BY <1>6, <2>1 DEF SetEvent
    <3> QED
      BY <1>2, <1>3, <1>5, <3>1 DEF Idle
  <2>2. CASE e \notin Ntsync
    <3>1. /\ signaled' = [signaled EXCEPT ![e] = TRUE]
          /\ Broadcast(e) \/ (e \in AutoEvents /\ SignalOne(e))
          /\ UNCHANGED <<pc, call>>
      BY <1>6, <2>2, Kinds DEF SetEvent
    <3>2. e \in Flags
      BY <2>2 DEF Flags
    <3> QED
      BY <3>1, <3>2, SignalsFlag
  <2> QED
    BY <2>1, <2>2
<1>7. ASSUME NEW e \in Events, ResetEvent(t, e) PROVE NoLostWakeUp'
  <2>1. Idle(t) /\ told' = told /\ \A o \in Flags : signaled'[o] => signaled[o]
    BY <1>1, <1>7 DEF ResetEvent, TypeOK, Flags
  <2>2. Halfway(t, "reset", e) \/ (pc' = pc /\ call' = call)
    BY <1>7 DEF ResetEvent
  <2> QED
    BY <1>2, <1>3, <2>1, <2>2 DEF Idle
<1>8. ASSUME SetEventFlag(t) \/ ResetEventFlag(t) PROVE NoLostWakeUp'
  <2>1. /\ pc[t] = "signal" /\ CallReturns(t) /\ told' = told
        /\ \E b \in BOOLEAN : signaled' = [signaled EXCEPT ![Obj(t)] = b]
        /\ Obj(t) \in Ntsync
    BY <1>8 DEF SetEventFlag, ResetEventFlag, SecondHalf, TypeOK
  <2>2. \A o \in Flags : signaled'[o] = signaled[o]
    BY <1>1, <2>1 DEF TypeOK, Flags
  <2> QED
    BY <1>2, <1>4, <2>1, <2>2
<1>9. ASSUME NEW s \in Semaphores, NEW n \in 1..MaxRelease, ReleaseSemaphore(t, s, n)
      PROVE  NoLostWakeUp'
  <2>1. /\ Idle(t) /\ signaled' = signaled
        /\ Serve(s, n) \/ told' = told
        /\ Halfway(t, "post", s) \/ (pc' = pc /\ call' = call)
    BY <1>9 DEF ReleaseSemaphore
  <2> QED
    BY <1>2, <1>3, <1>5, <2>1 DEF Idle
<1>10. ASSUME SemPost(t) PROVE NoLostWakeUp'
  <2>1. /\ pc[t] = "signal" /\ signaled' = signaled /\ told' = told
        /\ CallReturns(t) \/ (pc' = pc /\ call' = call)
    BY <1>10 DEF SemPost, SecondHalf
  <2> QED
    BY <1>2, <1>4, <2>1
<1> QED
  BY <1>6, <1>7, <1>8, <1>9, <1>10 DEF Signals

LEMMA NextWakes == ASSUME TypeOK, NoLostWakeUp, [Next]_vars PROVE NoLostWakeUp'
<1>1. ASSUME NEW j \in Jobs, FinishThread(j) PROVE NoLostWakeUp'
  <2>1. j \in Flags
    BY Kinds DEF Flags, Objects
  <2> QED
    BY <1>1, <2>1, SignalsFlag DEF FinishThread
<1>2. CASE UNCHANGED vars
  BY <1>2 DEF vars, state, NoLostWakeUp, Sleepers, Obj
<1> QED
  BY <1>1, <1>2, WaitsWake, SignalsWake DEF Next, Threads

\* Whatever spurious wake-ups, time-outs and rival waiters do, no thread sleeps
\* untold on a flag that is set, but beside one that was told of it.
THEOREM NoneLost == Spec => []NoLostWakeUp
<1>1. Init => TypeOK /\ NoLostWakeUp
  BY InitTypes DEF Init, NoLostWakeUp, Sleepers
<1>2. TypeOK /\ NoLostWakeUp /\ [Next]_vars => (TypeOK /\ NoLostWakeUp)'
  BY NextTypes, NextWakes
<1> QED
  BY <1>1, <1>2, PTL DEF Spec

-----------------------------------------------------------------------------
(* A join that succeeds has joined.                                        *)

\* In a wait for all, the handles it is past, and the one it just got, are of
\* threads that have finished.
JoinInv ==
    \A t \in Threads : call[t].wait = "all" =>
        \A i \in DOMAIN call[t].on :
            /\ call[t].on[i] \in Jobs
            /\ i < call[t].at \/ (i = call[t].at /\ got[t] = "ok")
            => signaled[call[t].on[i]]

\* A thread that has finished stays so.
LEMMA JobsStay ==
    ASSUME TypeOK, [Next]_vars
    PROVE  \A j \in Jobs : signaled[j] => signaled'[j]
<1>1. \A j \in Jobs : j \notin Events
  BY Kinds DEF Objects
<1>2. ASSUME NEW t \in Threads, Waits(t) PROVE \A j \in Jobs : signaled[j] => signaled'[j]
  <2> DEFINE Quiet == \/ signaled' = signaled
                      \/ /\ Obj(t) \in Events
                         /\ signaled' = [signaled EXCEPT ![Obj(t)] = FALSE]
  <2>1. Take(t) => Quiet
    BY DEF Take, Consume, Events
  <2>2. UNCHANGED state => Quiet
    BY DEF state
  <2> HIDE DEF Quiet
  <2>3. ASSUME WakeUp(t) \/ TimesOut(t) \/ SemTakes(t) \/ Look(t) PROVE Quiet
    BY <2>1, <2>2, <2>3 DEF WakeUp, TimesOut, SemTakes, Look, GiveUp, Sleep
  <2>4. ASSUME \/ SemTimesOut(t) \/ NtsyncReturns(t) \/ WaitAllNext(t) \/ WaitAnyNext(t)
               \/ \E on, wait, for : BeginWait(t, on, wait, for)
        PROVE  Quiet
    BY <2>2, <2>4 DEF SemTimesOut, NtsyncReturns, WaitAllNext, WaitAnyNext, BeginWait
  <2>5. Quiet
    BY <1>2, <2>3, <2>4 DEF Waits
  <2> QED
    BY <1>1, <2>5 DEF TypeOK, Quiet
<1>3. ASSUME NEW t \in Threads, Signals(t) PROVE \A j \in Jobs : signaled[j] => signaled'[j]
  <2>1. signaled' = signaled \/ \E e \in Events, b \in BOOLEAN : signaled' = [signaled EXCEPT ![e] = b]
    <3>1. ASSUME NEW e \in Events, SetEvent(t, e) \/ ResetEvent(t, e)
          PROVE  signaled' = signaled \/ \E b \in BOOLEAN : signaled' = [signaled EXCEPT ![e] = b]
      BY <3>1 DEF SetEvent, ResetEvent
    <3>2. ASSUME SetEventFlag(t) \/ ResetEventFlag(t)
          PROVE  /\ Obj(t) \in Events
                 /\ \E b \in BOOLEAN : signaled' = [signaled EXCEPT ![Obj(t)] = b]
      BY <3>2 DEF SetEventFlag, ResetEventFlag, TypeOK
    <3>3. ASSUME SemPost(t) \/ \E s, n : ReleaseSemaphore(t, s, n) PROVE signaled' = signaled
      BY <3>3 DEF SemPost, ReleaseSemaphore
    <3> QED
      BY <1>3, <3>1, <3>2, <3>3 DEF Signals
  <2> QED
    BY <1>1, <2>1 DEF TypeOK
<1>4. ASSUME NEW i \in Jobs, FinishThread(i) PROVE \A j \in Jobs : signaled[j] => signaled'[j]
  BY <1>4 DEF FinishThread, TypeOK
<1>5. CASE UNCHANGED vars
  BY <1>5 DEF vars, state
<1> QED
  BY <1>2, <1>3, <1>4, <1>5 DEF Next, Threads

\* What a step of thread t may make of its call: it stays where it is without
\* a success, or with one on an object that was signaled; it begins, or goes
\* on after a success; or it is no wait for all.
LEMMA JoinSteps ==
    ASSUME TypeOK, JoinInv, NEW t \in Threads, \A j \in Jobs : signaled[j] => signaled'[j],
           \A u \in Threads \ {t} : call'[u] = call[u] /\ got'[u] = got[u],
           \/ call'[t].wait # "all"
           \/ call'[t] = call[t] /\ got'[t] # "ok"
           \/ call'[t] = call[t] /\ ~Idle(t) /\ (Obj(t) \in Jobs => signaled[Obj(t)])
           \/ /\ DOMAIN call'[t].on \subseteq Nat \ {0} /\ call'[t].at = 1
              /\ got'[t] # "ok"
           \/ /\ call'[t].wait = call[t].wait /\ call'[t].on = call[t].on
              /\ call'[t].at = call[t].at + 1 /\ got[t] = "ok" /\ got'[t] # "ok"
    PROVE  JoinInv'
<1> SUFFICES ASSUME NEW u \in Threads, call'[u].wait = "all", NEW i \in DOMAIN call'[u].on,
                    call'[u].on[i] \in Jobs,
                    i < call'[u].at \/ (i = call'[u].at /\ got'[u] = "ok")
             PROVE  signaled'[call'[u].on[i]]
  BY DEF JoinInv
<1>1. CASE call'[u] = call[u] /\ (i < call[u].at \/ got[u] = "ok")
  BY <1>1 DEF JoinInv
<1>2. CASE u = t /\ call'[t] = call[t] /\ ~Idle(t) /\ (Obj(t) \in Jobs => signaled[Obj(t)])
  <2>1. CASE i = call[t].at
    BY <1>2, <2>1 DEF Obj
  <2>2. CASE i # call[t].at
    BY <1>1, <1>2, <2>2
  <2> QED
    BY <2>1, <2>2
<1>3. CASE /\ u = t /\ DOMAIN call'[t].on \subseteq Nat \ {0} /\ call'[t].at = 1
           /\ got'[t] # "ok"
  BY <1>3
<1>4. CASE /\ u = t /\ call'[t].wait = call[t].wait /\ call'[t].on = call[t].on
           /\ call'[t].at = call[t].at + 1 /\ got[t] = "ok" /\ got'[t] # "ok"
  <2>1. ~Idle(t)
    BY <1>4, NotInCall DEF NoCall
  <2>2. i \in Nat /\ call[t].at \in Nat
    BY <1>4, <2>1, InCall
  <2>3. i < call[t].at \/ i = call[t].at
    BY <1>4, <2>2
  <2> QED
    BY <1>4, <2>3 DEF JoinInv
<1>5. CASE u # t
  BY <1>1, <1>5
<1> QED
  BY <1>1, <1>2, <1>3, <1>4, <1>5

LEMMA WaitsJoin ==
    ASSUME TypeOK, JoinInv, NEW t \in Threads, Waits(t), [Next]_vars
    PROVE  JoinInv'
<1>1. \A j \in Jobs : signaled[j] => signaled'[j]
  BY JobsStay
<1>2. ASSUME NEW on \in menu, NEW for, NEW wait, BeginWait(t, on, wait, for) PROVE JoinInv'
  <2>1. /\ \A u \in Threads \ {t} : call'[u] = call[u] /\ got'[u] = got[u]
        /\ call'[t] = [wait |-> wait, on |-> on, at |-> 1, for |-> for]
        /\ got'[t] = "none"
    BY <1>2, NotInCall DEF BeginWait, TypeOK
  <2>2. DOMAIN on = 1..Len(on) /\ Len(on) \in Nat
    BY Kinds DEF TypeOK
  <2>3. call'[t].on = on /\ call'[t].at = 1
    BY <2>1
  <2>4. DOMAIN call'[t].on \subseteq Nat \ {0}
    BY <2>2, <2>3
  <2> QED
    BY <1>1, <2>1, <2>3, <2>4, JoinSteps
<1>3. ASSUME NEW r \in {"ok", "timeout"}, SingleReturns(t, r), pc[t] \in {"wait", "asleep"},
             r = "ok" => (Obj(t) \in Jobs => signaled[Obj(t)])
      PROVE  JoinInv'
  <2>1. /\ \A u \in Threads \ {t} : call'[u] = call[u] /\ got'[u] = got[u]
        /\ call'[t] = call[t] /\ got'[t] = r /\ ~Idle(t)
    BY <1>3 DEF SingleReturns, TypeOK, Idle
  <2> QED
    BY <1>1, <1>3, <2>1, JoinSteps
<1>4. ASSUME pc[t] \in {"wait", "asleep"}, Sleep(t) PROVE JoinInv'
  <2>1. call' = call /\ got' = got /\ got[t] = "none"
    BY <1>4 DEF Sleep, TypeOK
  <2> QED
    BY <1>1, <2>1, JoinSteps
<1>5. ASSUME Take(t) PROVE Obj(t) \in Jobs => signaled[Obj(t)]
  <2>1. Obj(t) \in Jobs => Obj(t) \notin Ntsync /\ Obj(t) \notin Semaphores
    BY Kinds DEF Objects
  <2> QED
    BY <1>5, <2>1 DEF Take, Level
<1>6. ASSUME Look(t) \/ WakeUp(t) \/ TimesOut(t) \/ SemTakes(t) PROVE JoinInv'
  <2>1. pc[t] \in {"wait", "asleep"} /\ (Take(t) \/ GiveUp(t) \/ Sleep(t))
    BY <1>6 DEF Look, WakeUp, TimesOut, SemTakes
  <2> QED
    BY <1>3, <1>4, <1>5, <2>1 DEF Take, GiveUp
<1>7. ASSUME SemTimesOut(t) \/ NtsyncReturns(t) PROVE JoinInv'
  <2>1. pc[t] = "asleep" /\ Obj(t) \notin Jobs /\ \E r \in {"ok", "timeout"} : SingleReturns(t, r)
    <3>1. pc[t] = "asleep" /\ Obj(t) \in Semaphores \cup Ntsync
          /\ \E r \in {"ok", "timeout"} : SingleReturns(t, r)
      BY <1>7 DEF SemTimesOut, NtsyncReturns
    <3> QED
      BY <3>1, Kinds DEF Objects
  <2> QED
    BY <1>3, <2>1
<1>8. ASSUME WaitAllNext(t) \/ WaitAnyNext(t) PROVE JoinInv'
  <2>1. pc[t] = "got" /\ ~Idle(t) /\ UNCHANGED <<state, told, left, menu>>
    BY <1>8 DEF WaitAllNext, WaitAnyNext, Idle
  <2>2. CASE CallReturns(t)
    <3>1. /\ \A u \in Threads \ {t} : call'[u] = call[u] /\ got'[u] = got[u]
          /\ call'[t].wait # "all"
      BY <2>2 DEF CallReturns, TypeOK, NoCall
    <3> QED
      BY <1>1, <3>1, JoinSteps
  <2>3. ASSUME NEW i \in DOMAIN call[t].on, NextHandle(t, i),
               call[t].wait = "any" \/ (got[t] = "ok" /\ i = call[t].at + 1)
        PROVE  JoinInv'
    <3>1. /\ call'[t].on = call[t].on /\ call'[t].at = i /\ call'[t].wait = call[t].wait
      BY <2>1, <2>3, NextHandleTypes
    <3>2. /\ \A u \in Threads \ {t} : call'[u] = call[u] /\ got'[u] = got[u]
          /\ got'[t] = "none"
      BY <2>3 DEF NextHandle, TypeOK
    <3> QED
      BY <1>1, <2>3, <3>1, <3>2, JoinSteps
  <2>4. /\ DOMAIN call[t].on = 1..Len(call[t].on) /\ Len(call[t].on) \in Nat
        /\ call[t].at \in 1..Len(call[t].on)
    BY <2>1, InCall
  <2>5. /\ 1 \in DOMAIN call[t].on
        /\ call[t].at < Len(call[t].on) => call[t].at + 1 \in DOMAIN call[t].on
    BY <2>4
  <2> QED
    BY <1>8, <2>2, <2>3, <2>5 DEF WaitAllNext, WaitAnyNext
<1> QED
  BY <1>2, <1>6, <1>7, <1>8, Zenon DEF Waits

LEMMA SignalsJoin ==
    ASSUME TypeOK, JoinInv, NEW t \in Threads, Signals(t), [Next]_vars
    PROVE  JoinInv'
<1>1. \A j \in Jobs : signaled[j] => signaled'[j]
  BY JobsStay
<1>2. ASSUME call' = call, got' = got, Idle(t) \/ pc[t] = "signal" PROVE JoinInv'
  <2>1. got[t] = "none"
    BY <1>2 DEF TypeOK, Idle
  <2> QED
    BY <1>1, <1>2, <2>1, JoinSteps
<1>3. ASSUME NEW what \in {"set", "reset", "post"}, NEW o, Halfway(t, what, o), got' = got
      PROVE  JoinInv'
  <2>1. (\A u \in Threads \ {t} : call'[u] = call[u] /\ got'[u] = got[u]) /\ call'[t].wait = what
    BY <1>3 DEF Halfway, TypeOK
  <2> QED
    BY <1>1, <2>1, JoinSteps
<1>4. ASSUME CallReturns(t) PROVE JoinInv'
  <2>1. /\ \A u \in Threads \ {t} : call'[u] = call[u] /\ got'[u] = got[u]
        /\ call'[t].wait # "all"
    BY <1>4 DEF CallReturns, TypeOK, NoCall
  <2> QED
    BY <1>1, <2>1, JoinSteps
<1>5. ASSUME NEW e, SetEvent(t, e) \/ ResetEvent(t, e) PROVE JoinInv'
  BY <1>2, <1>3, <1>5 DEF SetEvent, ResetEvent
<1>6. ASSUME SetEventFlag(t) \/ ResetEventFlag(t) PROVE JoinInv'
  BY <1>4, <1>6 DEF SetEventFlag, ResetEventFlag
<1>7. ASSUME NEW s, NEW n, ReleaseSemaphore(t, s, n) PROVE JoinInv'
  BY <1>2, <1>3, <1>7 DEF ReleaseSemaphore
<1>8. ASSUME SemPost(t) PROVE JoinInv'
  BY <1>2, <1>4, <1>8 DEF SemPost, SecondHalf
<1> QED
  BY <1>5, <1>6, <1>7, <1>8 DEF Signals

LEMMA NextJoins == ASSUME TypeOK, JoinInv, [Next]_vars PROVE JoinInv'
<1>1. \A j \in Jobs : signaled[j] => signaled'[j]
  BY JobsStay
<1>2. ASSUME call' = call, got' = got PROVE JoinInv'
  BY <1>1, <1>2 DEF JoinInv
<1>3. ASSUME NEW j \in Jobs, FinishThread(j) PROVE JoinInv'
  BY <1>2, <1>3 DEF FinishThread
<1>4. CASE UNCHANGED vars
  BY <1>2, <1>4 DEF vars
<1> QED
  BY <1>3, <1>4, WaitsJoin, SignalsJoin DEF Next, Threads

\* When a wait for all of an array of thread handles succeeds, every one of
\* the threads has finished, though their handles were waited for in turn.
THEOREM Joined == Spec => JoinedAllHaveFinished
<1>1. Init => TypeOK /\ JoinInv
  <2>1. Init => JoinInv
    BY DEF Init, JoinInv, NoCall
  <2> QED
    BY <2>1, InitTypes
<1>2. TypeOK /\ JoinInv /\ [Next]_vars => (TypeOK /\ JoinInv)'
  BY NextTypes, NextJoins
<1>3. TypeOK /\ JoinInv /\ [Next]_vars =>
        [\A t \in Threads :
            call[t].wait = "all" /\ Idle(t)' /\ got[t] = "ok" =>
              \A i \in DOMAIN call[t].on :
                call[t].on[i] \in Jobs => signaled[call[t].on[i]]]_vars
  <2> SUFFICES ASSUME TypeOK, JoinInv, Next, NEW t \in Threads,
                      call[t].wait = "all", Idle(t)', got[t] = "ok",
                      NEW i \in DOMAIN call[t].on, call[t].on[i] \in Jobs
               PROVE  signaled[call[t].on[i]]
    OBVIOUS
  <2>1. pc[t] = "got" /\ pc'[t] = "idle"
    BY DEF TypeOK, Idle
  <2>2. WaitAllNext(t)
    <3>1. ASSUME NEW u \in Threads, Waits(u), u # t PROVE pc'[t] = pc[t]
      <4>1. \E p : pc' = [pc EXCEPT ![u] = p]
        BY <3>1 DEF Waits, BeginWait, Look, WakeUp, TimesOut, SemTakes, SemTimesOut,
           NtsyncReturns, WaitAllNext, WaitAnyNext, GiveUp, Sleep, Take, SingleReturns,
           CallReturns, NextHandle
      <4> QED
        BY <3>1, <4>1 DEF TypeOK
    <3>2. ASSUME NEW u \in Threads, Signals(u) PROVE pc'[t] = pc[t]
      <4>1. pc' = pc \/ (pc[u] \in {"idle", "signal"} /\ \E p : pc' = [pc EXCEPT ![u] = p])
        BY <3>2 DEF Signals, SetEvent, ResetEvent, SetEventFlag, ResetEventFlag,
           ReleaseSemaphore, SemPost, Halfway, CallReturns, SecondHalf, Idle
      <4> QED
        BY <2>1, <4>1 DEF TypeOK
    <3>3. ASSUME NEW j, FinishThread(j) PROVE pc'[t] = pc[t]
      BY <3>3 DEF FinishThread
    <3>4. Waits(t)
      BY <2>1, <3>1, <3>2, <3>3 DEF Next, Threads
    <3> QED
      BY <2>1, <3>4 DEF Waits, BeginWait, Look, WakeUp, TimesOut, SemTakes, SemTimesOut,
         NtsyncReturns, WaitAnyNext, Idle
  <2>3. call[t].at = Len(call[t].on) /\ i \in 1..Len(call[t].on) /\ Len(call[t].on) \in Nat
    <3>1. /\ Len(call[t].on) \in Nat /\ DOMAIN call[t].on = 1..Len(call[t].on)
          /\ call[t].at \in 1..Len(call[t].on)
      BY <2>1, InCall DEF Idle
    <3>2. ~(call[t].at < Len(call[t].on))
      BY <2>1, <2>2 DEF WaitAllNext, NextHandle, TypeOK
    <3> QED
      BY <3>1, <3>2
  <2>4. i < call[t].at \/ i = call[t].at
    BY <2>3
  <2> QED
    BY <2>4 DEF JoinInv
<1> QED
  BY <1>1, <1>2, <1>3, PTL DEF Spec, JoinedAllHaveFinished

-----------------------------------------------------------------------------
(* The device serves whom it can.                                          *)

\* A thread the device leaves asleep sleeps on an object without a signal.
ServedInv == \A o \in Ntsync : kernel[o] > 0 => Sleepers(o) = {}

\* A step of one thread that gives the device no signal, and falls asleep on
\* none that has one.
LEMMA ThreadServes ==
    ASSUME TypeOK, ServedInv, NEW t \in Threads,
           \A u \in Threads \ {t} : pc'[u] = pc[u] /\ call'[u] = call[u],
           told \ {t} \subseteq told',
           \A o \in Ntsync : kernel'[o] > 0 => kernel[o] > 0,
           pc'[t] = "asleep" /\ t \notin told' /\ Obj(t)' \in Ntsync =>
               ~(kernel'[Obj(t)'] > 0)
    PROVE  ServedInv'
<1> SUFFICES ASSUME NEW o \in Ntsync, kernel'[o] > 0, NEW u \in Sleepers(o)' PROVE FALSE
  BY DEF ServedInv
<1>1. u \in Threads /\ pc'[u] = "asleep" /\ Obj(u)' = o /\ u \notin told'
  BY DEF Sleepers
<1>2. u # t
  BY <1>1
<1>3. u \in Sleepers(o)
  BY <1>1, <1>2 DEF Sleepers, Obj
<1> QED
  BY <1>3 DEF ServedInv

\* The device signals an object: a lasting one for all, another for as many as
\* there are signals, the rest of which it keeps.
LEMMA Served ==
    ASSUME TypeOK, ServedInv, NEW o \in Ntsync, NEW n \in Nat \ {0}, Serve(o, n),
           o \in Events => n = 1
    PROVE  \E S \in SUBSET Sleepers(o) :
             /\ o \notin Lasting => Cardinality(S) <= n
             /\ told' = told \cup S
             /\ kernel' = [kernel EXCEPT ![o] =
                              IF o \in Lasting THEN 1
                              ELSE IF o \in Semaphores THEN kernel[o] + n - Cardinality(S)
                              ELSE IF S = {} THEN 1 ELSE kernel[o]]
             /\ kernel'[o] > 0 => S = Sleepers(o)
<1>1. o \in Events \/ o \in Semaphores
  BY Kinds
<1>2. CASE o \in Lasting
  BY <1>2 DEF Serve, Broadcast, TypeOK
<1>3. CASE o \notin Lasting
  <2>1. PICK S \in SUBSET Sleepers(o) :
          /\ Cardinality(S) <= n
          /\ Cardinality(S) < n => S = Sleepers(o)
          /\ told' = told \cup S
          /\ kernel' = [kernel EXCEPT ![o] =
                         IF o \in Events THEN (IF S = {} THEN 1 ELSE 0)
                         ELSE kernel[o] + n - Cardinality(S)]
    BY <1>3 DEF Serve
  <2>2. IsFiniteSet(S) /\ Cardinality(S) \in Nat /\ (Cardinality(S) = 0 <=> S = {})
    <3>1. Sleepers(o) \subseteq Threads /\ IsFiniteSet(Threads)
      BY Kinds DEF Sleepers
    <3> QED
      BY <3>1, FS_Subset, FS_CardinalityType, FS_EmptySet
  <2>3. kernel[o] \in Nat /\ (S # {} => kernel[o] = 0)
    <3>1. kernel[o] \in 0..MaximumCount /\ MaximumCount \in Nat
      BY Kinds DEF TypeOK
    <3>2. S # {} => ~(kernel[o] > 0)
      BY DEF ServedInv
    <3> QED
      BY <3>1, <3>2
  <2>4. CASE o \in Events
    <3>1. o \notin Semaphores /\ n = 1
      BY <2>4, Kinds DEF Objects
    <3>2. kernel' = [kernel EXCEPT ![o] = IF S = {} THEN 1 ELSE kernel[o]]
      BY <2>1, <2>3, <2>4
    <3>3. kernel'[o] = IF S = {} THEN 1 ELSE kernel[o]
      BY <3>2 DEF TypeOK
    <3>4. kernel'[o] > 0 => S = Sleepers(o)
      BY <2>1, <2>2, <2>3, <3>1, <3>3
    <3> QED
      BY <1>3, <2>1, <3>1, <3>2, <3>4
  <2>5. CASE o \notin Events
    <3>1. o \in Semaphores
      BY <1>1, <2>5
    <3>2. kernel'[o] = kernel[o] + n - Cardinality(S)
      BY <2>1, <2>5 DEF TypeOK
    <3>3. kernel'[o] > 0 => S = Sleepers(o)
      BY <2>1, <2>2, <2>3, <3>2
    <3> QED
      BY <1>3, <2>1, <2>5, <3>1, <3>3
  <2> QED
    BY <2>4, <2>5
<1> QED
  BY <1>2, <1>3

LEMMA ServeServes ==
    ASSUME TypeOK, ServedInv, NEW o \in Ntsync, NEW n \in Nat \ {0}, Serve(o, n),
           o \in Events => n = 1,
           NEW t \in Threads, pc[t] # "asleep", pc'[t] # "asleep",
           \A u \in Threads \ {t} : pc'[u] = pc[u] /\ call'[u] = call[u]
    PROVE  ServedInv'
<1>1. PICK S \in SUBSET Sleepers(o) :
        /\ told' = told \cup S /\ \E k : kernel' = [kernel EXCEPT ![o] = k]
        /\ kernel'[o] > 0 => S = Sleepers(o)
  BY Served
<1>2. \A x : Sleepers(x)' \subseteq Sleepers(x) \ S
  BY <1>1 DEF Sleepers, Obj
<1>3. \A x \in Ntsync : x # o => kernel'[x] = kernel[x]
  BY <1>1 DEF TypeOK
<1> QED
  BY <1>1, <1>2, <1>3 DEF ServedInv

LEMMA WaitsServe == ASSUME TypeOK, ServedInv, NEW t \in Threads, Waits(t) PROVE ServedInv'
<1>1. ASSUME NEW p \in {"idle", "wait", "got"}, NEW c, pc' = [pc EXCEPT ![t] = p],
             call' = [call EXCEPT ![t] = c], told \ {t} \subseteq told',
             \A o \in Ntsync : kernel'[o] > 0 => kernel[o] > 0
      PROVE  ServedInv'
  <2>1. pc'[t] # "asleep" /\ \A u \in Threads \ {t} : pc'[u] = pc[u] /\ call'[u] = call[u]
    BY <1>1 DEF TypeOK
  <2> QED
    BY <1>1, <2>1, ThreadServes
<1>2. ASSUME UNCHANGED state PROVE \A o \in Ntsync : kernel'[o] > 0 => kernel[o] > 0
  BY <1>2 DEF state
<1>3. ASSUME NEW r, SingleReturns(t, r), \A o \in Ntsync : kernel'[o] > 0 => kernel[o] > 0
      PROVE  ServedInv'
  <2>1. call' = [call EXCEPT ![t] = call[t]]
    BY <1>3 DEF SingleReturns, TypeOK
  <2> QED
    BY <1>1, <1>3, <2>1 DEF SingleReturns
<1>4. ASSUME Take(t) PROVE ServedInv'
  <2>1. \A o \in Ntsync : kernel'[o] > 0 => kernel[o] > 0
    <3>1. ASSUME NEW o \in Ntsync PROVE kernel[o] \in Nat
      BY Kinds DEF TypeOK
    <3>2. ASSUME NEW o \in Ntsync, kernel'[o] > 0 PROVE kernel[o] > 0
      <4>1. kernel'[o] = kernel[o] \/ kernel'[o] = kernel[o] - 1
        BY <1>4 DEF Take, Consume, TypeOK
      <4> QED
        BY <3>1, <3>2, <4>1
    <3> QED
      BY <3>2
  <2> QED
    BY <1>3, <1>4, <2>1 DEF Take
<1>5. ASSUME Sleep(t) PROVE ServedInv'
  <2>1. /\ \A u \in Threads \ {t} : pc'[u] = pc[u] /\ call'[u] = call[u]
        /\ told' = told \ {t} /\ kernel' = kernel /\ Obj(t)' = Obj(t)
    BY <1>5 DEF Sleep, TypeOK, state, Obj
  <2>2. Obj(t) \in Ntsync => kernel[Obj(t)] = 0
    BY <1>5 DEF Sleep, Level
  <2> QED
    BY <2>1, <2>2, ThreadServes
<1>6. ASSUME \E on, wait, for : BeginWait(t, on, wait, for) PROVE ServedInv'
  BY <1>1, <1>2, <1>6 DEF BeginWait
<1>7. ASSUME WaitAllNext(t) \/ WaitAnyNext(t) PROVE ServedInv'
  <2>1. UNCHANGED state /\ told' = told /\ (CallReturns(t) \/ \E i : NextHandle(t, i))
    BY <1>7 DEF WaitAllNext, WaitAnyNext
  <2>2. \E p \in {"idle", "wait", "got"} : \E c :
          pc' = [pc EXCEPT ![t] = p] /\ call' = [call EXCEPT ![t] = c]
    BY <2>1 DEF CallReturns, NextHandle
  <2> QED
    BY <1>1, <1>2, <2>1, <2>2
<1>8. ASSUME Look(t) \/ WakeUp(t) \/ TimesOut(t) \/ SemTakes(t) PROVE ServedInv'
  BY <1>2, <1>3, <1>4, <1>5, <1>8 DEF Look, WakeUp, TimesOut, SemTakes, GiveUp
<1>9. ASSUME SemTimesOut(t) \/ NtsyncReturns(t) PROVE ServedInv'
  BY <1>2, <1>3, <1>9 DEF SemTimesOut, NtsyncReturns
<1> QED
  BY <1>6, <1>7, <1>8, <1>9, Zenon DEF Waits

LEMMA SignalsServe == ASSUME TypeOK, ServedInv, NEW t \in Threads, Signals(t) PROVE ServedInv'
<1>1. ASSUME pc[t] \in {"idle", "signal"}, pc'[t] \in {"idle", "signal"},
             \A u \in Threads \ {t} : pc'[u] = pc[u] /\ call'[u] = call[u],
             \/ told \subseteq told' /\ \A o \in Ntsync : kernel'[o] > 0 => kernel[o] > 0
             \/ \E o \in Ntsync, n \in Nat \ {0} : Serve(o, n) /\ (o \in Events => n = 1)
      PROVE  ServedInv'
  <2>1. told \subseteq told' /\ (\A o \in Ntsync : kernel'[o] > 0 => kernel[o] > 0) => ServedInv'
    BY <1>1, ThreadServes
  <2>2. (\E o \in Ntsync, n \in Nat \ {0} : Serve(o, n) /\ (o \in Events => n = 1)) => ServedInv'
    BY <1>1, ServeServes
  <2> QED
    BY <1>1, <2>1, <2>2
<1>2. ASSUME NEW what, NEW o, Halfway(t, what, o)
      PROVE  pc'[t] = "signal" /\ \A u \in Threads \ {t} : pc'[u] = pc[u] /\ call'[u] = call[u]
  BY <1>2 DEF Halfway, TypeOK
<1>3. ASSUME CallReturns(t)
      PROVE  pc'[t] = "idle" /\ \A u \in Threads \ {t} : pc'[u] = pc[u] /\ call'[u] = call[u]
  BY <1>3 DEF CallReturns, TypeOK
<1>4. ASSUME NEW e \in Events, SetEvent(t, e) PROVE ServedInv'
  <2>1. CASE e \in Ntsync
    <3>1. Idle(t) /\ Serve(e, 1) /\ Halfway(t, "set", e)
      BY <1>4, <2>1 DEF SetEvent
    <3> QED
      BY <1>1, <1>2, <2>1, <3>1 DEF Idle
  <2>2. CASE e \notin Ntsync
    <3>1. Idle(t) /\ told \subseteq told' /\ UNCHANGED <<kernel, pc, call>>
      BY <1>4, <2>2 DEF SetEvent, Broadcast, SignalOne
    <3> QED
      BY <1>1, <3>1 DEF Idle
  <2> QED
    BY <2>1, <2>2
<1>5. ASSUME NEW e \in Events, ResetEvent(t, e) PROVE ServedInv'
  <2>1. /\ Idle(t) /\ told' = told
        /\ Halfway(t, "reset", e) \/ (pc' = pc /\ call' = call)
        /\ \A o \in Ntsync : kernel'[o] > 0 => kernel[o] > 0
    BY <1>5 DEF ResetEvent, TypeOK
  <2> QED
    BY <1>1, <1>2, <2>1 DEF Idle
<1>6. ASSUME SetEventFlag(t) \/ ResetEventFlag(t) PROVE ServedInv'
  BY <1>1, <1>3, <1>6 DEF SetEventFlag, ResetEventFlag, SecondHalf
<1>7. ASSUME NEW s \in Semaphores, NEW n \in 1..MaxRelease, ReleaseSemaphore(t, s, n)
      PROVE  ServedInv'
  <2>1. n \in Nat \ {0} /\ s \notin Events
    BY Kinds DEF Objects
  <2>2. /\ Idle(t)
        /\ Halfway(t, "post", s) \/ (pc' = pc /\ call' = call)
        /\ (s \in Ntsync /\ Serve(s, n)) \/ (told' = told /\ kernel' = kernel)
    BY <1>7 DEF ReleaseSemaphore
  <2> QED
    BY <1>1, <1>2, <2>1, <2>2 DEF Idle
<1>8. ASSUME SemPost(t) PROVE ServedInv'
  <2>1. /\ pc[t] = "signal" /\ told' = told /\ kernel' = kernel
        /\ CallReturns(t) \/ (pc' = pc /\ call' = call)
    BY <1>8 DEF SemPost, SecondHalf
  <2> QED
    BY <1>1, <1>3, <2>1
<1> QED
  BY <1>4, <1>5, <1>6, <1>7, <1>8 DEF Signals

LEMMA NextServes == ASSUME TypeOK, ServedInv, [Next]_vars PROVE ServedInv'
<1>1. ASSUME NEW j \in Jobs, FinishThread(j) PROVE ServedInv'
  BY <1>1 DEF FinishThread, Broadcast, ServedInv, Sleepers, Obj
<1>2. CASE UNCHANGED vars
  BY <1>2 DEF vars, state, ServedInv, Sleepers, Obj
<1> QED
  BY <1>1, <1>2, WaitsServe, SignalsServe DEF Next, Threads

-----------------------------------------------------------------------------
(* Each step is one of the Dispatcher's, or none.                          *)

\* The other threads wait for what they waited for, with the same outcome.
Keep(S) ==
    \A u \in Threads \ S : WaitsFor(u)' = WaitsFor(u) /\ Outcome(u)' = Outcome(u)
LevelsKeep == \A o \in Objects : Level(o)' = Level(o)

\* Steps of the Dispatcher, from what they do to each thread and object.
LEMMA Begins ==
    ASSUME NEW t \in Threads, NEW o \in Objects, Keep({t}), LevelsKeep,
           WaitsFor(t) = NoObject, Outcome(t) = "none", WaitsFor(t)' = o, Outcome(t)' = "none"
    PROVE  D!DNext
<1>1. D!Begin(t, o)
  BY DEF D!Begin, Keep, LevelsKeep
<1> QED
  BY <1>1 DEF D!DNext

LEMMA Collects ==
    ASSUME NEW t \in Threads, NEW o \in Objects \cup {NoObject}, Keep({t}), LevelsKeep,
           Outcome(t) # "none", WaitsFor(t)' = o, Outcome(t)' = "none"
    PROVE  D!DNext
<1>1. D!Collect(t, o)
  BY DEF D!Collect, Keep, LevelsKeep
<1> QED
  BY <1>1 DEF D!DNext

LEMMA Acquires ==
    ASSUME NEW t \in Threads, NEW o \in Objects, Keep({t}), WaitsFor(t) = o, Level(o) > 0,
           Level(o)' = IF o \in Lasting THEN Level(o) ELSE Level(o) - 1,
           \A x \in Objects \ {o} : Level(x)' = Level(x),
           WaitsFor(t)' = NoObject, Outcome(t)' = "ok"
    PROVE  D!DNext
<1>1. D!EndWaits({t}, "ok")
  BY DEF D!EndWaits, Keep
<1>2. [x \in Objects |-> Level(x)]' = [[x \in Objects |-> Level(x)] EXCEPT ![o] =
          IF o \in Lasting THEN Level(o) ELSE Level(o) - 1]
  OBVIOUS
<1>3. D!Acquire(t, o)
  BY <1>1, <1>2 DEF D!Acquire
<1> QED
  BY <1>3 DEF D!DNext

LEMMA Expires ==
    ASSUME NEW t \in Threads, NEW o \in Objects, Keep({t}), LevelsKeep, WaitsFor(t) = o,
           o \notin Semaphores \ Ntsync => Level(o) = 0,
           WaitsFor(t)' = NoObject, Outcome(t)' = "timeout"
    PROVE  D!DNext
<1>1. D!EndWaits({t}, "timeout")
  BY DEF D!EndWaits, Keep
<1>2. D!Expire(t, o)
  BY <1>1 DEF D!Expire, LevelsKeep
<1> QED
  BY <1>2 DEF D!DNext

LEMMA Signalled ==
    ASSUME NEW o \in Objects, NEW n \in 1..MaxRelease, NEW S \in SUBSET Threads, Keep(S),
           \A t \in S : WaitsFor(t) = o /\ WaitsFor(t)' = NoObject /\ Outcome(t)' = "ok",
           o \notin Lasting => Cardinality(S) <= n,
           \A x \in Objects \ {o} : Level(x)' = Level(x),
           Level(o)' = IF o \in Lasting THEN 1
                       ELSE IF o \notin Events \cup Jobs THEN Level(o) + n - Cardinality(S)
                       ELSE IF S = {} THEN 1 ELSE Level(o)
    PROVE  D!DNext
<1>1. D!EndWaits(S, "ok")
  BY DEF D!EndWaits, Keep
<1>2. [x \in Objects |-> Level(x)]' = [[x \in Objects |-> Level(x)] EXCEPT ![o] =
          IF o \in Lasting THEN 1
          ELSE IF o \notin Events \cup Jobs THEN Level(o) + n - Cardinality(S)
          ELSE IF S = {} THEN 1 ELSE Level(o)]
  OBVIOUS
<1>3. D!Cardinality(S) = Cardinality(S)
  BY DEF D!Cardinality, Cardinality
<1>4. D!Signal(o, n, S)
  BY <1>1, <1>2, <1>3 DEF D!Signal
<1> QED
  BY <1>4 DEF D!DNext

LEMMA Clears ==
    ASSUME NEW o \in Events, Keep({}), Level(o)' = 0,
           \A x \in Objects \ {o} : Level(x)' = Level(x)
    PROVE  D!DNext
<1>1. o \in Objects
  BY DEF Objects
<1>2. [x \in Objects |-> Level(x)]' = [[x \in Objects |-> Level(x)] EXCEPT ![o] = 0]
  BY <1>1
<1>3. D!Clear(o)
  BY <1>2 DEF D!Clear, Keep
<1> QED
  BY <1>1, <1>3 DEF D!DNext

LEMMA Stutters == ASSUME Keep({}), LevelsKeep PROVE UNCHANGED D!dvars
BY DEF D!dvars, Keep, LevelsKeep

\* What a thread waits for, by where it is.
LEMMA Outcomes ==
    ASSUME TypeOK, NEW t \in Threads
    PROVE  /\ pc[t] \in {"idle", "signal"} => WaitsFor(t) = NoObject /\ Outcome(t) = "none"
           /\ pc[t] = "wait" => WaitsFor(t) = Obj(t) /\ Outcome(t) = "none"
           /\ pc[t] = "asleep" /\ (t \in told => Obj(t) \notin Ntsync) =>
                WaitsFor(t) = Obj(t) /\ Outcome(t) = "none"
           /\ pc[t] = "asleep" /\ t \in told /\ Obj(t) \in Ntsync =>
                WaitsFor(t) = NoObject /\ Outcome(t) = "ok"
           /\ pc[t] = "got" => WaitsFor(t) = NoObject /\ Outcome(t) = got[t] /\ got[t] # "none"
BY DEF WaitsFor, Outcome, Waiting, TypeOK

\* A step that leaves a thread where it is, unless the device serves it.
LEMMA Keeps ==
    ASSUME NEW S,
           \A u \in Threads \ S :
              /\ pc'[u] = pc[u] /\ call'[u] = call[u] /\ got'[u] = got[u]
              /\ (u \in told' <=> u \in told) \/ Obj(u) \notin Ntsync
    PROVE  Keep(S)
BY DEF Keep, WaitsFor, Outcome, Waiting, Obj

LEMMA SameLevels == ASSUME UNCHANGED state PROVE LevelsKeep
BY DEF state, LevelsKeep, Level

\* A wait that was open ends.
LEMMA Returns ==
    ASSUME TypeOK, NEW t \in Threads, NEW r \in {"ok", "timeout"}, SingleReturns(t, r),
           pc[t] \in {"wait", "asleep"}
    PROVE  Keep({t}) /\ WaitsFor(t)' = NoObject /\ Outcome(t)' = r
<1>1. /\ pc' = [pc EXCEPT ![t] = "got"] /\ got' = [got EXCEPT ![t] = r]
      /\ told' = told \ {t} /\ call' = call
  BY DEF SingleReturns
<1>2. pc'[t] = "got" /\ got'[t] = r
  BY <1>1 DEF TypeOK
<1>3. WaitsFor(t)' = NoObject /\ Outcome(t)' = r
  BY <1>2 DEF WaitsFor, Outcome, Waiting
<1>4. \A u \in Threads \ {t} :
        /\ pc'[u] = pc[u] /\ call'[u] = call[u] /\ got'[u] = got[u]
        /\ u \in told' <=> u \in told
  BY <1>1 DEF TypeOK
<1> QED
  BY <1>3, <1>4, Keeps

\* The object of a wait that succeeds gives one signal, or keeps it.
LEMMA TakeMaps ==
    ASSUME TypeOK, NEW t \in Threads, WaitsFor(t) = Obj(t), pc[t] \in {"wait", "asleep"}, Take(t)
    PROVE  D!DNext
<1>0. PICK o : o = Obj(t)
  OBVIOUS
<1>1. o \in Objects /\ Level(o) > 0 /\ Consume(o)
  BY <1>0, InCall DEF Take, Idle
<1>2. /\ o \in Ntsync => o \notin Jobs
      /\ o \in Ntsync \cap Lasting => o \in ManualEvents
      /\ o \in Semaphores => o \notin AutoEvents /\ o \notin Lasting
      /\ o \in AutoEvents => o \notin Lasting /\ o \notin Semaphores
      /\ o \notin Semaphores /\ o \notin AutoEvents => o \in Lasting
      /\ o \notin Semaphores => o \in Events \cup Jobs
  BY <1>1, Kinds DEF Objects, Events, Lasting
<1>3. \A x \in Objects \ {o} : Level(x)' = Level(x)
  <2>1. \A x \in Objects \ {o} :
          /\ x \in Ntsync => kernel'[x] = kernel[x]
          /\ x \in Semaphores => posted'[x] = posted[x]
          /\ x \notin Semaphores => signaled'[x] = signaled[x]
    BY <1>1 DEF Consume, TypeOK, Objects
  <2> QED
    BY <2>1 DEF Level
<1>4. Level(o)' = IF o \in Lasting THEN Level(o) ELSE Level(o) - 1
  <2>1. CASE o \in Ntsync
    <3>1. kernel'[o] = IF o \in Lasting THEN kernel[o] ELSE kernel[o] - 1
      BY <1>1, <2>1 DEF Consume, TypeOK
    <3> QED
      BY <2>1, <3>1 DEF Level
  <2>2. CASE o \in Semaphores \ Ntsync
    <3>1. posted'[o] = posted[o] - 1
      BY <1>1, <2>2 DEF Consume, TypeOK
    <3> QED
      BY <1>2, <2>2, <3>1 DEF Level
  <2>3. CASE o \in AutoEvents \ Ntsync
    <3>1. signaled[o] /\ ~signaled'[o]
      BY <1>1, <1>2, <2>3 DEF Consume, TypeOK, Level, Events
    <3> QED
      BY <1>2, <2>3, <3>1 DEF Level
  <2>4. CASE o \notin Ntsync /\ o \notin Semaphores /\ o \notin AutoEvents
    <3>1. signaled' = signaled
      BY <1>1, <2>4 DEF Consume
    <3> QED
      BY <1>2, <2>4, <3>1 DEF Level
  <2> QED
    BY <2>1, <2>2, <2>3, <2>4
<1>5. Keep({t}) /\ WaitsFor(t)' = NoObject /\ Outcome(t)' = "ok"
  BY Returns DEF Take
<1> QED
  BY <1>0, <1>1, <1>3, <1>4, <1>5, Acquires

\* A time-out takes nothing.
LEMMA TimeoutMaps ==
    ASSUME TypeOK, NEW t \in Threads, WaitsFor(t) = Obj(t), pc[t] \in {"wait", "asleep"},
           Obj(t) \notin Semaphores \ Ntsync => Level(Obj(t)) = 0,
           SingleReturns(t, "timeout"), UNCHANGED state
    PROVE  D!DNext
<1>1. Obj(t) \in Objects
  BY InCall DEF Idle
<1>2. Keep({t}) /\ WaitsFor(t)' = NoObject /\ Outcome(t)' = "timeout"
  BY Returns
<1> QED
  BY <1>1, <1>2, SameLevels, Expires

\* Falling asleep decides nothing.
LEMMA SleepMaps ==
    ASSUME TypeOK, NEW t \in Threads, WaitsFor(t) = Obj(t), pc[t] \in {"wait", "asleep"}, Sleep(t)
    PROVE  UNCHANGED D!dvars
<1>1. /\ pc' = [pc EXCEPT ![t] = "asleep"] /\ told' = told \ {t}
      /\ call' = call /\ got' = got /\ UNCHANGED state
  BY DEF Sleep
<1>2. pc'[t] = "asleep" /\ Obj(t)' = Obj(t)
  BY <1>1 DEF TypeOK, Obj
<1>3. WaitsFor(t)' = WaitsFor(t) /\ Outcome(t)' = Outcome(t)
  <2>1. Waiting(t)'
    BY <1>1, <1>2 DEF Waiting
  <2>2. Outcome(t) = "none"
    <3>1. Waiting(t)
      <4>1. Obj(t) \in Objects /\ NoObject \notin Objects
        BY InCall, Kinds DEF Idle
      <4> QED
        BY <4>1 DEF WaitsFor
    <3> QED
      BY <3>1 DEF Outcome
  <2> QED
    BY <1>2, <2>1, <2>2 DEF WaitsFor, Outcome
<1>4. \A u \in Threads \ {t} :
        /\ pc'[u] = pc[u] /\ call'[u] = call[u] /\ got'[u] = got[u]
        /\ u \in told' <=> u \in told
  BY <1>1 DEF TypeOK
<1>5. Keep({t})
  BY <1>4, Keeps
<1>6. Keep({})
  BY <1>3, <1>5 DEF Keep
<1> QED
  BY <1>1, <1>6, SameLevels, Stutters

LEMMA WaitsMaps ==
    ASSUME TypeOK, ServedInv, NEW t \in Threads, Waits(t)
    PROVE  D!DNext \/ UNCHANGED D!dvars
<1>1. ASSUME NEW on \in menu, NEW for, NEW wait, BeginWait(t, on, wait, for)
      PROVE  D!DNext
  <2>1. /\ pc[t] = "idle" /\ pc' = [pc EXCEPT ![t] = "wait"]
        /\ call' = [call EXCEPT ![t] = [wait |-> wait, on |-> on, at |-> 1, for |-> for]]
        /\ UNCHANGED <<state, told, left, got, menu>>
    BY <1>1 DEF BeginWait, Idle
  <2>2. on[1] \in Objects
    <3>1. on \in Seq(Objects) /\ Len(on) \in Nat \ {0} /\ DOMAIN on = 1..Len(on)
      BY Kinds DEF TypeOK
    <3> QED
      BY <3>1, ElementOfSeq
  <2>3. pc'[t] = "wait" /\ Obj(t)' = on[1]
    BY <2>1 DEF TypeOK, Obj
  <2>4. WaitsFor(t)' = on[1] /\ Outcome(t)' = "none"
    BY <2>3 DEF WaitsFor, Outcome, Waiting
  <2>5. \A u \in Threads \ {t} :
          /\ pc'[u] = pc[u] /\ call'[u] = call[u] /\ got'[u] = got[u]
          /\ u \in told' <=> u \in told
    BY <2>1 DEF TypeOK
  <2>6. Keep({t}) /\ LevelsKeep /\ WaitsFor(t) = NoObject /\ Outcome(t) = "none"
    BY <2>1, <2>5, Keeps, SameLevels, Outcomes
  <2> QED
    BY <2>2, <2>4, <2>6, Begins
<1>2. ASSUME pc[t] \in {"wait", "asleep"}, WaitsFor(t) = Obj(t),
             Take(t) \/ GiveUp(t) \/ Sleep(t)
      PROVE  D!DNext \/ UNCHANGED D!dvars
  BY <1>2, TakeMaps, TimeoutMaps, SleepMaps DEF GiveUp
<1>3. ASSUME Look(t) PROVE D!DNext \/ UNCHANGED D!dvars
  <2>1. pc[t] = "wait" /\ WaitsFor(t) = Obj(t) /\ (Take(t) \/ GiveUp(t) \/ Sleep(t))
    BY <1>3, Outcomes DEF Look
  <2> QED
    BY <1>2, <2>1
<1>4. ASSUME WakeUp(t) \/ TimesOut(t) \/ SemTakes(t) PROVE D!DNext \/ UNCHANGED D!dvars
  <2>1. pc[t] = "asleep" /\ Obj(t) \notin Ntsync /\ (Take(t) \/ GiveUp(t) \/ Sleep(t))
    BY <1>4 DEF WakeUp, TimesOut, SemTakes, Flags
  <2> QED
    BY <1>2, <2>1, Outcomes
<1>5. ASSUME SemTimesOut(t) PROVE D!DNext
  <2>1. /\ pc[t] = "asleep" /\ Obj(t) \in Semaphores \ Ntsync
        /\ SingleReturns(t, "timeout") /\ UNCHANGED state
    BY <1>5 DEF SemTimesOut
  <2> QED
    BY <2>1, Outcomes, TimeoutMaps
<1>6. ASSUME NtsyncReturns(t) PROVE D!DNext \/ UNCHANGED D!dvars
  <2>1. pc[t] = "asleep" /\ Obj(t) \in Ntsync /\ UNCHANGED state
    BY <1>6 DEF NtsyncReturns
  <2>2. CASE t \in told /\ SingleReturns(t, "ok")
    <3>1. Keep({t}) /\ WaitsFor(t)' = NoObject /\ Outcome(t)' = "ok"
      BY <2>1, <2>2, Returns
    <3>2. WaitsFor(t) = NoObject /\ Outcome(t) = "ok"
      BY <2>1, <2>2, Outcomes
    <3>3. Keep({})
      BY <3>1, <3>2 DEF Keep
    <3> QED
      BY <2>1, <3>3, SameLevels, Stutters
  <2>3. CASE t \notin told /\ SingleReturns(t, "timeout")
    <3>1. WaitsFor(t) = Obj(t)
      BY <2>1, <2>3, Outcomes
    <3>2. Level(Obj(t)) = 0
      <4>1. t \in Sleepers(Obj(t))
        BY <2>1, <2>3 DEF Sleepers
      <4>2. kernel[Obj(t)] \in 0..MaximumCount /\ ~(kernel[Obj(t)] > 0)
        BY <2>1, <4>1 DEF ServedInv, TypeOK
      <4> QED
        BY <2>1, <4>2, Kinds DEF Level
    <3> QED
      BY <2>1, <2>3, <3>1, <3>2, TimeoutMaps
  <2> QED
    BY <1>6, <2>2, <2>3 DEF NtsyncReturns
<1>7. ASSUME WaitAllNext(t) \/ WaitAnyNext(t) PROVE D!DNext
  <2>1. pc[t] = "got" /\ ~Idle(t) /\ UNCHANGED <<state, told, left, menu>>
    BY <1>7 DEF WaitAllNext, WaitAnyNext, Idle
  <2>2. Outcome(t) # "none" /\ LevelsKeep
    BY <2>1, Outcomes, SameLevels
  <2>3. CASE CallReturns(t)
    <3>1. pc'[t] = "idle" /\ got'[t] = "none"
      BY <2>3 DEF CallReturns, TypeOK
    <3>2. WaitsFor(t)' = NoObject /\ Outcome(t)' = "none"
      BY <3>1 DEF WaitsFor, Outcome, Waiting
    <3>3. \A u \in Threads \ {t} :
            /\ pc'[u] = pc[u] /\ call'[u] = call[u] /\ got'[u] = got[u]
            /\ u \in told' <=> u \in told
      BY <2>1, <2>3 DEF CallReturns, TypeOK
    <3> QED
      BY <2>2, <3>2, <3>3, Keeps, Collects
  <2>4. ASSUME NEW i \in DOMAIN call[t].on, NextHandle(t, i) PROVE D!DNext
    <3>1. call'[t].on = call[t].on /\ call'[t].at = i
      BY <2>1, <2>4, NextHandleTypes
    <3>2. call[t].on[i] \in Objects
      BY <2>1, InCall, ElementOfSeq
    <3>3. pc'[t] = "wait" /\ Obj(t)' = call[t].on[i]
      BY <2>4, <3>1 DEF NextHandle, TypeOK, Obj
    <3>4. WaitsFor(t)' = call[t].on[i] /\ Outcome(t)' = "none"
      BY <3>3 DEF WaitsFor, Outcome, Waiting
    <3>5. \A u \in Threads \ {t} :
            /\ pc'[u] = pc[u] /\ call'[u] = call[u] /\ got'[u] = got[u]
            /\ u \in told' <=> u \in told
      BY <2>1, <2>4 DEF NextHandle, TypeOK
    <3> QED
      BY <2>2, <3>2, <3>4, <3>5, Keeps, Collects
  <2>5. /\ DOMAIN call[t].on = 1..Len(call[t].on) /\ Len(call[t].on) \in Nat
        /\ call[t].at \in 1..Len(call[t].on)
    BY <2>1, InCall
  <2>6. /\ 1 \in DOMAIN call[t].on
        /\ call[t].at < Len(call[t].on) => call[t].at + 1 \in DOMAIN call[t].on
    BY <2>5
  <2> QED
    BY <1>7, <2>3, <2>4, <2>6 DEF WaitAllNext, WaitAnyNext
<1> QED
  BY <1>1, <1>3, <1>4, <1>5, <1>6, <1>7, Zenon DEF Waits

\* A thread that signals waits for nothing.
LEMMA Moves ==
    ASSUME TypeOK, NEW t \in Threads, pc[t] \in {"idle", "signal"},
           pc'[t] \in {"idle", "signal"}, got'[t] = "none",
           \A u \in Threads \ {t} :
              /\ pc'[u] = pc[u] /\ call'[u] = call[u] /\ got'[u] = got[u]
              /\ (u \in told' <=> u \in told) \/ Obj(u) \notin Ntsync
    PROVE  Keep({})
<1>1. WaitsFor(t)' = NoObject /\ Outcome(t)' = "none"
  BY DEF WaitsFor, Outcome, Waiting
<1>2. WaitsFor(t) = NoObject /\ Outcome(t) = "none"
  BY Outcomes
<1>3. Keep({t})
  BY Keeps
<1> QED
  BY <1>1, <1>2, <1>3 DEF Keep

\* The device serves the threads it picks, each with a success.
LEMMA ServeMaps ==
    ASSUME TypeOK, ServedInv, NEW t \in Threads, NEW o \in Ntsync, NEW n \in 1..MaxRelease,
           Serve(o, n), o \in Events => n = 1, Idle(t), pc'[t] \in {"idle", "signal"}, got' = got,
           \A u \in Threads \ {t} : pc'[u] = pc[u] /\ call'[u] = call[u],
           signaled' = signaled, posted' = posted
    PROVE  D!DNext
<1>1. n \in Nat \ {0} /\ o \in Objects
  BY Kinds DEF Objects
<1>2. PICK S \in SUBSET Sleepers(o) :
        /\ o \notin Lasting => Cardinality(S) <= n
        /\ told' = told \cup S
        /\ kernel' = [kernel EXCEPT ![o] =
                         IF o \in Lasting THEN 1
                         ELSE IF o \in Semaphores THEN kernel[o] + n - Cardinality(S)
                         ELSE IF S = {} THEN 1 ELSE kernel[o]]
  BY <1>1, Served
<1>3. \A u \in S : /\ u \in Threads \ {t} /\ pc[u] = "asleep" /\ Obj(u) = o /\ u \notin told
                   /\ u \in told' /\ pc'[u] = "asleep" /\ Obj(u)' = o
  BY <1>2 DEF Sleepers, Idle, Obj
<1>4. \A u \in S : WaitsFor(u) = o /\ WaitsFor(u)' = NoObject /\ Outcome(u)' = "ok"
  BY <1>3 DEF WaitsFor, Outcome, Waiting
<1>5. Keep(S)
  <2>1. Outcome(t) = "none" /\ WaitsFor(t) = NoObject /\ got[t] = "none"
    BY Outcomes, NotInCall DEF Idle
  <2>2. Outcome(t)' = "none" /\ WaitsFor(t)' = NoObject
    BY <2>1 DEF WaitsFor, Outcome, Waiting
  <2>3. \A u \in Threads \ (S \cup {t}) :
          /\ pc'[u] = pc[u] /\ call'[u] = call[u] /\ got'[u] = got[u]
          /\ u \in told' <=> u \in told
    BY <1>2
  <2>4. Keep(S \cup {t})
    BY <2>3, Keeps
  <2> QED
    BY <2>1, <2>2, <2>4 DEF Keep
<1>6. \A x \in Objects \ {o} : Level(x)' = Level(x)
  BY <1>2 DEF Level, TypeOK
<1>7. Level(o)' = IF o \in Lasting THEN 1
                  ELSE IF o \notin Events \cup Jobs THEN Level(o) + n - Cardinality(S)
                  ELSE IF S = {} THEN 1 ELSE Level(o)
  <2>1. o \in Semaphores <=> o \notin Events \cup Jobs
    BY <1>1, Kinds
  <2>2. kernel'[o] = IF o \in Lasting THEN 1
                     ELSE IF o \in Semaphores THEN kernel[o] + n - Cardinality(S)
                     ELSE IF S = {} THEN 1 ELSE kernel[o]
    BY <1>2 DEF TypeOK
  <2> QED
    BY <2>1, <2>2 DEF Level
<1>8. S \in SUBSET Threads
  BY <1>3
<1> QED
  BY <1>1, <1>2, <1>4, <1>5, <1>6, <1>7, <1>8, Signalled

\* One more signal, which nobody has taken yet.
LEMMA SignalMaps ==
    ASSUME NEW o \in Objects, Keep({}), \A x \in Objects \ {o} : Level(x)' = Level(x),
           Level(o)' = IF o \in Semaphores THEN Level(o) + 1 ELSE 1, Level(o) \in Nat
    PROVE  D!DNext
<1>1. 1 \in 1..MaxRelease
  BY Kinds
<1>2. Cardinality({}) = 0
  BY FS_EmptySet
<1>3. /\ o \in Semaphores <=> o \notin Events \cup Jobs
      /\ o \in Semaphores => o \notin Lasting
  BY Kinds DEF Lasting, Events
<1>4. Level(o)' = IF o \in Lasting THEN 1
                  ELSE IF o \notin Events \cup Jobs THEN Level(o) + 1 - Cardinality({})
                  ELSE IF {} = {} THEN 1 ELSE Level(o)
  BY <1>2, <1>3
<1> QED
  BY <1>1, <1>2, <1>4, Signalled

\* Setting and resetting flags.
LEMMA FlagLevels ==
    ASSUME TypeOK, NEW o \in Flags, NEW b \in BOOLEAN, signaled' = [signaled EXCEPT ![o] = b],
           posted' = posted, kernel' = kernel
    PROVE  /\ o \in Objects /\ o \notin Semaphores /\ Level(o) \in Nat
           /\ Level(o)' = IF b THEN 1 ELSE 0
           /\ \A x \in Objects \ {o} : Level(x)' = Level(x)
<1>1. o \in Objects /\ o \notin Semaphores /\ o \notin Ntsync /\ o \in Events \cup Jobs
  BY Kinds DEF Flags, Objects
<1>2. signaled'[o] = b /\ \A x : x # o /\ x \in Events \cup Jobs => signaled'[x] = signaled[x]
  BY <1>1 DEF TypeOK
<1>3. \A x \in Objects \ {o} : Level(x)' = Level(x)
  BY <1>2 DEF Level, Objects
<1> QED
  BY <1>1, <1>2, <1>3 DEF Level

LEMMA SignalsMaps ==
    ASSUME TypeOK, ServedInv, NEW t \in Threads, Signals(t)
    PROVE  D!DNext \/ UNCHANGED D!dvars
<1>1. ASSUME NEW what, NEW o, Halfway(t, what, o)
      PROVE  pc'[t] = "signal" /\ \A u \in Threads \ {t} : pc'[u] = pc[u] /\ call'[u] = call[u]
  BY <1>1 DEF Halfway, TypeOK
<1>2. ASSUME CallReturns(t)
      PROVE  /\ pc'[t] = "idle" /\ got'[t] = "none"
             /\ \A u \in Threads \ {t} :
                  pc'[u] = pc[u] /\ call'[u] = call[u] /\ got'[u] = got[u]
  BY <1>2 DEF CallReturns, TypeOK
<1>3. pc[t] \in {"idle", "signal"} => got[t] = "none"
  BY DEF TypeOK
<1>4. ASSUME NEW e \in Events, SetEvent(t, e) PROVE D!DNext
  <2>1. CASE e \in Ntsync
    <3>1. /\ Idle(t) /\ Serve(e, 1) /\ Halfway(t, "set", e)
          /\ signaled' = signaled /\ posted' = posted /\ got' = got
      BY <1>4, <2>1 DEF SetEvent
    <3>2. 1 \in 1..MaxRelease
      BY Kinds
    <3> QED
      BY <1>1, <2>1, <3>1, <3>2, ServeMaps
  <2>2. CASE e \notin Ntsync
    <3>1. /\ Idle(t) /\ signaled' = [signaled EXCEPT ![e] = TRUE]
          /\ Broadcast(e) \/ SignalOne(e)
          /\ UNCHANGED <<kernel, pc, call, posted, left, got, menu>>
      BY <1>4, <2>2 DEF SetEvent
    <3>2. \A u \in Threads : (u \in told' <=> u \in told) \/ Obj(u) = e
      BY <3>1 DEF Broadcast, SignalOne, Sleepers
    <3>3. Keep({})
      BY <2>2, <3>1, <3>2, Keeps
    <3>4. e \in Flags
      BY <2>2 DEF Flags
    <3> QED
      BY <3>1, <3>3, <3>4, FlagLevels, SignalMaps
  <2> QED
    BY <2>1, <2>2
<1>5. ASSUME NEW e \in Events, ResetEvent(t, e) PROVE D!DNext
  <2>1. CASE e \in Ntsync
    <3>1. /\ Idle(t) /\ kernel' = [kernel EXCEPT ![e] = 0] /\ Halfway(t, "reset", e)
          /\ UNCHANGED <<signaled, posted, told, left, got, menu>>
      BY <1>5, <2>1 DEF ResetEvent
    <3>2. Keep({})
      BY <1>1, <1>3, <3>1, Moves DEF Idle
    <3>3. kernel'[e] = 0 /\ \A x \in Ntsync : x # e => kernel'[x] = kernel[x]
      BY <2>1, <3>1 DEF TypeOK
    <3>4. Level(e)' = 0 /\ \A x \in Objects \ {e} : Level(x)' = Level(x)
      BY <2>1, <3>1, <3>3 DEF Level
    <3> QED
      BY <3>2, <3>4, Clears
  <2>2. CASE e \notin Ntsync
    <3>1. /\ signaled' = [signaled EXCEPT ![e] = FALSE]
          /\ UNCHANGED <<kernel, pc, call, posted, told, left, got, menu>>
      BY <1>5, <2>2 DEF ResetEvent
    <3>2. Keep({})
      BY <3>1, Keeps
    <3>3. e \in Flags
      BY <2>2 DEF Flags
    <3> QED
      BY <3>1, <3>2, <3>3, FlagLevels, Clears
  <2> QED
    BY <2>1, <2>2
<1>6. ASSUME SetEventFlag(t) \/ ResetEventFlag(t) PROVE UNCHANGED D!dvars
  <2>1. /\ pc[t] = "signal" /\ Obj(t) \in Ntsync /\ CallReturns(t)
        /\ \E b \in BOOLEAN : signaled' = [signaled EXCEPT ![Obj(t)] = b]
        /\ UNCHANGED <<posted, kernel, told, left, menu>>
    BY <1>6 DEF SetEventFlag, ResetEventFlag, SecondHalf, TypeOK
  <2>2. Keep({})
    BY <1>2, <1>3, <2>1, Moves
  <2>3. \A x \in Objects : x \notin Ntsync /\ x \notin Semaphores => signaled'[x] = signaled[x]
    BY <2>1 DEF TypeOK, Objects
  <2>4. LevelsKeep
    BY <2>1, <2>3 DEF LevelsKeep, Level
  <2> QED
    BY <2>2, <2>4, Stutters
<1>7. ASSUME NEW s \in Semaphores, NEW n \in 1..MaxRelease, ReleaseSemaphore(t, s, n)
      PROVE  D!DNext \/ UNCHANGED D!dvars
  <2>1. CASE s \in Ntsync
    <3>1. /\ Idle(t) /\ Serve(s, n) /\ UNCHANGED <<pc, call, left, signaled, posted, got, menu>>
      BY <1>7, <2>1 DEF ReleaseSemaphore
    <3>2. s \notin Events
      BY Kinds DEF Objects
    <3> QED
      BY <2>1, <3>1, <3>2, ServeMaps DEF Idle
  <2>2. CASE s \notin Ntsync
    <3>1. /\ Idle(t) /\ Halfway(t, "post", s)
          /\ UNCHANGED <<kernel, told, signaled, posted, got, menu>>
      BY <1>7, <2>2 DEF ReleaseSemaphore
    <3>2. Keep({})
      BY <1>1, <1>3, <3>1, Moves DEF Idle
    <3>3. LevelsKeep
      BY <3>1, SameLevels DEF state
    <3> QED
      BY <3>2, <3>3, Stutters
  <2> QED
    BY <2>1, <2>2
<1>8. ASSUME SemPost(t) PROVE D!DNext
  <2>1. PICK s : s = Obj(t)
    OBVIOUS
  <2>2. /\ pc[t] = "signal" /\ s \in Semaphores \ Ntsync
        /\ posted' = [posted EXCEPT ![s] = posted[s] + 1]
        /\ CallReturns(t) \/ UNCHANGED <<pc, call, got>>
        /\ UNCHANGED <<signaled, kernel, told, menu>>
    BY <1>8, <2>1 DEF SemPost, SecondHalf, TypeOK
  <2>3. Keep({})
    BY <1>2, <1>3, <2>2, Moves
  <2>4. /\ posted[s] \in Nat /\ posted'[s] = posted[s] + 1
        /\ \A x \in Semaphores : x # s => posted'[x] = posted[x]
    BY <2>2 DEF TypeOK
  <2>5. /\ Level(s) \in Nat /\ Level(s)' = Level(s) + 1
        /\ \A x \in Objects \ {s} : Level(x)' = Level(x)
    BY <2>2, <2>4 DEF Level
  <2>6. s \in Objects
    BY <2>2 DEF Objects
  <2> QED
    BY <2>2, <2>3, <2>5, <2>6, SignalMaps
<1> QED
  BY <1>4, <1>5, <1>6, <1>7, <1>8 DEF Signals

\* Every step of the waits and signals is one of the Dispatcher or none.
LEMMA NextMaps ==
    ASSUME TypeOK, ServedInv, [Next]_vars
    PROVE  [D!DNext]_(D!dvars)
<1>1. ASSUME NEW j \in Jobs, FinishThread(j) PROVE D!DNext
  <2>1. /\ signaled' = [signaled EXCEPT ![j] = TRUE] /\ Broadcast(j)
        /\ UNCHANGED <<posted, kernel, pc, call, left, got, menu>>
    BY <1>1 DEF FinishThread
  <2>2. j \in Flags
    BY Kinds DEF Flags, Objects
  <2>3. \A u \in Threads : (u \in told' <=> u \in told) \/ Obj(u) \notin Ntsync
    BY <2>1, <2>2 DEF Broadcast, Sleepers, Flags
  <2>4. Keep({})
    BY <2>1, <2>3, Keeps
  <2> QED
    BY <2>1, <2>2, <2>4, FlagLevels, SignalMaps
<1>2. ASSUME UNCHANGED vars PROVE UNCHANGED D!dvars
  <2>1. Keep({}) /\ LevelsKeep
    BY <1>2, Keeps, SameLevels DEF vars
  <2> QED
    BY <2>1, Stutters
<1> QED
  BY <1>1, <1>2, WaitsMaps, SignalsMaps DEF Next, Threads

LEMMA InitMaps == Init => D!DInit
<1> SUFFICES ASSUME Init PROVE D!DInit
  OBVIOUS
<1>1. TypeOK
  BY InitTypes
<1>2. ASSUME NEW o \in Objects PROVE Level(o) \in Nat
  <2>1. /\ o \in Ntsync => kernel[o] \in Nat
        /\ o \in Semaphores => posted[o] \in Nat
    BY <1>1, Kinds DEF TypeOK
  <2> QED
    BY <2>1 DEF Level
<1>3. \A t \in Threads : WaitsFor(t) = NoObject /\ Outcome(t) = "none"
  BY <1>1, Outcomes DEF Init
<1> QED
  BY <1>2, <1>3 DEF D!DInit

\* On either back end, with the flag set in a second step or the kernel waking
\* sleepers itself, every wait and signal is one of the Dispatcher: what a
\* thread gets is decided at one instant, a success takes one signal, a
\* time-out none.
THEOREM Dispatches == Spec => ImplementsDispatcher
<1>1. Init => TypeOK /\ ServedInv /\ D!DInit
  <2>1. Init => ServedInv
    BY DEF Init, ServedInv, Sleepers
  <2> QED
    BY <2>1, InitTypes, InitMaps
<1>2. TypeOK /\ ServedInv /\ [Next]_vars => (TypeOK /\ ServedInv)'
  BY NextTypes, NextServes
<1>3. TypeOK /\ ServedInv /\ [Next]_vars => [D!DNext]_(D!dvars)
  BY NextMaps
<1> QED
  BY <1>1, <1>2, <1>3, PTL DEF Spec, ImplementsDispatcher, D!DSpec
=============================================================================

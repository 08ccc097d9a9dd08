--------------------------- MODULE ThreadEndProofs --------------------------
(***************************************************************************)
(* Proofs about ThreadEnd: for any threads, slots, passes and allocations, *)
(* an FLS value has one place and one callback, a thread that was joined   *)
(* has left no storage, and its object is deleted once, by the last.       *)
(***************************************************************************)
EXTENDS ThreadEnd, FiniteSetTheorems, TLAPS

Entry == [of : Threads, slot : Slots, value : Nat, callback : Nat]

\* Who holds an entry of the slot s of thread t, and the entry.
Held(t, s) ==
    UNION {{<<u, e>> : e \in {b \in batch[u] : b.of = t /\ b.slot = s}} : u \in Threads}

\* What is due for a slot is its value and what is held of it.
HeldInv ==
    /\ \A t \in Threads, s \in Slots :
        /\ values[t][s] \in {0, alloc[s]}
        /\ IsFiniteSet(Held(t, s))
        /\ owed[t][s] = Due(t, s) + Cardinality(Held(t, s))
    /\ \A t \in Threads : \A e \in batch[t] : e.value = e.callback

\* How far a thread's drain has come.
DrainInv == \A t \in Threads :
    /\ pc[t] \in {"none", "drained", "deleting", "gone"} => t \notin states
    /\ pc[t] = "erasing" /\ pass[t] < MaxPasses => \A s \in Slots : values[t][s] = 0
    /\ t \in lost => pass[t] = MaxPasses /\ pc[t] \in {"drained", "deleting", "gone"}

\* Which calls use the object of a thread, and which is about to delete it.
UserInv == \A t \in Threads :
    /\ pc[t] \in {"joining", "closing"} <=> on[t] # NoThread
    /\ on[t] # NoThread => on[t] \notin Hosts /\ pc[on[t]] # "none"
    /\ pc[t] = "joining" => ~closed[on[t]]
    /\ pc[t] = "closing" =>
            /\ finished[on[t]] /\ closed[on[t]] /\ freed[on[t]] = 0 /\ pc[on[t]] = "gone"
            /\ \A u \in Threads : on[u] = on[t] => u = t

\* The end of the object of a thread.
ObjectInv == \A t \in Threads :
    /\ finished[t] <=> t \notin Hosts /\ pc[t] \in {"deleting", "gone"}
    /\ closed[t] => t \notin Hosts /\ pc[t] # "none"
    /\ pc[t] = "deleting" => closed[t] /\ freed[t] = 0 /\ t \notin Hosts
    /\ freed[t] <= 1
    /\ freed[t] = 1 =>
            finished[t] /\ closed[t] /\ pc[t] = "gone" /\ \A u \in Threads : on[u] # t
    /\ closed[t] /\ pc[t] = "gone" /\ (\A u \in Threads : on[u] # t) => freed[t] = 1

\* The inductive invariant.
IInv == TypeOK /\ HeldInv /\ DrainInv /\ UserInv /\ ObjectInv

---------------------------------------------------------------------------
(* What is held of a slot.                                                 *)

\* The members of Held, without its UNION.
LEMMA HeldDef ==
    ASSUME NEW t, NEW s, NEW h
    PROVE  h \in Held(t, s) <=>
               \E u \in Threads : \E e \in batch[u] : e.of = t /\ e.slot = s /\ h = <<u, e>>
BY DEF Held

\* Held changes with the batches alone.
LEMMA HeldSame ==
    ASSUME batch' = batch, NEW t, NEW s
    PROVE  Held(t, s)' = Held(t, s)
BY DEF Held

\* A thread that fills its empty batch holds what it takes.
LEMMA HeldTakes ==
    ASSUME NEW u \in Threads, NEW B, batch \in [Threads -> SUBSET Entry], batch[u] = {},
           batch' = [batch EXCEPT ![u] = B], NEW t, NEW s
    PROVE  /\ Held(t, s)' =
                  Held(t, s) \cup {<<u, e>> : e \in {b \in B : b.of = t /\ b.slot = s}}
           /\ \A e : <<u, e>> \notin Held(t, s)
<1>1. batch'[u] = B /\ \A v \in Threads \ {u} : batch'[v] = batch[v]
  OBVIOUS
<1>2. \A h : h \in Held(t, s)' <=>
          \E v \in Threads : \E e \in batch'[v] : e.of = t /\ e.slot = s /\ h = <<v, e>>
  BY DEF Held
<1>3. \A e : <<u, e>> \notin Held(t, s)
  BY HeldDef
<1>4. ASSUME NEW h
      PROVE  h \in Held(t, s)' <=>
                 h \in Held(t, s) \/ \E e \in B : e.of = t /\ e.slot = s /\ h = <<u, e>>
  <2>1. h \in Held(t, s)' =>
            h \in Held(t, s) \/ \E e \in B : e.of = t /\ e.slot = s /\ h = <<u, e>>
    BY <1>1, <1>2, HeldDef
  <2>2. h \in Held(t, s) => h \in Held(t, s)'
    <3>1. SUFFICES ASSUME h \in Held(t, s) PROVE h \in Held(t, s)'
      OBVIOUS
    <3>2. PICK v \in Threads : \E f \in batch[v] : f.of = t /\ f.slot = s /\ h = <<v, f>>
      BY <3>1, HeldDef
    <3> QED
      BY <1>1, <1>2, <3>2
  <2>3. ASSUME NEW e \in B, e.of = t, e.slot = s PROVE <<u, e>> \in Held(t, s)'
    BY <1>1, <1>2, <2>3
  <2> QED
    BY <2>1, <2>2, <2>3
<1> QED
  BY <1>3, <1>4

\* A thread that runs a callback holds its entry no more.
LEMMA HeldGives ==
    ASSUME NEW u \in Threads, NEW e \in batch[u], batch \in [Threads -> SUBSET Entry],
           batch' = [batch EXCEPT ![u] = @ \ {e}],
           NEW t, NEW s
    PROVE  /\ Held(t, s)' = Held(t, s) \ {<<u, e>>}
           /\ <<u, e>> \in Held(t, s) <=> e.of = t /\ e.slot = s
<1>1. batch'[u] = batch[u] \ {e} /\ \A v \in Threads \ {u} : batch'[v] = batch[v]
  OBVIOUS
<1>2. \A h : h \in Held(t, s)' <=>
          \E v \in Threads : \E f \in batch'[v] : f.of = t /\ f.slot = s /\ h = <<v, f>>
  BY DEF Held
<1>3. ASSUME NEW h PROVE h \in Held(t, s)' <=> h \in Held(t, s) \ {<<u, e>>}
  <2>1. h \in Held(t, s)' => h \in Held(t, s) /\ h # <<u, e>>
    BY <1>1, <1>2, HeldDef
  <2>2. h \in Held(t, s) /\ h # <<u, e>> => h \in Held(t, s)'
    BY <1>1, <1>2, HeldDef
  <2> QED
    BY <2>1, <2>2
<1>4. <<u, e>> \in Held(t, s) <=> e.of = t /\ e.slot = s
  BY HeldDef
<1> QED
  BY <1>3, <1>4

\* What a step that holds as much as before has to show of the invariant.
LEMMA HeldKeeps ==
    ASSUME HeldInv, batch' = batch,
           \A t \in Threads, s \in Slots :
               /\ values'[t][s] \in {0, alloc'[s]}
               /\ owed'[t][s] = owed[t][s] - Due(t, s) + Due(t, s)'
    PROVE  HeldInv' /\ \A t \in Threads, s \in Slots : owed'[t][s] \in Nat
<1>1. ASSUME NEW t \in Threads, NEW s \in Slots
      PROVE  /\ IsFiniteSet(Held(t, s)')
             /\ owed'[t][s] = Due(t, s)' + Cardinality(Held(t, s)')
             /\ owed'[t][s] \in Nat
  <2>1. Held(t, s)' = Held(t, s) /\ IsFiniteSet(Held(t, s))
    BY HeldSame DEF HeldInv
  <2>2. Cardinality(Held(t, s)) \in Nat
    BY <2>1, FS_CardinalityType
  <2>3. Due(t, s) \in Nat /\ Due(t, s)' \in Nat
    BY DEF Due
  <2>4. owed[t][s] = Due(t, s) + Cardinality(Held(t, s))
    BY DEF HeldInv
  <2> QED
    BY <2>1, <2>2, <2>3, <2>4
<1> QED
  BY <1>1 DEF HeldInv


\* What Taken has: an entry for each slot with a callback and a value.
LEMMA TakenDef ==
    ASSUME NEW STATE T, NEW STATE S, NEW e
    PROVE  e \in Taken(T, S) <=>
               \E t \in T : \E s \in S :
                   /\ callback[s] /\ values[t][s] # 0
                   /\ e = [of |-> t, slot |-> s, value |-> values[t][s], callback |-> alloc[s]]
BY DEF Taken, Entries

\* A step that takes the values of some threads in some slots, and frees
\* slots only where no value stays, holds what is due.
LEMMA TakingKeeps ==
    ASSUME TypeOK, HeldInv, NEW u \in Threads, batch[u] = {},
           NEW STATE T, T \subseteq Threads, NEW STATE S, S \subseteq Slots,
           batch' = [batch EXCEPT ![u] = Taken(T, S)],
           values' = Cleared(T, S), owed' = owed,
           \A s \in Slots : \/ alloc'[s] = alloc[s] /\ callback'[s] = callback[s]
                            \/ s \in S /\ T = states /\ alloc'[s] = 0 /\ callback'[s] = FALSE
    PROVE  /\ HeldInv'
           /\ batch' \in [Threads -> SUBSET Entry]
           /\ values' \in [Threads -> [Slots -> Nat]]
           /\ \A t \in Threads, s \in Slots : values'[t][s] \in {0, values[t][s]}
<1>0. \A s \in Slots : alloc[s] \in 0..MaxAllocs
  BY DEF TypeOK
<1>9. \A s \in Slots : alloc[s] \in Nat
  BY <1>0, ThreadEndAssumption
<1>1. batch \in [Threads -> SUBSET Entry] /\ values \in [Threads -> [Slots -> Nat]]
  BY DEF TypeOK, Entry
<1>2. \A e \in Taken(T, S) : e \in Entry /\ e.value = e.callback
  <2>1. ASSUME NEW e \in Taken(T, S) PROVE e \in Entry /\ e.value = e.callback
    <3>1. PICK t \in T, s \in S :
              /\ values[t][s] # 0
              /\ e = [of |-> t, slot |-> s, value |-> values[t][s], callback |-> alloc[s]]
      BY TakenDef
    <3>2. values[t][s] = alloc[s] /\ alloc[s] \in Nat
      BY <1>9, <3>1 DEF HeldInv
    <3> QED
      BY <3>1, <3>2 DEF Entry
  <2> QED
    BY <2>1
<1>4. batch' \in [Threads -> SUBSET Entry]
  BY <1>1, <1>2
<1>5. \A t \in Threads, s \in Slots :
          values'[t][s] = IF t \in T /\ s \in S THEN 0 ELSE values[t][s]
  BY DEF Cleared
<1>6. values' \in [Threads -> [Slots -> Nat]]
  BY <1>1 DEF Cleared
<1>7. ASSUME NEW t \in Threads, NEW s \in Slots
      PROVE  /\ values'[t][s] \in {0, alloc'[s]}
             /\ IsFiniteSet(Held(t, s)')
             /\ owed'[t][s] = Due(t, s)' + Cardinality(Held(t, s)')
  <2>1. /\ values[t][s] \in {0, alloc[s]} /\ IsFiniteSet(Held(t, s))
        /\ owed[t][s] = Due(t, s) + Cardinality(Held(t, s))
        /\ Cardinality(Held(t, s)) \in Nat
    BY FS_CardinalityType DEF HeldInv
  <2>2. t \notin states => values[t][s] = 0
    BY DEF TypeOK
  <2>3. values'[t][s] \in {0, alloc'[s]}
    BY <1>5, <2>1, <2>2
  <2>4. PICK B : B = Taken(T, S)
    OBVIOUS
  <2>5. /\ Held(t, s)' = Held(t, s) \cup {<<u, e>> : e \in {b \in B : b.of = t /\ b.slot = s}}
        /\ \A e : <<u, e>> \notin Held(t, s)
    <3>1. batch' = [batch EXCEPT ![u] = B]
      BY <2>4
    <3> QED
      BY <1>1, <3>1, HeldTakes
  <2> DEFINE n == [of |-> t, slot |-> s, value |-> values[t][s], callback |-> alloc[s]]
  <2>6. \A e \in B : e.of = t /\ e.slot = s => e = n
    BY <2>4, TakenDef
  <2>7. n \in B <=> t \in T /\ s \in S /\ callback[s] /\ values[t][s] # 0
    BY <2>4, TakenDef
  <2>8. CASE n \in B
    <3>1. {<<u, e>> : e \in {b \in B : b.of = t /\ b.slot = s}} = {<<u, n>>}
      BY <2>6, <2>8
    <3>2. Held(t, s)' = Held(t, s) \cup {<<u, n>>} /\ <<u, n>> \notin Held(t, s)
      BY <2>5, <3>1
    <3>3. Due(t, s) = 1 /\ Due(t, s)' = 0
      BY <1>5, <2>7, <2>8 DEF Due
    <3> HIDE DEF n
    <3>4. /\ IsFiniteSet(Held(t, s) \cup {<<u, n>>})
          /\ Cardinality(Held(t, s) \cup {<<u, n>>}) = Cardinality(Held(t, s)) + 1
      BY <2>1, <3>2, FS_AddElement
    <3> QED
      BY <2>1, <2>3, <3>2, <3>3, <3>4
  <2>9. CASE n \notin B
    <3>1. Held(t, s)' = Held(t, s)
      BY <2>5, <2>6, <2>9
    <3>2. Due(t, s)' = Due(t, s)
      BY <1>5, <2>2, <2>7, <2>9 DEF Due
    <3> QED
      BY <2>1, <2>3, <3>1, <3>2
  <2> QED
    BY <2>8, <2>9
<1>8. \A v \in Threads : \A e \in batch'[v] : e.value = e.callback
  BY <1>1, <1>2 DEF HeldInv
<1> QED
  BY <1>4, <1>5, <1>6, <1>7, <1>8 DEF HeldInv

\* The places that matter to the object of a thread.
ObjectPlaces == {"none", "joining", "closing", "deleting", "gone"}

\* The object of a thread is not concerned while threads go on.
LEMMA ObjectKeeps ==
    ASSUME TypeOK, UserInv, ObjectInv, UNCHANGED object,
           \A t \in Threads, l \in ObjectPlaces : pc'[t] = l <=> pc[t] = l
    PROVE  UserInv' /\ ObjectInv'
<1>1. /\ on' = on /\ closed' = closed /\ finished' = finished /\ freed' = freed
      /\ \A t \in Threads : on[t] = NoThread \/ on[t] \in Threads
  BY DEF object, TypeOK
<1>2. ASSUME NEW t \in Threads PROVE UserInv!(t)' /\ ObjectInv!(t)'
  <2>1. UserInv!(t) /\ ObjectInv!(t)
    BY DEF UserInv, ObjectInv
  <2>2. \A l \in ObjectPlaces :
            (pc'[t] = l <=> pc[t] = l) /\ (on[t] # NoThread => (pc'[on[t]] = l <=> pc[on[t]] = l))
    BY <1>1
  <2> QED
    BY <1>1, <2>1, <2>2 DEF ObjectPlaces
<1> QED
  BY <1>2 DEF UserInv, ObjectInv

\* The part of the type invariant that the steps of an object need.
LEMMA ObjectTypes ==
    ASSUME IInv
    PROVE  /\ DOMAIN pc = Threads /\ DOMAIN on = Threads
           /\ freed \in [Threads -> Nat] /\ closed \in [Threads -> BOOLEAN]
           /\ finished \in [Threads -> BOOLEAN] /\ on \in [Threads -> Threads \cup {NoThread}]
           /\ \A u \in Threads : on[u] = NoThread \/ on[u] \in Threads
<1>1. on \in [Threads -> Threads \cup {NoThread}] /\ DOMAIN pc = Threads
  BY DEF IInv, TypeOK
<1>2. /\ freed \in [Threads -> Nat] /\ closed \in [Threads -> BOOLEAN]
      /\ finished \in [Threads -> BOOLEAN]
  BY DEF IInv, TypeOK
<1> QED
  BY <1>1, <1>2

\* What a step that leaves the storage alone has to show of the types.
LEMMA TypesKeep ==
    ASSUME IInv, UNCHANGED <<slots, fls, pass>>, NEW t \in Threads, NEW l,
           pc' = [pc EXCEPT ![t] = l], batch[t] = {},
           l \in {"none", "running", "joining", "closing", "freeing slot", "detaching",
                  "draining", "calling", "erasing", "drained", "deleting", "gone"},
           finished' \in [Threads -> BOOLEAN], closed' \in [Threads -> BOOLEAN],
           freed' \in [Threads -> Nat], on' \in [Threads -> Threads \cup {NoThread}]
    PROVE  TypeOK'
<1>1. /\ UNCHANGED <<alloc, callback, allocs>> /\ UNCHANGED <<states, values, batch, owed, lost>>
      /\ pass' = pass
  BY DEF slots, fls
<1>2. TypeOK
  BY DEF IInv
<1>3. pc' \in [Threads -> {"none", "running", "joining", "closing", "freeing slot", "detaching",
                           "draining", "calling", "erasing", "drained", "deleting", "gone"}]
  BY <1>2 DEF TypeOK
<1>4. \A u \in Threads : batch'[u] # {} => pc'[u] \in {"calling", "freeing slot"}
  <2>1. ASSUME NEW u \in Threads, batch'[u] # {} PROVE pc'[u] \in {"calling", "freeing slot"}
    <3>1. batch[u] # {} /\ u # t
      BY <1>1, <2>1
    <3>2. pc'[u] = pc[u]
      BY <3>1, ObjectTypes
    <3> QED
      BY <1>2, <3>1, <3>2 DEF TypeOK
  <2> QED
    BY <2>1
<1>5. /\ TypeOK!1' /\ TypeOK!2' /\ TypeOK!3' /\ TypeOK!4' /\ TypeOK!5' /\ TypeOK!6'
      /\ TypeOK!7' /\ TypeOK!9' /\ TypeOK!11'
  BY <1>1, <1>2 DEF TypeOK
<1> QED
  BY <1>3, <1>4, <1>5 DEF TypeOK

\* A step that leaves the storage alone holds what is due.
LEMMA HeldIdle ==
    ASSUME IInv, UNCHANGED <<slots, fls>>
    PROVE  HeldInv'
<1>1. UNCHANGED <<alloc, callback, values, batch, owed>>
  BY DEF slots, fls
<1>2. ASSUME NEW t \in Threads, NEW s \in Slots
      PROVE  /\ values'[t][s] \in {0, alloc'[s]}
             /\ owed'[t][s] = owed[t][s] - Due(t, s) + Due(t, s)'
  <2>1. Due(t, s)' = Due(t, s) /\ Due(t, s) \in Nat
    BY <1>1 DEF Due
  <2>2. owed[t][s] \in Nat
    BY DEF IInv, TypeOK
  <2>3. values[t][s] \in {0, alloc[s]}
    BY DEF IInv, HeldInv
  <2> QED
    BY <1>1, <2>1, <2>2, <2>3
<1> QED
  BY <1>1, <1>2, HeldKeeps DEF IInv

\* A new thread has neither storage nor a closed handle.
LEMMA CreateThreadPreserves ==
    ASSUME IInv, NEW t \in Threads, NEW c \in Threads, CreateThread(t, c)
    PROVE  IInv'
<1> USE ThreadEndAssumption
<1>1. TypeOK'
  BY DEF IInv, TypeOK, CreateThread, slots, fls, object, GoTo
<1>2. HeldInv'
  BY HeldIdle DEF CreateThread
<1>3. DrainInv'
  BY DEF IInv, TypeOK, DrainInv, CreateThread, slots, fls, object, GoTo
<1>4. UserInv' /\ ObjectInv'
  <2>1. /\ pc[c] = "none" /\ pc'[c] = "running"
        /\ \A u \in Threads \ {c} : pc'[u] = pc[u]
        /\ on' = on /\ closed' = closed /\ finished' = finished /\ freed' = freed
        /\ \A u \in Threads : on[u] = NoThread \/ on[u] \in Threads
        /\ \A u \in Threads : freed[u] \in Nat
    BY DEF IInv, TypeOK, CreateThread, GoTo, object
  <2>2. ASSUME NEW x \in Threads PROVE UserInv!(x)'
    BY <2>1, <2>2 DEF IInv, UserInv, ObjectInv
  <2>3. ASSUME NEW x \in Threads PROVE ObjectInv!(x)'
    BY <2>1, <2>3 DEF IInv, UserInv, ObjectInv
  <2> QED
    BY <2>2, <2>3 DEF UserInv, ObjectInv
<1> QED
  BY <1>1, <1>2, <1>3, <1>4 DEF IInv

\* A thread leaves.
LEMMA LeavePreserves ==
    ASSUME IInv, NEW t \in Threads, Leave(t)
    PROVE  IInv'
<1> USE ThreadEndAssumption
<1>1. TypeOK'
  BY DEF IInv, TypeOK, Leave, slots, fls, object, GoTo
<1>2. HeldInv'
  BY HeldIdle DEF Leave
<1>3. DrainInv'
  BY DEF IInv, TypeOK, DrainInv, Leave, slots, fls, object, GoTo
<1>4. UserInv' /\ ObjectInv'
  <2>1. \A u \in Threads, l \in ObjectPlaces : pc'[u] = l <=> pc[u] = l
    BY DEF IInv, TypeOK, Leave, GoTo, ObjectPlaces
  <2> QED
    BY <2>1, ObjectKeeps DEF IInv, Leave
<1> QED
  BY <1>1, <1>2, <1>3, <1>4 DEF IInv

\* A thread without a state has nothing to drain.
LEMMA DetachReturnsPreserves ==
    ASSUME IInv, NEW t \in Threads, DetachReturns(t)
    PROVE  IInv'
<1> USE ThreadEndAssumption
<1>1. TypeOK'
  BY DEF IInv, TypeOK, DetachReturns, slots, fls, object, GoTo
<1>2. HeldInv'
  BY HeldIdle DEF DetachReturns
<1>3. DrainInv'
  BY DEF IInv, TypeOK, DrainInv, DetachReturns, slots, fls, object, GoTo
<1>4. UserInv' /\ ObjectInv'
  <2>1. \A u \in Threads, l \in ObjectPlaces : pc'[u] = l <=> pc[u] = l
    BY DEF IInv, TypeOK, DetachReturns, GoTo, ObjectPlaces
  <2> QED
    BY <2>1, ObjectKeeps DEF IInv, DetachReturns
<1> QED
  BY <1>1, <1>2, <1>3, <1>4 DEF IInv

\* After all its passes a drain gives up.
LEMMA DrainGivesUpPreserves ==
    ASSUME IInv, NEW t \in Threads, DrainGivesUp(t)
    PROVE  IInv'
<1> USE ThreadEndAssumption
<1>1. TypeOK'
  BY DEF IInv, TypeOK, DrainGivesUp, slots, fls, object, GoTo
<1>2. HeldInv'
  BY HeldIdle DEF DrainGivesUp
<1>3. DrainInv'
  <2>1. /\ pc'[t] = "erasing" /\ pass[t] = MaxPasses /\ MaxPasses \in Nat
        /\ \A u \in Threads \ {t} : pc'[u] = pc[u]
        /\ pc[t] = "draining" /\ UNCHANGED <<states, values, lost, pass>>
    BY DEF IInv, TypeOK, DrainGivesUp, GoTo, fls
  <2> QED
    BY <2>1 DEF IInv, DrainInv
<1>4. UserInv' /\ ObjectInv'
  <2>1. \A u \in Threads, l \in ObjectPlaces : pc'[u] = l <=> pc[u] = l
    BY DEF IInv, TypeOK, DrainGivesUp, GoTo, ObjectPlaces
  <2> QED
    BY <2>1, ObjectKeeps DEF IInv, DrainGivesUp
<1> QED
  BY <1>1, <1>2, <1>3, <1>4 DEF IInv

\* A thread has finished, and whose turn it is is decided.
LEMMA FinishThreadPreserves ==
    ASSUME IInv, NEW t \in Threads, FinishThread(t)
    PROVE  IInv'
<1> USE ThreadEndAssumption
<1>1. TypeOK'
  BY DEF IInv, TypeOK, FinishThread, slots, fls, object, GoTo
<1>2. HeldInv'
  BY HeldIdle DEF FinishThread
<1>3. DrainInv'
  <2>1. /\ pc[t] = "drained" /\ pc'[t] \in {"deleting", "gone"}
        /\ \A u \in Threads \ {t} : pc'[u] = pc[u]
        /\ UNCHANGED <<states, values, lost, pass>>
    BY DEF IInv, TypeOK, FinishThread, GoTo, fls
  <2> QED
    BY <2>1 DEF IInv, DrainInv
<1>4. UserInv' /\ ObjectInv'
  <2>1. /\ pc[t] = "drained"
        /\ pc'[t] = IF t \notin Hosts /\ closed[t] THEN "deleting" ELSE "gone"
        /\ (t \in Hosts => finished'[t] = finished[t]) /\ (t \notin Hosts => finished'[t] = TRUE)
        /\ \A u \in Threads \ {t} : pc'[u] = pc[u]
        /\ \A u \in Threads \ {t} : finished'[u] = finished[u]
        /\ on' = on /\ closed' = closed /\ freed' = freed
        /\ \A u \in Threads : on[u] = NoThread \/ on[u] \in Threads
        /\ \A u \in Threads : freed[u] \in Nat
    <3>1. CASE t \in Hosts
      BY <3>1 DEF IInv, TypeOK, FinishThread, GoTo, object
    <3>2. CASE t \notin Hosts
      BY <3>2 DEF IInv, TypeOK, FinishThread, GoTo, object
    <3> QED
      BY <3>1, <3>2
  <2>2. ASSUME NEW x \in Threads PROVE UserInv!(x)'
    BY <2>1, <2>2 DEF IInv, UserInv, ObjectInv
  <2>3. ASSUME NEW x \in Threads PROVE ObjectInv!(x)'
    BY <2>1, <2>3 DEF IInv, UserInv, ObjectInv
  <2> QED
    BY <2>2, <2>3 DEF UserInv, ObjectInv
<1> QED
  BY <1>1, <1>2, <1>3, <1>4 DEF IInv

\* The thread deletes the object of which the handle is closed.
LEMMA DeleteOwnPreserves ==
    ASSUME IInv, NEW t \in Threads, DeleteOwn(t)
    PROVE  IInv'
<1> USE ThreadEndAssumption
<1>1. TypeOK'
  <2>1. freed' \in [Threads -> Nat]
    <3>1. freed \in [Threads -> Nat] /\ (on[t] # NoThread => on[t] \in Threads)
      BY DEF IInv, TypeOK
    <3> QED
      BY <3>1 DEF DeleteOwn
  <2>2. /\ pc[t] = "deleting" /\ pc' = [pc EXCEPT ![t] = "gone"] /\ on' = on
        /\ UNCHANGED <<slots, fls, finished, closed, pass>>
    BY DEF DeleteOwn, GoTo
  <2>3. batch[t] = {}
    BY <2>2 DEF IInv, TypeOK
  <2> QED
    BY <2>1, <2>2, <2>3, ObjectTypes, TypesKeep
<1>2. HeldInv'
  BY HeldIdle DEF DeleteOwn
<1>3. DrainInv'
  BY DEF IInv, TypeOK, DrainInv, DeleteOwn, slots, fls, object, GoTo
<1>4. UserInv' /\ ObjectInv'
  <2>1. /\ pc[t] = "deleting" /\ pc'[t] = "gone" /\ freed'[t] = freed[t] + 1
        /\ \A u \in Threads \ {t} : pc'[u] = pc[u]
        /\ \A u \in Threads \ {t} : freed'[u] = freed[u]
        /\ on' = on /\ closed' = closed /\ finished' = finished
        /\ \A u \in Threads : on[u] = NoThread \/ on[u] \in Threads
        /\ \A u \in Threads : freed[u] \in Nat
    BY DEF IInv, TypeOK, DeleteOwn, GoTo, object
  <2>2. ASSUME NEW x \in Threads PROVE UserInv!(x)'
    BY <2>1, <2>2 DEF IInv, UserInv, ObjectInv
  <2>3. ASSUME NEW x \in Threads PROVE ObjectInv!(x)'
    BY <2>1, <2>3 DEF IInv, UserInv, ObjectInv
  <2> QED
    BY <2>2, <2>3 DEF UserInv, ObjectInv
<1> QED
  BY <1>1, <1>2, <1>3, <1>4 DEF IInv

\* A call that waits uses an object that is not closed.
LEMMA JoinPreserves ==
    ASSUME IInv, NEW t \in Threads, NEW c \in Threads, Join(t, c)
    PROVE  IInv'
<1> USE ThreadEndAssumption
<1>1. TypeOK'
  BY DEF IInv, TypeOK, Join, slots, fls, object, GoTo
<1>2. HeldInv'
  BY HeldIdle DEF Join
<1>3. DrainInv'
  BY DEF IInv, TypeOK, DrainInv, Join, slots, fls, object, GoTo
<1>4. UserInv' /\ ObjectInv'
  <2>1. /\ pc[t] = "running" /\ pc'[t] = "joining" /\ on'[t] = c
        /\ c \notin Hosts /\ pc[c] # "none" /\ ~closed[c] /\ c # t /\ c # NoThread
        /\ \A u \in Threads \ {t} : pc'[u] = pc[u]
        /\ \A u \in Threads \ {t} : on'[u] = on[u]
        /\ closed' = closed /\ finished' = finished /\ freed' = freed
        /\ \A u \in Threads : on[u] = NoThread \/ on[u] \in Threads
        /\ \A u \in Threads : freed[u] \in Nat
    BY DEF IInv, TypeOK, Join, GoTo, object
  <2>2. ASSUME NEW x \in Threads PROVE UserInv!(x)'
    BY <2>1, <2>2 DEF IInv, UserInv, ObjectInv
  <2>3. ASSUME NEW x \in Threads PROVE ObjectInv!(x)'
    BY <2>1, <2>3 DEF IInv, UserInv, ObjectInv
  <2> QED
    BY <2>2, <2>3 DEF UserInv, ObjectInv
<1> QED
  BY <1>1, <1>2, <1>3, <1>4 DEF IInv

\* A wait returns.
LEMMA JoinReturnsPreserves ==
    ASSUME IInv, NEW t \in Threads, JoinReturns(t)
    PROVE  IInv'
<1> USE ThreadEndAssumption
<1>1. TypeOK'
  BY DEF IInv, TypeOK, JoinReturns, slots, fls, object, GoTo
<1>2. HeldInv'
  BY HeldIdle DEF JoinReturns
<1>3. DrainInv'
  BY DEF IInv, TypeOK, DrainInv, JoinReturns, slots, fls, object, GoTo
<1>4. UserInv' /\ ObjectInv'
  <2>1. /\ pc[t] = "joining" /\ pc'[t] = "running" /\ on'[t] = NoThread
        /\ \A u \in Threads \ {t} : pc'[u] = pc[u]
        /\ \A u \in Threads \ {t} : on'[u] = on[u]
        /\ closed' = closed /\ finished' = finished /\ freed' = freed
        /\ \A u \in Threads : on[u] = NoThread \/ on[u] \in Threads
        /\ \A u \in Threads : freed[u] \in Nat
    BY DEF IInv, TypeOK, JoinReturns, GoTo, object
  <2>2. ASSUME NEW x \in Threads PROVE UserInv!(x)'
    BY <2>1, <2>2 DEF IInv, UserInv, ObjectInv
  <2>3. ASSUME NEW x \in Threads PROVE ObjectInv!(x)'
    BY <2>1, <2>3 DEF IInv, UserInv, ObjectInv
  <2> QED
    BY <2>2, <2>3 DEF UserInv, ObjectInv
<1> QED
  BY <1>1, <1>2, <1>3, <1>4 DEF IInv

\* The handle is closed, and the object of a finished thread is to be deleted.
LEMMA CloseHandlePreserves ==
    ASSUME IInv, NEW t \in Threads, NEW c \in Threads, CloseHandle(t, c)
    PROVE  IInv'
<1> USE ThreadEndAssumption
<1>0. PICK l : l = IF finished[c] THEN "closing" ELSE "running"
  OBVIOUS
<1>9. /\ pc[t] = "running" /\ pc' = [pc EXCEPT ![t] = l] /\ l \in {"closing", "running"}
      /\ on' \in [Threads -> Threads \cup {NoThread}] /\ closed' \in [Threads -> BOOLEAN]
      /\ UNCHANGED <<slots, fls, finished, freed, pass>>
  <2>1. /\ pc[t] = "running" /\ closed' = [closed EXCEPT ![c] = TRUE]
        /\ UNCHANGED <<slots, fls, finished, freed, pass>>
    BY DEF CloseHandle
  <2>2. closed' \in [Threads -> BOOLEAN]
    BY <2>1, ObjectTypes
  <2>3. CASE finished[c]
    <3>1. l = "closing" /\ on' = [on EXCEPT ![t] = c] /\ pc' = [pc EXCEPT ![t] = "closing"]
      BY <1>0, <2>3 DEF CloseHandle, GoTo
    <3> QED
      BY <2>1, <2>2, <3>1, ObjectTypes
  <2>4. CASE ~finished[c]
    <3>1. l = "running" /\ on' = on /\ pc' = pc
      BY <1>0, <2>4 DEF CloseHandle
    <3>2. pc' = [pc EXCEPT ![t] = l]
      BY <2>1, <3>1 DEF IInv, TypeOK
    <3> QED
      BY <2>1, <2>2, <3>1, <3>2, ObjectTypes
  <2> QED
    BY <2>3, <2>4
<1>1. TypeOK'
  <2>1. batch[t] = {}
    BY <1>9 DEF IInv, TypeOK
  <2>2. finished' \in [Threads -> BOOLEAN] /\ freed' \in [Threads -> Nat]
    BY <1>9, ObjectTypes
  <2> QED
    BY <1>9, <2>1, <2>2, TypesKeep
<1>2. HeldInv'
  BY HeldIdle DEF CloseHandle
<1>3. DrainInv'
  <2>1. UNCHANGED <<states, values, lost, pass>>
    BY <1>9 DEF fls
  <2>2. pc'[t] = l /\ \A u \in Threads \ {t} : pc'[u] = pc[u]
    BY <1>9, ObjectTypes
  <2>3. t \notin lost
    BY <1>9 DEF IInv, DrainInv
  <2> QED
    BY <1>9, <2>1, <2>2, <2>3 DEF IInv, DrainInv
<1>4. UserInv' /\ ObjectInv'
  <2>1. /\ pc[t] = "running" /\ c \notin Hosts /\ pc[c] # "none" /\ ~closed[c] /\ c # NoThread
        /\ \A u \in Threads : on[u] # c
        /\ closed'[c] = TRUE
        /\ \A u \in Threads \ {c} : closed'[u] = closed[u]
        /\ pc'[t] = IF finished[c] THEN "closing" ELSE "running"
        /\ on'[t] = IF finished[c] THEN c ELSE on[t]
        /\ \A u \in Threads \ {t} : pc'[u] = pc[u]
        /\ \A u \in Threads \ {t} : on'[u] = on[u]
        /\ finished' = finished /\ freed' = freed
        /\ \A u \in Threads : on[u] = NoThread \/ on[u] \in Threads
        /\ \A u \in Threads : freed[u] \in Nat
    <3>1. CASE finished[c]
      BY <3>1 DEF IInv, TypeOK, CloseHandle, GoTo, object
    <3>2. CASE ~finished[c]
      <4>1. UNCHANGED <<on, pc>>
        BY <3>2 DEF CloseHandle
      <4> QED
        BY <3>2, <4>1 DEF IInv, TypeOK, CloseHandle
    <3> QED
      BY <3>1, <3>2
  <2>2. ASSUME NEW x \in Threads PROVE UserInv!(x)'
    BY <2>1, <2>2 DEF IInv, UserInv, ObjectInv
  <2>3. ASSUME NEW x \in Threads PROVE ObjectInv!(x)'
    BY <2>1, <2>3 DEF IInv, UserInv, ObjectInv
  <2> QED
    BY <2>2, <2>3 DEF UserInv, ObjectInv
<1> QED
  BY <1>1, <1>2, <1>3, <1>4 DEF IInv

\* The call that closed the handle deletes the object.
LEMMA DeleteClosedPreserves ==
    ASSUME IInv, NEW t \in Threads, DeleteClosed(t)
    PROVE  IInv'
<1> USE ThreadEndAssumption
<1>1. TypeOK'
  <2>1. /\ pc[t] = "closing" /\ pc' = [pc EXCEPT ![t] = "running"]
        /\ on' = [on EXCEPT ![t] = NoThread] /\ freed' = [freed EXCEPT ![on[t]] = @ + 1]
        /\ UNCHANGED <<slots, fls, finished, closed, pass>>
    BY DEF DeleteClosed, GoTo
  <2>2. batch[t] = {}
    BY <2>1 DEF IInv, TypeOK
  <2>3. on[t] \in Threads
    BY <2>1, ObjectTypes DEF IInv, UserInv
  <2>4. freed' \in [Threads -> Nat] /\ on' \in [Threads -> Threads \cup {NoThread}]
    BY <2>1, <2>3, ObjectTypes
  <2>5. finished' \in [Threads -> BOOLEAN] /\ closed' \in [Threads -> BOOLEAN]
    BY <2>1, ObjectTypes
  <2> QED
    BY <2>1, <2>2, <2>4, <2>5, TypesKeep
<1>2. HeldInv'
  BY HeldIdle DEF DeleteClosed
<1>3. DrainInv'
  <2>1. /\ pc[t] = "closing" /\ pc' = [pc EXCEPT ![t] = "running"]
        /\ UNCHANGED <<states, values, lost, pass>>
    BY DEF DeleteClosed, GoTo, fls
  <2>2. pc'[t] = "running" /\ \A u \in Threads \ {t} : pc'[u] = pc[u]
    BY <2>1, ObjectTypes
  <2>3. t \notin lost
    BY <2>1 DEF IInv, DrainInv
  <2> QED
    BY <2>1, <2>2, <2>3 DEF IInv, DrainInv
<1>4. UserInv' /\ ObjectInv'
  <2>1. /\ pc[t] = "closing" /\ pc'[t] = "running" /\ on'[t] = NoThread /\ on[t] \in Threads
        /\ freed'[on[t]] = freed[on[t]] + 1
        /\ \A u \in Threads \ {on[t]} : freed'[u] = freed[u]
        /\ \A u \in Threads \ {t} : pc'[u] = pc[u]
        /\ \A u \in Threads \ {t} : on'[u] = on[u]
        /\ closed' = closed /\ finished' = finished
        /\ \A u \in Threads : on[u] = NoThread \/ on[u] \in Threads
        /\ \A u \in Threads : freed[u] \in Nat
    <3>1. /\ pc[t] = "closing" /\ pc' = [pc EXCEPT ![t] = "running"]
          /\ on' = [on EXCEPT ![t] = NoThread] /\ freed' = [freed EXCEPT ![on[t]] = @ + 1]
          /\ closed' = closed /\ finished' = finished
      BY DEF DeleteClosed, GoTo
    <3>2. on[t] \in Threads
      BY <3>1, ObjectTypes DEF IInv, UserInv
    <3>3. pc'[t] = "running" /\ \A u \in Threads \ {t} : pc'[u] = pc[u]
      BY <3>1, ObjectTypes
    <3>4. on'[t] = NoThread /\ \A u \in Threads \ {t} : on'[u] = on[u]
      BY <3>1, ObjectTypes
    <3>5. /\ freed'[on[t]] = freed[on[t]] + 1
          /\ \A u \in Threads \ {on[t]} : freed'[u] = freed[u]
          /\ \A u \in Threads : freed[u] \in Nat
      BY <3>1, <3>2, ObjectTypes
    <3> QED
      BY <3>1, <3>2, <3>3, <3>4, <3>5, ObjectTypes
  <2>2. ASSUME NEW x \in Threads PROVE UserInv!(x)'
    BY <2>1, <2>2 DEF IInv, UserInv, ObjectInv
  <2>3. ASSUME NEW x \in Threads PROVE ObjectInv!(x)'
    BY <2>1, <2>3 DEF IInv, UserInv, ObjectInv
  <2> QED
    BY <2>2, <2>3 DEF UserInv, ObjectInv
<1> QED
  BY <1>1, <1>2, <1>3, <1>4 DEF IInv

\* What is stored: values of the present allocations, and only where a
\* thread has a state.
LEMMA Stored ==
    ASSUME IInv
    PROVE  /\ values \in [Threads -> [Slots -> Nat]] /\ owed \in [Threads -> [Slots -> Nat]]
           /\ states \subseteq Threads /\ \A u \in Threads \ states : \A r \in Slots : values[u][r] = 0
           /\ \A u \in Threads, r \in Slots : values[u][r] \in {0, alloc[r]} /\ owed[u][r] \in Nat
<1>1. /\ values \in [Threads -> [Slots -> Nat]] /\ owed \in [Threads -> [Slots -> Nat]]
      /\ states \subseteq Threads /\ \A u \in Threads \ states : \A r \in Slots : values[u][r] = 0
  BY DEF IInv, TypeOK
<1>2. \A u \in Threads, r \in Slots : values[u][r] \in {0, alloc[r]}
  BY DEF IInv, HeldInv
<1> QED
  BY <1>1, <1>2

\* A new allocation of a slot finds no value in it.
LEMMA FlsAllocPreserves ==
    ASSUME IInv, NEW t \in Threads, NEW s \in Slots, NEW cb \in BOOLEAN, FlsAlloc(t, s, cb)
    PROVE  IInv'
<1> USE ThreadEndAssumption
<1>1. /\ alloc[s] = 0 /\ alloc' = [alloc EXCEPT ![s] = allocs[s] + 1]
      /\ allocs' = [allocs EXCEPT ![s] = allocs[s] + 1] /\ allocs[s] < MaxAllocs
      /\ callback' = [callback EXCEPT ![s] = cb]
      /\ UNCHANGED <<fls, object, pc, pass>>
  BY DEF FlsAlloc
<1>2. UNCHANGED <<states, values, batch, owed, lost>>
  BY <1>1 DEF fls
<1>3. ASSUME NEW u \in Threads, NEW r \in Slots
      PROVE  /\ values'[u][r] \in {0, alloc'[r]}
             /\ owed'[u][r] = owed[u][r] - Due(u, r) + Due(u, r)'
  <2>1. values[u][r] \in {0, alloc[r]} /\ owed[u][r] \in Nat
    BY Stored
  <2>2. alloc \in [Slots -> 0..MaxAllocs] /\ callback \in [Slots -> BOOLEAN]
    BY DEF IInv, TypeOK
  <2>3. values'[u][r] \in {0, alloc'[r]}
    BY <1>1, <1>2, <2>1, <2>2
  <2>4. Due(u, r)' = Due(u, r) /\ Due(u, r) \in Nat
    BY <1>1, <1>2, <2>1, <2>2 DEF Due
  <2> QED
    BY <1>2, <2>1, <2>3, <2>4
<1>4. HeldInv'
  BY <1>2, <1>3, HeldKeeps DEF IInv
<1>5. TypeOK'
  <2>1. /\ alloc' \in [Slots -> 0..MaxAllocs] /\ allocs' \in [Slots -> 0..MaxAllocs]
        /\ callback' \in [Slots -> BOOLEAN]
        /\ \A r \in Slots : alloc'[r] \in {0, allocs'[r]} /\ (callback'[r] => alloc'[r] # 0)
    <3>1. /\ alloc \in [Slots -> 0..MaxAllocs] /\ allocs \in [Slots -> 0..MaxAllocs]
          /\ callback \in [Slots -> BOOLEAN]
          /\ \A r \in Slots : alloc[r] \in {0, allocs[r]} /\ (callback[r] => alloc[r] # 0)
      BY DEF IInv, TypeOK
    <3>2. allocs[s] + 1 \in 0..MaxAllocs /\ allocs[s] + 1 # 0
      BY <1>1, <3>1
    <3> QED
      BY <1>1, <3>1, <3>2
  <2>2. /\ states' \subseteq Threads /\ lost' \subseteq Threads
        /\ values' \in [Threads -> [Slots -> Nat]] /\ owed' \in [Threads -> [Slots -> Nat]]
        /\ \A u \in Threads \ states' : \A r \in Slots : values'[u][r] = 0
    BY <1>2 DEF IInv, TypeOK
  <2>3. UNCHANGED <<batch, pc, pass, finished, closed, freed, on>>
    BY <1>1, <1>2 DEF object
  <2> QED
    BY <2>1, <2>2, <2>3 DEF IInv, TypeOK
<1>6. DrainInv'
  BY <1>1, <1>2 DEF IInv, DrainInv
<1>7. UserInv' /\ ObjectInv'
  BY <1>1, ObjectKeeps DEF IInv
<1> QED
  BY <1>4, <1>5, <1>6, <1>7 DEF IInv

\* A value that is stored is due if the slot has a callback.
LEMMA FlsSetValuePreserves ==
    ASSUME IInv, NEW t \in Threads, NEW s \in Slots, NEW null \in BOOLEAN, FlsSetValue(t, s, null)
    PROVE  IInv'
<1> USE ThreadEndAssumption
<1>1. /\ pc[t] \in {"running", "detaching", "calling", "freeing slot"} /\ alloc[s] # 0
      /\ states' = states \cup {t}
      /\ values' = [values EXCEPT ![t][s] = IF null THEN 0 ELSE alloc[s]]
      /\ owed' = [owed EXCEPT ![t][s] =
                    @ - Due(t, s) + (IF callback[s] /\ ~null THEN 1 ELSE 0)]
      /\ UNCHANGED <<slots, object, pc, pass, batch, lost>>
  BY DEF FlsSetValue
<1>2. /\ values \in [Threads -> [Slots -> Nat]] /\ owed \in [Threads -> [Slots -> Nat]]
      /\ \A r \in Slots : alloc[r] \in 0..MaxAllocs
      /\ UNCHANGED <<alloc, callback>>
  BY <1>1 DEF IInv, TypeOK, slots
<1>3. /\ \A u \in Threads, r \in Slots :
            values'[u][r] = IF u = t /\ r = s THEN IF null THEN 0 ELSE alloc[s] ELSE values[u][r]
      /\ \A u \in Threads, r \in Slots : ~(u = t /\ r = s) => owed'[u][r] = owed[u][r]
      /\ owed'[t][s] = owed[t][s] - Due(t, s) + (IF callback[s] /\ ~null THEN 1 ELSE 0)
      /\ values' \in [Threads -> [Slots -> Nat]]
  <2>1. PICK v : v = IF null THEN 0 ELSE alloc[s]
    OBVIOUS
  <2>2. v \in Nat
    BY <1>2, <2>1
  <2>3. values' = [values EXCEPT ![t][s] = v]
    BY <1>1, <2>1
  <2>4. /\ \A u \in Threads, r \in Slots :
              values'[u][r] = IF u = t /\ r = s THEN v ELSE values[u][r]
        /\ values' \in [Threads -> [Slots -> Nat]]
    BY <1>2, <2>2, <2>3
  <2>5. /\ \A u \in Threads, r \in Slots : ~(u = t /\ r = s) => owed'[u][r] = owed[u][r]
        /\ owed'[t][s] = owed[t][s] - Due(t, s) + (IF callback[s] /\ ~null THEN 1 ELSE 0)
    BY <1>1, <1>2
  <2> QED
    BY <2>1, <2>4, <2>5
<1>4. ASSUME NEW u \in Threads, NEW r \in Slots
      PROVE  /\ values'[u][r] \in {0, alloc'[r]}
             /\ owed'[u][r] = owed[u][r] - Due(u, r) + Due(u, r)'
  <2>1. values[u][r] \in {0, alloc[r]}
    BY DEF IInv, HeldInv
  <2>2. CASE u = t /\ r = s
    BY <1>1, <1>2, <1>3, <2>1, <2>2 DEF Due
  <2>3. CASE ~(u = t /\ r = s)
    <3>1. Due(u, r)' = Due(u, r) /\ Due(u, r) \in Nat /\ owed[u][r] \in Nat
      BY <1>2, <1>3, <2>3 DEF Due
    <3> QED
      BY <1>2, <1>3, <2>1, <2>3, <3>1
  <2> QED
    BY <2>2, <2>3
<1>5. HeldInv' /\ \A u \in Threads, r \in Slots : owed'[u][r] \in Nat
  BY <1>1, <1>4, HeldKeeps DEF IInv
<1>6. TypeOK'
  <2>1. owed' \in [Threads -> [Slots -> Nat]]
    <3>1. DOMAIN owed' = Threads /\ \A u \in Threads : owed'[u] = [r \in Slots |-> owed'[u][r]]
      BY <1>1, <1>2
    <3>2. \A u \in Threads : owed'[u] \in [Slots -> Nat]
      BY <1>5, <3>1
    <3>3. owed' = [u \in Threads |-> owed'[u]]
      BY <1>1, <1>2
    <3> QED
      BY <3>2, <3>3
  <2>2. states' \subseteq Threads /\ \A u \in Threads \ states' : \A r \in Slots : values'[u][r] = 0
    <3>1. ASSUME NEW u \in Threads, u \notin states', NEW r \in Slots PROVE values'[u][r] = 0
      <4>1. u \notin states /\ u # t
        BY <1>1, <3>1
      <4> QED
        BY <1>3, <4>1, Stored
    <3> QED
      BY <1>1, <3>1, Stored
  <2> QED
    BY <1>1, <1>3, <2>1, <2>2 DEF IInv, TypeOK, slots, object
<1>7. DrainInv'
  BY <1>1, <1>3 DEF IInv, DrainInv
<1>8. UserInv' /\ ObjectInv'
  BY <1>1, ObjectKeeps DEF IInv
<1> QED
  BY <1>5, <1>6, <1>7, <1>8 DEF IInv

\* FlsFree takes what its slot has, of all threads.
LEMMA FlsFreePreserves ==
    ASSUME IInv, NEW t \in Threads, NEW s \in Slots, FlsFree(t, s)
    PROVE  IInv'
<1> USE ThreadEndAssumption
<1>1. /\ pc[t] = "running" /\ alloc' = [alloc EXCEPT ![s] = 0]
      /\ callback' = [callback EXCEPT ![s] = FALSE]
      /\ batch' = [batch EXCEPT ![t] = Taken(states, {s})]
      /\ values' = Cleared(states, {s})
      /\ pc' = [pc EXCEPT ![t] = IF Taken(states, {s}) = {} THEN "running" ELSE "freeing slot"]
      /\ UNCHANGED <<allocs, states, owed, lost, object, pass>>
  BY DEF FlsFree, GoTo
<1>2. /\ batch[t] = {} /\ states \subseteq Threads
      /\ alloc \in [Slots -> 0..MaxAllocs] /\ callback \in [Slots -> BOOLEAN]
  BY <1>1 DEF IInv, TypeOK
<1>3. \A r \in Slots : \/ alloc'[r] = alloc[r] /\ callback'[r] = callback[r]
                       \/ r \in {s} /\ alloc'[r] = 0 /\ callback'[r] = FALSE
  BY <1>1, <1>2
<1>4. PICK T, S : T = states /\ S = {s}
  OBVIOUS
<1>5. /\ HeldInv'
      /\ batch' \in [Threads -> SUBSET Entry]
      /\ values' \in [Threads -> [Slots -> Nat]]
      /\ \A u \in Threads, r \in Slots : values'[u][r] \in {0, values[u][r]}
  <2>1. T \subseteq Threads /\ S \subseteq Slots
    BY <1>2, <1>4
  <2>2. /\ batch' = [batch EXCEPT ![t] = Taken(T, S)] /\ values' = Cleared(T, S) /\ owed' = owed
    BY <1>1, <1>4
  <2>3. \A r \in Slots : \/ alloc'[r] = alloc[r] /\ callback'[r] = callback[r]
                         \/ r \in S /\ T = states /\ alloc'[r] = 0 /\ callback'[r] = FALSE
    BY <1>3, <1>4
  <2>4. TypeOK /\ HeldInv /\ batch[t] = {}
    BY <1>2 DEF IInv
  <2> QED
    BY <2>1, <2>2, <2>3, <2>4, TakingKeeps
<1>6. TypeOK'
  <2>1. /\ alloc' \in [Slots -> 0..MaxAllocs] /\ callback' \in [Slots -> BOOLEAN]
        /\ \A r \in Slots : alloc'[r] \in {0, allocs'[r]} /\ (callback'[r] => alloc'[r] # 0)
    <3>1. \A r \in Slots : alloc[r] \in {0, allocs[r]} /\ (callback[r] => alloc[r] # 0)
      BY DEF IInv, TypeOK
    <3>2. \A r \in Slots : alloc'[r] \in {0, allocs'[r]} /\ (callback'[r] => alloc'[r] # 0)
      BY <1>1, <1>3, <3>1
    <3>3. alloc' \in [Slots -> 0..MaxAllocs]
      <4>1. alloc' = [alloc EXCEPT ![s] = 0]
        BY <1>1
      <4>2. 0 \in 0..MaxAllocs
        OBVIOUS
      <4> QED
        BY <1>2, <4>1, <4>2
    <3>4. callback' \in [Slots -> BOOLEAN]
      BY <1>1, <1>2
    <3> QED
      BY <3>2, <3>3, <3>4
  <2>2. \A u \in Threads \ states' : \A r \in Slots : values'[u][r] = 0
    <3>1. ASSUME NEW u \in Threads, u \notin states', NEW r \in Slots PROVE values'[u][r] = 0
      <4>1. values[u][r] = 0
        BY <1>1, <3>1, Stored
      <4> QED
        BY <1>5, <4>1
    <3> QED
      BY <3>1
  <2>3. /\ \A u \in Threads : batch'[u] # {} => pc'[u] \in {"calling", "freeing slot"}
        /\ pc' \in [Threads -> {"none", "running", "joining", "closing", "freeing slot", "detaching",
                           "draining", "calling", "erasing", "drained", "deleting", "gone"}]
    BY <1>1 DEF IInv, TypeOK
  <2> QED
    BY <1>1, <1>5, <2>1, <2>2, <2>3 DEF IInv, TypeOK, Entry, object
<1>7. DrainInv'
  <2>1. \A u \in Threads : pc'[u] = pc[u] \/ (pc'[u] \in {"running", "freeing slot"} /\ pc[u] = "running")
    <3>1. DOMAIN pc = Threads
      BY DEF IInv, TypeOK
    <3>2. PICK l : l = IF Taken(states, {s}) = {} THEN "running" ELSE "freeing slot"
      OBVIOUS
    <3>3. pc' = [pc EXCEPT ![t] = l] /\ l \in {"running", "freeing slot"}
      BY <1>1, <3>2
    <3>4. pc'[t] = l /\ \A u \in Threads \ {t} : pc'[u] = pc[u]
      BY <3>1, <3>3
    <3>5. pc[t] = "running" /\ l \in {"running", "freeing slot"}
      BY <1>1, <3>3
    <3> QED
      BY <3>4, <3>5
  <2>2. \A u \in Threads, r \in Slots : values[u][r] = 0 => values'[u][r] = 0
    BY <1>5
  <2>3. UNCHANGED <<states, lost, pass>>
    BY <1>1
  <2>4. ASSUME NEW u \in Threads PROVE DrainInv!(u)'
    <3>1. DrainInv!(u)
      BY DEF IInv, DrainInv
    <3>2. CASE pc'[u] = pc[u]
      BY <2>2, <2>3, <3>1, <3>2
    <3>3. CASE pc'[u] \in {"running", "freeing slot"} /\ pc[u] = "running"
      BY <2>3, <3>1, <3>3
    <3> QED
      BY <2>1, <3>2, <3>3
  <2> QED
    BY <2>4 DEF DrainInv
<1>8. UserInv' /\ ObjectInv'
  <2>1. \A u \in Threads, l \in ObjectPlaces : pc'[u] = l <=> pc[u] = l
    BY <1>1 DEF IInv, TypeOK, ObjectPlaces
  <2> QED
    BY <1>1, <2>1, ObjectKeeps DEF IInv
<1> QED
  BY <1>5, <1>6, <1>7, <1>8 DEF IInv

\* A pass takes all the values of its thread.
LEMMA DrainPreserves ==
    ASSUME IInv, NEW t \in Threads, Drain(t)
    PROVE  IInv'
<1> USE ThreadEndAssumption
<1>1. PICK T, S : T = {t} /\ S = {s \in Slots : alloc[s] # 0}
  OBVIOUS
<1>2. /\ pc[t] = "draining" /\ pass[t] < MaxPasses
      /\ pass' = [pass EXCEPT ![t] = @ + 1]
      /\ batch' = [batch EXCEPT ![t] = Taken(T, S)] /\ values' = Cleared(T, S)
      /\ pc' = [pc EXCEPT ![t] = IF Taken(T, S) = {} THEN "erasing" ELSE "calling"]
      /\ UNCHANGED <<slots, states, owed, lost, object>>
  BY <1>1 DEF Drain, GoTo
<1>3. batch[t] = {} /\ UNCHANGED <<alloc, callback>>
  BY <1>2 DEF IInv, TypeOK, slots
<1>4. /\ HeldInv'
      /\ batch' \in [Threads -> SUBSET Entry]
      /\ values' \in [Threads -> [Slots -> Nat]]
      /\ \A u \in Threads, r \in Slots : values'[u][r] \in {0, values[u][r]}
  <2>1. /\ T \subseteq Threads /\ S \subseteq Slots /\ owed' = owed
        /\ \A r \in Slots : alloc'[r] = alloc[r] /\ callback'[r] = callback[r]
    BY <1>1, <1>2, <1>3
  <2> QED
    BY <1>2, <1>3, <2>1, TakingKeeps DEF IInv
<1>5. TypeOK'
  <2>1. /\ \A u \in Threads : batch'[u] # {} => pc'[u] \in {"calling", "freeing slot"}
        /\ pc' \in [Threads -> {"none", "running", "joining", "closing", "freeing slot", "detaching",
                           "draining", "calling", "erasing", "drained", "deleting", "gone"}]
    BY <1>2 DEF IInv, TypeOK
  <2>2. pass' \in [Threads -> 0..MaxPasses]
    <3>1. pass \in [Threads -> 0..MaxPasses]
      BY DEF IInv, TypeOK
    <3>2. pass[t] + 1 \in 0..MaxPasses
      BY <1>2, <3>1
    <3> QED
      BY <1>2, <3>1, <3>2
  <2>3. \A u \in Threads \ states' : \A r \in Slots : values'[u][r] = 0
    BY <1>2, <1>4, Stored
  <2> QED
    BY <1>2, <1>4, <2>1, <2>2, <2>3 DEF IInv, TypeOK, Entry, slots, object
<1>6. DrainInv'
  <2>1. \A r \in Slots : values'[t][r] = 0
    BY <1>1, <1>2 DEF IInv, HeldInv, Cleared
  <2>2. /\ \A u \in Threads \ {t} : pc'[u] = pc[u] /\ pass'[u] = pass[u]
        /\ pc'[t] \in {"erasing", "calling"}
    BY <1>2 DEF IInv, TypeOK
  <2>3. t \notin lost
    BY <1>2 DEF IInv, DrainInv
  <2> QED
    BY <1>2, <1>4, <2>1, <2>2, <2>3 DEF IInv, DrainInv
<1>7. UserInv' /\ ObjectInv'
  <2>1. \A u \in Threads, l \in ObjectPlaces : pc'[u] = l <=> pc[u] = l
    BY <1>2 DEF IInv, TypeOK, ObjectPlaces
  <2> QED
    BY <1>2, <2>1, ObjectKeeps DEF IInv
<1> QED
  BY <1>4, <1>5, <1>6, <1>7 DEF IInv

\* A callback that has run is due no more.
LEMMA RunCallbackPreserves ==
    ASSUME IInv, NEW t \in Threads, RunCallback(t)
    PROVE  IInv'
<1> USE ThreadEndAssumption
<1>1. PICK e \in batch[t] :
          /\ batch' = [batch EXCEPT ![t] = @ \ {e}]
          /\ owed' = [owed EXCEPT ![e.of][e.slot] = @ - 1]
          /\ pc' = [pc EXCEPT ![t] = IF batch[t] # {e} THEN pc[t]
                                     ELSE IF pc[t] = "calling" THEN "draining" ELSE "running"]
  BY DEF RunCallback, GoTo
<1>2. /\ pc[t] \in {"calling", "freeing slot"}
      /\ UNCHANGED <<slots, states, values, lost, object, pass>>
      /\ UNCHANGED <<alloc, callback>>
  BY DEF RunCallback, slots
<1>3. batch \in [Threads -> SUBSET Entry] /\ e \in Entry /\ e.of \in Threads /\ e.slot \in Slots
  <2>1. batch \in [Threads -> SUBSET Entry]
    BY DEF IInv, TypeOK, Entry
  <2>2. e \in Entry
    BY <1>1, <2>1
  <2> QED
    BY <2>1, <2>2 DEF Entry
<1>4. /\ \A u \in Threads, r \in Slots : ~(u = e.of /\ r = e.slot) => owed'[u][r] = owed[u][r]
      /\ owed'[e.of][e.slot] = owed[e.of][e.slot] - 1
      /\ DOMAIN owed' = Threads /\ \A u \in Threads : owed'[u] = [r \in Slots |-> owed'[u][r]]
      /\ owed' = [u \in Threads |-> owed'[u]]
  <2>1. owed \in [Threads -> [Slots -> Nat]]
    BY Stored
  <2> QED
    BY <1>1, <1>3, <2>1
<1>5. ASSUME NEW u \in Threads, NEW r \in Slots
      PROVE  /\ IsFiniteSet(Held(u, r)')
             /\ owed'[u][r] = Due(u, r)' + Cardinality(Held(u, r)')
             /\ owed'[u][r] \in Nat
  <2>1. /\ Held(u, r)' = Held(u, r) \ {<<t, e>>}
        /\ <<t, e>> \in Held(u, r) <=> e.of = u /\ e.slot = r
    BY <1>1, <1>3, HeldGives
  <2>2. /\ IsFiniteSet(Held(u, r)) /\ owed[u][r] = Due(u, r) + Cardinality(Held(u, r))
        /\ Cardinality(Held(u, r)) \in Nat
    BY FS_CardinalityType DEF IInv, HeldInv
  <2>3. Due(u, r)' = Due(u, r) /\ Due(u, r) \in Nat
    BY <1>2 DEF Due
  <2>4. CASE e.of = u /\ e.slot = r
    <3>1. /\ IsFiniteSet(Held(u, r) \ {<<t, e>>})
          /\ Cardinality(Held(u, r) \ {<<t, e>>}) = Cardinality(Held(u, r)) - 1
      BY <2>1, <2>2, <2>4, FS_RemoveElement
    <3>2. Cardinality(Held(u, r)') = Cardinality(Held(u, r)) - 1 /\ IsFiniteSet(Held(u, r)')
      BY <2>1, <3>1
    <3>3. Cardinality(Held(u, r)') \in Nat
      BY <3>2, FS_CardinalityType
    <3> QED
      BY <1>4, <2>2, <2>3, <2>4, <3>2, <3>3
  <2>5. CASE ~(e.of = u /\ e.slot = r)
    <3>1. Held(u, r)' = Held(u, r)
      BY <2>1, <2>5
    <3> QED
      BY <1>4, <2>2, <2>3, <2>5, <3>1
  <2> QED
    BY <2>4, <2>5
<1>6. /\ batch' \in [Threads -> SUBSET Entry] /\ batch'[t] \subseteq batch[t]
      /\ \A u \in Threads \ {t} : batch'[u] = batch[u]
  BY <1>1, <1>3
<1>7. HeldInv'
  <2>1. \A u \in Threads : \A f \in batch'[u] : f.value = f.callback
    BY <1>6 DEF IInv, HeldInv
  <2>2. \A u \in Threads, r \in Slots : values'[u][r] \in {0, alloc'[r]}
    BY <1>2, Stored
  <2> QED
    BY <1>5, <2>1, <2>2 DEF HeldInv
<1>8. /\ pc'[t] \in {"calling", "freeing slot", "draining", "running"}
      /\ batch'[t] # {} => pc'[t] = pc[t]
      /\ \A u \in Threads \ {t} : pc'[u] = pc[u]
      /\ pc' = [pc EXCEPT ![t] = pc'[t]]
  <2>1. DOMAIN pc = Threads
    BY DEF IInv, TypeOK
  <2>2. batch'[t] = batch[t] \ {e}
    BY <1>1, <1>3
  <2> QED
    BY <1>1, <1>2, <2>1, <2>2
<1>9. TypeOK'
  <2>1. owed' \in [Threads -> [Slots -> Nat]]
    <3>1. \A u \in Threads : owed'[u] \in [Slots -> Nat]
      BY <1>4, <1>5
    <3> QED
      BY <1>4, <3>1
  <2>2. \A u \in Threads : batch'[u] # {} => pc'[u] \in {"calling", "freeing slot"}
    BY <1>2, <1>6, <1>8 DEF IInv, TypeOK
  <2>3. pc' \in [Threads -> {"none", "running", "joining", "closing", "freeing slot", "detaching",
                           "draining", "calling", "erasing", "drained", "deleting", "gone"}]
    BY <1>8 DEF IInv, TypeOK
  <2> QED
    BY <1>2, <1>6, <2>1, <2>2, <2>3 DEF IInv, TypeOK, Entry, slots, object
<1>10. DrainInv'
  BY <1>2, <1>8 DEF IInv, DrainInv
<1>11. UserInv' /\ ObjectInv'
  <2>1. \A u \in Threads, l \in ObjectPlaces : pc'[u] = l <=> pc[u] = l
    BY <1>2, <1>8 DEF ObjectPlaces
  <2> QED
    BY <1>2, <2>1, ObjectKeeps DEF IInv
<1> QED
  BY <1>7, <1>9, <1>10, <1>11 DEF IInv

\* What a state still has is lost with it, which all the passes precede.
LEMMA EraseStatePreserves ==
    ASSUME IInv, NEW t \in Threads, EraseState(t)
    PROVE  IInv'
<1> USE ThreadEndAssumption
<1>1. /\ pc[t] = "erasing" /\ states' = states \ {t}
      /\ values' = Cleared({t}, Slots)
      /\ owed' = [owed EXCEPT ![t] = [s \in Slots |-> owed[t][s] - Due(t, s)]]
      /\ lost' = IF \E s \in Slots : Due(t, s) = 1 THEN lost \cup {t} ELSE lost
      /\ pc' = [pc EXCEPT ![t] = "drained"]
      /\ UNCHANGED <<slots, batch, object, pass>>
  BY DEF EraseState, GoTo
<1>2. /\ values \in [Threads -> [Slots -> Nat]] /\ owed \in [Threads -> [Slots -> Nat]]
      /\ UNCHANGED <<alloc, callback>>
  BY <1>1, Stored DEF slots
<1>3. /\ \A u \in Threads, r \in Slots : values'[u][r] = IF u = t THEN 0 ELSE values[u][r]
      /\ values' \in [Threads -> [Slots -> Nat]]
  BY <1>1, <1>2 DEF Cleared
<1>4. /\ \A u \in Threads, r \in Slots :
            owed'[u][r] = IF u = t THEN owed[t][r] - Due(t, r) ELSE owed[u][r]
      /\ owed' = [u \in Threads |-> owed'[u]]
      /\ \A u \in Threads : owed'[u] = [r \in Slots |-> owed'[u][r]]
  BY <1>1, <1>2
<1>5. ASSUME NEW u \in Threads, NEW r \in Slots
      PROVE  /\ values'[u][r] \in {0, alloc'[r]}
             /\ owed'[u][r] = owed[u][r] - Due(u, r) + Due(u, r)'
  <2>1. values[u][r] \in {0, alloc[r]} /\ owed[u][r] \in Nat
    BY Stored
  <2>2. Due(u, r) \in Nat /\ Due(u, r)' = IF u = t THEN 0 ELSE Due(u, r)
    BY <1>2, <1>3 DEF Due
  <2> QED
    BY <1>2, <1>3, <1>4, <2>1, <2>2
<1>6. HeldInv' /\ \A u \in Threads, r \in Slots : owed'[u][r] \in Nat
  BY <1>1, <1>5, HeldKeeps DEF IInv
<1>7. pc'[t] = "drained" /\ \A u \in Threads \ {t} : pc'[u] = pc[u]
  BY <1>1 DEF IInv, TypeOK
<1>8. TypeOK'
  <2>1. owed' \in [Threads -> [Slots -> Nat]]
    <3>1. \A u \in Threads : owed'[u] \in [Slots -> Nat]
      BY <1>4, <1>6
    <3> QED
      BY <1>4, <3>1
  <2>2. /\ states' \subseteq Threads
        /\ \A u \in Threads \ states' : \A r \in Slots : values'[u][r] = 0
    <3>1. ASSUME NEW u \in Threads, u \notin states', NEW r \in Slots PROVE values'[u][r] = 0
      <4>1. u = t \/ u \notin states
        BY <1>1, <3>1
      <4> QED
        BY <1>3, <4>1, Stored
    <3>2. states' \subseteq Threads
      BY <1>1, Stored
    <3> QED
      BY <3>1, <3>2
  <2>3. lost' \subseteq Threads
    BY <1>1 DEF IInv, TypeOK
  <2>4. /\ \A u \in Threads : batch'[u] # {} => pc'[u] \in {"calling", "freeing slot"}
        /\ pc' \in [Threads -> {"none", "running", "joining", "closing", "freeing slot", "detaching",
                           "draining", "calling", "erasing", "drained", "deleting", "gone"}]
    BY <1>1 DEF IInv, TypeOK
  <2> QED
    BY <1>1, <1>3, <2>1, <2>2, <2>3, <2>4 DEF IInv, TypeOK, slots, object
<1>9. DrainInv'
  <2>1. t \in lost' => pass[t] = MaxPasses
    <3>1. t \notin lost
      BY <1>1 DEF IInv, DrainInv
    <3>2. ASSUME NEW s \in Slots, Due(t, s) = 1 PROVE pass[t] = MaxPasses
      <4>1. values[t][s] # 0
        BY <3>2 DEF Due
      <4>2. ~(pass[t] < MaxPasses)
        BY <1>1, <4>1 DEF IInv, DrainInv
      <4>3. pass[t] \in 0..MaxPasses
        BY DEF IInv, TypeOK
      <4>4. MaxPasses \in Nat
        OBVIOUS
      <4> QED
        BY <4>2, <4>3, <4>4
    <3> QED
      BY <1>1, <3>1, <3>2
  <2>2. \A u \in Threads \ {t} : u \in lost' => u \in lost
    BY <1>1
  <2>3. ASSUME NEW u \in Threads PROVE DrainInv!(u)'
    <3>1. DrainInv!(u)
      BY DEF IInv, DrainInv
    <3>2. CASE u = t
      <4>1. u \notin states' /\ pc'[u] = "drained" /\ pass' = pass
        BY <1>1, <1>7, <3>2
      <4> QED
        BY <2>1, <3>2, <4>1
    <3>3. CASE u # t
      <4>1. /\ pc'[u] = pc[u] /\ pass' = pass /\ (u \in states' => u \in states)
            /\ \A s \in Slots : values'[u][s] = values[u][s]
        BY <1>1, <1>3, <1>7, <3>3
      <4> QED
        BY <2>2, <3>1, <3>3, <4>1
    <3> QED
      BY <3>2, <3>3
  <2> QED
    BY <2>3 DEF DrainInv
<1>10. UserInv' /\ ObjectInv'
  <2>1. \A u \in Threads, l \in ObjectPlaces : pc'[u] = l <=> pc[u] = l
    BY <1>1, <1>7 DEF ObjectPlaces
  <2> QED
    BY <1>1, <2>1, ObjectKeeps DEF IInv
<1> QED
  BY <1>6, <1>8, <1>9, <1>10 DEF IInv

---------------------------------------------------------------------------
(* The theorems.                                                           *)

\* At the start nothing is stored, held or freed.
LEMMA InitIInv ==
    ASSUME Init
    PROVE  IInv
<1> USE ThreadEndAssumption DEF Init
<1>1. TypeOK
  <2>1. 0 \in 0..MaxAllocs /\ 0 \in 0..MaxPasses
    OBVIOUS
  <2> QED
    BY <2>1 DEF TypeOK
<1>2. HeldInv
  <2>1. ASSUME NEW t \in Threads, NEW s \in Slots
        PROVE  /\ values[t][s] \in {0, alloc[s]} /\ IsFiniteSet(Held(t, s))
               /\ owed[t][s] = Due(t, s) + Cardinality(Held(t, s))
    <3>1. Held(t, s) = {}
      BY DEF Held
    <3>2. Due(t, s) = 0
      BY DEF Due
    <3> QED
      BY <3>1, <3>2, FS_EmptySet
  <2>2. \A t \in Threads : \A e \in batch[t] : e.value = e.callback
    OBVIOUS
  <2> QED
    BY <2>1, <2>2 DEF HeldInv
<1>3. DrainInv
  BY DEF DrainInv
<1>4. UserInv /\ ObjectInv
  BY DEF UserInv, ObjectInv
<1> QED
  BY <1>1, <1>2, <1>3, <1>4 DEF IInv

\* Whatever a step is of, it keeps the invariant.
LEMMA StepIInv ==
    ASSUME IInv, [Next]_vars
    PROVE  IInv'
<1>1. ASSUME NEW t \in Threads, Storage(t) PROVE IInv'
  BY <1>1, FlsAllocPreserves, FlsSetValuePreserves, FlsFreePreserves DEF Storage
<1>2. ASSUME NEW t \in Threads, Ends(t) PROVE IInv'
  BY <1>2, RunCallbackPreserves, DetachReturnsPreserves, DrainPreserves, DrainGivesUpPreserves,
     EraseStatePreserves, FinishThreadPreserves, DeleteOwnPreserves DEF Ends
<1>3. ASSUME NEW t \in Threads, NEW c \in Threads,
             CreateThread(t, c) \/ Join(t, c) \/ CloseHandle(t, c)
      PROVE  IInv'
  BY <1>3, CreateThreadPreserves, JoinPreserves, CloseHandlePreserves
<1>4. CASE UNCHANGED vars
  <2>1. UNCHANGED <<slots, fls, object, pc, pass>>
    BY <1>4 DEF vars
  <2>2. HeldInv'
    BY <2>1, HeldIdle
  <2>3. UserInv' /\ ObjectInv'
    BY <2>1, ObjectKeeps DEF IInv
  <2>4. TypeOK'
    BY <2>1 DEF IInv, TypeOK, slots, fls, object
  <2>5. DrainInv'
    BY <2>1 DEF IInv, DrainInv, fls
  <2> QED
    BY <2>2, <2>3, <2>4, <2>5 DEF IInv
<1> QED
  BY <1>1, <1>2, <1>3, <1>4, LeavePreserves, JoinReturnsPreserves, DeleteClosedPreserves DEF Next

\* The invariant of a thread's end: what is stored and held, how far each
\* drain is, who uses an object and whose turn it is to delete it.
THEOREM Invariance == Spec => []IInv
<1>1. Init => IInv
  BY InitIInv
<1>2. IInv /\ [Next]_vars => IInv'
  BY StepIInv
<1> QED
  BY <1>1, <1>2, PTL DEF Spec

\* Slots are in their last allocation or in none, only a thread with a state
\* has values, and only who runs callbacks has some to run.
THEOREM TypeCorrect == Spec => []TypeOK
<1>1. IInv => TypeOK
  BY DEF IInv
<1> QED
  BY <1>1, Invariance, PTL

\* Each value that is stored in a slot with a callback is in one place and
\* goes to the callback of its own allocation (FlsSetValue, FlsFree and the
\* drain in winlibs_cleanup_fls_for_current_thread).
THEOREM OneCallbackEach == Spec => []EachValueOnce
<1>1. ASSUME IInv PROVE EachValueOnce
  <2>1. ASSUME NEW t \in Threads, NEW s \in Slots
        PROVE  /\ values[t][s] \in {0, alloc[s]}
               /\ \A h \in Held(t, s) : h[2].value = h[2].callback
               /\ owed[t][s] = Due(t, s) + Cardinality(Held(t, s))
    <3>1. ASSUME NEW h \in Held(t, s) PROVE h[2].value = h[2].callback
      <4>1. PICK u \in Threads : \E e \in batch[u] : e.of = t /\ e.slot = s /\ h = <<u, e>>
        BY HeldDef
      <4> QED
        BY <1>1, <4>1 DEF IInv, HeldInv
    <3> QED
      BY <1>1, <3>1 DEF IInv, HeldInv
  <2> QED
    BY <2>1 DEF EachValueOnce, Held
<1> QED
  BY <1>1, Invariance, PTL

\* A thread that has finished has no storage: its state is off the list, its
\* callbacks have run, and what FlsFree took is another thread's to run.
THEOREM FinishedIsDrained == Spec => []DrainedBeforeFinished
<1>1. ASSUME IInv, NEW t \in Threads, finished[t]
      PROVE  /\ t \notin states /\ batch[t] = {}
             /\ t \in lost => pass[t] = MaxPasses
             /\ \A s \in Slots : owed[t][s] > 0 =>
                  \E u \in Threads \ {t} : \E e \in batch[u] : e.of = t /\ e.slot = s
  <2>1. pc[t] \in {"deleting", "gone"}
    BY <1>1 DEF IInv, ObjectInv
  <2>2. t \notin states /\ (t \in lost => pass[t] = MaxPasses)
    BY <1>1, <2>1 DEF IInv, DrainInv
  <2>3. batch[t] = {}
    BY <1>1, <2>1 DEF IInv, TypeOK
  <2>4. ASSUME NEW s \in Slots, owed[t][s] > 0
        PROVE  \E u \in Threads \ {t} : \E e \in batch[u] : e.of = t /\ e.slot = s
    <3>1. Due(t, s) = 0
      BY <1>1, <2>2, Stored DEF Due
    <3>2. Held(t, s) # {}
      <4>1. owed[t][s] = Due(t, s) + Cardinality(Held(t, s))
        BY <1>1 DEF IInv, HeldInv
      <4> QED
        BY <2>4, <3>1, <4>1, FS_EmptySet
    <3>3. PICK u \in Threads : \E e \in batch[u] : e.of = t /\ e.slot = s
      BY <3>2, HeldDef
    <3> QED
      BY <2>3, <3>3
  <2> QED
    BY <2>2, <2>3, <2>4
<1>2. IInv => DrainedBeforeFinished
  BY <1>1 DEF DrainedBeforeFinished
<1> QED
  BY <1>2, Invariance, PTL

\* The thread object is deleted once, by the later of finish_thread and
\* CloseHandle, and no call uses it then.
THEOREM DeletedByTheLast == Spec => []FreedByTheLast
<1>1. IInv => FreedByTheLast
  BY DEF IInv, ObjectInv, FreedByTheLast
<1> QED
  BY <1>1, Invariance, PTL
=============================================================================

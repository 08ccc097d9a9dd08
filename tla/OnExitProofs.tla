---------------------------- MODULE OnExitProofs ----------------------------
(***************************************************************************)
(* Proofs about OnExit: for any threads, tables and functions, a table is  *)
(* executed by one call at a time and each registered function runs once,  *)
(* the newest first.                                                       *)
(***************************************************************************)
EXTENDS OnExit, SequenceTheorems, TLAPS

\* The calls in progress: no table is on two stacks, or twice on one, and
\* the set of executing tables names those on the stacks.
StackInv ==
    /\ \A t, u \in Threads : \A i \in DOMAIN stack[t], j \in DOMAIN stack[u] :
          stack[t][i] = stack[u][j] => t = u /\ i = j
    /\ \A t \in Threads : \A i \in DOMAIN stack[t] : stack[t][i] \in executing
    /\ \A x \in executing :
          \E t \in Threads : \E i \in DOMAIN stack[t] : stack[t][i] = x

\* Whatever ran or waits in a table was registered, and a table keeps its
\* functions in the order of registration.
OrderInv ==
    /\ IsInjective(order)
    /\ \A i \in DOMAIN ran : Contains(order, ran[i])
    /\ \A x \in Tables : \A k \in DOMAIN table[x] :
          Contains(order, <<x, table[x][k]>>)
    /\ \A x \in Tables : \A k, l \in DOMAIN table[x] :
          \A i, j \in DOMAIN order :
             order[i] = <<x, table[x][k]>> /\ order[j] = <<x, table[x][l]>>
                => (k < l <=> i < j)

\* The inductive invariant.
IInv ==
    /\ TypeOK
    /\ StackInv
    /\ OrderInv
    /\ EachRunsOnce

-----------------------------------------------------------------------------
(* Sequences.                                                              *)

\* Membership in a sequence, by its domain.
LEMMA ContainsDef ==
    ASSUME NEW S, NEW s \in Seq(S), NEW e
    PROVE  Contains(s, e) <=> \E i \in DOMAIN s : s[i] = e
BY LenProperties DEF Contains

\* Append adds one index, and its element, to a sequence.
LEMMA Appended ==
    ASSUME NEW S, NEW s \in Seq(S), NEW e \in S
    PROVE  /\ Append(s, e) \in Seq(S)
           /\ Len(s) \in Nat
           /\ DOMAIN s = 1..Len(s)
           /\ DOMAIN Append(s, e) = 1..(Len(s) + 1)
           /\ \A i \in DOMAIN s : Append(s, e)[i] = s[i]
           /\ Append(s, e)[Len(s) + 1] = e
           /\ Append(s, e) # <<>>
           /\ \A d : Contains(Append(s, e), d) <=> Contains(s, d) \/ d = e
<1>1. /\ Append(s, e) \in Seq(S) /\ Append(s, e) # <<>>
      /\ Len(Append(s, e)) = Len(s) + 1
      /\ \A i \in 1..Len(s) : Append(s, e)[i] = s[i]
      /\ Append(s, e)[Len(s) + 1] = e
  BY AppendProperties
<1>2. Len(s) \in Nat /\ DOMAIN s = 1..Len(s)
  BY LenProperties
<1>3. DOMAIN Append(s, e) = 1..(Len(s) + 1)
  BY <1>1, LenProperties
<1>4. ASSUME NEW d
      PROVE  Contains(Append(s, e), d) <=> Contains(s, d) \/ d = e
  BY <1>1, <1>2 DEF Contains
<1> QED
  BY <1>1, <1>2, <1>3, <1>4

\* Front drops the last index, Last is its element.
LEMMA Fronted ==
    ASSUME NEW S, NEW s \in Seq(S), s # <<>>
    PROVE  /\ Front(s) \in Seq(S)
           /\ Len(s) \in Nat \ {0}
           /\ DOMAIN s = 1..Len(s)
           /\ DOMAIN Front(s) = 1..(Len(s) - 1)
           /\ \A i \in DOMAIN Front(s) : Front(s)[i] = s[i]
           /\ Last(s) = s[Len(s)]
           /\ Last(s) \in S
           /\ Front(s) = <<>> <=> Len(s) = 1
<1>1. Len(s) \in Nat \ {0} /\ DOMAIN s = 1..Len(s)
  BY EmptySeq, LenProperties
<1>2. \A i \in 1..Len(s) : s[i] \in S
  BY ElementOfSeq
<1>3. /\ Front(s) \in Seq(S)
      /\ Len(Front(s)) = Len(s) - 1
      /\ \A i \in 1..(Len(s) - 1) : Front(s)[i] = s[i]
  <2>1. \A i \in 1..(Len(s) - 1) : s[i] \in S
    BY <1>1, <1>2
  <2>2. /\ SubSeq(s, 1, Len(s) - 1) \in Seq(S)
        /\ Len(SubSeq(s, 1, Len(s) - 1)) =
              IF 1 <= Len(s) - 1 THEN (Len(s) - 1) - 1 + 1 ELSE 0
        /\ \A i \in 1..((Len(s) - 1) - 1 + 1) :
              SubSeq(s, 1, Len(s) - 1)[i] = s[1 + i - 1]
    BY <1>1, <2>1, SubSeqProperties
  <2> QED
    BY <1>1, <2>2 DEF Front
<1>4. DOMAIN Front(s) = 1..(Len(s) - 1)
  BY <1>3, LenProperties
<1>5. Front(s) = <<>> <=> Len(s) = 1
  BY <1>1, <1>3, EmptySeq
<1> QED
  BY <1>1, <1>2, <1>3, <1>4, <1>5 DEF Last

-----------------------------------------------------------------------------
(* The actions, one lemma for each part of the invariant.                  *)

\* The invariant holds when the process starts.
LEMMA InitEstablishes == Init => IInv
<1> SUFFICES ASSUME Init PROVE IInv
  OBVIOUS
<1>1. <<>> \in Seq(Functions) /\ <<>> \in Seq(Tables)
      /\ <<>> \in Seq(Tables \X Functions)
      /\ DOMAIN <<>> = {} /\ Len(<<>>) = 0
  BY EmptySeq
<1>2. TypeOK
  BY <1>1, TablesAssumption DEF Init, TypeOK, Places
<1>3. StackInv
  BY <1>1 DEF Init, StackInv
<1>4. OrderInv
  BY <1>1 DEF Init, OrderInv, IsInjective
<1>5. EachRunsOnce
  BY <1>1 DEF Init, EachRunsOnce, IsInjective
<1> QED
  BY <1>2, <1>3, <1>4, <1>5 DEF IInv

\* Every step keeps the types, a stack never empty where its top is read.
LEMMA TypePreserved == TypeOK /\ [Next]_vars => TypeOK'
<1> SUFFICES ASSUME TypeOK, [Next]_vars PROVE TypeOK'
  OBVIOUS
<1> USE TablesAssumption DEF TypeOK
<1>1. ASSUME NEW t \in Threads, NEW x \in Tables, NEW f \in Functions,
             Register(t, x, f)
      PROVE  TypeOK'
  <2>1. Append(table[x], f) \in Seq(Functions)
    BY Appended
  <2>2. Append(order, <<x, f>>) \in Seq(Tables \X Functions)
    BY Appended
  <2> QED
    BY <1>1, <2>1, <2>2 DEF Register
<1>2. ASSUME NEW t \in Threads, NEW x \in Tables, Execute(t, x)
      PROVE  TypeOK'
  BY <1>2 DEF Execute, Goto, Places
<1>3. ASSUME NEW t \in Threads, HostExit(t)
      PROVE  TypeOK'
  BY <1>3 DEF HostExit, Goto, Places
<1>4. ASSUME NEW t \in Threads, Enter(t)
      PROVE  TypeOK'
  <2>1. /\ Append(stack[t], want[t]) \in Seq(Tables)
        /\ Append(stack[t], want[t]) # <<>>
    <3> stack[t] \in Seq(Tables) /\ want[t] \in Tables
      OBVIOUS
    <3> HIDE DEF TypeOK
    <3> QED
      BY Appended
  <2> QED
    BY <1>4, <2>1 DEF Enter, Goto, Places
<1>5. ASSUME NEW t \in Threads, Pop(t)
      PROVE  TypeOK'
  <2> DEFINE x == Last(stack[t])
  <2>1. x \in Tables /\ stack[t] # <<>>
    BY <1>5, Fronted DEF Pop
  <2> HIDE DEF x
  <2>2. CASE table[x] = <<>>
    BY <1>5, <2>1, <2>2 DEF Pop, Goto, Places, x
  <2>3. CASE table[x] # <<>>
    <3>1. Front(table[x]) \in Seq(Functions) /\ Last(table[x]) \in Functions
      BY <2>1, <2>3, Fronted
    <3>2. Append(ran, <<x, Last(table[x])>>) \in Seq(Tables \X Functions)
      BY <2>1, <3>1, Appended
    <3>3. /\ table' = [table EXCEPT ![x] = Front(@)]
          /\ ran' = Append(ran, <<x, Last(table[x])>>)
          /\ pc' = [pc EXCEPT ![t] = "callback"]
          /\ UNCHANGED <<executing, stack, want, drainer, executes, order>>
      BY <1>5, <2>3 DEF Pop, Goto, x
    <3> QED
      BY <2>1, <3>1, <3>2, <3>3 DEF Places
  <2> QED
    BY <2>2, <2>3
<1>6. ASSUME NEW t \in Threads, CallbackReturns(t)
      PROVE  TypeOK'
  BY <1>6 DEF CallbackReturns, Goto, Places
<1>7. ASSUME NEW t \in Threads, Leave(t)
      PROVE  TypeOK'
  <2>1. /\ Front(stack[t]) \in Seq(Tables)
        /\ Front(stack[t]) = <<>> <=> Len(stack[t]) = 1
    BY <1>7, Fronted DEF Leave
  <2> QED
    BY <1>7, <2>1 DEF Leave, Goto, Places
<1>8. CASE UNCHANGED vars
  BY <1>8 DEF vars
<1> QED
  BY <1>1, <1>2, <1>3, <1>4, <1>5, <1>6, <1>7, <1>8
     DEF Next, Progress, Choice

\* A call waits for its table to leave executing, so the stacks of calls
\* never share a table; a call that leaves takes its table with it.
LEMMA StacksPreserved == TypeOK /\ StackInv /\ [Next]_vars => StackInv'
<1> SUFFICES ASSUME TypeOK, StackInv, [Next]_vars PROVE StackInv'
  OBVIOUS
<1>1. ASSUME NEW t \in Threads, Enter(t)
      PROVE  StackInv'
  <2> DEFINE n == Len(stack[t])
  <2>1. /\ n \in Nat
        /\ DOMAIN stack[t] = 1..n
        /\ DOMAIN stack'[t] = 1..(n + 1)
        /\ \A i \in 1..n : stack'[t][i] = stack[t][i]
        /\ stack'[t][n + 1] = want[t]
    <3>1. stack[t] \in Seq(Tables) /\ want[t] \in Tables
      BY DEF TypeOK
    <3>2. stack'[t] = Append(stack[t], want[t])
      BY <1>1 DEF Enter, TypeOK
    <3> QED
      BY <3>1, <3>2, Appended
  <2>2. \A u \in Threads : u # t => stack'[u] = stack[u]
    BY <1>1 DEF Enter, TypeOK
  <2>3. want[t] \notin executing /\ executing' = executing \cup {want[t]}
    BY <1>1 DEF Enter
  <2> HIDE DEF n
  <2>4. ASSUME NEW u \in Threads, NEW i \in DOMAIN stack'[u]
        PROVE  \/ i \in DOMAIN stack[u] /\ stack'[u][i] = stack[u][i]
               \/ u = t /\ i = n + 1 /\ stack'[u][i] = want[t]
    BY <2>1, <2>2
  <2>5. \A u \in Threads : \A i \in DOMAIN stack[u] :
           i \in DOMAIN stack'[u] /\ stack'[u][i] = stack[u][i]
    BY <2>1, <2>2
  <2>6. n + 1 \in DOMAIN stack'[t]
    BY <2>1
  <2>7. ASSUME NEW u \in Threads, NEW v \in Threads,
               NEW i \in DOMAIN stack'[u], NEW j \in DOMAIN stack'[v],
               stack'[u][i] = stack'[v][j]
        PROVE  u = v /\ i = j
    BY <2>3, <2>4, <2>7 DEF StackInv
  <2>8. \A u \in Threads : \A i \in DOMAIN stack'[u] :
           stack'[u][i] \in executing'
    BY <2>3, <2>4 DEF StackInv
  <2>9. \A x \in executing' :
           \E u \in Threads : \E i \in DOMAIN stack'[u] : stack'[u][i] = x
    BY <2>1, <2>3, <2>5, <2>6 DEF StackInv
  <2> QED
    BY <2>7, <2>8, <2>9 DEF StackInv
<1>2. ASSUME NEW t \in Threads, Leave(t)
      PROVE  StackInv'
  <2> DEFINE n == Len(stack[t])
  <2>1. /\ n \in Nat \ {0}
        /\ DOMAIN stack[t] = 1..n
        /\ DOMAIN stack'[t] = 1..(n - 1)
        /\ \A i \in 1..(n - 1) : stack'[t][i] = stack[t][i]
        /\ Last(stack[t]) = stack[t][n]
    <3>1. stack[t] \in Seq(Tables) /\ stack[t] # <<>>
      BY <1>2 DEF Leave, TypeOK
    <3>2. stack'[t] = Front(stack[t])
      BY <1>2 DEF Leave, TypeOK
    <3> QED
      BY <3>1, <3>2, Fronted
  <2>2. \A u \in Threads : u # t => stack'[u] = stack[u]
    BY <1>2 DEF Leave, TypeOK
  <2>3. executing' = executing \ {stack[t][n]}
    BY <1>2, <2>1 DEF Leave
  <2> HIDE DEF n
  <2>4. \A u \in Threads : \A i \in DOMAIN stack'[u] :
           /\ i \in DOMAIN stack[u] /\ stack'[u][i] = stack[u][i]
           /\ u = t => i # n
    BY <2>1, <2>2
  <2>5. \A u \in Threads : \A i \in DOMAIN stack[u] :
           \/ u = t /\ i = n
           \/ i \in DOMAIN stack'[u]
    BY <2>1, <2>2
  <2>6. n \in DOMAIN stack[t]
    BY <2>1
  <2>7. \A u \in Threads : \A i \in DOMAIN stack'[u] :
           stack'[u][i] \in executing'
    BY <2>3, <2>4, <2>6 DEF StackInv
  <2>8. \A x \in executing' :
           \E u \in Threads : \E i \in DOMAIN stack'[u] : stack'[u][i] = x
    BY <2>3, <2>4, <2>5 DEF StackInv
  <2>9. \A u, v \in Threads :
           \A i \in DOMAIN stack'[u], j \in DOMAIN stack'[v] :
              stack'[u][i] = stack'[v][j] => u = v /\ i = j
    BY <2>4 DEF StackInv
  <2> QED
    BY <2>7, <2>8, <2>9 DEF StackInv
<1>3. CASE UNCHANGED <<stack, executing>>
  BY <1>3 DEF StackInv
<1> QED
  BY <1>1, <1>2, <1>3 DEF Next, Progress, Choice, Register, Execute, HostExit,
     Pop, CallbackReturns, vars

\* A registration adds the newest function at the end of its table.
LEMMA RegisterPreserves ==
    ASSUME NEW t \in Threads, NEW x \in Tables, NEW f \in Functions,
           TypeOK, OrderInv, EachRunsOnce, Register(t, x, f)
    PROVE  OrderInv' /\ EachRunsOnce'
<1> DEFINE e == <<x, f>>
           n == Len(order)
           m == Len(table[x])
<1>1. /\ ~Contains(order, e)
      /\ order' = Append(order, e) /\ ran' = ran
      /\ table'[x] = Append(table[x], f)
      /\ \A y \in Tables : y # x => table'[y] = table[y]
  BY DEF Register, TypeOK
<1>2. order \in Seq(Tables \X Functions) /\ e \in Tables \X Functions
      /\ ran \in Seq(Tables \X Functions)
      /\ \A y \in Tables : table[y] \in Seq(Functions)
  BY DEF TypeOK
<1>3. /\ n \in Nat /\ DOMAIN order = 1..n /\ DOMAIN order' = 1..(n + 1)
      /\ \A i \in DOMAIN order : order'[i] = order[i]
      /\ order'[n + 1] = e
      /\ \A d : Contains(order', d) <=> Contains(order, d) \/ d = e
  <2> HIDE DEF e
  <2> QED
    BY <1>1, <1>2, Appended
<1>4. /\ m \in Nat /\ DOMAIN table[x] = 1..m /\ DOMAIN table'[x] = 1..(m + 1)
      /\ \A k \in DOMAIN table[x] : table'[x][k] = table[x][k]
      /\ table'[x][m + 1] = f
      /\ \A d : Contains(table'[x], d) <=> Contains(table[x], d) \/ d = f
  BY <1>1, <1>2, Appended
<1>5. \A i \in DOMAIN order : order[i] # e
  BY <1>1, <1>2, ContainsDef
<1>6. \A i \in DOMAIN order' :
         \/ i \in DOMAIN order /\ order'[i] = order[i] /\ order'[i] # e
            /\ i < n + 1
         \/ i = n + 1 /\ order'[i] = e
  BY <1>3, <1>5
<1>7. \A k \in DOMAIN table[x] : <<x, table[x][k]>> # e
  <2>1. \A k \in DOMAIN table[x] : Contains(order, <<x, table[x][k]>>)
    BY DEF OrderInv
  <2> QED
    BY <1>1, <2>1
<1>8. \A k \in DOMAIN table'[x] :
         \/ k \in DOMAIN table[x] /\ table'[x][k] = table[x][k]
            /\ <<x, table'[x][k]>> # e /\ k < m + 1
         \/ k = m + 1 /\ <<x, table'[x][k]>> = e
  BY <1>4, <1>7
<1> HIDE DEF e, n, m
<1>9. OrderInv'
  <2>1. IsInjective(order)'
    BY <1>6 DEF OrderInv, IsInjective
  <2>2. \A i \in DOMAIN ran' : Contains(order', ran'[i])
    BY <1>1, <1>3 DEF OrderInv
  <2>3. ASSUME NEW y \in Tables, NEW k \in DOMAIN table'[y]
        PROVE  Contains(order', <<y, table'[y][k]>>)
    <3>1. CASE y # x
      BY <1>1, <1>3, <3>1 DEF OrderInv
    <3>2. CASE y = x
      BY <1>3, <1>8, <3>2 DEF OrderInv
    <3> QED
      BY <3>1, <3>2
  <2>4. ASSUME NEW y \in Tables,
               NEW k \in DOMAIN table'[y], NEW l \in DOMAIN table'[y],
               NEW i \in DOMAIN order', NEW j \in DOMAIN order',
               order'[i] = <<y, table'[y][k]>>,
               order'[j] = <<y, table'[y][l]>>
        PROVE  k < l <=> i < j
    <3>1. CASE y # x
      <4>1. order'[i] # e /\ order'[j] # e
        BY <2>4, <3>1 DEF e
      <4> QED
        BY <1>1, <1>6, <2>4, <3>1, <4>1 DEF OrderInv
    <3>2. CASE y = x
      <4>1. /\ k \in Nat /\ l \in Nat /\ i \in Nat /\ j \in Nat
            /\ m \in Nat /\ n \in Nat
        BY <1>3, <1>4, <3>2
      <4>2. CASE order'[i] = e
        <5>1. i = n + 1 /\ k = m + 1
          BY <1>6, <1>8, <2>4, <3>2, <4>2
        <5>2. l <= m + 1 /\ j <= n + 1
          BY <1>6, <1>8, <3>2, <4>1
        <5> QED
          BY <4>1, <5>1, <5>2
      <4>3. CASE order'[i] # e /\ order'[j] = e
        <5>1. j = n + 1 /\ l = m + 1
          BY <1>6, <1>8, <2>4, <3>2, <4>3
        <5>2. k < m + 1 /\ i < n + 1
          BY <1>6, <1>8, <2>4, <3>2, <4>3
        <5> QED
          BY <5>1, <5>2
      <4>4. CASE order'[i] # e /\ order'[j] # e
        <5>1. /\ i \in DOMAIN order /\ order[i] = <<x, table[x][k]>>
              /\ j \in DOMAIN order /\ order[j] = <<x, table[x][l]>>
              /\ k \in DOMAIN table[x] /\ l \in DOMAIN table[x]
          BY <1>6, <1>8, <2>4, <3>2, <4>4
        <5> QED
          BY <5>1 DEF OrderInv
      <4> QED
        BY <4>2, <4>3, <4>4
    <3> QED
      BY <3>1, <3>2
  <2> QED
    BY <2>1, <2>2, <2>3, <2>4 DEF OrderInv
<1>10. EachRunsOnce'
  <2>1. IsInjective(ran')
    BY <1>1 DEF EachRunsOnce
  <2>2. ASSUME NEW i \in DOMAIN order'
        PROVE  Contains(ran', order'[i])
                  <=> ~Contains(table'[order'[i][1]], order'[i][2])
    <3>1. CASE order'[i] = e
      <4>1. ~Contains(ran, e)
        BY <1>1, <1>2, ContainsDef DEF OrderInv
      <4>2. order'[i][1] = x /\ order'[i][2] = f
        BY <3>1 DEF e
      <4> QED
        BY <1>1, <1>4, <3>1, <4>1, <4>2
    <3>2. CASE order'[i] # e
      <4>1. i \in DOMAIN order /\ order'[i] = order[i]
        BY <1>6, <3>2
      <4>2. /\ order[i][1] \in Tables
            /\ order[i] = <<order[i][1], order[i][2]>>
        <5>1. order[i] \in Tables \X Functions
          BY <1>2, <4>1
        <5> QED
          BY <5>1
      <4>3. order[i][1] = x => order[i][2] # f
        BY <3>2, <4>1, <4>2 DEF e
      <4>4. Contains(ran, order[i])
               <=> ~Contains(table[order[i][1]], order[i][2])
        BY <4>1 DEF EachRunsOnce
      <4> QED
        BY <1>1, <1>4, <4>1, <4>2, <4>3, <4>4
    <3> QED
      BY <3>1, <3>2
  <2> QED
    BY <2>1, <2>2 DEF EachRunsOnce
<1> QED
  BY <1>9, <1>10

\* What a step that runs a function takes from its table: the one registered
\* last, which was there once and had not run.
LEMMA Popped ==
    ASSUME NEW t \in Threads, TypeOK, OrderInv, EachRunsOnce, Pop(t),
           NEW x \in Tables, x = Last(stack[t]), table[x] # <<>>
    PROVE  \E f \in Functions, n \in DOMAIN order :
              /\ order[n] = <<x, f>> /\ ~Contains(ran, <<x, f>>)
              /\ ran' = Append(ran, <<x, f>>)
              /\ table'[x] = Front(table[x])
              /\ \A y \in Tables : y # x => table'[y] = table[y]
              /\ f = table[x][Len(table[x])]
              /\ ~Contains(table'[x], f)
              /\ \A d : d # f =>
                       (Contains(table'[x], d) <=> Contains(table[x], d))
<1> DEFINE m == Len(table[x])
           f == Last(table[x])
<1>1. table[x] \in Seq(Functions)
  BY DEF TypeOK
<1>2. /\ ran' = Append(ran, <<x, f>>)
      /\ table' = [table EXCEPT ![x] = Front(@)]
  BY DEF Pop
<1>3. /\ table'[x] = Front(table[x])
      /\ \A y \in Tables : y # x => table'[y] = table[y]
  BY <1>2 DEF TypeOK
<1>4. /\ Front(table[x]) \in Seq(Functions)
      /\ m \in Nat \ {0}
      /\ DOMAIN table[x] = 1..m
      /\ DOMAIN Front(table[x]) = 1..(m - 1)
      /\ \A i \in DOMAIN Front(table[x]) : Front(table[x])[i] = table[x][i]
      /\ f = table[x][m] /\ f \in Functions
  BY <1>1, Fronted
<1> HIDE DEF m, f
<1>5. m \in DOMAIN table[x]
  BY <1>4
<1>6. Contains(order, <<x, f>>)
  BY <1>4, <1>5 DEF OrderInv
<1>7. PICK n \in DOMAIN order : order[n] = <<x, f>>
  <2>1. order \in Seq(Tables \X Functions)
    BY DEF TypeOK
  <2> QED
    BY <1>6, <2>1, ContainsDef
<1>8. Contains(table[x], f)
  BY <1>1, <1>4, <1>5, ContainsDef
<1>9. ~Contains(ran, <<x, f>>)
  <2>1. order[n][1] = x /\ order[n][2] = f
    BY <1>7
  <2> QED
    BY <1>7, <1>8, <2>1 DEF EachRunsOnce
<1>10. \A k \in DOMAIN table[x] : table[x][k] = f => k = m
  <2>1. ASSUME NEW k \in DOMAIN table[x], table[x][k] = f
        PROVE  k < m <=> n < n
    BY <1>4, <1>5, <1>7, <2>1 DEF OrderInv
  <2>2. n \in Nat
    <3>1. order \in Seq(Tables \X Functions)
      BY DEF TypeOK
    <3> QED
      BY <3>1, LenProperties
  <2> QED
    BY <1>4, <2>1, <2>2
<1>11. ~Contains(table'[x], f)
  BY <1>3, <1>4, <1>10, ContainsDef
<1>12. ASSUME NEW d, d # f
       PROVE  Contains(table'[x], d) <=> Contains(table[x], d)
  BY <1>1, <1>3, <1>4, <1>12, ContainsDef
<1> QED
  BY <1>2, <1>3, <1>4, <1>7, <1>9, <1>11, <1>12 DEF m

\* The drain keeps the order of the rest of the table, and the function it
\* takes runs for the first time.
LEMMA PopPreserves ==
    ASSUME NEW t \in Threads, TypeOK, OrderInv, EachRunsOnce, Pop(t)
    PROVE  OrderInv' /\ EachRunsOnce'
<1> DEFINE x == Last(stack[t])
<1>1. x \in Tables
  BY Fronted DEF Pop, TypeOK
<1>2. order' = order
  BY DEF Pop
<1> HIDE DEF x
<1>3. CASE table[x] = <<>>
  <2>1. UNCHANGED <<table, ran>>
    BY <1>3 DEF Pop, x
  <2> QED
    BY <1>2, <2>1 DEF OrderInv, EachRunsOnce
<1>4. CASE table[x] # <<>>
  <2>1. PICK f \in Functions, n \in DOMAIN order :
              /\ order[n] = <<x, f>> /\ ~Contains(ran, <<x, f>>)
              /\ ran' = Append(ran, <<x, f>>)
              /\ table'[x] = Front(table[x])
              /\ \A y \in Tables : y # x => table'[y] = table[y]
              /\ f = table[x][Len(table[x])]
              /\ ~Contains(table'[x], f)
              /\ \A d : d # f =>
                       (Contains(table'[x], d) <=> Contains(table[x], d))
    BY <1>1, <1>4, Popped DEF x
  <2> DEFINE e == <<x, f>>
             r == Len(ran)
  <2>2. /\ order \in Seq(Tables \X Functions)
        /\ ran \in Seq(Tables \X Functions)
        /\ e \in Tables \X Functions
        /\ table[x] \in Seq(Functions)
    BY <1>1 DEF TypeOK
  <2>3. ~Contains(ran, e) /\ ran' = Append(ran, e) /\ order[n] = e
    BY <2>1
  <2> HIDE DEF e
  <2>4. /\ r \in Nat /\ DOMAIN ran = 1..r /\ DOMAIN ran' = 1..(r + 1)
        /\ \A i \in DOMAIN ran : ran'[i] = ran[i]
        /\ ran'[r + 1] = e
        /\ \A d : Contains(ran', d) <=> Contains(ran, d) \/ d = e
    BY <2>2, <2>3, Appended
  <2> HIDE DEF r
  <2>5. \A i \in DOMAIN ran' :
           \/ i \in DOMAIN ran /\ ran'[i] = ran[i]
           \/ i = r + 1 /\ ran'[i] = e
    BY <2>4
  <2>6. \A i \in DOMAIN ran : ran[i] # e
    BY <2>2, <2>3, ContainsDef
  <2>7. \A k \in DOMAIN table'[x] :
           k \in DOMAIN table[x] /\ table'[x][k] = table[x][k]
    <3>1. /\ Len(table[x]) \in Nat /\ DOMAIN table[x] = 1..Len(table[x])
          /\ DOMAIN Front(table[x]) = 1..(Len(table[x]) - 1)
          /\ \A k \in DOMAIN Front(table[x]) : Front(table[x])[k] = table[x][k]
      BY <1>4, <2>2, Fronted
    <3>2. table'[x] = Front(table[x])
      BY <2>1
    <3> QED
      BY <3>1, <3>2
  <2>8. \A y \in Tables : \A k \in DOMAIN table'[y] :
           k \in DOMAIN table[y] /\ table'[y][k] = table[y][k]
    BY <2>1, <2>7
  <2>9. OrderInv'
    <3>1. \A i \in DOMAIN ran' : Contains(order', ran'[i])
      <4>1. Contains(order, e)
        BY <2>2, <2>3, ContainsDef
      <4> QED
        BY <1>2, <2>5, <4>1 DEF OrderInv
    <3>2. \A y \in Tables : \A k \in DOMAIN table'[y] :
             Contains(order', <<y, table'[y][k]>>)
      BY <1>2, <2>8 DEF OrderInv
    <3>3. ASSUME NEW y \in Tables,
                 NEW k \in DOMAIN table'[y], NEW l \in DOMAIN table'[y],
                 NEW i \in DOMAIN order', NEW j \in DOMAIN order',
                 order'[i] = <<y, table'[y][k]>>,
                 order'[j] = <<y, table'[y][l]>>
          PROVE  k < l <=> i < j
      <4>1. /\ k \in DOMAIN table[y] /\ l \in DOMAIN table[y]
            /\ order[i] = <<y, table[y][k]>>
            /\ order[j] = <<y, table[y][l]>>
            /\ i \in DOMAIN order /\ j \in DOMAIN order
        BY <1>2, <2>8, <3>3
      <4> QED
        BY <4>1 DEF OrderInv
    <3>4. IsInjective(order')
      BY <1>2 DEF OrderInv
    <3> QED
      BY <3>1, <3>2, <3>3, <3>4 DEF OrderInv
  <2>10. EachRunsOnce'
    <3>1. IsInjective(ran')
      BY <2>5, <2>6 DEF EachRunsOnce, IsInjective
    <3>2. ASSUME NEW i \in DOMAIN order
          PROVE  Contains(ran', order[i])
                    <=> ~Contains(table'[order[i][1]], order[i][2])
      <4>1. /\ order[i][1] \in Tables
            /\ order[i] = <<order[i][1], order[i][2]>>
        <5>1. order[i] \in Tables \X Functions
          BY <2>2
        <5> QED
          BY <5>1
      <4>2. Contains(ran, order[i])
               <=> ~Contains(table[order[i][1]], order[i][2])
        BY DEF EachRunsOnce
      <4>3. CASE order[i] = e
        <5>1. order[i][1] = x /\ order[i][2] = f
          BY <4>3 DEF e
        <5> QED
          BY <2>1, <2>4, <4>3, <5>1
      <4>4. CASE order[i] # e
        <5>1. order[i][1] = x => order[i][2] # f
          BY <4>1, <4>4 DEF e
        <5>2. Contains(ran', order[i]) <=> Contains(ran, order[i])
          BY <2>4, <4>4
        <5>3. Contains(table'[order[i][1]], order[i][2])
                 <=> Contains(table[order[i][1]], order[i][2])
          BY <2>1, <4>1, <5>1
        <5> QED
          BY <4>2, <5>2, <5>3
      <4> QED
        BY <4>3, <4>4
    <3> QED
      BY <1>2, <3>1, <3>2 DEF EachRunsOnce
  <2> QED
    BY <2>9, <2>10
<1> QED
  BY <1>3, <1>4

\* Every step keeps the order of the tables and runs a function once.
LEMMA HistoryPreserved ==
    TypeOK /\ OrderInv /\ EachRunsOnce /\ [Next]_vars
        => OrderInv' /\ EachRunsOnce'
<1> SUFFICES ASSUME TypeOK, OrderInv, EachRunsOnce, [Next]_vars
             PROVE  OrderInv' /\ EachRunsOnce'
  OBVIOUS
<1>1. CASE \E t \in Threads, x \in Tables, f \in Functions : Register(t, x, f)
  BY <1>1, RegisterPreserves
<1>2. CASE \E t \in Threads : Pop(t)
  BY <1>2, PopPreserves
<1>3. CASE UNCHANGED <<table, order, ran>>
  BY <1>3 DEF OrderInv, EachRunsOnce
<1> QED
  BY <1>1, <1>2, <1>3 DEF Next, Progress, Choice, Execute, HostExit, Enter,
     CallbackReturns, Leave, vars

-----------------------------------------------------------------------------

\* The invariant holds in every state, for any threads, tables and functions.
THEOREM Invariance == Spec => []IInv
<1>1. IInv /\ [Next]_vars => IInv'
  BY TypePreserved, StacksPreserved, HistoryPreserved DEF IInv
<1> QED
  BY <1>1, InitEstablishes, PTL DEF Spec

\* The variables keep their types, and a thread that drains a table has one.
THEOREM TypeCorrect == Spec => []TypeOK
<1>1. IInv => TypeOK
  BY DEF IInv
<1> QED
  BY <1>1, Invariance, PTL

\* However many threads execute tables, and however deep their callbacks
\* nest, a table is executed by one call at a time.
THEOREM ExecutionsExclude == Spec => []OneExecutionPerTable
<1>1. StackInv => OneExecutionPerTable
  <2> SUFFICES ASSUME StackInv PROVE OneExecutionPerTable
    OBVIOUS
  <2>1. \A a \in Frames :
           /\ a[1] \in Threads /\ a[2] \in DOMAIN stack[a[1]]
           /\ a = <<a[1], a[2]>>
    BY DEF Frames
  <2>2. \A t \in Threads : \A i \in DOMAIN stack[t] :
           <<t, i>> \in Frames /\ TableOf(<<t, i>>) = stack[t][i]
    BY DEF Frames, TableOf
  <2>3. ASSUME NEW a \in Frames, NEW b \in Frames, TableOf(a) = TableOf(b)
        PROVE  a = b
    <3>1. a[1] = b[1] /\ a[2] = b[2]
      BY <2>1, <2>3 DEF StackInv, TableOf
    <3> QED
      BY <2>1, <3>1
  <2>4. \A a \in Frames : TableOf(a) \in executing
    BY <2>1 DEF StackInv, TableOf
  <2>5. ASSUME NEW x \in executing
        PROVE  \E a \in Frames : x = TableOf(a)
    <3>1. PICK t \in Threads : \E i \in DOMAIN stack[t] : stack[t][i] = x
      BY DEF StackInv
    <3>2. PICK i \in DOMAIN stack[t] : stack[t][i] = x
      BY <3>1
    <3>3. <<t, i>> \in Frames /\ TableOf(<<t, i>>) = x
      BY <2>2, <3>2
    <3> QED
      BY <3>3
  <2> QED
    BY <2>3, <2>4, <2>5 DEF OneExecutionPerTable
<1>2. IInv => StackInv
  BY DEF IInv
<1> QED
  BY <1>1, <1>2, Invariance, PTL

\* No registered function is lost and none runs twice, whichever threads
\* drain its table and whatever the callbacks register meanwhile.
THEOREM RunOnce == Spec => []EachRunsOnce
<1>1. IInv => EachRunsOnce
  BY DEF IInv
<1> QED
  BY <1>1, Invariance, PTL

\* A function runs only when every one registered later in its table has
\* run, those its table received during the drain among them.
THEOREM NewestRunsFirst == Spec => NewestFirst
<1> DEFINE Newest ==
        \A i, j \in DOMAIN order :
           /\ ran' = Append(ran, order[i])
           /\ i < j /\ order[i][1] = order[j][1]
           => Contains(ran, order[j])
<1>1. IInv /\ [Next]_vars => [Newest]_vars
  <2> SUFFICES ASSUME IInv, [Next]_vars,
                      NEW i \in DOMAIN order, NEW j \in DOMAIN order,
                      ran' = Append(ran, order[i]),
                      i < j, order[i][1] = order[j][1]
               PROVE  Contains(ran, order[j])
    OBVIOUS
  <2>1. TypeOK /\ OrderInv /\ EachRunsOnce
    BY DEF IInv
  <2>2. /\ order \in Seq(Tables \X Functions)
        /\ ran \in Seq(Tables \X Functions)
        /\ DOMAIN order \subseteq Nat
    BY <2>1, LenProperties DEF TypeOK
  <2>3. ran' # ran
    BY <2>2, AppendProperties, ElementOfSeq, LenProperties
  <2>4. PICK t \in Threads : Pop(t)
    BY <2>3 DEF Next, Progress, Choice, Register, Execute, HostExit, Enter,
       CallbackReturns, Leave, vars
  <2> DEFINE x == Last(stack[t])
  <2>5. x \in Tables /\ table[x] # <<>>
    BY <2>1, <2>3, <2>4, Fronted DEF Pop, TypeOK
  <2> HIDE DEF x
  <2>6. PICK f \in Functions, n \in DOMAIN order :
              /\ order[n] = <<x, f>> /\ ran' = Append(ran, <<x, f>>)
              /\ f = table[x][Len(table[x])]
    BY <2>1, <2>4, <2>5, Popped DEF x
  <2>7. order[i] = <<x, f>>
    <3>1. order[i] \in Tables \X Functions
      BY <2>2, ElementOfSeq, LenProperties
    <3>2. <<x, f>> \in Tables \X Functions
      BY <2>5
    <3>3. Append(ran, order[i])[Len(ran) + 1] = order[i]
      BY <2>2, <3>1, AppendProperties
    <3>4. Append(ran, <<x, f>>)[Len(ran) + 1] = <<x, f>>
      BY <2>2, <3>2, AppendProperties
    <3> QED
      BY <2>6, <3>3, <3>4
  <2>8. order[j] = <<x, order[j][2]>>
    <3>1. order[j] \in Tables \X Functions
      BY <2>2, ElementOfSeq, LenProperties
    <3> QED
      BY <2>7, <3>1
  <2> SUFFICES ASSUME ~Contains(ran, order[j]) PROVE FALSE
    OBVIOUS
  <2>9. Contains(table[x], order[j][2])
    <3>1. order[j][1] = x
      BY <2>8
    <3> QED
      BY <2>1, <3>1 DEF EachRunsOnce
  <2>10. table[x] \in Seq(Functions)
    BY <2>1, <2>5 DEF TypeOK
  <2>11. PICK k \in DOMAIN table[x] : table[x][k] = order[j][2]
    BY <2>9, <2>10, ContainsDef
  <2> DEFINE m == Len(table[x])
  <2>12. m \in DOMAIN table[x] /\ k <= m /\ k \in Nat /\ m \in Nat
    BY <2>5, <2>10, <2>11, Fronted
  <2> HIDE DEF m
  <2>13. k < m <=> j < i
    <3>1. order[j] = <<x, table[x][k]>> /\ order[i] = <<x, table[x][m]>>
      BY <2>6, <2>7, <2>8, <2>11 DEF m
    <3> QED
      BY <2>1, <2>5, <2>12, <3>1 DEF OrderInv
  <2>14. k = m
    BY <2>2, <2>12, <2>13
  <2>15. order[i] = order[j]
    BY <2>6, <2>7, <2>8, <2>11, <2>14 DEF m
  <2>16. i = j
    BY <2>1, <2>15 DEF OrderInv, IsInjective
  <2> QED
    BY <2>2, <2>16
<1> QED
  BY <1>1, Invariance, PTL DEF Spec, NewestFirst

=============================================================================

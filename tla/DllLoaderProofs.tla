-------------------------- MODULE DllLoaderProofs ---------------------------
(***************************************************************************)
(* Proofs about DllLoader, for any DLLs, exports and imports: a file is    *)
(* live in one image at most and a load leaves all or nothing.  If no DLL  *)
(* imports, however indirectly, from one that imports it, no image in use  *)
(* is bound to one that was unmapped; if the exports also fit the table,   *)
(* a DllMain finds the DLLs beside it registered and its imports served.   *)
(***************************************************************************)
EXTENDS DllLoader, FiniteSetTheorems, SequenceTheorems, WellFoundedInduction, TLAPS

\* The images being loaded: each but the innermost waits for the sibling its
\* descriptor names, and the outermost is what load_dll was called for.
StackInv ==
    /\ \A i \in Images :
        state[i] \in {"linking", "attaching"} <=> \E k \in DOMAIN stack : stack[k] = i
    /\ \A k \in DOMAIN stack : k + 1 \in DOMAIN stack =>
        /\ state[stack[k]] = "linking"
        /\ next[stack[k]] \in DOMAIN Imports[file[stack[k]]]
        /\ Descriptor(stack[k])[1] = file[stack[k + 1]]
    /\ stack # <<>> => file[stack[1]] \in Roots
    /\ phase \in {"link", "bind"} => state[Top] = "linking"
    /\ phase = "bind" => next[Top] \in DOMAIN Imports[file[Top]]
    /\ phase = "dllmain" => state[Top] = "attaching"

\* The descriptors an image has behind it.
NextInv ==
    \A i \in Images :
        /\ next[i] # 0
        /\ state[i] \in {"attaching", "registered"} => next[i] > Len(Imports[file[i]])

\* A sibling that is live was attempted, so it is not mapped again.
OneInv ==
    /\ OneImagePerFile
    /\ \A i \in Images : state[i] # "gone" /\ file[i] \notin Roots => file[i] \in attempted
    /\ attempted \cap Roots = {}

\* The root of a load that failed has no image.
FailedInv == \A m \in failed : \A i \in Images : file[i] = m => state[i] = "gone"

\* An entry of the table is that of a live image, which exports the symbol.
ExportInv ==
    \A e \in exports :
        state[e[3]] # "gone" /\ file[e[3]] = e[1] /\ e[2] \in Exports[e[1]]

\* The inductive invariant, for any import graph.
IInv == TypeOK /\ StackInv /\ NextInv /\ OneInv /\ FailedInv /\ ExportInv

-----------------------------------------------------------------------------
(* Sequences, and the largest of some numbers.                             *)

\* Append makes a sequence one longer.
LEMMA Appended ==
    ASSUME NEW S, NEW s \in Seq(S), NEW e \in S
    PROVE  /\ Append(s, e) \in Seq(S)
           /\ Len(s) \in Nat /\ DOMAIN s = 1..Len(s)
           /\ DOMAIN Append(s, e) = 1..(Len(s) + 1)
           /\ Len(Append(s, e)) = Len(s) + 1
           /\ \A i \in DOMAIN s : Append(s, e)[i] = s[i] /\ i # Len(s) + 1
           /\ Append(s, e)[Len(s) + 1] = e
<1>1. /\ Append(s, e) \in Seq(S) /\ Len(Append(s, e)) = Len(s) + 1
      /\ \A i \in 1..Len(s) : Append(s, e)[i] = s[i]
      /\ Append(s, e)[Len(s) + 1] = e
  BY AppendProperties
<1>2. Len(s) \in Nat /\ DOMAIN s = 1..Len(s)
  BY LenProperties
<1>3. DOMAIN Append(s, e) = 1..(Len(s) + 1)
  BY <1>1, LenProperties
<1> QED
  BY <1>1, <1>2, <1>3

\* Front drops the last index.
LEMMA Fronted ==
    ASSUME NEW S, NEW s \in Seq(S), s # <<>>
    PROVE  /\ Front(s) \in Seq(S)
           /\ Len(s) \in Nat \ {0} /\ DOMAIN s = 1..Len(s)
           /\ DOMAIN Front(s) = 1..(Len(s) - 1)
           /\ Len(Front(s)) = Len(s) - 1
           /\ \A i \in DOMAIN Front(s) : Front(s)[i] = s[i]
           /\ Front(s) = <<>> <=> Len(s) = 1
<1>1. Len(s) \in Nat \ {0} /\ DOMAIN s = 1..Len(s)
  BY EmptySeq, LenProperties
<1>2. \A i \in 1..(Len(s) - 1) : s[i] \in S
  BY <1>1, ElementOfSeq
<1>3. /\ SubSeq(s, 1, Len(s) - 1) \in Seq(S)
      /\ Len(SubSeq(s, 1, Len(s) - 1)) = IF 1 <= Len(s) - 1 THEN (Len(s) - 1) - 1 + 1 ELSE 0
      /\ \A i \in 1..((Len(s) - 1) - 1 + 1) : SubSeq(s, 1, Len(s) - 1)[i] = s[1 + i - 1]
  BY <1>1, <1>2, SubSeqProperties
<1>4. /\ Front(s) \in Seq(S) /\ Len(Front(s)) = Len(s) - 1
      /\ \A i \in 1..(Len(s) - 1) : Front(s)[i] = s[i]
  BY <1>1, <1>3 DEF Front
<1>5. DOMAIN Front(s) = 1..(Len(s) - 1)
  BY <1>4, LenProperties
<1>6. Front(s) = <<>> <=> Len(s) = 1
  BY <1>1, <1>4, EmptySeq
<1> QED
  BY <1>1, <1>4, <1>5, <1>6

\* A function on 1..n is a sequence of length n.
LEMMA FunctionIsSeq ==
    ASSUME NEW S, NEW n \in Nat, NEW s \in [1..n -> S]
    PROVE  s \in Seq(S) /\ Len(s) = n
<1>1. s \in Seq(S)
  BY SeqDef
<1>2. Len(s) \in Nat /\ DOMAIN s = 1..Len(s)
  BY <1>1, LenProperties
<1> QED
  BY <1>1, <1>2

\* Numbers up to n have a largest.
LEMMA Largest ==
    ASSUME NEW n \in Nat, NEW T, T \subseteq 0..n, T # {}
    PROVE  Max(T) \in T /\ \A x \in T : x <= Max(T)
<1> DEFINE D == {n - x : x \in T}
<1>1. D \subseteq Nat /\ D # {}
  OBVIOUS
<1>2. PICK d \in D : \A e \in D : ~(<<e, d>> \in OpToRel(<, Nat))
  BY <1>1, WFMin, NatLessThanWellFounded
<1>3. \A e \in D : ~(e < d)
  BY <1>1, <1>2 DEF OpToRel
<1>4. PICK x \in T : d = n - x
  OBVIOUS
<1>5. \A y \in T : x >= y
  <2>1. ASSUME NEW y \in T PROVE x >= y
    <3>1. n - y \in D /\ ~(n - y < n - x)
      BY <1>3, <1>4
    <3> QED
      BY <3>1
  <2> QED
    BY <2>1
<1>6. Max(T) \in T /\ \A y \in T : Max(T) >= y
  BY <1>4, <1>5 DEF Max
<1> QED
  BY <1>6

-----------------------------------------------------------------------------
(* What the parts of the state are, and what the steps change of them.     *)

\* Images are numbers from one, and those on the stack are images.
LEMMA Numbers ==
    ASSUME TypeOK
    PROVE  /\ Len(file) \in Nat /\ Images = 1..Len(file) /\ Stub \notin Images
           /\ \A i \in Images : file[i] \in Present
           /\ Len(stack) \in Nat /\ DOMAIN stack = 1..Len(stack)
           /\ \A k \in DOMAIN stack : stack[k] \in Images
           /\ stack # <<>> => Len(stack) \in DOMAIN stack /\ Top = stack[Len(stack)] /\ Top \in Images
<1>1. Len(file) \in Nat /\ Images = 1..Len(file)
  BY LenProperties DEF TypeOK, Images
<1>2. \A i \in Images : file[i] \in Present
  BY <1>1, ElementOfSeq DEF TypeOK
<1>3. Len(stack) \in Nat /\ DOMAIN stack = 1..Len(stack)
  BY LenProperties DEF TypeOK
<1>4. \A k \in DOMAIN stack : stack[k] \in Images
  BY <1>3, ElementOfSeq DEF TypeOK
<1>5. stack # <<>> => Len(stack) # 0
  BY EmptySeq DEF TypeOK
<1> QED
  BY <1>1, <1>2, <1>3, <1>4, <1>5 DEF Stub, Top, Last

\* The import descriptors of a DLL name other DLLs than those with wrappers.
LEMMA Descriptors ==
    ASSUME NEW m \in Present
    PROVE  /\ Len(Imports[m]) \in Nat /\ DOMAIN Imports[m] = 1..Len(Imports[m])
           /\ \A k \in DOMAIN Imports[m] :
                /\ Imports[m][k] \in Modules \X Symbols
                /\ Imports[m][k][1] \in Modules \ Roots
                /\ Imports[m][k] \in ToSet(Imports[m])
<1>1. Imports[m] \in Seq(Modules \X Symbols)
  BY ModulesAssumption
<1>2. Len(Imports[m]) \in Nat /\ DOMAIN Imports[m] = 1..Len(Imports[m])
  BY <1>1, LenProperties
<1>3. ASSUME NEW k \in DOMAIN Imports[m]
      PROVE  /\ Imports[m][k] \in Modules \X Symbols
             /\ Imports[m][k] \in ToSet(Imports[m])
  BY <1>1, <1>2, ElementOfSeq DEF ToSet
<1>4. \A k \in DOMAIN Imports[m] : Imports[m][k][1] \notin Roots
  BY <1>3, RootsAssumption
<1> QED
  BY <1>2, <1>3, <1>4

\* Symbols that are exported are symbols.
LEMMA ExportsAreSymbols == \A m \in Present : Exports[m] \subseteq Symbols
BY DEF Symbols

\* Map adds an image, and puts it on top of the stack.
LEMMA Mapped ==
    ASSUME TypeOK, NEW m \in Present, Map(m)
    PROVE  LET n == Len(file) + 1 IN
           /\ n \notin Images /\ Images' = Images \cup {n} /\ n \in Nat
           /\ file' \in Seq(Present) /\ file'[n] = m /\ state'[n] = "linking"
           /\ bound'[n] = {} /\ next'[n] = 1
           /\ \A i \in Images : /\ file'[i] = file[i] /\ state'[i] = state[i]
                                /\ bound'[i] = bound[i] /\ next'[i] = next[i]
           /\ state' \in [Images' -> {"linking", "attaching", "registered", "gone"}]
           /\ bound' \in [Images' -> SUBSET (Modules \X Symbols \X (Images' \cup {Stub}))]
           /\ next' \in [Images' -> Nat]
           /\ stack' \in Seq(Images') /\ IsInjective(stack') /\ stack' # <<>>
           /\ DOMAIN stack' = 1..(Len(stack) + 1) /\ Len(stack') = Len(stack) + 1
           /\ \A k \in DOMAIN stack : stack'[k] = stack[k]
           /\ stack'[Len(stack) + 1] = n /\ Top' = n
           /\ phase' = "link"
<1> DEFINE n == Len(file) + 1
<1>1. /\ Len(file) \in Nat /\ Images = 1..Len(file) /\ Len(stack) \in Nat
      /\ DOMAIN stack = 1..Len(stack) /\ \A k \in DOMAIN stack : stack[k] \in Images
  BY Numbers
<1>2. /\ file' = Append(file, m) /\ state' = Append(state, "linking") /\ bound' = Append(bound, {})
      /\ next' = Append(next, 1) /\ stack' = Append(stack, n) /\ phase' = "link"
  BY DEF Map
<1>3. /\ file' \in Seq(Present) /\ file'[n] = m /\ DOMAIN file' = 1..n
      /\ \A i \in Images : file'[i] = file[i]
  BY <1>1, <1>2, Appended DEF TypeOK
<1>4. n \notin Images /\ Images' = Images \cup {n} /\ n \in Nat
  BY <1>1, <1>3 DEF Images
<1>5. /\ state'[n] = "linking" /\ \A i \in Images : state'[i] = state[i]
      /\ state' \in [Images' -> {"linking", "attaching", "registered", "gone"}]
  <2> DEFINE S == {"linking", "attaching", "registered", "gone"}
  <2>1. state \in [Images -> S] /\ "linking" \in S
    BY DEF TypeOK
  <2> HIDE DEF S
  <2>2. state \in Seq(S) /\ Len(state) = Len(file)
    BY <1>1, <2>1, FunctionIsSeq
  <2>3. /\ state' \in Seq(S) /\ DOMAIN state' = 1..n /\ state'[n] = "linking"
        /\ \A i \in Images : state'[i] = state[i]
    BY <1>1, <1>2, <2>1, <2>2, Appended
  <2>4. \A i \in Images' : state'[i] \in S
    BY <1>1, <1>4, <2>1, <2>3
  <2>5. state' = [i \in Images' |-> state'[i]]
    BY <1>1, <1>4, <2>3
  <2> QED
    BY <2>3, <2>4, <2>5 DEF S
<1>6. /\ bound'[n] = {} /\ \A i \in Images : bound'[i] = bound[i]
      /\ bound' \in [Images' -> SUBSET (Modules \X Symbols \X (Images' \cup {Stub}))]
  <2> DEFINE S == SUBSET (Modules \X Symbols \X (Images' \cup {Stub}))
  <2>1. bound \in [Images -> S] /\ {} \in S
    BY <1>4 DEF TypeOK
  <2> HIDE DEF S
  <2>2. bound \in Seq(S) /\ Len(bound) = Len(file)
    BY <1>1, <2>1, FunctionIsSeq
  <2>3. /\ bound' \in Seq(S) /\ DOMAIN bound' = 1..n /\ bound'[n] = {}
        /\ \A i \in Images : bound'[i] = bound[i]
    BY <1>1, <1>2, <2>1, <2>2, Appended
  <2>4. \A i \in Images' : bound'[i] \in S
    BY <1>1, <1>4, <2>1, <2>3
  <2>5. bound' = [i \in Images' |-> bound'[i]]
    BY <1>1, <1>4, <2>3
  <2> QED
    BY <2>3, <2>4, <2>5 DEF S
<1>7. /\ next'[n] = 1 /\ \A i \in Images : next'[i] = next[i]
      /\ next' \in [Images' -> Nat]
  <2>1. next \in Seq(Nat) /\ Len(next) = Len(file)
    BY <1>1, FunctionIsSeq DEF TypeOK
  <2>2. /\ next' \in Seq(Nat) /\ DOMAIN next' = 1..n /\ next'[n] = 1
        /\ \A i \in Images : next'[i] = next[i]
    BY <1>1, <1>2, <2>1, Appended
  <2>3. \A i \in Images' : next'[i] \in Nat
    BY <1>1, <1>4, <2>2 DEF TypeOK
  <2>4. next' = [i \in Images' |-> next'[i]]
    BY <1>1, <1>4, <2>2
  <2> QED
    BY <2>2, <2>3, <2>4
<1>8. /\ stack' \in Seq(Images') /\ DOMAIN stack' = 1..(Len(stack) + 1)
      /\ Len(stack') = Len(stack) + 1 /\ stack'[Len(stack) + 1] = n
      /\ \A k \in DOMAIN stack : stack'[k] = stack[k]
  <2>1. stack \in Seq(Images')
    BY <1>4, SeqMonotonic DEF TypeOK
  <2> QED
    BY <1>1, <1>2, <1>4, <2>1, Appended
<1>9. IsInjective(stack') /\ stack' # <<>> /\ Top' = n
  <2>1. \A k, l \in DOMAIN stack : stack[k] = stack[l] => k = l
    BY DEF TypeOK, IsInjective
  <2>2. ASSUME NEW k \in DOMAIN stack', NEW l \in DOMAIN stack', stack'[k] = stack'[l]
        PROVE  k = l
    <3>1. \A j \in DOMAIN stack' : j \in DOMAIN stack \/ j = Len(stack) + 1
      BY <1>1, <1>8
    <3>2. \A j \in DOMAIN stack : stack'[j] # n
      BY <1>1, <1>4, <1>8
    <3> QED
      BY <1>8, <2>1, <2>2, <3>1, <3>2
  <2>3. stack' # <<>>
    BY <1>1, <1>8, EmptySeq
  <2>4. Top' = n
    BY <1>8 DEF Top, Last
  <2> QED
    BY <2>2, <2>3, <2>4 DEF IsInjective
<1> QED
  BY <1>2, <1>3, <1>4, <1>5, <1>6, <1>7, <1>8, <1>9

\* Return takes the innermost image off the stack.
LEMMA Returned ==
    ASSUME TypeOK, stack # <<>>, stack' = Front(stack), file' = file
    PROVE  /\ stack' \in Seq(Images') /\ IsInjective(stack')
           /\ DOMAIN stack' = 1..(Len(stack) - 1) /\ Len(stack') = Len(stack) - 1
           /\ \A k \in DOMAIN stack' : stack'[k] = stack[k] /\ stack[k] # Top
           /\ \A k \in DOMAIN stack : k \in DOMAIN stack' \/ stack[k] = Top
           /\ stack' = <<>> <=> Len(stack) = 1
           /\ Len(stack) # 1 => /\ Len(stack) - 1 \in DOMAIN stack'
                                /\ Top' = stack[Len(stack) - 1]
<1>1. /\ stack' \in Seq(Images) /\ DOMAIN stack' = 1..(Len(stack) - 1)
      /\ Len(stack') = Len(stack) - 1
      /\ stack' = <<>> <=> Len(stack) = 1
      /\ \A k \in DOMAIN stack' : stack'[k] = stack[k]
      /\ Len(stack) \in Nat \ {0} /\ DOMAIN stack = 1..Len(stack)
  BY Fronted DEF TypeOK
<1>2. Images' = Images
  BY DEF Images
<1>3. \A k, l \in DOMAIN stack : stack[k] = stack[l] => k = l
  BY DEF TypeOK, IsInjective
<1>4. /\ \A k \in DOMAIN stack' : k \in DOMAIN stack /\ k # Len(stack)
      /\ \A k \in DOMAIN stack : k \in DOMAIN stack' \/ k = Len(stack)
      /\ Len(stack) \in DOMAIN stack
  BY <1>1
<1>5. IsInjective(stack')
  <2>1. \A k, l \in DOMAIN stack' : stack'[k] = stack'[l] => k = l
    BY <1>1, <1>3, <1>4
  <2> QED
    BY <2>1 DEF IsInjective
<1>6. Top = stack[Len(stack)]
  BY DEF Top, Last
<1>7. Len(stack) # 1 => Len(stack) - 1 \in DOMAIN stack'
  BY <1>1
<1>8. Len(stack) # 1 => Top' = stack[Len(stack) - 1]
  <2>1. Top' = stack'[Len(stack')]
    BY DEF Top, Last
  <2> QED
    BY <1>1, <1>7, <2>1
<1>9. \A k \in DOMAIN stack' : stack[k] # Top
  BY <1>3, <1>4, <1>6
<1> QED
  BY <1>1, <1>2, <1>4, <1>5, <1>6, <1>7, <1>8, <1>9

\* Of a record of three, what the table's entries are.
LEMMA Entries ==
    ASSUME TypeOK, NEW e \in exports
    PROVE  /\ e = <<e[1], e[2], e[3]>>
           /\ e[1] \in Present /\ e[2] \in Symbols /\ e[3] \in Images
BY DEF TypeOK

\* Map adds exports of the new image to the table and keeps it within its
\* capacity.
LEMMA Registering ==
    ASSUME TypeOK, NEW m \in Present, Map(m)
    PROVE  /\ exports' \in SUBSET (Present \X Symbols \X Images')
           /\ IsFiniteSet(exports') /\ Cardinality(exports') <= MaxExports
           /\ exports \subseteq exports'
           /\ \A e \in exports' : \/ e \in exports
                                  \/ e[1] = m /\ e[2] \in Exports[m] /\ e[3] = Len(file) + 1
           /\ Cardinality(exports') = MaxExports
              \/ \A s \in Exports[m] : <<m, s, Len(file) + 1>> \in exports'
<1> DEFINE n == Len(file) + 1
<1>1. PICK kept \in SUBSET Exports[m] :
        /\ Cardinality(exports) + Cardinality(kept) <= MaxExports
        /\ kept = Exports[m] \/ Cardinality(exports) + Cardinality(kept) = MaxExports
        /\ exports' = exports \cup {<<m, s, n>> : s \in kept}
  BY DEF Map, RegisterExports
<1> DEFINE new == {<<m, s, n>> : s \in kept}
           f == [s \in kept |-> <<m, s, n>>]
           g == [e \in new |-> e[2]]
<1>2. IsFiniteSet(kept) /\ Cardinality(kept) \in Nat
  BY ModulesAssumption, FS_Subset, FS_CardinalityType
<1>3. f \in Surjection(kept, new)
  BY DEF Surjection
<1>4. f \in Injection(kept, new)
  <2>1. \A s, r \in kept : f[s] = f[r] => s = r
    OBVIOUS
  <2> QED
    BY <2>1 DEF Injection, IsInjective
<1>5. IsFiniteSet(new) /\ Cardinality(new) = Cardinality(kept)
  BY <1>2, <1>3, <1>4, FS_Surjection
<1>6. exports \cap new = {}
  <2>1. n \notin Images
    BY Mapped
  <2> QED
    BY <2>1, Entries
<1>7. /\ IsFiniteSet(exports') /\ Cardinality(exports) \in Nat
      /\ Cardinality(exports') = Cardinality(exports) + Cardinality(new)
  <2>1. IsFiniteSet(exports) /\ Cardinality(exports) \in Nat
    BY FS_CardinalityType DEF TypeOK
  <2>2. Cardinality(exports \cap new) = 0
    BY <1>6, FS_EmptySet
  <2>3. /\ IsFiniteSet(exports \cup new)
        /\ Cardinality(exports \cup new)
             = Cardinality(exports) + Cardinality(new) - Cardinality(exports \cap new)
    BY <1>5, <2>1, FS_Union
  <2> QED
    BY <1>1, <1>2, <1>5, <2>1, <2>2, <2>3
<1>8. exports' \in SUBSET (Present \X Symbols \X Images')
  <2>1. exports \in SUBSET (Present \X Symbols \X Images') /\ n \in Images'
    BY Mapped DEF TypeOK
  <2>2. kept \subseteq Symbols
    BY ExportsAreSymbols
  <2> QED
    BY <1>1, <2>1, <2>2
<1>9. \A e \in new : e[1] = m /\ e[2] \in Exports[m] /\ e[3] = n
  OBVIOUS
<1> QED
  BY <1>1, <1>2, <1>5, <1>7, <1>8, <1>9

-----------------------------------------------------------------------------
(* Every step preserves the inductive invariant.                           *)

\* The images are as they were, but for what becomes of their states.
LEMMA Mapping ==
    ASSUME IInv, NEW m \in Present, Map(m),
           \A i \in Images : file[i] = m => state[i] = "gone",
           \/ stack = <<>> /\ m \in Roots
           \/ /\ stack # <<>> /\ phase = "link"
              /\ next[Top] \in DOMAIN Imports[file[Top]] /\ Descriptor(Top)[1] = m,
           attempted' \in SUBSET Modules, attempted \subseteq attempted',
           attempted' \cap Roots = {}, m \in Roots \cup attempted',
           failed' \in SUBSET Roots, failed' \subseteq failed \ {m}, loads' \in Nat
    PROVE  IInv'
<1> DEFINE n == Len(file) + 1
<1> USE DEF IInv
<1>1. /\ n \notin Images /\ Images' = Images \cup {n} /\ n \in Nat
      /\ file'[n] = m /\ state'[n] = "linking" /\ bound'[n] = {} /\ next'[n] = 1
      /\ \A i \in Images : /\ file'[i] = file[i] /\ state'[i] = state[i]
                           /\ bound'[i] = bound[i] /\ next'[i] = next[i]
      /\ stack' # <<>> /\ DOMAIN stack' = 1..(Len(stack) + 1)
      /\ Len(stack') = Len(stack) + 1
      /\ \A k \in DOMAIN stack : stack'[k] = stack[k]
      /\ stack'[Len(stack) + 1] = n /\ Top' = n /\ phase' = "link"
  BY Mapped
<1>2. /\ Len(stack) \in Nat /\ DOMAIN stack = 1..Len(stack)
      /\ \A k \in DOMAIN stack : stack[k] \in Images
      /\ stack # <<>> => /\ Len(stack) \in DOMAIN stack /\ Top = stack[Len(stack)]
                         /\ Top \in Images
      /\ stack = <<>> => Len(stack) = 0
  BY Numbers, EmptySeq
<1>3. TypeOK'
  <2>1. /\ file' \in Seq(Present)
        /\ state' \in [Images' -> {"linking", "attaching", "registered", "gone"}]
        /\ bound' \in [Images' -> SUBSET (Modules \X Symbols \X (Images' \cup {Stub}))]
        /\ next' \in [Images' -> Nat]
        /\ stack' \in Seq(Images') /\ IsInjective(stack')
    BY Mapped
  <2>2. /\ exports' \in SUBSET (Present \X Symbols \X Images')
        /\ IsFiniteSet(exports') /\ Cardinality(exports') <= MaxExports
    BY Registering
  <2> QED
    BY <1>1, <2>1, <2>2 DEF TypeOK, Stub
<1>4. StackInv'
  <2>1. ASSUME NEW i \in Images'
        PROVE  state'[i] \in {"linking", "attaching"} <=> \E k \in DOMAIN stack' : stack'[k] = i
    <3>1. CASE i = n
      <4>1. Len(stack) + 1 \in DOMAIN stack'
        BY <1>1, <1>2
      <4> QED
        BY <1>1, <3>1, <4>1
    <3>2. CASE i # n
      <4>1. i \in Images
        BY <1>1, <3>2
      <4>2. \A k \in DOMAIN stack' : k \in DOMAIN stack \/ k = Len(stack) + 1
        BY <1>1, <1>2
      <4>3. DOMAIN stack \subseteq DOMAIN stack'
        BY <1>1, <1>2
      <4> QED
        BY <1>1, <3>2, <4>1, <4>2, <4>3 DEF StackInv
    <3> QED
      BY <3>1, <3>2
  <2>2. ASSUME NEW k \in DOMAIN stack', k + 1 \in DOMAIN stack'
        PROVE  /\ state'[stack'[k]] = "linking"
               /\ next'[stack'[k]] \in DOMAIN Imports[file'[stack'[k]]]
               /\ Imports[file'[stack'[k]]][next'[stack'[k]]][1] = file'[stack'[k + 1]]
    <3>1. k \in DOMAIN stack /\ stack'[k] = stack[k] /\ stack[k] \in Images
      BY <1>1, <1>2, <2>2
    <3>2. CASE k + 1 \in DOMAIN stack
      <4>1. stack'[k + 1] = stack[k + 1] /\ stack[k + 1] \in Images
        BY <1>1, <1>2, <3>2
      <4> QED
        BY <1>1, <3>1, <3>2, <4>1 DEF StackInv, Descriptor
    <3>3. CASE k + 1 \notin DOMAIN stack
      <4>1. k = Len(stack) /\ stack # <<>> /\ stack[k] = Top
        BY <1>1, <1>2, <2>2, <3>1, <3>3
      <4>2. stack'[k + 1] = n
        BY <1>1, <4>1
      <4>3. phase = "link" /\ next[Top] \in DOMAIN Imports[file[Top]] /\ Descriptor(Top)[1] = m
        BY <4>1
      <4> QED
        BY <1>1, <3>1, <4>1, <4>2, <4>3 DEF StackInv, Descriptor
    <3> QED
      BY <3>2, <3>3
  <2>3. file'[stack'[1]] \in Roots
    <3>1. CASE stack = <<>>
      BY <1>1, <1>2, <3>1
    <3>2. CASE stack # <<>>
      <4>1. 1 \in DOMAIN stack /\ stack[1] \in Images
        BY <1>2, <3>2
      <4> QED
        BY <1>1, <3>2, <4>1 DEF StackInv
    <3> QED
      BY <3>1, <3>2
  <2>4. Images' = DOMAIN file'
    BY DEF Images
  <2> QED
    BY <1>1, <2>1, <2>2, <2>3, <2>4 DEF StackInv, Descriptor, Images
<1>5. NextInv'
  BY <1>1 DEF NextInv, Images
<1>6. OneInv'
  <2>1. OneImagePerFile'
    BY <1>1 DEF OneInv, OneImagePerFile, Images
  <2>2. \A i \in Images' : state'[i] # "gone" /\ file'[i] \notin Roots => file'[i] \in attempted'
    BY <1>1 DEF OneInv
  <2> QED
    BY <2>1, <2>2 DEF OneInv, Images
<1>7. FailedInv'
  BY <1>1 DEF FailedInv, Images
<1>8. ExportInv'
  <2>1. ASSUME NEW e \in exports'
        PROVE  state'[e[3]] # "gone" /\ file'[e[3]] = e[1] /\ e[2] \in Exports[e[1]]
    <3>1. CASE e \in exports
      BY <1>1, <3>1, Entries DEF ExportInv
    <3>2. CASE e \notin exports
      BY <1>1, <3>2, Registering
    <3> QED
      BY <3>1, <3>2
  <2> QED
    BY <2>1 DEF ExportInv
<1> QED
  BY <1>3, <1>4, <1>5, <1>6, <1>7, <1>8

\* get_export answers with an image in the table that has the symbol, one of
\* the module asked for if there is one, or with the stub.
LEMMA Found ==
    ASSUME TypeOK, NEW m, NEW s
    PROVE  /\ \/ GetExport(m, s) = Stub
              \/ \E e \in exports : e[2] = s /\ e[3] = GetExport(m, s)
           /\ Matching(m, s) # {} =>
                \E e \in exports : e[1] = m /\ e[2] = s /\ e[3] = GetExport(m, s)
<1>1. ASSUME NEW E \in SUBSET exports, E # {}
      PROVE  \E e \in E : e[3] = Newest(E)
  <2> DEFINE T == {e[3] : e \in E}
  <2>1. Len(file) \in Nat /\ Images = 1..Len(file)
    BY Numbers
  <2>2. T \subseteq 0..Len(file) /\ T # {}
    BY <1>1, <2>1, Entries
  <2> HIDE DEF T
  <2>3. Max(T) \in T
    BY <2>1, <2>2, Largest
  <2> QED
    BY <2>3 DEF T, Newest
<1>2. Matching(m, s) \in SUBSET exports /\ Named(s) \in SUBSET exports
  BY DEF Matching, Named
<1>3. Matching(m, s) # {} => \E e \in Matching(m, s) : e[3] = Newest(Matching(m, s))
  BY <1>1, <1>2
<1>4. Named(s) # {} => \E e \in Named(s) : e[3] = Newest(Named(s))
  BY <1>1, <1>2
<1>5. \A e \in Matching(m, s) : e \in exports /\ e[1] = m /\ e[2] = s
  BY DEF Matching
<1>6. \A e \in Named(s) : e \in exports /\ e[2] = s
  BY DEF Named
<1> QED
  BY <1>3, <1>4, <1>5, <1>6 DEF GetExport

\* A step that leaves the images, the table and the stack alone.
LEMMA Leaving ==
    ASSUME IInv, UNCHANGED <<file, state, bound, next, exports, stack>>,
           attempted' \in SUBSET Modules, attempted \subseteq attempted',
           attempted' \cap Roots = {},
           failed' \in SUBSET Roots,
           \A m \in failed' : m \in failed \/ \A i \in Images : file[i] = m => state[i] = "gone",
           loads' \in Nat,
           phase' \in {"idle", "link", "bind", "dllmain", "undo"},
           phase' = "idle" <=> stack = <<>>,
           phase' \in {"link", "bind"} => state[Top] = "linking",
           phase' = "bind" => next[Top] \in DOMAIN Imports[file[Top]],
           phase' = "dllmain" => state[Top] = "attaching"
    PROVE  IInv'
<1> USE DEF IInv
<1>1. Images' = Images /\ Top' = Top
  BY DEF Images, Top
<1>2. TypeOK'
  BY <1>1 DEF TypeOK
<1>3. StackInv'
  BY <1>1 DEF StackInv, Descriptor
<1>4. NextInv'
  BY <1>1 DEF NextInv
<1>5. OneInv'
  BY <1>1 DEF OneInv, OneImagePerFile
<1>6. FailedInv'
  BY <1>1 DEF FailedInv
<1>7. ExportInv'
  BY DEF ExportInv
<1> QED
  BY <1>2, <1>3, <1>4, <1>5, <1>6, <1>7

\* The innermost load ends: its image leaves the stack, registered if it
\* succeeded and gone, with its exports, if it did not.
LEMMA Ending ==
    ASSUME IInv, stack # <<>>, NEW ok \in BOOLEAN, Return(ok),
           state' = [state EXCEPT ![Top] = IF ok THEN "registered" ELSE "gone"],
           ok => exports' = exports /\ next[Top] > Len(Imports[file[Top]]),
           ~ok => exports' = {e \in exports : e[3] # Top},
           UNCHANGED <<file, bound, attempted, next, loads>>
    PROVE  IInv'
<1> USE DEF IInv
<1> DEFINE last == Len(stack)
<1>1. /\ Images' = Images /\ stack' = Front(stack)
      /\ phase' = IF last = 1 THEN "idle" ELSE IF ok THEN "bind" ELSE "undo"
      /\ failed' = IF last = 1 /\ ~ok THEN failed \cup {file[Top]} ELSE failed
  BY DEF Return, Images
<1>2. /\ last \in Nat /\ DOMAIN stack = 1..last /\ last \in DOMAIN stack
      /\ Top = stack[last] /\ Top \in Images
      /\ \A k \in DOMAIN stack : stack[k] \in Images
  BY Numbers
<1>3. /\ stack' \in Seq(Images') /\ IsInjective(stack')
      /\ DOMAIN stack' = 1..(last - 1)
      /\ \A k \in DOMAIN stack' : stack'[k] = stack[k] /\ stack[k] # Top
      /\ \A k \in DOMAIN stack : k \in DOMAIN stack' \/ stack[k] = Top
      /\ stack' = <<>> <=> last = 1
      /\ last # 1 => last - 1 \in DOMAIN stack' /\ Top' = stack[last - 1]
  BY <1>1, Returned
<1>4. /\ state'[Top] \in {"registered", "gone"}
      /\ ok => state'[Top] = "registered"
      /\ ~ok => state'[Top] = "gone"
      /\ \A i \in Images : i # Top => state'[i] = state[i]
      /\ state' \in [Images -> {"linking", "attaching", "registered", "gone"}]
  BY <1>2 DEF TypeOK
<1>5. exports' \subseteq exports /\ (~ok => \A e \in exports' : e[3] # Top)
  OBVIOUS
<1>6. state[Top] # "gone"
  BY <1>2 DEF StackInv
<1>7. TypeOK'
  <2>1. /\ exports' \in SUBSET (Present \X Symbols \X Images')
        /\ IsFiniteSet(exports') /\ Cardinality(exports') <= MaxExports
    <3>1. IsFiniteSet(exports') /\ Cardinality(exports') <= Cardinality(exports)
      BY <1>5, FS_Subset DEF TypeOK
    <3>2. Cardinality(exports') \in Nat /\ Cardinality(exports) \in Nat
      BY <3>1, FS_CardinalityType DEF TypeOK
    <3>3. MaxExports \in Nat
      BY ModulesAssumption
    <3> QED
      BY <1>1, <1>5, <3>1, <3>2, <3>3 DEF TypeOK
  <2>2. failed' \in SUBSET Roots
    <3>1. CASE last = 1 /\ ~ok
      BY <1>1, <1>2, <3>1 DEF TypeOK, StackInv
    <3>2. CASE ~(last = 1 /\ ~ok)
      BY <1>1, <3>2 DEF TypeOK
    <3> QED
      BY <3>1, <3>2
  <2>3. /\ phase' \in {"idle", "link", "bind", "dllmain", "undo"}
        /\ phase' = "idle" <=> stack' = <<>>
    BY <1>1, <1>3
  <2> QED
    BY <1>1, <1>3, <1>4, <2>1, <2>2, <2>3 DEF TypeOK
<1>8. StackInv'
  <2>1. ASSUME NEW i \in Images'
        PROVE  state'[i] \in {"linking", "attaching"} <=> \E k \in DOMAIN stack' : stack'[k] = i
    <3>1. CASE i = Top
      BY <1>3, <1>4, <3>1
    <3>2. CASE i # Top
      <4>1. \A k \in DOMAIN stack' : k \in DOMAIN stack
        BY <1>2, <1>3
      <4> QED
        BY <1>1, <1>3, <1>4, <3>2, <4>1 DEF StackInv
    <3> QED
      BY <3>1, <3>2
  <2>2. ASSUME NEW k \in DOMAIN stack', k + 1 \in DOMAIN stack'
        PROVE  /\ state'[stack'[k]] = "linking"
               /\ next'[stack'[k]] \in DOMAIN Imports[file'[stack'[k]]]
               /\ Imports[file'[stack'[k]]][next'[stack'[k]]][1] = file'[stack'[k + 1]]
    <3>1. k \in DOMAIN stack /\ k + 1 \in DOMAIN stack
      BY <1>2, <1>3, <2>2
    <3> QED
      BY <1>2, <1>3, <1>4, <2>2, <3>1 DEF StackInv, Descriptor
  <2>3. stack' # <<>> => file'[stack'[1]] \in Roots
    <3>1. stack' # <<>> => 1 \in DOMAIN stack'
      BY <1>2, <1>3
    <3> QED
      BY <1>3, <3>1 DEF StackInv
  <2>4. ASSUME phase' = "bind"
        PROVE  state'[Top'] = "linking" /\ next'[Top'] \in DOMAIN Imports[file'[Top']]
    <3>1. last # 1
      BY <1>1, <2>4
    <3>2. last - 1 \in DOMAIN stack /\ (last - 1) + 1 \in DOMAIN stack
      BY <1>2, <3>1
    <3>3. state[stack[last - 1]] = "linking"
          /\ next[stack[last - 1]] \in DOMAIN Imports[file[stack[last - 1]]]
      BY <3>2 DEF StackInv
    <3>4. Top' = stack[last - 1] /\ stack[last - 1] # Top /\ stack[last - 1] \in Images
      BY <1>2, <1>3, <3>1, <3>2
    <3> QED
      BY <1>4, <3>3, <3>4
  <2>5. phase' \notin {"link", "dllmain"}
    BY <1>1
  <2> QED
    BY <2>1, <2>2, <2>3, <2>4, <2>5 DEF StackInv, Descriptor
<1>9. NextInv'
  BY <1>1, <1>4 DEF NextInv
<1>10. OneInv'
  BY <1>1, <1>4, <1>6 DEF OneInv, OneImagePerFile
<1>11. FailedInv'
  <2>1. ASSUME NEW m \in failed', NEW i \in Images, file[i] = m
        PROVE  state'[i] = "gone"
    <3>1. CASE m \in failed
      BY <1>2, <1>4, <1>6, <2>1, <3>1 DEF FailedInv
    <3>2. CASE m \notin failed
      <4>1. ~ok /\ m = file[Top]
        BY <1>1, <2>1, <3>2
      <4> QED
        BY <1>2, <1>4, <1>6, <2>1, <4>1 DEF OneInv, OneImagePerFile
    <3> QED
      BY <3>1, <3>2
  <2> QED
    BY <1>1, <2>1 DEF FailedInv
<1>12. ExportInv'
  <2>1. \A e \in exports' : e \in exports /\ e[3] \in Images
    BY <1>5, Entries
  <2>2. \A e \in exports' : state'[e[3]] # "gone"
    BY <1>4, <1>5, <2>1 DEF ExportInv
  <2> QED
    BY <2>1, <2>2 DEF ExportInv
<1> QED
  BY <1>7, <1>8, <1>9, <1>10, <1>11, <1>12

\* A load of a root maps its file, of which no image is live, or none.
LEMMA LoadDllPreserves == ASSUME IInv, NEW m \in Roots, LoadDll(m) PROVE IInv'
<1> USE DEF IInv
<1>1. /\ phase = "idle" /\ stack = <<>> /\ loads \in Nat /\ m \in Present
      /\ attempted' = attempted
      /\ loads' = loads + 1
      /\ ~\E i \in Images : file[i] = m /\ state[i] = "registered"
  BY ModulesAssumption DEF LoadDll, TypeOK
<1>2. \A i \in Images : state[i] \notin {"linking", "attaching"}
  <2>1. DOMAIN stack = {}
    BY <1>1
  <2> QED
    BY <2>1 DEF StackInv
<1>3. \A i \in Images : file[i] = m => state[i] = "gone"
  BY <1>1, <1>2 DEF TypeOK
<1>4. /\ attempted' \in SUBSET Modules /\ attempted \subseteq attempted'
      /\ attempted' \cap Roots = {} /\ loads' \in Nat
  BY <1>1 DEF TypeOK, OneInv
<1>5. CASE Map(m) /\ failed' = failed \ {m}
  <2>1. failed' \in SUBSET Roots /\ failed' \subseteq failed \ {m}
    BY <1>5 DEF TypeOK
  <2> QED
    BY <1>1, <1>3, <1>4, <1>5, <2>1, Mapping
<1>6. CASE Unusable /\ failed' = failed \cup {m} /\ UNCHANGED phase
  <2>1. failed' \in SUBSET Roots
    BY <1>6 DEF TypeOK
  <2>2. UNCHANGED <<file, state, bound, next, exports, stack>>
    BY <1>6 DEF Unusable
  <2> QED
    BY <1>1, <1>3, <1>4, <1>6, <2>1, <2>2, Leaving
<1> QED
  BY <1>5, <1>6 DEF LoadDll

\* A sibling is mapped if it was not attempted, so that no image of it is
\* live, and is never a root.
LEMMA LoadSiblingPreserves == ASSUME IInv, LoadSiblingImport PROVE IInv'
<1> USE DEF IInv
<1> DEFINE m == Descriptor(Top)[1]
<1>1. /\ phase = "link" /\ stack # <<>> /\ Top \in Images /\ file[Top] \in Present
      /\ state[Top] = "linking" /\ failed' = failed /\ loads' = loads
  BY Numbers DEF LoadSiblingImport, TypeOK, StackInv
<1>2. next[Top] \in DOMAIN Imports[file[Top]] /\ m \in Modules \ Roots
  <2>1. next[Top] \in Nat /\ next[Top] # 0 /\ next[Top] <= Len(Imports[file[Top]])
    BY <1>1 DEF LoadSiblingImport, TypeOK, NextInv
  <2>2. next[Top] \in DOMAIN Imports[file[Top]]
    BY <1>1, <2>1, Descriptors
  <2> QED
    BY <1>1, <2>2, Descriptors DEF Descriptor
<1>3. failed' \in SUBSET Roots /\ loads' \in Nat
  BY <1>1 DEF TypeOK
<1>4. ASSUME attempted' \in SUBSET Modules, attempted \subseteq attempted',
             attempted' \cap Roots = {}, Unusable, phase' \in {"bind", "undo"}
      PROVE  IInv'
  <2>1. UNCHANGED <<file, state, bound, next, exports, stack>>
    BY <1>4 DEF Unusable
  <2> QED
    BY <1>1, <1>2, <1>3, <1>4, <2>1, Leaving
<1>5. CASE attempted' = attempted /\ LeftToStubs
  BY <1>4, <1>5 DEF LeftToStubs, TypeOK, OneInv
<1>6. CASE m \notin attempted /\ attempted' = attempted \cup {m}
  <2>1. /\ attempted' \in SUBSET Modules /\ attempted \subseteq attempted'
        /\ attempted' \cap Roots = {}
    BY <1>2, <1>6 DEF TypeOK, OneInv
  <2>2. CASE m \in Present /\ Map(m)
    <3>1. \A i \in Images : file[i] = m => state[i] = "gone"
      BY <1>2, <1>6 DEF OneInv
    <3>2. failed' \subseteq failed \ {m}
      BY <1>1, <1>2 DEF TypeOK
    <3> QED
      BY <1>1, <1>2, <1>3, <1>6, <2>1, <2>2, <3>1, <3>2, Mapping
  <2>3. CASE LeftToStubs \/ SiblingUnusable(m)
    BY <1>4, <2>1, <2>3 DEF LeftToStubs, SiblingUnusable
  <2> QED
    BY <1>6, <2>2, <2>3 DEF LoadSiblingImport
<1> QED
  BY <1>5, <1>6 DEF LoadSiblingImport

\* An entry of the import table is an image or the stub.
LEMMA BindPreserves == ASSUME IInv, BindImport PROVE IInv'
<1> USE DEF IInv
<1> DEFINE m == Descriptor(Top)[1]
           s == Descriptor(Top)[2]
           b == <<m, s, GetExport(m, s)>>
<1>1. /\ phase = "bind" /\ phase' = "link" /\ stack # <<>>
      /\ Top \in Images /\ Top' = Top /\ Images' = Images
      /\ state[Top] = "linking" /\ next[Top] \in DOMAIN Imports[file[Top]]
      /\ bound' = [bound EXCEPT ![Top] = @ \cup {b}]
      /\ next' = [next EXCEPT ![Top] = @ + 1]
      /\ UNCHANGED <<file, state, exports, attempted, stack, failed, broken, loads>>
  BY Numbers DEF BindImport, TypeOK, StackInv, Images, Top
<1>2. m \in Modules /\ s \in Symbols
  BY <1>1, Numbers, Descriptors DEF Descriptor
<1>3. GetExport(m, s) \in Images \cup {Stub}
  BY Found, Entries
<1>4. next' \in [Images -> Nat] /\ next'[Top] = next[Top] + 1
      /\ \A i \in Images : i # Top => next'[i] = next[i]
  BY <1>1 DEF TypeOK
<1>5. bound' \in [Images -> SUBSET (Modules \X Symbols \X (Images \cup {Stub}))]
  <2>1. b \in Modules \X Symbols \X (Images \cup {Stub})
    BY <1>2, <1>3
  <2> DEFINE B == Modules \X Symbols \X (Images \cup {Stub})
  <2>2. b \in B /\ bound \in [Images -> SUBSET B]
    BY <2>1 DEF TypeOK
  <2> HIDE DEF B, b
  <2>3. bound' \in [Images -> SUBSET B]
    BY <1>1, <2>2
  <2> QED
    BY <2>3 DEF B
<1>6. TypeOK'
  BY <1>1, <1>4, <1>5 DEF TypeOK
<1>7. StackInv'
  <2>1. \A k \in DOMAIN stack : k + 1 \in DOMAIN stack => stack[k] # Top /\ stack[k] \in Images
    <3>1. \A k \in DOMAIN stack : k + 1 \in DOMAIN stack => k # Len(stack)
      BY Numbers
    <3>2. \A k, l \in DOMAIN stack : stack[k] = stack[l] => k = l
      BY DEF TypeOK, IsInjective
    <3> QED
      BY <1>1, <3>1, <3>2, Numbers
  <2>2. \A k \in DOMAIN stack : k + 1 \in DOMAIN stack => next'[stack[k]] = next[stack[k]]
    BY <1>4, <2>1
  <2> QED
    BY <1>1, <2>2 DEF StackInv, Descriptor
<1>8. NextInv'
  <2>1. ASSUME NEW i \in Images
        PROVE  next'[i] # 0 /\ (i # Top => next'[i] = next[i])
    BY <1>1, <1>4, <2>1 DEF TypeOK, NextInv
  <2> QED
    BY <1>1, <2>1 DEF NextInv
<1>9. OneInv' /\ FailedInv' /\ ExportInv'
  BY <1>1 DEF OneInv, OneImagePerFile, FailedInv, ExportInv
<1> QED
  BY <1>6, <1>7, <1>8, <1>9

\* An image is attached once its imports are bound.
LEMMA AttachPreserves == ASSUME IInv, BeginProcessAttach PROVE IInv'
<1> USE DEF IInv
<1>1. /\ phase = "link" /\ stack # <<>> /\ Top \in Images /\ state[Top] = "linking"
      /\ next[Top] > Len(Imports[file[Top]]) /\ Images' = Images /\ Top' = Top
      /\ UNCHANGED <<file, bound, exports, attempted, stack, next, failed, broken, loads>>
  BY Numbers DEF BeginProcessAttach, TypeOK, StackInv, Images, Top
<1>2. CASE phase' = "dllmain" /\ state' = [state EXCEPT ![Top] = "attaching"]
  <2>1. /\ state' \in [Images -> {"linking", "attaching", "registered", "gone"}]
        /\ state'[Top] = "attaching" /\ \A i \in Images : i # Top => state'[i] = state[i]
    BY <1>1, <1>2 DEF TypeOK
  <2>2. TypeOK'
    BY <1>1, <1>2, <2>1 DEF TypeOK
  <2>3. StackInv'
    <3>1. \A k \in DOMAIN stack : k + 1 \in DOMAIN stack => stack[k] # Top /\ stack[k] \in Images
      <4>1. \A k \in DOMAIN stack : k + 1 \in DOMAIN stack => k # Len(stack)
        BY Numbers
      <4>2. \A k, l \in DOMAIN stack : stack[k] = stack[l] => k = l
        BY DEF TypeOK, IsInjective
      <4> QED
        BY <1>1, <4>1, <4>2, Numbers
    <3>2. \A k \in DOMAIN stack : k + 1 \in DOMAIN stack => state'[stack[k]] = state[stack[k]]
      BY <2>1, <3>1
    <3>3. \A i \in Images :
            state'[i] \in {"linking", "attaching"} <=> state[i] \in {"linking", "attaching"}
      BY <1>1, <2>1
    <3> QED
      BY <1>1, <1>2, <2>1, <3>2, <3>3 DEF StackInv, Descriptor
  <2>4. NextInv'
    BY <1>1, <2>1 DEF NextInv
  <2>5. OneInv'
    BY <1>1, <2>1 DEF OneInv, OneImagePerFile
  <2>6. FailedInv'
    BY <1>1, <2>1 DEF FailedInv
  <2>7. ExportInv'
    BY <1>1, <2>1, Entries DEF ExportInv
  <2> QED
    BY <2>2, <2>3, <2>4, <2>5, <2>6, <2>7
<1>3. CASE phase' = "undo" /\ UNCHANGED state
  BY <1>1, <1>3, Leaving DEF TypeOK, OneInv
<1> QED
  BY <1>2, <1>3 DEF BeginProcessAttach

\* Relocations that fail and a DllMain that refuses end in the undoing.
LEMMA GivingUpPreserves == ASSUME IInv, FixupRelocFails \/ FinishRefused PROVE IInv'
<1> USE DEF IInv
<1>1. /\ phase \in {"link", "dllmain"} /\ phase' = "undo" /\ stack # <<>>
      /\ UNCHANGED <<file, state, bound, next, exports, stack, attempted, failed, loads>>
  BY DEF FixupRelocFails, FinishRefused, TypeOK
<1> QED
  BY <1>1, Leaving DEF TypeOK, OneInv

\* DllMain returned TRUE.
LEMMA FinishAttachedPreserves == ASSUME IInv, FinishAttached PROVE IInv'
<1> USE DEF IInv
<1>1. /\ phase = "dllmain" /\ stack # <<>> /\ state[Top] = "attaching" /\ Top \in Images
      /\ Return(TRUE) /\ state' = [state EXCEPT ![Top] = "registered"]
      /\ UNCHANGED <<file, bound, exports, attempted, next, loads>>
  BY Numbers DEF FinishAttached, TypeOK, StackInv
<1>2. next[Top] > Len(Imports[file[Top]])
  BY <1>1 DEF NextInv
<1> QED
  BY <1>1, <1>2, Ending

\* An image that is discarded takes its exports with it.
LEMMA DiscardPreserves == ASSUME IInv, DiscardImage PROVE IInv'
<1>1. /\ phase = "undo" /\ stack # <<>> /\ Return(FALSE)
      /\ state' = [state EXCEPT ![Top] = "gone"]
      /\ exports' = {e \in exports : e[3] # Top}
      /\ UNCHANGED <<file, bound, attempted, next, loads>>
  BY DEF DiscardImage, TypeOK, IInv
<1> QED
  BY <1>1, Ending

\* The invariant is inductive.
LEMMA NextPreserves == ASSUME IInv, [Next]_vars PROVE IInv'
<1>1. CASE \E m \in Roots : LoadDll(m)
  BY <1>1, LoadDllPreserves
<1>2. CASE Step
  BY <1>2, LoadSiblingPreserves, BindPreserves, AttachPreserves, GivingUpPreserves,
     FinishAttachedPreserves, DiscardPreserves DEF Step
<1>3. CASE UNCHANGED vars
  BY <1>3 DEF vars, IInv, TypeOK, StackInv, NextInv, OneInv, OneImagePerFile, FailedInv,
     ExportInv, Descriptor, Top, Images
<1> QED
  BY <1>1, <1>2, <1>3 DEF Next

LEMMA InitInvariant == Init => IInv
<1> SUFFICES ASSUME Init PROVE IInv
  OBVIOUS
<1>1. Images = {} /\ DOMAIN stack = {} /\ file = <<>> /\ stack = <<>> /\ phase = "idle"
  BY DEF Init, Images
<1>2. TypeOK
  <2>1. IsFiniteSet(exports) /\ Cardinality(exports) <= MaxExports
    BY FS_EmptySet, ModulesAssumption DEF Init
  <2>2. IsInjective(stack)
    BY <1>1 DEF IsInjective
  <2> QED
    BY <1>1, <2>1, <2>2 DEF TypeOK, Init
<1> QED
  BY <1>1, <1>2 DEF Init, IInv, StackInv, NextInv, OneInv, OneImagePerFile, FailedInv, ExportInv

\* The inductive invariant holds in every state.
THEOREM Invariance == Spec => []IInv
<1>1. IInv /\ [Next]_vars => IInv'
  BY NextPreserves
<1> QED
  BY InitInvariant, <1>1, PTL DEF Spec

\* Each variable has its type and the export table keeps to its capacity.
THEOREM TypeCorrect == Spec => []TypeOK
<1>1. IInv => TypeOK
  BY DEF IInv
<1> QED
  BY <1>1, Invariance, PTL

\* Whatever the DLLs import from one another, and whatever fails, no file is
\* mapped while an image of it is in the process.
THEOREM OneImage == Spec => []OneImagePerFile
<1>1. IInv => OneImagePerFile
  BY DEF IInv, OneInv
<1> QED
  BY <1>1, Invariance, PTL

\* When load_dll has returned no image is half linked, and one whose load
\* failed is not there.
THEOREM AllOrNothing == Spec => []LoadsAreAllOrNothing
<1>1. IInv => LoadsAreAllOrNothing
  <2> SUFFICES ASSUME IInv, phase = "idle"
               PROVE  /\ \A i \in Images : state[i] \in {"registered", "gone"}
                      /\ \A m \in failed :
                           ~\E i \in Images : file[i] = m /\ state[i] = "registered"
    BY DEF LoadsAreAllOrNothing
  <2>1. stack = <<>> /\ state \in [Images -> {"linking", "attaching", "registered", "gone"}]
    BY DEF IInv, TypeOK
  <2>2. \A i \in Images : state[i] \notin {"linking", "attaching"}
    <3>1. DOMAIN stack = {}
      BY <2>1
    <3> QED
      BY <3>1 DEF IInv, StackInv
  <2>3. \A i \in Images : state[i] \in {"registered", "gone"}
    BY <2>1, <2>2
  <2>4. \A m \in failed : \A i \in Images : file[i] = m => state[i] # "registered"
    BY DEF IInv, FailedInv
  <2> QED
    BY <2>3, <2>4
<1> QED
  BY <1>1, Invariance, PTL

-----------------------------------------------------------------------------
(* No image in use calls one that was unmapped, if imports are ordered.    *)

\* The DLLs being loaded come after those that wait for them.
RankInv(rank) ==
    \A k, l \in DOMAIN stack : k < l => rank[file[stack[l]]] < rank[file[stack[k]]]

\* Image i may be bound to the stub, to itself and to registered images: a
\* registered image stays, one that is being loaded may go.
BoundInv ==
    \A i \in Images : state[i] # "gone" =>
        \A b \in bound[i] : b[3] \in {Stub, i} \/ state[b[3]] = "registered"

\* What a step may do to the images there are: only the innermost load's
\* changes, which was not registered.
LEMMA OnlyTop ==
    ASSUME IInv, [Next]_vars
    PROVE  /\ Images \subseteq Images'
           /\ \A i \in Images :
                /\ file'[i] = file[i]
                /\ stack = <<>> \/ i # Top =>
                     state'[i] = state[i] /\ bound'[i] = bound[i] /\ next'[i] = next[i]
           /\ stack # <<>> => /\ Top \in Images
                              /\ state[Top] \in {"linking", "attaching"}
           /\ \A i \in Images' \ Images :
                state'[i] = "linking" /\ bound'[i] = {} /\ next'[i] = 1
           /\ broken \subseteq broken'
           /\ BindImport \/ \A i \in Images : bound'[i] = bound[i] /\ next'[i] = next[i]
<1> USE DEF IInv
<1>1. stack # <<>> => Top \in Images /\ state[Top] \in {"linking", "attaching"}
  <2>1. stack # <<>> => Len(stack) \in DOMAIN stack /\ Top = stack[Len(stack)] /\ Top \in Images
    BY Numbers
  <2> QED
    BY <2>1 DEF StackInv
<1>2. phase # "idle" => stack # <<>>
  BY DEF TypeOK
<1>3. CASE \E m \in Present : Map(m) /\ broken' = broken
  <2>1. PICK m \in Present : Map(m) /\ broken' = broken
    BY <1>3
  <2>2. /\ Images' = Images \cup {Len(file) + 1}
        /\ state'[Len(file) + 1] = "linking" /\ bound'[Len(file) + 1] = {}
        /\ next'[Len(file) + 1] = 1
        /\ \A i \in Images : /\ file'[i] = file[i] /\ state'[i] = state[i]
                             /\ bound'[i] = bound[i] /\ next'[i] = next[i]
    BY <2>1, Mapped
  <2> QED
    BY <1>1, <2>1, <2>2
<1>4. CASE UNCHANGED <<file, state, bound, next>> /\ broken \subseteq broken'
  BY <1>1, <1>4 DEF Images
<1>5. CASE BindImport
  <2>1. /\ Images' = Images /\ stack # <<>> /\ file' = file /\ state' = state
        /\ broken' = broken
    BY <1>2, <1>5 DEF BindImport, Images
  <2>2. \A i \in Images : i # Top => bound'[i] = bound[i] /\ next'[i] = next[i]
    BY <1>5 DEF BindImport, TypeOK
  <2> QED
    BY <1>1, <1>5, <2>1, <2>2
<1>6. CASE /\ stack # <<>> /\ UNCHANGED <<file, bound, next>> /\ broken \subseteq broken'
           /\ \E x \in {"attaching", "registered", "gone"} : state' = [state EXCEPT ![Top] = x]
  <2>1. \A i \in Images : i # Top => state'[i] = state[i]
    BY <1>6 DEF TypeOK
  <2> QED
    BY <1>1, <1>6, <2>1 DEF Images
<1>7. ASSUME NEW m \in Roots, LoadDll(m)
      PROVE  \/ \E l \in Present : Map(l) /\ broken' = broken
             \/ UNCHANGED <<file, state, bound, next>> /\ broken \subseteq broken'
  BY <1>7, ModulesAssumption DEF LoadDll, Unusable
<1>8. ASSUME LoadSiblingImport
      PROVE  \/ \E l \in Present : Map(l) /\ broken' = broken
             \/ UNCHANGED <<file, state, bound, next>> /\ broken \subseteq broken'
  BY <1>8 DEF LoadSiblingImport, LeftToStubs, SiblingUnusable, Unusable
<1>9. ASSUME FixupRelocFails \/ FinishRefused
      PROVE  UNCHANGED <<file, state, bound, next>> /\ broken \subseteq broken'
  BY <1>9 DEF FixupRelocFails, FinishRefused
<1>10. ASSUME BeginProcessAttach
       PROVE  \/ UNCHANGED <<file, state, bound, next>> /\ broken \subseteq broken'
              \/ /\ stack # <<>> /\ UNCHANGED <<file, bound, next>> /\ broken \subseteq broken'
                 /\ \E x \in {"attaching", "registered", "gone"} :
                        state' = [state EXCEPT ![Top] = x]
  BY <1>2, <1>10 DEF BeginProcessAttach
<1>11. ASSUME FinishAttached \/ DiscardImage
       PROVE  /\ stack # <<>> /\ UNCHANGED <<file, bound, next>> /\ broken \subseteq broken'
              /\ \E x \in {"attaching", "registered", "gone"} :
                     state' = [state EXCEPT ![Top] = x]
  BY <1>2, <1>11 DEF FinishAttached, DiscardImage, Return
<1>12. CASE UNCHANGED vars
  BY <1>4, <1>12 DEF vars
<1> QED
  BY <1>3, <1>4, <1>5, <1>6, <1>7, <1>8, <1>9, <1>10, <1>11, <1>12 DEF Next, Step

\* A DLL that comes before the innermost of those being loaded and is live is
\* registered.
LEMMA BeforeTop ==
    ASSUME IInv, stack # <<>>, NEW rank \in [Present -> Nat], RankInv(rank),
           NEW j \in Images, state[j] # "gone", rank[file[j]] < rank[file[Top]]
    PROVE  state[j] = "registered"
<1> USE DEF IInv
<1>1. /\ Len(stack) \in Nat /\ DOMAIN stack = 1..Len(stack) /\ Len(stack) \in DOMAIN stack
      /\ Top = stack[Len(stack)] /\ \A i \in Images : file[i] \in Present
      /\ \A k \in DOMAIN stack : stack[k] \in Images
  BY Numbers
<1>2. ASSUME state[j] \in {"linking", "attaching"} PROVE FALSE
  <2>1. PICK k \in DOMAIN stack : stack[k] = j
    BY <1>2 DEF StackInv
  <2>2. k = Len(stack) \/ k < Len(stack)
    BY <1>1
  <2>3. rank[file[Top]] <= rank[file[j]]
    BY <1>1, <2>1, <2>2 DEF RankInv
  <2> QED
    BY <1>1, <2>3
<1> QED
  BY <1>2 DEF TypeOK

\* The order of the stack: what is put on it is imported by what was on top.
LEMMA RankPreserves ==
    ASSUME NEW rank \in [Present -> Nat], Ordered(rank), IInv, RankInv(rank), [Next]_vars
    PROVE  RankInv(rank)'
<1> USE DEF IInv
<1>1. /\ Len(stack) \in Nat /\ DOMAIN stack = 1..Len(stack)
      /\ \A k \in DOMAIN stack : stack[k] \in Images
      /\ \A i \in Images : file[i] \in Present
      /\ stack # <<>> => Len(stack) \in DOMAIN stack /\ Top = stack[Len(stack)] /\ Top \in Images
      /\ stack = <<>> => Len(stack) = 0
  BY Numbers, EmptySeq
<1>2. \A i \in Images : file'[i] = file[i]
  BY OnlyTop
<1>3. CASE \E m \in Present :
             /\ Map(m)
             /\ stack = <<>> \/ rank[m] < rank[file[Top]]
  <2>1. PICK m \in Present : Map(m) /\ (stack = <<>> \/ rank[m] < rank[file[Top]])
    BY <1>3
  <2>2. /\ file'[Len(file) + 1] = m /\ DOMAIN stack' = 1..(Len(stack) + 1)
        /\ \A k \in DOMAIN stack : stack'[k] = stack[k]
        /\ stack'[Len(stack) + 1] = Len(file) + 1
    BY <2>1, Mapped
  <2>3. ASSUME NEW k \in DOMAIN stack', NEW l \in DOMAIN stack', k < l
        PROVE  rank[file'[stack'[l]]] < rank[file'[stack'[k]]]
    <3>1. k \in DOMAIN stack /\ stack'[k] = stack[k] /\ file'[stack'[k]] = file[stack[k]]
          /\ file[stack[k]] \in Present
      BY <1>1, <1>2, <2>2, <2>3
    <3>2. CASE l \in DOMAIN stack
      <4>1. file'[stack'[l]] = file[stack[l]]
        BY <1>1, <1>2, <2>2, <3>2
      <4> QED
        BY <2>3, <3>1, <3>2, <4>1 DEF RankInv
    <3>3. CASE l \notin DOMAIN stack
      <4>1. l = Len(stack) + 1 /\ file'[stack'[l]] = m
        BY <1>1, <2>2, <3>3
      <4>2. stack # <<>> /\ file[Top] \in Present /\ rank[m] < rank[file[Top]]
        BY <1>1, <2>1, <3>1
      <4>3. k = Len(stack) \/ k < Len(stack)
        BY <1>1, <3>1
      <4>4. rank[file[Top]] <= rank[file[stack[k]]]
        BY <1>1, <3>1, <4>2, <4>3 DEF RankInv
      <4>5. rank[m] \in Nat /\ rank[file[Top]] \in Nat /\ rank[file[stack[k]]] \in Nat
        BY <3>1, <4>2
      <4>6. rank[m] < rank[file[stack[k]]]
        BY <4>2, <4>4, <4>5
      <4> QED
        BY <3>1, <4>1, <4>6
    <3> QED
      BY <3>2, <3>3
  <2> QED
    BY <2>3 DEF RankInv
<1>4. CASE stack' = stack
  BY <1>1, <1>2, <1>4 DEF RankInv
<1>5. CASE stack # <<>> /\ stack' = Front(stack) /\ file' = file
  <2>1. /\ DOMAIN stack' = 1..(Len(stack) - 1)
        /\ \A k \in DOMAIN stack' : stack'[k] = stack[k]
    BY <1>5, Returned
  <2>2. \A k \in DOMAIN stack' : k \in DOMAIN stack
    BY <1>1, <2>1
  <2> QED
    BY <1>5, <2>1, <2>2 DEF RankInv
<1>6. ASSUME NEW m \in Roots, LoadDll(m)
      PROVE  (\E l \in Present : Map(l) /\ stack = <<>>) \/ stack' = stack
  BY <1>6, ModulesAssumption DEF LoadDll, Unusable, TypeOK
<1>7. ASSUME LoadSiblingImport
      PROVE  (\E l \in Present : Map(l) /\ rank[l] < rank[file[Top]]) \/ stack' = stack
  <2> DEFINE m == Descriptor(Top)[1]
  <2>1. (m \in Present /\ Map(m)) \/ stack' = stack
    BY <1>7 DEF LoadSiblingImport, LeftToStubs, SiblingUnusable, Unusable
  <2>2. phase = "link" /\ stack # <<>> /\ Top \in Images /\ file[Top] \in Present
    BY <1>1, <1>7 DEF LoadSiblingImport, TypeOK
  <2>3. next[Top] \in 1..Len(Imports[file[Top]])
    BY <1>7, <2>2, Descriptors DEF LoadSiblingImport, TypeOK, NextInv
  <2>4. Descriptor(Top) \in ToSet(Imports[file[Top]])
    BY <2>2, <2>3, Descriptors DEF Descriptor
  <2>5. m \in Present => rank[m] < rank[file[Top]]
    BY <2>2, <2>4 DEF Ordered
  <2> QED
    BY <2>1, <2>5
<1>8. ASSUME BindImport \/ FixupRelocFails \/ BeginProcessAttach \/ FinishRefused
      PROVE  stack' = stack
  BY <1>8 DEF BindImport, FixupRelocFails, BeginProcessAttach, FinishRefused
<1>9. ASSUME FinishAttached \/ DiscardImage
      PROVE  stack # <<>> /\ stack' = Front(stack) /\ file' = file
  BY <1>9 DEF FinishAttached, DiscardImage, Return, TypeOK
<1>10. CASE UNCHANGED vars
  BY <1>4, <1>10 DEF vars
<1> QED
  BY <1>3, <1>4, <1>5, <1>6, <1>7, <1>8, <1>9, <1>10 DEF Next, Step

\* What get_export finds is registered, or is the image itself.
LEMMA BoundPreserves ==
    ASSUME NEW rank \in [Present -> Nat], Ordered(rank), IInv, RankInv(rank), BoundInv, [Next]_vars
    PROVE  BoundInv'
<1> USE DEF IInv
<1>1. /\ \A i \in Images : stack = <<>> \/ i # Top => state'[i] = state[i]
      /\ \A i \in Images' \ Images : bound'[i] = {}
      /\ stack # <<>> => Top \in Images /\ state[Top] # "registered" /\ state[Top] # "gone"
  BY OnlyTop
<1>2. \A i \in Images : /\ state[i] = "registered" => state'[i] = "registered"
                        /\ state[i] = "gone" => state'[i] = "gone"
  BY <1>1
<1>3. \A i \in Images : \A b \in bound[i] : b[3] \in Images \cup {Stub}
  BY DEF TypeOK
<1>4. CASE ~BindImport
  <2>1. \A i \in Images : bound'[i] = bound[i]
    BY <1>4, OnlyTop
  <2>2. ASSUME NEW i \in Images, state'[i] # "gone", NEW b \in bound[i]
        PROVE  b[3] \in {Stub, i} \/ state'[b[3]] = "registered"
    <3>1. b[3] \in {Stub, i} \/ state[b[3]] = "registered"
      BY <1>2, <2>2 DEF BoundInv
    <3> QED
      BY <1>2, <1>3, <3>1
  <2> QED
    BY <1>1, <2>1, <2>2 DEF BoundInv
<1>5. CASE BindImport
  <2> DEFINE m == Descriptor(Top)[1]
             s == Descriptor(Top)[2]
             n == GetExport(m, s)
  <2>1. /\ stack # <<>> /\ Top \in Images /\ file[Top] \in Present /\ state' = state
        /\ Images' = Images /\ state[Top] = "linking"
        /\ next[Top] \in DOMAIN Imports[file[Top]]
        /\ bound' = [bound EXCEPT ![Top] = @ \cup {<<m, s, n>>}]
    BY <1>5, Numbers DEF BindImport, TypeOK, StackInv, Images
  <2>2. n \in {Stub, Top} \/ state[n] = "registered"
    <3>1. CASE n = Stub
      BY <3>1
    <3>2. CASE n # Stub
      <4>1. PICK e \in exports : e[2] = s /\ e[3] = n
        BY <3>2, Found
      <4>2. /\ n \in Images /\ state[n] # "gone" /\ file[n] \in Present
            /\ s \in Exports[file[n]]
        BY <4>1, Entries DEF ExportInv
      <4>3. Descriptor(Top) \in ToSet(Imports[file[Top]])
        BY <2>1, Descriptors DEF Descriptor
      <4>4. file[n] = file[Top] \/ rank[file[n]] < rank[file[Top]]
        BY <2>1, <4>2, <4>3 DEF Ordered
      <4>5. CASE file[n] = file[Top]
        BY <2>1, <4>2, <4>5 DEF OneInv, OneImagePerFile
      <4>6. CASE rank[file[n]] < rank[file[Top]]
        BY <2>1, <4>2, <4>6, BeforeTop
      <4> QED
        BY <4>4, <4>5, <4>6
    <3> QED
      BY <3>1, <3>2
  <2>3. \A i \in Images : \A b \in bound'[i] :
            b \in bound[i] \/ (i = Top /\ b = <<m, s, n>>)
    BY <2>1 DEF TypeOK
  <2> HIDE DEF m, s, n
  <2> QED
    BY <2>1, <2>2, <2>3 DEF BoundInv
<1> QED
  BY <1>4, <1>5

\* If no DLL imports from one that imports it, no image in use is bound to
\* one that was unmapped, in whatever order loads and failures come.
THEOREM NoDangling ==
    ASSUME NEW CONSTANT rank \in [Present -> Nat], Ordered(rank)
    PROVE  Spec => []NoDanglingImports
<1> DEFINE J == IInv /\ RankInv(rank) /\ BoundInv
<1>1. Init => J
  <2> SUFFICES ASSUME Init PROVE RankInv(rank) /\ BoundInv
    BY InitInvariant
  <2>1. Images = {} /\ DOMAIN stack = {}
    BY DEF Init, Images
  <2> QED
    BY <2>1 DEF RankInv, BoundInv
<1>2. J /\ [Next]_vars => J'
  BY NextPreserves, RankPreserves, BoundPreserves
<1>3. J => NoDanglingImports
  <2> SUFFICES ASSUME IInv, BoundInv PROVE NoDanglingImports
    OBVIOUS
  <2>1. \A e \in exports : state[e[3]] # "gone"
    BY DEF IInv, ExportInv
  <2>2. ASSUME NEW i \in Images, state[i] # "gone", NEW b \in bound[i], b[3] # Stub
        PROVE  state[b[3]] # "gone"
    BY <2>2 DEF BoundInv
  <2> QED
    BY <2>1, <2>2 DEF NoDanglingImports
<1> HIDE DEF J
<1>4. J /\ [Next]_vars => J'
  BY <1>2
<1> QED
  BY <1>1, <1>3, <1>4, PTL DEF Spec

-----------------------------------------------------------------------------
(* A DllMain finds the DLLs beside it, if the table has room besides.      *)

\* A live image serves all it exports.
TableInv ==
    \A i \in Images : state[i] # "gone" =>
        \A s \in Exports[file[i]] : <<file[i], s, i>> \in exports

\* A live image of module m that is registered, or a failure of m.
Settled(m) ==
    m \in broken \/ \E j \in Images : file[j] = m /\ state[j] = "registered"

\* What was attempted is there or has failed; what an image has bound it
\* sees; what it is about to bind is registered.
SeenInv ==
    /\ \A m \in attempted \cap Present :
        m \in broken \/ \E i \in Images : file[i] = m /\ state[i] # "gone"
    /\ \A i \in Images : state[i] # "gone" =>
        \A k \in DOMAIN Imports[file[i]] : k < next[i] =>
            LET d == Imports[file[i]][k] IN
            d[1] \in Present => d[1] \in broken \/ SeesSibling(i, d)
    /\ phase = "bind" /\ Descriptor(Top)[1] \in Present => Settled(Descriptor(Top)[1])

\* A full table, with an entry at most for each export, has them all.
LEMMA FullTable ==
    ASSUME Room, NEW E, Cardinality(E) = MaxExports,
           \A e \in E : e[1] \in Present /\ e[2] \in Exports[e[1]],
           \A d, e \in E : d[1] = e[1] /\ d[2] = e[2] => d = e,
           NEW m \in Present, NEW s \in Exports[m]
    PROVE  \E e \in E : e[1] = m /\ e[2] = s
<1> DEFINE f == [e \in E |-> <<e[1], e[2]>>]
<1>1. \A e \in E : <<e[1], e[2]>> \in AllExports
  BY DEF AllExports
<1>2. \A d, e \in E : f[d] = f[e] => d = e
  OBVIOUS
<1>3. f \in Injection(E, AllExports)
  BY <1>1, <1>2 DEF Injection, IsInjective
<1>4. /\ IsFiniteSet(AllExports) /\ Cardinality(E) <= Cardinality(AllExports)
      /\ Cardinality(E) = Cardinality(AllExports) => f \in Surjection(E, AllExports)
  BY <1>3, FS_Injection DEF Room
<1>5. Cardinality(E) = Cardinality(AllExports)
  BY <1>4, FS_CardinalityType, ModulesAssumption DEF Room
<1>6. <<m, s>> \in AllExports
  BY DEF AllExports
<1>7. PICK e \in E : f[e] = <<m, s>>
  BY <1>4, <1>5, <1>6 DEF Surjection
<1> QED
  BY <1>7

\* Every export of an image that is mapped finds room in the table, and
\* leaves it with the image only.
LEMMA TablePreserves ==
    ASSUME Room, IInv, TableInv, [Next]_vars
    PROVE  TableInv'
<1>1. /\ exports' \in SUBSET (Present \X Symbols \X Images')
      /\ \A e \in exports' :
            state'[e[3]] # "gone" /\ file'[e[3]] = e[1] /\ e[2] \in Exports[e[1]]
      /\ \A i, j \in Images' :
            file'[i] = file'[j] /\ state'[i] # "gone" /\ state'[j] # "gone" => i = j
  BY NextPreserves DEF IInv, TypeOK, ExportInv, OneInv, OneImagePerFile
<1>2. /\ \A i \in Images : file'[i] = file[i]
      /\ \A i \in Images : stack = <<>> \/ i # Top => state'[i] = state[i]
      /\ stack # <<>> => Top \in Images /\ state[Top] # "gone"
  BY OnlyTop
<1>3. CASE \E m \in Present : Map(m)
  <2>1. PICK m \in Present : Map(m)
    BY <1>3
  <2> DEFINE n == Len(file) + 1
  <2>2. /\ Images' = Images \cup {n} /\ file'[n] = m /\ state'[n] = "linking"
        /\ \A i \in Images : file'[i] = file[i] /\ state'[i] = state[i]
    BY <2>1, Mapped DEF IInv
  <2>3. /\ exports \subseteq exports'
        /\ Cardinality(exports') = MaxExports \/ \A s \in Exports[m] : <<m, s, n>> \in exports'
    BY <2>1, Registering DEF IInv
  <2>4. \A e \in exports' : /\ e = <<e[1], e[2], e[3]>> /\ e[1] \in Present /\ e[3] \in Images'
                            /\ state'[e[3]] # "gone" /\ file'[e[3]] = e[1]
                            /\ e[2] \in Exports[e[1]]
    BY <1>1
  <2>5. ASSUME NEW d \in exports', NEW e \in exports', d[1] = e[1], d[2] = e[2]
        PROVE  d = e
    <3>1. d[3] = e[3]
      BY <1>1, <2>4, <2>5
    <3> QED
      BY <2>4, <2>5, <3>1
  <2>6. ASSUME NEW s \in Exports[m], Cardinality(exports') = MaxExports
        PROVE  <<m, s, n>> \in exports'
    <3>1. PICK e \in exports' : e[1] = m /\ e[2] = s
      BY <2>4, <2>5, <2>6, FullTable
    <3>2. e[3] = n
      BY <1>1, <2>2, <2>4, <3>1
    <3> QED
      BY <2>4, <3>1, <3>2
  <2> QED
    BY <2>2, <2>3, <2>6 DEF TableInv
<1>4. CASE Images' = Images /\ exports' = exports
  BY <1>2, <1>4 DEF TableInv
<1>5. CASE DiscardImage
  <2>1. stack # <<>>
    BY <1>5 DEF DiscardImage, IInv, TypeOK
  <2>2. /\ Images' = Images /\ exports' = {e \in exports : e[3] # Top}
        /\ state'[Top] = "gone"
    BY <1>2, <1>5, <2>1 DEF DiscardImage, Images, IInv, TypeOK
  <2> QED
    BY <1>2, <2>1, <2>2 DEF TableInv
<1>6. ASSUME NEW m \in Roots, LoadDll(m)
      PROVE  (\E l \in Present : Map(l)) \/ (Images' = Images /\ exports' = exports)
  BY <1>6, ModulesAssumption DEF LoadDll, Unusable, Images
<1>7. ASSUME LoadSiblingImport
      PROVE  (\E l \in Present : Map(l)) \/ (Images' = Images /\ exports' = exports)
  BY <1>7 DEF LoadSiblingImport, LeftToStubs, SiblingUnusable, Unusable, Images
<1>8. ASSUME \/ BindImport \/ FixupRelocFails \/ BeginProcessAttach
             \/ FinishAttached \/ FinishRefused \/ UNCHANGED vars
      PROVE  Images' = Images /\ exports' = exports
  BY <1>8 DEF BindImport, FixupRelocFails, BeginProcessAttach, FinishAttached, FinishRefused,
     vars, Images
<1> QED
  BY <1>3, <1>4, <1>5, <1>6, <1>7, <1>8 DEF Next, Step

\* A registered image stays, so what an image sees it goes on seeing.
LEMMA SightStays ==
    ASSUME IInv, [Next]_vars, NEW i \in Images, state'[i] # "gone",
           NEW d, SeesSibling(i, d)
    PROVE  SeesSibling(i, d)'
<1>1. PICK j \in Images :
        /\ file[j] = d[1] /\ state[j] = "registered"
        /\ d[2] \in Exports[d[1]] => <<d[1], d[2], j>> \in bound[i]
  BY DEF SeesSibling
<1>2. j \in Images' /\ file'[j] = file[j] /\ state'[j] = "registered"
  BY <1>1, OnlyTop
<1>3. bound[i] \subseteq bound'[i]
  <2>1. CASE BindImport
    BY <2>1 DEF BindImport, IInv, TypeOK
  <2>2. CASE ~BindImport
    BY <2>2, OnlyTop
  <2> QED
    BY <2>1, <2>2
<1> QED
  BY <1>1, <1>2, <1>3 DEF SeesSibling

\* A sibling that is known or was attempted has settled, as it comes before
\* its importer.
LEMMA KnownSettled ==
    ASSUME NEW rank \in [Present -> Nat], Ordered(rank), IInv, RankInv(rank), SeenInv,
           phase = "link", next[Top] <= Len(Imports[file[Top]]),
           Descriptor(Top)[1] \in Present,
           ModuleRegistered(Descriptor(Top)[1]) \/ Descriptor(Top)[1] \in attempted
    PROVE  Settled(Descriptor(Top)[1])
<1> USE DEF IInv
<1> DEFINE m == Descriptor(Top)[1]
<1>1. stack # <<>> /\ Top \in Images /\ file[Top] \in Present
  BY Numbers DEF TypeOK
<1>2. rank[m] < rank[file[Top]]
  <2>1. next[Top] \in 1..Len(Imports[file[Top]])
    BY <1>1 DEF TypeOK, NextInv
  <2>2. Descriptor(Top) \in ToSet(Imports[file[Top]])
    BY <1>1, <2>1, Descriptors DEF Descriptor
  <2> QED
    BY <1>1, <2>2 DEF Ordered
<1>3. m \in broken \/ \E j \in Images : file[j] = m /\ state[j] # "gone"
  <2>1. CASE ModuleRegistered(m)
    BY <2>1, Entries DEF ModuleRegistered, ExportInv
  <2>2. CASE m \in attempted
    BY <2>2 DEF SeenInv
  <2> QED
    BY <2>1, <2>2
<1>4. ASSUME NEW j \in Images, file[j] = m, state[j] # "gone" PROVE state[j] = "registered"
  BY <1>1, <1>2, <1>4, BeforeTop
<1> QED
  BY <1>3, <1>4 DEF Settled

\* An image binds the exports of a sibling to the one live image of it.
LEMMA BindsSibling ==
    ASSUME IInv, TableInv, NEW j \in Images, state[j] = "registered",
           NEW s \in Exports[file[j]]
    PROVE  GetExport(file[j], s) = j
<1> USE DEF IInv
<1>1. <<file[j], s, j>> \in exports
  BY DEF TableInv
<1>2. Matching(file[j], s) # {}
  BY <1>1 DEF Matching
<1>3. PICK e \in exports : e[1] = file[j] /\ e[2] = s /\ e[3] = GetExport(file[j], s)
  BY <1>2, Found
<1> QED
  BY <1>3, Entries DEF ExportInv, OneInv, OneImagePerFile

\* What was attempted stays or has failed: the innermost load that fails is
\* that of a root, never attempted, or is recorded.
LEMMA AttemptsPreserve ==
    ASSUME IInv, SeenInv, [Next]_vars
    PROVE  \A m \in attempted' \cap Present :
              m \in broken' \/ \E i \in Images' : file'[i] = m /\ state'[i] # "gone"
<1> USE DEF IInv
<1>1. /\ Images \subseteq Images' /\ broken \subseteq broken'
      /\ \A i \in Images : file'[i] = file[i]
      /\ \A i \in Images : stack = <<>> \/ i # Top => state'[i] = state[i]
      /\ stack # <<>> => Top \in Images
  BY OnlyTop
<1>2. ASSUME NEW m \in attempted, m \in Present,
             \/ \A i \in Images : state'[i] = "gone" => state[i] = "gone"
             \/ DiscardImage
      PROVE  m \in broken' \/ \E i \in Images' : file'[i] = m /\ state'[i] # "gone"
  <2>1. m \in broken \/ \E i \in Images : file[i] = m /\ state[i] # "gone"
    BY <1>2 DEF SeenInv
  <2>2. CASE \A i \in Images : state'[i] = "gone" => state[i] = "gone"
    BY <1>1, <2>1, <2>2
  <2>3. CASE DiscardImage
    <3>1. stack # <<>> /\ Top \in Images
      BY <1>1, <2>3 DEF DiscardImage, TypeOK
    <3>2. m # file[Top] => \A i \in Images : file[i] = m => state'[i] = state[i]
      BY <1>1
    <3>3. CASE m = file[Top]
      <4>1. Len(stack) # 1
        <5>1. Top = stack[Len(stack)]
          BY DEF Top, Last
        <5> QED
          BY <1>2, <3>1, <3>3, <5>1 DEF StackInv, OneInv
      <4>2. Len(stack) > 1
        BY <3>1, <4>1, Numbers
      <4> QED
        BY <2>3, <3>3, <4>2 DEF DiscardImage, Return
    <3>4. CASE m # file[Top]
      BY <1>1, <2>1, <3>2, <3>4
    <3> QED
      BY <3>3, <3>4
  <2> QED
    BY <1>2, <2>2, <2>3
<1>3. CASE LoadSiblingImport
  <2> DEFINE m == Descriptor(Top)[1]
  <2>1. phase = "link" /\ stack # <<>>
    BY <1>3 DEF LoadSiblingImport, TypeOK
  <2>2. \A i \in Images : state'[i] = state[i]
    <3>1. (m \in Present /\ Map(m)) \/ state' = state
      BY <1>3 DEF LoadSiblingImport, LeftToStubs, SiblingUnusable, Unusable
    <3> QED
      BY <3>1, Mapped
  <2>3. attempted' \subseteq attempted \cup {m}
    BY <1>3 DEF LoadSiblingImport
  <2>4. ASSUME m \notin attempted, m \in attempted', m \in Present
        PROVE  m \in broken' \/ \E i \in Images' : file'[i] = m /\ state'[i] # "gone"
    <3>1. Map(m) \/ SiblingUnusable(m)
      BY <1>3, <2>4 DEF LoadSiblingImport
    <3>2. CASE Map(m)
      BY <2>4, <3>2, Mapped
    <3>3. CASE SiblingUnusable(m)
      BY <3>3 DEF SiblingUnusable
    <3> QED
      BY <3>1, <3>2, <3>3
  <2> QED
    BY <1>2, <2>2, <2>3, <2>4
<1>4. CASE DiscardImage
  BY <1>2, <1>4 DEF DiscardImage
<1>5. CASE \E m \in Roots : LoadDll(m)
  <2>1. PICK m \in Roots : LoadDll(m)
    BY <1>5
  <2>2. attempted' = attempted /\ (Map(m) \/ state' = state)
    BY <2>1 DEF LoadDll, Unusable
  <2>3. \A i \in Images : state'[i] = state[i]
    BY <2>2, Mapped, ModulesAssumption
  <2> QED
    BY <1>2, <2>2, <2>3
<1>6. CASE BindImport \/ FixupRelocFails \/ FinishRefused \/ UNCHANGED vars
  <2>1. attempted' = attempted /\ state' = state
    BY <1>6 DEF BindImport, FixupRelocFails, FinishRefused, vars
  <2> QED
    BY <1>2, <2>1
<1>7. CASE BeginProcessAttach \/ FinishAttached
  <2>1. /\ attempted' = attempted
        /\ state' = state \/ state' = [state EXCEPT ![Top] = "attaching"]
           \/ state' = [state EXCEPT ![Top] = "registered"]
    BY <1>7 DEF BeginProcessAttach, FinishAttached
  <2>2. \A i \in Images : state'[i] = "gone" => state[i] = "gone"
    BY <2>1 DEF TypeOK
  <2> QED
    BY <1>2, <2>1, <2>2
<1> QED
  BY <1>3, <1>4, <1>5, <1>6, <1>7 DEF Next, Step

\* What is bound next has settled.
LEMMA BindsSettled ==
    ASSUME NEW rank \in [Present -> Nat], Ordered(rank), IInv, RankInv(rank), SeenInv,
           [Next]_vars, phase' = "bind", Descriptor(Top)[1]' \in Present
    PROVE  Settled(Descriptor(Top)[1])'
<1> USE DEF IInv
<1>1. CASE LoadSiblingImport
  <2> DEFINE m == Descriptor(Top)[1]
  <2>1. phase = "link" /\ next[Top] <= Len(Imports[file[Top]])
    BY <1>1 DEF LoadSiblingImport
  <2>2. LeftToStubs
    BY <1>1 DEF LoadSiblingImport, LeftToStubs, SiblingUnusable, Map
  <2>3. UNCHANGED <<file, state, bound, next, exports, stack>>
    BY <2>2 DEF LeftToStubs, Unusable
  <2>4. Descriptor(Top)[1]' = m
    BY <2>3 DEF Descriptor, Top
  <2>5. (ModuleRegistered(m) \/ m \in attempted) /\ broken' = broken
    <3>1. ~Map(m) /\ ~SiblingUnusable(m)
      BY <1>1, <2>2 DEF LeftToStubs, Map, SiblingUnusable
    <3> QED
      BY <1>1, <2>4, <3>1 DEF LoadSiblingImport
  <2>6. Settled(m)
    BY <2>1, <2>4, <2>5, KnownSettled
  <2> QED
    BY <2>3, <2>4, <2>5, <2>6 DEF Settled, Images
<1>2. CASE FinishAttached
  <2>1. /\ stack # <<>> /\ file' = file /\ next' = next /\ stack' = Front(stack)
        /\ state' = [state EXCEPT ![Top] = "registered"] /\ Len(stack) # 1
    BY <1>2 DEF FinishAttached, Return, TypeOK
  <2>2. /\ Len(stack) \in Nat /\ DOMAIN stack = 1..Len(stack)
        /\ Top = stack[Len(stack)] /\ Top \in Images /\ Len(stack) \in DOMAIN stack
    BY <2>1, Numbers
  <2>3. Len(stack) - 1 \in DOMAIN stack /\ (Len(stack) - 1) + 1 = Len(stack)
    BY <2>1, <2>2
  <2>4. Descriptor(stack[Len(stack) - 1])[1] = file[Top]
    BY <2>2, <2>3 DEF StackInv
  <2>5. Top' = stack[Len(stack) - 1]
    BY <2>1, Returned
  <2>6. Descriptor(Top)[1]' = file[Top]
    BY <2>1, <2>4, <2>5 DEF Descriptor
  <2>7. Top \in Images' /\ state'[Top] = "registered" /\ file'[Top] = file[Top]
    BY <2>1, <2>2 DEF Images, TypeOK
  <2> QED
    BY <2>6, <2>7 DEF Settled
<1>3. CASE UNCHANGED vars
  BY <1>3 DEF vars, SeenInv, Settled, Descriptor, Top, Images
<1>4. CASE \E m \in Roots : LoadDll(m)
  BY <1>4 DEF LoadDll, Map
<1>5. CASE BindImport \/ FixupRelocFails \/ BeginProcessAttach \/ FinishRefused \/ DiscardImage
  BY <1>5 DEF BindImport, FixupRelocFails, BeginProcessAttach, FinishRefused, DiscardImage,
     Return
<1> QED
  BY <1>1, <1>2, <1>3, <1>4, <1>5 DEF Next, Step

\* An image goes on seeing what it has bound, and sees what it binds.
LEMMA SeesBound ==
    ASSUME IInv, TableInv, SeenInv, [Next]_vars,
           NEW i \in Images, state'[i] # "gone",
           NEW k \in DOMAIN Imports[file[i]], k < next'[i],
           NEW d, d = Imports[file[i]][k], d[1] \in Present
    PROVE  d[1] \in broken' \/ SeesSibling(i, d)'
<1> USE DEF IInv
<1>1. /\ broken \subseteq broken'
      /\ state[i] # "gone" /\ file[i] \in Present
      /\ BindImport \/ next'[i] = next[i]
  BY OnlyTop, Numbers
<1>2. k \in Nat /\ next[i] \in Nat
  BY <1>1, Descriptors DEF TypeOK
<1>3. CASE k < next[i]
  <2>1. d[1] \in broken \/ SeesSibling(i, d)
    BY <1>1, <1>3 DEF SeenInv
  <2> QED
    BY <1>1, <2>1, SightStays
<1>4. CASE ~(k < next[i])
  <2>1. BindImport
    BY <1>1, <1>4
  <2>2. i = Top /\ k = next[i]
    <3>1. next'[i] = IF i = Top THEN next[i] + 1 ELSE next[i]
      BY <2>1 DEF BindImport, TypeOK
    <3> QED
      BY <1>2, <1>4, <3>1
  <2>3. d = Descriptor(Top) /\ Settled(d[1])
    <3>1. d = Descriptor(Top) /\ phase = "bind"
      BY <2>1, <2>2 DEF Descriptor, BindImport
    <3> QED
      BY <3>1 DEF SeenInv
  <2>4. CASE d[1] \in broken
    BY <1>1, <2>4
  <2>5. CASE d[1] \notin broken
    <3>1. PICK j \in Images : file[j] = d[1] /\ state[j] = "registered"
      BY <2>3, <2>5 DEF Settled
    <3>2. d[2] \in Exports[d[1]] => GetExport(d[1], d[2]) = j
      BY <3>1, BindsSibling
    <3>3. bound'[i] = bound[i] \cup {<<d[1], d[2], GetExport(d[1], d[2])>>}
      BY <2>1, <2>2, <2>3 DEF BindImport, TypeOK
    <3>4. j \in Images' /\ file'[j] = d[1] /\ state'[j] = "registered"
      BY <2>1, <3>1 DEF BindImport, Images
    <3> QED
      BY <3>2, <3>3, <3>4 DEF SeesSibling
  <2> QED
    BY <2>4, <2>5
<1> QED
  BY <1>3, <1>4

\* What is bound is seen, and what was attempted and what is bound next has
\* settled.
LEMMA SeenPreserves ==
    ASSUME NEW rank \in [Present -> Nat], Ordered(rank), IInv, RankInv(rank), TableInv, SeenInv,
           [Next]_vars
    PROVE  SeenInv'
<1>1. ASSUME NEW i \in Images', state'[i] # "gone",
             NEW k \in DOMAIN Imports[file'[i]], k < next'[i]
      PROVE  i \in Images /\ file'[i] = file[i]
  <2>1. CASE i \in Images
    BY <2>1, OnlyTop
  <2>2. CASE i \notin Images
    <3>1. next'[i] = 1
      BY <2>2, OnlyTop
    <3>2. file'[i] \in Present
      BY NextPreserves, ElementOfSeq, LenProperties DEF IInv, TypeOK, Images
    <3> QED
      BY <1>1, <3>1, <3>2, Descriptors
  <2> QED
    BY <2>1, <2>2
<1>2. \A i \in Images' : state'[i] # "gone" =>
         \A k \in DOMAIN Imports[file'[i]] : k < next'[i] =>
            LET d == Imports[file'[i]][k] IN
            d[1] \in Present => d[1] \in broken' \/
              \E j \in Images' :
                 /\ file'[j] = d[1] /\ state'[j] = "registered"
                 /\ d[2] \in Exports[d[1]] => <<d[1], d[2], j>> \in bound'[i]
  BY <1>1, SeesBound DEF SeesSibling
<1>3. \A m \in attempted' \cap Present :
         m \in broken' \/ \E i \in Images' : file'[i] = m /\ state'[i] # "gone"
  BY AttemptsPreserve
<1>4. phase' = "bind" /\ Descriptor(Top)[1]' \in Present => Settled(Descriptor(Top)[1])'
  BY BindsSettled
<1> QED
  BY <1>2, <1>3, <1>4 DEF SeenInv, SeesSibling

\* If no DLL imports from one that imports it and the table holds every
\* export, each DllMain runs with the DLLs beside it registered, its imports
\* from them bound to them, unless a load of one failed.
THEOREM SiblingsSeen ==
    ASSUME NEW CONSTANT rank \in [Present -> Nat], Ordered(rank), Room
    PROVE  Spec => []ImportersSeeTheirSiblings
<1> DEFINE J == IInv /\ RankInv(rank) /\ TableInv /\ SeenInv
<1>1. Init => J
  <2> SUFFICES ASSUME Init PROVE RankInv(rank) /\ TableInv /\ SeenInv
    BY InitInvariant
  <2>1. Images = {} /\ DOMAIN stack = {} /\ attempted = {} /\ phase = "idle"
    BY DEF Init, Images
  <2> QED
    BY <2>1 DEF RankInv, TableInv, SeenInv
<1>2. J /\ [Next]_vars => J'
  BY NextPreserves, RankPreserves, TablePreserves, SeenPreserves
<1>3. J => ImportersSeeTheirSiblings
  <2> SUFFICES ASSUME IInv, SeenInv, NEW i \in Images,
                      state[i] \in {"attaching", "registered"}, NEW d \in Siblings(i)
               PROVE  d[1] \in broken \/ SeesSibling(i, d)
    BY DEF ImportersSeeTheirSiblings
  <2>1. file[i] \in Present /\ d[1] \in Present /\ d \in ToSet(Imports[file[i]])
    BY Numbers DEF IInv, Siblings
  <2>2. PICK k \in DOMAIN Imports[file[i]] : d = Imports[file[i]][k]
    BY <2>1 DEF ToSet
  <2>3. k < next[i]
    BY <2>1, Descriptors DEF IInv, TypeOK, NextInv
  <2> QED
    BY <2>1, <2>2, <2>3 DEF SeenInv
<1> HIDE DEF J
<1>4. J /\ [Next]_vars => J'
  BY <1>2
<1> QED
  BY <1>1, <1>3, <1>4, PTL DEF Spec
=============================================================================

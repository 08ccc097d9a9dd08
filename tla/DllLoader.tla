----------------------------- MODULE DllLoader ------------------------------
(***************************************************************************)
(* load_dll (src/src/dll_loader.cpp) and what it calls in                  *)
(* src/src/pe_loader.cpp: the export table, the imports a DLL takes from   *)
(* the DLLs beside it, loaded in their turn, and the undoing of a load     *)
(* that fails.  All of it runs under the recursive loader lock, one load   *)
(* at a time; the threads' side of it is in ThreadAttach.                  *)
(***************************************************************************)
EXTENDS Naturals, FiniteSets, SequencesExt

CONSTANTS
    Modules,     \* names of DLLs
    Present,     \* those with a readable file next to the importers
    Exports,     \* Exports[m]: the symbols m exports by name
    Imports,     \* Imports[m]: its import descriptors, <<module, symbol>>
    Roots,       \* the DLLs load_dll is called for
    MaxExports,  \* MAX_EXPORTS
    MaxImages,   \* MAX_LOADED_IMAGES
    MaxLoads     \* bound: calls of load_dll by the wrappers

Symbols == UNION {Exports[m] : m \in Present}
           \cup UNION {{d[2] : d \in ToSet(Imports[m])} : m \in Present}

ASSUME ModulesAssumption ==
    /\ Present \subseteq Modules
    /\ Roots \subseteq Present
    /\ DOMAIN Exports = Present /\ DOMAIN Imports = Present
    /\ \A m \in Present : IsFiniteSet(Exports[m]) /\ Imports[m] \in Seq(Modules \X Symbols)
    /\ MaxExports \in Nat

\* Each wrapper library is linked with a loader of its own and loads one DLL;
\* a sibling that imports that DLL back is not modelled.
ASSUME RootsAssumption ==
    \A m \in Present : \A d \in ToSet(Imports[m]) : d[1] \notin Roots

\* An image is a pe_image, numbered in the order of mapping; 0 stands for the
\* stub that traps an unresolved import.
Stub == 0

VARIABLES
    file,        \* file[i]: the module image i was mapped from
    state,       \* state[i]: linking, attaching, registered or gone
    bound,       \* bound[i]: <<module, symbol, image>> of its import table
    exports,     \* pe_export_list, of entries <<module, symbol, image>>
    attempted,   \* the static vector of load_sibling_import
    stack,       \* the images being loaded, the innermost last
    next,        \* next[i]: the import descriptor of image i to process
    phase,       \* where the innermost load is
    failed,      \* roots whose last load failed
    broken,      \* (history) siblings that failed to load
    loads        \* counter of the bound

vars == <<file, state, bound, exports, attempted, stack, next, phase, failed,
          broken, loads>>

Images == DOMAIN file

Init ==
    /\ file = <<>>
    /\ state = <<>>
    /\ bound = <<>>
    /\ exports = {}
    /\ attempted = {}
    /\ stack = <<>>
    /\ next = <<>>
    /\ phase = "idle"
    /\ failed = {}
    /\ broken = {}
    /\ loads = 0

Top == Last(stack)
Descriptor(i) == Imports[file[i]][next[i]]

\* register_function, for every named export of image i; what does not fit
\* the table is dropped.
RegisterExports(m, i) ==
    \E kept \in SUBSET Exports[m] :
        /\ Cardinality(exports) + Cardinality(kept) <= MaxExports
        /\ kept = Exports[m] \/ Cardinality(exports) + Cardinality(kept) = MaxExports
        /\ exports' = exports \cup {<<m, s, i>> : s \in kept}

\* An image names a symbol once, so of the entries for a symbol the last one
\* in the table is that of the image mapped last.
Newest(entries) == Max({e[3] : e \in entries})

Matching(m, s) == {e \in exports : e[1] = m /\ e[2] = s}
Named(s) == {e \in exports : e[2] = s}

\* (variant) The module is not looked at.
GetExportOfAny(m, s) == IF Named(s) # {} THEN Newest(Named(s)) ELSE Stub

\* get_export: the newest export of the module, or else the newest export of
\* that name in any module.
GetExport(m, s) ==
    IF Matching(m, s) # {} THEN Newest(Matching(m, s))
    ELSE IF Named(s) # {} THEN Newest(Named(s))
    ELSE Stub

ModuleRegistered(m) == \E e \in exports : e[1] = m

-----------------------------------------------------------------------------
(* The steps of load_dll.                                                  *)

\* pe_load_library and the first pass of link_pe_images: the file is mapped
\* and its exports are registered.
Map(m) ==
    /\ file' = Append(file, m)
    /\ state' = Append(state, "linking")
    /\ bound' = Append(bound, {})
    /\ next' = Append(next, 1)
    /\ RegisterExports(m, Len(file) + 1)
    /\ stack' = Append(stack, Len(file) + 1)
    /\ phase' = "link"

\* A file that cannot be mapped or has no valid header leaves nothing behind.
Unusable == UNCHANGED <<file, state, bound, next, exports, stack>>

LoadDll(m) ==
    /\ phase = "idle" /\ loads < MaxLoads
    /\ ~\E i \in Images : file[i] = m /\ state[i] = "registered"
    /\ loads' = loads + 1
    /\ \/ Map(m) /\ failed' = failed \ {m}
       \/ Unusable /\ failed' = failed \cup {m} /\ UNCHANGED phase
    /\ UNCHANGED <<attempted, broken>>

\* The second pass of link_pe_images gives up on bad relocations.
FixupRelocFails ==
    /\ phase = "link" /\ next[Top] = 1
    /\ phase' = "undo"
    /\ UNCHANGED <<file, state, bound, exports, attempted, stack, next, failed,
                   broken, loads>>

LeftToStubs == phase' = "bind" /\ Unusable
SiblingUnusable(m) == phase' = "undo" /\ Unusable /\ broken' = broken \cup {m}

\* (variant) Only the modules with exports are known, not the attempts.
LoadSiblingImportUnlessRegistered ==
    /\ phase = "link" /\ next[Top] <= Len(Imports[file[Top]])
    /\ Len(stack) < 6
    /\ LET m == Descriptor(Top)[1] IN
       \/ ModuleRegistered(m) /\ LeftToStubs /\ UNCHANGED broken
       \/ /\ ~ModuleRegistered(m)
          /\ \/ m \in Present /\ Map(m) /\ UNCHANGED broken
             \/ m \notin Present /\ LeftToStubs /\ UNCHANGED broken
             \/ m \in Present /\ SiblingUnusable(m)
    /\ UNCHANGED <<attempted, failed, loads>>

\* load_sibling_import: a module that is known, was attempted before or has
\* no file is left to the stubs; any other is loaded before its importer.
LoadSiblingImport ==
    /\ phase = "link" /\ next[Top] <= Len(Imports[file[Top]])
    /\ LET m == Descriptor(Top)[1] IN
       \/ /\ ModuleRegistered(m) \/ m \in attempted
          /\ LeftToStubs
          /\ UNCHANGED <<attempted, broken>>
       \/ /\ ~ModuleRegistered(m) /\ m \notin attempted
          /\ attempted' = attempted \cup {m}
          /\ \/ m \in Present /\ Map(m) /\ UNCHANGED broken
             \/ m \notin Present /\ LeftToStubs /\ UNCHANGED broken
             \/ m \in Present /\ SiblingUnusable(m)
    /\ UNCHANGED <<failed, loads>>

\* (variant) The loop over the descriptors does not advance.
BindImportStays ==
    /\ phase = "bind"
    /\ LET m == Descriptor(Top)[1]
           s == Descriptor(Top)[2]
       IN  bound' = [bound EXCEPT ![Top] = @ \cup {<<m, s, GetExport(m, s)>>}]
    /\ phase' = "link"
    /\ UNCHANGED <<file, state, exports, attempted, stack, next, failed, broken,
                   loads>>

\* process_import_descriptor.
BindImport ==
    /\ phase = "bind"
    /\ LET m == Descriptor(Top)[1]
           s == Descriptor(Top)[2]
       IN  bound' = [bound EXCEPT ![Top] = @ \cup {<<m, s, GetExport(m, s)>>}]
    /\ next' = [next EXCEPT ![Top] = @ + 1]
    /\ phase' = "link"
    /\ UNCHANGED <<file, state, exports, attempted, stack, failed, broken,
                   loads>>

\* With its imports bound the image is attached, unless no TLS index, no slot
\* of the list or no TLS block is to be had.
BeginProcessAttach ==
    /\ phase = "link" /\ next[Top] > Len(Imports[file[Top]])
    /\ \/ /\ Cardinality({i \in Images : state[i] = "registered"}) < MaxImages
          /\ state' = [state EXCEPT ![Top] = "attaching"]
          /\ phase' = "dllmain"
       \/ phase' = "undo" /\ UNCHANGED state
    /\ UNCHANGED <<file, bound, exports, attempted, stack, next, failed,
                   broken, loads>>

\* The load of an image ends; the importer that asked for it goes on.
Return(ok) ==
    /\ stack' = Front(stack)
    /\ phase' = IF Len(stack) = 1 THEN "idle" ELSE IF ok THEN "bind" ELSE "undo"
    /\ failed' = IF Len(stack) = 1 /\ ~ok THEN failed \cup {file[Top]} ELSE failed
    /\ broken' = IF Len(stack) > 1 /\ ~ok THEN broken \cup {file[Top]} ELSE broken

\* DllMain returned TRUE: pe_finish_process_attach registers the image.
FinishAttached ==
    /\ phase = "dllmain"
    /\ state' = [state EXCEPT ![Top] = "registered"]
    /\ Return(TRUE)
    /\ UNCHANGED <<file, bound, exports, attempted, next, loads>>

\* (variant) The refused image is left as it is.
FinishRefusedKeepsImage ==
    /\ phase = "dllmain"
    /\ Return(FALSE)
    /\ UNCHANGED <<file, state, bound, exports, attempted, next, loads>>

\* DllMain returned FALSE, and has been told DLL_PROCESS_DETACH.
FinishRefused ==
    /\ phase = "dllmain"
    /\ phase' = "undo"
    /\ UNCHANGED <<file, state, bound, exports, attempted, stack, next, failed,
                   broken, loads>>

\* (variant) The exports of the image stay in the table.
DiscardImageKeepsExports ==
    /\ phase = "undo"
    /\ state' = [state EXCEPT ![Top] = "gone"]
    /\ Return(FALSE)
    /\ UNCHANGED <<file, bound, exports, attempted, next, loads>>

\* pe_discard_image: the exports are taken back and the image is unmapped.
\* The importer of a discarded image fails in its turn.
DiscardImage ==
    /\ phase = "undo"
    /\ exports' = {e \in exports : e[3] # Top}
    /\ state' = [state EXCEPT ![Top] = "gone"]
    /\ Return(FALSE)
    /\ UNCHANGED <<file, bound, attempted, next, loads>>

Step ==
    \/ LoadSiblingImport \/ BindImport \/ FixupRelocFails
    \/ BeginProcessAttach \/ FinishAttached \/ FinishRefused \/ DiscardImage

Next == Step \/ \E m \in Roots : LoadDll(m)

Spec == Init /\ [][Next]_vars

\* The loading thread runs and every DllMain returns.
FairSpec == Spec /\ WF_vars(Step)

-----------------------------------------------------------------------------

TypeOK ==
    /\ file \in Seq(Present)
    /\ state \in [Images -> {"linking", "attaching", "registered", "gone"}]
    /\ bound \in [Images -> SUBSET (Modules \X Symbols \X (Images \cup {Stub}))]
    /\ exports \in SUBSET (Present \X Symbols \X Images)
    /\ IsFiniteSet(exports) /\ Cardinality(exports) <= MaxExports
    /\ attempted \in SUBSET Modules
    /\ stack \in Seq(Images) /\ IsInjective(stack)
    /\ next \in [Images -> Nat]
    /\ phase \in {"idle", "link", "bind", "dllmain", "undo"}
    /\ phase = "idle" <=> stack = <<>>
    /\ failed \in SUBSET Roots
    /\ loads \in Nat

\* The descriptors of image i that name a DLL beside it.
Siblings(i) == {d \in ToSet(Imports[file[i]]) : d[1] \in Present}

\* Each DLL beside image i that it imports is registered and serves the
\* symbols it exports, and no stub that traps stands for them.
SeesSibling(i, d) ==
    \E j \in Images :
        /\ file[j] = d[1] /\ state[j] = "registered"
        /\ d[2] \in Exports[d[1]] => <<d[1], d[2], j>> \in bound[i]

\* The importer's DllMain sees initialized dependencies: when it runs, and
\* from then on, the DLLs it imports are there, except those that failed in
\* an earlier load_dll.
ImportersSeeTheirSiblings ==
    \A i \in Images : state[i] \in {"attaching", "registered"} =>
        \A d \in Siblings(i) : d[1] \in broken \/ SeesSibling(i, d)

\* What the comment of load_sibling_import says: a DLL beside its importer is
\* linked and attached first, so that the importer's DllMain sees it
\* initialized; only a missing file leaves its imports to the stubs.
DllMainSeesDependencies ==
    \A i \in Images : state[i] \in {"attaching", "registered"} =>
        \A d \in Siblings(i) : SeesSibling(i, d)

\* Whatever the order of loads and failures, an image in use calls no image
\* that was unmapped, and neither will one that is linked later.
NoDanglingImports ==
    /\ \A i \in Images : state[i] # "gone" =>
           \A b \in bound[i] : b[3] # Stub => state[b[3]] # "gone"
    /\ \A e \in exports : state[e[3]] # "gone"

\* What NoDanglingImports and ImportersSeeTheirSiblings take of the DLLs.  No
\* DLL imports from one that imports it, however indirectly: rank descends
\* along the imports, and, as get_export falls back on any module with the
\* symbol, to every DLL that exports an imported symbol.
Ordered(rank) ==
    \A m \in Present : \A d \in ToSet(Imports[m]) :
        /\ d[1] \in Present => rank[d[1]] < rank[m]
        /\ \A n \in Present : d[2] \in Exports[n] => n = m \/ rank[n] < rank[m]

\* The table has room for every export of every DLL.
AllExports == UNION {{<<m, s>> : s \in Exports[m]} : m \in Present}
Room == IsFiniteSet(AllExports) /\ Cardinality(AllExports) <= MaxExports

\* A DLL is in the process once: one image at most of each file is live.
OneImagePerFile ==
    \A i, j \in Images :
        file[i] = file[j] /\ state[i] # "gone" /\ state[j] # "gone" => i = j

\* A load leaves a registered image or nothing: no image is left half linked,
\* and the wrapper hears of the failure of a sibling.
LoadsAreAllOrNothing ==
    phase = "idle" =>
        /\ \A i \in Images : state[i] \in {"registered", "gone"}
        /\ \A m \in failed :
              ~\E i \in Images : file[i] = m /\ state[i] = "registered"

\* A load comes to an end, although DLLs may import one another.
EveryLoadEnds == phase # "idle" ~> phase = "idle"

=============================================================================

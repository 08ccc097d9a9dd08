------------------------------- MODULE Startup ------------------------------
(***************************************************************************)
(* From Init of a wrapper to the first forwarded call: the sidecar file    *)
(* that several processes generate and load (src/src/pe_loader.cpp,        *)
(* pe_sidecar.cpp), load_dll (dll_loader.cpp) and the guards of the        *)
(* wrappers' Init functions.  Processes are killed, the machine loses      *)
(* power, and the DLL is replaced by newer versions.                       *)
(***************************************************************************)
EXTENDS Naturals, FiniteSets

CONSTANTS
    Processes, Threads,
    In,         \* the process of a thread
    KindsOf,    \* the wrappers that may be in a process
    NoFile, NoImage, Nobody,
    MaxVersion, \* bound: versions of the DLL, each replaced by the next
    MaxMapped,  \* bound: how often one process maps the sidecar
    Lacking     \* versions that lack an export the wrapper needs

Kinds == {"once",     \* std::call_once: KytheraV2, Voxels
          "slug",     \* a mutex, missing exports throw: Slug
          "physics",  \* a mutex, missing exports stay null: Physics
          "lazy",     \* a null check: Havok, RecastDetour, VRageNative
          "tool"}     \* generate_pe_sidecar, which only writes the file

ASSUME StartupAssumption ==
    /\ In \in [Threads -> Processes] /\ Nobody \notin Threads
    /\ KindsOf \in [Processes -> SUBSET Kinds]
    /\ MaxVersion \in Nat \ {0} /\ MaxMapped \in Nat \ {0} /\ Lacking \subseteq 1..MaxVersion

VARIABLES
    dll,       \* the version at the DLL's path
    cache,     \* the file at the sidecar's path
    ondisk,    \* the file a power loss would leave there
    kind,      \* the wrapper of a process
    pc,        \* where a thread is
    busy,      \* the thread inside Init's guard
    step,      \* how far its load is
    temp,      \* the temporary file it writes
    mapping,   \* the sidecar dlopen has mapped, its references and relocations
    image,     \* the pe_image
    resolved,  \* the wrapper's function pointers
    ready,     \* some Init has returned
    spoiled,   \* some Init has thrown for a missing export
    seen       \* versions the DLL has had since the load began

disk    == <<dll, cache, ondisk>>
load    == <<busy, step, temp, seen>>
process == <<mapping, image, resolved, ready, spoiled>>
vars    == <<disk, load, process, kind, pc>>

\* A sidecar: the DLL it was made of, whether it is written, and synced.  A
\* file is not written any more once it is published.
Files == [of : 0..MaxVersion, whole : BOOLEAN, synced : BOOLEAN]
Empty == [of |-> 0, whole |-> FALSE, synced |-> FALSE]

\* How often an image was relocated where it is.
Relocations == {"not", "once", "more"}
Images == [from : {"sidecar", "file"}, of : 1..MaxVersion,
           relocated : Relocations, attached : BOOLEAN]

ASSUME NoneAssumption == NoFile \notin Files /\ NoImage \notin Images

Unmapped == [file |-> NoFile, refs |-> 0, relocated |-> "not"]

Init ==
    /\ dll = 1
    /\ cache = NoFile /\ ondisk = NoFile
    /\ kind \in {k \in [Processes -> Kinds] : \A p \in Processes : k[p] \in KindsOf[p]}
    /\ pc = [t \in Threads |-> "idle"]
    /\ busy = [p \in Processes |-> Nobody]
    /\ step = [p \in Processes |-> "none"]
    /\ temp = [p \in Processes |-> NoFile]
    /\ mapping = [p \in Processes |-> Unmapped]
    /\ image = [p \in Processes |-> NoImage]
    /\ resolved = [p \in Processes |-> "none"]
    /\ ready = [p \in Processes |-> FALSE]
    /\ spoiled = [p \in Processes |-> FALSE]
    /\ seen = [p \in Processes |-> {}]

GoOn(p, s) == step' = [step EXCEPT ![p] = s]

\* The load of p is over, and its thread leaves Init's guard.
EndLoad(p) ==
    /\ busy' = [busy EXCEPT ![p] = Nobody]
    /\ step' = [step EXCEPT ![p] = "none"]
    /\ temp' = [temp EXCEPT ![p] = NoFile]
    /\ pc' = [pc EXCEPT ![busy[p]] = "idle"]
    /\ UNCHANGED seen

---------------------------------------------------------------------------
(* Init and its guards.                                                    *)

\* The lazy wrappers look at the image without a lock, and are to be
\* initialised by one thread.
CallInit(t) ==
    /\ pc[t] = "idle"
    /\ kind[In[t]] = "lazy" => \A u \in Threads : In[u] = In[t] => pc[u] # "init"
    /\ pc' = [pc EXCEPT ![t] = "init"]
    /\ UNCHANGED <<disk, load, process, kind>>

\* Whether Init has nothing to do: call_once asks its flag, the others the
\* image.
Initialised(p) ==
    IF kind[p] = "once" THEN ready[p] ELSE image[p] # NoImage

InitReturns(t) ==
    /\ pc[t] = "init" /\ busy[In[t]] = Nobody
    /\ kind[In[t]] # "tool" /\ Initialised(In[t])
    /\ pc' = [pc EXCEPT ![t] = "idle"]
    /\ ready' = [ready EXCEPT ![In[t]] = TRUE]
    /\ UNCHANGED <<disk, load, mapping, image, resolved, spoiled, kind>>

\* The mutex, or the once flag, is taken and the load begins.  A second
\* load drops the pe_image of the first, not what is mapped.
InitEnters(t) ==
    LET p == In[t] IN
    /\ pc[t] = "init" /\ busy[p] = Nobody
    /\ kind[p] = "tool" \/ ~Initialised(p)
    /\ mapping[p].refs < MaxMapped
    /\ busy' = [busy EXCEPT ![p] = t]
    /\ step' = [step EXCEPT ![p] = IF kind[p] = "tool" THEN "make" ELSE "open"]
    /\ seen' = [seen EXCEPT ![p] = {dll}]
    /\ image' = [image EXCEPT ![p] = NoImage]
    /\ UNCHANGED <<disk, temp, mapping, resolved, ready, spoiled, kind, pc>>

---------------------------------------------------------------------------
(* The sidecar of a load.                                                  *)

\* (variant) The file is generated as often as it does not load.
FallbackAgain(p) == GoOn(p, "make")

\* The first attempt is followed by generating the file, the second one by
\* mapping the DLL itself.
Fallback(p) == GoOn(p, IF step[p] \in {"open", "match"} THEN "make" ELSE "raw")

\* dlopen finds a library it has open by the path and not by the file.
OpenSidecar(p) ==
    /\ step[p] \in {"open", "reopen"}
    /\ \/ /\ mapping[p].refs > 0
          /\ mapping' = [mapping EXCEPT ![p].refs = @ + 1]
          /\ GoOn(p, IF step[p] = "open" THEN "match" ELSE "rematch")
       \/ /\ mapping[p].refs = 0 /\ cache # NoFile
          /\ mapping' = [mapping EXCEPT ![p] = [file |-> cache, refs |-> 1, relocated |-> "not"]]
          /\ GoOn(p, IF step[p] = "open" THEN "match" ELSE "rematch")
       \/ Fallback(p) /\ UNCHANGED mapping
    /\ UNCHANGED <<disk, busy, temp, seen, image, resolved, ready, spoiled, kind, pc>>

Dropped(m) == IF m.refs = 1 THEN Unmapped ELSE [m EXCEPT !.refs = @ - 1]

DlClose(p) == mapping' = [mapping EXCEPT ![p] = Dropped(@)]

\* Size and fingerprint recorded in the file are compared with the DLL of
\* now; dlinfo, mprotect and the thread's set-up may fail as well.
SidecarMatches(p) ==
    /\ step[p] \in {"match", "rematch"}
    /\ \/ /\ mapping[p].file.of = dll
          /\ image' = [image EXCEPT ![p] =
                 [from |-> "sidecar", of |-> dll,
                  relocated |-> mapping[p].relocated, attached |-> FALSE]]
          /\ GoOn(p, "link")
          /\ UNCHANGED mapping
       \/ DlClose(p) /\ Fallback(p) /\ UNCHANGED image
    /\ UNCHANGED <<disk, busy, temp, seen, resolved, ready, spoiled, kind, pc>>

\* Generating failed: the temporary file is unlinked.  The tool gives up.
GenerationFails(p) ==
    /\ step[p] \in {"make", "read", "write", "sync", "publish"}
    /\ IF kind[p] = "tool"
       THEN EndLoad(p)
       ELSE GoOn(p, "raw") /\ temp' = [temp EXCEPT ![p] = NoFile] /\ UNCHANGED <<busy, seen, pc>>
    /\ UNCHANGED <<disk, process, kind>>

MakeTemporary(p) ==
    /\ step[p] = "make"
    /\ temp' = [temp EXCEPT ![p] = Empty]
    /\ GoOn(p, "read")
    /\ UNCHANGED <<disk, busy, seen, process, kind, pc>>

\* The DLL is read through one descriptor; size and fingerprint are of it.
ReadDll(p) ==
    /\ step[p] = "read"
    /\ temp' = [temp EXCEPT ![p].of = dll]
    /\ GoOn(p, "write")
    /\ UNCHANGED <<disk, busy, seen, process, kind, pc>>

WriteOutput(p) ==
    /\ step[p] = "write"
    /\ temp' = [temp EXCEPT ![p].whole = TRUE]
    /\ GoOn(p, "sync")
    /\ UNCHANGED <<disk, busy, seen, process, kind, pc>>

\* (variant) The fsync is left out.
SyncNothing(p) ==
    /\ step[p] = "sync"
    /\ GoOn(p, "publish")
    /\ UNCHANGED <<disk, busy, temp, seen, process, kind, pc>>

Sync(p) ==
    /\ step[p] = "sync"
    /\ temp' = [temp EXCEPT ![p].synced = TRUE]
    /\ GoOn(p, "publish")
    /\ UNCHANGED <<disk, busy, seen, process, kind, pc>>

\* rename: processes that have the old file mapped keep it.
Publish(p) ==
    /\ step[p] = "publish"
    /\ cache' = temp[p]
    /\ IF kind[p] = "tool"
       THEN EndLoad(p)
       ELSE GoOn(p, "reopen") /\ temp' = [temp EXCEPT ![p] = NoFile] /\ UNCHANGED <<busy, seen, pc>>
    /\ UNCHANGED <<dll, ondisk, process, kind>>

---------------------------------------------------------------------------
(* The rest of a load.                                                     *)

LoadRaw(p) ==
    /\ step[p] = "raw"
    /\ image' = [image EXCEPT ![p] =
           [from |-> "file", of |-> dll, relocated |-> "not", attached |-> FALSE]]
    /\ GoOn(p, "link")
    /\ UNCHANGED <<disk, busy, temp, seen, mapping, resolved, ready, spoiled, kind, pc>>

Again(r) == IF r = "not" THEN "once" ELSE "more"

\* link_pe_images, whose relocations are done in place.
Link(p) ==
    /\ step[p] = "link"
    /\ image' = [image EXCEPT ![p].relocated = Again(@)]
    /\ mapping' = IF image[p].from = "file" THEN mapping
                  ELSE [mapping EXCEPT ![p].relocated = Again(@)]
    /\ GoOn(p, "attach")
    /\ UNCHANGED <<disk, busy, temp, seen, resolved, ready, spoiled, kind, pc>>

Attach(p) ==
    /\ step[p] = "attach"
    /\ image' = [image EXCEPT ![p].attached = TRUE]
    /\ GoOn(p, "resolve")
    /\ UNCHANGED <<disk, busy, temp, seen, mapping, resolved, ready, spoiled, kind, pc>>

\* (variant) The image pointer of a failed load is kept.
LoadFailsKeepingImage(p) ==
    /\ step[p] \in {"raw", "link", "attach"}
    /\ UNCHANGED <<mapping, image>>
    /\ EndLoad(p)
    /\ UNCHANGED <<disk, resolved, ready, spoiled, kind>>

\* Mapping, linking or attaching failed; pe_discard_image.  Init throws.
LoadFails(p) ==
    /\ step[p] \in {"raw", "link", "attach"}
    /\ IF image[p] # NoImage /\ image[p].from = "sidecar" THEN DlClose(p) ELSE UNCHANGED mapping
    /\ image' = [image EXCEPT ![p] = NoImage]
    /\ EndLoad(p)
    /\ UNCHANGED <<disk, resolved, ready, spoiled, kind>>

\* What get_export finds of the wrapper's functions.
Found(p) == IF image[p].of \in Lacking THEN "some" ELSE "all"

\* KytheraV2, Voxels and Slug: the first missing export throws.
ResolveOrThrow(p) ==
    /\ step[p] = "resolve" /\ kind[p] \in {"once", "slug"}
    /\ resolved' = [resolved EXCEPT ![p] = Found(p)]
    /\ IF Found(p) = "all"
       THEN ready' = [ready EXCEPT ![p] = TRUE] /\ UNCHANGED spoiled
       ELSE spoiled' = [spoiled EXCEPT ![p] = TRUE] /\ UNCHANGED ready
    /\ EndLoad(p)
    /\ UNCHANGED <<disk, mapping, image, kind>>

\* Physics, Havok, RecastDetour and VRageNative take what there is.
ResolveWhatIsThere(p) ==
    /\ step[p] = "resolve" /\ kind[p] \in {"physics", "lazy"}
    /\ resolved' = [resolved EXCEPT ![p] = Found(p)]
    /\ ready' = [ready EXCEPT ![p] = TRUE]
    /\ EndLoad(p)
    /\ UNCHANGED <<disk, mapping, image, spoiled, kind>>

---------------------------------------------------------------------------
(* Forwarded calls, once some Init has returned.                           *)

\* Physics and the lazy wrappers throw for a pointer that is null, the
\* others jump to it.
CallForwarded(t) ==
    LET p == In[t] IN
    /\ pc[t] = "idle" /\ ready[p] /\ image[p] # NoImage
    /\ \/ pc' = [pc EXCEPT ![t] = "inside"]
       \/ /\ resolved[p] = "some" /\ kind[p] \in {"once", "slug"}
          /\ pc' = [pc EXCEPT ![t] = "null"]
    /\ UNCHANGED <<disk, load, process, kind>>

CallReturns(t) ==
    /\ pc[t] = "inside"
    /\ pc' = [pc EXCEPT ![t] = "idle"]
    /\ UNCHANGED <<disk, load, process, kind>>

---------------------------------------------------------------------------
(* The surroundings.                                                       *)

\* The processes of P are gone and start anew.
Restart(P) ==
    /\ pc' = [t \in Threads |-> IF In[t] \in P THEN "idle" ELSE pc[t]]
    /\ busy' = [p \in Processes |-> IF p \in P THEN Nobody ELSE busy[p]]
    /\ step' = [p \in Processes |-> IF p \in P THEN "none" ELSE step[p]]
    /\ temp' = [p \in Processes |-> IF p \in P THEN NoFile ELSE temp[p]]
    /\ mapping' = [p \in Processes |-> IF p \in P THEN Unmapped ELSE mapping[p]]
    /\ image' = [p \in Processes |-> IF p \in P THEN NoImage ELSE image[p]]
    /\ resolved' = [p \in Processes |-> IF p \in P THEN "none" ELSE resolved[p]]
    /\ ready' = [p \in Processes |-> ready[p] /\ p \notin P]
    /\ spoiled' = [p \in Processes |-> spoiled[p] /\ p \notin P]
    /\ seen' = [p \in Processes |-> IF p \in P THEN {} ELSE seen[p]]
    /\ UNCHANGED kind

Killed(p) == Restart({p}) /\ UNCHANGED disk

\* The last rename may be undone, and a file that was not synced is torn.
PowerLoss ==
    /\ Restart(Processes)
    /\ ondisk' = IF ondisk = NoFile THEN NoFile ELSE [ondisk EXCEPT !.whole = @ /\ ondisk.synced]
    /\ cache' = ondisk'
    /\ UNCHANGED dll

\* The file system writes the directory back.
WriteBack ==
    /\ ondisk # cache
    /\ ondisk' = cache
    /\ UNCHANGED <<dll, cache, load, process, kind, pc>>

UpdateDll ==
    /\ dll < MaxVersion
    /\ dll' = dll + 1
    /\ seen' = [p \in Processes |-> IF busy[p] = Nobody THEN seen[p] ELSE seen[p] \cup {dll'}]
    /\ UNCHANGED <<cache, ondisk, busy, step, temp, process, kind, pc>>

---------------------------------------------------------------------------

Sidecar(p) ==
    \/ OpenSidecar(p)
    \/ SidecarMatches(p)
    \/ GenerationFails(p)
    \/ MakeTemporary(p)
    \/ ReadDll(p)
    \/ WriteOutput(p)
    \/ Sync(p)
    \/ Publish(p)

Loads(p) ==
    \/ Sidecar(p)
    \/ LoadRaw(p)
    \/ Link(p)
    \/ Attach(p)
    \/ LoadFails(p)
    \/ ResolveOrThrow(p)
    \/ ResolveWhatIsThere(p)

Next ==
    \/ \E t \in Threads :
        \/ CallInit(t)
        \/ InitReturns(t)
        \/ InitEnters(t)
        \/ CallForwarded(t)
        \/ CallReturns(t)
    \/ \E p \in Processes : Loads(p) \/ Killed(p)
    \/ PowerLoss
    \/ WriteBack
    \/ UpdateDll

Spec == Init /\ [][Next]_vars

\* A load that has begun goes on.
FairSpec == Spec /\ \A p \in Processes : WF_vars(Loads(p))

---------------------------------------------------------------------------
(* Correctness.                                                            *)

\* Type invariant: files are of versions the DLL has had, images whole records.
TypeOK ==
    /\ dll \in 1..MaxVersion
    /\ {cache, ondisk} \subseteq Files \cup {NoFile}
    /\ kind \in [Processes -> Kinds]
    /\ pc \in [Threads -> {"idle", "init", "inside", "null"}]
    /\ busy \in [Processes -> Threads \cup {Nobody}]
    /\ step \in [Processes -> {"none", "open", "match", "make", "read", "write", "sync", "publish",
                               "reopen", "rematch", "raw", "link", "attach", "resolve"}]
    /\ temp \in [Processes -> Files \cup {NoFile}]
    /\ mapping \in [Processes -> [file : Files \cup {NoFile}, refs : Nat, relocated : Relocations]]
    /\ image \in [Processes -> Images \cup {NoImage}]
    /\ resolved \in [Processes -> {"none", "some", "all"}]
    /\ ready \in [Processes -> BOOLEAN] /\ spoiled \in [Processes -> BOOLEAN]
    /\ seen \in [Processes -> SUBSET (1..MaxVersion)]

\* An image is a whole copy of a version that was at the DLL's path during
\* its load, whoever else generates the sidecar, whoever is killed at it and
\* whatever a power loss leaves of it; so is every file under its name.
WholeImages ==
    /\ \A p \in Processes : image[p] # NoImage =>
        /\ image[p].of \in seen[p]
        /\ image[p].from = "sidecar" =>
            mapping[p].file.whole /\ mapping[p].file.of = image[p].of
    /\ \A f \in {cache, ondisk} \ {NoFile} : f.whole

\* A thread is inside the DLL only while its image is attached and has been
\* relocated once, and its DllMain is not run in an image relocated twice.
\* The exceptions are what an Init that threw for a missing export leaves:
\* Slug then jumps to null, and call_once loads the mapped sidecar again.
CallsLand ==
    /\ \A t \in Threads :
        LET p == In[t] IN
        /\ pc[t] = "inside" => image[p] # NoImage /\ image[p].attached /\ image[p].relocated = "once"
        /\ pc[t] = "null" => spoiled[p] /\ kind[p] = "slug"
    /\ \A p \in Processes : image[p] # NoImage /\ image[p].relocated = "more" =>
            spoiled[p] /\ kind[p] = "once"

\* The thread that loads leaves Init's guard, with an image or without.
InitEnds == \A p \in Processes : (busy[p] # Nobody) ~> (busy[p] = Nobody)
=============================================================================

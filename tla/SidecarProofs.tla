---------------------------- MODULE SidecarProofs ---------------------------
(***************************************************************************)
(* Proofs about the sidecar.  Startup: for any processes, threads and      *)
(* versions of the DLL, images are whole copies of it and forwarded calls  *)
(* land in images that are ready.  Unwind: for any DLL, every function has *)
(* its description, and it unwinds the function at every instruction.      *)
(***************************************************************************)
EXTENDS Startup, Unwind, SequenceTheorems, WellFoundedInduction, TLAPS

Matching == {"match", "rematch"}
Unloaded == {"open", "match", "make", "read", "write", "sync", "publish", "reopen", "rematch", "raw"}

FromSidecar(p) == image[p] # NoImage /\ image[p].from = "sidecar"

\* A load has its thread, and its file while it writes one.
OwnerInv == \A p \in Processes :
    /\ (busy[p] = Nobody) <=> (step[p] = "none")
    /\ busy[p] # Nobody => In[busy[p]] = p /\ pc[busy[p]] = "init"
    /\ (temp[p] # NoFile) <=> step[p] \in {"read", "write", "sync", "publish"}
    /\ (mapping[p].refs > 0) <=> (mapping[p].file # NoFile)

\* What a load has done by now, and what it leaves when it is over.
LoadInv == \A p \in Processes :
    /\ busy[p] # Nobody => dll \in seen[p]
    /\ step[p] \in Unloaded => image[p] = NoImage
    /\ step[p] \in {"link", "attach", "resolve"} => image[p] # NoImage
    /\ step[p] = "attach" => image[p].relocated # "not"
    /\ step[p] \in {"none", "resolve"} /\ image[p] # NoImage =>
            image[p].attached /\ image[p].relocated # "not"
    /\ kind[p] = "tool" =>
            /\ step[p] \in {"none", "make", "read", "write", "sync", "publish"}
            /\ image[p] = NoImage /\ ~spoiled[p]

\* Files are complete before their name is, and stay so through a power loss.
FileInv ==
    /\ cache # NoFile => cache.whole /\ cache.synced
    /\ ondisk # NoFile => ondisk.whole /\ ondisk.synced
    /\ \A p \in Processes :
        /\ step[p] \in {"sync", "publish"} => temp[p].whole
        /\ step[p] = "publish" => temp[p].synced
        /\ mapping[p].file # NoFile => mapping[p].file.whole

\* What is mapped is in use by the load or the image, but for what call_once
\* left of an Init that missed an export: of the same file, it will again.
UsedBy(p) == IF step[p] \in Matching \/ FromSidecar(p) THEN 1 ELSE 0

Spoilt(p, v) == kind[p] = "once" /\ spoiled[p] /\ v \in Lacking

MappingInv == \A p \in Processes :
    /\ mapping[p].refs >= UsedBy(p)
    /\ mapping[p].refs > UsedBy(p) =>
            Spoilt(p, mapping[p].file.of) /\ mapping[p].relocated # "not"
    /\ step[p] \in Matching /\ mapping[p].relocated # "not" => Spoilt(p, mapping[p].file.of)
    /\ FromSidecar(p) => mapping[p].relocated = image[p].relocated
                         /\ mapping[p].file.of = image[p].of

ImageInv == \A p \in Processes : image[p] # NoImage =>
    /\ image[p].of \in seen[p]
    /\ image[p].relocated = "more" => Spoilt(p, image[p].of)
    /\ step[p] = "link" /\ image[p].relocated # "not" => Spoilt(p, image[p].of)
    /\ kind[p] = "once" /\ step[p] = "none" /\ ~ready[p] => Spoilt(p, image[p].of)

\* What an Init that returned stands for.
ReadyInv == \A p \in Processes :
    /\ ready[p] =>
            /\ kind[p] # "tool" /\ step[p] = "none" /\ image[p] # NoImage
            /\ image[p].relocated = "once"
            /\ kind[p] = "once" => resolved[p] = "all"
    /\ kind[p] \in {"once", "slug"} /\ resolved[p] = "some" => spoiled[p]

ThreadInv == \A t \in Threads :
    /\ pc[t] \in {"inside", "null"} => ready[In[t]]
    /\ pc[t] = "null" => spoiled[In[t]] /\ kind[In[t]] = "slug"

\* The inductive invariant.
IInv == TypeOK /\ OwnerInv /\ LoadInv /\ FileInv /\ MappingInv /\ ImageInv /\ ReadyInv /\ ThreadInv

\* A thread that calls Init has no load yet.
LEMMA CallInitPreserves ==
    ASSUME IInv, NEW t \in Threads, CallInit(t)
    PROVE  IInv'
<1> USE StartupAssumption, NoneAssumption DEF IInv, CallInit, disk, load, process, GoOn
<1>1. TypeOK'
  BY DEF TypeOK
<1>2. OwnerInv'
  BY DEF TypeOK, OwnerInv, LoadInv
<1>3. LoadInv'
  BY DEF TypeOK, OwnerInv, LoadInv, Unloaded
<1>4. FileInv'
  BY DEF TypeOK, OwnerInv, FileInv
<1>5. MappingInv'
  BY DEF TypeOK, OwnerInv, LoadInv, MappingInv, ImageInv, UsedBy, Matching, Unloaded,
     FromSidecar, Spoilt
<1>6. ImageInv'
  BY DEF TypeOK, OwnerInv, LoadInv, MappingInv, ImageInv, Spoilt, Unloaded, FromSidecar, ReadyInv
<1>7. ReadyInv'
  BY DEF TypeOK, OwnerInv, ReadyInv, LoadInv, ImageInv, Spoilt
<1>8. ThreadInv'
  BY DEF TypeOK, OwnerInv, ThreadInv, ReadyInv
<1> QED
  BY <1>1, <1>2, <1>3, <1>4, <1>5, <1>6, <1>7, <1>8

\* An Init with nothing to do finds an image that is attached.
LEMMA InitReturnsPreserves ==
    ASSUME IInv, NEW t \in Threads, InitReturns(t)
    PROVE  IInv'
<1> USE StartupAssumption, NoneAssumption DEF IInv, InitReturns, disk, load, process, GoOn
<1>1. TypeOK'
  BY DEF TypeOK
<1>2. OwnerInv'
  BY DEF TypeOK, OwnerInv, LoadInv
<1>3. LoadInv'
  BY DEF TypeOK, OwnerInv, LoadInv, Unloaded
<1>4. FileInv'
  BY DEF TypeOK, OwnerInv, FileInv
<1>5. MappingInv'
  BY DEF TypeOK, OwnerInv, LoadInv, MappingInv, ImageInv, UsedBy, Matching, Unloaded,
     FromSidecar, Spoilt
<1>6. ImageInv'
  BY DEF TypeOK, OwnerInv, LoadInv, MappingInv, ImageInv, Spoilt, Unloaded, FromSidecar,
     ReadyInv, Initialised
<1>7. ReadyInv'
  BY DEF TypeOK, OwnerInv, ReadyInv, LoadInv, ImageInv, Spoilt, Initialised, Images, Relocations
<1>8. ThreadInv'
  BY DEF TypeOK, OwnerInv, ThreadInv, ReadyInv, Initialised
<1> QED
  BY <1>1, <1>2, <1>3, <1>4, <1>5, <1>6, <1>7, <1>8

\* A load begins without an image; what the last one mapped was spoilt.
LEMMA InitEntersPreserves ==
    ASSUME IInv, NEW t \in Threads, InitEnters(t)
    PROVE  IInv'
<1> USE StartupAssumption, NoneAssumption DEF IInv, InitEnters, disk, load, process, GoOn
<1>1. TypeOK'
  BY DEF TypeOK
<1>2. OwnerInv'
  BY DEF TypeOK, OwnerInv, LoadInv
<1>3. LoadInv'
  BY DEF TypeOK, OwnerInv, LoadInv, Unloaded, Initialised
<1>4. FileInv'
  BY DEF TypeOK, OwnerInv, FileInv
<1>5. MappingInv'
  BY DEF TypeOK, OwnerInv, LoadInv, MappingInv, ImageInv, UsedBy, Matching, Unloaded,
     FromSidecar, Spoilt, Initialised, ReadyInv
<1>6. ImageInv'
  BY DEF TypeOK, OwnerInv, LoadInv, MappingInv, ImageInv, Spoilt, Unloaded, FromSidecar, ReadyInv
<1>7. ReadyInv'
  BY DEF TypeOK, OwnerInv, ReadyInv, LoadInv, ImageInv, Spoilt, Initialised
<1>8. ThreadInv'
  BY DEF TypeOK, OwnerInv, ThreadInv, ReadyInv, Initialised
<1> QED
  BY <1>1, <1>2, <1>3, <1>4, <1>5, <1>6, <1>7, <1>8

\* What is mapped, as a set of records.
Mappings == [file : Files \cup {NoFile}, refs : Nat, relocated : Relocations]

\* dlopen adds a reference to what is mapped, or maps the file anew.
LEMMA OpenSidecarPreserves ==
    ASSUME IInv, NEW p \in Processes, OpenSidecar(p)
    PROVE  IInv'
<1> USE StartupAssumption, NoneAssumption DEF disk, load, process, GoOn
<1>a. /\ step[p] \in {"open", "reopen"}
      /\ UNCHANGED <<disk, busy, temp, seen, image, resolved, ready, spoiled, kind, pc>>
  BY DEF OpenSidecar
<1>b. /\ mapping' \in [Processes -> Mappings]
      /\ \A q \in Processes \ {p} : mapping'[q] = mapping[q] /\ step'[q] = step[q]
      /\ step' = [step EXCEPT ![p] = step'[p]]
      /\ \/ /\ mapping'[p].refs = mapping[p].refs + 1
            /\ mapping'[p].file = mapping[p].file /\ mapping'[p].relocated = mapping[p].relocated
            /\ mapping[p].refs > 0
            /\ step'[p] \in Matching
         \/ /\ mapping'[p] = [file |-> cache, refs |-> 1, relocated |-> "not"]
            /\ mapping[p].refs = 0 /\ cache # NoFile
            /\ step'[p] \in Matching
         \/ mapping' = mapping /\ step'[p] \in {"make", "raw"}
  <2>0. mapping \in [Processes -> Mappings] /\ mapping[p] \in Mappings
    BY DEF IInv, TypeOK, Mappings
  <2>1. CASE mapping[p].refs > 0 /\ mapping' = [mapping EXCEPT ![p].refs = @ + 1]
             /\ GoOn(p, IF step[p] = "open" THEN "match" ELSE "rematch")
    <3>1. mapping'[p] = [mapping[p] EXCEPT !.refs = @ + 1]
      BY <2>0, <2>1
    <3>2. /\ mapping'[p] \in Mappings /\ mapping'[p].refs = mapping[p].refs + 1
          /\ mapping'[p].file = mapping[p].file /\ mapping'[p].relocated = mapping[p].relocated
      BY <2>0, <3>1 DEF Mappings
    <3> QED
      BY <2>0, <2>1, <3>2 DEF IInv, TypeOK, Matching
  <2>2. CASE /\ mapping[p].refs = 0 /\ cache # NoFile
             /\ mapping' = [mapping EXCEPT ![p] = [file |-> cache, refs |-> 1, relocated |-> "not"]]
             /\ GoOn(p, IF step[p] = "open" THEN "match" ELSE "rematch")
    BY <2>2 DEF IInv, TypeOK, Mappings, Matching, Relocations
  <2>3. CASE Fallback(p) /\ UNCHANGED mapping
    BY <2>3 DEF IInv, TypeOK, Mappings, Fallback
  <2> QED
    BY <2>1, <2>2, <2>3 DEF OpenSidecar
<1>1. TypeOK'
  <2>1. step' \in [Processes -> {"none", "open", "match", "make", "read", "write", "sync", "publish",
                               "reopen", "rematch", "raw", "link", "attach", "resolve"}]
    BY <1>a, <1>b DEF IInv, TypeOK, Matching
  <2> QED
    BY <1>a, <1>b, <2>1 DEF IInv, TypeOK, Mappings
<1>2. OwnerInv'
  BY <1>a, <1>b DEF IInv, TypeOK, OwnerInv, LoadInv, Matching
<1>3. LoadInv'
  BY <1>a, <1>b DEF IInv, TypeOK, OwnerInv, LoadInv, Unloaded, Matching
<1>4. FileInv'
  BY <1>a, <1>b DEF IInv, TypeOK, OwnerInv, FileInv, Matching
<1>5. MappingInv'
  BY <1>a, <1>b DEF IInv, TypeOK, OwnerInv, LoadInv, MappingInv, ImageInv, UsedBy, Matching,
     Unloaded, FromSidecar, Spoilt
<1>6. ImageInv'
  BY <1>a, <1>b DEF IInv, TypeOK, OwnerInv, LoadInv, MappingInv, ImageInv, Spoilt, Unloaded,
     FromSidecar, ReadyInv
<1>7. ReadyInv'
  BY <1>a, <1>b DEF IInv, TypeOK, OwnerInv, ReadyInv, LoadInv, ImageInv, Spoilt
<1>8. ThreadInv'
  BY <1>a, <1>b DEF IInv, TypeOK, OwnerInv, ThreadInv, ReadyInv
<1> QED
  BY <1>1, <1>2, <1>3, <1>4, <1>5, <1>6, <1>7, <1>8 DEF IInv

\* A generation that failed leaves no file, and no load of the tool.
LEMMA GenerationFailsPreserves ==
    ASSUME IInv, NEW p \in Processes, GenerationFails(p)
    PROVE  IInv'
<1> USE StartupAssumption, NoneAssumption DEF IInv, GenerationFails, EndLoad, disk, load, process, GoOn
<1>1. TypeOK'
  BY DEF TypeOK
<1>2. OwnerInv'
  BY DEF TypeOK, OwnerInv, LoadInv
<1>3. LoadInv'
  BY DEF TypeOK, OwnerInv, LoadInv, Unloaded
<1>4. FileInv'
  BY DEF TypeOK, OwnerInv, FileInv
<1>5. MappingInv'
  BY DEF TypeOK, OwnerInv, LoadInv, MappingInv, ImageInv, UsedBy, Matching, Unloaded,
     FromSidecar, Spoilt
<1>6. ImageInv'
  BY DEF TypeOK, OwnerInv, LoadInv, MappingInv, ImageInv, Spoilt, Unloaded, FromSidecar, ReadyInv
<1>7. ReadyInv'
  BY DEF TypeOK, OwnerInv, ReadyInv, LoadInv, ImageInv, Spoilt
<1>8. ThreadInv'
  BY DEF TypeOK, OwnerInv, ThreadInv, ReadyInv
<1> QED
  BY <1>1, <1>2, <1>3, <1>4, <1>5, <1>6, <1>7, <1>8

\* The temporary file is empty.
LEMMA MakeTemporaryPreserves ==
    ASSUME IInv, NEW p \in Processes, MakeTemporary(p)
    PROVE  IInv'
<1> USE StartupAssumption, NoneAssumption DEF IInv, MakeTemporary, disk, load, process, GoOn
<1>1. TypeOK'
  BY DEF TypeOK, Empty, Files
<1>2. OwnerInv'
  <2>1. Empty \in Files
    BY DEF Empty, Files
  <2> QED
    BY <2>1 DEF TypeOK, OwnerInv
<1>3. LoadInv'
  BY DEF TypeOK, OwnerInv, LoadInv, Unloaded
<1>4. FileInv'
  BY DEF TypeOK, OwnerInv, FileInv, Empty
<1>5. MappingInv'
  BY DEF TypeOK, OwnerInv, LoadInv, MappingInv, ImageInv, UsedBy, Matching, Unloaded,
     FromSidecar, Spoilt
<1>6. ImageInv'
  BY DEF TypeOK, OwnerInv, LoadInv, MappingInv, ImageInv, Spoilt, Unloaded, FromSidecar, ReadyInv
<1>7. ReadyInv'
  BY DEF TypeOK, OwnerInv, ReadyInv, LoadInv, ImageInv, Spoilt
<1>8. ThreadInv'
  BY DEF TypeOK, OwnerInv, ThreadInv, ReadyInv
<1> QED
  BY <1>1, <1>2, <1>3, <1>4, <1>5, <1>6, <1>7, <1>8

\* The DLL is read into the temporary file.
LEMMA ReadDllPreserves ==
    ASSUME IInv, NEW p \in Processes, ReadDll(p)
    PROVE  IInv'
<1> USE StartupAssumption, NoneAssumption DEF disk, load, process, GoOn
<1>a. /\ step[p] = "read" /\ step' = [step EXCEPT ![p] = "write"]
      /\ UNCHANGED <<disk, busy, seen, process, kind, pc>>
  BY DEF ReadDll
<1>b. /\ temp' \in [Processes -> Files \cup {NoFile}] /\ temp'[p] \in Files
      /\ \A q \in Processes \ {p} : temp'[q] = temp[q]
      /\ temp'[p].of = dll /\ temp'[p].whole = temp[p].whole /\ temp'[p].synced = temp[p].synced
  <2>1. temp[p] \in Files /\ temp \in [Processes -> Files \cup {NoFile}] /\ dll \in 0..MaxVersion
    BY <1>a DEF IInv, TypeOK, OwnerInv
  <2>2. temp'[p] = [temp[p] EXCEPT !.of = dll] /\ \A q \in Processes \ {p} : temp'[q] = temp[q]
    BY <2>1 DEF ReadDll
  <2>3. /\ temp'[p] \in Files /\ temp'[p].of = dll
        /\ temp'[p].whole = temp[p].whole /\ temp'[p].synced = temp[p].synced
    BY <2>1, <2>2 DEF Files
  <2> QED
    BY <2>1, <2>2, <2>3 DEF ReadDll
<1>1. TypeOK'
  BY <1>a, <1>b DEF IInv, TypeOK
<1>2. OwnerInv'
  BY <1>a, <1>b DEF IInv, TypeOK, OwnerInv, LoadInv
<1>3. LoadInv'
  BY <1>a, <1>b DEF IInv, TypeOK, OwnerInv, LoadInv, Unloaded
<1>4. FileInv'
  BY <1>a, <1>b DEF IInv, TypeOK, OwnerInv, FileInv
<1>5. MappingInv'
  BY <1>a, <1>b DEF IInv, TypeOK, OwnerInv, LoadInv, MappingInv, ImageInv, UsedBy, Matching,
     Unloaded, FromSidecar, Spoilt
<1>6. ImageInv'
  BY <1>a, <1>b DEF IInv, TypeOK, OwnerInv, LoadInv, MappingInv, ImageInv, Spoilt, Unloaded,
     FromSidecar, ReadyInv
<1>7. ReadyInv'
  BY <1>a, <1>b DEF IInv, TypeOK, OwnerInv, ReadyInv, LoadInv, ImageInv, Spoilt
<1>8. ThreadInv'
  BY <1>a, <1>b DEF IInv, TypeOK, OwnerInv, ThreadInv, ReadyInv
<1> QED
  BY <1>1, <1>2, <1>3, <1>4, <1>5, <1>6, <1>7, <1>8 DEF IInv

\* The temporary file is complete.
LEMMA WriteOutputPreserves ==
    ASSUME IInv, NEW p \in Processes, WriteOutput(p)
    PROVE  IInv'
<1> USE StartupAssumption, NoneAssumption DEF disk, load, process, GoOn
<1>a. /\ step[p] = "write" /\ step' = [step EXCEPT ![p] = "sync"]
      /\ UNCHANGED <<disk, busy, seen, process, kind, pc>>
  BY DEF WriteOutput
<1>b. /\ temp' \in [Processes -> Files \cup {NoFile}] /\ temp'[p] \in Files
      /\ \A q \in Processes \ {p} : temp'[q] = temp[q]
      /\ temp'[p].whole = TRUE /\ temp'[p].of = temp[p].of /\ temp'[p].synced = temp[p].synced
  <2>1. temp[p] \in Files /\ temp \in [Processes -> Files \cup {NoFile}] /\ TRUE \in BOOLEAN
    BY <1>a DEF IInv, TypeOK, OwnerInv
  <2>2. temp'[p] = [temp[p] EXCEPT !.whole = TRUE] /\ \A q \in Processes \ {p} : temp'[q] = temp[q]
    BY <2>1 DEF WriteOutput
  <2>3. /\ temp'[p] \in Files /\ temp'[p].whole = TRUE
        /\ temp'[p].of = temp[p].of /\ temp'[p].synced = temp[p].synced
    BY <2>1, <2>2 DEF Files
  <2> QED
    BY <2>1, <2>2, <2>3 DEF WriteOutput
<1>1. TypeOK'
  BY <1>a, <1>b DEF IInv, TypeOK
<1>2. OwnerInv'
  BY <1>a, <1>b DEF IInv, TypeOK, OwnerInv, LoadInv
<1>3. LoadInv'
  BY <1>a, <1>b DEF IInv, TypeOK, OwnerInv, LoadInv, Unloaded
<1>4. FileInv'
  BY <1>a, <1>b DEF IInv, TypeOK, OwnerInv, FileInv
<1>5. MappingInv'
  BY <1>a, <1>b DEF IInv, TypeOK, OwnerInv, LoadInv, MappingInv, ImageInv, UsedBy, Matching,
     Unloaded, FromSidecar, Spoilt
<1>6. ImageInv'
  BY <1>a, <1>b DEF IInv, TypeOK, OwnerInv, LoadInv, MappingInv, ImageInv, Spoilt, Unloaded,
     FromSidecar, ReadyInv
<1>7. ReadyInv'
  BY <1>a, <1>b DEF IInv, TypeOK, OwnerInv, ReadyInv, LoadInv, ImageInv, Spoilt
<1>8. ThreadInv'
  BY <1>a, <1>b DEF IInv, TypeOK, OwnerInv, ThreadInv, ReadyInv
<1> QED
  BY <1>1, <1>2, <1>3, <1>4, <1>5, <1>6, <1>7, <1>8 DEF IInv

\* The temporary file is on the disk.
LEMMA SyncPreserves ==
    ASSUME IInv, NEW p \in Processes, Sync(p)
    PROVE  IInv'
<1> USE StartupAssumption, NoneAssumption DEF disk, load, process, GoOn
<1>a. /\ step[p] = "sync" /\ step' = [step EXCEPT ![p] = "publish"]
      /\ UNCHANGED <<disk, busy, seen, process, kind, pc>>
  BY DEF Sync
<1>b. /\ temp' \in [Processes -> Files \cup {NoFile}] /\ temp'[p] \in Files
      /\ \A q \in Processes \ {p} : temp'[q] = temp[q]
      /\ temp'[p].synced = TRUE /\ temp'[p].of = temp[p].of /\ temp'[p].whole = temp[p].whole
  <2>1. temp[p] \in Files /\ temp \in [Processes -> Files \cup {NoFile}] /\ TRUE \in BOOLEAN
    BY <1>a DEF IInv, TypeOK, OwnerInv
  <2>2. temp'[p] = [temp[p] EXCEPT !.synced = TRUE] /\ \A q \in Processes \ {p} : temp'[q] = temp[q]
    BY <2>1 DEF Sync
  <2>3. /\ temp'[p] \in Files /\ temp'[p].synced = TRUE
        /\ temp'[p].of = temp[p].of /\ temp'[p].whole = temp[p].whole
    BY <2>1, <2>2 DEF Files
  <2> QED
    BY <2>1, <2>2, <2>3 DEF Sync
<1>1. TypeOK'
  BY <1>a, <1>b DEF IInv, TypeOK
<1>2. OwnerInv'
  BY <1>a, <1>b DEF IInv, TypeOK, OwnerInv, LoadInv
<1>3. LoadInv'
  BY <1>a, <1>b DEF IInv, TypeOK, OwnerInv, LoadInv, Unloaded
<1>4. FileInv'
  BY <1>a, <1>b DEF IInv, TypeOK, OwnerInv, FileInv
<1>5. MappingInv'
  BY <1>a, <1>b DEF IInv, TypeOK, OwnerInv, LoadInv, MappingInv, ImageInv, UsedBy, Matching,
     Unloaded, FromSidecar, Spoilt
<1>6. ImageInv'
  BY <1>a, <1>b DEF IInv, TypeOK, OwnerInv, LoadInv, MappingInv, ImageInv, Spoilt, Unloaded,
     FromSidecar, ReadyInv
<1>7. ReadyInv'
  BY <1>a, <1>b DEF IInv, TypeOK, OwnerInv, ReadyInv, LoadInv, ImageInv, Spoilt
<1>8. ThreadInv'
  BY <1>a, <1>b DEF IInv, TypeOK, OwnerInv, ThreadInv, ReadyInv
<1> QED
  BY <1>1, <1>2, <1>3, <1>4, <1>5, <1>6, <1>7, <1>8 DEF IInv

\* Only a complete file gets its name.
LEMMA PublishPreserves ==
    ASSUME IInv, NEW p \in Processes, Publish(p)
    PROVE  IInv'
<1> USE StartupAssumption, NoneAssumption DEF IInv, Publish, EndLoad, disk, load, process, GoOn
<1>1. TypeOK'
  <2>1. /\ {cache', ondisk'} \subseteq Files \cup {NoFile} /\ dll' \in 1..MaxVersion
        /\ UNCHANGED <<kind, mapping, image, resolved, ready, spoiled>>
    BY DEF TypeOK
  <2>2. step' \in [Processes -> {"none", "open", "match", "make", "read", "write", "sync", "publish",
                               "reopen", "rematch", "raw", "link", "attach", "resolve"}]
    <3>1. step' = [step EXCEPT ![p] = "none"] \/ step' = [step EXCEPT ![p] = "reopen"]
      OBVIOUS
    <3>2. step \in [Processes -> {"none", "open", "match", "make", "read", "write", "sync",
                      "publish", "reopen", "rematch", "raw", "link", "attach", "resolve"}]
      BY DEF TypeOK
    <3> HIDE DEF IInv, Publish, EndLoad, GoOn
    <3> QED
      BY <3>1, <3>2
  <2>3. temp' \in [Processes -> Files \cup {NoFile}] /\ busy' \in [Processes -> Threads \cup {Nobody}]
    BY DEF TypeOK
  <2>4. /\ pc' \in [Threads -> {"idle", "init", "inside", "null"}]
        /\ seen' \in [Processes -> SUBSET (1..MaxVersion)]
    BY DEF TypeOK
  <2> HIDE DEF Publish, EndLoad, GoOn
  <2> QED
    BY <2>1, <2>2, <2>3, <2>4 DEF TypeOK
<1>2. OwnerInv'
  BY DEF TypeOK, OwnerInv, LoadInv
<1>3. LoadInv'
  BY DEF TypeOK, OwnerInv, LoadInv, Unloaded
<1>4. FileInv'
  <2>1. /\ cache' = temp[p] /\ temp[p].whole /\ temp[p].synced /\ UNCHANGED <<mapping, ondisk>>
        /\ \A q \in Processes \ {p} : temp'[q] = temp[q] /\ step'[q] = step[q]
        /\ step'[p] \notin {"sync", "publish"}
    BY DEF TypeOK, FileInv
  <2> QED
    BY <2>1 DEF FileInv
<1>5. MappingInv'
  BY DEF TypeOK, OwnerInv, LoadInv, MappingInv, ImageInv, UsedBy, Matching, Unloaded,
     FromSidecar, Spoilt
<1>6. ImageInv'
  BY DEF TypeOK, OwnerInv, LoadInv, MappingInv, ImageInv, Spoilt, Unloaded, FromSidecar, ReadyInv
<1>7. ReadyInv'
  BY DEF TypeOK, OwnerInv, ReadyInv, LoadInv, ImageInv, Spoilt
<1>8. ThreadInv'
  BY DEF TypeOK, OwnerInv, ThreadInv, ReadyInv
<1> QED
  BY <1>1, <1>2, <1>3, <1>4, <1>5, <1>6, <1>7, <1>8

\* The DLL itself is mapped.
LEMMA LoadRawPreserves ==
    ASSUME IInv, NEW p \in Processes, LoadRaw(p)
    PROVE  IInv'
<1> USE StartupAssumption, NoneAssumption DEF disk, load, process, GoOn
<1>a. /\ step[p] = "raw" /\ step' = [step EXCEPT ![p] = "link"]
      /\ UNCHANGED <<disk, busy, temp, seen, mapping, resolved, ready, spoiled, kind, pc>>
  BY DEF LoadRaw
<1>b. /\ image' \in [Processes -> Images \cup {NoImage}] /\ image'[p] \in Images
      /\ \A q \in Processes \ {p} : image'[q] = image[q]
      /\ image'[p].from = "file" /\ image'[p].of = dll /\ image'[p].relocated = "not"
  <2>1. [from |-> "file", of |-> dll, relocated |-> "not", attached |-> FALSE] \in Images
    BY DEF IInv, TypeOK, Images, Relocations
  <2> QED
    BY <2>1 DEF LoadRaw, IInv, TypeOK
<1>1. TypeOK'
  BY <1>a, <1>b DEF IInv, TypeOK
<1>2. OwnerInv'
  BY <1>a, <1>b DEF IInv, TypeOK, OwnerInv, LoadInv
<1>3. LoadInv'
  BY <1>a, <1>b DEF IInv, TypeOK, OwnerInv, LoadInv, Unloaded
<1>4. FileInv'
  BY <1>a, <1>b DEF IInv, TypeOK, OwnerInv, FileInv
<1>5. MappingInv'
  BY <1>a, <1>b DEF IInv, TypeOK, OwnerInv, LoadInv, MappingInv, ImageInv, UsedBy, Matching,
     Unloaded, FromSidecar, Spoilt
<1>6. ImageInv'
  BY <1>a, <1>b DEF IInv, TypeOK, OwnerInv, LoadInv, MappingInv, ImageInv, Spoilt, Unloaded,
     FromSidecar, ReadyInv
<1>7. ReadyInv'
  BY <1>a, <1>b DEF IInv, TypeOK, OwnerInv, ReadyInv, LoadInv, ImageInv, Spoilt
<1>8. ThreadInv'
  BY <1>a, <1>b DEF IInv, TypeOK, OwnerInv, ThreadInv, ReadyInv
<1> QED
  BY <1>1, <1>2, <1>3, <1>4, <1>5, <1>6, <1>7, <1>8 DEF IInv

\* Some Init threw, or all the functions were found.
LEMMA ResolveOrThrowPreserves ==
    ASSUME IInv, NEW p \in Processes, ResolveOrThrow(p)
    PROVE  IInv'
<1> USE StartupAssumption, NoneAssumption DEF IInv, ResolveOrThrow, EndLoad, disk, load, process, GoOn
<1>1. TypeOK'
  BY DEF TypeOK, Found
<1>2. OwnerInv'
  BY DEF TypeOK, OwnerInv, LoadInv
<1>3. LoadInv'
  BY DEF TypeOK, OwnerInv, LoadInv, Unloaded
<1>4. FileInv'
  BY DEF TypeOK, OwnerInv, FileInv
<1>5. MappingInv'
  BY DEF TypeOK, OwnerInv, LoadInv, MappingInv, ImageInv, UsedBy, Matching, Unloaded,
     FromSidecar, Spoilt
<1>6. ImageInv'
  BY DEF TypeOK, OwnerInv, LoadInv, MappingInv, ImageInv, Spoilt, Unloaded, FromSidecar,
     ReadyInv, Found
<1>7. ReadyInv'
  BY DEF TypeOK, OwnerInv, ReadyInv, LoadInv, ImageInv, Spoilt, Found, Images, Relocations
<1>8. ThreadInv'
  <2>1. /\ \A q \in Processes : (ready[q] => ready'[q]) /\ (spoiled[q] => spoiled'[q])
        /\ \A t \in Threads : pc'[t] \in {"inside", "null"} => pc'[t] = pc[t]
        /\ UNCHANGED kind
    BY DEF TypeOK
  <2> QED
    BY <2>1 DEF ThreadInv
<1> QED
  BY <1>1, <1>2, <1>3, <1>4, <1>5, <1>6, <1>7, <1>8

\* The functions the image has were found.
LEMMA ResolveWhatIsTherePreserves ==
    ASSUME IInv, NEW p \in Processes, ResolveWhatIsThere(p)
    PROVE  IInv'
<1> USE StartupAssumption, NoneAssumption DEF IInv, ResolveWhatIsThere, EndLoad, disk, load, process, GoOn
<1>1. TypeOK'
  BY DEF TypeOK, Found
<1>2. OwnerInv'
  BY DEF TypeOK, OwnerInv, LoadInv
<1>3. LoadInv'
  BY DEF TypeOK, OwnerInv, LoadInv, Unloaded
<1>4. FileInv'
  BY DEF TypeOK, OwnerInv, FileInv
<1>5. MappingInv'
  BY DEF TypeOK, OwnerInv, LoadInv, MappingInv, ImageInv, UsedBy, Matching, Unloaded,
     FromSidecar, Spoilt
<1>6. ImageInv'
  BY DEF TypeOK, OwnerInv, LoadInv, MappingInv, ImageInv, Spoilt, Unloaded, FromSidecar, ReadyInv
<1>7. ReadyInv'
  BY DEF TypeOK, OwnerInv, ReadyInv, LoadInv, ImageInv, Spoilt, Found, Images, Relocations
<1>8. ThreadInv'
  BY DEF TypeOK, OwnerInv, ThreadInv, ReadyInv
<1> QED
  BY <1>1, <1>2, <1>3, <1>4, <1>5, <1>6, <1>7, <1>8

\* A call is made once Init has returned.
LEMMA CallForwardedPreserves ==
    ASSUME IInv, NEW t \in Threads, CallForwarded(t)
    PROVE  IInv'
<1> USE StartupAssumption, NoneAssumption DEF IInv, CallForwarded, disk, load, process, GoOn
<1>1. TypeOK'
  BY DEF TypeOK
<1>2. OwnerInv'
  BY DEF TypeOK, OwnerInv, LoadInv
<1>3. LoadInv'
  BY DEF TypeOK, OwnerInv, LoadInv, Unloaded
<1>4. FileInv'
  BY DEF TypeOK, OwnerInv, FileInv
<1>5. MappingInv'
  BY DEF TypeOK, OwnerInv, LoadInv, MappingInv, ImageInv, UsedBy, Matching, Unloaded,
     FromSidecar, Spoilt
<1>6. ImageInv'
  BY DEF TypeOK, OwnerInv, LoadInv, MappingInv, ImageInv, Spoilt, Unloaded, FromSidecar, ReadyInv
<1>7. ReadyInv'
  BY DEF TypeOK, OwnerInv, ReadyInv, LoadInv, ImageInv, Spoilt
<1>8. ThreadInv'
  BY DEF TypeOK, OwnerInv, ThreadInv, ReadyInv
<1> QED
  BY <1>1, <1>2, <1>3, <1>4, <1>5, <1>6, <1>7, <1>8

\* A call returns.
LEMMA CallReturnsPreserves ==
    ASSUME IInv, NEW t \in Threads, CallReturns(t)
    PROVE  IInv'
<1> USE StartupAssumption, NoneAssumption DEF IInv, CallReturns, disk, load, process, GoOn
<1>1. TypeOK'
  BY DEF TypeOK
<1>2. OwnerInv'
  BY DEF TypeOK, OwnerInv, LoadInv
<1>3. LoadInv'
  BY DEF TypeOK, OwnerInv, LoadInv, Unloaded
<1>4. FileInv'
  BY DEF TypeOK, OwnerInv, FileInv
<1>5. MappingInv'
  BY DEF TypeOK, OwnerInv, LoadInv, MappingInv, ImageInv, UsedBy, Matching, Unloaded,
     FromSidecar, Spoilt
<1>6. ImageInv'
  BY DEF TypeOK, OwnerInv, LoadInv, MappingInv, ImageInv, Spoilt, Unloaded, FromSidecar, ReadyInv
<1>7. ReadyInv'
  BY DEF TypeOK, OwnerInv, ReadyInv, LoadInv, ImageInv, Spoilt
<1>8. ThreadInv'
  BY DEF TypeOK, OwnerInv, ThreadInv, ReadyInv
<1> QED
  BY <1>1, <1>2, <1>3, <1>4, <1>5, <1>6, <1>7, <1>8

\* A killed process has nothing mapped.
LEMMA KilledPreserves ==
    ASSUME IInv, NEW p \in Processes, Killed(p)
    PROVE  IInv'
<1> USE StartupAssumption, NoneAssumption DEF IInv, Killed, Restart, disk, load, process, GoOn
<1>1. TypeOK'
  BY DEF TypeOK, Unmapped, Relocations
<1>2. OwnerInv'
  BY DEF TypeOK, OwnerInv, LoadInv, Unmapped
<1>3. LoadInv'
  BY DEF TypeOK, OwnerInv, LoadInv, Unloaded
<1>4. FileInv'
  BY DEF TypeOK, OwnerInv, FileInv, Unmapped
<1>5. MappingInv'
  BY DEF TypeOK, OwnerInv, LoadInv, MappingInv, ImageInv, UsedBy, Matching, Unloaded,
     FromSidecar, Spoilt, Unmapped
<1>6. ImageInv'
  BY DEF TypeOK, OwnerInv, LoadInv, MappingInv, ImageInv, Spoilt, Unloaded, FromSidecar, ReadyInv
<1>7. ReadyInv'
  BY DEF TypeOK, OwnerInv, ReadyInv, LoadInv, ImageInv, Spoilt
<1>8. ThreadInv'
  BY DEF TypeOK, OwnerInv, ThreadInv, ReadyInv
<1> QED
  BY <1>1, <1>2, <1>3, <1>4, <1>5, <1>6, <1>7, <1>8

\* What is left after a power loss was complete before it had the name.
LEMMA PowerLossPreserves ==
    ASSUME IInv, PowerLoss
    PROVE  IInv'
<1> USE StartupAssumption, NoneAssumption DEF IInv, PowerLoss, Restart, disk, load, process, GoOn
<1>1. TypeOK'
  BY DEF TypeOK, Unmapped, Relocations, Files
<1>2. OwnerInv'
  BY DEF TypeOK, OwnerInv, LoadInv, Unmapped
<1>3. LoadInv'
  BY DEF TypeOK, OwnerInv, LoadInv, Unloaded
<1>4. FileInv'
  <2>1. ASSUME ondisk # NoFile
        PROVE  ondisk'.whole /\ ondisk'.synced
    <3>1. ondisk \in Files /\ ondisk.whole /\ ondisk.synced
      BY <2>1 DEF TypeOK, FileInv
    <3>2. ondisk' = [ondisk EXCEPT !.whole = ondisk.whole /\ ondisk.synced]
      BY <2>1
    <3> QED
      BY <3>1, <3>2 DEF Files
  <2>2. ondisk = NoFile => ondisk' = NoFile
    OBVIOUS
  <2> QED
    BY <2>1, <2>2 DEF TypeOK, FileInv, Unmapped
<1>5. MappingInv'
  BY DEF TypeOK, OwnerInv, LoadInv, MappingInv, ImageInv, UsedBy, Matching, Unloaded,
     FromSidecar, Spoilt, Unmapped
<1>6. ImageInv'
  BY DEF TypeOK, OwnerInv, LoadInv, MappingInv, ImageInv, Spoilt, Unloaded, FromSidecar, ReadyInv
<1>7. ReadyInv'
  BY DEF TypeOK, OwnerInv, ReadyInv, LoadInv, ImageInv, Spoilt
<1>8. ThreadInv'
  BY DEF TypeOK, OwnerInv, ThreadInv, ReadyInv
<1> QED
  BY <1>1, <1>2, <1>3, <1>4, <1>5, <1>6, <1>7, <1>8

\* The directory on the disk has the name of a complete file.
LEMMA WriteBackPreserves ==
    ASSUME IInv, WriteBack
    PROVE  IInv'
<1> USE StartupAssumption, NoneAssumption DEF IInv, WriteBack, disk, load, process, GoOn
<1>1. TypeOK'
  BY DEF TypeOK
<1>2. OwnerInv'
  BY DEF TypeOK, OwnerInv, LoadInv
<1>3. LoadInv'
  BY DEF TypeOK, OwnerInv, LoadInv, Unloaded
<1>4. FileInv'
  BY DEF TypeOK, OwnerInv, FileInv
<1>5. MappingInv'
  BY DEF TypeOK, OwnerInv, LoadInv, MappingInv, ImageInv, UsedBy, Matching, Unloaded,
     FromSidecar, Spoilt
<1>6. ImageInv'
  BY DEF TypeOK, OwnerInv, LoadInv, MappingInv, ImageInv, Spoilt, Unloaded, FromSidecar, ReadyInv
<1>7. ReadyInv'
  BY DEF TypeOK, OwnerInv, ReadyInv, LoadInv, ImageInv, Spoilt
<1>8. ThreadInv'
  BY DEF TypeOK, OwnerInv, ThreadInv, ReadyInv
<1> QED
  BY <1>1, <1>2, <1>3, <1>4, <1>5, <1>6, <1>7, <1>8

\* The DLL is replaced.
LEMMA UpdateDllPreserves ==
    ASSUME IInv, UpdateDll
    PROVE  IInv'
<1> USE StartupAssumption, NoneAssumption DEF IInv, UpdateDll, disk, load, process, GoOn
<1>1. TypeOK'
  BY DEF TypeOK
<1>2. OwnerInv'
  BY DEF TypeOK, OwnerInv, LoadInv
<1>3. LoadInv'
  BY DEF TypeOK, OwnerInv, LoadInv, Unloaded
<1>4. FileInv'
  BY DEF TypeOK, OwnerInv, FileInv
<1>5. MappingInv'
  BY DEF TypeOK, OwnerInv, LoadInv, MappingInv, ImageInv, UsedBy, Matching, Unloaded,
     FromSidecar, Spoilt
<1>6. ImageInv'
  BY DEF TypeOK, OwnerInv, LoadInv, MappingInv, ImageInv, Spoilt, Unloaded, FromSidecar, ReadyInv
<1>7. ReadyInv'
  BY DEF TypeOK, OwnerInv, ReadyInv, LoadInv, ImageInv, Spoilt
<1>8. ThreadInv'
  BY DEF TypeOK, OwnerInv, ThreadInv, ReadyInv
<1> QED
  BY <1>1, <1>2, <1>3, <1>4, <1>5, <1>6, <1>7, <1>8

\* dlclose drops a reference, the last one with what is mapped.
LEMMA Closed ==
    ASSUME IInv, NEW p \in Processes, DlClose(p), mapping[p].refs > 0
    PROVE  /\ mapping' \in [Processes -> Mappings]
           /\ \A q \in Processes \ {p} : mapping'[q] = mapping[q]
           /\ IF mapping[p].refs = 1
              THEN mapping'[p] = Unmapped
              ELSE /\ mapping'[p].refs = mapping[p].refs - 1 /\ mapping'[p].file = mapping[p].file
                   /\ mapping'[p].relocated = mapping[p].relocated
<1>1. mapping \in [Processes -> Mappings] /\ mapping[p] \in Mappings
  BY DEF IInv, TypeOK, Mappings
<1>2. mapping' = [mapping EXCEPT ![p] = Dropped(mapping[p])]
  BY DEF DlClose
<1>3. Unmapped \in Mappings
  BY DEF Unmapped, Mappings, Relocations
<1>4. CASE mapping[p].refs = 1
  BY <1>1, <1>2, <1>3, <1>4 DEF Dropped
<1>5. CASE mapping[p].refs # 1
  <2>1. mapping'[p] = [mapping[p] EXCEPT !.refs = mapping[p].refs - 1]
    BY <1>1, <1>2, <1>5 DEF Dropped
  <2>2. /\ mapping'[p] \in Mappings /\ mapping'[p].refs = mapping[p].refs - 1
        /\ mapping'[p].file = mapping[p].file /\ mapping'[p].relocated = mapping[p].relocated
    BY <1>1, <2>1 DEF Mappings
  <2> QED
    BY <1>1, <1>2, <1>5, <2>2
<1> QED
  BY <1>4, <1>5

\* A sidecar that matches becomes the image; another is closed.
LEMMA SidecarMatchesPreserves ==
    ASSUME IInv, NEW p \in Processes, SidecarMatches(p)
    PROVE  IInv'
<1> USE StartupAssumption, NoneAssumption DEF disk, load, process, GoOn
<1>a. /\ step[p] \in Matching
      /\ UNCHANGED <<disk, busy, temp, seen, resolved, ready, spoiled, kind, pc>>
  BY DEF SidecarMatches, Matching
<1>b. /\ step' = [step EXCEPT ![p] = step'[p]]
      /\ image' \in [Processes -> Images \cup {NoImage}]
      /\ mapping' \in [Processes -> Mappings]
      /\ mapping[p].refs > 0
      /\ \A q \in Processes \ {p} : image'[q] = image[q] /\ mapping'[q] = mapping[q] /\ step'[q] = step[q]
      /\ \/ /\ image'[p] = [from |-> "sidecar", of |-> dll,
                           relocated |-> mapping[p].relocated, attached |-> FALSE]
            /\ image'[p] \in Images /\ mapping[p].file.of = dll
            /\ mapping' = mapping /\ step'[p] = "link"
         \/ /\ image' = image /\ step'[p] \in {"make", "raw"}
            /\ IF mapping[p].refs = 1
               THEN mapping'[p] = Unmapped
               ELSE /\ mapping'[p].refs = mapping[p].refs - 1 /\ mapping'[p].file = mapping[p].file
                    /\ mapping'[p].relocated = mapping[p].relocated
  <2>0. mapping[p].refs > 0 /\ mapping \in [Processes -> Mappings] /\ mapping[p] \in Mappings
    BY <1>a DEF IInv, TypeOK, MappingInv, UsedBy, Mappings
  <2>1. CASE /\ mapping[p].file.of = dll
             /\ image' = [image EXCEPT ![p] = [from |-> "sidecar", of |-> dll,
                               relocated |-> mapping[p].relocated, attached |-> FALSE]]
             /\ GoOn(p, "link") /\ UNCHANGED mapping
    <3>1. [from |-> "sidecar", of |-> dll, relocated |-> mapping[p].relocated, attached |-> FALSE]
            \in Images
      BY <2>0 DEF Images, Mappings, IInv, TypeOK
    <3> QED
      BY <2>0, <2>1, <3>1 DEF IInv, TypeOK
  <2>2. CASE DlClose(p) /\ Fallback(p) /\ UNCHANGED image
    BY <2>0, <2>2, Closed DEF IInv, TypeOK, Fallback
  <2> QED
    BY <2>1, <2>2 DEF SidecarMatches
<1>1. TypeOK'
  <2>1. step' \in [Processes -> {"none", "open", "match", "make", "read", "write", "sync", "publish",
                               "reopen", "rematch", "raw", "link", "attach", "resolve"}]
    BY <1>a, <1>b DEF IInv, TypeOK
  <2> QED
    BY <1>a, <1>b, <2>1 DEF IInv, TypeOK, Mappings
<1>2. OwnerInv'
  BY <1>a, <1>b DEF IInv, TypeOK, OwnerInv, LoadInv, Matching, Unmapped
<1>3. LoadInv'
  BY <1>a, <1>b DEF IInv, TypeOK, OwnerInv, LoadInv, Unloaded, Matching
<1>4. FileInv'
  BY <1>a, <1>b DEF IInv, TypeOK, OwnerInv, FileInv, Unmapped
<1>5. MappingInv'
  BY <1>a, <1>b DEF IInv, TypeOK, OwnerInv, LoadInv, MappingInv, ImageInv, UsedBy, Matching,
     Unloaded, FromSidecar, Spoilt, Mappings, Unmapped
<1>6. ImageInv'
  BY <1>a, <1>b DEF IInv, TypeOK, OwnerInv, LoadInv, MappingInv, ImageInv, Spoilt, Unloaded,
     FromSidecar, ReadyInv, Matching
<1>7. ReadyInv'
  BY <1>a, <1>b DEF IInv, TypeOK, OwnerInv, ReadyInv, LoadInv, Matching
<1>8. ThreadInv'
  BY <1>a, <1>b DEF IInv, TypeOK, OwnerInv, ThreadInv, ReadyInv
<1> QED
  BY <1>1, <1>2, <1>3, <1>4, <1>5, <1>6, <1>7, <1>8 DEF IInv

\* An image is relocated where it is mapped.
LEMMA LinkPreserves ==
    ASSUME IInv, NEW p \in Processes, Link(p)
    PROVE  IInv'
<1> USE StartupAssumption, NoneAssumption DEF disk, load, process, GoOn
<1>a. /\ step[p] = "link" /\ step' = [step EXCEPT ![p] = "attach"]
      /\ UNCHANGED <<disk, busy, temp, seen, resolved, ready, spoiled, kind, pc>>
  BY DEF Link
<1>b. /\ image' \in [Processes -> Images \cup {NoImage}] /\ image'[p] \in Images
      /\ mapping' \in [Processes -> Mappings]
      /\ \A q \in Processes \ {p} : image'[q] = image[q] /\ mapping'[q] = mapping[q]
      /\ image[p] \in Images
      /\ image'[p].from = image[p].from /\ image'[p].of = image[p].of
      /\ image'[p].relocated = Again(image[p].relocated)
      /\ mapping'[p].file = mapping[p].file /\ mapping'[p].refs = mapping[p].refs
      /\ mapping'[p].relocated = IF image[p].from = "file" THEN mapping[p].relocated
                                  ELSE Again(mapping[p].relocated)
  <2>0. /\ mapping \in [Processes -> Mappings] /\ mapping[p] \in Mappings
        /\ image[p] \in Images /\ image \in [Processes -> Images \cup {NoImage}]
    BY <1>a DEF IInv, TypeOK, LoadInv, Mappings
  <2>1. image' = [image EXCEPT ![p] = [image[p] EXCEPT !.relocated = Again(image[p].relocated)]]
    BY <2>0 DEF Link
  <2>2. [image[p] EXCEPT !.relocated = Again(image[p].relocated)] \in Images
    BY <2>0 DEF Images, Again, Relocations
  <2>3. /\ image'[p].from = image[p].from /\ image'[p].of = image[p].of
        /\ image'[p].relocated = Again(image[p].relocated)
    BY <2>0, <2>1 DEF Images
  <2>4. CASE image[p].from = "file"
    <3>1. mapping' = mapping
      BY <2>4 DEF Link
    <3> QED
      BY <2>0, <2>1, <2>2, <2>3, <2>4, <3>1
  <2>5. CASE image[p].from # "file"
    <3>1. mapping' = [mapping EXCEPT ![p] = [mapping[p] EXCEPT !.relocated = Again(mapping[p].relocated)]]
      BY <2>0, <2>5 DEF Link
    <3>2. [mapping[p] EXCEPT !.relocated = Again(mapping[p].relocated)] \in Mappings
      BY <2>0 DEF Mappings, Again, Relocations
    <3>3. /\ mapping'[p].file = mapping[p].file /\ mapping'[p].refs = mapping[p].refs
          /\ mapping'[p].relocated = Again(mapping[p].relocated)
      BY <2>0, <3>1 DEF Mappings
    <3> QED
      BY <2>0, <2>1, <2>2, <2>3, <2>5, <3>1, <3>2, <3>3
  <2> QED
    BY <2>4, <2>5
<1>1. TypeOK'
  BY <1>a, <1>b DEF IInv, TypeOK, Mappings
<1>2. OwnerInv'
  BY <1>a, <1>b DEF IInv, TypeOK, OwnerInv, LoadInv
<1>3. LoadInv'
  BY <1>a, <1>b DEF IInv, TypeOK, OwnerInv, LoadInv, Unloaded, Again
<1>4. FileInv'
  BY <1>a, <1>b DEF IInv, TypeOK, OwnerInv, FileInv
<1>5. MappingInv'
  BY <1>a, <1>b DEF IInv, TypeOK, OwnerInv, LoadInv, MappingInv, ImageInv, UsedBy, Matching,
     Unloaded, FromSidecar, Spoilt, Again, Images
<1>6. ImageInv'
  BY <1>a, <1>b DEF IInv, TypeOK, OwnerInv, LoadInv, MappingInv, ImageInv, Spoilt, Unloaded,
     FromSidecar, ReadyInv, Again, Images
<1>7. ReadyInv'
  BY <1>a, <1>b DEF IInv, TypeOK, OwnerInv, ReadyInv, LoadInv, ImageInv, Spoilt
<1>8. ThreadInv'
  BY <1>a, <1>b DEF IInv, TypeOK, OwnerInv, ThreadInv, ReadyInv
<1> QED
  BY <1>1, <1>2, <1>3, <1>4, <1>5, <1>6, <1>7, <1>8 DEF IInv

\* An image is attached.
LEMMA AttachPreserves ==
    ASSUME IInv, NEW p \in Processes, Attach(p)
    PROVE  IInv'
<1> USE StartupAssumption, NoneAssumption DEF disk, load, process, GoOn
<1>a. /\ step[p] = "attach" /\ step' = [step EXCEPT ![p] = "resolve"]
      /\ UNCHANGED <<disk, busy, temp, seen, mapping, resolved, ready, spoiled, kind, pc>>
  BY DEF Attach
<1>b. /\ image' \in [Processes -> Images \cup {NoImage}] /\ image'[p] \in Images
      /\ \A q \in Processes \ {p} : image'[q] = image[q]
      /\ image[p] \in Images /\ image'[p].attached
      /\ image'[p].from = image[p].from /\ image'[p].of = image[p].of
      /\ image'[p].relocated = image[p].relocated
  <2>0. image[p] \in Images /\ image \in [Processes -> Images \cup {NoImage}]
    BY <1>a DEF IInv, TypeOK, LoadInv
  <2>1. image' = [image EXCEPT ![p] = [image[p] EXCEPT !.attached = TRUE]]
    BY <2>0 DEF Attach
  <2>2. [image[p] EXCEPT !.attached = TRUE] \in Images
    BY <2>0 DEF Images
  <2>3. /\ image'[p].from = image[p].from /\ image'[p].of = image[p].of
        /\ image'[p].relocated = image[p].relocated /\ image'[p].attached
    BY <2>0, <2>1 DEF Images
  <2> QED
    BY <2>0, <2>1, <2>2, <2>3
<1>1. TypeOK'
  BY <1>a, <1>b DEF IInv, TypeOK
<1>2. OwnerInv'
  BY <1>a, <1>b DEF IInv, TypeOK, OwnerInv, LoadInv
<1>3. LoadInv'
  BY <1>a, <1>b DEF IInv, TypeOK, OwnerInv, LoadInv, Unloaded
<1>4. FileInv'
  BY <1>a, <1>b DEF IInv, TypeOK, OwnerInv, FileInv
<1>5. MappingInv'
  BY <1>a, <1>b DEF IInv, TypeOK, OwnerInv, LoadInv, MappingInv, ImageInv, UsedBy, Matching,
     Unloaded, FromSidecar, Spoilt
<1>6. ImageInv'
  BY <1>a, <1>b DEF IInv, TypeOK, OwnerInv, LoadInv, MappingInv, ImageInv, Spoilt, Unloaded,
     FromSidecar, ReadyInv
<1>7. ReadyInv'
  BY <1>a, <1>b DEF IInv, TypeOK, OwnerInv, ReadyInv, LoadInv, ImageInv, Spoilt
<1>8. ThreadInv'
  BY <1>a, <1>b DEF IInv, TypeOK, OwnerInv, ThreadInv, ReadyInv
<1> QED
  BY <1>1, <1>2, <1>3, <1>4, <1>5, <1>6, <1>7, <1>8 DEF IInv

\* A load that fails leaves no image and drops its reference.
LEMMA LoadFailsPreserves ==
    ASSUME IInv, NEW p \in Processes, LoadFails(p)
    PROVE  IInv'
<1> USE StartupAssumption, NoneAssumption DEF disk, load, process, GoOn
<1>a. /\ step[p] \in {"raw", "link", "attach"}
      /\ image' = [image EXCEPT ![p] = NoImage]
      /\ EndLoad(p)
      /\ UNCHANGED <<disk, resolved, ready, spoiled, kind>>
  BY DEF LoadFails
<1>b. /\ mapping' \in [Processes -> Mappings]
      /\ \A q \in Processes \ {p} : mapping'[q] = mapping[q]
      /\ IF FromSidecar(p)
         THEN /\ mapping[p].refs > 0
              /\ IF mapping[p].refs = 1
                 THEN mapping'[p] = Unmapped
                 ELSE /\ mapping'[p].refs = mapping[p].refs - 1
                      /\ mapping'[p].file = mapping[p].file
                      /\ mapping'[p].relocated = mapping[p].relocated
         ELSE mapping' = mapping
      /\ step'[p] = "none" /\ temp'[p] = NoFile /\ busy'[p] = Nobody /\ image'[p] = NoImage
      /\ \A q \in Processes \ {p} :
            /\ step'[q] = step[q] /\ temp'[q] = temp[q] /\ busy'[q] = busy[q]
            /\ image'[q] = image[q]
  <2>0. /\ step'[p] = "none" /\ temp'[p] = NoFile /\ busy'[p] = Nobody /\ image'[p] = NoImage
        /\ \A q \in Processes \ {p} :
            /\ step'[q] = step[q] /\ temp'[q] = temp[q] /\ busy'[q] = busy[q]
            /\ image'[q] = image[q]
    BY <1>a DEF IInv, TypeOK, EndLoad
  <2>1. CASE FromSidecar(p)
    <3>1. mapping[p].refs > 0
      BY <2>1 DEF IInv, TypeOK, MappingInv, UsedBy
    <3> QED
      BY <2>0, <2>1, <3>1, Closed DEF LoadFails, FromSidecar
  <2>2. CASE ~FromSidecar(p)
    <3>1. mapping' = mapping
      BY <2>2 DEF LoadFails, FromSidecar
    <3> QED
      BY <2>0, <2>2, <3>1 DEF IInv, TypeOK, Mappings
  <2> QED
    BY <2>1, <2>2
<1>1. TypeOK'
  BY <1>a, <1>b DEF IInv, TypeOK, Mappings, EndLoad
<1>2. OwnerInv'
  <2>1. /\ \A q \in Processes \ {p} : busy[q] # Nobody => pc'[busy[q]] = pc[busy[q]]
    BY <1>a DEF IInv, TypeOK, OwnerInv, EndLoad
  <2>2. (mapping'[p].refs > 0) <=> (mapping'[p].file # NoFile)
    BY <1>b DEF IInv, TypeOK, OwnerInv, Mappings, Unmapped
  <2>3. ASSUME NEW q \in Processes
        PROVE  OwnerInv!(q)'
    <3>1. CASE q = p
      BY <1>b, <2>2, <3>1
    <3>2. CASE q # p
      BY <1>b, <2>1, <3>2 DEF IInv, OwnerInv
    <3> QED
      BY <3>1, <3>2
  <2> QED
    BY <2>3 DEF OwnerInv
<1>3. LoadInv'
  BY <1>a, <1>b DEF IInv, TypeOK, OwnerInv, LoadInv, Unloaded, EndLoad
<1>4. FileInv'
  <2>1. mapping'[p].file # NoFile => mapping'[p].file = mapping[p].file
    BY <1>b DEF Unmapped
  <2>2. \A q \in Processes : mapping'[q].file # NoFile => mapping'[q].file = mapping[q].file
    BY <1>b, <2>1
  <2>3. \A q \in Processes : mapping'[q].file # NoFile => mapping'[q].file.whole
    BY <2>2 DEF IInv, FileInv
  <2>4. \A q \in Processes : step'[q] \in {"sync", "publish"} =>
                step'[q] = step[q] /\ temp'[q] = temp[q]
    BY <1>b
  <2> QED
    BY <1>a, <2>3, <2>4 DEF IInv, FileInv
<1>5. MappingInv'
  <2>1. ASSUME NEW q \in Processes
        PROVE  MappingInv!(q)'
    <3>1. CASE q = p
      <4>1. UsedBy(p)' = 0 /\ ~FromSidecar(p)'
        BY <1>b DEF UsedBy, Matching, FromSidecar
      <4>2. mapping[p] \in Mappings /\ mapping'[p] \in Mappings
        BY <1>b DEF IInv, TypeOK, Mappings
      <4>3. mapping'[p].refs > 0 => Spoilt(p, mapping'[p].file.of) /\ mapping'[p].relocated # "not"
        <5>1. CASE FromSidecar(p)
          BY <1>b, <4>2, <5>1 DEF IInv, MappingInv, UsedBy, Mappings, Unmapped
        <5>2. CASE ~FromSidecar(p)
          BY <1>a, <1>b, <4>2, <5>2 DEF IInv, MappingInv, UsedBy, Mappings, Matching
        <5> QED
          BY <5>1, <5>2
      <4> QED
        BY <1>a, <1>b, <3>1, <4>1, <4>2, <4>3 DEF Spoilt, Mappings, Matching
    <3>2. CASE q # p
      BY <1>a, <1>b, <3>2 DEF IInv, MappingInv, UsedBy, FromSidecar, Spoilt
    <3> QED
      BY <3>1, <3>2
  <2> QED
    BY <2>1 DEF MappingInv
<1>6. ImageInv'
  BY <1>a, <1>b DEF IInv, TypeOK, OwnerInv, LoadInv, MappingInv, ImageInv, Spoilt, Unloaded,
     FromSidecar, ReadyInv, EndLoad
<1>7. ReadyInv'
  BY <1>a, <1>b DEF IInv, TypeOK, OwnerInv, ReadyInv, LoadInv, ImageInv, Spoilt, EndLoad
<1>8. ThreadInv'
  BY <1>a, <1>b DEF IInv, TypeOK, OwnerInv, ThreadInv, ReadyInv, EndLoad
<1> QED
  BY <1>1, <1>2, <1>3, <1>4, <1>5, <1>6, <1>7, <1>8 DEF IInv

\* At the start nothing is loaded, and nothing has a name.
LEMMA InitIInv ==
    ASSUME Init
    PROVE  IInv
<1> USE StartupAssumption, NoneAssumption DEF Init
<1>1. Unmapped \in Mappings /\ Unmapped.refs = 0 /\ Unmapped.file = NoFile
  BY DEF Unmapped, Mappings, Relocations
<1>2. TypeOK
  BY <1>1 DEF TypeOK, Mappings
<1>3. OwnerInv /\ LoadInv
  BY <1>1 DEF OwnerInv, LoadInv, Unloaded
<1>4. FileInv /\ MappingInv
  BY <1>1 DEF FileInv, MappingInv, UsedBy, Matching, FromSidecar
<1>5. ImageInv /\ ReadyInv /\ ThreadInv
  BY DEF ImageInv, ReadyInv, ThreadInv
<1> QED
  BY <1>2, <1>3, <1>4, <1>5 DEF IInv

\* Whatever a step is of, it keeps the invariant.
LEMMA StepIInv ==
    ASSUME IInv, [Next]_vars
    PROVE  IInv'
<1>1. ASSUME NEW t \in Threads,
             CallInit(t) \/ InitReturns(t) \/ InitEnters(t) \/ CallForwarded(t) \/ CallReturns(t)
      PROVE  IInv'
  BY <1>1, CallInitPreserves, InitReturnsPreserves, InitEntersPreserves,
     CallForwardedPreserves, CallReturnsPreserves
<1>2. ASSUME NEW p \in Processes, Sidecar(p)
      PROVE  IInv'
  BY <1>2, OpenSidecarPreserves, SidecarMatchesPreserves, GenerationFailsPreserves,
     MakeTemporaryPreserves, ReadDllPreserves, WriteOutputPreserves, SyncPreserves, PublishPreserves
     DEF Sidecar
<1>3. ASSUME NEW p \in Processes, Loads(p)
      PROVE  IInv'
  BY <1>2, <1>3, LoadRawPreserves, LinkPreserves, AttachPreserves, LoadFailsPreserves,
     ResolveOrThrowPreserves, ResolveWhatIsTherePreserves DEF Loads
<1>4. CASE UNCHANGED vars
  BY <1>4 DEF vars, disk, load, process, IInv, TypeOK, OwnerInv, LoadInv, FileInv, MappingInv,
     ImageInv,
     ReadyInv, ThreadInv, UsedBy, FromSidecar, Spoilt
<1> QED
  BY <1>1, <1>3, <1>4, KilledPreserves, PowerLossPreserves, WriteBackPreserves,
     UpdateDllPreserves DEF Next

\* The invariant of start-up: what a load has done by now, which files have
\* a name, what is mapped and for whom, and what an Init that returned left.
THEOREM Invariance == Spec => []IInv
<1>1. Init => IInv
  BY InitIInv
<1>2. IInv /\ [Next]_vars => IInv'
  BY StepIInv
<1> QED
  BY <1>1, <1>2, PTL DEF Spec

\* Files, mappings and images stay whole records, threads where they can be.
THEOREM TypeCorrect == Spec => []TypeOK
<1>1. IInv => TypeOK
  BY DEF IInv
<1> QED
  BY <1>1, Invariance, PTL

\* An image is a whole copy of a version the DLL had during its load, and
\* every file under its name is whole: generate_pe_sidecar syncs before it
\* renames, and load_sidecar compares what it maps with the DLL.
THEOREM ImagesAreWhole == Spec => []WholeImages
<1>1. ASSUME IInv PROVE WholeImages
  <2>1. ASSUME NEW p \in Processes, image[p] # NoImage
        PROVE  /\ image[p].of \in seen[p]
               /\ image[p].from = "sidecar" =>
                    mapping[p].file.whole /\ mapping[p].file.of = image[p].of
    <3>1. image[p].of \in seen[p]
      BY <1>1, <2>1 DEF IInv, ImageInv
    <3>2. ASSUME image[p].from = "sidecar"
          PROVE  mapping[p].file.whole /\ mapping[p].file.of = image[p].of
      <4>1. FromSidecar(p) /\ mapping[p].refs >= 1
        BY <1>1, <2>1, <3>2 DEF IInv, MappingInv, UsedBy, FromSidecar
      <4>2. mapping[p].file # NoFile
        BY <1>1, <4>1 DEF IInv, TypeOK, OwnerInv
      <4> QED
        BY <1>1, <4>1, <4>2 DEF IInv, FileInv, MappingInv
    <3> QED
      BY <3>1, <3>2
  <2>2. \A f \in {cache, ondisk} \ {NoFile} : f.whole
    BY <1>1 DEF IInv, FileInv
  <2> QED
    BY <2>1, <2>2 DEF WholeImages
<1> QED
  BY <1>1, Invariance, PTL

\* A forwarded call runs in an image that is attached and relocated once;
\* only an Init that threw for a missing export leaves anything else.
THEOREM CallsArrive == Spec => []CallsLand
<1>1. ASSUME IInv PROVE CallsLand
  <2>1. ASSUME NEW t \in Threads
        PROVE  /\ pc[t] = "inside" =>
                    /\ image[In[t]] # NoImage
                    /\ image[In[t]].attached /\ image[In[t]].relocated = "once"
               /\ pc[t] = "null" => spoiled[In[t]] /\ kind[In[t]] = "slug"
    BY <1>1, <2>1, StartupAssumption DEF IInv, ThreadInv, ReadyInv, LoadInv
  <2>2. ASSUME NEW p \in Processes, image[p] # NoImage, image[p].relocated = "more"
        PROVE  spoiled[p] /\ kind[p] = "once"
    BY <1>1, <2>2 DEF IInv, ImageInv, Spoilt
  <2> QED
    BY <2>1, <2>2 DEF CallsLand
<1> QED
  BY <1>1, Invariance, PTL

---------------------------------------------------------------------------
(* Numbers, and functions defined along them.                              *)

\* The least element of a set of numbers.
LEMMA Least ==
    ASSUME NEW T \in SUBSET Nat, T # {}
    PROVE  \E k \in T : \A j \in T : k <= j
<1>1. PICK k \in T : \A j \in T : ~(<<j, k>> \in OpToRel(<, Nat))
  BY WFMin, NatLessThanWellFounded
<1>2. ASSUME NEW j \in T PROVE k <= j
  <2>1. j < k => <<j, k>> \in OpToRel(<, Nat)
    BY DEF OpToRel
  <2>2. ~(j < k)
    BY <1>1, <2>1, Zenon
  <2> QED
    BY <2>2
<1> QED
  BY <1>2

\* What holds of the first number and passes on to the next holds of all.
LEMMA Climb ==
    ASSUME NEW n \in Nat, NEW S, 0 \in S, \A k \in 0..(n - 1) : k \in S => k + 1 \in S
    PROVE  \A k \in 0..n : k \in S
<1> DEFINE T == {k \in 0..n : k \notin S}
<1> SUFFICES ASSUME T # {} PROVE FALSE
  OBVIOUS
<1>1. PICK k \in T : \A j \in T : k <= j
  <2>1. T \in SUBSET Nat
    OBVIOUS
  <2> HIDE DEF T
  <2> QED
    BY <2>1, Least
<1>2. k # 0 /\ k - 1 \notin T
  BY <1>1
<1> QED
  BY <1>2

\* The values s of which each follows from the one before it.
Follows(X, x, n, G, s) ==
    s \in [0..n -> X] /\ s[0] = x /\ \A k \in 1..n : s[k] = G[k][s[k - 1]]

\* A function whose values follow from one another exists.
LEMMA Chain ==
    ASSUME NEW X, NEW x \in X, NEW n \in Nat, NEW G \in [1..n -> [X -> X]]
    PROVE  \E s : Follows(X, x, n, G, s)
<1> DEFINE Is(m, s) == s[0] = x /\ \A k \in 1..m : s[k] = G[k][s[k - 1]]
           S == {m \in 0..n : \E s \in [0..m -> X] : Is(m, s)}
<1>1. 0 \in S
  <2>1. [k \in 0..0 |-> x] \in [0..0 -> X] /\ Is(0, [k \in 0..0 |-> x])
    OBVIOUS
  <2> HIDE DEF Is
  <2> QED
    BY <2>1
<1>2. ASSUME NEW m \in 0..(n - 1), m \in S PROVE m + 1 \in S
  <2>1. PICK s \in [0..m -> X] : Is(m, s)
    BY <1>2
  <2> DEFINE t == [k \in 0..(m + 1) |-> IF k <= m THEN s[k] ELSE G[m + 1][s[m]]]
  <2>2. G[m + 1] \in [X -> X] /\ s[m] \in X
    OBVIOUS
  <2>3. t \in [0..(m + 1) -> X]
    BY <2>2
  <2>4. ASSUME NEW k \in 1..(m + 1) PROVE t[k] = G[k][t[k - 1]]
    <3>1. CASE k = m + 1
      <4>1. t[k - 1] = s[m]
        BY <3>1
      <4>2. t[k] = G[m + 1][s[m]]
        BY <3>1
      <4> QED
        BY <3>1, <4>1, <4>2
    <3>2. CASE k \in 1..m
      <4>1. t[k] = s[k] /\ t[k - 1] = s[k - 1]
        BY <3>2
      <4> QED
        BY <2>1, <3>2, <4>1
    <3> QED
      BY <3>1, <3>2
  <2>5. t[0] = x
    BY <2>1
  <2>6. Is(m + 1, t)
    BY <2>4, <2>5
  <2>7. \E f \in [0..(m + 1) -> X] : Is(m + 1, f)
    <3> HIDE DEF Is, t
    <3> QED
      BY <2>3, <2>6
  <2> HIDE DEF Is
  <2> QED
    BY <2>7
<1>3. n \in S
  <2> HIDE DEF S
  <2>1. \A m \in 0..n : m \in S
    BY <1>1, <1>2, Climb
  <2> QED
    BY <2>1
<1> QED
  BY <1>3 DEF Follows

---------------------------------------------------------------------------
(* The walk over the functions of a section.                               *)

\* A range holds an address, is apart from another, is within another.
Holds(r, ip) == r.begin <= ip /\ ip < r.end

Apart(r, q) == r.end <= q.begin \/ q.end <= r.begin

Within(r, q) == q.begin <= r.begin /\ r.end <= q.end

\* The functions of a DLL are sorted, apart, and each in one section.
SortedIn(section, F) ==
    /\ section \in Extents /\ F \in Seq(Extents)
    /\ \A j, k \in DOMAIN F : j < k => F[j].end <= F[k].begin
    /\ \A k \in DOMAIN F :
        Apart(F[k], section) \/ Within(F[k], section)

\* Code of the section in no function.
Gap(section, F) == {a \in [begin : Nat, end : Nat, function : {FALSE}] :
    /\ section.begin <= a.begin /\ a.begin < a.end /\ a.end <= section.end
    /\ \A j \in DOMAIN F : Apart(a, F[j])}

\* After k functions, the walk has accounted for the code before position.
WalkInv(section, F, k, g) ==
    /\ g.position \in section.begin..section.end
    /\ g.position = section.begin \/ \E j \in 1..k : g.position = F[j].end
    /\ \A j \in 1..k : F[j].begin < section.end => F[j].end <= g.position
    /\ g.gaps \subseteq Gap(section, F)
    /\ \A a \in g.gaps : a.end <= g.position
    /\ \A a, b \in g.gaps : a = b \/ Apart(a, b)
    /\ \A ip \in section.begin..(g.position - 1) :
        (\E j \in 1..k : Holds(F[j], ip)) \/ \E a \in g.gaps : Holds(a, ip)

\* The walk is what its steps make of it.
LEMMA WalkIs ==
    ASSUME NEW section \in Extents, NEW F \in Seq(Extents)
    PROVE  /\ Walk(section, F)[0] = [position |-> section.begin, gaps |-> {}]
           /\ \A k \in 1..Len(F) :
                Walk(section, F)[k] = Past(section, Walk(section, F)[k - 1], F[k])
<1> DEFINE n == Len(F)
           first == [position |-> section.begin, gaps |-> {}]
           Is(g) == g = [k \in 0..n |-> IF k = 0 THEN first ELSE Past(section, g[k - 1], F[k])]
           X == [position : Nat, gaps : SUBSET [begin : Nat, end : Nat, function : BOOLEAN]]
           G == [k \in 1..n |-> [g \in X |-> Past(section, g, F[k])]]
<1>1. G \in [1..n -> [X -> X]]
  <2> SUFFICES ASSUME NEW k \in 1..n, NEW g \in X PROVE Past(section, g, F[k]) \in X
    OBVIOUS
  <2>1. F[k] \in Extents /\ F[k].begin \in Nat /\ F[k].end \in Nat
    BY DEF Extents
  <2>2. Code(g.position, F[k].begin, FALSE) \in [begin : Nat, end : Nat, function : BOOLEAN]
    BY <2>1 DEF Code
  <2> QED
    BY <2>1, <2>2 DEF Past
<1>2. first \in X
  BY DEF Extents
<1>3. n \in Nat
  OBVIOUS
<1>4. PICK s : Follows(X, first, n, G, s)
  <2> HIDE DEF X, G, first, n
  <2> QED
    BY <1>1, <1>2, <1>3, Chain, Zenon
<1>5. Is(s)
  <2>1. /\ s \in [0..n -> X] /\ s[0] = first
        /\ \A k \in 1..n : s[k] = G[k][s[k - 1]]
    BY <1>4 DEF Follows
  <2>2. ASSUME NEW k \in 1..n PROVE s[k] = Past(section, s[k - 1], F[k])
    <3>1. s[k - 1] \in X
      <4> HIDE DEF X
      <4> QED
        BY <1>3, <2>1
    <3>2. G[k][s[k - 1]] = Past(section, s[k - 1], F[k])
      <4> HIDE DEF X
      <4> QED
        BY <3>1
    <3> QED
      BY <2>1, <3>2
  <2> HIDE DEF X, G
  <2> QED
    BY <2>1, <2>2
<1>6. \E g : Is(g)
  <2> HIDE DEF Is
  <2> QED
    BY <1>5
<1>7. Walk(section, F) = CHOOSE g : Is(g)
  BY DEF Walk
<1>8. Is(Walk(section, F))
  <2> HIDE DEF Is
  <2> QED
    BY <1>6, <1>7
<1>9. /\ Walk(section, F)[0] = first
      /\ \A k \in 1..n : Walk(section, F)[k] = Past(section, Walk(section, F)[k - 1], F[k])
  <2> HIDE DEF n, first
  <2> QED
    BY <1>3, <1>8
<1> QED
  BY <1>9

\* A step of the walk accounts for one function more, and the gap before it.
LEMMA WalkStep ==
    ASSUME NEW section, NEW F, SortedIn(section, F), NEW k \in 1..Len(F),
           NEW g, WalkInv(section, F, k - 1, g)
    PROVE  WalkInv(section, F, k, Past(section, g, F[k]))
<1> DEFINE f == F[k]
<1>1. /\ F \in Seq(Extents) /\ Len(F) \in Nat /\ DOMAIN F = 1..Len(F)
      /\ \A j \in 1..Len(F) : F[j].begin \in Nat /\ F[j].end \in Nat /\ F[j].begin < F[j].end
      /\ section.begin \in Nat /\ section.end \in Nat /\ section.begin < section.end
      /\ g.position \in Nat
  BY DEF SortedIn, Extents, WalkInv
<1>0. f = F[k] /\ f.begin \in Nat /\ f.end \in Nat /\ f.begin < f.end
  BY <1>1
<1> HIDE DEF f
<1>2. /\ \A i, j \in 1..Len(F) : i < j => F[i].end <= F[j].begin
      /\ \A j \in 1..Len(F) : Apart(F[j], section) \/ Within(F[j], section)
  BY <1>1 DEF SortedIn
<1>3. 1..k = 1..(k - 1) \cup {k} /\ k \in Nat /\ 1..k \subseteq 1..Len(F)
  BY <1>1
<1>4. CASE f.end <= g.position \/ f.begin >= section.end
  <2>1. Past(section, g, f) = g
    BY <1>4 DEF Past
  <2>2. f.begin < section.end => f.end <= g.position
    BY <1>0, <1>1, <1>4, <1>3
  <2> QED
    BY <1>0, <1>3, <2>1, <2>2 DEF WalkInv
<1>5. CASE f.end > g.position /\ f.begin < section.end
  <2> DEFINE gap == Code(g.position, f.begin, FALSE)
             new == IF f.begin > g.position THEN {gap} ELSE {}
             h == Past(section, g, f)
  <2>1. h.position = f.end /\ h.gaps = g.gaps \cup new
    <3>1. ~(f.end <= g.position \/ f.begin >= section.end)
      BY <1>0, <1>0, <1>1, <1>5
    <3> QED
      BY <3>1 DEF Past
  <2>4. /\ gap.begin = g.position /\ gap.end = f.begin /\ gap.function = FALSE
        /\ \A a \in new : a = gap /\ g.position < f.begin
        /\ g.position < f.begin => gap \in new
    BY <1>0, <1>1 DEF Code
  <2>13. gap \in [begin : Nat, end : Nat, function : {FALSE}]
    BY <1>0, <1>1 DEF Code
  <2> HIDE DEF gap, new, h
  <2>2. section.begin <= f.begin /\ f.end <= section.end
    BY <1>0, <1>1, <1>2, <1>5, <1>3 DEF Apart, Within, WalkInv
  <2>3. g.position <= f.begin
    <3>1. CASE g.position = section.begin
      BY <2>2, <3>1
    <3>2. ASSUME NEW j \in 1..(k - 1), g.position = F[j].end PROVE g.position <= f.begin
      BY <1>2, <1>0, <1>1, <3>2
    <3> QED
      BY <3>1, <3>2 DEF WalkInv
  <2>5. ASSUME NEW a \in new PROVE a \in Gap(section, F)
    <3>1. a = gap /\ g.position < f.begin
      BY <2>4
    <3>2. a \in [begin : Nat, end : Nat, function : {FALSE}]
      BY <3>1, <2>13
    <3>3. ASSUME NEW j \in DOMAIN F PROVE Apart(a, F[j])
      <4>1. CASE j <= k - 1
        <5>1. F[j].end <= f.begin /\ F[j].begin < section.end
          BY <1>0, <1>1, <1>2, <2>2, <4>1
        <5>2. F[j].end <= g.position
          <6>1. \A i \in 1..(k - 1) : F[i].begin < section.end => F[i].end <= g.position
            BY DEF WalkInv
          <6> QED
            BY <5>1, <4>1, <6>1, <1>1
        <5> QED
          BY <5>2, <3>1, <2>4 DEF Apart
      <4>2. CASE j >= k
        <5>1. f.begin <= F[j].begin
          <6>1. j = k \/ f.end <= F[j].begin
            BY <1>0, <1>1, <1>2, <4>2
          <6> QED
            BY <6>1, <1>0, <1>1
        <5> QED
          BY <5>1, <3>1, <2>4 DEF Apart
      <4> QED
        BY <4>1, <4>2, <1>0, <1>1
    <3> QED
      <4>1. section.begin <= a.begin /\ a.begin < a.end /\ a.end <= section.end
        <5>1. section.begin <= g.position
          BY <1>1 DEF WalkInv
        <5> QED
          BY <5>1, <3>1, <2>2, <2>4, <1>0, <1>1
      <4> QED
        BY <4>1, <3>2, <3>3 DEF Gap
  <2>6. \A a \in h.gaps : a.end <= h.position
    <3>1. ASSUME NEW a \in g.gaps PROVE a.end <= f.end
      <4>1. a.end <= g.position /\ a.end \in Nat
        BY DEF WalkInv, Gap
      <4> QED
        BY <4>1, <1>0, <1>1, <1>5
    <3>2. ASSUME NEW a \in new PROVE a.end <= f.end
      BY <1>0, <2>4
    <3> QED
      BY <2>1, <3>1, <3>2
  <2>7. ASSUME NEW a \in h.gaps, NEW b \in h.gaps PROVE a = b \/ Apart(a, b)
    <3>1. \A c \in g.gaps : c.end <= g.position
      BY DEF WalkInv
    <3>2. \A c \in new : c = gap /\ c.begin = g.position
      BY <2>4
    <3>3. CASE a \in g.gaps /\ b \in g.gaps
      BY <3>3 DEF WalkInv
    <3>4. CASE a \in new /\ b \in new
      BY <3>2, <3>4
    <3> QED
      BY <2>1, <3>1, <3>2, <3>3, <3>4 DEF Apart
  <2>8. ASSUME NEW ip \in section.begin..(h.position - 1)
        PROVE  (\E j \in 1..k : Holds(F[j], ip)) \/ \E a \in h.gaps : Holds(a, ip)
    <3>1. CASE ip < g.position
      <4>1. (\E j \in 1..(k - 1) : Holds(F[j], ip)) \/ \E a \in g.gaps : Holds(a, ip)
        <5>1. ip \in section.begin..(g.position - 1)
          BY <3>1, <1>0, <1>1
        <5> QED
          BY <5>1 DEF WalkInv
      <4> QED
        BY <4>1, <1>3, <2>1
    <3>2. CASE g.position <= ip /\ ip < f.begin
      <4>1. gap \in h.gaps
        <5>1. f.begin > g.position
          BY <3>2, <1>0, <1>1, <2>1
        <5> QED
          BY <5>1, <2>1, <2>4
      <4>2. Holds(gap, ip)
        BY <3>2, <2>4 DEF Holds
      <4> QED
        BY <4>1, <4>2
    <3>3. CASE f.begin <= ip
      <4>1. Holds(f, ip)
        BY <3>3, <2>1, <1>0, <1>1 DEF Holds
      <4> QED
        BY <4>1, <1>0, <1>3
    <3>4. ip < g.position \/ (g.position <= ip /\ ip < f.begin) \/ f.begin <= ip
      BY <1>0, <1>1
    <3> QED
      BY <3>1, <3>2, <3>3, <3>4
  <2>9. h.gaps \subseteq Gap(section, F)
    BY <2>1, <2>5 DEF WalkInv
  <2>10. h.position \in section.begin..section.end
    BY <2>1, <2>2, <1>0, <1>1
  <2>11. ASSUME NEW j \in 1..k, F[j].begin < section.end PROVE F[j].end <= h.position
    <3>1. CASE j = k
      BY <3>1, <2>1, <1>0, <1>1
    <3>2. CASE j \in 1..(k - 1)
      BY <3>2, <2>11, <2>1, <1>0, <1>1, <1>5 DEF WalkInv
    <3> QED
      BY <3>1, <3>2, <1>3
  <2>12. \E j \in 1..k : h.position = F[j].end
    BY <2>1, <1>0, <1>3
  <2>14. WalkInv(section, F, k, h)
    BY <2>6, <2>7, <2>8, <2>9, <2>10, <2>11, <2>12 DEF WalkInv
  <2> QED
    BY <1>0, <2>14 DEF h
<1> QED
  BY <1>0, <1>1, <1>3, <1>4, <1>5

\* The walk of a section: after all its functions, the code before where it ended is in a
\* function or in one gap.
LEMMA WalkHolds ==
    ASSUME NEW section, NEW F, SortedIn(section, F)
    PROVE  WalkInv(section, F, Len(F), Walked(section, F))
<1> DEFINE S == {k \in 0..Len(F) : WalkInv(section, F, k, Walk(section, F)[k])}
<1>1. /\ section \in Extents /\ F \in Seq(Extents) /\ Len(F) \in Nat
      /\ section.begin \in Nat /\ section.end \in Nat /\ section.begin < section.end
  BY DEF SortedIn, Extents
<1>2. 0 \in S
  <2>1. Walk(section, F)[0] = [position |-> section.begin, gaps |-> {}]
    BY <1>1, WalkIs
  <2>2. WalkInv(section, F, 0, [position |-> section.begin, gaps |-> {}])
    BY <1>1 DEF WalkInv
  <2> QED
    BY <1>1, <2>1, <2>2
<1>3. ASSUME NEW k \in 0..(Len(F) - 1), k \in S PROVE k + 1 \in S
  <2>1. k + 1 \in 1..Len(F) /\ (k + 1) - 1 = k
    BY <1>1
  <2>2. WalkInv(section, F, (k + 1) - 1, Walk(section, F)[k])
    BY <1>3, <2>1
  <2>3. Walk(section, F)[k + 1] = Past(section, Walk(section, F)[k], F[k + 1])
    BY <1>1, <2>1, WalkIs
  <2>4. WalkInv(section, F, k + 1, Walk(section, F)[k + 1])
    BY <2>1, <2>2, <2>3, WalkStep
  <2> QED
    BY <2>1, <2>4
<1>4. \A k \in 0..Len(F) : k \in S
  <2> HIDE DEF S
  <2> QED
    BY <1>1, <1>2, <1>3, Climb
<1>5. Len(F) \in S
  BY <1>1, <1>4
<1> QED
  BY <1>5 DEF Walked

\* The gaps of a section are apart, and leave no code of it undescribed.
LEMMA GapsFill ==
    ASSUME NEW section, NEW F, SortedIn(section, F)
    PROVE  /\ Gaps(section, F) \subseteq Gap(section, F)
           /\ \A a, b \in Gaps(section, F) : a = b \/ Apart(a, b)
           /\ \A ip \in section.begin..(section.end - 1) :
                (\E j \in DOMAIN F : Holds(F[j], ip)) \/ \E a \in Gaps(section, F) : Holds(a, ip)
<1> DEFINE w == Walked(section, F)
           last == Code(w.position, section.end, FALSE)
           new == IF w.position < section.end THEN {last} ELSE {}
<1>1. /\ F \in Seq(Extents) /\ Len(F) \in Nat /\ DOMAIN F = 1..Len(F)
      /\ \A j \in 1..Len(F) : F[j].begin \in Nat /\ F[j].end \in Nat /\ F[j].begin < F[j].end
      /\ section.begin \in Nat /\ section.end \in Nat /\ section.begin < section.end
  BY DEF SortedIn, Extents
<1>2. WalkInv(section, F, Len(F), w)
  BY WalkHolds
<1>3. Gaps(section, F) = w.gaps \cup new
  BY DEF Gaps
<1>4. w.position \in section.begin..section.end /\ w.position \in Nat
  BY <1>1, <1>2 DEF WalkInv
<1> HIDE DEF w
<1>5. /\ last.begin = w.position /\ last.end = section.end /\ last.function = FALSE
      /\ last \in [begin : Nat, end : Nat, function : {FALSE}]
      /\ \A a \in new : a = last /\ w.position < section.end
      /\ w.position < section.end => last \in new
  BY <1>1, <1>4 DEF Code
<1> HIDE DEF last, new
<1>6. ASSUME NEW a \in new PROVE a \in Gap(section, F)
  <2>1. ASSUME NEW j \in DOMAIN F PROVE Apart(a, F[j])
    <3>1. F[j].begin < section.end => F[j].end <= w.position
      BY <1>1, <1>2 DEF WalkInv
    <3> QED
      BY <3>1, <1>1, <1>4, <1>5 DEF Apart
  <2>2. section.begin <= a.begin /\ a.begin < a.end /\ a.end <= section.end
    BY <1>1, <1>4, <1>5
  <2> QED
    BY <1>5, <2>1, <2>2 DEF Gap
<1>7. ASSUME NEW a \in w.gaps \cup new, NEW b \in w.gaps \cup new PROVE a = b \/ Apart(a, b)
  <2>1. \A c \in w.gaps : c.end <= w.position
    BY <1>2 DEF WalkInv
  <2>2. CASE a \in w.gaps /\ b \in w.gaps
    BY <1>2, <2>2 DEF WalkInv
  <2>3. CASE a \in new /\ b \in new
    BY <1>5, <2>3
  <2> QED
    BY <1>5, <2>1, <2>2, <2>3 DEF Apart
<1>8. ASSUME NEW ip \in section.begin..(section.end - 1)
      PROVE  (\E j \in DOMAIN F : Holds(F[j], ip)) \/ \E a \in w.gaps \cup new : Holds(a, ip)
  <2>1. CASE ip < w.position
    <3>1. ip \in section.begin..(w.position - 1)
      BY <2>1, <1>1, <1>4
    <3> QED
      BY <3>1, <1>1, <1>2 DEF WalkInv
  <2>2. CASE w.position <= ip
    <3>1. last \in new /\ Holds(last, ip)
      BY <2>2, <1>1, <1>4, <1>5 DEF Holds
    <3> QED
      BY <3>1
  <2> QED
    BY <2>1, <2>2, <1>1, <1>4
<1>9. w.gaps \subseteq Gap(section, F)
  BY <1>2 DEF WalkInv
<1> QED
  BY <1>3, <1>6, <1>7, <1>8, <1>9

\* The ranges described are apart and cover the sections, code of functions
\* as theirs and the rest as leaves'.
LEMMA RangesTile ==
    ASSUME NEW l \in Layouts
    PROVE  /\ make_cfi_ranges(l) \subseteq [begin : Nat, end : Nat, function : BOOLEAN]
           /\ \A a \in make_cfi_ranges(l) : a.begin < a.end
           /\ \A r, q \in make_cfi_ranges(l) : r = q \/ Apart(r, q)
           /\ \A section \in l.sections : \A ip \in section.begin..(section.end - 1) :
                (\E j \in DOMAIN l.functions : Holds(l.functions[j], ip))
                \/ \E a \in make_cfi_ranges(l) : Holds(a, ip) /\ ~a.function
           /\ \A j \in DOMAIN l.functions :
                Code(l.functions[j].begin, l.functions[j].end, TRUE) \in make_cfi_ranges(l)
           /\ \A a \in make_cfi_ranges(l) : \A j \in DOMAIN l.functions :
                ~a.function => Apart(a, l.functions[j])
<1> DEFINE F == l.functions
           own == {Code(F[k].begin, F[k].end, TRUE) : k \in DOMAIN F}
           gaps == UNION {Gaps(section, F) : section \in l.sections}
<1>1. make_cfi_ranges(l) = own \cup gaps
  BY DEF make_cfi_ranges
<1>2. /\ l.sections \subseteq Extents /\ F \in Seq(Extents)
      /\ \A r, q \in l.sections : r = q \/ Apart(r, q)
      /\ \A j, k \in DOMAIN F : j < k => F[j].end <= F[k].begin
      /\ \A k \in DOMAIN F : \E r \in l.sections : r.begin <= F[k].begin /\ F[k].end <= r.end
  BY LayoutsAssumption DEF Apart
<1> HIDE DEF F
<1>3. /\ DOMAIN F \subseteq Nat
      /\ \A j \in DOMAIN F : F[j].begin \in Nat /\ F[j].end \in Nat /\ F[j].begin < F[j].end
      /\ \A r \in l.sections : r.begin \in Nat /\ r.end \in Nat /\ r.begin < r.end
  BY <1>2 DEF Extents
<1>4. ASSUME NEW section \in l.sections PROVE SortedIn(section, F)
  <2>1. ASSUME NEW k \in DOMAIN F
        PROVE  Apart(F[k], section) \/ Within(F[k], section)
    <3>1. PICK r \in l.sections : r.begin <= F[k].begin /\ F[k].end <= r.end
      BY <1>2
    <3>2. CASE r = section
      BY <3>1, <3>2 DEF Within
    <3>3. CASE Apart(r, section)
      <4>1. /\ r.begin \in Nat /\ r.end \in Nat /\ section.begin \in Nat /\ section.end \in Nat
            /\ F[k].begin \in Nat /\ F[k].end \in Nat
        BY <1>3
      <4>2. r.end <= section.begin \/ section.end <= r.begin
        BY <3>3 DEF Apart
      <4>3. F[k].end <= section.begin \/ section.end <= F[k].begin
        BY <3>1, <4>1, <4>2
      <4> QED
        BY <4>3 DEF Apart
    <3> QED
      BY <3>2, <3>3, <1>2
  <2> QED
    BY <1>2, <2>1 DEF SortedIn
<1>5. ASSUME NEW section \in l.sections, NEW a \in Gaps(section, F)
      PROVE  /\ a \in [begin : Nat, end : Nat, function : BOOLEAN] /\ ~a.function
             /\ section.begin <= a.begin /\ a.begin < a.end /\ a.end <= section.end
             /\ \A j \in DOMAIN F : Apart(a, F[j])
  <2>1. a \in Gap(section, F)
    BY <1>4, GapsFill
  <2> QED
    BY <2>1 DEF Gap
<1>6. ASSUME NEW a \in own
      PROVE  \E j \in DOMAIN F : a.begin = F[j].begin /\ a.end = F[j].end /\ a.function
                                 /\ a = Code(F[j].begin, F[j].end, TRUE)
  BY DEF Code
<1> HIDE DEF own
<1>7. ASSUME NEW a \in own \cup gaps
      PROVE  a \in [begin : Nat, end : Nat, function : BOOLEAN] /\ a.begin < a.end
  <2>1. CASE a \in own
    <3>1. PICK j \in DOMAIN F : a = Code(F[j].begin, F[j].end, TRUE)
      BY <1>6, <2>1
    <3> QED
      BY <3>1, <1>3 DEF Code
  <2>2. CASE a \in gaps
    BY <2>2, <1>5
  <2> QED
    BY <2>1, <2>2
<1>8. ASSUME NEW r \in own \cup gaps, NEW q \in own \cup gaps PROVE r = q \/ Apart(r, q)
  <2>1. CASE r \in own /\ q \in own
    <3>1. PICK j \in DOMAIN F : r.begin = F[j].begin /\ r.end = F[j].end
                               /\ r = Code(F[j].begin, F[j].end, TRUE)
      BY <1>6, <2>1
    <3>2. PICK k \in DOMAIN F : q.begin = F[k].begin /\ q.end = F[k].end
                               /\ q = Code(F[k].begin, F[k].end, TRUE)
      BY <1>6, <2>1
    <3>3. j < k \/ j = k \/ k < j
      BY <1>3
    <3> QED
      BY <3>1, <3>2, <3>3, <1>2 DEF Apart
  <2>2. ASSUME NEW a \in own, NEW b \in gaps PROVE Apart(a, b) /\ Apart(b, a)
    <3>1. PICK j \in DOMAIN F : a.begin = F[j].begin /\ a.end = F[j].end
      BY <1>6
    <3>2. Apart(b, F[j])
      BY <1>5
    <3> QED
      BY <3>1, <3>2 DEF Apart
  <2>4. CASE r \in gaps /\ q \in gaps
    <3>1. PICK s \in l.sections : r \in Gaps(s, F)
      BY <2>4
    <3>2. PICK t \in l.sections : q \in Gaps(t, F)
      BY <2>4
    <3>3. CASE s = t
      BY <3>1, <3>2, <3>3, <1>4, GapsFill
    <3>4. CASE Apart(s, t)
      <4>1. /\ r.begin \in Nat /\ r.end \in Nat /\ q.begin \in Nat /\ q.end \in Nat
            /\ s.begin <= r.begin /\ r.end <= s.end /\ t.begin <= q.begin /\ q.end <= t.end
        BY <3>1, <3>2, <1>5
      <4> QED
        BY <3>4, <4>1, <1>3 DEF Apart
    <3> QED
      BY <3>3, <3>4, <1>2
  <2> QED
    BY <2>1, <2>2, <2>4
<1>9. ASSUME NEW section \in l.sections, NEW ip \in section.begin..(section.end - 1)
      PROVE  (\E j \in DOMAIN F : Holds(F[j], ip)) \/ \E a \in gaps : Holds(a, ip) /\ ~a.function
  <2>1. (\E j \in DOMAIN F : Holds(F[j], ip)) \/ \E a \in Gaps(section, F) : Holds(a, ip)
    BY <1>4, GapsFill
  <2> QED
    BY <2>1, <1>5
<1>10. \A j \in DOMAIN F : Code(F[j].begin, F[j].end, TRUE) \in own
  BY DEF own
<1>11. ASSUME NEW a \in own \cup gaps, NEW j \in DOMAIN F, ~a.function PROVE Apart(a, F[j])
  BY <1>5, <1>6, <1>11
<1> HIDE DEF gaps
<1> QED
  BY <1>1, <1>7, <1>8, <1>9, <1>10, <1>11 DEF F

\* At an address that a range holds, that range alone describes it.
LEMMA OneDescribes ==
    ASSUME NEW l \in Layouts, NEW ip \in Nat, NEW r \in make_cfi_ranges(l), Holds(r, ip)
    PROVE  Describing(l, ip) = {r}
<1> DEFINE R == make_cfi_ranges(l)
<1>1. /\ R \subseteq [begin : Nat, end : Nat, function : BOOLEAN]
      /\ \A a \in R : a.begin < a.end
      /\ \A a, q \in R : a = q \/ Apart(a, q)
  BY RangesTile
<1> HIDE DEF R
<1>2. r \in R
  BY DEF R
<1>3. Describing(l, ip) = {a \in R : Holds(a, ip) /\ \A q \in R : q.begin <= a.begin \/ q.begin > ip}
  BY DEF Describing, Holds, R
<1>4. ASSUME NEW q \in R PROVE q.begin <= r.begin \/ q.begin > ip
  BY <1>1, <1>2 DEF Holds, Apart
<1>5. ASSUME NEW a \in R, Holds(a, ip) PROVE a = r
  BY <1>1, <1>2, <1>5 DEF Holds, Apart
<1> QED
  BY <1>2, <1>3, <1>4, <1>5

---------------------------------------------------------------------------
(* Where a thread is.                                                      *)

\* An executable section holds the address.
InSection(ip) == \E section \in layout.sections : ip \in section.begin..(section.end - 1)

\* A thread is in one of the functions or at one address outside them.
PlaceInv ==
    /\ info \in Infos /\ layout \in Layouts /\ at \in Nat
    /\ fn = Nowhere => at = 0
    /\ fn # Nowhere =>
        /\ ~Rejected(info, layout)
        /\ \/ /\ fn.function /\ at < fn.end - fn.begin
              /\ \E k \in DOMAIN layout.functions :
                    fn = Code(layout.functions[k].begin, layout.functions[k].end, TRUE)
           \/ /\ at = 0
              /\ \E ip \in Nat : fn = Code(ip, ip + 1, FALSE) /\ InSection(ip) /\ ~InFunction(ip)

\* The functions and sections of a layout are of numbers.
LEMMA Numbers ==
    ASSUME NEW l \in Layouts
    PROVE  /\ \A k \in DOMAIN l.functions :
                /\ l.functions[k].begin \in Nat /\ l.functions[k].end \in Nat
                /\ l.functions[k].begin < l.functions[k].end
           /\ \A section \in l.sections : section.begin \in Nat /\ section.end \in Nat
<1>1. l.sections \subseteq Extents /\ l.functions \in Seq(Extents)
  BY LayoutsAssumption
<1>2. \A k \in DOMAIN l.functions : l.functions[k] \in Extents
  BY <1>1
<1> QED
  BY <1>1, <1>2 DEF Extents

\* At first no function runs.
LEMMA PlaceInit == ASSUME UnwindInit PROVE PlaceInv
BY DEF UnwindInit, PlaceInv

\* Every step leaves a thread in a function of the DLL, or at an address outside them.
LEMMA PlacePreserved == ASSUME PlaceInv, [UnwindNext]_unwind_vars PROVE PlaceInv'
<1>1. CASE Enter
  <2>1. PICK k \in DOMAIN layout.functions :
            fn' = Code(layout.functions[k].begin, layout.functions[k].end, TRUE)
    BY <1>1 DEF Enter
  <2>2. fn'.function /\ 0 < fn'.end - fn'.begin
    BY <2>1, Numbers DEF Code, PlaceInv
  <2> QED
    BY <1>1, <2>1, <2>2 DEF Enter, PlaceInv
<1>2. CASE EnterLeaf
  <2>0. PICK section \in layout.sections : \E ip \in section.begin..(section.end - 1) :
            ~InFunction(ip) /\ fn' = Code(ip, ip + 1, FALSE)
    BY <1>2 DEF EnterLeaf
  <2>1. PICK ip \in section.begin..(section.end - 1) :
            ~InFunction(ip) /\ fn' = Code(ip, ip + 1, FALSE)
    BY <2>0
  <2>2. ip \in Nat
    BY <2>1, Numbers DEF PlaceInv
  <2>3. layout' = layout /\ info' = info /\ at' = at /\ fn = Nowhere /\ ~Rejected(info, layout)
    BY <1>2 DEF EnterLeaf
  <2>4. InSection(ip)' /\ ~InFunction(ip)'
    BY <2>1, <2>3 DEF InSection, InFunction
  <2> QED
    BY <2>1, <2>2, <2>3, <2>4 DEF PlaceInv
<1>3. ASSUME fn # Nowhere, fn.function, UNCHANGED <<info, layout, fn>>,
             at' \in Nat, at' < fn.end - fn.begin
      PROVE  PlaceInv'
  BY <1>3 DEF PlaceInv, Code
<1>4. CASE Prologue
  <2>1. fn # Nowhere /\ fn.function /\ UNCHANGED <<info, layout, fn>>
        /\ at' = at + 1 /\ at + 1 < fn.end - fn.begin
    BY <1>4 DEF Prologue
  <2>2. at \in Nat
    BY DEF PlaceInv
  <2> QED
    BY <1>3, <2>1, <2>2
<1>5. CASE Body
  <2>1. fn # Nowhere /\ fn.function /\ UNCHANGED <<info, layout, fn, at>>
    BY <1>5 DEF Body, Inside
  <2>2. at < fn.end - fn.begin
    BY <2>1 DEF PlaceInv, Code
  <2> QED
    BY <1>3, <2>1, <2>2 DEF PlaceInv
<1>6. CASE BodyEnds
  <2>1. fn # Nowhere /\ fn.function /\ UNCHANGED <<info, layout, fn>> /\ at' = fn.end - fn.begin - 1
    BY <1>6 DEF BodyEnds, Inside
  <2>2. PICK k \in DOMAIN layout.functions :
            fn = Code(layout.functions[k].begin, layout.functions[k].end, TRUE)
    BY <2>1 DEF PlaceInv, Code
  <2>3. fn.begin \in Nat /\ fn.end \in Nat /\ fn.begin < fn.end
    BY <2>2, Numbers DEF Code, PlaceInv
  <2> QED
    BY <1>3, <2>1, <2>3
<1>7. CASE UNCHANGED unwind_vars
  BY <1>7 DEF unwind_vars, PlaceInv, InSection, InFunction
<1> QED
  BY <1>1, <1>2, <1>4, <1>5, <1>6, <1>7 DEF UnwindNext

\* A thread that runs in a DLL is where one range describes it, its function's
\* or, outside of functions, a leaf's.
LEMMA PlaceDescribed ==
    ASSUME PlaceInv, fn # Nowhere
    PROVE  \E r \in make_cfi_ranges(layout) :
                /\ Describing(layout, Pc) = {r} /\ r.function = fn.function
                /\ fn.function => r.begin = fn.begin
                /\ fn.begin \in Nat /\ at \in Nat
<1>1. layout \in Layouts
  BY DEF PlaceInv
<1>2. CASE fn.function
  <2>1. PICK k \in DOMAIN layout.functions :
            fn = Code(layout.functions[k].begin, layout.functions[k].end, TRUE)
    BY <1>2 DEF PlaceInv, Code
  <2>2. fn \in make_cfi_ranges(layout)
    BY <1>1, <2>1, RangesTile
  <2>3. fn.begin \in Nat /\ fn.end \in Nat /\ fn.function = TRUE /\ at \in Nat
    BY <1>1, <2>1, Numbers DEF Code, PlaceInv
  <2>4. at < fn.end - fn.begin
    BY <2>3 DEF PlaceInv, Code
  <2>5. Pc \in Nat /\ Holds(fn, Pc)
    BY <2>3, <2>4 DEF Pc, Holds
  <2> QED
    BY <1>1, <2>2, <2>3, <2>5, OneDescribes
<1>3. CASE ~fn.function
  <2>1. PICK ip \in Nat : fn = Code(ip, ip + 1, FALSE) /\ InSection(ip) /\ ~InFunction(ip)
    BY <1>3 DEF PlaceInv
  <2>2. Pc = ip /\ fn.begin = ip /\ fn.function = FALSE /\ at = 0
    BY <1>3, <2>1 DEF PlaceInv, Pc, Code
  <2>3. ~\E j \in DOMAIN layout.functions : Holds(layout.functions[j], ip)
    BY <2>1 DEF InFunction, Holds
  <2>4. PICK a \in make_cfi_ranges(layout) : Holds(a, ip) /\ ~a.function
    BY <1>1, <2>1, <2>3, RangesTile DEF InSection
  <2>5. a.function = FALSE
    BY <1>1, <2>4, RangesTile
  <2> QED
    BY <1>1, <2>2, <2>4, <2>5, OneDescribes
<1> QED
  BY <1>2, <1>3

\* Every address a thread of the DLL can run at has one frame description,
\* its function's or a leaf's, in every layout of sections and functions
\* (make_cfi_ranges).
THEOREM EveryPcDescribed == UnwindSpec => []EveryPcHasItsDescription
<1>1. PlaceInv => EveryPcHasItsDescription
  BY PlaceDescribed DEF EveryPcHasItsDescription
<1> QED
  BY <1>1, PlaceInit, PlacePreserved, PTL DEF UnwindSpec

---------------------------------------------------------------------------
(* Numbers of variable length are read as they were written.               *)

\* How far a number is from 0.
Size(n) == IF n < 0 THEN -n ELSE n

\* A number is its low 7 bits and the rest, which is nearer to 0, or to -1.
LEMMA Halves == \A n \in Int :
    /\ n \div 128 \in Int /\ n % 128 \in 0..127 /\ n = (n % 128) + 128 * (n \div 128)
    /\ n > 0 => n \div 128 \in 0..(n - 1)
    /\ n = 0 => n \div 128 = 0
    /\ n < 0 => n \div 128 < 0
    /\ n < -1 => n \div 128 > n
    /\ n = -1 => n \div 128 = -1
<1> SUFFICES ASSUME NEW n \in Int
             PROVE  /\ n \div 128 \in Int /\ n % 128 \in 0..127 /\ n = (n % 128) + 128 * (n \div 128)
                    /\ n > 0 => n \div 128 \in 0..(n - 1)
                    /\ n = 0 => n \div 128 = 0
                    /\ n < 0 => n \div 128 < 0
                    /\ n < -1 => n \div 128 > n
                    /\ n = -1 => n \div 128 = -1
  OBVIOUS
<1>1. n \div 128 \in Int
  OBVIOUS
<1>2. n % 128 \in 0..127 
  OBVIOUS
<1>3. n = (n % 128) + 128 * (n \div 128)
  OBVIOUS
<1> QED
  BY <1>1, <1>2, <1>3

\* The shifts are what their steps make of them.
LEMMA ShiftedIs ==
    ASSUME NEW n \in Int
    PROVE  /\ Size(n) \in Nat /\ DOMAIN Shifted(n) = 0..Size(n) /\ Shifted(n)[0] = n
           /\ \A k \in 0..Size(n) : Shifted(n)[k] \in Int
           /\ \A k \in 1..Size(n) : Shifted(n)[k] = Shifted(n)[k - 1] \div 128
<1> DEFINE m == Size(n)
           Is(f) == f = [k \in 0..m |-> IF k = 0 THEN n ELSE f[k - 1] \div 128]
           G == [k \in 1..m |-> [r \in Int |-> r \div 128]]
<1>1. m \in Nat
  BY DEF Size
<1>2. G \in [1..m -> [Int -> Int]]
  BY Halves
<1>3. PICK s : Follows(Int, n, m, G, s)
  <2> HIDE DEF G, m
  <2> QED
    BY <1>1, <1>2, Chain
<1>4. Is(s)
  <2> HIDE DEF m
  <2>1. /\ s \in [0..m -> Int] /\ s[0] = n
        /\ \A k \in 1..m : s[k] = G[k][s[k - 1]]
    <3> HIDE DEF G
    <3> QED
      BY <1>3 DEF Follows
  <2>2. \A k \in 1..m : s[k] = s[k - 1] \div 128
    <3>1. \A k \in 1..m : s[k - 1] \in Int
      BY <1>1, <2>1
    <3> QED
      BY <2>1, <3>1
  <2> HIDE DEF G
  <2> QED
    BY <2>1, <2>2
<1>5. \E f : Is(f)
  <2> HIDE DEF Is
  <2> QED
    BY <1>4
<1>6. Shifted(n) = CHOOSE f : Is(f)
  BY DEF Shifted, Size
<1>7. Is(Shifted(n))
  <2> HIDE DEF Is
  <2> QED
    BY <1>5, <1>6
<1>8. /\ DOMAIN Shifted(n) = 0..m /\ Shifted(n)[0] = n
      /\ \A k \in 1..m : Shifted(n)[k] = Shifted(n)[k - 1] \div 128
  <2> HIDE DEF m
  <2> QED
    BY <1>1, <1>7
<1>9. \A k \in 0..m : Shifted(n)[k] \in Int
  <2> DEFINE S == {k \in 0..m : Shifted(n)[k] \in Int}
  <2> HIDE DEF m
  <2>1. 0 \in S
    BY <1>1, <1>8
  <2>2. ASSUME NEW k \in 0..(m - 1), k \in S PROVE k + 1 \in S
    <3>1. k + 1 \in 1..m /\ (k + 1) - 1 = k
      BY <1>1
    <3> QED
      BY <1>8, <2>2, <3>1, Halves
  <2>3. \A k \in 0..m : k \in S
    <3> HIDE DEF S
    <3> QED
      BY <1>1, <2>1, <2>2, Climb
  <2> QED
    BY <2>3
<1> QED
  BY <1>1, <1>8, <1>9

\* The shifts of a number end in the sign, which a byte says all of.
LEMMA ShiftedEnds ==
    ASSUME NEW n \in Int, NEW Short, 0 \in Short, n < 0 => -1 \in Short
    PROVE  \E k \in 0..Size(n) :
                Shifted(n)[k] \in Short /\ \A j \in 0..(k - 1) : Shifted(n)[j] \notin Short
<1> DEFINE m == Size(n)
           r == Shifted(n)
           S == {k \in 0..m : IF n < 0 THEN r[k] < 0 /\ (r[k] >= n + k \/ r[k] = -1)
                             ELSE r[k] \in 0..(n - k)}
<1>1. /\ m \in Nat /\ r[0] = n /\ \A k \in 0..m : r[k] \in Int
      /\ \A k \in 1..m : r[k] = r[k - 1] \div 128
  BY ShiftedIs
<1>2. m = IF n < 0 THEN -n ELSE n
  BY DEF Size
<1> HIDE DEF m, r
<1>3. 0 \in S
  BY <1>1, <1>2
<1>4. ASSUME NEW k \in 0..(m - 1), k \in S PROVE k + 1 \in S
  <2>1. k + 1 \in 1..m /\ (k + 1) - 1 = k /\ k + 1 \in 0..m /\ k \in 0..m
    BY <1>1
  <2>2. r[k + 1] = r[k] \div 128 /\ r[k] \in Int
    BY <1>1, <2>1
  <2>3. CASE n < 0
    <3>1. r[k] < 0 /\ (r[k] >= n + k \/ r[k] = -1)
      BY <1>4, <2>3
    <3>2. r[k + 1] < 0 /\ (r[k + 1] >= n + (k + 1) \/ r[k + 1] = -1)
      <4>1. r[k + 1] < 0 /\ (r[k] = -1 => r[k + 1] = -1) /\ (r[k] < -1 => r[k + 1] > r[k])
        BY <2>2, <3>1, Halves
      <4>2. r[k + 1] \in Int
        BY <1>1, <2>1
      <4> QED
        BY <1>1, <2>1, <2>2, <3>1, <4>1, <4>2
    <3> QED
      BY <2>1, <2>3, <3>2
  <2>4. CASE ~(n < 0)
    <3>1. r[k] \in 0..(n - k)
      BY <1>4, <2>4
    <3>2. r[k + 1] \in 0..(n - (k + 1))
      <4>1. r[k] > 0 => r[k + 1] \in 0..(r[k] - 1)
        BY <2>2, Halves
      <4>2. r[k] = 0 => r[k + 1] = 0
        BY <2>2, Halves
      <4> QED
        BY <1>1, <1>2, <2>1, <2>2, <2>4, <3>1, <4>1, <4>2
    <3> QED
      BY <2>1, <2>4, <3>2
  <2> QED
    BY <2>3, <2>4
<1>5. \A k \in 0..m : k \in S
  <2> HIDE DEF S
  <2> QED
    BY <1>1, <1>3, <1>4, Climb
<1>6. m \in S
  BY <1>1, <1>5
<1>7. r[m] \in Short
  <2>1. CASE n < 0
    BY <1>1, <1>2, <1>6, <2>1
  <2>2. CASE ~(n < 0)
    BY <1>1, <1>2, <1>6, <2>2
  <2> QED
    BY <2>1, <2>2
<1> DEFINE T == {k \in 0..m : r[k] \in Short}
<1>8. PICK k \in T : \A j \in T : k <= j
  <2>1. T \in SUBSET Nat /\ T # {}
    BY <1>1, <1>7
  <2> HIDE DEF T
  <2> QED
    BY <2>1, Least
<1>9. \A j \in 0..(k - 1) : r[j] \notin Short
  BY <1>1, <1>8
<1> QED
  BY <1>8, <1>9 DEF m, r

\* A number is written as the low bits of its shifts up to a short one.
LEMMA LebIs ==
    ASSUME NEW n \in Int, NEW Short, 0 \in Short, n < 0 => -1 \in Short
    PROVE  \E last \in 0..Size(n) :
            /\ Shifted(n)[last] \in Short
            /\ append_leb(n, Short) =
                [k \in 1..(last + 1) |-> (Shifted(n)[k - 1] % 128) + IF k <= last THEN 128 ELSE 0]
<1> DEFINE P(k) == Shifted(n)[k] \in Short /\ \A j \in 0..(k - 1) : Shifted(n)[j] \notin Short
           last == CHOOSE k \in DOMAIN Shifted(n) : P(k)
<1>1. DOMAIN Shifted(n) = 0..Size(n) /\ Size(n) \in Nat
  BY ShiftedIs
<1>2. \E k \in DOMAIN Shifted(n) : P(k)
  BY <1>1, ShiftedEnds
<1>3. last \in DOMAIN Shifted(n) /\ P(last)
  <2> HIDE DEF P
  <2> QED
    BY <1>2
<1>4. append_leb(n, Short) =
        [k \in 1..(last + 1) |-> (Shifted(n)[k - 1] % 128) + IF k <= last THEN 128 ELSE 0]
  BY DEF append_leb
<1> HIDE DEF last
<1> QED
  BY <1>1, <1>3, <1>4

\* A number is written as one byte or more.
LEMMA LebSeq ==
    ASSUME NEW n \in Int, NEW Short, 0 \in Short, n < 0 => -1 \in Short
    PROVE  append_leb(n, Short) \in Seq(Nat) /\ Len(append_leb(n, Short)) >= 1
<1>1. PICK last \in 0..Size(n) :
        append_leb(n, Short) =
            [k \in 1..(last + 1) |-> (Shifted(n)[k - 1] % 128) + IF k <= last THEN 128 ELSE 0]
  BY LebIs
<1>2. last \in Nat /\ Size(n) \in Nat
  BY ShiftedIs
<1>3. \A k \in 1..(last + 1) :
        (Shifted(n)[k - 1] % 128) + (IF k <= last THEN 128 ELSE 0) \in Nat
  <2> SUFFICES ASSUME NEW k \in 1..(last + 1)
               PROVE  (Shifted(n)[k - 1] % 128) + (IF k <= last THEN 128 ELSE 0) \in Nat
    OBVIOUS
  <2>1. k - 1 \in 0..Size(n)
    BY <1>2
  <2>2. Shifted(n)[k - 1] % 128 \in 0..127
    <3>1. Shifted(n)[k - 1] \in Int
      BY <2>1, ShiftedIs
    <3> QED
      BY <3>1, Halves
  <2> QED
    BY <2>2
<1>4. append_leb(n, Short) \in [1..(last + 1) -> Nat]
  BY <1>1, <1>3
<1>5. last + 1 \in Nat
  BY <1>2
<1> QED
  BY <1>2, <1>4, <1>5, SeqDef

\* A number is read from its first byte and the number that follows it.
LEMMA ReadLebIs ==
    ASSUME NEW b \in Seq(Nat), NEW signed \in BOOLEAN, NEW k \in 1..Len(b)
    PROVE  ReadLeb(b, k, signed) =
            IF b[k] >= 128 /\ k < Len(b)
            THEN [n |-> b[k] - 128 + 128 * ReadLeb(b, k + 1, signed).n,
                  next |-> ReadLeb(b, k + 1, signed).next]
            ELSE [n |-> IF signed /\ b[k] >= 64 THEN b[k] - 128 ELSE b[k], next |-> k + 1]
<1> DEFINE size == Len(b)
           X == [n : Int, next : Nat]
           One(j) == [n |-> IF signed /\ b[j] >= 64 THEN b[j] - 128 ELSE b[j], next |-> j + 1]
           More(j, r) == IF b[j] >= 128 /\ j < size
                         THEN [n |-> b[j] - 128 + 128 * r.n, next |-> r.next] ELSE One(j)
           Is(f) == f = [j \in 1..size |-> More(j, f[j + 1])]
           G == [j \in 1..(size - 1) |-> [r \in X |-> More(size - j, r)]]
<1>1. size \in Nat /\ size - 1 \in Nat /\ size \in 1..size /\ \A j \in 1..size : b[j] \in Nat
  OBVIOUS
<1> HIDE DEF size
<1>2. ASSUME NEW j \in 1..size, NEW r \in X PROVE One(j) \in X /\ More(j, r) \in X
  <2>1. b[j] \in Nat
    BY <1>1
  <2>2. One(j) \in X
    BY <1>1, <2>1
  <2>3. [n |-> b[j] - 128 + 128 * r.n, next |-> r.next] \in X
    BY <2>1
  <2> HIDE DEF One, X
  <2> QED
    BY <2>2, <2>3
<1>3. \A j \in 1..(size - 1) : size - j \in 1..size
  BY <1>1
<1> HIDE DEF X
<1>4. G \in [1..(size - 1) -> [X -> X]]
  <2> HIDE DEF More
  <2> QED
    BY <1>2, <1>3
<1>5. One(size) \in X
  <2>1. [n |-> 0, next |-> 0] \in X
    BY DEF X
  <2> HIDE DEF More, One
  <2> QED
    BY <1>1, <1>2, <2>1
<1>6. PICK t : Follows(X, One(size), size - 1, G, t)
  <2> HIDE DEF G, One
  <2> QED
    BY <1>1, <1>4, <1>5, Chain
<1>7. /\ t \in [0..(size - 1) -> X] /\ t[0] = One(size)
      /\ \A j \in 1..(size - 1) : t[j] = G[j][t[j - 1]]
  <2> HIDE DEF G, One
  <2> QED
    BY <1>6 DEF Follows
<1> DEFINE f == [j \in 1..size |-> t[size - j]]
<1>8. ASSUME NEW j \in 1..size PROVE f[j] = More(j, f[j + 1])
  <2>1. CASE j = size
    <3>1. f[j] = One(j)
      <4> HIDE DEF One, More
      <4> QED
        BY <1>1, <1>7, <2>1
    <3>2. More(j, f[j + 1]) = One(j)
      <4> HIDE DEF One, f
      <4> QED
        BY <1>1, <2>1
    <3> QED
      BY <3>1, <3>2
  <2>2. CASE j < size
    <3> DEFINE i == size - j
    <3>1. i \in 1..(size - 1) /\ i - 1 \in 0..(size - 1) /\ size - i = j /\ size - (j + 1) = i - 1
          /\ j + 1 \in 1..size
      BY <1>1, <2>2
    <3>2. t[i] = G[i][t[i - 1]] /\ t[i - 1] \in X
      <4> HIDE DEF G, i
      <4> QED
        BY <1>7, <3>1
    <3>3. G[i][t[i - 1]] = More(j, t[i - 1])
      <4> HIDE DEF More, i
      <4> QED
        BY <3>1, <3>2
    <3>4. f[j] = t[i] /\ f[j + 1] = t[i - 1]
      BY <3>1
    <3> HIDE DEF More, G, i, f
    <3> QED
      BY <3>2, <3>3, <3>4
  <2> QED
    BY <2>1, <2>2, <1>1
<1>9. Is(f)
  <2> HIDE DEF More
  <2> QED
    BY <1>8
<1>10. \E g : Is(g)
  <2> HIDE DEF Is, f
  <2> QED
    BY <1>9
<1> DEFINE h == CHOOSE g : Is(g)
<1>11. Is(h)
  <2> HIDE DEF Is
  <2> QED
    BY <1>10
<1>12. \A j : ReadLeb(b, j, signed) = h[j]
  BY DEF ReadLeb, size
<1>13. h[k] = More(k, h[k + 1])
  <2> HIDE DEF h, More
  <2> QED
    BY <1>1, <1>11 DEF size
<1> HIDE DEF h
<1> QED
  BY <1>12, <1>13 DEF size

\* The bytes w are those of b from the p-th on.
Stands(b, p, w) ==
    /\ p \in Nat \ {0} /\ p + Len(w) <= Len(b) + 1
    /\ \A k \in 1..Len(w) : b[p + k - 1] = w[k]

\* The numbers a byte says all of.
Shorts(signed) == IF signed THEN -64..63 ELSE 0..127

\* A number that fits one byte is read back from its 7 bits.
LEMMA ShortByte ==
    ASSUME NEW signed \in BOOLEAN, NEW n \in Shorts(signed)
    PROVE  /\ n \in Int /\ n % 128 < 128
           /\ n = IF signed /\ n % 128 >= 64 THEN (n % 128) - 128 ELSE n % 128
<1>1. CASE signed
  <2>1. n \in -64..63
    BY <1>1 DEF Shorts
  <2>2. (n >= 0 => n % 128 = n) /\ (n < 0 => n % 128 = n + 128)
    BY <2>1
  <2> QED
    BY <1>1, <2>1, <2>2
<1>2. CASE ~signed
  <2>1. n \in 0..127
    BY <1>2 DEF Shorts
  <2> QED
    BY <1>2, <2>1
<1> QED
  BY <1>1, <1>2

\* What append_uleb and append_sleb write is what a reader reads.
THEOREM LebReads ==
    ASSUME NEW b \in Seq(Nat), NEW p, NEW signed \in BOOLEAN, NEW n \in Int, n < 0 => signed,
           Stands(b, p, append_leb(n, Shorts(signed)))
    PROVE  ReadLeb(b, p, signed) = [n |-> n, next |-> p + Len(append_leb(n, Shorts(signed)))]
<1> DEFINE r == Shifted(n)
           w == append_leb(n, Shorts(signed))
<1>1. 0 \in Shorts(signed) /\ (n < 0 => -1 \in Shorts(signed))
  BY DEF Shorts
<1>2. PICK last \in 0..Size(n) :
        /\ r[last] \in Shorts(signed)
        /\ w = [k \in 1..(last + 1) |-> (r[k - 1] % 128) + IF k <= last THEN 128 ELSE 0]
  BY <1>1, LebIs
<1>3. /\ Size(n) \in Nat /\ r[0] = n /\ \A k \in 0..last : r[k] \in Int
      /\ \A k \in 1..last : r[k] = r[k - 1] \div 128
  <2>1. /\ Size(n) \in Nat /\ r[0] = n /\ \A k \in 0..Size(n) : r[k] \in Int
        /\ \A k \in 1..Size(n) : r[k] = r[k - 1] \div 128
    BY ShiftedIs
  <2>2. 0..last \subseteq 0..Size(n) /\ 1..last \subseteq 1..Size(n)
    BY <2>1
  <2> HIDE DEF r
  <2> QED
    BY <2>1, <2>2
<1>4. w \in Seq(Nat)
  BY <1>1, LebSeq
<1>5. Len(w) = last + 1 /\ last \in Nat
  BY <1>2, <1>3, <1>4
<1>6. /\ p \in Nat \ {0} /\ p + last \in 1..Len(b) /\ Len(b) \in Nat
      /\ \A k \in 0..last : b[p + k] = (r[k] % 128) + IF k < last THEN 128 ELSE 0
  <2>1. Stands(b, p, w)
    OBVIOUS
  <2> HIDE DEF w, r
  <2>2. /\ p \in Nat \ {0} /\ p + (last + 1) <= Len(b) + 1
        /\ \A k \in 1..(last + 1) : b[p + k - 1] = w[k]
    BY <1>5, <2>1 DEF Stands
  <2>3. ASSUME NEW k \in 0..last PROVE b[p + k] = (r[k] % 128) + IF k < last THEN 128 ELSE 0
    <3>1. k + 1 \in 1..(last + 1) /\ p + (k + 1) - 1 = p + k /\ (k + 1) - 1 = k
      BY <1>5, <2>2
    <3>2. w[k + 1] = (r[k] % 128) + IF k + 1 <= last THEN 128 ELSE 0
      BY <1>2, <3>1
    <3>3. k + 1 <= last <=> k < last
      BY <1>5
    <3> QED
      BY <2>2, <3>1, <3>2, <3>3
  <2> QED
    BY <1>5, <2>2, <2>3
<1> HIDE DEF w, r
<1> DEFINE Reads(k) == ReadLeb(b, p + k, signed) = [n |-> r[k], next |-> p + last + 1]
           S == {j \in 0..last : Reads(last - j)}
<1>7. 0 \in S
  <2>1. last \in 0..last /\ p + last \in 1..Len(b)
    BY <1>5, <1>6
  <2>2. b[p + last] = r[last] % 128
    <3>1. b[p + last] = (r[last] % 128) + 0
      BY <1>6, <2>1
    <3>2. r[last] \in Int
      BY <1>3, <2>1
    <3> QED
      BY <3>1, <3>2
  <2>3. /\ r[last] % 128 < 128 /\ r[last] % 128 \in Int
        /\ r[last] = IF signed /\ r[last] % 128 >= 64 THEN (r[last] % 128) - 128 ELSE r[last] % 128
    BY <1>2, ShortByte
  <2>4. ReadLeb(b, p + last, signed) =
            [n |-> IF signed /\ b[p + last] >= 64 THEN b[p + last] - 128 ELSE b[p + last],
             next |-> (p + last) + 1]
    <3> DEFINE q == p + last
    <3>1. ~(b[q] >= 128)
      BY <2>2, <2>3
    <3>2. q \in 1..Len(b)
      BY <2>1
    <3> HIDE DEF q
    <3> QED
      BY <3>1, <3>2, ReadLebIs DEF q
  <2>5. Reads(last)
    BY <2>2, <2>3, <2>4
  <2> HIDE DEF Reads
  <2> QED
    BY <1>5, <2>5
<1>8. ASSUME NEW j \in 0..(last - 1), j \in S PROVE j + 1 \in S
  <2> DEFINE k == last - (j + 1)
  <2>1. /\ k \in 0..last /\ k < last /\ k + 1 \in 1..last /\ last - j = k + 1 /\ (k + 1) - 1 = k
        /\ p + k \in 1..Len(b) /\ p + k < Len(b) /\ (p + k) + 1 = p + (k + 1)
    BY <1>5, <1>6
  <2>2. Reads(k + 1)
    <3> HIDE DEF Reads, k
    <3> QED
      BY <1>8, <2>1
  <2> HIDE DEF k
  <2>3. /\ b[p + k] = (r[k] % 128) + 128 /\ r[k] \in Int /\ r[k + 1] = r[k] \div 128
    BY <1>3, <1>6, <2>1
  <2>4. r[k] % 128 \in 0..127 /\ r[k] = (r[k] % 128) + 128 * r[k + 1] /\ r[k + 1] \in Int
    <3> DEFINE x == r[k]
    <3>1. x \in Int /\ r[k + 1] = x \div 128
      BY <2>3
    <3> HIDE DEF x
    <3>2. x % 128 \in 0..127 /\ x = (x % 128) + 128 * (x \div 128) /\ x \div 128 \in Int
      BY <3>1, Halves
    <3> QED
      BY <3>1, <3>2 DEF x
  <2>5. ReadLeb(b, p + k, signed) =
            [n |-> b[p + k] - 128 + 128 * ReadLeb(b, (p + k) + 1, signed).n,
             next |-> ReadLeb(b, (p + k) + 1, signed).next]
    <3>1. b[p + k] >= 128
      BY <2>3, <2>4
    <3> QED
      BY <2>1, <3>1, ReadLebIs
  <2>6. ReadLeb(b, p + k, signed) = [n |-> b[p + k] - 128 + 128 * r[k + 1], next |-> p + last + 1]
    BY <2>1, <2>2, <2>5
  <2>7. Reads(k)
    BY <2>3, <2>4, <2>6
  <2> HIDE DEF Reads
  <2> QED
    BY <1>5, <2>1, <2>7 DEF k
<1>9. \A j \in 0..last : j \in S
  <2> HIDE DEF S
  <2> QED
    BY <1>5, <1>7, <1>8, Climb
<1>10. Reads(0)
  <2>1. last \in S /\ last - last = 0
    BY <1>5, <1>9
  <2> HIDE DEF Reads
  <2> QED
    BY <2>1
<1>11. p + 0 = p /\ p + last + 1 = p + Len(w)
  BY <1>5, <1>6
<1> QED
  BY <1>3, <1>10, <1>11 DEF w

---------------------------------------------------------------------------
(* Instructions are read as they were written.                             *)

\* Where two runs of bytes stand one after the other, each stands in its place.
LEMMA StandsParts ==
    ASSUME NEW b \in Seq(Nat), NEW p \in Nat, NEW u \in Seq(Nat), NEW v \in Seq(Nat),
           Stands(b, p, u \o v)
    PROVE  Stands(b, p, u) /\ Stands(b, p + Len(u), v)
<1> DEFINE w == u \o v
           m == Len(u)
           n == Len(v)
           size == Len(b)
<1>1. /\ m \in Nat /\ n \in Nat /\ size \in Nat /\ Len(w) = m + n
      /\ \A k \in 1..(m + n) : w[k] = IF k <= m THEN u[k] ELSE v[k - m]
  BY ConcatProperties
<1>2. /\ p \in Nat \ {0} /\ p + (m + n) <= size + 1
      /\ \A k \in 1..(m + n) : b[p + k - 1] = w[k]
  BY <1>1 DEF Stands
<1> HIDE DEF w, m, n, size
<1>3. ASSUME NEW k \in 1..m PROVE b[p + k - 1] = u[k]
  <2>1. k \in 1..(m + n) /\ k <= m
    BY <1>1
  <2> QED
    BY <1>1, <1>2, <2>1
<1>4. ASSUME NEW k \in 1..n PROVE b[(p + m) + k - 1] = v[k]
  <2>1. m + k \in 1..(m + n) /\ ~(m + k <= m) /\ (m + k) - m = k /\ (p + m) + k - 1 = p + (m + k) - 1
    BY <1>1, <1>2
  <2>2. w[m + k] = v[(m + k) - m]
    BY <1>1, <2>1
  <2> QED
    BY <1>2, <2>1, <2>2
<1> QED
  BY <1>1, <1>2, <1>3, <1>4 DEF Stands, m, n, size

\* An instruction: its code and its operands.
Begun(c, v) == <<c>> \o v

\* Where an instruction stands, its code and then its operand are found.
LEMMA StandsFirst ==
    ASSUME NEW b \in Seq(Nat), NEW p \in Nat, NEW c \in Nat, NEW v \in Seq(Nat),
           Stands(b, p, Begun(c, v))
    PROVE  /\ ~(p > Len(b)) /\ b[p] = c /\ Stands(b, p + 1, v)
           /\ Begun(c, v) \in Seq(Nat) /\ Len(Begun(c, v)) = 1 + Len(v)
<1>1. <<c>> \in Seq(Nat) /\ Len(<<c>>) = 1 /\ <<c>>[1] = c
  OBVIOUS
<1>2. Stands(b, p, <<c>>) /\ Stands(b, p + Len(<<c>>), v)
  BY <1>1, StandsParts DEF Begun
<1>3. p \in Nat \ {0} /\ p + 1 <= Len(b) + 1 /\ b[p + 1 - 1] = c
  BY <1>1, <1>2 DEF Stands
<1>4. p + 1 - 1 = p /\ p \in Nat /\ ~(p > Len(b))
  BY <1>3
<1>5. <<c>> \o v \in Seq(Nat) /\ Len(<<c>> \o v) = 1 + Len(v)
  BY <1>1, ConcatProperties
<1> QED
  BY <1>1, <1>2, <1>3, <1>4, <1>5 DEF Begun

Twofold(c, u, v) == <<c>> \o u \o v

\* Where an instruction of two operands stands, its code and both are found.
LEMMA StandsTwofold ==
    ASSUME NEW b \in Seq(Nat), NEW p \in Nat, NEW c \in Nat, NEW u \in Seq(Nat), NEW v \in Seq(Nat),
           Stands(b, p, Twofold(c, u, v))
    PROVE  /\ ~(p > Len(b)) /\ b[p] = c
           /\ Stands(b, p + 1, u) /\ Stands(b, p + 1 + Len(u), v)
           /\ Twofold(c, u, v) \in Seq(Nat) /\ Len(Twofold(c, u, v)) = 1 + Len(u) + Len(v)
<1> DEFINE t == u \o v
<1>1. t \in Seq(Nat) /\ Len(t) = Len(u) + Len(v) /\ Len(u) \in Nat /\ Len(v) \in Nat
  BY ConcatProperties
<1>2. Twofold(c, u, v) = Begun(c, t)
  <2>1. <<c>> \in Seq(Nat)
    OBVIOUS
  <2> QED
    BY <2>1, ConcatAssociative DEF Twofold, Begun
<1> HIDE DEF t
<1>3. /\ ~(p > Len(b)) /\ b[p] = c /\ Stands(b, p + 1, t)
      /\ Begun(c, t) \in Seq(Nat) /\ Len(Begun(c, t)) = 1 + Len(t)
  <2>1. Stands(b, p, Begun(c, t))
    BY <1>2
  <2> QED
    BY <1>1, <2>1, StandsFirst
<1>4. Stands(b, p + 1, u) /\ Stands(b, p + 1 + Len(u), v)
  BY <1>3, StandsParts DEF t
<1> QED
  BY <1>1, <1>2, <1>3, <1>4

\* append_uleb: what is written of a number is read back as that number.
LEMMA Uleb ==
    ASSUME NEW n \in Nat
    PROVE  /\ append_uleb(n) \in Seq(Nat) /\ Len(append_uleb(n)) >= 1
           /\ \A b \in Seq(Nat) : \A p : Stands(b, p, append_uleb(n)) =>
                ReadUleb(b, p) = [n |-> n, next |-> p + Len(append_uleb(n))]
<1>1. append_uleb(n) = append_leb(n, Shorts(FALSE)) /\ 0 \in Shorts(FALSE)
  BY DEF append_uleb, Shorts
<1>2. n \in Int /\ ~(n < 0)
  OBVIOUS
<1> QED
  BY <1>1, <1>2, LebSeq, LebReads DEF ReadUleb

\* append_sleb: what is written of a number is read back as that number.
LEMMA Sleb ==
    ASSUME NEW n \in Int
    PROVE  /\ append_sleb(n) \in Seq(Nat) /\ Len(append_sleb(n)) >= 1
           /\ \A b \in Seq(Nat) : \A p : Stands(b, p, append_sleb(n)) =>
                ReadSleb(b, p) = [n |-> n, next |-> p + Len(append_sleb(n))]
<1>1. append_sleb(n) = append_leb(n, Shorts(TRUE)) /\ 0 \in Shorts(TRUE) /\ -1 \in Shorts(TRUE)
  BY DEF append_sleb, Shorts
<1> QED
  BY <1>1, LebSeq, LebReads DEF ReadSleb

\* A row that a reader of a description is at: the next instruction, its offset, the CFA, the rules.
Row == [k : Nat, loc : Nat, cfa : Nat, off : Nat, rules : SUBSET (Nat \X Int)]

Fields(k, loc, cfa, off, rules) ==
    [k |-> k, loc |-> loc, cfa |-> cfa, off |-> off, rules |-> rules]

\* The rules once one says that reg is saved n bytes from the CFA.
Ruled(rules, reg, n) == {u \in rules : u[1] # reg} \cup {<<reg, n>>}

\* What an instruction does to a row.
LEMMA NextAdvance ==
    ASSUME NEW b, NEW ip \in Nat, NEW r \in Row, ~(r.k > Len(b)), NEW c \in Nat, b[r.k] = c,
           c \in 65..127
    PROVE  NextRow(b, ip, r) =
            IF r.loc + (c - 64) > ip THEN r
            ELSE Fields(r.k + 1, r.loc + (c - 64), r.cfa, r.off, r.rules)
<1>1. r.loc \in Nat
  BY DEF Row
<1>2. c - 64 \in Nat /\ b[r.k] \in 65..127 /\ b[r.k] - 64 = c - 64
  OBVIOUS
<1>3. NextRow(b, ip, r) =
        IF r.loc + (c - 64) > ip THEN r ELSE [r EXCEPT !.k = r.k + 1, !.loc = r.loc + (c - 64)]
  BY <1>1, <1>2 DEF NextRow
<1> QED
  BY <1>2, <1>3 DEF Fields, Row

\* DW_CFA_advance_loc1 begins a row, unless that row is past the offset looked for.
LEMMA NextAdvance1 ==
    ASSUME NEW b, NEW ip \in Nat, NEW r \in Row, ~(r.k > Len(b)), b[r.k] = 2,
           NEW d \in Nat, b[r.k + 1] = d
    PROVE  NextRow(b, ip, r) =
            IF r.loc + d > ip THEN r ELSE Fields(r.k + 2, r.loc + d, r.cfa, r.off, r.rules)
<1>1. NextRow(b, ip, r) = IF r.loc + d > ip THEN r ELSE [r EXCEPT !.k = r.k + 2, !.loc = r.loc + d]
  BY DEF NextRow
<1> QED
  BY <1>1 DEF Fields, Row

\* DW_CFA_def_cfa_offset changes the CFA's offset alone.
LEMMA NextOffset ==
    ASSUME NEW b, NEW ip \in Nat, NEW r \in Row, ~(r.k > Len(b)), b[r.k] = 14, NEW n, NEW q,
           ReadUleb(b, r.k + 1) = [n |-> n, next |-> q]
    PROVE  NextRow(b, ip, r) = Fields(q, r.loc, r.cfa, n, r.rules)
<1> DEFINE first == ReadUleb(b, r.k + 1)
<1>1. NextRow(b, ip, r) = [r EXCEPT !.k = first.next, !.off = first.n]
  BY DEF NextRow
<1>2. first.next = q /\ first.n = n
  OBVIOUS
<1> HIDE DEF first
<1> QED
  BY <1>1, <1>2 DEF Fields, Row

\* DW_CFA_def_cfa changes the CFA's register and its offset.
LEMMA NextCfa ==
    ASSUME NEW b, NEW ip \in Nat, NEW r \in Row, ~(r.k > Len(b)), b[r.k] = 12,
           NEW reg, NEW k, ReadUleb(b, r.k + 1) = [n |-> reg, next |-> k],
           NEW n, NEW q, ReadUleb(b, k) = [n |-> n, next |-> q]
    PROVE  NextRow(b, ip, r) = Fields(q, r.loc, reg, n, r.rules)
<1> DEFINE first == ReadUleb(b, r.k + 1)
           second == ReadUleb(b, first.next)
<1>1. NextRow(b, ip, r) = [r EXCEPT !.k = second.next, !.cfa = first.n, !.off = second.n]
  BY DEF NextRow
<1>2. first.next = k /\ first.n = reg
  OBVIOUS
<1>3. second.next = q /\ second.n = n
  BY <1>2
<1> HIDE DEF first, second
<1> QED
  BY <1>1, <1>2, <1>3 DEF Fields, Row

\* DW_CFA_offset_extended_sf says where one register is saved, in units of -8 bytes.
LEMMA NextSave ==
    ASSUME NEW b, NEW ip \in Nat, NEW r \in Row, ~(r.k > Len(b)), b[r.k] = 17,
           NEW reg, NEW k, ReadUleb(b, r.k + 1) = [n |-> reg, next |-> k],
           NEW n, NEW q, ReadSleb(b, k) = [n |-> n, next |-> q]
    PROVE  NextRow(b, ip, r) =
            Fields(q, r.loc, r.cfa, r.off, Ruled(r.rules, reg, -8 * n))
<1> DEFINE first == ReadUleb(b, r.k + 1)
           second == ReadSleb(b, first.next)
           new == {u \in r.rules : u[1] # first.n} \cup {<<first.n, -8 * second.n>>}
<1>1. NextRow(b, ip, r) = [r EXCEPT !.k = second.next, !.rules = new]
  BY DEF NextRow
<1>2. first.next = k /\ first.n = reg
  OBVIOUS
<1>3. second.next = q /\ second.n = n
  BY <1>2
<1>4. new = Ruled(r.rules, reg, -8 * n)
  <2> HIDE DEF first, second
  <2> QED
    BY <1>2, <1>3 DEF Ruled
<1> HIDE DEF first, second, new
<1>5. NextRow(b, ip, r) = Fields(q, r.loc, r.cfa, r.off, new)
  BY <1>1, <1>2, <1>3 DEF Fields, Row
<1> QED
  BY <1>4, <1>5

\* append_advance, whichever of its two forms is written, is read as an advance by d.
LEMMA AdvanceReads ==
    ASSUME NEW b \in Seq(Nat), NEW ip \in Nat, NEW r \in Row, NEW d \in 1..255,
           Stands(b, r.k, append_advance(d))
    PROVE  NextRow(b, ip, r) =
            IF r.loc + d > ip THEN r
            ELSE Fields(r.k + Len(append_advance(d)), r.loc + d, r.cfa, r.off, r.rules)
<1>1. r.k \in Nat /\ r.loc \in Nat /\ Len(b) \in Nat
  BY DEF Row
<1>2. CASE d < 64
  <2>1. append_advance(d) = <<64 + d>> /\ Len(append_advance(d)) = 1
    BY <1>2 DEF append_advance
  <2>2. r.k + 1 <= Len(b) + 1 /\ b[r.k + 1 - 1] = 64 + d
    BY <2>1 DEF Stands
  <2>3. r.k + 1 - 1 = r.k /\ ~(r.k > Len(b)) /\ d \in 1..63
    <3> DEFINE k == r.k
    <3>1. k \in Nat /\ k + 1 <= Len(b) + 1
      BY <1>1, <2>2
    <3> HIDE DEF k
    <3>2. k + 1 - 1 = k /\ ~(k > Len(b))
      BY <1>1, <3>1
    <3>3. d \in 1..63
      BY <1>2
    <3> QED
      BY <3>2, <3>3 DEF k
  <2>4. b[r.k] = 64 + d
    BY <2>2, <2>3
  <2>5. NextRow(b, ip, r) =
            IF r.loc + d > ip THEN r ELSE Fields(r.k + 1, r.loc + d, r.cfa, r.off, r.rules)
    <3> DEFINE c == 64 + d
    <3>1. c \in Nat /\ c \in 65..127 /\ b[r.k] = c /\ c - 64 = d
      BY <2>3, <2>4
    <3> HIDE DEF c
    <3>2. NextRow(b, ip, r) =
            IF r.loc + (c - 64) > ip THEN r
            ELSE Fields(r.k + 1, r.loc + (c - 64), r.cfa, r.off, r.rules)
      BY <2>3, <3>1, NextAdvance
    <3> QED
      BY <3>1, <3>2
  <2> QED
    BY <2>1, <2>5
<1>3. CASE ~(d < 64)
  <2>1. append_advance(d) = <<2, d>> /\ Len(append_advance(d)) = 2
    BY <1>3 DEF append_advance
  <2>2. r.k + 2 <= Len(b) + 1 /\ b[r.k + 1 - 1] = 2 /\ b[r.k + 2 - 1] = d
    BY <2>1 DEF Stands
  <2>3. r.k + 1 - 1 = r.k /\ r.k + 2 - 1 = r.k + 1 /\ ~(r.k > Len(b)) /\ d \in Nat
    BY <1>1, <2>2
  <2>4. b[r.k] = 2 /\ b[r.k + 1] = d
    BY <2>2, <2>3
  <2> QED
    BY <2>1, <2>3, <2>4, NextAdvance1
<1> QED
  BY <1>2, <1>3

\* def_cfa_offset is read as it was written.
LEMMA OffsetReads ==
    ASSUME NEW b \in Seq(Nat), NEW ip \in Nat, NEW r \in Row, NEW n \in Nat,
           Stands(b, r.k, def_cfa_offset(n))
    PROVE  NextRow(b, ip, r) = Fields(r.k + Len(def_cfa_offset(n)), r.loc, r.cfa, n, r.rules)
<1> DEFINE w == append_uleb(n)
           c == 14
<1>1. w \in Seq(Nat) /\ def_cfa_offset(n) = Begun(c, w) /\ c \in Nat
  BY Uleb DEF def_cfa_offset, Begun
<1> HIDE DEF w, c
<1>2. /\ ~(r.k > Len(b)) /\ b[r.k] = c /\ Stands(b, r.k + 1, w) /\ r.k \in Nat
      /\ Len(def_cfa_offset(n)) = 1 + Len(w)
  <2> DEFINE p == r.k
  <2>1. Stands(b, p, Begun(c, w)) /\ p \in Nat
    BY <1>1 DEF Row
  <2> HIDE DEF p
  <2>2. /\ ~(p > Len(b)) /\ b[p] = c /\ Stands(b, p + 1, w)
        /\ Len(Begun(c, w)) = 1 + Len(w)
    BY <1>1, <2>1, StandsFirst
  <2> QED
    BY <1>1, <2>1, <2>2 DEF p
<1>3. ReadUleb(b, r.k + 1) = [n |-> n, next |-> (r.k + 1) + Len(w)]
  BY <1>2, Uleb DEF w
<1>4. NextRow(b, ip, r) = Fields((r.k + 1) + Len(w), r.loc, r.cfa, n, r.rules)
  BY <1>2, <1>3, NextOffset DEF c
<1>5. Len(w) \in Nat
  BY <1>1
<1>6. (r.k + 1) + Len(w) = r.k + Len(def_cfa_offset(n))
  <2> DEFINE p == r.k
             size == Len(w)
  <2>1. p \in Nat /\ size \in Nat
    BY <1>2, <1>5
  <2> HIDE DEF p, size
  <2>2. (p + 1) + size = p + (1 + size)
    BY <2>1
  <2> QED
    BY <1>2, <2>2 DEF p, size
<1> QED
  BY <1>4, <1>6

\* def_cfa is read as it was written.
LEMMA CfaReads ==
    ASSUME NEW b \in Seq(Nat), NEW ip \in Nat, NEW r \in Row, NEW reg \in Nat, NEW n \in Nat,
           Stands(b, r.k, def_cfa(reg, n))
    PROVE  NextRow(b, ip, r) = Fields(r.k + Len(def_cfa(reg, n)), r.loc, reg, n, r.rules)
<1> DEFINE u == append_uleb(reg)
           v == append_uleb(n)
           c == 12
           p == r.k
<1>1. /\ u \in Seq(Nat) /\ v \in Seq(Nat) /\ c \in Nat /\ def_cfa(reg, n) = Twofold(c, u, v)
      /\ Stands(b, p, Twofold(c, u, v)) /\ p \in Nat
  BY Uleb DEF def_cfa, Twofold, Row
<1> HIDE DEF u, v, c, p
<1>2. /\ ~(p > Len(b)) /\ b[p] = c
      /\ Stands(b, p + 1, u) /\ Stands(b, p + 1 + Len(u), v)
      /\ Len(Twofold(c, u, v)) = 1 + Len(u) + Len(v)
  BY <1>1, StandsTwofold
<1>3. ReadUleb(b, p + 1) = [n |-> reg, next |-> p + 1 + Len(u)]
  BY <1>2, Uleb DEF u
<1>4. ReadUleb(b, p + 1 + Len(u)) = [n |-> n, next |-> (p + 1 + Len(u)) + Len(v)]
  BY <1>2, Uleb DEF v
<1>5. (p + 1 + Len(u)) + Len(v) = p + Len(def_cfa(reg, n))
  <2>1. Len(u) \in Nat /\ Len(v) \in Nat /\ Len(def_cfa(reg, n)) = 1 + Len(u) + Len(v)
    BY <1>1, <1>2
  <2> QED
    BY <1>1, <2>1
<1>6. NextRow(b, ip, r) = Fields((p + 1 + Len(u)) + Len(v), r.loc, reg, n, r.rules)
  BY <1>2, <1>3, <1>4, NextCfa DEF c, p
<1> QED
  BY <1>5, <1>6 DEF p

\* emit_offset is read as it was written, for the multiples of 8 bytes.
LEMMA SaveReads ==
    ASSUME NEW b \in Seq(Nat), NEW ip \in Nat, NEW r \in Row, NEW reg \in Nat,
           NEW n \in Int, n % 8 = 0, Stands(b, r.k, emit_offset(reg, n))
    PROVE  NextRow(b, ip, r) =
            Fields(r.k + Len(emit_offset(reg, n)), r.loc, r.cfa, r.off, Ruled(r.rules, reg, n))
<1> DEFINE m == -(n \div 8)
           u == append_uleb(reg)
           v == append_sleb(m)
           c == 17
           p == r.k
<1>0. m \in Int /\ -8 * m = n
  OBVIOUS
<1>1. /\ u \in Seq(Nat) /\ v \in Seq(Nat) /\ c \in Nat /\ emit_offset(reg, n) = Twofold(c, u, v)
      /\ Stands(b, p, Twofold(c, u, v)) /\ p \in Nat
  BY <1>0, Uleb, Sleb DEF emit_offset, Twofold, Row
<1> HIDE DEF m, u, v, c, p
<1>2. /\ ~(p > Len(b)) /\ b[p] = c
      /\ Stands(b, p + 1, u) /\ Stands(b, p + 1 + Len(u), v)
      /\ Len(Twofold(c, u, v)) = 1 + Len(u) + Len(v)
  BY <1>1, StandsTwofold
<1>3. ReadUleb(b, p + 1) = [n |-> reg, next |-> p + 1 + Len(u)]
  BY <1>2, Uleb DEF u
<1>4. ReadSleb(b, p + 1 + Len(u)) = [n |-> m, next |-> (p + 1 + Len(u)) + Len(v)]
  BY <1>0, <1>2, Sleb DEF v
<1>5. (p + 1 + Len(u)) + Len(v) = p + Len(emit_offset(reg, n))
  <2>1. Len(u) \in Nat /\ Len(v) \in Nat /\ Len(emit_offset(reg, n)) = 1 + Len(u) + Len(v)
    BY <1>1, <1>2
  <2> QED
    BY <1>1, <2>1
<1>6. NextRow(b, ip, r) =
        Fields((p + 1 + Len(u)) + Len(v), r.loc, r.cfa, r.off, Ruled(r.rules, reg, -8 * m))
  BY <1>2, <1>3, <1>4, NextSave DEF c, p
<1> QED
  BY <1>0, <1>5, <1>6 DEF p

---------------------------------------------------------------------------
(* The rows that are read.                                                 *)

\* Each row is the one before it and one instruction more.
LEMMA RowsIs ==
    ASSUME NEW b \in Seq(Nat), NEW ip
    PROVE  /\ Rows(b, ip)[0] = FirstRow
           /\ \A j \in 1..Len(b) : Rows(b, ip)[j] = NextRow(b, ip, Rows(b, ip)[j - 1])
<1> DEFINE size == Len(b)
           H(r) == NextRow(b, ip, r)
           Part(f, n) == f = [j \in 0..n |-> IF j = 0 THEN FirstRow ELSE H(f[j - 1])]
           S == {n \in 0..size : \E f : Part(f, n)}
<1>1. size \in Nat
  OBVIOUS
<1>2. 0 \in S
  <2> DEFINE f == [j \in 0..0 |-> FirstRow]
  <2>1. Part(f, 0)
    <3> HIDE DEF H
    <3> QED
      OBVIOUS
  <2>2. 0 \in 0..size
    BY <1>1
  <2> HIDE DEF Part, f
  <2> QED
    BY <2>1, <2>2
<1>3. ASSUME NEW n \in 0..(size - 1), n \in S PROVE n + 1 \in S
  <2>1. PICK f : Part(f, n)
    BY <1>3
  <2> DEFINE g == [j \in 0..(n + 1) |-> IF j <= n THEN f[j] ELSE H(f[n])]
  <2>2. ASSUME NEW j \in 0..(n + 1) PROVE g[j] = IF j = 0 THEN FirstRow ELSE H(g[j - 1])
    <3>1. CASE j = 0
      <4> HIDE DEF H
      <4> QED
        BY <1>1, <2>1, <3>1
    <3>2. CASE j \in 1..n
      <4>1. j - 1 \in 0..n /\ j \in 0..n /\ j # 0 /\ n + 1 \in Nat
        BY <1>1, <3>2
      <4>2. g[j] = f[j] /\ g[j - 1] = f[j - 1]
        <5> HIDE DEF H
        <5> QED
          BY <1>1, <3>2, <4>1
      <4>3. f[j] = H(f[j - 1])
        <5> HIDE DEF H, g
        <5> QED
          BY <2>1, <4>1
      <4> HIDE DEF H, g, Part
      <4> QED
        BY <4>1, <4>2, <4>3
    <3>3. CASE j = n + 1
      <4>1. j - 1 = n /\ n \in 0..(n + 1) /\ ~(j <= n) /\ j # 0 /\ j \in 0..(n + 1)
        BY <1>1, <3>3
      <4>2. g[j] = H(f[n]) /\ g[n] = f[n]
        <5> HIDE DEF H
        <5> QED
          BY <1>1, <4>1
      <4> HIDE DEF H, g, Part
      <4> QED
        BY <4>1, <4>2
    <3> QED
      BY <1>1, <3>1, <3>2, <3>3
  <2>3. Part(g, n + 1)
    <3> HIDE DEF H
    <3> QED
      BY <2>2
  <2>4. n + 1 \in 0..size
    BY <1>1
  <2> HIDE DEF g, Part
  <2> QED
    BY <2>3, <2>4
<1>4. \A n \in 0..size : n \in S
  <2> HIDE DEF S, size
  <2> QED
    BY <1>1, <1>2, <1>3, Climb
<1>5. \E f : Part(f, size)
  <2>1. size \in S
    <3> HIDE DEF S, size
    <3> QED
      BY <1>1, <1>4
  <2> HIDE DEF Part
  <2> QED
    BY <2>1
<1> DEFINE rows == CHOOSE f : Part(f, size)
<1>6. Rows(b, ip) = rows
  BY DEF Rows
<1>7. Part(rows, size)
  <2> HIDE DEF Part
  <2> QED
    BY <1>5
<1> HIDE DEF rows, H, size
<1>8. rows[0] = FirstRow /\ \A j \in 1..size : rows[j] = H(rows[j - 1])
  BY <1>1, <1>7
<1> QED
  BY <1>6, <1>8 DEF H, size

\* Reading comes to a row before there is no more to read.
Reads(b, ip, r) == \E j \in 0..Len(b) : j < r.k /\ Rows(b, ip)[j] = r

\* Reading goes on to the next row when an instruction is left.
LEMMA ReadsNext ==
    ASSUME NEW b \in Seq(Nat), NEW ip, NEW r \in Row, NEW q \in Row, Reads(b, ip, r),
           NextRow(b, ip, r) = q, r.k <= Len(b), r.k < q.k
    PROVE  Reads(b, ip, q)
<1>1. PICK j \in 0..Len(b) : j < r.k /\ Rows(b, ip)[j] = r
  BY DEF Reads
<1>2. r.k \in Nat /\ q.k \in Nat /\ Len(b) \in Nat
  BY DEF Row
<1>3. j + 1 \in 1..Len(b) /\ (j + 1) - 1 = j /\ j + 1 < q.k /\ j + 1 \in 0..Len(b)
  BY <1>1, <1>2
<1>4. Rows(b, ip)[j + 1] = NextRow(b, ip, Rows(b, ip)[(j + 1) - 1])
  BY <1>3, RowsIs
<1>5. Rows(b, ip)[j + 1] = q
  BY <1>1, <1>3, <1>4
<1> QED
  BY <1>3, <1>5 DEF Reads

\* Where reading stops is the row that holds.
LEMMA ReadsLast ==
    ASSUME NEW b \in Seq(Nat), NEW ip, NEW r, Reads(b, ip, r), NextRow(b, ip, r) = r
    PROVE  RowAt(b, ip) = r
<1>1. PICK j \in 0..Len(b) : Rows(b, ip)[j] = r
  BY DEF Reads
<1> DEFINE n == Len(b) - j
           S == {k \in 0..n : Rows(b, ip)[j + k] = r}
<1>2. n \in Nat /\ Len(b) \in Nat /\ j + 0 = j /\ j + n = Len(b)
  OBVIOUS
<1> HIDE DEF n
<1>3. 0 \in S
  BY <1>1, <1>2
<1>4. ASSUME NEW k \in 0..(n - 1), k \in S PROVE k + 1 \in S
  <2>1. j + (k + 1) \in 1..Len(b) /\ (j + (k + 1)) - 1 = j + k /\ k + 1 \in 0..n
    BY <1>2
  <2>2. Rows(b, ip)[j + (k + 1)] = NextRow(b, ip, Rows(b, ip)[(j + (k + 1)) - 1])
    BY <2>1, RowsIs
  <2> QED
    BY <1>4, <2>1, <2>2
<1>5. \A k \in 0..n : k \in S
  <2> HIDE DEF S
  <2> QED
    BY <1>2, <1>3, <1>4, Climb
<1>6. Rows(b, ip)[j + n] = r
  <2>1. n \in 0..n
    BY <1>2
  <2> QED
    BY <1>5, <2>1
<1> QED
  BY <1>2, <1>6 DEF RowAt

\* A row of fields of the right types is a row.
LEMMA FieldsRow ==
    ASSUME NEW k \in Nat, NEW loc \in Nat, NEW cfa \in Nat, NEW off \in Nat,
           NEW rules \in SUBSET (Nat \X Int)
    PROVE  /\ Fields(k, loc, cfa, off, rules) \in Row
           /\ Fields(k, loc, cfa, off, rules).k = k /\ Fields(k, loc, cfa, off, rules).loc = loc
           /\ Fields(k, loc, cfa, off, rules).cfa = cfa /\ Fields(k, loc, cfa, off, rules).off = off
           /\ Fields(k, loc, cfa, off, rules).rules = rules
BY DEF Fields, Row

\* An instruction takes reading from a row to the next one.
LEMMA ReadsOn ==
    ASSUME NEW b \in Seq(Nat), NEW ip, NEW r \in Row, Reads(b, ip, r),
           NEW w, Len(w) \in Nat \ {0}, Stands(b, r.k, w),
           NEW loc \in Nat, NEW cfa \in Nat, NEW off \in Nat, NEW rules \in SUBSET (Nat \X Int),
           NextRow(b, ip, r) = Fields(r.k + Len(w), loc, cfa, off, rules)
    PROVE  Reads(b, ip, Fields(r.k + Len(w), loc, cfa, off, rules))
<1>1. r.k \in Nat /\ Len(b) \in Nat
  BY DEF Row
<1>2. r.k + Len(w) <= Len(b) + 1
  BY DEF Stands
<1>3. r.k <= Len(b) /\ r.k + Len(w) \in Nat /\ r.k < r.k + Len(w)
  BY <1>1, <1>2
<1> QED
  BY <1>3, FieldsRow, ReadsNext

\* An instruction is one byte or more.
LEMMA Lengths ==
    /\ \A n \in Nat : def_cfa_offset(n) \in Seq(Nat) /\ Len(def_cfa_offset(n)) \in Nat \ {0}
    /\ \A reg, n \in Nat : def_cfa(reg, n) \in Seq(Nat) /\ Len(def_cfa(reg, n)) \in Nat \ {0}
    /\ \A reg \in Nat, n \in Int :
            emit_offset(reg, n) \in Seq(Nat) /\ Len(emit_offset(reg, n)) \in Nat \ {0}
    /\ \A d \in 1..255 :
            append_advance(d) \in Seq(Nat) /\ Len(append_advance(d)) \in Nat \ {0}
<1>1. ASSUME NEW c \in Nat, NEW u \in Seq(Nat), NEW v \in Seq(Nat)
      PROVE  /\ <<c>> \o u \in Seq(Nat) /\ Len(<<c>> \o u) \in Nat \ {0}
             /\ <<c>> \o u \o v \in Seq(Nat) /\ Len(<<c>> \o u \o v) \in Nat \ {0}
  <2>1. <<c>> \in Seq(Nat) /\ Len(<<c>>) = 1 /\ Len(u) \in Nat /\ Len(v) \in Nat
    OBVIOUS
  <2>2. <<c>> \o u \in Seq(Nat) /\ Len(<<c>> \o u) = 1 + Len(u)
    BY <2>1, ConcatProperties
  <2>3. <<c>> \o u \o v \in Seq(Nat) /\ Len(<<c>> \o u \o v) = (1 + Len(u)) + Len(v)
    BY <2>2, ConcatProperties
  <2> QED
    BY <2>1, <2>2, <2>3
<1>2. ASSUME NEW n \in Nat
      PROVE  def_cfa_offset(n) \in Seq(Nat) /\ Len(def_cfa_offset(n)) \in Nat \ {0}
  <2> DEFINE u == append_uleb(n)
             c == 14
  <2>1. u \in Seq(Nat) /\ c \in Nat /\ def_cfa_offset(n) = <<c>> \o u
    BY Uleb DEF def_cfa_offset
  <2> HIDE DEF u, c
  <2> QED
    BY <1>1, <2>1
<1>3. ASSUME NEW reg \in Nat, NEW n \in Nat
      PROVE  def_cfa(reg, n) \in Seq(Nat) /\ Len(def_cfa(reg, n)) \in Nat \ {0}
  <2> DEFINE u == append_uleb(reg)
             v == append_uleb(n)
             c == 12
  <2>1. u \in Seq(Nat) /\ v \in Seq(Nat) /\ c \in Nat /\ def_cfa(reg, n) = <<c>> \o u \o v
    BY Uleb DEF def_cfa
  <2> HIDE DEF u, v, c
  <2> QED
    BY <1>1, <2>1
<1>4. ASSUME NEW reg \in Nat, NEW n \in Int
      PROVE  emit_offset(reg, n) \in Seq(Nat) /\ Len(emit_offset(reg, n)) \in Nat \ {0}
  <2> DEFINE u == append_uleb(reg)
             v == append_sleb(-(n \div 8))
             c == 17
  <2>1. -(n \div 8) \in Int
    OBVIOUS
  <2>2. u \in Seq(Nat) /\ v \in Seq(Nat) /\ c \in Nat /\ emit_offset(reg, n) = <<c>> \o u \o v
    BY <2>1, Uleb, Sleb DEF emit_offset
  <2> HIDE DEF u, v, c
  <2> QED
    BY <1>1, <2>2
<1>5. ASSUME NEW d \in 1..255
      PROVE  append_advance(d) \in Seq(Nat) /\ Len(append_advance(d)) \in Nat \ {0}
  <2>1. CASE d < 64
    <3>1. append_advance(d) = <<64 + d>>
      BY <2>1 DEF append_advance
    <3> QED
      BY <3>1
  <2>2. CASE ~(d < 64)
    <3>1. append_advance(d) = <<2, d>>
      BY <2>2 DEF append_advance
    <3> QED
      BY <3>1
  <2> QED
    BY <2>1, <2>2
<1> QED
  BY <1>2, <1>3, <1>4, <1>5

\* Reading goes on past a def_cfa_offset.
LEMMA OffsetOn ==
    ASSUME NEW b \in Seq(Nat), NEW ip \in Nat, NEW r \in Row, Reads(b, ip, r), NEW n \in Nat,
           Stands(b, r.k, def_cfa_offset(n))
    PROVE  Reads(b, ip, Fields(r.k + Len(def_cfa_offset(n)), r.loc, r.cfa, n, r.rules))
<1>1. r.loc \in Nat /\ r.cfa \in Nat /\ r.rules \in SUBSET (Nat \X Int)
  BY DEF Row
<1> DEFINE w == def_cfa_offset(n)
<1>2. NextRow(b, ip, r) = Fields(r.k + Len(w), r.loc, r.cfa, n, r.rules)
  BY OffsetReads, Zenon
<1>3. Len(w) \in Nat \ {0}
  BY Lengths
<1> HIDE DEF w
<1> QED
  BY <1>1, <1>2, <1>3, ReadsOn DEF w

\* Reading goes on past a def_cfa.
LEMMA CfaOn ==
    ASSUME NEW b \in Seq(Nat), NEW ip \in Nat, NEW r \in Row, Reads(b, ip, r),
           NEW reg \in Nat, NEW n \in Nat, Stands(b, r.k, def_cfa(reg, n))
    PROVE  Reads(b, ip, Fields(r.k + Len(def_cfa(reg, n)), r.loc, reg, n, r.rules))
<1>1. r.loc \in Nat /\ r.rules \in SUBSET (Nat \X Int)
  BY DEF Row
<1> DEFINE w == def_cfa(reg, n)
<1>2. NextRow(b, ip, r) = Fields(r.k + Len(w), r.loc, reg, n, r.rules)
  <2>1. \A j, x \in Nat : Stands(b, r.k, def_cfa(j, x)) =>
            NextRow(b, ip, r) = Fields(r.k + Len(def_cfa(j, x)), r.loc, j, x, r.rules)
    BY CfaReads
  <2> QED
    BY <2>1, Zenon
<1>3. Len(w) \in Nat \ {0}
  BY Lengths
<1> HIDE DEF w
<1> QED
  BY <1>1, <1>2, <1>3, ReadsOn DEF w

\* Reading goes on past an emit_offset.
LEMMA SaveOn ==
    ASSUME NEW b \in Seq(Nat), NEW ip \in Nat, NEW r \in Row, Reads(b, ip, r),
           NEW reg \in Nat, NEW n \in Int, n % 8 = 0, Stands(b, r.k, emit_offset(reg, n))
    PROVE  Reads(b, ip, Fields(r.k + Len(emit_offset(reg, n)), r.loc, r.cfa, r.off,
                               Ruled(r.rules, reg, n)))
<1>1. /\ r.loc \in Nat /\ r.cfa \in Nat /\ r.off \in Nat
      /\ Ruled(r.rules, reg, n) \in SUBSET (Nat \X Int)
  BY DEF Row, Ruled
<1> DEFINE w == emit_offset(reg, n)
<1>2. NextRow(b, ip, r) =
        Fields(r.k + Len(w), r.loc, r.cfa, r.off, Ruled(r.rules, reg, n))
  BY SaveReads, Zenon
<1>3. Len(w) \in Nat \ {0}
  BY Lengths
<1> HIDE DEF w
<1> QED
  BY <1>1, <1>2, <1>3, ReadsOn DEF w

\* Reading goes on past an advance to an offset that is not past the one looked for.
LEMMA AdvanceOn ==
    ASSUME NEW b \in Seq(Nat), NEW ip \in Nat, NEW r \in Row, Reads(b, ip, r), NEW d \in 0..255,
           Stands(b, r.k, append_advance(d)), r.loc + d <= ip
    PROVE  Reads(b, ip, Fields(r.k + Len(append_advance(d)), r.loc + d, r.cfa, r.off, r.rules))
<1>1. /\ r.loc \in Nat /\ r.cfa \in Nat /\ r.off \in Nat /\ r.rules \in SUBSET (Nat \X Int)
      /\ r.k \in Nat
  BY DEF Row
<1>2. CASE d = 0
  <2>1. append_advance(d) = <<>> /\ Len(<<>>) = 0
    BY <1>2 DEF append_advance
  <2>2. r.k + Len(append_advance(d)) = r.k /\ r.loc + d = r.loc
    BY <1>1, <1>2, <2>1
  <2>3. r = Fields(r.k, r.loc, r.cfa, r.off, r.rules)
    BY DEF Row, Fields
  <2> QED
    BY <2>2, <2>3
<1>3. CASE d # 0
  <2> DEFINE w == append_advance(d)
  <2>0. d \in 1..255 /\ ~(r.loc + d > ip) /\ r.loc + d \in Nat
    BY <1>1, <1>3
  <2>1. NextRow(b, ip, r) = Fields(r.k + Len(w), r.loc + d, r.cfa, r.off, r.rules)
    <3>1. NextRow(b, ip, r) =
            IF r.loc + d > ip THEN r ELSE Fields(r.k + Len(w), r.loc + d, r.cfa, r.off, r.rules)
      BY <2>0, AdvanceReads, Zenon
    <3> QED
      BY <2>0, <3>1, Zenon
  <2>2. Len(w) \in Nat \ {0}
    BY <2>0, Lengths
  <2> HIDE DEF w
  <2> QED
    BY <1>1, <2>0, <2>1, <2>2, ReadsOn DEF w
<1> QED
  BY <1>2, <1>3

---------------------------------------------------------------------------
(* One operation, written, read and run.                                   *)

\* Registers that a function keeps, as far as they are modelled, and the operations on them.
Keeping == {"rbx", "rbp", "rsi", "rdi", "r12", "xmm6"}

\* The registers that are saved have DWARF numbers of their own.
LEMMA Registers ==
    /\ \A r \in DOMAIN Dwarf : Dwarf[r] \in Nat
    /\ \A r, q \in DOMAIN Dwarf : Dwarf[r] = Dwarf[q] => r = q
    /\ Keeping \subseteq DOMAIN Dwarf \ {"rsp", "rip"}
    /\ {"rsp", "rip"} \subseteq DOMAIN Dwarf
    /\ Dwarf["rsp"] = 7 /\ Dwarf["rip"] = 16
BY DEF Dwarf, Keeping

Usable == {op \in Codes : op.op \in {"Push", "Save", "Frame"} => nonvolatile(op.reg)}

\* register_map gives a nonvolatile register its DWARF number.
LEMMA Mapped ==
    ASSUME NEW reg \in DOMAIN Number, nonvolatile(reg)
    PROVE  reg \in Keeping /\ register_map(reg) = Dwarf[reg]
<1>1. reg \in {"rcx", "rbx", "rbp", "rsi", "rdi", "r12", "xmm6"}
  BY DEF Number
<1>2. reg # "rcx"
  BY DEF nonvolatile, Number
<1>3. reg \in Keeping
  BY <1>1, <1>2 DEF Keeping
<1>4. register_map(reg) = Dwarf[reg]
  <2>1. CASE reg = "rbx"
    BY <2>1 DEF register_map, Number, Dwarf
  <2>2. CASE reg = "rbp"
    BY <2>2 DEF register_map, Number, Dwarf
  <2>3. CASE reg = "rsi"
    BY <2>3 DEF register_map, Number, Dwarf
  <2>4. CASE reg = "rdi"
    BY <2>4 DEF register_map, Number, Dwarf
  <2>5. CASE reg = "r12"
    BY <2>5 DEF register_map, Number, Dwarf
  <2>6. CASE reg = "xmm6"
    BY <2>6 DEF register_map, Number, Dwarf
  <2> QED
    BY <1>3, <2>1, <2>2, <2>3, <2>4, <2>5, <2>6 DEF Keeping
<1> QED
  BY <1>3, <1>4

\* The operations a description is written for: multiples of 8 where the stack pointer
\* moves, and registers that a function keeps.
LEMMA UsableIs ==
    ASSUME NEW op \in Usable
    PROVE  /\ op.op \in {"Push", "Alloc", "Frame", "Save", "Machine"} /\ op.n \in Nat
           /\ op.at \in 0..255
           /\ op.op \in {"Alloc", "Machine"} => op.n % 8 = 0
           /\ op.op \in {"Push", "Frame", "Save"} =>
                op.reg \in Keeping /\ register_map(op.reg) = Dwarf[op.reg]
<1>1. /\ op.op \in {"Push", "Alloc", "Frame", "Save", "Machine"} /\ op.n \in Nat
      /\ op.at \in 0..255
      /\ op.op \in {"Alloc", "Machine"} => op.n % 8 = 0
      /\ op.op \in {"Push", "Frame", "Save"} => op.reg \in DOMAIN Number /\ nonvolatile(op.reg)
  BY DEF Usable, Codes
<1> QED
  BY <1>1, Mapped

\* What a thread may have saved, and the thread: the stack pointer's and the frame's distances.
Saving == DOMAIN Dwarf \ {"rsp"}

Frames == [reg : DOMAIN Dwarf, n : Int]

Thread(d, f, where) == [sp |-> d, fp |-> f, saved |-> where]

Stacks == [sp : Nat, fp : Frames, saved : [Saving -> Int]]

\* What a row says of where registers are saved.
Rules(where) == {<<Dwarf[reg], where[reg]>> : reg \in {r \in DOMAIN where : where[r] # Kept}}

\* To save one register more is to have its rule instead of the one it had.
LEMMA RulesOne ==
    ASSUME NEW where \in [Saving -> Int], NEW reg \in Saving, NEW n \in Int, n % 8 = 0
    PROVE  /\ Rules(where) \in SUBSET (Nat \X Int)
           /\ Ruled(Rules(where), Dwarf[reg], n) = Rules([where EXCEPT ![reg] = n])
           /\ [where EXCEPT ![reg] = n] \in [Saving -> Int]
<1> DEFINE new == [where EXCEPT ![reg] = n]
<1>1. /\ \A r \in Saving : r \in DOMAIN Dwarf /\ Dwarf[r] \in Nat
      /\ \A r \in Saving : Dwarf[r] = Dwarf[reg] => r = reg
  BY Registers DEF Saving
<1>2. n # Kept
  BY DEF Kept
<1>3. new \in [Saving -> Int] /\ new[reg] = n /\ \A r \in Saving : r # reg => new[r] = where[r]
  OBVIOUS
<1>4. Rules(where) \in SUBSET (Nat \X Int)
  BY <1>1 DEF Rules
<1> HIDE DEF new
<1>5. ASSUME NEW u \in Ruled(Rules(where), Dwarf[reg], n) PROVE u \in Rules(new)
  <2>1. CASE u = <<Dwarf[reg], n>>
    BY <1>2, <1>3, <2>1 DEF Rules
  <2>2. CASE u \in Rules(where) /\ u[1] # Dwarf[reg]
    <3>1. PICK r \in Saving : where[r] # Kept /\ u = <<Dwarf[r], where[r]>>
      BY <2>2 DEF Rules
    <3>2. r # reg /\ new[r] = where[r]
      BY <1>3, <2>2, <3>1
    <3> QED
      BY <1>3, <3>1, <3>2 DEF Rules
  <2> QED
    BY <2>1, <2>2 DEF Ruled
<1>6. ASSUME NEW u \in Rules(new) PROVE u \in Ruled(Rules(where), Dwarf[reg], n)
  <2>1. PICK r \in Saving : new[r] # Kept /\ u = <<Dwarf[r], new[r]>>
    BY <1>3 DEF Rules
  <2>2. CASE r = reg
    BY <1>3, <2>1, <2>2 DEF Ruled
  <2>3. CASE r # reg
    <3>1. u = <<Dwarf[r], where[r]>> /\ where[r] # Kept /\ Dwarf[r] # Dwarf[reg]
      BY <1>1, <1>3, <2>1, <2>3
    <3>2. u \in Rules(where) /\ u[1] # Dwarf[reg]
      BY <3>1 DEF Rules
    <3> QED
      BY <3>2 DEF Ruled
  <2> QED
    BY <2>2, <2>3
<1> QED
  BY <1>3, <1>4, <1>5, <1>6 DEF new

\* The row that finds what a thread saved.
RowOf(k, loc, m) ==
    Fields(k, loc, Dwarf[m.fp.reg], IF m.fp.reg = "rsp" THEN m.sp ELSE m.fp.n, Rules(m.saved))

\* The offsets from the CFA to the frame register are those of rows.
Sound(m) == m \in Stacks /\ m.fp.n \in Nat /\ m.sp % 8 = 0

\* The row of a thread is a row, of the thread's frame and of what it saved.
LEMMA RowOfRow ==
    ASSUME NEW m, Sound(m), NEW k \in Nat, NEW loc \in Nat
    PROVE  /\ RowOf(k, loc, m) \in Row /\ RowOf(k, loc, m).k = k /\ RowOf(k, loc, m).loc = loc
           /\ RowOf(k, loc, m).cfa = Dwarf[m.fp.reg] /\ RowOf(k, loc, m).rules = Rules(m.saved)
           /\ RowOf(k, loc, m).off = IF m.fp.reg = "rsp" THEN m.sp ELSE m.fp.n
<1> DEFINE off == IF m.fp.reg = "rsp" THEN m.sp ELSE m.fp.n
           cfa == Dwarf[m.fp.reg]
           rules == Rules(m.saved)
<1>1. off \in Nat /\ m.fp.reg \in DOMAIN Dwarf
  BY DEF Sound, Stacks, Frames
<1>2. cfa \in Nat
  BY <1>1, Registers
<1>3. rules \in SUBSET (Nat \X Int)
  <2>1. m.saved \in [Saving -> Int]
    BY DEF Sound, Stacks
  <2>2. "rip" \in Saving /\ 0 % 8 = 0 /\ 0 \in Int
    BY Registers DEF Saving
  <2> QED
    BY <2>1, <2>2, RulesOne
<1>4. RowOf(k, loc, m) = Fields(k, loc, cfa, off, rules)
  BY DEF RowOf
<1> HIDE DEF off, cfa, rules
<1>5. Fields(k, loc, cfa, off, rules) \in Row
      /\ Fields(k, loc, cfa, off, rules).k = k /\ Fields(k, loc, cfa, off, rules).loc = loc
      /\ Fields(k, loc, cfa, off, rules).cfa = cfa /\ Fields(k, loc, cfa, off, rules).off = off
      /\ Fields(k, loc, cfa, off, rules).rules = rules
  <2>1. off \in Nat
    BY <1>1
  <2> QED
    BY <1>2, <1>3, <2>1, FieldsRow
<1> QED
  BY <1>4, <1>5 DEF off, cfa, rules

\* The instruction that moves the CFA, where it is found from the stack pointer.
Cfa(m, n) == IF m.fp.reg = "rsp" THEN def_cfa_offset(n) ELSE <<>>

\* The instruction for a moved stack pointer is read as that move.
LEMMA CfaPart ==
    ASSUME NEW b \in Seq(Nat), NEW ip \in Nat, NEW m, Sound(m), NEW k \in Nat, NEW loc \in Nat,
           Reads(b, ip, RowOf(k, loc, m)), NEW n \in Nat, n % 8 = 0, Stands(b, k, Cfa(m, n))
    PROVE  /\ Reads(b, ip, RowOf(k + Len(Cfa(m, n)), loc, Thread(n, m.fp, m.saved)))
           /\ Sound(Thread(n, m.fp, m.saved)) /\ Cfa(m, n) \in Seq(Nat)
<1> DEFINE t == Thread(n, m.fp, m.saved)
<1>1. Sound(t) /\ t.fp = m.fp /\ t.saved = m.saved /\ t.sp = n
  BY DEF Sound, Stacks, Thread
<1>2. CASE m.fp.reg = "rsp"
  <2> DEFINE r == RowOf(k, loc, m)
             w == def_cfa_offset(n)
  <2>1. /\ r \in Row /\ r.k = k /\ r.loc = loc /\ r.cfa = Dwarf["rsp"] /\ r.rules = Rules(m.saved)
    <3>1. r \in Row /\ r.k = k /\ r.loc = loc /\ r.cfa = Dwarf[m.fp.reg] /\ r.rules = Rules(m.saved)
      BY RowOfRow
    <3> HIDE DEF r
    <3> QED
      BY <1>2, <3>1
  <2>2. Cfa(m, n) = w /\ Stands(b, k, w)
    BY <1>2 DEF Cfa
  <2>3. Reads(b, ip, r)
    OBVIOUS
  <2>4. w \in Seq(Nat)
    BY Lengths
  <2>5. RowOf(k + Len(w), loc, t) = Fields(k + Len(w), loc, Dwarf["rsp"], n, Rules(m.saved))
    <3> HIDE DEF t, w
    <3> QED
      BY <1>1, <1>2 DEF RowOf
  <2>6. Reads(b, ip, Fields(r.k + Len(w), r.loc, r.cfa, n, r.rules))
    <3> HIDE DEF r
    <3>1. Stands(b, r.k, w)
      BY <2>1, <2>2
    <3> QED
      BY <2>1, <2>3, <3>1, OffsetOn
  <2>7. Fields(r.k + Len(w), r.loc, r.cfa, n, r.rules) = RowOf(k + Len(w), loc, t)
    <3> HIDE DEF r, w, t
    <3> QED
      BY <2>1, <2>5
  <2> HIDE DEF r, w, t
  <2> QED
    BY <1>1, <2>2, <2>4, <2>6, <2>7 DEF t
<1>3. CASE m.fp.reg # "rsp"
  <2>1. Cfa(m, n) = <<>> /\ Len(<<>>) = 0 /\ k + 0 = k /\ <<>> \in Seq(Nat)
    BY <1>3 DEF Cfa
  <2>2. RowOf(k, loc, t) = RowOf(k, loc, m)
    <3> HIDE DEF t
    <3> QED
      BY <1>1, <1>3 DEF RowOf
  <2> HIDE DEF t
  <2> QED
    BY <1>1, <2>1, <2>2 DEF t
<1> QED
  BY <1>2, <1>3

\* The instruction for a saved register is read as that save.
LEMMA SavePart ==
    ASSUME NEW b \in Seq(Nat), NEW ip \in Nat, NEW m, Sound(m), NEW k \in Nat, NEW loc \in Nat,
           Reads(b, ip, RowOf(k, loc, m)), NEW reg \in Saving, NEW n \in Int, n % 8 = 0,
           Stands(b, k, emit_offset(Dwarf[reg], n))
    PROVE  /\ Reads(b, ip, RowOf(k + Len(emit_offset(Dwarf[reg], n)), loc,
                                 Thread(m.sp, m.fp, [m.saved EXCEPT ![reg] = n])))
           /\ Sound(Thread(m.sp, m.fp, [m.saved EXCEPT ![reg] = n]))
<1> DEFINE new == [m.saved EXCEPT ![reg] = n]
           t == Thread(m.sp, m.fp, new)
           r == RowOf(k, loc, m)
           w == emit_offset(Dwarf[reg], n)
           off == IF m.fp.reg = "rsp" THEN m.sp ELSE m.fp.n
<1>1. m.saved \in [Saving -> Int]
  BY DEF Sound, Stacks
<1>2. /\ new \in [Saving -> Int] /\ Ruled(Rules(m.saved), Dwarf[reg], n) = Rules(new)
      /\ Dwarf[reg] \in Nat
  <2>1. new \in [Saving -> Int] /\ Ruled(Rules(m.saved), Dwarf[reg], n) = Rules(new)
    BY <1>1, RulesOne
  <2>2. Dwarf[reg] \in Nat
    BY Registers DEF Saving
  <2> HIDE DEF new
  <2> QED
    BY <2>1, <2>2
<1>3. /\ r \in Row /\ r.k = k /\ r.loc = loc /\ r.cfa = Dwarf[m.fp.reg] /\ r.off = off
      /\ r.rules = Rules(m.saved) /\ Reads(b, ip, r) /\ Stands(b, k, w)
  BY RowOfRow
<1> HIDE DEF new
<1>4. Sound(t) /\ RowOf(k + Len(w), loc, t) = Fields(k + Len(w), loc, Dwarf[m.fp.reg], off, Rules(new))
  BY <1>2 DEF Sound, Stacks, Thread, RowOf
<1> HIDE DEF r, off, t
<1>5. Reads(b, ip, Fields(r.k + Len(w), r.loc, r.cfa, r.off, Ruled(r.rules, Dwarf[reg], n)))
  <2>1. Stands(b, r.k, w)
    BY <1>3
  <2> QED
    BY <1>2, <1>3, <2>1, SaveOn
<1> HIDE DEF w
<1>6. Reads(b, ip, RowOf(k + Len(w), loc, t))
  BY <1>2, <1>3, <1>4, <1>5
<1> QED
  BY <1>4, <1>6 DEF t, w, new

\* The instruction for a frame register is read as that register.
LEMMA FramePart ==
    ASSUME NEW b \in Seq(Nat), NEW ip \in Nat, NEW m, Sound(m), NEW k \in Nat, NEW loc \in Nat,
           Reads(b, ip, RowOf(k, loc, m)), NEW reg \in Saving, NEW n \in Nat,
           Stands(b, k, def_cfa(Dwarf[reg], n))
    PROVE  /\ Reads(b, ip, RowOf(k + Len(def_cfa(Dwarf[reg], n)), loc,
                                 Thread(m.sp, [reg |-> reg, n |-> n], m.saved)))
           /\ Sound(Thread(m.sp, [reg |-> reg, n |-> n], m.saved))
<1> DEFINE t == Thread(m.sp, [reg |-> reg, n |-> n], m.saved)
           r == RowOf(k, loc, m)
           w == def_cfa(Dwarf[reg], n)
<1>1. Dwarf[reg] \in Nat /\ reg # "rsp"
  BY Registers DEF Saving
<1>2. /\ r \in Row /\ r.k = k /\ r.loc = loc
      /\ r.rules = Rules(m.saved) /\ Reads(b, ip, r) /\ Stands(b, k, w)
  BY RowOfRow
<1>3. Sound(t) /\ RowOf(k + Len(w), loc, t) = Fields(k + Len(w), loc, Dwarf[reg], n, Rules(m.saved))
  BY <1>1 DEF Sound, Stacks, Thread, Frames, Saving, RowOf
<1> HIDE DEF r, t
<1>4. Reads(b, ip, Fields(r.k + Len(w), r.loc, Dwarf[reg], n, r.rules))
  <2>1. Stands(b, r.k, w)
    BY <1>2
  <2> QED
    BY <1>1, <1>2, <2>1, CfaOn
<1> HIDE DEF w
<1>5. Reads(b, ip, RowOf(k + Len(w), loc, t))
  BY <1>2, <1>3, <1>4
<1> QED
  BY <1>3, <1>5 DEF t, w

\* The instructions of an operation, from what the thread did before it.
Written(m, op) ==
    CASE op.op = "Push"    -> Cfa(m, m.sp + 8) \o emit_offset(Dwarf[op.reg], -(m.sp + 8))
      [] op.op = "Alloc"   -> Cfa(m, m.sp + op.n)
      [] op.op = "Frame"   -> def_cfa(Dwarf[op.reg], m.sp - op.n)
      [] op.op = "Save"    -> emit_offset(Dwarf[op.reg], op.n - m.sp)
      [] op.op = "Machine" -> Cfa(m, op.n) \o emit_offset(16, -40)

\* Sums and differences of multiples of 8 are multiples of 8.
LEMMA Eights ==
    ASSUME NEW n \in Int, n % 8 = 0
    PROVE  /\ (n + 8) % 8 = 0 /\ (-n) % 8 = 0
           /\ \A k \in Int : k % 8 = 0 => (n + k) % 8 = 0 /\ (n - k) % 8 = 0
OBVIOUS

\* To save one register more leaves the others where they are.
LEMMA SavedOne ==
    ASSUME NEW where \in [Saving -> Int], NEW reg, NEW n \in Int
    PROVE  [where EXCEPT ![reg] = n] \in [Saving -> Int]
OBVIOUS

\* What an operation does to a thread.
LEMMA DoesIs ==
    ASSUME NEW m \in Stacks, NEW op \in Usable, NEW base \in Int
    PROVE  /\ op.op = "Push" => Does(m, op, base) =
                Thread(m.sp + 8, m.fp, [m.saved EXCEPT ![op.reg] = -(m.sp + 8)])
           /\ op.op = "Alloc" => Does(m, op, base) = Thread(m.sp + op.n, m.fp, m.saved)
           /\ op.op = "Frame" => Does(m, op, base) =
                Thread(m.sp, [reg |-> op.reg, n |-> m.sp - op.n], m.saved)
           /\ op.op = "Save" => Does(m, op, base) =
                Thread(m.sp, m.fp, [m.saved EXCEPT ![op.reg] = op.n - base])
           /\ op.op = "Machine" => Does(m, op, base) =
                Thread(op.n, m.fp, [m.saved EXCEPT !["rip"] = -40])
           /\ Does(m, op, base) \in Stacks
<1>1. m.sp \in Nat /\ m.fp \in Frames /\ m.saved \in [Saving -> Int]
  BY DEF Stacks
<1>2. op.n \in Nat /\ op.op \in {"Push", "Alloc", "Frame", "Save", "Machine"}
  BY UsableIs
<1>3. op.op \in {"Push", "Frame", "Save"} => op.reg \in Saving /\ op.reg \in DOMAIN Dwarf
  BY UsableIs, Registers DEF Saving
<1>4. CASE op.op = "Push"
  <2> DEFINE new == [m.saved EXCEPT ![op.reg] = -(m.sp + 8)]
  <2>1. Does(m, op, base) = [m EXCEPT !.sp = m.sp + 8, !.saved = new]
    BY <1>4 DEF Does, Stacks
  <2>2. new \in [Saving -> Int] /\ m.sp + 8 \in Nat
    <3>1. m.sp + 8 \in Nat /\ -(m.sp + 8) \in Int
      BY <1>1
    <3> QED
      BY <1>1, <3>1, SavedOne
  <2> HIDE DEF new
  <2>3. Does(m, op, base) = Thread(m.sp + 8, m.fp, new)
    BY <2>1 DEF Stacks, Thread
  <2>4. Thread(m.sp + 8, m.fp, new) \in Stacks
    BY <1>1, <2>2 DEF Stacks, Thread
  <2> QED
    BY <1>4, <2>3, <2>4 DEF new
<1>5. CASE op.op = "Alloc"
  <2>1. Does(m, op, base) = [m EXCEPT !.sp = m.sp + op.n]
    BY <1>5 DEF Does
  <2>2. m.sp + op.n \in Nat
    BY <1>1, <1>2
  <2> QED
    BY <1>1, <1>5, <2>1, <2>2 DEF Stacks, Thread
<1>6. CASE op.op = "Frame"
  <2> DEFINE new == [reg |-> op.reg, n |-> m.sp - op.n]
  <2>1. Does(m, op, base) = [m EXCEPT !.fp = new]
    BY <1>6 DEF Does
  <2>2. new \in Frames
    BY <1>1, <1>2, <1>3, <1>6 DEF Frames
  <2> HIDE DEF new
  <2>3. Does(m, op, base) = Thread(m.sp, new, m.saved)
    BY <2>1 DEF Stacks, Thread
  <2>4. Thread(m.sp, new, m.saved) \in Stacks
    BY <1>1, <2>2 DEF Stacks, Thread
  <2> QED
    BY <1>6, <2>3, <2>4 DEF new
<1>7. CASE op.op = "Save"
  <2> DEFINE new == [m.saved EXCEPT ![op.reg] = op.n - base]
  <2>1. Does(m, op, base) = [m EXCEPT !.saved = new]
    BY <1>7 DEF Does, Stacks
  <2>2. new \in [Saving -> Int]
    <3>1. op.n - base \in Int
      BY <1>2
    <3> QED
      BY <1>1, <3>1, SavedOne
  <2> HIDE DEF new
  <2>3. Does(m, op, base) = Thread(m.sp, m.fp, new)
    BY <2>1 DEF Stacks, Thread
  <2>4. Thread(m.sp, m.fp, new) \in Stacks
    BY <1>1, <2>2 DEF Stacks, Thread
  <2> QED
    BY <1>7, <2>3, <2>4 DEF new
<1>8. CASE op.op = "Machine"
  <2> DEFINE new == [m.saved EXCEPT !["rip"] = -40]
  <2>1. Does(m, op, base) = [m EXCEPT !.sp = op.n, !.saved = new]
    BY <1>8 DEF Does, Stacks
  <2>2. new \in [Saving -> Int]
    <3>1. -40 \in Int
      OBVIOUS
    <3> QED
      BY <1>1, <3>1, SavedOne
  <2> HIDE DEF new
  <2>3. Does(m, op, base) = Thread(op.n, m.fp, new)
    BY <2>1 DEF Stacks, Thread
  <2>4. Thread(op.n, m.fp, new) \in Stacks
    BY <1>1, <1>2, <2>2 DEF Stacks, Thread
  <2> QED
    BY <1>8, <2>3, <2>4 DEF new
<1> QED
  BY <1>2, <1>4, <1>5, <1>6, <1>7, <1>8

\* Reading the instructions of an operation finds what it did.
LEMMA ReadsOperation ==
    ASSUME NEW b \in Seq(Nat), NEW ip \in Nat, NEW m, Sound(m), NEW k \in Nat, NEW loc \in Nat,
           Reads(b, ip, RowOf(k, loc, m)), NEW op \in Usable, NEW base \in Int,
           op.op = "Frame" => op.n <= m.sp, op.op = "Save" => op.n % 8 = 0 /\ base = m.sp,
           Stands(b, k, Written(m, op))
    PROVE  /\ Reads(b, ip, RowOf(k + Len(Written(m, op)), loc, Does(m, op, base)))
           /\ Sound(Does(m, op, base)) /\ Written(m, op) \in Seq(Nat)
<1> DEFINE w == Written(m, op)
           t == Does(m, op, base)
<1>1. m.sp \in Nat /\ m.sp % 8 = 0 /\ m \in Stacks
  BY DEF Sound, Stacks
<1>2. op.n \in Nat /\ op.op \in {"Push", "Alloc", "Frame", "Save", "Machine"}
      /\ (op.op \in {"Alloc", "Machine"} => op.n % 8 = 0)
  BY UsableIs
<1>3. op.op \in {"Push", "Frame", "Save"} => op.reg \in Saving /\ Dwarf[op.reg] \in Nat
  BY UsableIs, Registers DEF Saving
<1>4. "rip" \in Saving /\ Dwarf["rip"] = 16
  BY Registers DEF Saving
<1>5. ASSUME NEW n \in Nat, n % 8 = 0, NEW reg \in Saving, NEW v \in Int, v % 8 = 0,
             w = Cfa(m, n) \o emit_offset(Dwarf[reg], v),
             t = Thread(n, m.fp, [m.saved EXCEPT ![reg] = v])
      PROVE  Reads(b, ip, RowOf(k + Len(w), loc, t)) /\ Sound(t) /\ w \in Seq(Nat)
  <2> DEFINE u == Cfa(m, n)
             e == emit_offset(Dwarf[reg], v)
             q == Thread(n, m.fp, m.saved)
  <2>1. u \in Seq(Nat) /\ w = u \o e
    <3>1. def_cfa_offset(n) \in Seq(Nat)
      BY Lengths
    <3>2. w = u \o e
      BY <1>5
    <3> QED
      BY <3>1, <3>2 DEF Cfa
  <2>2. e \in Seq(Nat)
    BY Lengths, Registers DEF Saving
  <2>3. Stands(b, k, u) /\ Stands(b, k + Len(u), e)
    <3>1. Stands(b, k, w)
      OBVIOUS
    <3> HIDE DEF u, e, w
    <3> QED
      BY <2>1, <2>2, <3>1, StandsParts
  <2>4. Reads(b, ip, RowOf(k + Len(u), loc, q)) /\ Sound(q)
    BY <1>5, <2>3, CfaPart
  <2>5. Thread(q.sp, q.fp, [q.saved EXCEPT ![reg] = v]) = t
    BY <1>5 DEF Thread
  <2>6. k + Len(u) \in Nat
    <3> HIDE DEF u
    <3> QED
      BY <2>1
  <2>7. (k + Len(u)) + Len(e) = k + Len(w) /\ w \in Seq(Nat)
    <3> HIDE DEF u, e, w
    <3>1. Len(u \o e) = Len(u) + Len(e) /\ u \o e \in Seq(Nat) /\ Len(u) \in Nat /\ Len(e) \in Nat
      BY <2>1, <2>2, ConcatProperties
    <3> QED
      BY <2>1, <3>1
  <2>8. /\ Reads(b, ip, RowOf((k + Len(u)) + Len(e), loc,
                              Thread(q.sp, q.fp, [q.saved EXCEPT ![reg] = v])))
        /\ Sound(Thread(q.sp, q.fp, [q.saved EXCEPT ![reg] = v]))
    <3> HIDE DEF u, q
    <3> QED
      BY <1>5, <2>3, <2>4, <2>6, SavePart
  <2> HIDE DEF u, e, q, t, w
  <2> QED
    BY <2>5, <2>7, <2>8
<1>6. CASE op.op = "Push"
  <2>1. w = Cfa(m, m.sp + 8) \o emit_offset(Dwarf[op.reg], -(m.sp + 8))
    BY <1>6 DEF Written
  <2>2. t = Thread(m.sp + 8, m.fp, [m.saved EXCEPT ![op.reg] = -(m.sp + 8)])
    BY <1>1, <1>6, DoesIs
  <2>3. m.sp + 8 \in Nat /\ (m.sp + 8) % 8 = 0 /\ -(m.sp + 8) \in Int /\ (-(m.sp + 8)) % 8 = 0
    <3>1. m.sp + 8 \in Nat /\ -(m.sp + 8) \in Int
      BY <1>1
    <3>2. (m.sp + 8) % 8 = 0
      BY <1>1, Eights
    <3> DEFINE n == m.sp + 8
    <3>3. n \in Int /\ n % 8 = 0
      BY <3>1, <3>2
    <3> HIDE DEF n
    <3>4. (-n) % 8 = 0
      BY <3>3, Eights
    <3> QED
      BY <3>1, <3>2, <3>4 DEF n
  <2> HIDE DEF w, t
  <2> QED
    BY <1>3, <1>5, <1>6, <2>1, <2>2, <2>3 DEF w, t
<1>7. CASE op.op = "Alloc"
  <2>1. w = Cfa(m, m.sp + op.n) /\ t = Thread(m.sp + op.n, m.fp, m.saved)
    BY <1>1, <1>7, DoesIs DEF Written
  <2>2. m.sp + op.n \in Nat /\ (m.sp + op.n) % 8 = 0
    <3> DEFINE n == op.n
               d == m.sp
    <3>1. d + n \in Nat /\ n \in Int /\ d \in Int /\ n % 8 = 0 /\ d % 8 = 0
      BY <1>1, <1>2, <1>7
    <3> HIDE DEF n, d
    <3>2. (d + n) % 8 = 0
      BY <3>1, Eights
    <3> QED
      BY <3>1, <3>2 DEF n, d
  <2> DEFINE n == m.sp + op.n
             u == Cfa(m, n)
  <2>3. Stands(b, k, u) /\ n \in Nat /\ n % 8 = 0 /\ w = u /\ t = Thread(n, m.fp, m.saved)
    BY <2>1, <2>2
  <2> HIDE DEF n, w, t
  <2>4. /\ Reads(b, ip, RowOf(k + Len(u), loc, Thread(n, m.fp, m.saved)))
        /\ Sound(Thread(n, m.fp, m.saved)) /\ u \in Seq(Nat)
    BY <2>3, CfaPart
  <2> HIDE DEF u
  <2> QED
    BY <2>3, <2>4 DEF w, t
<1>8. CASE op.op = "Frame"
  <2>1. w = def_cfa(Dwarf[op.reg], m.sp - op.n)
        /\ t = Thread(m.sp, [reg |-> op.reg, n |-> m.sp - op.n], m.saved)
    BY <1>1, <1>8, DoesIs DEF Written
  <2>2. m.sp - op.n \in Nat
    BY <1>1, <1>2, <1>8
  <2>3. Stands(b, k, w)
    OBVIOUS
  <2> DEFINE n == m.sp - op.n
             reg == op.reg
  <2>4. /\ n \in Nat /\ reg \in Saving /\ Dwarf[reg] \in Nat /\ w = def_cfa(Dwarf[reg], n)
        /\ t = Thread(m.sp, [reg |-> reg, n |-> n], m.saved) /\ Stands(b, k, def_cfa(Dwarf[reg], n))
    <3> HIDE DEF w, t
    <3> QED
      BY <1>3, <1>8, <2>1, <2>2, <2>3
  <2> HIDE DEF w, t, n, reg
  <2>5. w \in Seq(Nat)
    <3>1. def_cfa(Dwarf[reg], n) \in Seq(Nat)
      BY <2>4, Lengths
    <3> QED
      BY <2>4, <3>1
  <2>6. /\ Reads(b, ip, RowOf(k + Len(def_cfa(Dwarf[reg], n)), loc,
                              Thread(m.sp, [reg |-> reg, n |-> n], m.saved)))
        /\ Sound(Thread(m.sp, [reg |-> reg, n |-> n], m.saved))
    BY <2>4, FramePart
  <2> QED
    BY <2>4, <2>5, <2>6 DEF w, t
<1>9. CASE op.op = "Save"
  <2>1. w = emit_offset(Dwarf[op.reg], op.n - m.sp)
        /\ t = Thread(m.sp, m.fp, [m.saved EXCEPT ![op.reg] = op.n - m.sp])
    BY <1>1, <1>9, DoesIs DEF Written
  <2>2. op.n - m.sp \in Int /\ (op.n - m.sp) % 8 = 0
    <3> DEFINE n == op.n
               d == m.sp
    <3>1. n - d \in Int /\ n \in Int /\ d \in Int /\ n % 8 = 0 /\ d % 8 = 0
      BY <1>1, <1>2, <1>9
    <3> HIDE DEF n, d
    <3>2. (n - d) % 8 = 0
      BY <3>1, Eights
    <3> QED
      BY <3>1, <3>2 DEF n, d
  <2>3. Stands(b, k, w)
    OBVIOUS
  <2> DEFINE n == op.n - m.sp
             reg == op.reg
  <2>4. /\ n \in Int /\ n % 8 = 0 /\ reg \in Saving /\ Dwarf[reg] \in Nat
        /\ w = emit_offset(Dwarf[reg], n) /\ t = Thread(m.sp, m.fp, [m.saved EXCEPT ![reg] = n])
        /\ Stands(b, k, emit_offset(Dwarf[reg], n))
    <3> HIDE DEF w, t
    <3> QED
      BY <1>3, <1>9, <2>1, <2>2, <2>3
  <2> HIDE DEF w, t, n, reg
  <2>5. w \in Seq(Nat)
    <3>1. emit_offset(Dwarf[reg], n) \in Seq(Nat)
      BY <2>4, Lengths
    <3> QED
      BY <2>4, <3>1
  <2>6. /\ Reads(b, ip, RowOf(k + Len(emit_offset(Dwarf[reg], n)), loc,
                              Thread(m.sp, m.fp, [m.saved EXCEPT ![reg] = n])))
        /\ Sound(Thread(m.sp, m.fp, [m.saved EXCEPT ![reg] = n]))
    BY <2>4, SavePart
  <2> QED
    BY <2>4, <2>5, <2>6 DEF w, t
<1>10. CASE op.op = "Machine"
  <2>1. w = Cfa(m, op.n) \o emit_offset(Dwarf["rip"], -40)
    BY <1>4, <1>10 DEF Written
  <2>2. t = Thread(op.n, m.fp, [m.saved EXCEPT !["rip"] = -40])
    BY <1>1, <1>10, DoesIs
  <2>3. op.n \in Nat /\ op.n % 8 = 0 /\ -40 \in Int /\ (-40) % 8 = 0
    BY <1>2, <1>10
  <2> HIDE DEF w, t
  <2> QED
    BY <1>4, <1>5, <1>10, <2>1, <2>2, <2>3 DEF w, t
<1> QED
  BY <1>2, <1>6, <1>7, <1>8, <1>9, <1>10

\* A prologue's operation keeps a thread such that a row can describe it.
LEMMA DoesSound ==
    ASSUME NEW m, Sound(m), NEW op \in Usable, NEW base \in Int,
           op.op = "Frame" => op.n <= m.sp
    PROVE  Sound(Does(m, op, base))
<1> DEFINE t == Does(m, op, base)
           n == op.n
           d == m.sp
<1>1. m \in Stacks /\ d \in Nat /\ d % 8 = 0 /\ m.fp.n \in Nat /\ m.fp \in Frames
  BY DEF Sound, Stacks
<1>2. n \in Nat /\ op.op \in {"Push", "Alloc", "Frame", "Save", "Machine"}
      /\ (op.op \in {"Alloc", "Machine"} => n % 8 = 0)
  BY UsableIs
<1>3. t \in Stacks
  BY <1>1, DoesIs
<1>4. CASE op.op = "Push"
  <2>1. t.sp = d + 8 /\ t.fp = m.fp
    BY <1>1, <1>4, DoesIs DEF Thread
  <2> HIDE DEF t, d
  <2> QED
    BY <1>1, <1>3, <2>1, Eights DEF Sound, t
<1>5. CASE op.op = "Alloc"
  <2>1. t.sp = d + n /\ t.fp = m.fp /\ n % 8 = 0
    BY <1>1, <1>2, <1>5, DoesIs DEF Thread
  <2> HIDE DEF t, d, n
  <2>2. (d + n) % 8 = 0
    BY <1>1, <1>2, <2>1, Eights
  <2>3. t.fp.n \in Nat /\ t.sp % 8 = 0
    BY <1>1, <2>1, <2>2
  <2> QED
    BY <1>3, <2>3 DEF Sound, t
<1>6. CASE op.op = "Frame"
  <2>1. t.sp = d /\ t.fp.n = d - n /\ n <= d
    BY <1>1, <1>6, DoesIs DEF Thread
  <2>2. d - n \in Nat
    BY <1>1, <1>2, <2>1
  <2> HIDE DEF t, d, n
  <2> QED
    BY <1>1, <1>3, <2>1, <2>2 DEF Sound, t
<1>7. CASE op.op = "Save"
  <2>1. t.sp = d /\ t.fp = m.fp
    BY <1>1, <1>7, DoesIs DEF Thread
  <2> HIDE DEF t, d
  <2> QED
    BY <1>1, <1>3, <2>1 DEF Sound, t
<1>8. CASE op.op = "Machine"
  <2>1. t.sp = n /\ t.fp = m.fp /\ n % 8 = 0
    <3>1. t = Thread(n, m.fp, [m.saved EXCEPT !["rip"] = -40])
      BY <1>1, <1>8, DoesIs
    <3> HIDE DEF t, n
    <3> QED
      BY <1>2, <1>8, <3>1 DEF Thread
  <2> HIDE DEF t, d, n
  <2> QED
    BY <1>1, <1>2, <1>3, <2>1 DEF Sound, t
<1> QED
  BY <1>2, <1>4, <1>5, <1>6, <1>7, <1>8

\* The instructions of an operation are bytes.
LEMMA WrittenSeq ==
    ASSUME NEW m, Sound(m), NEW op \in Usable, op.op = "Frame" => op.n <= m.sp
    PROVE  Written(m, op) \in Seq(Nat)
<1>1. m.sp \in Nat /\ op.n \in Nat /\ op.op \in {"Push", "Alloc", "Frame", "Save", "Machine"}
  BY UsableIs DEF Sound, Stacks
<1>2. op.op \in {"Push", "Frame", "Save"} => Dwarf[op.reg] \in Nat
  BY UsableIs, Registers
<1>3. ASSUME NEW n \in Nat PROVE Cfa(m, n) \in Seq(Nat)
  <2>1. def_cfa_offset(n) \in Seq(Nat)
    BY Lengths
  <2> QED
    BY <2>1 DEF Cfa
<1>4. CASE op.op = "Push"
  <2> DEFINE n == m.sp + 8
             v == -(m.sp + 8)
  <2>1. n \in Nat /\ v \in Int /\ Written(m, op) = Cfa(m, n) \o emit_offset(Dwarf[op.reg], v)
    BY <1>1, <1>4 DEF Written
  <2> HIDE DEF n, v
  <2>2. Cfa(m, n) \in Seq(Nat) /\ emit_offset(Dwarf[op.reg], v) \in Seq(Nat)
    BY <1>2, <1>3, <1>4, <2>1, Lengths
  <2> QED
    BY <2>1, <2>2, ConcatProperties
<1>5. CASE op.op = "Alloc"
  <2> DEFINE n == m.sp + op.n
  <2>1. n \in Nat /\ Written(m, op) = Cfa(m, n)
    BY <1>1, <1>5 DEF Written
  <2> HIDE DEF n
  <2> QED
    BY <1>3, <2>1
<1>6. CASE op.op = "Frame"
  <2> DEFINE n == m.sp - op.n
  <2>1. n \in Nat /\ Written(m, op) = def_cfa(Dwarf[op.reg], n)
    BY <1>1, <1>6 DEF Written
  <2> HIDE DEF n
  <2> QED
    BY <1>2, <1>6, <2>1, Lengths
<1>7. CASE op.op = "Save"
  <2> DEFINE n == op.n - m.sp
  <2>1. n \in Int /\ Written(m, op) = emit_offset(Dwarf[op.reg], n)
    BY <1>1, <1>7 DEF Written
  <2> HIDE DEF n
  <2> QED
    BY <1>2, <1>7, <2>1, Lengths
<1>8. CASE op.op = "Machine"
  <2> DEFINE n == op.n
             v == -40
             reg == 16
  <2>1. n \in Nat /\ v \in Int /\ reg \in Nat /\ Written(m, op) = Cfa(m, n) \o emit_offset(reg, v)
    BY <1>1, <1>8 DEF Written
  <2> HIDE DEF n, v, reg
  <2>2. Cfa(m, n) \in Seq(Nat) /\ emit_offset(reg, v) \in Seq(Nat)
    BY <1>3, <2>1, Lengths
  <2> QED
    BY <2>1, <2>2, ConcatProperties
<1> QED
  BY <1>1, <1>4, <1>5, <1>6, <1>7, <1>8

\* What apply_operation writes to.
Writers == [out : Seq(Nat), depth : Nat, frame : BOOLEAN, bias : {0, 8}, throws : BOOLEAN]

Writer(out, depth, frame, bias, throws) ==
    [out |-> out, depth |-> depth, frame |-> frame, bias |-> bias, throws |-> throws]

\* The fields of a writer make a writer.
LEMMA WriterIs ==
    ASSUME NEW out \in Seq(Nat), NEW depth \in Nat, NEW frame \in BOOLEAN, NEW bias \in {0, 8},
           NEW throws \in BOOLEAN
    PROVE  Writer(out, depth, frame, bias, throws) \in Writers
BY DEF Writer, Writers

\* What has been written and what has run are at the same distance from the CFA.
Alike(s, m) == s.depth + s.bias = m.sp /\ (s.frame <=> m.fp.reg # "rsp")

\* After apply_operation has thrown, nothing more is written.
LEMMA ApplyThrown ==
    ASSUME NEW s, s.throws, NEW op
    PROVE  apply_operation(s, op) = s
BY DEF apply_operation

\* apply_operation goes by the kind of the operation.
LEMMA ApplyIs ==
    ASSUME NEW s \in Writers, ~s.throws, NEW op \in Usable
    PROVE  /\ op.op = "Push" => apply_operation(s, op) = Push(s, op)
           /\ op.op = "Alloc" => apply_operation(s, op) = Alloc(s, op)
           /\ op.op = "Frame" => apply_operation(s, op) = Frame(s, op)
           /\ op.op = "Save" => apply_operation(s, op) = Save(s, op)
           /\ op.op = "Machine" => apply_operation(s, op) = Machine(s, op)
BY DEF apply_operation

\* What is written for a moved CFA is bytes.
LEMMA CfaSeq ==
    ASSUME NEW s, NEW n \in Nat
    PROVE  CfaOffset(s, n) \in Seq(Nat)
<1>1. def_cfa_offset(n) \in Seq(Nat)
  BY Lengths
<1> QED
  BY <1>1 DEF CfaOffset

\* apply_operation leaves a writer, whatever the operation.
LEMMA Applied ==
    ASSUME NEW s \in Writers, ~s.throws, NEW op \in Usable
    PROVE  apply_operation(s, op) \in Writers
<1> DEFINE t == apply_operation(s, op)
           d == s.depth
           z == s.bias
           out == s.out
<1>1. out \in Seq(Nat) /\ d \in Nat /\ s.frame \in BOOLEAN /\ z \in {0, 8} /\ s.throws \in BOOLEAN
  BY DEF Writers
<1>2. op.n \in Nat /\ op.op \in {"Push", "Alloc", "Frame", "Save", "Machine"}
  BY UsableIs
<1>3. op.op \in {"Push", "Frame", "Save"} => register_map(op.reg) \in Nat
  BY UsableIs, Registers
<1>4. \A v \in Seq(Nat) : out \o v \in Seq(Nat)
  BY <1>1, ConcatProperties
<1>5. CASE op.op = "Push"
  <2> DEFINE u == CfaOffset(s, d + 8 + z)
             v == emit_offset(register_map(op.reg), -(d + 8 + z))
  <2>1. t = [s EXCEPT !.depth = d + 8, !.out = out \o u \o v]
    BY <1>5, ApplyIs DEF Push
  <2>2. d + 8 \in Nat /\ d + 8 + z \in Nat /\ -(d + 8 + z) \in Int
    BY <1>1
  <2>3. u \in Seq(Nat) /\ v \in Seq(Nat)
    BY <1>3, <1>5, <2>2, CfaSeq, Lengths
  <2> HIDE DEF u, v
  <2>4. out \o u \o v \in Seq(Nat)
    BY <1>1, <2>3, ConcatProperties
  <2> QED
    BY <2>1, <2>2, <2>4 DEF Writers
<1>6. CASE op.op = "Alloc"
  <2> DEFINE u == CfaOffset(s, d + op.n + z)
  <2>1. t = [s EXCEPT !.depth = d + op.n, !.out = out \o u]
    BY <1>6, ApplyIs DEF Alloc
  <2>2. d + op.n \in Nat /\ d + op.n + z \in Nat
    BY <1>1, <1>2
  <2>3. u \in Seq(Nat)
    BY <2>2, CfaSeq
  <2> HIDE DEF u
  <2>4. out \o u \in Seq(Nat)
    BY <1>1, <2>3, ConcatProperties
  <2> QED
    BY <2>1, <2>2, <2>4 DEF Writers
<1>7. CASE op.op = "Frame"
  <2>1. CASE d + z < op.n
    <3>1. t = [s EXCEPT !.throws = TRUE]
      BY <1>7, <2>1, ApplyIs DEF Frame
    <3> QED
      BY <3>1 DEF Writers
  <2>2. CASE ~(d + z < op.n)
    <3> DEFINE u == def_cfa(register_map(op.reg), d + z - op.n)
    <3>1. t = [s EXCEPT !.frame = TRUE, !.out = out \o u]
      BY <1>7, <2>2, ApplyIs DEF Frame
    <3>2. d + z - op.n \in Nat
      BY <1>1, <1>2, <2>2
    <3>3. u \in Seq(Nat)
      BY <1>3, <1>7, <3>2, Lengths
    <3> HIDE DEF u
    <3>4. out \o u \in Seq(Nat)
      BY <1>1, <3>3, ConcatProperties
    <3> QED
      BY <3>1, <3>4 DEF Writers
  <2> QED
    BY <2>1, <2>2
<1>8. CASE op.op = "Save"
  <2>1. CASE op.n % 8 # 0
    <3>1. t = [s EXCEPT !.throws = TRUE]
      BY <1>8, <2>1, ApplyIs DEF Save
    <3> QED
      BY <3>1 DEF Writers
  <2>2. CASE op.n % 8 = 0
    <3> DEFINE u == emit_offset(register_map(op.reg), op.n - (d + z))
    <3>1. t = [s EXCEPT !.out = out \o u]
      BY <1>8, <2>2, ApplyIs DEF Save
    <3>2. op.n - (d + z) \in Int
      BY <1>1, <1>2
    <3>3. u \in Seq(Nat)
      BY <1>3, <1>8, <3>2, Lengths
    <3> HIDE DEF u
    <3>4. out \o u \in Seq(Nat)
      BY <1>1, <3>3, ConcatProperties
    <3> QED
      BY <3>1, <3>4 DEF Writers
  <2> QED
    BY <2>1, <2>2
<1>9. CASE op.op = "Machine"
  <2> DEFINE u == CfaOffset(s, d + op.n)
             v == emit_offset(16, -40)
  <2>1. t = [s EXCEPT !.depth = d + op.n, !.bias = 0, !.out = out \o u \o v]
    BY <1>9, ApplyIs DEF Machine
  <2>2. d + op.n \in Nat /\ -40 \in Int /\ 16 \in Nat
    BY <1>1, <1>2
  <2>3. u \in Seq(Nat) /\ v \in Seq(Nat)
    BY <2>2, CfaSeq, Lengths
  <2> HIDE DEF u, v
  <2>4. out \o u \o v \in Seq(Nat)
    BY <1>1, <2>3, ConcatProperties
  <2> QED
    BY <2>1, <2>2, <2>4 DEF Writers
<1> QED
  BY <1>2, <1>5, <1>6, <1>7, <1>8, <1>9

\* An operation writes what it does.
LEMMA Writes ==
    ASSUME NEW s \in Writers, ~s.throws, NEW op \in Usable, ~apply_operation(s, op).throws,
           NEW m, Sound(m), Alike(s, m), op.op = "Machine" => s.depth = 0, NEW base \in Int
    PROVE  /\ apply_operation(s, op).out = s.out \o Written(m, op)
           /\ Alike(apply_operation(s, op), Does(m, op, base))
           /\ op.op = "Frame" => op.n <= m.sp
           /\ op.op = "Save" => op.n % 8 = 0
           /\ op.op # "Machine" => apply_operation(s, op).bias = s.bias
<1> DEFINE t == apply_operation(s, op)
           d == s.depth
           z == s.bias
           q == Does(m, op, base)
           reg == op.reg
<1>1. /\ s.out \in Seq(Nat) /\ d \in Nat /\ s.frame \in BOOLEAN /\ z \in {0, 8}
      /\ m \in Stacks /\ m.sp \in Nat /\ d + z = m.sp /\ (s.frame <=> m.fp.reg # "rsp")
  BY DEF Writers, Sound, Stacks, Alike
<1>2. op.n \in Nat /\ op.op \in {"Push", "Alloc", "Frame", "Save", "Machine"}
  BY UsableIs
<1>3. op.op \in {"Push", "Frame", "Save"} => register_map(reg) = Dwarf[reg] /\ reg # "rsp"
  BY UsableIs DEF Keeping
<1>4. \A n : CfaOffset(s, n) = Cfa(m, n)
  BY <1>1 DEF CfaOffset, Cfa
<1>5. CASE op.op = "Push"
  <2> DEFINE u == CfaOffset(s, d + 8 + z)
             v == emit_offset(register_map(reg), -(d + 8 + z))
  <2>1. t = [s EXCEPT !.depth = d + 8, !.out = s.out \o u \o v]
    BY <1>5, ApplyIs DEF Push
  <2>2. d + 8 + z = m.sp + 8
    BY <1>1
  <2>3. Written(m, op) = u \o v
    <3>1. Written(m, op) = Cfa(m, m.sp + 8) \o emit_offset(Dwarf[reg], -(m.sp + 8))
      BY <1>5 DEF Written
    <3> QED
      BY <1>3, <1>4, <1>5, <2>2, <3>1
  <2>4. u \in Seq(Nat) /\ v \in Seq(Nat)
    <3>1. d + 8 + z \in Nat /\ -(d + 8 + z) \in Int /\ register_map(reg) \in Nat
      BY <1>1, <1>5, UsableIs, Registers
    <3> QED
      BY <3>1, CfaSeq, Lengths
  <2>5. q = Thread(m.sp + 8, m.fp, [m.saved EXCEPT ![reg] = -(m.sp + 8)])
    BY <1>1, <1>5, DoesIs
  <2>6. q.sp = m.sp + 8 /\ q.fp = m.fp
    BY <2>5 DEF Thread
  <2> HIDE DEF u, v, q
  <2>7. s.out \o u \o v = s.out \o (u \o v)
    <3> DEFINE out == s.out
    <3>1. out \in Seq(Nat)
      BY <1>1
    <3> HIDE DEF out
    <3>2. out \o u \o v = out \o (u \o v)
      BY <2>4, <3>1, ConcatAssociative
    <3> QED
      BY <3>2 DEF out
  <2>8. t.out = s.out \o u \o v /\ t.depth = d + 8 /\ t.bias = z /\ t.frame = s.frame
    BY <2>1 DEF Writers
  <2> HIDE DEF t, d, z
  <2>9. t.depth + t.bias = q.sp
    BY <1>1, <2>6, <2>8
  <2> QED
    BY <1>1, <1>5, <2>3, <2>6, <2>7, <2>8, <2>9 DEF Alike, t, q, z
<1>6. CASE op.op = "Alloc"
  <2> DEFINE u == CfaOffset(s, d + op.n + z)
  <2>1. t = [s EXCEPT !.depth = d + op.n, !.out = s.out \o u]
    BY <1>6, ApplyIs DEF Alloc
  <2>2. d + op.n + z = m.sp + op.n
    BY <1>1, <1>2
  <2>3. Written(m, op) = u
    <3>1. Written(m, op) = Cfa(m, m.sp + op.n)
      BY <1>6 DEF Written
    <3> QED
      BY <1>4, <2>2, <3>1
  <2>4. q.sp = m.sp + op.n /\ q.fp = m.fp
    BY <1>1, <1>6, DoesIs DEF Thread
  <2> HIDE DEF u, q
  <2>5. t.out = s.out \o u /\ t.depth = d + op.n /\ t.bias = z /\ t.frame = s.frame
    BY <2>1 DEF Writers
  <2> HIDE DEF t, d, z
  <2>6. t.depth + t.bias = q.sp
    BY <1>1, <1>2, <2>4, <2>5
  <2> QED
    BY <1>1, <1>6, <2>3, <2>4, <2>5, <2>6 DEF Alike, t, q, z
<1>7. CASE op.op = "Frame"
  <2>1. ~(d + z < op.n)
    <3>1. ASSUME d + z < op.n PROVE FALSE
      <4>1. t = [s EXCEPT !.throws = TRUE]
        BY <1>7, <3>1, ApplyIs DEF Frame
      <4> QED
        BY <4>1 DEF Writers
    <3> QED
      BY <3>1
  <2> DEFINE u == def_cfa(register_map(reg), d + z - op.n)
  <2>2. t = [s EXCEPT !.frame = TRUE, !.out = s.out \o u]
    BY <1>7, <2>1, ApplyIs DEF Frame
  <2>3. Written(m, op) = u
    <3>1. Written(m, op) = def_cfa(Dwarf[reg], m.sp - op.n)
      BY <1>7 DEF Written
    <3>2. d + z - op.n = m.sp - op.n
      BY <1>1, <1>2
    <3> QED
      BY <1>3, <1>7, <3>1, <3>2
  <2>4. q.sp = m.sp /\ q.fp.reg = reg
    BY <1>1, <1>7, DoesIs DEF Thread
  <2>5. op.n <= m.sp
    BY <1>1, <1>2, <2>1
  <2> HIDE DEF u, q
  <2>6. t.out = s.out \o u /\ t.depth = d /\ t.bias = z /\ t.frame = TRUE
    BY <2>2 DEF Writers
  <2> HIDE DEF t
  <2> QED
    BY <1>1, <1>3, <1>7, <2>3, <2>4, <2>5, <2>6 DEF Alike, t, q, d, z
<1>8. CASE op.op = "Save"
  <2>1. op.n % 8 = 0
    <3>1. ASSUME op.n % 8 # 0 PROVE FALSE
      <4>1. t = [s EXCEPT !.throws = TRUE]
        BY <1>8, <3>1, ApplyIs DEF Save
      <4> QED
        BY <4>1 DEF Writers
    <3> QED
      BY <3>1
  <2> DEFINE u == emit_offset(register_map(reg), op.n - (d + z))
  <2>2. t = [s EXCEPT !.out = s.out \o u]
    BY <1>8, <2>1, ApplyIs DEF Save
  <2>3. Written(m, op) = u
    <3>1. Written(m, op) = emit_offset(Dwarf[reg], op.n - m.sp)
      BY <1>8 DEF Written
    <3> QED
      BY <1>1, <1>3, <1>8, <3>1
  <2>4. q.sp = m.sp /\ q.fp = m.fp
    BY <1>1, <1>8, DoesIs DEF Thread
  <2> HIDE DEF u, q
  <2>5. t.out = s.out \o u /\ t.depth = d /\ t.bias = z /\ t.frame = s.frame
    BY <2>2 DEF Writers
  <2> HIDE DEF t
  <2> QED
    BY <1>1, <1>8, <2>1, <2>3, <2>4, <2>5 DEF Alike, t, q, d, z
<1>9. CASE op.op = "Machine"
  <2> DEFINE u == CfaOffset(s, d + op.n)
             v == emit_offset(16, -40)
  <2>1. t = [s EXCEPT !.depth = d + op.n, !.bias = 0, !.out = s.out \o u \o v]
    BY <1>9, ApplyIs DEF Machine
  <2>2. d + op.n = op.n
    BY <1>2, <1>9
  <2>3. Written(m, op) = u \o v
    <3>1. Written(m, op) = Cfa(m, op.n) \o emit_offset(16, -40)
      BY <1>9 DEF Written
    <3> QED
      BY <1>4, <2>2, <3>1
  <2>4. u \in Seq(Nat) /\ v \in Seq(Nat)
    <3>1. d + op.n \in Nat /\ -40 \in Int /\ 16 \in Nat
      BY <1>1, <1>2
    <3> QED
      BY <3>1, CfaSeq, Lengths
  <2>5. q.sp = op.n /\ q.fp = m.fp
    BY <1>1, <1>9, DoesIs DEF Thread
  <2> HIDE DEF u, v, q
  <2>6. s.out \o u \o v = s.out \o (u \o v)
    <3> DEFINE out == s.out
    <3>1. out \in Seq(Nat)
      BY <1>1
    <3> HIDE DEF out
    <3>2. out \o u \o v = out \o (u \o v)
      BY <2>4, <3>1, ConcatAssociative
    <3> QED
      BY <3>2 DEF out
  <2>7. t.out = s.out \o u \o v /\ t.depth = d + op.n /\ t.bias = 0 /\ t.frame = s.frame
    BY <2>1 DEF Writers
  <2> HIDE DEF t, d, z
  <2>8. t.depth + t.bias = q.sp
    BY <1>2, <2>2, <2>5, <2>7
  <2> QED
    BY <1>1, <1>9, <2>3, <2>5, <2>6, <2>7, <2>8 DEF Alike, t, q
<1> QED
  BY <1>2, <1>5, <1>6, <1>7, <1>8, <1>9

---------------------------------------------------------------------------
(* All the operations.                                                     *)

\* Each distance to the CFA is the one before it, moved by one operation.
LEMMA DistancesIs ==
    ASSUME NEW ops \in Seq(Usable)
    PROVE  /\ Distances(ops)[0] = 8 /\ \A k \in 0..Len(ops) : Distances(ops)[k] \in Nat
           /\ \A k \in 1..Len(ops) : Distances(ops)[k] = Moved(Distances(ops)[k - 1], ops[k])
<1> DEFINE size == Len(ops)
           G == [k \in 1..size |-> [n \in Nat |-> Moved(n, ops[k])]]
           Is(f) == f = [k \in 0..size |-> IF k = 0 THEN 8 ELSE Moved(f[k - 1], ops[k])]
<1>1. size \in Nat /\ \A k \in 1..size : ops[k] \in Usable
  OBVIOUS
<1>2. G \in [1..size -> [Nat -> Nat]]
  <2>1. ASSUME NEW k \in 1..size, NEW n \in Nat PROVE Moved(n, ops[k]) \in Nat
    <3>1. ops[k].n \in Nat
      BY <1>1, UsableIs
    <3> QED
      BY <3>1 DEF Moved
  <2> HIDE DEF size
  <2> QED
    BY <2>1
<1>3. PICK d : Follows(Nat, 8, size, G, d)
  <2> HIDE DEF G, size
  <2> QED
    BY <1>1, <1>2, Chain
<1>4. /\ d \in [0..size -> Nat] /\ d[0] = 8 /\ \A k \in 1..size : d[k] = Moved(d[k - 1], ops[k])
  <2>1. d \in [0..size -> Nat] /\ d[0] = 8 /\ \A k \in 1..size : d[k] = G[k][d[k - 1]]
    <3> HIDE DEF G, size
    <3> QED
      BY <1>3 DEF Follows
  <2> HIDE DEF size
  <2>2. \A k \in 1..size : d[k - 1] \in Nat
    BY <1>1, <2>1
  <2> QED
    BY <2>1, <2>2
<1>5. Is(d)
  <2> HIDE DEF size
  <2> QED
    BY <1>4
<1>6. Distances(ops) = CHOOSE f : Is(f)
  BY DEF Distances
<1>7. Is(Distances(ops))
  <2> HIDE DEF Is
  <2> QED
    BY <1>5, <1>6
<1> DEFINE e == Distances(ops)
<1> HIDE DEF e
<1>8. e[0] = 8 /\ \A k \in 1..size : e[k] = Moved(e[k - 1], ops[k])
  <2>1. Is(e)
    BY <1>7 DEF e
  <2> HIDE DEF size
  <2> QED
    BY <1>1, <2>1
<1>9. \A k \in 0..size : e[k] \in Nat
  <2> DEFINE S == {k \in 0..size : e[k] \in Nat}
  <2> HIDE DEF size
  <2>1. 0 \in S
    BY <1>1, <1>8
  <2>2. ASSUME NEW k \in 0..(size - 1), k \in S PROVE k + 1 \in S
    <3>1. k + 1 \in 1..size /\ (k + 1) - 1 = k /\ k + 1 \in 0..size /\ e[k] \in Nat
      BY <1>1, <2>2
    <3>2. ops[k + 1].n \in Nat
      BY <1>1, <3>1, UsableIs
    <3>3. Moved(e[k], ops[k + 1]) \in Nat
      BY <3>1, <3>2 DEF Moved
    <3>4. e[k + 1] = Moved(e[k], ops[k + 1])
      BY <1>8, <3>1
    <3> QED
      BY <3>1, <3>3, <3>4
  <2>3. \A k \in 0..size : k \in S
    <3> HIDE DEF S
    <3> QED
      BY <1>1, <2>1, <2>2, Climb
  <2> QED
    BY <2>3
<1> QED
  BY <1>8, <1>9 DEF e

\* At a function's first instruction, a row can describe the thread.
LEMMA CalledSound == Called \in Stacks /\ Sound(Called)
<1>1. {"rsp", "rip"} \subseteq DOMAIN Dwarf
  BY Registers
<1> DEFINE where == [r \in DOMAIN Dwarf \ {"rsp"} |-> IF r = "rip" THEN -8 ELSE Kept]
<1>2. where \in [Saving -> Int]
  BY DEF Saving, Kept
<1> HIDE DEF where
<1>3. Called = [sp |-> 8, fp |-> [reg |-> "rsp", n |-> 0], saved |-> where]
  BY DEF Called, where
<1>4. [reg |-> "rsp", n |-> 0] \in Frames
  BY <1>1 DEF Frames
<1> QED
  BY <1>2, <1>3, <1>4 DEF Stacks, Sound

\* Each state of the prologue is the one before it and one operation more.
LEMMA ExecutedIs ==
    ASSUME NEW ops \in Seq(Usable)
    PROVE  /\ Base(ops) \in Nat
           /\ Executed(ops)[0] = Called /\ \A k \in 0..Len(ops) : Executed(ops)[k] \in Stacks
           /\ \A k \in 1..Len(ops) :
                Executed(ops)[k] = Does(Executed(ops)[k - 1], ops[k], Base(ops))
<1> DEFINE size == Len(ops)
           base == Base(ops)
           G == [k \in 1..size |-> [m \in Stacks |-> Does(m, ops[k], base)]]
           Is(f) == f = [k \in 0..size |-> IF k = 0 THEN Called ELSE Does(f[k - 1], ops[k], base)]
<1>1. size \in Nat /\ \A k \in 1..size : ops[k] \in Usable
  OBVIOUS
<1>2. base \in Nat /\ base \in Int
  BY DistancesIs DEF Base
<1>3. Executed(ops) = CHOOSE f : Is(f)
  BY DEF Executed
<1> HIDE DEF size, base
<1>4. G \in [1..size -> [Stacks -> Stacks]]
  <2>1. ASSUME NEW k \in 1..size, NEW m \in Stacks PROVE Does(m, ops[k], base) \in Stacks
    BY <1>1, <1>2, DoesIs
  <2> QED
    BY <2>1
<1>5. PICK t : Follows(Stacks, Called, size, G, t)
  <2> HIDE DEF G
  <2> QED
    BY <1>1, <1>4, CalledSound, Chain
<1>6. /\ t \in [0..size -> Stacks] /\ t[0] = Called
      /\ \A k \in 1..size : t[k] = Does(t[k - 1], ops[k], base)
  <2>1. t \in [0..size -> Stacks] /\ t[0] = Called /\ \A k \in 1..size : t[k] = G[k][t[k - 1]]
    <3> HIDE DEF G
    <3> QED
      BY <1>5 DEF Follows
  <2>2. \A k \in 1..size : t[k - 1] \in Stacks
    BY <1>1, <2>1
  <2> QED
    BY <2>1, <2>2
<1>7. Is(t)
  BY <1>6
<1>8. Is(Executed(ops))
  <2> HIDE DEF Is
  <2> QED
    BY <1>3, <1>7
<1> DEFINE e == Executed(ops)
<1> HIDE DEF e
<1>9. e[0] = Called /\ \A k \in 1..size : e[k] = Does(e[k - 1], ops[k], base)
  <2>1. Is(e)
    BY <1>8 DEF e
  <2> QED
    BY <1>1, <2>1
<1>10. \A k \in 0..size : e[k] \in Stacks
  <2> DEFINE S == {k \in 0..size : e[k] \in Stacks}
  <2>1. 0 \in S
    BY <1>1, <1>9, CalledSound
  <2>2. ASSUME NEW k \in 0..(size - 1), k \in S PROVE k + 1 \in S
    <3>1. k + 1 \in 1..size /\ (k + 1) - 1 = k /\ k + 1 \in 0..size /\ e[k] \in Stacks
      BY <1>1, <2>2
    <3>2. Does(e[k], ops[k + 1], base) \in Stacks
      BY <1>1, <1>2, <3>1, DoesIs
    <3>3. e[k + 1] = Does(e[k], ops[k + 1], base)
      BY <1>9, <3>1
    <3> QED
      BY <3>1, <3>2, <3>3
  <2>3. \A k \in 0..size : k \in S
    <3> HIDE DEF S
    <3> QED
      BY <1>1, <2>1, <2>2, Climb
  <2> QED
    BY <2>3
<1> QED
  BY <1>2, <1>9, <1>10 DEF e, size, base

Ascending(ops) == \A j, k \in DOMAIN ops : j < k => ops[j].at <= ops[k].at

\* The offset from which the k-th operation holds.
Since(ops) == [k \in 0..Len(ops) |-> IF k = 0 THEN 0 ELSE ops[k].at]

\* Operations come in the order of their offsets, a byte's range apart.
LEMMA SinceIs ==
    ASSUME NEW ops \in Seq(Usable), Ascending(ops)
    PROVE  /\ \A k \in 0..Len(ops) : Since(ops)[k] \in Nat
           /\ \A k \in 1..Len(ops) : Since(ops)[k] - Since(ops)[k - 1] \in 0..255
<1>1. Len(ops) \in Nat /\ DOMAIN ops = 1..Len(ops) /\ \A k \in 1..Len(ops) : ops[k] \in Usable
  OBVIOUS
<1>2. \A k \in 1..Len(ops) : ops[k].at \in 0..255
  BY <1>1, UsableIs
<1>3. \A k \in 0..Len(ops) : Since(ops)[k] \in 0..255
  BY <1>1, <1>2 DEF Since
<1>4. ASSUME NEW k \in 1..Len(ops) PROVE Since(ops)[k] - Since(ops)[k - 1] \in 0..255
  <2>1. k - 1 \in 0..Len(ops) /\ k # 0 /\ k \in 0..Len(ops)
    BY <1>1
  <2>2. Since(ops)[k] \in 0..255 /\ Since(ops)[k - 1] \in 0..255
    BY <1>3, <2>1
  <2>3. Since(ops)[k - 1] <= Since(ops)[k]
    <3>1. CASE k = 1
      <4>1. k - 1 = 0
        BY <3>1
      <4>2. Since(ops)[k - 1] = 0
        BY <4>1 DEF Since
      <4> DEFINE d == Since(ops)[k]
      <4>3. d \in 0..255
        BY <2>2
      <4> HIDE DEF d
      <4>4. 0 <= d
        BY <4>3
      <4> QED
        BY <4>2, <4>4 DEF d
    <3>2. CASE k # 1
      <4>1. k - 1 \in 1..Len(ops) /\ k - 1 < k /\ k - 1 # 0
        BY <1>1, <3>2
      <4>2. ops[k - 1].at <= ops[k].at
        BY <1>1, <4>1 DEF Ascending
      <4> QED
        BY <2>1, <4>1, <4>2 DEF Since
    <3> QED
      BY <3>1, <3>2
  <2> DEFINE d == Since(ops)[k]
             c == Since(ops)[k - 1]
  <2>4. d \in 0..255 /\ c \in 0..255 /\ c <= d
    BY <2>2, <2>3
  <2> HIDE DEF d, c
  <2>5. d - c \in 0..255
    BY <2>4
  <2> QED
    BY <2>5 DEF d, c
<1>5. ASSUME NEW k \in 0..Len(ops) PROVE Since(ops)[k] \in Nat
  <2> DEFINE d == Since(ops)[k]
  <2>1. d \in 0..255
    BY <1>3
  <2> HIDE DEF d
  <2>2. d \in Nat
    BY <2>1
  <2> QED
    BY <2>2 DEF d
<1> QED
  BY <1>4, <1>5

\* The advance before the k-th operation, and a writer after it.
Advance(ops, k) == append_advance(Since(ops)[k] - Since(ops)[k - 1])

Advanced(s, w) == Writer(s.out \o w, s.depth, s.frame, s.bias, s.throws)

\* The advance before an operation is bytes, and they are appended.
LEMMA AdvanceSeq ==
    ASSUME NEW ops \in Seq(Usable), Ascending(ops), NEW k \in 1..Len(ops)
    PROVE  /\ Advance(ops, k) \in Seq(Nat)
           /\ \A s \in Writers :
                /\ Advanced(s, Advance(ops, k)) \in Writers
                /\ Advanced(s, Advance(ops, k)) = [s EXCEPT !.out = @ \o Advance(ops, k)]
<1> DEFINE d == Since(ops)[k] - Since(ops)[k - 1]
           w == Advance(ops, k)
<1>1. d \in 0..255 /\ w = append_advance(d)
  BY SinceIs DEF Advance
<1> HIDE DEF d, w
<1>2. w \in Seq(Nat)
  <2>1. CASE d = 0
    BY <1>1, <2>1 DEF append_advance
  <2>2. CASE d # 0
    <3>1. d \in 1..255
      BY <1>1, <2>2
    <3> QED
      BY <1>1, <3>1, Lengths
  <2> QED
    BY <2>1, <2>2
<1>3. ASSUME NEW s \in Writers
      PROVE  Advanced(s, w) \in Writers /\ Advanced(s, w) = [s EXCEPT !.out = @ \o w]
  <2> DEFINE out == s.out
             new == out \o w
  <2>1. out \in Seq(Nat)
    BY DEF Writers
  <2> HIDE DEF out
  <2>2. new \in Seq(Nat)
    BY <1>2, <2>1, ConcatProperties
  <2> HIDE DEF new
  <2>3. Advanced(s, w) = Writer(new, s.depth, s.frame, s.bias, s.throws)
    BY DEF Advanced, new, out
  <2>4. [s EXCEPT !.out = @ \o w] = [s EXCEPT !.out = new]
    BY DEF new, out
  <2> QED
    BY <2>2, <2>3, <2>4 DEF Writer, Writers
<1> QED
  BY <1>2, <1>3 DEF w

\* What is written after an operation is what was written before it, an advance, and the
\* operation's instructions.
LEMMA EmittedIs ==
    ASSUME NEW ops \in Seq(Usable), Ascending(ops)
    PROVE  /\ Emitted(ops)[0] = Start /\ \A k \in 0..Len(ops) : Emitted(ops)[k] \in Writers
           /\ \A k \in 1..Len(ops) :
                Emitted(ops)[k] =
                    apply_operation(Advanced(Emitted(ops)[k - 1], Advance(ops, k)), ops[k])
<1> DEFINE size == Len(ops)
           adv(k) == append_advance(ops[k].at - IF k = 1 THEN 0 ELSE ops[k - 1].at)
           H(k, s) == apply_operation([s EXCEPT !.out = @ \o adv(k)], ops[k])
           K(k, s) == apply_operation(Advanced(s, Advance(ops, k)), ops[k])
           G == [k \in 1..size |-> [s \in Writers |-> K(k, s)]]
           Is(f) == f = [k \in 0..size |-> IF k = 0 THEN Start ELSE H(k, f[k - 1])]
<1>1. size \in Nat /\ \A k \in 1..size : ops[k] \in Usable
  OBVIOUS
<1>2. Emitted(ops) = CHOOSE f : Is(f)
  BY DEF Emitted
<1>3. ASSUME NEW k \in 1..size, NEW s \in Writers PROVE K(k, s) = H(k, s) /\ K(k, s) \in Writers
  <2>1. Advance(ops, k) = adv(k)
    <3>1. k \in 0..size /\ k - 1 \in 0..size /\ k # 0 /\ (k - 1 = 0 <=> k = 1)
      BY <1>1
    <3>2. Since(ops)[k] = ops[k].at
      BY <3>1 DEF Since
    <3>3. Since(ops)[k - 1] = IF k = 1 THEN 0 ELSE ops[k - 1].at
      BY <3>1 DEF Since
    <3> QED
      BY <3>2, <3>3 DEF Advance
  <2> DEFINE t == Advanced(s, Advance(ops, k))
  <2>2. t \in Writers /\ t = [s EXCEPT !.out = @ \o adv(k)]
    <3>1. t \in Writers /\ t = [s EXCEPT !.out = @ \o Advance(ops, k)]
      <4> HIDE DEF size
      <4>1. k \in 1..Len(ops)
        BY DEF size
      <4> QED
        BY <4>1, AdvanceSeq
    <3> QED
      BY <2>1, <3>1
  <2> HIDE DEF t
  <2>3. apply_operation(t, ops[k]) \in Writers
    <3>1. CASE t.throws
      BY <2>2, <3>1, ApplyThrown
    <3>2. CASE ~t.throws
      BY <1>1, <2>2, <3>2, Applied
    <3> QED
      BY <3>1, <3>2
  <2> QED
    BY <2>2, <2>3 DEF t
<1>4. Start \in Writers
  BY DEF Start, Writers
<1> HIDE DEF size
<1>5. G \in [1..size -> [Writers -> Writers]]
  <2> HIDE DEF K
  <2> QED
    BY <1>3
<1>6. PICK t : Follows(Writers, Start, size, G, t)
  <2> HIDE DEF G
  <2> QED
    BY <1>1, <1>4, <1>5, Chain
<1>7. /\ t \in [0..size -> Writers] /\ t[0] = Start
      /\ \A k \in 1..size : t[k] = H(k, t[k - 1])
  <2>1. t \in [0..size -> Writers] /\ t[0] = Start /\ \A k \in 1..size : t[k] = G[k][t[k - 1]]
    <3> HIDE DEF G
    <3> QED
      BY <1>6 DEF Follows
  <2>2. \A k \in 1..size : t[k - 1] \in Writers
    BY <1>1, <2>1
  <2> HIDE DEF K, H
  <2> QED
    BY <1>3, <2>1, <2>2
<1>8. Is(t)
  <2> HIDE DEF H
  <2> QED
    BY <1>7
<1>9. Is(Emitted(ops))
  <2> HIDE DEF Is
  <2> QED
    BY <1>2, <1>8
<1> DEFINE e == Emitted(ops)
<1> HIDE DEF e
<1>10. e[0] = Start /\ \A k \in 1..size : e[k] = H(k, e[k - 1])
  <2>1. Is(e)
    BY <1>9 DEF e
  <2> HIDE DEF H
  <2> QED
    BY <1>1, <2>1
<1>11. \A k \in 0..size : e[k] \in Writers
  <2> DEFINE S == {k \in 0..size : e[k] \in Writers}
  <2>1. 0 \in S
    BY <1>1, <1>4, <1>10
  <2>2. ASSUME NEW k \in 0..(size - 1), k \in S PROVE k + 1 \in S
    <3>1. k + 1 \in 1..size /\ (k + 1) - 1 = k /\ k + 1 \in 0..size /\ e[k] \in Writers
      BY <1>1, <2>2
    <3> HIDE DEF H, K
    <3>2. K(k + 1, e[k]) = H(k + 1, e[k]) /\ K(k + 1, e[k]) \in Writers
      BY <1>3, <3>1
    <3>3. e[k + 1] = H(k + 1, e[(k + 1) - 1])
      BY <1>10, <3>1
    <3>4. e[k + 1] = H(k + 1, e[k])
      BY <3>1, <3>3
    <3> QED
      BY <3>1, <3>2, <3>4
  <2>3. \A k \in 0..size : k \in S
    <3> HIDE DEF S
    <3> QED
      BY <1>1, <2>1, <2>2, Climb
  <2> QED
    BY <2>3
<1>12. ASSUME NEW k \in 1..size PROVE e[k] = K(k, e[k - 1])
  <2>1. k - 1 \in 0..size
    BY <1>1
  <2>2. e[k - 1] \in Writers
    BY <1>11, <2>1
  <2> HIDE DEF H, K
  <2> QED
    BY <1>3, <1>10, <2>2
<1> QED
  BY <1>10, <1>11, <1>12 DEF e, size

\* What ConventionAssumption says of the operations of one UNWIND_INFO.
Conventional(ops) == \A k \in DOMAIN ops :
    /\ ops[k].op = "Machine" => k = 1
    /\ ops[k].op \in {"Push", "Alloc"} => \A j \in 1..k : ops[j].op # "Save"

\* The thread is as far from the CFA as the operations say.
LEMMA ThreadDistance ==
    ASSUME NEW ops \in Seq(Usable)
    PROVE  \A k \in 0..Len(ops) : Executed(ops)[k].sp = Distances(ops)[k]
<1> DEFINE size == Len(ops)
           m == Executed(ops)
           d == Distances(ops)
           S == {k \in 0..size : m[k].sp = d[k]}
<1>1. size \in Nat /\ \A k \in 1..size : ops[k] \in Usable
  OBVIOUS
<1>2. /\ m[0] = Called /\ \A k \in 0..size : m[k] \in Stacks
      /\ \A k \in 1..size : m[k] = Does(m[k - 1], ops[k], Base(ops))
      /\ Base(ops) \in Int
  BY ExecutedIs
<1>3. d[0] = 8 /\ \A k \in 1..size : d[k] = Moved(d[k - 1], ops[k])
  BY DistancesIs
<1> HIDE DEF size, m, d
<1>4. 0 \in S
  BY <1>1, <1>2, <1>3 DEF Called
<1>5. ASSUME NEW k \in 0..(size - 1), k \in S PROVE k + 1 \in S
  <2> DEFINE op == ops[k + 1]
             q == m[k]
  <2>1. k + 1 \in 1..size /\ (k + 1) - 1 = k /\ k + 1 \in 0..size /\ k \in 0..size
    BY <1>1
  <2>2. op \in Usable /\ q \in Stacks /\ q.sp = d[k]
    BY <1>1, <1>2, <1>5, <2>1
  <2>3. m[k + 1] = Does(q, op, Base(ops)) /\ d[k + 1] = Moved(d[k], op)
    BY <1>2, <1>3, <2>1
  <2> HIDE DEF op, q
  <2>4. Does(q, op, Base(ops)).sp = Moved(q.sp, op)
    <3>1. op.op \in {"Push", "Alloc", "Frame", "Save", "Machine"}
      BY <2>2, UsableIs
    <3> QED
      BY <1>2, <2>2, <3>1, DoesIs DEF Thread, Moved
  <2> QED
    BY <2>1, <2>2, <2>3, <2>4
<1>6. \A k \in 0..size : k \in S
  <2> HIDE DEF S
  <2> QED
    BY <1>1, <1>4, <1>5, Climb
<1> QED
  BY <1>6 DEF size, m, d

\* Where a register is saved relative to the stack pointer, it is where the
\* prologue leaves it.
LEMMA SavesLast ==
    ASSUME NEW ops \in Seq(Usable), Conventional(ops), NEW k \in 1..Len(ops), ops[k].op = "Save"
    PROVE  Base(ops) = Executed(ops)[k - 1].sp
<1> DEFINE size == Len(ops)
           d == Distances(ops)
           n == size - k
           S == {j \in 0..n : d[k + j] = d[k - 1]}
<1>1. size \in Nat /\ DOMAIN ops = 1..size /\ n \in Nat /\ k + 0 = k /\ k + n = size
      /\ \A j \in 1..size : ops[j] \in Usable
  OBVIOUS
<1>2. \A j \in 1..size : d[j] = Moved(d[j - 1], ops[j])
  BY DistancesIs
<1> HIDE DEF n, size, d
<1>3. 0 \in S
  <2>1. d[k] = Moved(d[k - 1], ops[k])
    BY <1>2 DEF size
  <2>2. d[k] = d[k - 1]
    BY <2>1 DEF Moved
  <2> QED
    BY <1>1, <2>2
<1>4. ASSUME NEW j \in 0..(n - 1), j \in S PROVE j + 1 \in S
  <2> DEFINE i == k + (j + 1)
  <2>1. i \in 1..size /\ i - 1 = k + j /\ k \in 1..i /\ i # 1 /\ j + 1 \in 0..n
    BY <1>1 DEF size
  <2> HIDE DEF i
  <2>2. ops[i].op \notin {"Push", "Alloc", "Machine"}
    BY <1>1, <2>1 DEF Conventional
  <2>3. d[i] = d[k + j]
    BY <1>2, <2>1, <2>2 DEF Moved
  <2> QED
    BY <1>4, <2>1, <2>3 DEF i
<1>5. \A j \in 0..n : j \in S
  <2> HIDE DEF S
  <2> QED
    BY <1>1, <1>3, <1>4, Climb
<1>6. d[size] = d[k - 1]
  <2>1. n \in 0..n
    BY <1>1
  <2> QED
    BY <1>1, <1>5, <2>1
<1>7. Executed(ops)[k - 1].sp = d[k - 1]
  <2>1. k - 1 \in 0..Len(ops)
    OBVIOUS
  <2> QED
    BY <2>1, ThreadDistance DEF d
<1> QED
  BY <1>6, <1>7 DEF Base, d, size

\* If the last operation does not throw, none did.
LEMMA NoneThrows ==
    ASSUME NEW ops \in Seq(Usable), Ascending(ops), ~Emitted(ops)[Len(ops)].throws
    PROVE  \A k \in 0..Len(ops) : ~Emitted(ops)[k].throws
<1> DEFINE size == Len(ops)
           s == Emitted(ops)
<1>1. size \in Nat
  OBVIOUS
<1>2. /\ \A k \in 0..size : s[k] \in Writers
      /\ \A k \in 1..size : s[k] = apply_operation(Advanced(s[k - 1], Advance(ops, k)), ops[k])
      /\ ~s[size].throws
  BY EmittedIs
<1> HIDE DEF size, s
<1> SUFFICES ASSUME NEW k \in 0..size, s[k].throws PROVE FALSE
  BY DEF size, s
<1> DEFINE n == size - k
           S == {j \in 0..n : s[k + j].throws}
<1>3. n \in Nat /\ k + 0 = k /\ k + n = size
  BY <1>1
<1> HIDE DEF n
<1>4. 0 \in S
  BY <1>3
<1>5. ASSUME NEW j \in 0..(n - 1), j \in S PROVE j + 1 \in S
  <2> DEFINE i == k + (j + 1)
             t == Advanced(s[k + j], Advance(ops, i))
  <2>1. i \in 1..size /\ i - 1 = k + j /\ j + 1 \in 0..n
    BY <1>1, <1>3
  <2>2. s[i] = apply_operation(Advanced(s[i - 1], Advance(ops, i)), ops[i])
    <3> HIDE DEF i
    <3> QED
      BY <1>2, <2>1
  <2>3. s[i] = apply_operation(t, ops[i])
    <3> HIDE DEF i
    <3> QED
      BY <2>1, <2>2
  <2>4. t.throws
    <3>1. t.throws = s[k + j].throws
      BY DEF Advanced, Writer
    <3> QED
      BY <1>5, <3>1
  <2> HIDE DEF t, i
  <2>5. apply_operation(t, ops[i]) = t
    BY <2>4, ApplyThrown
  <2> QED
    BY <2>1, <2>3, <2>4, <2>5 DEF i
<1>6. \A j \in 0..n : j \in S
  <2> HIDE DEF S
  <2> QED
    BY <1>3, <1>4, <1>5, Climb
<1>7. s[size].throws
  <2>1. n \in 0..n
    BY <1>3
  <2> QED
    BY <1>3, <1>6, <2>1
<1> QED
  BY <1>2, <1>7

\* The operation that comes next is one that can be written and run.
Proceeds(ops, k) ==
    LET m == Executed(ops)[k - 1] IN
    /\ Sound(m) /\ (ops[k].op = "Frame" => ops[k].n <= m.sp)
    /\ ops[k].op = "Save" => ops[k].n % 8 = 0 /\ Base(ops) = m.sp
    /\ Emitted(ops)[k].out = Emitted(ops)[k - 1].out \o Advance(ops, k) \o Written(m, ops[k])

\* When no operation threw, what was written for each is what it does to a thread: the
\* depth the writer keeps is the thread's own distance to the CFA.
LEMMA WritesAll ==
    ASSUME NEW ops \in Seq(Usable), Ascending(ops), Conventional(ops),
           ~Emitted(ops)[Len(ops)].throws
    PROVE  /\ \A k \in 0..Len(ops) : Sound(Executed(ops)[k])
           /\ \A k \in 1..Len(ops) : Proceeds(ops, k)
<1> DEFINE size == Len(ops)
           s == Emitted(ops)
           m == Executed(ops)
           base == Base(ops)
           S == {k \in 0..size : Alike(s[k], m[k]) /\ Sound(m[k])}
<1>1. size \in Nat /\ DOMAIN ops = 1..size /\ \A k \in 1..size : ops[k] \in Usable
  OBVIOUS
<1>2. /\ s[0] = Start /\ \A k \in 0..size : s[k] \in Writers
      /\ \A k \in 1..size : s[k] = apply_operation(Advanced(s[k - 1], Advance(ops, k)), ops[k])
  BY EmittedIs
<1>3. /\ m[0] = Called /\ \A k \in 0..size : m[k] \in Stacks
      /\ \A k \in 1..size : m[k] = Does(m[k - 1], ops[k], base)
      /\ base \in Int
  BY ExecutedIs
<1>4. \A k \in 0..size : ~s[k].throws
  BY NoneThrows
<1> HIDE DEF size, s, m, base
<1>5. 0 \in S
  BY <1>1, <1>2, <1>3, CalledSound DEF Start, Called, Alike
<1>6. ASSUME NEW k \in 1..size, k - 1 \in S
      PROVE  /\ k \in S /\ (ops[k].op = "Frame" => ops[k].n <= m[k - 1].sp)
             /\ ops[k].op = "Save" => ops[k].n % 8 = 0
             /\ s[k].out = s[k - 1].out \o Advance(ops, k) \o Written(m[k - 1], ops[k])
  <2> DEFINE p == s[k - 1]
             q == m[k - 1]
             op == ops[k]
             t == Advanced(p, Advance(ops, k))
  <2>1. k - 1 \in 0..size /\ k \in 0..size
    BY <1>1
  <2>2. p \in Writers /\ ~p.throws /\ Alike(p, q) /\ Sound(q) /\ op \in Usable
    BY <1>1, <1>2, <1>4, <1>6, <2>1
  <2>3. s[k] = apply_operation(t, op) /\ m[k] = Does(q, op, base) /\ ~s[k].throws
    BY <1>2, <1>3, <1>4, <2>1
  <2>4. op.op = "Machine" => p.depth = 0
    <3>1. op.op = "Machine" => k = 1
      BY <1>1 DEF Conventional
    <3>2. k = 1 => p = Start
      BY <1>2
    <3> HIDE DEF p, op
    <3> QED
      BY <3>1, <3>2 DEF Start
  <2> HIDE DEF p, q, op
  <2>5. /\ t \in Writers /\ t.depth = p.depth /\ t.bias = p.bias /\ t.frame = p.frame
        /\ t.throws = p.throws /\ t.out = p.out \o Advance(ops, k)
    <3>1. t \in Writers
      BY <2>2, AdvanceSeq DEF size
    <3> QED
      BY <3>1 DEF Advanced, Writer
  <2> HIDE DEF t
  <2>6. Alike(t, q) /\ ~t.throws
    BY <2>2, <2>5 DEF Alike
  <2>7. /\ apply_operation(t, op).out = t.out \o Written(q, op)
        /\ Alike(apply_operation(t, op), Does(q, op, base))
        /\ op.op = "Frame" => op.n <= q.sp
        /\ op.op = "Save" => op.n % 8 = 0
    <3> DEFINE u == apply_operation(t, op)
    <3>1. /\ t \in Writers /\ ~t.throws /\ op \in Usable /\ ~u.throws /\ Sound(q) /\ Alike(t, q)
          /\ (op.op = "Machine" => t.depth = 0) /\ base \in Int
      BY <1>3, <2>2, <2>3, <2>4, <2>5, <2>6
    <3> QED
      BY <3>1, Writes, Zenon
  <2>8. Sound(Does(q, op, base))
    BY <1>3, <2>2, <2>7, DoesSound
  <2> QED
    BY <2>1, <2>3, <2>5, <2>7, <2>8 DEF p, q, op
<1>7. ASSUME NEW k \in 0..(size - 1), k \in S PROVE k + 1 \in S
  <2>1. k + 1 \in 1..size /\ (k + 1) - 1 = k
    BY <1>1
  <2> HIDE DEF S
  <2> QED
    BY <1>6, <1>7, <2>1
<1>8. \A k \in 0..size : k \in S
  <2> HIDE DEF S
  <2> QED
    BY <1>1, <1>5, <1>7, Climb
<1>9. ASSUME NEW k \in 1..size PROVE Proceeds(ops, k)
  <2>1. k - 1 \in 0..size
    BY <1>1
  <2>2. k - 1 \in S
    BY <1>8, <2>1
  <2>3. ops[k].op = "Save" => Base(ops) = m[k - 1].sp
    BY SavesLast DEF m, size
  <2> QED
    BY <1>6, <2>2, <2>3 DEF Proceeds, m, s
<1> QED
  BY <1>8, <1>9 DEF m, size

\* The operations of a description that can be written.
Writable(ops) ==
    /\ ops \in Seq(Usable) /\ Ascending(ops) /\ Conventional(ops)
    /\ ~Emitted(ops)[Len(ops)].throws

Bytes(ops) == Emitted(ops)[Len(ops)].out

\* Where the instructions after those of the k-th operation begin.
After(ops, k) == 1 + Len(Emitted(ops)[k].out)

\* A description that can be written: its parts have their types.
LEMMA WritableIs ==
    ASSUME NEW ops, Writable(ops)
    PROVE  /\ Len(ops) \in Nat /\ Bytes(ops) \in Seq(Nat)
           /\ \A k \in 0..Len(ops) :
                Emitted(ops)[k].out \in Seq(Nat) /\ After(ops, k) \in Nat
           /\ \A k \in 1..Len(ops) :
                /\ ops[k] \in Usable /\ Proceeds(ops, k) /\ Advance(ops, k) \in Seq(Nat)
                /\ Written(Executed(ops)[k - 1], ops[k]) \in Seq(Nat)
           /\ After(ops, Len(ops)) = Len(Bytes(ops)) + 1
<1>1. ops \in Seq(Usable) /\ Ascending(ops) /\ Len(ops) \in Nat /\ Len(ops) \in 0..Len(ops)
  BY DEF Writable
<1>2. ASSUME NEW k \in 0..Len(ops)
      PROVE  Emitted(ops)[k].out \in Seq(Nat) /\ After(ops, k) \in Nat
  <2>1. Emitted(ops)[k] \in Writers
    BY <1>1, EmittedIs
  <2> DEFINE w == Emitted(ops)[k].out
  <2>2. w \in Seq(Nat)
    BY <2>1 DEF Writers
  <2> HIDE DEF w
  <2>3. 1 + Len(w) \in Nat
    BY <2>2
  <2> QED
    BY <2>2, <2>3 DEF w, After
<1>3. ASSUME NEW k \in 1..Len(ops)
      PROVE  /\ ops[k] \in Usable /\ Proceeds(ops, k) /\ Advance(ops, k) \in Seq(Nat)
             /\ Written(Executed(ops)[k - 1], ops[k]) \in Seq(Nat)
  <2>1. ops[k] \in Usable
    BY <1>1
  <2>2. Proceeds(ops, k)
    BY WritesAll DEF Writable
  <2>3. Advance(ops, k) \in Seq(Nat)
    BY <1>1, AdvanceSeq
  <2>4. Written(Executed(ops)[k - 1], ops[k]) \in Seq(Nat)
    BY <2>1, <2>2, WrittenSeq DEF Proceeds
  <2> QED
    BY <2>1, <2>2, <2>3, <2>4
<1>4. Bytes(ops) \in Seq(Nat)
  BY <1>1, <1>2 DEF Bytes
<1>5. After(ops, Len(ops)) = Len(Bytes(ops)) + 1
  <2> DEFINE w == Bytes(ops)
  <2>1. After(ops, Len(ops)) = 1 + Len(w)
    BY DEF After, Bytes
  <2> HIDE DEF w
  <2> QED
    BY <1>4, <2>1 DEF w
<1> QED
  BY <1>1, <1>2, <1>3, <1>4, <1>5

\* What was written after each operation stands at the beginning of the description.
LEMMA StandsAll ==
    ASSUME NEW ops, Writable(ops)
    PROVE  \A k \in 0..Len(ops) : Stands(Bytes(ops), 1, Emitted(ops)[k].out)
<1> DEFINE size == Len(ops)
           b == Bytes(ops)
           out(k) == Emitted(ops)[k].out
           S == {j \in 0..size : Stands(b, 1, out(size - j))}
<1>1. size \in Nat /\ b \in Seq(Nat) /\ \A k \in 0..size : out(k) \in Seq(Nat)
  BY WritableIs
<1>2. 0 \in S
  <2>1. b = out(size - 0)
    BY <1>1 DEF Bytes
  <2> HIDE DEF b
  <2>2. Stands(b, 1, b)
    BY <1>1 DEF Stands
  <2> HIDE DEF out, size
  <2> QED
    BY <1>1, <2>1, <2>2
<1>3. ASSUME NEW j \in 0..(size - 1), j \in S PROVE j + 1 \in S
  <2> DEFINE k == size - j
             adv == Advance(ops, k)
             w == Written(Executed(ops)[k - 1], ops[k])
             o == out(k - 1)
  <2>1. k \in 1..size /\ k - 1 = size - (j + 1) /\ k - 1 \in 0..size /\ j + 1 \in 0..size
    BY <1>1
  <2> HIDE DEF k
  <2>2. out(k) = o \o adv \o w /\ adv \in Seq(Nat) /\ w \in Seq(Nat) /\ o \in Seq(Nat)
    BY <1>1, <2>1, WritableIs DEF Proceeds
  <2>3. Stands(b, 1, out(k))
    BY <1>3 DEF k
  <2> HIDE DEF b, adv, w, o, out
  <2>4. o \o adv \in Seq(Nat) /\ 1 \in Nat
    BY <2>2, ConcatProperties
  <2>5. Stands(b, 1, (o \o adv) \o w)
    BY <2>2, <2>3
  <2>6. Stands(b, 1, o \o adv)
    BY <1>1, <2>2, <2>4, <2>5, StandsParts
  <2>7. Stands(b, 1, o)
    BY <1>1, <2>2, <2>4, <2>6, StandsParts
  <2> QED
    BY <2>1, <2>7 DEF o
<1>4. \A j \in 0..size : j \in S
  <2> HIDE DEF S, size
  <2> QED
    BY <1>1, <1>2, <1>3, Climb
<1>5. ASSUME NEW k \in 0..size PROVE Stands(b, 1, out(k))
  <2>1. size - k \in 0..size /\ size - (size - k) = k
    BY <1>1
  <2>2. Stands(b, 1, out(size - (size - k)))
    <3> HIDE DEF b, out, size
    <3> QED
      BY <1>4, <2>1
  <2> HIDE DEF b, out, size
  <2> QED
    BY <2>1, <2>2
<1> QED
  BY <1>5

\* The instructions of an operation are where those before it end.
LEMMA OperationStands ==
    ASSUME NEW ops, Writable(ops), NEW k \in 1..Len(ops)
    PROVE  LET adv == Advance(ops, k)
               w == Written(Executed(ops)[k - 1], ops[k])
           IN  /\ Stands(Bytes(ops), After(ops, k - 1), adv)
               /\ Stands(Bytes(ops), After(ops, k - 1) + Len(adv), w)
               /\ After(ops, k) = After(ops, k - 1) + Len(adv) + Len(w)
<1> DEFINE adv == Advance(ops, k)
           w == Written(Executed(ops)[k - 1], ops[k])
           o == Emitted(ops)[k - 1].out
           b == Bytes(ops)
           t == Emitted(ops)[k].out
<1>1. k - 1 \in 0..Len(ops) /\ k \in 0..Len(ops)
  BY WritableIs
<1>2. /\ b \in Seq(Nat) /\ o \in Seq(Nat) /\ adv \in Seq(Nat) /\ w \in Seq(Nat)
      /\ t = (o \o adv) \o w /\ Stands(b, 1, t)
  BY <1>1, WritableIs, StandsAll DEF Proceeds
<1>3. After(ops, k - 1) = 1 + Len(o) /\ After(ops, k) = 1 + Len(t)
  BY DEF After
<1> HIDE DEF adv, w, o, b, t
<1>4. /\ o \o adv \in Seq(Nat) /\ Len(o \o adv) = Len(o) + Len(adv)
      /\ Len(t) = (Len(o) + Len(adv)) + Len(w)
      /\ Len(o) \in Nat /\ Len(adv) \in Nat /\ Len(w) \in Nat /\ 1 \in Nat
  BY <1>2, ConcatProperties
<1>5. Stands(b, 1, o \o adv) /\ Stands(b, 1 + Len(o \o adv), w)
  BY <1>2, <1>4, StandsParts
<1>6. Stands(b, 1 + Len(o), adv)
  BY <1>2, <1>4, <1>5, StandsParts
<1>7. 1 + Len(o \o adv) = (1 + Len(o)) + Len(adv)
  BY <1>4
<1>8. 1 + Len(t) = (1 + Len(o)) + Len(adv) + Len(w)
  BY <1>4
<1> QED
  BY <1>3, <1>5, <1>6, <1>7, <1>8 DEF adv, w, o, b, t

\* The operations reached at an offset are those that are not past it.
LEMMA ReachedIs ==
    ASSUME NEW ops \in Seq(Usable), Ascending(ops), NEW ip \in Nat
    PROVE  /\ Reached(ops, ip) \in 0..Len(ops)
           /\ \A k \in 1..Reached(ops, ip) : ops[k].at <= ip
           /\ \A k \in (Reached(ops, ip) + 1)..Len(ops) : ops[k].at > ip
<1> DEFINE size == Len(ops)
           R == {0} \cup {k \in DOMAIN ops : ops[k].at <= ip}
           T == {size - k : k \in R}
           x == CHOOSE k \in R : \A j \in R : k >= j
<1>1. size \in Nat /\ DOMAIN ops = 1..size /\ \A k \in 1..size : ops[k].at \in Nat
  <2>1. ASSUME NEW k \in 1..size PROVE ops[k].at \in Nat
    <3>1. ops[k] \in Usable
      OBVIOUS
    <3> DEFINE n == ops[k].at
    <3>2. n \in 0..255
      BY <3>1, UsableIs
    <3> HIDE DEF n
    <3>3. n \in Nat
      BY <3>2
    <3> QED
      BY <3>3 DEF n
  <2> QED
    BY <2>1
<1>2. Reached(ops, ip) = x
  BY DEF Reached, Max
<1> HIDE DEF size
<1>3. R \subseteq 0..size /\ 0 \in R
  BY <1>1
<1>4. \E k \in R : \A j \in R : k >= j
  <2> HIDE DEF R
  <2>1. T \in SUBSET Nat /\ T # {}
    BY <1>1, <1>3
  <2>2. PICK t \in T : \A j \in T : t <= j
    <3> HIDE DEF T
    <3> QED
      BY <2>1, Least
  <2>3. PICK k \in R : t = size - k
    BY <2>2
  <2>4. ASSUME NEW j \in R PROVE k >= j
    <3>1. size - j \in T
      OBVIOUS
    <3>2. size - k <= size - j
      BY <2>2, <2>3, <3>1
    <3>3. j \in 0..size /\ k \in 0..size
      BY <1>3
    <3> QED
      BY <1>1, <3>2, <3>3
  <2> QED
    BY <2>4
<1>5. x \in R /\ \A j \in R : x >= j
  <2> HIDE DEF R
  <2> QED
    BY <1>4
<1> HIDE DEF x
<1>6. x \in 0..size
  BY <1>3, <1>5
<1>7. ASSUME NEW k \in 1..x PROVE ops[k].at <= ip
  <2>1. x \in 1..size /\ k \in 1..size /\ x # 0
    BY <1>1, <1>6
  <2>2. ops[x].at <= ip
    BY <1>5, <2>1
  <2>3. k < x => ops[k].at <= ops[x].at
    BY <1>1, <2>1 DEF Ascending
  <2>4. ops[k].at \in Nat /\ ops[x].at \in Nat
    BY <1>1, <2>1
  <2> QED
    BY <1>6, <2>2, <2>3, <2>4
<1>8. ASSUME NEW k \in (x + 1)..size PROVE ops[k].at > ip
  <2>1. k \in 1..size /\ ~(x >= k)
    BY <1>1, <1>6
  <2>2. k \notin R
    <3> HIDE DEF R
    <3> QED
      BY <1>5, <2>1
  <2>3. ~(ops[k].at <= ip) /\ ops[k].at \in Nat
    BY <1>1, <2>1, <2>2
  <2> QED
    BY <2>3
<1> QED
  BY <1>2, <1>6, <1>7, <1>8 DEF size

\* The row a reader is at after the k-th operation.
RowAfter(ops, k) == RowOf(After(ops, k), Since(ops)[k], Executed(ops)[k])

\* The CIE's row describes a thread at a function's first instruction.
LEMMA FirstRowIs == FirstRow = RowOf(1, 0, Called)
<1>1. Dwarf["rsp"] = 7 /\ Dwarf["rip"] = 16 /\ {"rsp", "rip"} \subseteq DOMAIN Dwarf
  BY Registers
<1>2. Called.fp.reg = "rsp" /\ Called.sp = 8
  BY DEF Called
<1>3. Rules(Called.saved) = {<<16, -8>>}
  <2> DEFINE where == Called.saved
             U == {r \in DOMAIN where : where[r] # Kept}
  <2>1. where = [r \in DOMAIN Dwarf \ {"rsp"} |-> IF r = "rip" THEN -8 ELSE Kept]
    BY DEF Called
  <2> HIDE DEF where
  <2>2. U = {"rip"} /\ where["rip"] = -8
    BY <1>1, <2>1 DEF Kept
  <2>3. Rules(where) = {<<Dwarf[reg], where[reg]>> : reg \in U}
    BY DEF Rules
  <2> HIDE DEF U
  <2>4. Rules(where) = {<<Dwarf["rip"], where["rip"]>>}
    BY <2>2, <2>3
  <2> QED
    BY <1>1, <2>2, <2>4 DEF where
<1>4. RowOf(1, 0, Called) = Fields(1, 0, 7, 8, {<<16, -8>>})
  BY <1>1, <1>2, <1>3 DEF RowOf
<1> QED
  BY <1>4 DEF FirstRow, Fields

\* The row before any operation is the CIE's.
LEMMA RowAfterFirst ==
    ASSUME NEW ops, Writable(ops)
    PROVE  RowAfter(ops, 0) = FirstRow
<1>1. ops \in Seq(Usable) /\ Ascending(ops) /\ 0 \in 0..Len(ops)
  BY DEF Writable
<1>2. Emitted(ops)[0] = Start /\ Executed(ops)[0] = Called
  BY <1>1, EmittedIs, ExecutedIs
<1>3. After(ops, 0) = 1
  BY <1>2 DEF After, Start
<1>4. Since(ops)[0] = 0
  BY <1>1 DEF Since
<1> QED
  BY <1>2, <1>3, <1>4, FirstRowIs DEF RowAfter

\* A reader reads on through the operations that hold at an offset.
LEMMA ReadsAll ==
    ASSUME NEW ops, Writable(ops), NEW ip \in Nat
    PROVE  \A k \in 0..Reached(ops, ip) : Reads(Bytes(ops), ip, RowAfter(ops, k))
<1> DEFINE n == Reached(ops, ip)
           b == Bytes(ops)
           S == {k \in 0..n : Reads(b, ip, RowAfter(ops, k))}
<1>1. ops \in Seq(Usable) /\ Ascending(ops) /\ Len(ops) \in Nat /\ b \in Seq(Nat)
  BY WritableIs DEF Writable
<1>2. n \in 0..Len(ops) /\ \A k \in 1..n : ops[k].at <= ip
  BY <1>1, ReachedIs
<1> HIDE DEF n, b
<1>3. 0 \in S
  <2>1. 0 \in 0..Len(b) /\ FirstRow.k = 1
    BY <1>1 DEF FirstRow
  <2>2. Rows(b, ip)[0] = FirstRow
    BY <1>1, RowsIs
  <2>3. Reads(b, ip, FirstRow)
    BY <2>1, <2>2 DEF Reads
  <2> QED
    BY <1>2, <2>3, RowAfterFirst
<1>4. ASSUME NEW i \in 0..(n - 1), i \in S PROVE i + 1 \in S
  <2> DEFINE k == i + 1
             op == ops[k]
             m == Executed(ops)[k - 1]
             p == After(ops, k - 1)
             from == Since(ops)[k - 1]
             to == Since(ops)[k]
             d == to - from
             adv == Advance(ops, k)
             w == Written(m, op)
             r == RowOf(p, from, m)
  <2>1. k \in 1..Len(ops) /\ k \in 1..n /\ k - 1 = i /\ k \in 0..n /\ k - 1 \in 0..Len(ops)
        /\ k # 0 /\ k \in 0..Len(ops)
    BY <1>1, <1>2
  <2>2. Reads(b, ip, r)
    BY <1>4, <2>1 DEF RowAfter
  <2>3. /\ Stands(b, p, adv) /\ Stands(b, p + Len(adv), w)
        /\ After(ops, k) = p + Len(adv) + Len(w)
    <3> HIDE DEF k
    <3> QED
      BY <2>1, OperationStands DEF b
  <2>4. /\ op \in Usable /\ Sound(m) /\ (op.op = "Frame" => op.n <= m.sp)
        /\ op.op = "Save" => op.n % 8 = 0 /\ Base(ops) = m.sp
    <3> HIDE DEF k
    <3> QED
      BY <2>1, WritableIs DEF Proceeds
  <2>5. p \in Nat /\ adv \in Seq(Nat) /\ w \in Seq(Nat)
    <3> HIDE DEF k
    <3> QED
      BY <2>1, WritableIs
  <2>6. from \in Nat /\ to \in Nat /\ d \in 0..255
    <3> HIDE DEF k
    <3> QED
      BY <1>1, <2>1, SinceIs
  <2>7. to <= ip /\ adv = append_advance(d)
    <3> HIDE DEF k
    <3>1. to = op.at
      BY <2>1 DEF Since
    <3> QED
      BY <1>2, <2>1, <3>1 DEF Advance
  <2>8. Executed(ops)[k] = Does(m, op, Base(ops)) /\ Base(ops) \in Int
    <3> HIDE DEF k
    <3> QED
      BY <1>1, <2>1, ExecutedIs
  <2>9. r \in Row /\ r.k = p /\ r.loc = from
        /\ r.cfa = Dwarf[m.fp.reg] /\ r.rules = Rules(m.saved)
        /\ r.off = IF m.fp.reg = "rsp" THEN m.sp ELSE m.fp.n
    <3> HIDE DEF p, from, m
    <3> QED
      BY <2>4, <2>5, <2>6, RowOfRow
  <2>10. from + d = to
    <3> HIDE DEF from, to
    <3> QED
      BY <2>6
  <2> HIDE DEF op, p, from, to, d, adv, w, r, m, k
  <2>11. Reads(b, ip, Fields(r.k + Len(adv), r.loc + d, r.cfa, r.off, r.rules))
    <3>1. Stands(b, r.k, append_advance(d)) /\ r.loc + d <= ip
      BY <2>3, <2>7, <2>9, <2>10
    <3> QED
      BY <1>1, <2>2, <2>6, <2>7, <2>9, <3>1, AdvanceOn
  <2>12. Fields(r.k + Len(adv), r.loc + d, r.cfa, r.off, r.rules) = RowOf(p + Len(adv), to, m)
    BY <2>9, <2>10 DEF RowOf
  <2>13. p + Len(adv) \in Nat
    BY <2>5
  <2>14. Reads(b, ip, RowOf((p + Len(adv)) + Len(w), to, Does(m, op, Base(ops))))
    <3> DEFINE q == p + Len(adv)
    <3>1. /\ q \in Nat /\ Reads(b, ip, RowOf(q, to, m)) /\ Stands(b, q, Written(m, op))
      BY <2>3, <2>11, <2>12, <2>13 DEF w
    <3> HIDE DEF q
    <3>2. Reads(b, ip, RowOf(q + Len(Written(m, op)), to, Does(m, op, Base(ops))))
      BY <1>1, <2>4, <2>6, <2>8, <3>1, ReadsOperation
    <3> QED
      BY <3>2 DEF q, w
  <2>15. Reads(b, ip, RowAfter(ops, k))
    BY <2>3, <2>8, <2>14 DEF RowAfter, to
  <2> QED
    BY <2>1, <2>15 DEF k
<1>5. \A k \in 0..n : k \in S
  <2> HIDE DEF S
  <2>1. n \in Nat
    BY <1>1, <1>2
  <2> QED
    BY <1>3, <1>4, <2>1, Climb
<1> QED
  BY <1>5 DEF n, b

\* The row that holds at an offset is the one after the operations that do.
LEMMA RowReached ==
    ASSUME NEW ops, Writable(ops), NEW ip \in Nat
    PROVE  RowAt(Bytes(ops), ip) = RowAfter(ops, Reached(ops, ip))
<1> DEFINE n == Reached(ops, ip)
           b == Bytes(ops)
           size == Len(ops)
           m == Executed(ops)[n]
           p == After(ops, n)
           loc == Since(ops)[n]
           r == RowAfter(ops, n)
<1>1. ops \in Seq(Usable) /\ Ascending(ops) /\ size \in Nat /\ b \in Seq(Nat)
  BY WritableIs DEF Writable
<1>2. n \in 0..size /\ (\A k \in 1..n : ops[k].at <= ip) /\ \A k \in (n + 1)..size : ops[k].at > ip
  BY <1>1, ReachedIs
<1>3. Reads(b, ip, r)
  <2>1. n \in 0..n
    BY <1>2
  <2> HIDE DEF n
  <2> QED
    BY <2>1, ReadsAll DEF n
<1>4. p \in Nat /\ loc \in Nat /\ Sound(m)
  <2> HIDE DEF n
  <2> QED
    BY <1>1, <1>2, WritableIs, SinceIs, WritesAll DEF Writable
<1>5. r \in Row /\ r.k = p /\ r.loc = loc
  <2>1. r = RowOf(p, loc, m)
    BY DEF RowAfter
  <2> HIDE DEF p, loc, m, r
  <2> QED
    BY <1>4, <2>1, RowOfRow
<1> HIDE DEF n
<1>6. CASE n = size
  <2>1. p = Len(b) + 1
    BY <1>6, WritableIs
  <2> HIDE DEF p, b, r
  <2>2. r.k > Len(b)
    BY <1>1, <1>5, <2>1
  <2>3. NextRow(b, ip, r) = r
    BY <2>2 DEF NextRow
  <2> QED
    BY <1>1, <1>3, <2>3, ReadsLast DEF b, r, n
<1>7. CASE n # size
  <2> DEFINE k == n + 1
             d == Since(ops)[k] - loc
             adv == Advance(ops, k)
  <2>1. k \in 1..size /\ k - 1 = n /\ k \in 0..size /\ k # 0 /\ k \in (n + 1)..size
    BY <1>1, <1>2, <1>7
  <2>2. Stands(b, p, adv)
    <3>1. Stands(b, After(ops, k - 1), adv)
      <4> HIDE DEF k
      <4> QED
        BY <2>1, OperationStands
    <3> QED
      BY <2>1, <3>1
  <2>3. adv = append_advance(d)
    <3> HIDE DEF k
    <3> QED
      BY <2>1 DEF Advance
  <2>4. d \in 0..255 /\ Since(ops)[k] \in Nat
    <3> HIDE DEF k
    <3>1. Since(ops)[k] - Since(ops)[k - 1] \in 0..255
      BY <1>1, <2>1, SinceIs
    <3> QED
      BY <1>1, <2>1, <3>1, SinceIs
  <2>5. Since(ops)[k] > ip
    <3> HIDE DEF k
    <3>1. Since(ops)[k] = ops[k].at
      BY <2>1 DEF Since
    <3> QED
      BY <1>2, <2>1, <3>1
  <2>6. loc <= ip
    <3>1. CASE n = 0
      BY <1>2, <3>1 DEF Since
    <3>2. CASE n # 0
      <4>1. n \in 1..n
        BY <1>2, <3>2
      <4>2. loc = ops[n].at
        BY <1>2, <3>2 DEF Since
      <4> QED
        BY <1>2, <4>1, <4>2
    <3> QED
      BY <3>1, <3>2
  <2>7. d \in 1..255 /\ loc + d > ip
    <3> DEFINE to == Since(ops)[k]
    <3>1. to \in Nat /\ to > ip /\ d = to - loc /\ d \in 0..255
      BY <2>4, <2>5
    <3> HIDE DEF to, d, loc
    <3> QED
      BY <1>4, <2>6, <3>1
  <2> HIDE DEF d, adv, r, b, loc, p
  <2>8. Stands(b, r.k, append_advance(d)) /\ r.loc + d > ip
    BY <1>5, <2>2, <2>3, <2>7
  <2>9. NextRow(b, ip, r) = r
    BY <1>1, <1>5, <2>7, <2>8, AdvanceReads
  <2> QED
    BY <1>1, <1>3, <2>9, ReadsLast DEF b, r, n
<1> QED
  BY <1>6, <1>7

\* The codes of an UNWIND_INFO that is accepted, in the order of its prologue.
LEMMA OperationsAre ==
    ASSUME NEW u \in [prolog : 0..255, codes : Seq(Codes)], NEW chained, Valid(u, chained)
    PROVE  Operations(u) \in Seq(Usable) /\ Ascending(Operations(u))
           /\ Len(Operations(u)) = Len(u.codes)
           /\ \A k \in 1..Len(u.codes) : Operations(u)[k] = u.codes[Len(u.codes) - k + 1]
<1> DEFINE codes == u.codes
           n == Len(codes)
           s == Operations(u)
<1>1. codes \in Seq(Codes) /\ n \in Nat /\ DOMAIN codes = 1..n
  OBVIOUS
<1>2. \A k \in 1..n : codes[k] \in Usable
  <2>1. \A k \in 1..n : codes[k] \in Codes
    BY <1>1
  <2> QED
    BY <1>1, <2>1 DEF Valid, Usable
<1>3. s = [k \in 1..n |-> codes[(n - k) + 1]]
  BY DEF Operations, Reverse
<1>4. \A j, k \in 1..n : j < k => codes[j].at >= codes[k].at
  BY <1>1 DEF Valid, Descending
<1> HIDE DEF codes, n, s
<1>5. \A k \in 1..n : (n - k) + 1 \in 1..n /\ s[k] = codes[(n - k) + 1]
  BY <1>1, <1>3
<1>6. s \in [1..n -> Usable]
  BY <1>2, <1>3, <1>5
<1>7. s \in Seq(Usable) /\ Len(s) = n /\ DOMAIN s = 1..n
  BY <1>1, <1>6, SeqDef
<1>8. ASSUME NEW j \in 1..n, NEW k \in 1..n, j < k PROVE s[j].at <= s[k].at
  <2> DEFINE x == (n - k) + 1
             y == (n - j) + 1
             a == codes[x].at
             c == codes[y].at
  <2>1. x \in 1..n /\ y \in 1..n /\ x < y /\ s[j] = codes[y] /\ s[k] = codes[x]
    <3>1. x \in 1..n /\ s[k] = codes[x]
      BY <1>5
    <3>2. y \in 1..n /\ s[j] = codes[y]
      BY <1>5
    <3>3. x < y
      BY <1>1, <1>8
    <3> QED
      BY <3>1, <3>2, <3>3
  <2> HIDE DEF x, y
  <2>2. a >= c
    BY <1>4, <2>1
  <2>3. a \in 0..255 /\ c \in 0..255
    BY <1>2, <2>1, UsableIs
  <2>4. s[j].at = c /\ s[k].at = a
    BY <2>1
  <2> HIDE DEF a, c
  <2> QED
    BY <2>2, <2>3, <2>4
<1> QED
  BY <1>1, <1>5, <1>7, <1>8 DEF Ascending, s, codes, n

\* Linking does not reject the UNWIND_INFO.
Accepted(i) == i \in Infos /\ \A k \in DOMAIN i : Valid(i[k], k < Len(i))

\* What an UNWIND_INFO, with its chain, is when linking does not reject it.
LEMMA AcceptedIs ==
    ASSUME NEW i, Accepted(i)
    PROVE  /\ Len(i) \in Nat \ {0} /\ DOMAIN i = 1..Len(i)
           /\ \A k \in 1..Len(i) :
                /\ i[k] \in [prolog : 0..255, codes : Seq(Codes)] /\ Valid(i[k], k < Len(i))
                /\ Operations(i[k]) \in Seq(Usable) /\ Ascending(Operations(i[k]))
<1>1. i \in Seq([prolog : 0..255, codes : Seq(Codes)]) /\ i # <<>>
  BY InfosAssumption DEF Accepted
<1>2. Len(i) \in Nat /\ DOMAIN i = 1..Len(i)
  BY <1>1
<1>3. Len(i) # 0
  BY <1>1, EmptySeq
<1>4. ASSUME NEW k \in 1..Len(i)
      PROVE  /\ i[k] \in [prolog : 0..255, codes : Seq(Codes)] /\ Valid(i[k], k < Len(i))
             /\ Operations(i[k]) \in Seq(Usable) /\ Ascending(Operations(i[k]))
  <2>1. i[k] \in [prolog : 0..255, codes : Seq(Codes)]
    <3> DEFINE U == [prolog : 0..255, codes : Seq(Codes)]
    <3>1. i \in Seq(U)
      BY <1>1
    <3> HIDE DEF U
    <3>2. i[k] \in U
      BY <3>1
    <3> QED
      BY <3>2 DEF U
  <2>2. Valid(i[k], k < Len(i))
    BY <1>2 DEF Accepted
  <2> QED
    BY <2>1, <2>2, OperationsAre
<1> QED
  BY <1>2, <1>3, <1>4

\* The operations of a chain are those of its parts.
LEMMA AllAre ==
    ASSUME NEW i, Accepted(i), NEW k \in 1..Len(i)
    PROVE  All(i)[k] \in Seq(Usable)
<1> DEFINE size == Len(i)
           Step(j, s) == IF j = size THEN Operations(i[j]) ELSE s \o Operations(i[j])
           Is(f) == f = [j \in 1..size |-> Step(j, f[j + 1])]
           X == Seq(Usable)
           G == [j \in 1..(size - 1) |-> [s \in X |-> Step(size - j, s)]]
<1>1. size \in Nat /\ size - 1 \in Nat /\ size \in 1..size /\ DOMAIN i = 1..size
  BY AcceptedIs
<1>2. ASSUME NEW j \in 1..size, NEW s \in X PROVE Step(j, s) \in X
  <2> DEFINE o == Operations(i[j])
  <2>1. o \in X
    BY AcceptedIs
  <2> HIDE DEF o
  <2>2. s \o o \in X
    BY <2>1, ConcatProperties
  <2> QED
    BY <2>1, <2>2 DEF o
<1>3. Step(size, <<>>) \in X
  <2>1. <<>> \in X
    OBVIOUS
  <2> HIDE DEF X, Step, size
  <2> QED
    BY <1>1, <1>2, <2>1
<1>4. All(i) = CHOOSE f : Is(f)
  BY <1>1 DEF All
<1> HIDE DEF size, X
<1>5. \A j \in 1..(size - 1) : size - j \in 1..size
  BY <1>1
<1>6. G \in [1..(size - 1) -> [X -> X]]
  <2> HIDE DEF Step
  <2> QED
    BY <1>2, <1>5
<1> DEFINE first == Step(size, <<>>)
<1>7. PICK t : Follows(X, first, size - 1, G, t)
  <2> HIDE DEF G, first
  <2> QED
    BY <1>1, <1>3, <1>6, Chain DEF first
<1>8. /\ t \in [0..(size - 1) -> X] /\ t[0] = first
      /\ \A j \in 1..(size - 1) : t[j] = G[j][t[j - 1]]
  <2> HIDE DEF G, first
  <2> QED
    BY <1>7 DEF Follows
<1> DEFINE f == [j \in 1..size |-> t[size - j]]
<1>9. ASSUME NEW j \in 1..size PROVE f[j] = Step(j, f[j + 1])
  <2>1. CASE j = size
    <3>1. f[j] = first
      <4> HIDE DEF first
      <4> QED
        BY <1>1, <1>8, <2>1
    <3>2. Step(j, f[j + 1]) = first
      <4> HIDE DEF f
      <4> QED
        BY <2>1
    <3> QED
      BY <3>1, <3>2
  <2>2. CASE j < size
    <3> DEFINE n == size - j
    <3>1. n \in 1..(size - 1) /\ n - 1 \in 0..(size - 1) /\ size - n = j /\ size - (j + 1) = n - 1
          /\ j + 1 \in 1..size
      BY <1>1, <2>2
    <3>2. t[n] = G[n][t[n - 1]] /\ t[n - 1] \in X
      <4> HIDE DEF G, n
      <4> QED
        BY <1>8, <3>1
    <3>3. G[n][t[n - 1]] = Step(j, t[n - 1])
      <4> HIDE DEF Step, n
      <4> QED
        BY <3>1, <3>2
    <3>4. f[j] = t[n] /\ f[j + 1] = t[n - 1]
      BY <3>1
    <3> HIDE DEF Step, G, n, f
    <3> QED
      BY <3>2, <3>3, <3>4
  <2> QED
    BY <1>1, <2>1, <2>2
<1>10. Is(f)
  <2> HIDE DEF Step
  <2> QED
    BY <1>9
<1>11. \E g : Is(g)
  <2> HIDE DEF Is, f
  <2> QED
    BY <1>10
<1> DEFINE h == CHOOSE g : Is(g)
<1>12. Is(h)
  <2> HIDE DEF Is
  <2> QED
    BY <1>11
<1> HIDE DEF h
<1>13. \A j \in 1..size : h[j] = Step(j, h[j + 1])
  <2> HIDE DEF Step
  <2> QED
    BY <1>12
<1> DEFINE S == {j \in 0..(size - 1) : h[size - j] \in X}
<1>14. 0 \in S
  <2>1. size - 0 = size /\ 0 \in 0..(size - 1)
    BY <1>1
  <2>2. h[size] = Step(size, h[size + 1])
    <3> HIDE DEF Step
    <3> QED
      BY <1>1, <1>13
  <2>3. Step(size, h[size + 1]) = Step(size, <<>>)
    OBVIOUS
  <2> HIDE DEF Step
  <2> QED
    BY <1>3, <2>1, <2>2, <2>3
<1>15. ASSUME NEW j \in 0..(size - 1 - 1), j \in S PROVE j + 1 \in S
  <2> DEFINE n == size - (j + 1)
  <2>1. n \in 1..size /\ n + 1 = size - j /\ j + 1 \in 0..(size - 1)
    BY <1>1
  <2>2. h[n + 1] \in X
    BY <1>15, <2>1
  <2>3. h[n] = Step(n, h[n + 1])
    <3> HIDE DEF Step, n
    <3> QED
      BY <1>13, <2>1
  <2>4. Step(n, h[n + 1]) \in X
    <3> HIDE DEF Step, n
    <3> QED
      BY <1>2, <2>1, <2>2
  <2> HIDE DEF Step
  <2> QED
    BY <2>1, <2>3, <2>4
<1>16. \A j \in 0..(size - 1) : j \in S
  <2> HIDE DEF S
  <2> QED
    BY <1>1, <1>14, <1>15, Climb
<1>17. h[k] \in X
  <2>1. size - k \in 0..(size - 1) /\ size - (size - k) = k
    BY <1>1 DEF size
  <2> QED
    BY <1>16, <2>1
<1> QED
  BY <1>4, <1>17 DEF h, X

\* An operation of a chained UNWIND_INFO holds from the function's first instruction.
LEMMA FromBeginning ==
    ASSUME NEW op \in Usable
    PROVE  [op EXCEPT !.at = 0] \in Usable /\ [op EXCEPT !.at = 0].at = 0
<1> DEFINE q == [op EXCEPT !.at = 0]
           A == [op : {"Push", "Frame", "Save"}, reg : DOMAIN Number, n : Nat, at : 0..255]
           E == {n \in Nat : n % 8 = 0}
           B == [op : {"Alloc", "Machine"}, reg : {"none"}, n : E, at : 0..255]
<1>1. Codes = A \cup B
  BY DEF Codes
<1>2. CASE op \in A
  <2>1. q \in A /\ q.op = op.op /\ q.reg = op.reg /\ q.at = 0
    BY <1>2
  <2> HIDE DEF A, q
  <2> QED
    BY <1>1, <2>1 DEF Usable, q
<1>3. CASE op \in B
  <2> HIDE DEF E
  <2>1. q \in B /\ q.op = op.op /\ q.reg = op.reg /\ q.at = 0
    BY <1>3
  <2> HIDE DEF B, q
  <2> QED
    BY <1>1, <2>1 DEF Usable, q
<1>4. op \in A \cup B
  BY <1>1 DEF Usable
<1> QED
  BY <1>2, <1>3, <1>4

\* The operations of an accepted chain: the inherited ones, then its own.
LEMMA OpsAre ==
    ASSUME NEW i, Accepted(i)
    PROVE  /\ Ops(i) \in Seq(Usable) /\ Ascending(Ops(i)) /\ Conventional(Ops(i))
           /\ \A k \in 1..Len(Ops(i)) :
                Ops(i)[k].at = 0 \/ \E j \in DOMAIN i[1].codes : Ops(i)[k] = i[1].codes[j]
<1> DEFINE codes == i[1].codes
           n == Len(codes)
           own == Operations(i[1])
           old == Inherited(i)
           w == Len(old)
           inh == [k \in DOMAIN old |-> [old[k] EXCEPT !.at = 0]]
           ops == Ops(i)
<1>1. Len(i) \in Nat \ {0} /\ 1 \in 1..Len(i)
  BY AcceptedIs
<1>2. /\ own \in Seq(Usable) /\ Ascending(own) /\ Len(own) = n
      /\ \A k \in 1..n : own[k] = codes[n - k + 1]
      /\ n \in Nat /\ DOMAIN codes = 1..n
  <2>1. i[1] \in [prolog : 0..255, codes : Seq(Codes)] /\ Valid(i[1], 1 < Len(i))
    BY <1>1, AcceptedIs
  <2>2. codes \in Seq(Codes)
    BY <2>1
  <2>3. n \in Nat /\ DOMAIN codes = 1..n
    <3> HIDE DEF codes
    <3> QED
      BY <2>2
  <2> QED
    BY <2>1, <2>3, OperationsAre
<1>3. old \in Seq(Usable)
  <2>1. CASE Len(i) = 1
    BY <2>1 DEF Inherited
  <2>2. CASE Len(i) # 1
    <3>1. 2 \in 1..Len(i)
      <4> DEFINE l == Len(i)
      <4>1. l \in Nat \ {0} /\ l # 1
        BY <1>1, <2>2
      <4> HIDE DEF l
      <4>2. 2 \in 1..l
        BY <4>1
      <4> QED
        BY <4>2 DEF l
    <3> QED
      BY <2>2, <3>1, AllAre DEF Inherited
  <2> QED
    BY <2>1, <2>2
<1>4. ops = inh \o own
  BY DEF Ops
<1> HIDE DEF codes, own, old
<1>5. w \in Nat /\ DOMAIN old = 1..w /\ \A k \in 1..w : old[k] \in Usable
  BY <1>3
<1> HIDE DEF n, w, ops
<1>6. \A k \in 1..w : inh[k] \in Usable /\ inh[k].at = 0
  BY <1>5, FromBeginning
<1>7. inh \in [1..w -> Usable]
  BY <1>5, <1>6
<1> HIDE DEF inh
<1>8. inh \in Seq(Usable) /\ Len(inh) = w
  BY <1>5, <1>7, SeqDef
<1>9. /\ ops \in Seq(Usable) /\ Len(ops) = w + n /\ DOMAIN ops = 1..(w + n)
      /\ \A k \in 1..(w + n) : ops[k] = IF k <= w THEN inh[k] ELSE own[k - w]
  <2>1. Len(inh) = w /\ Len(own) = n
    BY <1>2, <1>8
  <2>2. /\ inh \o own \in Seq(Usable) /\ Len(inh \o own) = w + n
        /\ \A k \in 1..(w + n) : (inh \o own)[k] = IF k <= w THEN inh[k] ELSE own[k - w]
    <3>1. /\ inh \o own \in Seq(Usable) /\ Len(inh \o own) = Len(inh) + Len(own)
          /\ \A k \in 1..(Len(inh) + Len(own)) :
                (inh \o own)[k] = IF k <= Len(inh) THEN inh[k] ELSE own[k - Len(inh)]
      BY <1>2, <1>8, ConcatProperties
    <3> QED
      BY <2>1, <3>1
  <2>3. DOMAIN (inh \o own) = 1..(w + n)
    BY <2>2
  <2> QED
    BY <1>4, <2>2, <2>3
<1>10. \A k \in 1..(w + n) : ops[k].at \in 0..255
  BY <1>9, UsableIs
<1>11. ASSUME NEW j \in 1..(w + n), NEW k \in 1..(w + n), j < k PROVE ops[j].at <= ops[k].at
  <2>1. CASE j <= w
    <3> DEFINE a == ops[k].at
    <3>1. ops[j].at = 0
      BY <1>5, <1>6, <1>9, <2>1
    <3>2. a \in 0..255
      BY <1>10
    <3> HIDE DEF a
    <3>3. 0 <= a
      BY <3>2
    <3> QED
      BY <3>1, <3>3 DEF a
  <2>2. CASE ~(j <= w)
    <3>1. j - w \in 1..n /\ k - w \in 1..n /\ j - w < k - w /\ ~(k <= w)
      BY <1>2, <1>5, <1>11, <2>2
    <3>2. ops[j] = own[j - w] /\ ops[k] = own[k - w]
      BY <1>9, <2>2, <3>1
    <3>3. DOMAIN own = 1..n
      BY <1>2
    <3>4. own[j - w].at <= own[k - w].at
      BY <1>2, <3>1, <3>3 DEF Ascending
    <3> QED
      BY <3>2, <3>4
  <2> QED
    BY <2>1, <2>2
<1>12. ASSUME NEW k \in 1..(w + n)
       PROVE  ops[k].at = 0 \/ \E j \in DOMAIN codes : ops[k] = codes[j]
  <2>1. CASE k <= w
    BY <1>5, <1>6, <1>9, <2>1
  <2>2. CASE ~(k <= w)
    <3>1. k - w \in 1..n /\ n - (k - w) + 1 \in 1..n
      BY <1>2, <1>5, <2>2
    <3>2. ops[k] = codes[n - (k - w) + 1]
      BY <1>2, <1>9, <2>2, <3>1
    <3> QED
      BY <1>2, <3>1, <3>2
  <2> QED
    BY <2>1, <2>2
<1>13. Conventional(ops)
  BY ConventionAssumption DEF Accepted, Conventional, ops
<1> QED
  BY <1>9, <1>11, <1>12, <1>13 DEF Ascending, ops, codes

\* The thread after the operations that hold at an offset.
ThreadAt(i, ip) == Executed(Ops(i))[Reached(Ops(i), ip)]

\* A thread outside functions has moved nothing; one in a function is where
\* its prologue has come to, but for what the body moved past a frame register.
RunInv ==
    /\ PlaceInv
    /\ fn = Nowhere \/ ~fn.function => sp = Called.sp /\ fp = Called.fp /\ saved = Called.saved
    /\ fn # Nowhere /\ fn.function =>
        /\ fp = ThreadAt(info, at).fp /\ saved = ThreadAt(info, at).saved
        /\ fp.reg = "rsp" => sp = ThreadAt(info, at).sp

\* At first the thread is as at a function's first instruction.
LEMMA RunInit == ASSUME UnwindInit PROVE RunInv
<1>1. PlaceInv
  BY PlaceInit
<1>2. fn = Nowhere /\ sp = Called.sp /\ fp = Called.fp /\ saved = Called.saved
  BY DEF UnwindInit
<1> QED
  BY <1>1, <1>2 DEF RunInv

\* While a function runs, its DLL was not rejected, and its description could be written.
LEMMA NotRejected ==
    ASSUME PlaceInv, fn # Nowhere
    PROVE  Accepted(info) /\ Writable(Ops(info)) /\ Description(info).out = Bytes(Ops(info))
<1>1. info \in Infos /\ ~Rejected(info, layout)
  BY DEF PlaceInv
<1>2. Accepted(info)
  BY <1>1 DEF Rejected, Accepted
<1>3. ~Description(info).throws
  BY <1>1 DEF Rejected
<1>4. /\ Ops(info) \in Seq(Usable) /\ Ascending(Ops(info)) /\ Conventional(Ops(info))
  BY <1>2, OpsAre
<1> QED
  BY <1>2, <1>3, <1>4 DEF Writable, Description, Bytes

\* Past its last code a prologue does nothing.
LEMMA PrologueDone ==
    ASSUME PlaceInv, Inside, NEW ip \in Nat, at <= ip
    PROVE  ThreadAt(info, ip) = ThreadAt(info, at)
<1> DEFINE ops == Ops(info)
           size == Len(ops)
<1>1. fn # Nowhere /\ Left = {} /\ at \in Nat
  BY DEF Inside, PlaceInv
<1>2. /\ ops \in Seq(Usable) /\ Ascending(ops) /\ size \in Nat
      /\ \A k \in 1..size : ops[k].at = 0 \/ \E j \in DOMAIN info[1].codes : ops[k] = info[1].codes[j]
  BY <1>1, NotRejected, OpsAre
<1>3. ASSUME NEW k \in 1..size, NEW q \in Nat, at <= q PROVE ~(ops[k].at > q)
  <2> DEFINE a == ops[k].at
  <2>1. a \in 0..255
    <3>1. ops[k] \in Usable
      BY <1>2
    <3> QED
      BY <3>1, UsableIs
  <2>2. a = 0 \/ ~(a > at)
    <3> HIDE DEF ops
    <3>1. CASE ops[k].at = 0
      BY <3>1
    <3>2. CASE \E j \in DOMAIN info[1].codes : ops[k] = info[1].codes[j]
      <4>1. PICK j \in DOMAIN info[1].codes : ops[k] = info[1].codes[j]
        BY <3>2
      <4>2. ~(info[1].codes[j].at > at)
        BY <1>1, <4>1 DEF Left
      <4> QED
        BY <4>1, <4>2
    <3> QED
      BY <1>2, <3>1, <3>2
  <2> HIDE DEF a
  <2>3. ~(a > q)
    BY <1>1, <1>3, <2>1, <2>2
  <2> QED
    BY <2>3 DEF a
<1>4. ASSUME NEW q \in Nat, at <= q PROVE Reached(ops, q) = size
  <2> DEFINE n == Reached(ops, q)
  <2>1. n \in 0..size /\ \A k \in (n + 1)..size : ops[k].at > q
    BY <1>2, ReachedIs
  <2> HIDE DEF n, size, ops
  <2>2. ~(n + 1 \in (n + 1)..size)
    <3> SUFFICES ASSUME n + 1 \in (n + 1)..size PROVE FALSE
      OBVIOUS
    <3> DEFINE k == n + 1
    <3>1. k \in 1..size /\ k \in (n + 1)..size
      BY <1>2, <2>1
    <3> HIDE DEF k
    <3> QED
      BY <1>3, <1>4, <2>1, <3>1
  <2> QED
    BY <1>2, <2>1, <2>2 DEF n
<1>5. at <= at
  BY <1>1
<1>6. Reached(ops, at) = size /\ Reached(ops, ip) = size
  BY <1>1, <1>4, <1>5
<1> QED
  BY <1>6 DEF ThreadAt

\* Every step leaves the thread as the operations it has come to leave it.
LEMMA RunPreserved == ASSUME RunInv, [UnwindNext]_unwind_vars PROVE RunInv'
<1>0. PlaceInv /\ PlaceInv'
  BY PlacePreserved DEF RunInv
<1>1. ASSUME fn' # Nowhere, fn'.function,
             fp' = ThreadAt(info', at').fp, saved' = ThreadAt(info', at').saved,
             fp'.reg = "rsp" => sp' = ThreadAt(info', at').sp
      PROVE  RunInv'
  BY <1>0, <1>1 DEF RunInv, ThreadAt
<1>2. CASE Enter
  <2>1. fn = Nowhere /\ at' = at /\ info' = info /\ at = 0 /\ Becomes(At(0))
        /\ fn' # Nowhere /\ fn'.function
    <3>1. PICK k \in DOMAIN layout.functions :
            fn' = Code(layout.functions[k].begin, layout.functions[k].end, TRUE)
      BY <1>2 DEF Enter
    <3>2. fn' \in [begin : Nat, end : Nat, function : BOOLEAN] /\ fn'.function
      BY <1>0, <3>1, Numbers DEF Code, PlaceInv
    <3> QED
      BY <1>0, <1>2, <3>2, NowhereAssumption DEF Enter, PlaceInv
  <2>2. At(0) = ThreadAt(info', at')
    BY <2>1 DEF At, ThreadAt
  <2> QED
    BY <1>1, <2>1, <2>2 DEF Becomes
<1>3. CASE EnterLeaf
  <2>1. fn = Nowhere /\ sp' = sp /\ fp' = fp /\ saved' = saved
    BY <1>3 DEF EnterLeaf
  <2>2. sp = Called.sp /\ fp = Called.fp /\ saved = Called.saved
    BY <2>1 DEF RunInv
  <2>3. ~fn'.function
    BY <1>3 DEF EnterLeaf, Code
  <2> QED
    BY <1>0, <2>1, <2>2, <2>3 DEF RunInv
<1>4. CASE Prologue
  <2>1. fn' # Nowhere /\ fn'.function /\ info' = info /\ at' = at + 1 /\ Becomes(At(at + 1))
    BY <1>4 DEF Prologue
  <2>2. At(at + 1) = ThreadAt(info', at')
    BY <2>1 DEF At, ThreadAt
  <2> QED
    BY <1>1, <2>1, <2>2 DEF Becomes
<1>5. CASE Body
  <2>1. /\ fn' = fn /\ fn # Nowhere /\ fn.function /\ info' = info /\ at' = at
        /\ fp' = fp /\ saved' = saved /\ fp.reg # "rsp"
    BY <1>5 DEF Body, Inside
  <2> QED
    BY <1>1, <2>1 DEF RunInv
<1>6. CASE BodyEnds
  <2>1. /\ fn' = fn /\ fn # Nowhere /\ fn.function /\ info' = info /\ at' = fn.end - fn.begin - 1
        /\ fp' = fp /\ saved' = saved /\ sp' = sp /\ Inside
    BY <1>6 DEF BodyEnds, Inside
  <2>2. PICK k \in DOMAIN layout.functions :
            fn = Code(layout.functions[k].begin, layout.functions[k].end, TRUE)
    BY <1>0, <2>1 DEF PlaceInv, Code
  <2>3. fn.begin \in Nat /\ fn.end \in Nat /\ at \in Nat /\ at < fn.end - fn.begin
    BY <1>0, <2>1, <2>2, Numbers DEF Code, PlaceInv
  <2>4. at' \in Nat /\ at <= at'
    BY <2>1, <2>3
  <2> DEFINE ip == at'
  <2>5. ip \in Nat /\ at <= ip
    BY <2>4
  <2>6. ThreadAt(info, ip) = ThreadAt(info, at)
    <3> HIDE DEF ip
    <3> QED
      BY <1>0, <2>1, <2>5, PrologueDone
  <2> QED
    BY <1>1, <2>1, <2>6 DEF RunInv
<1>7. CASE UNCHANGED unwind_vars
  BY <1>7 DEF unwind_vars, RunInv, PlaceInv, InSection, InFunction, ThreadAt
<1> QED
  BY <1>2, <1>3, <1>4, <1>5, <1>6, <1>7 DEF UnwindNext

\* The row that is read at the thread's offset finds the caller's frame and what was saved.
LEMMA RunUnwinds == ASSUME RunInv PROVE UnwindsAtEveryPc
<1> SUFFICES ASSUME fn # Nowhere, NEW r \in Describing(layout, Pc)
             PROVE  LET row == RowAt(IF r.function THEN Description(info).out ELSE <<>>, Pc - r.begin)
                    IN  FindsCfa(row) /\ FindsRegisters(row)
  BY DEF UnwindsAtEveryPc
<1>1. PlaceInv
  BY DEF RunInv
<1>2. r.function = fn.function /\ (fn.function => r.begin = fn.begin)
      /\ fn.begin \in Nat /\ at \in Nat
  BY <1>1, PlaceDescribed
<1>3. CASE fn.function
  <2> DEFINE ops == Ops(info)
             n == Reached(ops, at)
             m == ThreadAt(info, at)
             k == After(ops, n)
             loc == Since(ops)[n]
             row == RowAfter(ops, n)
  <2>1. Writable(ops) /\ Description(info).out = Bytes(ops)
    BY <1>1, NotRejected
  <2>2. Pc - r.begin = at
    BY <1>2, <1>3 DEF Pc
  <2>3. RowAt(Bytes(ops), at) = row
    BY <1>2, <2>1, RowReached
  <2>4. ops \in Seq(Usable) /\ Ascending(ops)
    BY <2>1 DEF Writable
  <2>5. n \in 0..Len(ops)
    BY <1>2, <2>4, ReachedIs
  <2>6. row = RowOf(k, loc, m)
    BY DEF RowAfter, ThreadAt
  <2>7. k \in Nat /\ loc \in Nat /\ Sound(m)
    <3>1. m = Executed(ops)[n]
      BY DEF ThreadAt
    <3> HIDE DEF n, m, ops
    <3> QED
      BY <2>1, <2>4, <2>5, <3>1, WritableIs, SinceIs, WritesAll DEF Writable
  <2>8. fp = m.fp /\ saved = m.saved /\ (fp.reg = "rsp" => sp = m.sp)
    BY <1>3 DEF RunInv
  <2> HIDE DEF k, loc, m, row, n
  <2>9. /\ row.cfa = Dwarf[m.fp.reg] /\ row.off = (IF m.fp.reg = "rsp" THEN m.sp ELSE m.fp.n)
        /\ row.rules = Rules(m.saved)
    BY <2>6, <2>7, RowOfRow
  <2>10. FindsCfa(row)
    BY <2>8, <2>9 DEF FindsCfa
  <2>11. FindsRegisters(row)
    BY <2>8, <2>9 DEF FindsRegisters, Rules
  <2> QED
    BY <1>2, <1>3, <2>1, <2>2, <2>3, <2>10, <2>11
<1>4. CASE ~fn.function
  <2> DEFINE q == Pc - r.begin
             b == <<>>
  <2>1. b \in Seq(Nat) /\ Len(b) = 0
    OBVIOUS
  <2>2. RowAt(b, q) = FirstRow
    <3> HIDE DEF q, b
    <3>1. Rows(b, q)[0] = FirstRow
      BY <2>1, RowsIs
    <3> QED
      BY <2>1, <3>1 DEF RowAt
  <2>3. sp = Called.sp /\ fp = Called.fp /\ saved = Called.saved
    BY <1>4 DEF RunInv
  <2>4. /\ FirstRow.cfa = Dwarf[Called.fp.reg] /\ FirstRow.rules = Rules(Called.saved)
        /\ FirstRow.off = IF Called.fp.reg = "rsp" THEN Called.sp ELSE Called.fp.n
    <3>1. 1 \in Nat /\ 0 \in Nat
      OBVIOUS
    <3> QED
      BY <3>1, FirstRowIs, CalledSound, RowOfRow
  <2>5. FindsCfa(FirstRow)
    BY <2>3, <2>4 DEF FindsCfa, Called
  <2>6. FindsRegisters(FirstRow)
    BY <2>3, <2>4 DEF FindsRegisters, Rules
  <2>7. ~r.function
    BY <1>2, <1>4
  <2> HIDE DEF q
  <2> QED
    BY <2>2, <2>5, <2>6, <2>7 DEF q
<1> QED
  BY <1>3, <1>4

\* At every point of a function the thread is as the operations it has come
\* to leave it: where its stack pointer and frame register are, and what it saved.
THEOREM UnwindInvariance == UnwindSpec => []RunInv
<1>1. RunInv /\ [UnwindNext]_unwind_vars => RunInv'
  BY RunPreserved
<1> QED
  BY <1>1, RunInit, PTL DEF UnwindSpec

\* UnwindsAtEveryPc: at every instruction of every function, for any DLL that
\* is not rejected, the description build_eh_frame writes finds the caller's
\* frame and every saved register.
THEOREM UnwindsEverywhere == UnwindSpec => []UnwindsAtEveryPc
BY UnwindInvariance, RunUnwinds, PTL
=============================================================================

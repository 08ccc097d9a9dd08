---------------------------- MODULE VirtualMemory ---------------------------
(***************************************************************************)
(* VirtualAlloc and VirtualFree over mmap, mprotect and munmap             *)
(* (src/src/winlibs.cpp).                                                  *)
(*                                                                         *)
(* Calls hold g_virtual_memory_mutex throughout, so one call is under way  *)
(* at a time, each system call of it an action.  The rest of the process   *)
(* maps and unmaps memory without that mutex, in between.  A call whose    *)
(* checks fail changes nothing and is no step.  An address is a number of  *)
(* units, of which a page has several.                                     *)
(***************************************************************************)
EXTENDS Integers, FiniteSets

CONSTANTS
    PageSize,       \* host_page_size
    Granularity,    \* WINDOWS_ALLOCATION_GRANULARITY
    MaxAddress,     \* the greatest uintptr_t
    UserPages,      \* the pages the kernel hands out
    Addresses, Sizes,   \* what the calls are made with; address 0 is null
    MaxOthers       \* bound: pages that others have mapped at a time

ASSUME MemoryAssumption ==
    /\ PageSize \in Nat \ {0}
    /\ Granularity \in Nat \ {0} /\ Granularity % PageSize = 0
    /\ MaxAddress \in Nat
    /\ \A p \in UserPages : p \in Nat \ {0} /\ (p + 1) * PageSize + Granularity <= MaxAddress
    /\ Addresses \subseteq 0..MaxAddress /\ Sizes \subseteq 0..MaxAddress
    /\ MaxOthers \in Nat

Protections == {"noaccess", "readwrite"}

VARIABLES
    reservations,   \* g_virtual_reservations: sizes by base
    ours,           \* pages the calls have mapped
    others,         \* pages the rest of the process has mapped
    full,           \* the process has been at vm.max_map_count
    open,           \* our pages that can be written
    dirty,          \* our pages that do not read zero
    call,           \* the call under way
    promised,       \* what the calls have promised of each page
    stored          \* committed pages the program has written since

pages == <<ours, open, dirty>>
program == <<promised, stored>>
memory_vars == <<reservations, pages, others, full, call, program>>

Idle == [at |-> "idle"]

MemoryInit ==
    /\ reservations = [b \in {} |-> 0]
    /\ ours = {} /\ others = {} /\ open = {} /\ dirty = {}
    /\ full = FALSE
    /\ call = Idle
    /\ promised = [p \in UserPages |-> "free"]
    /\ stored = {}

---------------------------------------------------------------------------
(* Addresses.                                                              *)

RoundDown(v, a) == v - (v % a)
RoundUp(v, a) == RoundDown(v + a - 1, a)

\* checked_add_address, which round_up_address uses too.
Fits(v, s) == s <= MaxAddress - v
RoundsUp(v, a) == Fits(v, a - 1)

\* The pages of a range whose ends are page boundaries.
Pages(start, end) == (start \div PageSize)..(end \div PageSize - 1)
Reserved(base) == Pages(base, base + reservations[base])

\* find_reservation: the last one that begins at or before start.
InReservation(start, end) ==
    \E b \in DOMAIN reservations :
        /\ b <= start /\ end <= b + reservations[b]
        /\ \A c \in DOMAIN reservations : c <= start => c <= b

---------------------------------------------------------------------------
(* The kernel.                                                             *)

\* Neighbouring pages with the same protection are one mapping.
Mappings(P, O) == {p \in P : ~(p - 1 \in P /\ (p - 1 \in O <=> p \in O))}

\* To take the pages R out of a mapping's middle makes two mappings of one,
\* for which there is no room at vm.max_map_count.
MayFailToUnmap(R) ==
    full /\ Cardinality(Mappings(ours \ R, open)) > Cardinality(Mappings(ours, open))

Unmap(R) ==
    /\ ours' = ours \ R
    /\ others' = others \ R
    /\ open' = open \ R
    /\ dirty' = dirty \ R

\* Fresh pages, not accessible.
Map(R) ==
    /\ ours' = ours \cup R
    /\ open' = open \ R
    /\ dirty' = dirty \ R

Protect(R, protection) ==
    open' = IF protection = "readwrite" THEN open \cup R ELSE open \ R

\* mprotect goes from mapping to mapping and may fail at any of them: for
\* want of memory when it gives access, of mappings when it takes it.
MayFailAfter(R, protection) == {P \in {{p \in R : p < q} : q \in R} :
    protection = "readwrite" \/ full}

Vacant(R) == R \subseteq UserPages \ (ours \cup others)

Promise(R, what) ==
    promised' = [p \in UserPages |-> IF p \in R THEN what ELSE promised[p]]

---------------------------------------------------------------------------
(* VirtualAlloc.                                                           *)

\* MEM_COMMIT with an address; protected are the pages mprotect is told.
Committing(a, s, protection, protected) ==
    LET start == RoundDown(a, PageSize)
        end == RoundUp(a + s, PageSize)
    IN  /\ call = Idle /\ a # 0 /\ s # 0
        /\ Fits(a, s) /\ RoundsUp(a + s, PageSize)
        /\ InReservation(start, end)
        /\ \/ /\ Protect(protected, protection)
              /\ Promise(Pages(start, end), protection)
           \/ /\ \E P \in MayFailAfter(Pages(start, end), protection) : Protect(P, protection)
              /\ UNCHANGED promised
        /\ UNCHANGED <<reservations, ours, dirty, others, call, stored>>

\* (variant) The end is rounded before the size is added.
CommitAligned(a, s, protection) ==
    Committing(a, s, protection,
               Pages(RoundDown(a, PageSize), RoundDown(a, PageSize) + RoundUp(s, PageSize)))

Commit(a, s, protection) ==
    Committing(a, s, protection, Pages(RoundDown(a, PageSize), RoundUp(a + s, PageSize)))

\* The rest of a VirtualAlloc that has mapped [base, base + size).
Mapped(base, size, commit) == [at |-> "mapped", base |-> base, size |-> size, commit |-> commit]

\* MEM_RESERVE with an address, whole granules below it and whole pages above.
\* commit is the protection of a MEM_COMMIT, or "reserved".  A kernel without
\* MAP_FIXED_NOREPLACE maps elsewhere, which is undone at once.
Asked(a, s) == Pages(RoundDown(a, Granularity), RoundUp(a + s, PageSize))

Reserving(a, s, commit) ==
    LET base == RoundDown(a, Granularity)
        end == RoundUp(a + s, PageSize)
    IN  /\ call = Idle /\ base # 0 /\ s # 0
        /\ Fits(a, s) /\ RoundsUp(a + s, PageSize)
        /\ Map(Asked(a, s))
        /\ others' = others \ Asked(a, s)
        /\ call' = Mapped(base, end - base, commit)
        /\ UNCHANGED <<reservations, program>>

\* (variant) MAP_FIXED, which replaces what is there.
ReserveFixed(a, s, commit) == Asked(a, s) \subseteq UserPages /\ Reserving(a, s, commit)

ReserveAt(a, s, commit) == Vacant(Asked(a, s)) /\ Reserving(a, s, commit)

\* MEM_RESERVE, or MEM_COMMIT alone, without an address: a granule more than
\* is needed is mapped, wherever the kernel likes.
MapAnywhere(s, commit) ==
    LET size == RoundUp(s, PageSize)
    IN  /\ call = Idle /\ s # 0
        /\ RoundsUp(s, PageSize) /\ Fits(size, Granularity)
        /\ \E p \in UserPages :
            LET mapping == p * PageSize
                base == RoundUp(mapping, Granularity)
                end == mapping + size + Granularity
            IN  /\ Vacant(Pages(mapping, end))
                /\ Map(Pages(mapping, end))
                /\ call' = [at |-> IF base = mapping THEN "suffix" ELSE "prefix",
                            mapping |-> mapping, end |-> end,
                            base |-> base, size |-> size, commit |-> commit]
        /\ UNCHANGED <<reservations, others, program>>

\* The pages before the first granule and those after the last page go.
Trim(part, R, next) ==
    /\ call.at = part
    /\ \/ Unmap(R) /\ call' = next
       \/ MayFailToUnmap(R) /\ call' = [call EXCEPT !.at = "rollback"] /\ UNCHANGED <<pages, others>>
    /\ UNCHANGED <<reservations, program>>

TrimPrefix ==
    Trim("prefix", Pages(call.mapping, call.base), [call EXCEPT !.at = "suffix"])

TrimSuffix ==
    Trim("suffix", Pages(call.base + call.size, call.end),
         Mapped(call.base, call.size, call.commit))

\* The result of a munmap that undoes is not looked at.
Undo(R) ==
    /\ \/ Unmap(R)
       \/ MayFailToUnmap(R) /\ UNCHANGED <<pages, others>>
    /\ call' = Idle
    /\ UNCHANGED <<reservations, program>>

Rollback == call.at = "rollback" /\ Undo(Pages(call.mapping, call.end))

\* mprotect if the call commits, and the entry.
Record ==
    LET R == Pages(call.base, call.base + call.size)
    IN  /\ call.at = "mapped"
        /\ call.base \notin DOMAIN reservations
        /\ IF call.commit = "reserved" THEN UNCHANGED open ELSE Protect(R, call.commit)
        /\ reservations' = [b \in DOMAIN reservations \cup {call.base} |->
                IF b = call.base THEN call.size ELSE reservations[b]]
        /\ Promise(R, call.commit)
        /\ call' = Idle
        /\ UNCHANGED <<ours, others, dirty, stored>>

\* (variant) The pages stay mapped.
DiscardEntry == call.at = "mapped" /\ call' = Idle /\ UNCHANGED <<reservations, pages, others, program>>

\* A refused mprotect, or no memory or no place for the entry.
Discard == call.at = "mapped" /\ Undo(Pages(call.base, call.base + call.size))

---------------------------------------------------------------------------
(* VirtualFree.                                                            *)

\* MEM_RELEASE: a munmap that fails changes nothing.
Release(a) ==
    /\ call = Idle /\ a \in DOMAIN reservations
    /\ Unmap(Reserved(a))
    /\ Promise(Reserved(a), "free")
    /\ stored' = stored \ Reserved(a)
    /\ call' = [at |-> "released", base |-> a]
    /\ UNCHANGED reservations

Erase ==
    /\ call.at = "released"
    /\ reservations' = [b \in DOMAIN reservations \ {call.base} |-> reservations[b]]
    /\ call' = Idle
    /\ UNCHANGED <<pages, others, program>>

\* MEM_DECOMMIT of a range, or with size 0 of a whole reservation: fresh
\* pages replace the old ones.  When that fails the old ones are intact.
DecommitStart(a, s) == IF s = 0 THEN a ELSE RoundDown(a, PageSize)
DecommitEnd(a, s) == IF s = 0 THEN a + reservations[a] ELSE RoundUp(a + s, PageSize)

Decommit(a, s) ==
    /\ call = Idle /\ a # 0
    /\ IF s = 0 THEN a \in DOMAIN reservations
       ELSE /\ Fits(a, s) /\ RoundsUp(a + s, PageSize)
            /\ InReservation(DecommitStart(a, s), DecommitEnd(a, s))
    /\ LET R == Pages(DecommitStart(a, s), DecommitEnd(a, s))
       IN  /\ Map(R)
           /\ Promise(R, "reserved")
           /\ stored' = stored \ R
    /\ UNCHANGED <<reservations, others, call>>

---------------------------------------------------------------------------
(* The rest of the process.                                                *)

\* The program writes where it was told that it can.
Write(p) ==
    /\ promised[p] = "readwrite" /\ p \in open
    /\ dirty' = dirty \cup {p}
    /\ stored' = stored \cup {p}
    /\ UNCHANGED <<reservations, ours, open, others, call, promised>>

OthersMap(p) ==
    /\ Vacant({p}) /\ Cardinality(others) < MaxOthers
    /\ others' = others \cup {p}
    /\ UNCHANGED <<reservations, pages, call, program>>

OthersUnmap(p) ==
    /\ p \in others
    /\ others' = others \ {p}
    /\ UNCHANGED <<reservations, pages, call, program>>

---------------------------------------------------------------------------

VirtualAlloc ==
    \/ \E a \in Addresses, s \in Sizes :
        \/ \E c \in Protections : Commit(a, s, c)
        \/ \E c \in Protections \cup {"reserved"} : ReserveAt(a, s, c)
    \/ \E s \in Sizes, c \in Protections \cup {"reserved"} : MapAnywhere(s, c)
    \/ TrimPrefix \/ TrimSuffix \/ Rollback \/ Record \/ Discard

VirtualFree ==
    \/ \E a \in Addresses : Release(a) \/ \E s \in Sizes : Decommit(a, s)
    \/ Erase

Others == \E p \in UserPages : Write(p) \/ OthersMap(p) \/ OthersUnmap(p)

\* The rest of the process has as many mappings as the kernel allows.
FillMapCount ==
    /\ ~full
    /\ full' = TRUE
    /\ UNCHANGED <<reservations, pages, others, call, program>>

MemoryNext ==
    \/ (VirtualAlloc \/ VirtualFree \/ Others) /\ UNCHANGED full
    \/ FillMapCount

MemorySpec == MemoryInit /\ [][MemoryNext]_memory_vars

---------------------------------------------------------------------------
(* Properties.                                                             *)

\* The pages a call under way has mapped and not yet recorded or given back.
InCall ==
    IF call.at \in {"prefix", "rollback"} THEN Pages(call.mapping, call.end)
    ELSE IF call.at = "suffix" THEN Pages(call.base, call.end)
    ELSE IF call.at = "mapped" THEN Pages(call.base, call.base + call.size)
    ELSE {}

Recorded == DOMAIN reservations \ (IF call.at = "released" THEN {call.base} ELSE {})

\* Every variable has its kind of value; the fields of a call are those of
\* the place it is at.
Calls ==
    {Idle} \cup [at : {"released"}, base : Addresses]
    \cup [at : {"mapped"}, base : Int, size : Int, commit : Protections \cup {"reserved"}]
    \cup [at : {"prefix", "suffix", "rollback"}, mapping : Int, end : Int,
          base : Int, size : Nat, commit : Protections \cup {"reserved"}]

MemoryTypeOK ==
    /\ \A b \in DOMAIN reservations : b \in Int /\ reservations[b] \in Int
    /\ reservations = [b \in DOMAIN reservations |-> reservations[b]]
    /\ others \subseteq UserPages /\ full \in BOOLEAN
    /\ ours \subseteq UserPages /\ open \subseteq ours /\ dirty \subseteq ours
    /\ call \in Calls
    /\ promised \in [UserPages -> Protections \cup {"reserved", "free"}]
    /\ stored \subseteq UserPages

\* The pages of a reservation are mapped, by us, and in no other reservation,
\* whatever failed before.
ReservationsHold ==
    \A b \in Recorded :
        /\ Reserved(b) \subseteq ours
        /\ \A c \in Recorded \ {b} : Reserved(b) \cap Reserved(c) = {}

\* Nothing stays mapped that no reservation and no call under way accounts for.
NothingLeaks == ours = (UNION {Reserved(b) : b \in Recorded}) \cup InCall

\* What g_virtual_reservations says is what is mapped: no reservation has
\* holes or shares a page, and below vm.max_map_count, where no munmap fails,
\* nothing else is left behind by a call that failed (VirtualAlloc, VirtualFree).
MappingsAreRecorded == ReservationsHold /\ (~full => NothingLeaks)

\* A committed page reads what the program wrote since it was committed, and
\* zero if it wrote nothing: also after a decommit and a failed call.
ContentsKept ==
    \A p \in UserPages :
        promised[p] \in Protections => (p \in dirty <=> p \in stored)

\* Where the program was told it can write, it can.
AccessIsGiven == \A p \in UserPages : promised[p] = "readwrite" => p \in open

\* A committed page keeps what is written to it and, below vm.max_map_count,
\* where mprotect does not fail to take access halfway, can be written:
\* commits and decommits of unaligned ranges reach the pages they are of.
CommittedPagesWork == ContentsKept /\ (~full => AccessIsGiven)

\* Below vm.max_map_count the rest of the process loses a page by its own
\* hand only, in a step in which no call does anything: what VirtualAlloc
\* maps replaces nothing, and what it unmaps is its own.
OthersKeepTheirs ==
    [][~full /\ ~(others \subseteq others')
        => UNCHANGED <<reservations, pages, call, program>>]_memory_vars
=============================================================================

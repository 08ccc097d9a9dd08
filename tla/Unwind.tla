------------------------------- MODULE Unwind -------------------------------
(***************************************************************************)
(* The unwind information of a sidecar (src/src/pe_sidecar.cpp): the       *)
(* UNWIND_CODEs of a DLL become DWARF call frame instructions, with which  *)
(* a debugger or the runtime walks the stack from anywhere in its code.    *)
(*                                                                         *)
(* A thread runs code of the DLL; at every point of it the generated bytes *)
(* are read as DWARF prescribes.  An UNWIND_INFO comes with the ones it is *)
(* chained to, the nearest first; each has its prologue's size and codes.  *)
(***************************************************************************)
EXTENDS Integers, Sequences, FiniteSets, SequencesExt

CONSTANTS
    Infos,    \* UNWIND_INFOs a DLL may have, with their chains
    Layouts,  \* executable sections and the functions in them, sorted
    Nowhere,
    MaxMove   \* bound: how far a body moves the stack pointer

VARIABLES
    info,     \* the UNWIND_INFO of the DLL's functions
    layout,   \* its sections and functions
    fn,       \* the function the thread runs, or the address of a leaf's code
    at,       \* the offset of its next instruction
    sp,       \* bytes from the stack pointer up to the caller's frame (the CFA)
    fp,       \* the frame register, rsp if none, and its bytes up to the CFA
    saved     \* where registers are saved, relative to the CFA

unwind_vars == <<info, layout, fn, at, sp, fp, saved>>

---------------------------------------------------------------------------
(* Numbers of variable length and the instructions made of them.           *)

\* What remains to be written of n after k bytes of seven bits.
Shifted(n) ==
    LET rest[k \in 0..(IF n < 0 THEN -n ELSE n)] == IF k = 0 THEN n ELSE rest[k - 1] \div 128
    IN  rest

\* A byte for every seven bits up to those that say all there is to say.
append_leb(n, Short) ==
    LET rest == Shifted(n)
        last == CHOOSE k \in DOMAIN rest :
                    rest[k] \in Short /\ \A j \in 0..(k - 1) : rest[j] \notin Short
    IN  [k \in 1..(last + 1) |-> (rest[k - 1] % 128) + IF k <= last THEN 128 ELSE 0]

append_uleb(n) == append_leb(n, 0..127)
append_sleb(n) == append_leb(n, -64..63)

\* DW_CFA_advance_loc, with the delta in it or in a byte of its own; the
\* offset of an UNWIND_CODE has no more.
append_advance(delta) ==
    IF delta = 0 THEN <<>> ELSE IF delta < 64 THEN <<64 + delta>> ELSE <<2, delta>>

def_cfa_offset(n) == <<14>> \o append_uleb(n)
def_cfa(reg, n) == <<12>> \o append_uleb(reg) \o append_uleb(n)
emit_offset(reg, n) == <<17>> \o append_uleb(reg) \o append_sleb(-(n \div 8))

---------------------------------------------------------------------------
(* Reading the codes.                                                      *)

\* The numbers of the registers in the DLL.
Number == [rcx |-> 1, rbx |-> 3, rbp |-> 5, rsi |-> 6, rdi |-> 7, r12 |-> 12, xmm6 |-> 6]

nonvolatile(reg) == Number[reg] \in {3, 5, 6, 7} \cup 12..15

register_map(reg) ==
    IF reg = "xmm6" THEN 17 + Number[reg]
    ELSE <<0, 2, 1, 3, 7, 6, 4, 5, 8, 9, 10, 11, 12, 13, 14, 15>>[Number[reg] + 1]

\* UNWIND_CODEs as they are decoded: allocations are of whole slots.
Codes ==
    [op : {"Push", "Frame", "Save"}, reg : DOMAIN Number, n : Nat, at : 0..255]
        \cup [op : {"Alloc", "Machine"}, reg : {"none"}, n : {n \in Nat : n % 8 = 0}, at : 0..255]

Extents == {r \in [begin : Nat, end : Nat] : r.begin < r.end}

\* What resolve_unwind decodes, and parse_pe of the sections and functions.
ASSUME InfosAssumption ==
    Infos \subseteq Seq([prolog : 0..255, codes : Seq(Codes)]) \ {<<>>}

ASSUME LayoutsAssumption == \A l \in Layouts :
    /\ l.sections \subseteq Extents /\ l.functions \in Seq(Extents)
    /\ \A r, q \in l.sections : r = q \/ r.end <= q.begin \/ q.end <= r.begin
    /\ \A j, k \in DOMAIN l.functions : j < k => l.functions[j].end <= l.functions[k].begin
    /\ \A k \in DOMAIN l.functions : \E r \in l.sections :
            r.begin <= l.functions[k].begin /\ l.functions[k].end <= r.end

ASSUME NowhereAssumption == Nowhere \notin [begin : Nat, end : Nat, function : BOOLEAN]

Descending(codes) == \A j, k \in DOMAIN codes : j < k => codes[j].at >= codes[k].at

\* What resolve_unwind asks of the codes of one UNWIND_INFO.
Valid(u, chained) ==
    /\ \A k \in DOMAIN u.codes :
        LET c == u.codes[k] IN
        /\ c.at <= u.prolog
        /\ c.at > 0 \/ chained
        /\ c.op \in {"Push", "Save", "Frame"} => nonvolatile(c.reg)
    /\ Descending(u.codes)

\* Codes are listed from the end of a prologue.
Operations(u) == Reverse(u.codes)

\* The operations of each UNWIND_INFO of the chain, after those of the ones
\* it is chained to.
All(i) ==
    LET all[k \in DOMAIN i] ==
            IF k = Len(i) THEN Operations(i[k]) ELSE all[k + 1] \o Operations(i[k])
    IN  all

Inherited(i) == IF Len(i) = 1 THEN <<>> ELSE All(i)[2]

\* All of them, each with the offset from which it holds.
Ops(i) ==
    [k \in DOMAIN Inherited(i) |-> [Inherited(i)[k] EXCEPT !.at = 0]] \o Operations(i[1])

\* What compilers emit for the x64 ABI: an interrupt's frame comes first, and
\* the stack pointer is moved no more where registers are saved relative to it.
ASSUME ConventionAssumption == \A i \in Infos : \A k \in DOMAIN Ops(i) :
    /\ Ops(i)[k].op = "Machine" => k = 1
    /\ Ops(i)[k].op \in {"Push", "Alloc"} => \A j \in 1..k : Ops(i)[j].op # "Save"

---------------------------------------------------------------------------
(* Writing the instructions.                                               *)

Start == [out |-> <<>>, depth |-> 0, frame |-> FALSE, bias |-> 8, throws |-> FALSE]

CfaOffset(s, n) == IF s.frame THEN <<>> ELSE def_cfa_offset(n)

Push(s, op) ==
    LET d == s.depth + 8 IN
    [s EXCEPT !.depth = d,
              !.out = @ \o CfaOffset(s, d + s.bias)
                        \o emit_offset(register_map(op.reg), -(d + s.bias))]

Alloc(s, op) ==
    LET d == s.depth + op.n IN
    [s EXCEPT !.depth = d, !.out = @ \o CfaOffset(s, d + s.bias)]

\* (variant) The distance of the frame register from the stack pointer is lost.
FrameAtTheBottom(s, op) ==
    [s EXCEPT !.frame = TRUE, !.out = @ \o def_cfa(register_map(op.reg), s.depth + s.bias)]

Frame(s, op) ==
    IF s.depth + s.bias < op.n THEN [s EXCEPT !.throws = TRUE]
    ELSE [s EXCEPT !.frame = TRUE,
                   !.out = @ \o def_cfa(register_map(op.reg), s.depth + s.bias - op.n)]

Save(s, op) ==
    IF op.n % 8 # 0 THEN [s EXCEPT !.throws = TRUE]
    ELSE [s EXCEPT !.out = @ \o emit_offset(register_map(op.reg), op.n - (s.depth + s.bias))]

\* The processor's frame takes the place of a return address.
Machine(s, op) ==
    LET d == s.depth + op.n IN
    [s EXCEPT !.depth = d, !.bias = 0, !.out = @ \o CfaOffset(s, d) \o emit_offset(16, -40)]

apply_operation(s, op) ==
    IF s.throws THEN s
    ELSE CASE op.op = "Push"    -> Push(s, op)
           [] op.op = "Alloc"   -> Alloc(s, op)
           [] op.op = "Frame"   -> Frame(s, op)
           [] op.op = "Save"    -> Save(s, op)
           [] op.op = "Machine" -> Machine(s, op)

\* The state after each operation: what was inherited holds from the
\* beginning, an operation from its offset on.
Emitted(ops) ==
    LET advance(k) == append_advance(ops[k].at - IF k = 1 THEN 0 ELSE ops[k - 1].at)
        s[k \in 0..Len(ops)] ==
            IF k = 0 THEN Start
            ELSE apply_operation([s[k - 1] EXCEPT !.out = @ \o advance(k)], ops[k])
    IN  s

Description(i) == Emitted(Ops(i))[Len(Ops(i))]

\* Generating the sidecar throws; the DLL is loaded without one.
Rejected(i, l) ==
    \/ \E k \in DOMAIN i : ~Valid(i[k], k < Len(i))
    \/ \E k \in DOMAIN l.functions : i[1].prolog > l.functions[k].end - l.functions[k].begin
    \/ Description(i).throws

---------------------------------------------------------------------------
(* Where frame descriptions apply.                                         *)

Code(b, e, f) == [begin |-> b, end |-> e, function |-> f]

\* The code of a section up to and between its functions, and where the last
\* function ends.
Past(section, g, f) ==
    IF f.end <= g.position \/ f.begin >= section.end THEN g
    ELSE [position |-> f.end,
          gaps |-> IF f.begin > g.position
                   THEN g.gaps \cup {Code(g.position, f.begin, FALSE)} ELSE g.gaps]

Walk(section, functions) ==
    LET g[k \in 0..Len(functions)] ==
            IF k = 0 THEN [position |-> section.begin, gaps |-> {}]
            ELSE Past(section, g[k - 1], functions[k])
    IN  g

Walked(section, functions) == Walk(section, functions)[Len(functions)]

\* (variant) Code after the last function of a section has no description.
GapsBetween(section, functions) == Walked(section, functions).gaps

\* The code of a section outside the functions.
Gaps(section, functions) ==
    LET w == Walked(section, functions) IN
    w.gaps \cup IF w.position < section.end THEN {Code(w.position, section.end, FALSE)} ELSE {}

make_cfi_ranges(l) ==
    {Code(l.functions[k].begin, l.functions[k].end, TRUE) : k \in DOMAIN l.functions}
        \cup UNION {Gaps(section, l.functions) : section \in l.sections}

---------------------------------------------------------------------------
(* Reading the sidecar, as DWARF prescribes.                               *)

\* The numbers DWARF gives the registers of this architecture.
Dwarf == [rsp |-> 7, rbx |-> 3, rbp |-> 6, rsi |-> 4, rdi |-> 5, r12 |-> 12,
          xmm6 |-> 23, rip |-> 16]

\* The number that begins at b[k], and where the next one begins.
ReadLeb(b, k, signed) ==
    LET f[j \in 1..Len(b)] ==
            IF b[j] >= 128 /\ j < Len(b)
            THEN [n |-> b[j] - 128 + 128 * f[j + 1].n, next |-> f[j + 1].next]
            ELSE [n |-> IF signed /\ b[j] >= 64 THEN b[j] - 128 ELSE b[j], next |-> j + 1]
    IN  f[k]

ReadUleb(b, k) == ReadLeb(b, k, FALSE)
ReadSleb(b, k) == ReadLeb(b, k, TRUE)

\* A row: the register the CFA is found from, its distance, and where
\* registers are saved; it holds from offset loc on.  The common information
\* has CFA = rsp + 8, and the return address below it.
FirstRow == [k |-> 1, loc |-> 0, cfa |-> 7, off |-> 8, rules |-> {<<16, -8>>}]

\* The instruction at b[r.k], unless it is for offsets beyond pc.
NextRow(b, pc, r) ==
    LET first == ReadUleb(b, r.k + 1)
        advanced(delta, k) ==
            IF r.loc + delta > pc THEN r ELSE [r EXCEPT !.k = k, !.loc = @ + delta]
    IN  IF r.k > Len(b) THEN r
        ELSE CASE b[r.k] \in 65..127 -> advanced(b[r.k] - 64, r.k + 1)
               [] b[r.k] = 2  -> advanced(b[r.k + 1], r.k + 2)
               [] b[r.k] = 14 -> [r EXCEPT !.k = first.next, !.off = first.n]
               [] b[r.k] = 12 ->
                    LET second == ReadUleb(b, first.next) IN
                    [r EXCEPT !.k = second.next, !.cfa = first.n, !.off = second.n]
               [] b[r.k] = 17 ->
                    LET second == ReadSleb(b, first.next) IN
                    [r EXCEPT !.k = second.next,
                              !.rules = {u \in @ : u[1] # first.n} \cup {<<first.n, -8 * second.n>>}]

Rows(b, pc) ==
    LET row[j \in 0..Len(b)] == IF j = 0 THEN FirstRow ELSE NextRow(b, pc, row[j - 1])
    IN  row

\* The row that holds at the offset pc.
RowAt(b, pc) == Rows(b, pc)[Len(b)]

\* The last description of .eh_frame_hdr that begins no later, if it reaches so far.
Describing(l, pc) ==
    {r \in make_cfi_ranges(l) :
        /\ r.begin <= pc /\ pc < r.end
        /\ \A q \in make_cfi_ranges(l) : q.begin <= r.begin \/ q.begin > pc}

---------------------------------------------------------------------------
(* A thread that runs code of the DLL.                                     *)

\* The distance to the CFA after the instruction of one code.
Moved(n, op) ==
    CASE op.op = "Push"    -> n + 8
      [] op.op = "Alloc"   -> n + op.n
      [] op.op = "Machine" -> op.n
      [] OTHER             -> n

Distances(ops) ==
    LET d[k \in 0..Len(ops)] == IF k = 0 THEN 8 ELSE Moved(d[k - 1], ops[k]) IN d

\* That at the end of the prologue: saves count from there.
Base(ops) == Distances(ops)[Len(ops)]

\* What the instruction of one code does.
Does(m, op, base) ==
    CASE op.op = "Push"    -> [m EXCEPT !.sp = @ + 8, !.saved[op.reg] = -(m.sp + 8)]
      [] op.op = "Alloc"   -> [m EXCEPT !.sp = @ + op.n]
      [] op.op = "Frame"   -> [m EXCEPT !.fp = [reg |-> op.reg, n |-> m.sp - op.n]]
      [] op.op = "Save"    -> [m EXCEPT !.saved[op.reg] = op.n - base]
      [] op.op = "Machine" -> [m EXCEPT !.sp = op.n, !.saved["rip"] = -40]

\* The register still has the caller's value: no slot is so aligned.
Kept == 1

Called == [sp |-> 8, fp |-> [reg |-> "rsp", n |-> 0],
           saved |-> [r \in DOMAIN Dwarf \ {"rsp"} |-> IF r = "rip" THEN -8 ELSE Kept]]

\* The thread after each of the operations.
Executed(ops) ==
    LET m[k \in 0..Len(ops)] ==
            IF k = 0 THEN Called ELSE Does(m[k - 1], ops[k], Base(ops))
    IN  m

\* How many operations hold at the offset pc.
Reached(ops, pc) == Max({0} \cup {k \in DOMAIN ops : ops[k].at <= pc})

At(pc) == Executed(Ops(info))[Reached(Ops(info), pc)]

Becomes(m) == sp' = m.sp /\ fp' = m.fp /\ saved' = m.saved

UnwindInit ==
    /\ info \in Infos
    /\ layout \in Layouts
    /\ fn = Nowhere
    /\ at = 0
    /\ sp = Called.sp /\ fp = Called.fp /\ saved = Called.saved

\* The thread enters a function; in a part that is chained to another the
\* prologues of the chain have run.
Enter ==
    /\ fn = Nowhere
    /\ ~Rejected(info, layout)
    /\ \E k \in DOMAIN layout.functions :
        fn' = Code(layout.functions[k].begin, layout.functions[k].end, TRUE)
    /\ Becomes(At(0))
    /\ UNCHANGED <<info, layout, at>>

InFunction(pc) ==
    \E k \in DOMAIN layout.functions :
        layout.functions[k].begin <= pc /\ pc < layout.functions[k].end

\* Code that is in no function is a leaf's: it leaves the stack alone.
EnterLeaf ==
    /\ fn = Nowhere
    /\ ~Rejected(info, layout)
    /\ \E section \in layout.sections : \E pc \in section.begin..(section.end - 1) :
        ~InFunction(pc) /\ fn' = Code(pc, pc + 1, FALSE)
    /\ UNCHANGED <<info, layout, at, sp, fp, saved>>

Left == {k \in DOMAIN info[1].codes : info[1].codes[k].at > at}

\* One byte further in the prologue, past all the instructions that end there.
Prologue ==
    /\ fn # Nowhere /\ fn.function /\ Left # {}
    /\ at + 1 < fn.end - fn.begin
    /\ at' = at + 1
    /\ Becomes(At(at + 1))
    /\ UNCHANGED <<info, layout, fn>>

Inside == fn # Nowhere /\ fn.function /\ Left = {}

\* With a frame register the body may move the stack pointer.
Body ==
    /\ Inside
    /\ fp.reg # "rsp" /\ sp - Base(Ops(info)) < MaxMove
    /\ sp' = sp + 16
    /\ UNCHANGED <<info, layout, fn, at, fp, saved>>

\* The body's last instruction.
BodyEnds ==
    /\ Inside
    /\ at' = fn.end - fn.begin - 1
    /\ UNCHANGED <<info, layout, fn, sp, fp, saved>>

UnwindNext == Enter \/ EnterLeaf \/ Prologue \/ Body \/ BodyEnds

UnwindSpec == UnwindInit /\ [][UnwindNext]_unwind_vars

---------------------------------------------------------------------------
(* Properties.                                                             *)

Pc == fn.begin + at

\* A row finds the CFA from the stack pointer or from the frame register.
FindsCfa(row) ==
    \/ row.cfa = Dwarf["rsp"] /\ row.off = sp
    \/ fp.reg # "rsp" /\ row.cfa = Dwarf[fp.reg] /\ row.off = fp.n

FindsRegisters(row) ==
    row.rules = {<<Dwarf[reg], saved[reg]>> : reg \in {r \in DOMAIN saved : saved[r] # Kept}}

\* At every instruction of a function, before, in and after its prologue,
\* alone or chained to another, with the stack pointer where the body moved
\* it, the generated instructions find the caller's frame, the return address
\* and every register where the function saved it, and none it did not save
\* (apply_operation and its encodings, read back).
UnwindsAtEveryPc ==
    fn # Nowhere =>
        \A r \in Describing(layout, Pc) :
            LET row == RowAt(IF r.function THEN Description(info).out ELSE <<>>, Pc - r.begin)
            IN  FindsCfa(row) /\ FindsRegisters(row)

\* Every address a thread of the DLL can run at has one frame description,
\* the one of its function or, between functions, a leaf's (make_cfi_ranges):
\* a hole ends the walk of every stack that passes through it.
EveryPcHasItsDescription ==
    fn # Nowhere =>
        \E r \in Describing(layout, Pc) :
            /\ Describing(layout, Pc) = {r}
            /\ r.function = fn.function
            /\ fn.function => r.begin = fn.begin
=============================================================================

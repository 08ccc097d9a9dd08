------------------------------ MODULE MCUnwind ------------------------------
(* Prologues of every shape, alone and chained, in two layouts.            *)
EXTENDS Unwind
LOCAL INSTANCE SequencesExt

Op(op, reg, n, off) == [op |-> op, reg |-> reg, n |-> n, at |-> off]
Pushed(regs, off) == [k \in DOMAIN regs |-> Op("Push", regs[k], 0, off + 2 * k)]
If(b, op) == IF b THEN <<op>> ELSE <<>>

\* A prologue as it runs: pushes, an allocation, the frame register f bytes
\* above the stack pointer, and saves at the end.
Runs(regs, n, f, saves, off) ==
    LET o == off + 2 * Len(regs) IN
    Pushed(regs, off) \o If(n > 0, Op("Alloc", "none", n, o + 4))
        \o If(f >= 0, Op("Frame", "rbp", f, o + 9))
        \o [k \in DOMAIN saves |-> Op("Save", saves[k][1], saves[k][2], o + 9)]

Unit(ops) == [prolog |-> IF ops = <<>> THEN 0 ELSE ops[Len(ops)].at, codes |-> Reverse(ops)]

\* Saves in the frame, and in the caller's home area above it.
Homes(regs, n) == {<<>>, <<<<"rbx", 32>>, <<"xmm6", 16>>>>, <<<<"rbx", n + 8 * Len(regs) + 16>>>>}

MCPrologues ==
    UNION {{Runs(regs, n, f, saves, off) : saves \in Homes(regs, n)} :
        regs \in {<<>>, <<"rbp">>, <<"rdi", "rsi">>}, n \in {0, 40, 112, 504},
        f \in {-1, 0, 32}, off \in {0, 70}}

MCSound == {ops \in MCPrologues : \A k \in DOMAIN ops :
                ops[k].op = "Frame" => \E j \in DOMAIN ops : ops[j].op = "Alloc"}

\* Codes of a chained part hold from its first instruction on, or later.
MCChained ==
    {<<Unit(ops), Unit(Runs(<<"rbp">>, n, f, <<>>, 0))>> :
        ops \in {<<>>, <<Op("Save", "rbx", 24, 0)>>, <<Op("Save", "rsi", 48, 5)>>},
        n \in {40, 504}, f \in {-1, 32}}
    \cup {<<Unit(<<Op("Push", "r12", 0, 3)>>), Unit(<<Op("Push", "rdi", 0, 2)>>),
            Unit(<<Op("Push", "rbx", 0, 1)>>)>>}

MCMachine == {<<Unit(<<Op("Machine", "none", n, 0), Op("Push", "rbx", 0, 1)>>), Unit(<<>>)>> :
                n \in {40, 48}}

MCBroken ==
    {<<Unit(<<Op("Push", "rcx", 0, 1)>>)>>, <<Unit(<<Op("Push", "rbx", 0, 0)>>)>>,
     <<[prolog |-> 1, codes |-> <<Op("Push", "rbx", 0, 2)>>]>>,
     <<Unit(<<Op("Alloc", "none", 8, 4), Op("Frame", "rbp", 32, 8)>>)>>,
     <<Unit(<<Op("Alloc", "none", 40, 4), Op("Save", "rbx", 4, 8)>>)>>}

MCInfos == {<<Unit(ops)>> : ops \in MCSound} \cup MCChained \cup MCMachine \cup MCBroken

Section(b, e) == [begin |-> b, end |-> e]

MCLayouts ==
    {[sections |-> {Section(10, 310)},
      functions |-> <<Section(12, 110), Section(110, 205), Section(206, 309)>>],
     [sections |-> {Section(10, 101), Section(120, 215)},
      functions |-> <<Section(10, 101), Section(120, 213)>>],
     [sections |-> {Section(10, 60)}, functions |-> <<Section(12, 50)>>]}
=============================================================================

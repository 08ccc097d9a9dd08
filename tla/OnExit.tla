------------------------------- MODULE OnExit -------------------------------
(***************************************************************************)
(* The CRT's onexit tables as src/src/winlibs.cpp implements them          *)
(* (_register_onexit_function, _execute_onexit_table, _crt_atexit, _cexit  *)
(* and the drain at the host's exit).  Every step between two releases of  *)
(* g_onexit_mutex is one action; callbacks run without the mutex, and may  *)
(* register functions and execute tables themselves.                       *)
(***************************************************************************)
EXTENDS Naturals, FiniteSets, SequencesExt

CONSTANTS
    Threads, Tables, Functions,
    Process,        \* g_process_onexit
    Nests,          \* <<a, b>>: a function of table a may execute table b
    MaxExecutes     \* bound: calls of _execute_onexit_table

ASSUME TablesAssumption ==
    /\ Process \in Tables
    /\ Nests \subseteq Tables \X Tables
    /\ MaxExecutes \in Nat

VARIABLES
    table,      \* the functions in each table, the oldest first
    executing,  \* g_executing_onexit_tables
    stack,      \* each thread's calls of _execute_onexit_table, innermost last
    pc, want,   \* where the thread is; the table it waits to execute
    drainer,    \* drain_process_onexit as an exit handler of the host
    executes,   \* counter of the bound
    order,      \* (history) <<table, function>> by time of registration
    ran         \* (history) <<table, function>> by time of execution

vars == <<table, executing, stack, pc, want, drainer, executes, order, ran>>

Places == {"out", "enter", "drain", "callback", "leave"}

Init ==
    /\ table = [x \in Tables |-> <<>>]
    /\ executing = {}
    /\ stack = [t \in Threads |-> <<>>]
    /\ pc = [t \in Threads |-> "out"]
    /\ want = [t \in Threads |-> Process]
    /\ drainer = "none"
    /\ executes = 0
    /\ order = <<>>
    /\ ran = <<>>

Goto(t, place) == pc' = [pc EXCEPT ![t] = place]

\* g_executing_onexit_table is the innermost table t executes.
Innermost(t, x) == stack[t] # <<>> /\ Last(stack[t]) = x

\* (variant) The host's exit is not asked to drain the process table.
RegisterNoDrainer(t, x, f) ==
    /\ pc[t] \in {"out", "callback"}
    /\ \A y \in Tables : ~Contains(order, <<y, f>>)
    /\ table' = [table EXCEPT ![x] = Append(@, f)]
    /\ order' = Append(order, <<x, f>>)
    /\ UNCHANGED <<executing, stack, pc, want, drainer, executes, ran>>

\* The first function of the process table registers the host's drain.
Register(t, x, f) ==
    /\ pc[t] \in {"out", "callback"}
    /\ \A y \in Tables : ~Contains(order, <<y, f>>)
    /\ table' = [table EXCEPT ![x] = Append(@, f)]
    /\ order' = Append(order, <<x, f>>)
    /\ drainer' = IF x = Process /\ drainer = "none" THEN "set" ELSE drainer
    /\ UNCHANGED <<executing, stack, pc, want, executes, ran>>

\* (variant) A thread waits for an execution of its own.
ExecuteAgain(t, x) ==
    /\ executes < MaxExecutes
    /\ \/ pc[t] = "out"
       \/ pc[t] = "callback" /\ <<Last(stack[t]), x>> \in Nests
    /\ executes' = executes + 1
    /\ want' = [want EXCEPT ![t] = x]
    /\ Goto(t, "enter")
    /\ UNCHANGED <<table, executing, stack, drainer, order, ran>>

\* A thread that is already executing the table returns at once.
Execute(t, x) ==
    /\ executes < MaxExecutes
    /\ \/ pc[t] = "out"
       \/ pc[t] = "callback" /\ <<Last(stack[t]), x>> \in Nests
    /\ ~Innermost(t, x)
    /\ executes' = executes + 1
    /\ want' = [want EXCEPT ![t] = x]
    /\ Goto(t, "enter")
    /\ UNCHANGED <<table, executing, stack, drainer, order, ran>>

\* The host's exit, once, runs the drain if it was registered.
HostExit(t) ==
    /\ pc[t] = "out" /\ drainer = "set"
    /\ drainer' = "run"
    /\ want' = [want EXCEPT ![t] = Process]
    /\ Goto(t, "enter")
    /\ UNCHANGED <<table, executing, stack, executes, order, ran>>

\* g_onexit_condition.wait: until nobody executes the table.
Enter(t) ==
    /\ pc[t] = "enter"
    /\ want[t] \notin executing
    /\ executing' = executing \cup {want[t]}
    /\ stack' = [stack EXCEPT ![t] = Append(@, want[t])]
    /\ Goto(t, "drain")
    /\ UNCHANGED <<table, want, drainer, executes, order, ran>>

\* (variants) The oldest function runs first; the function that runs stays in
\* the table.
PopOldest(t) ==
    LET x == Last(stack[t]) IN
    /\ pc[t] = "drain"
    /\ IF table[x] # <<>>
       THEN /\ table' = [table EXCEPT ![x] = Tail(@)]
            /\ ran' = Append(ran, <<x, Head(table[x])>>)
            /\ Goto(t, "callback")
       ELSE /\ Goto(t, "leave")
            /\ UNCHANGED <<table, ran>>
    /\ UNCHANGED <<executing, stack, want, drainer, executes, order>>

PopKeeps(t) ==
    LET x == Last(stack[t]) IN
    /\ pc[t] = "drain"
    /\ IF table[x] # <<>> /\ Len(ran) < Cardinality(Functions) + 1
       THEN /\ ran' = Append(ran, <<x, Last(table[x])>>)
            /\ Goto(t, "callback")
       ELSE /\ Goto(t, "leave")
            /\ UNCHANGED ran
    /\ UNCHANGED <<table, executing, stack, want, drainer, executes, order>>

\* The newest function is taken out, then called without the mutex; an empty
\* table is freed.
Pop(t) ==
    LET x == Last(stack[t]) IN
    /\ pc[t] = "drain"
    /\ IF table[x] # <<>>
       THEN /\ table' = [table EXCEPT ![x] = Front(@)]
            /\ ran' = Append(ran, <<x, Last(table[x])>>)
            /\ Goto(t, "callback")
       ELSE /\ Goto(t, "leave")
            /\ UNCHANGED <<table, ran>>
    /\ UNCHANGED <<executing, stack, want, drainer, executes, order>>

CallbackReturns(t) ==
    /\ pc[t] = "callback"
    /\ Goto(t, "drain")
    /\ UNCHANGED <<table, executing, stack, want, drainer, executes, order,
                   ran>>

\* The previous table is the innermost one again and the waiters are told.
Leave(t) ==
    /\ pc[t] = "leave"
    /\ executing' = executing \ {Last(stack[t])}
    /\ stack' = [stack EXCEPT ![t] = Front(@)]
    /\ Goto(t, IF Len(stack[t]) = 1 THEN "out" ELSE "callback")
    /\ UNCHANGED <<table, want, drainer, executes, order, ran>>

-----------------------------------------------------------------------------

Progress(t) == Enter(t) \/ Pop(t) \/ CallbackReturns(t) \/ Leave(t)

Choice(t) ==
    \/ HostExit(t)
    \/ \E x \in Tables : Execute(t, x) \/ \E f \in Functions : Register(t, x, f)

Next == \E t \in Threads : Progress(t) \/ Choice(t)

Spec == Init /\ [][Next]_vars

\* Threads are scheduled, callbacks return and the host exits.
FairSpec ==
    /\ Spec
    /\ \A t \in Threads : WF_vars(Progress(t))
    /\ WF_vars(\E t \in Threads : HostExit(t))

-----------------------------------------------------------------------------

TypeOK ==
    /\ table \in [Tables -> Seq(Functions)]
    /\ executing \in SUBSET Tables
    /\ stack \in [Threads -> Seq(Tables)]
    /\ pc \in [Threads -> Places]
    /\ \A t \in Threads :
          pc[t] \in {"drain", "callback", "leave"} => stack[t] # <<>>
    /\ want \in [Threads -> Tables]
    /\ drainer \in {"none", "set", "run"}
    /\ executes \in Nat
    /\ order \in Seq(Tables \X Functions)
    /\ ran \in Seq(Tables \X Functions)

Frames == UNION {{t} \X DOMAIN stack[t] : t \in Threads}
TableOf(frame) == stack[frame[1]][frame[2]]

\* A table is executed by one call at a time, of whatever thread and however
\* deep: when _execute_onexit_table returns, no function of the table runs.
OneExecutionPerTable ==
    /\ \A a, b \in Frames : TableOf(a) = TableOf(b) => a = b
    /\ executing = {TableOf(a) : a \in Frames}

\* A registered function is in its table or has run, once, whoever drained
\* and whichever functions registered others.
EachRunsOnce ==
    /\ IsInjective(ran)
    /\ \A i \in DOMAIN order :
          Contains(ran, order[i]) <=> ~Contains(table[order[i][1]], order[i][2])

\* A function runs only after every function registered later in its table,
\* those registered while the table was being executed among them.
NewestFirst ==
    [][\A i, j \in DOMAIN order :
          /\ ran' = Append(ran, order[i])
          /\ i < j /\ order[i][1] = order[j][1]
          => Contains(ran, order[j])]_vars

\* A call of _execute_onexit_table returns.
EveryExecutionReturns ==
    \A t \in Threads : pc[t] # "out" ~> pc[t] = "out"

\* The process's functions run at the host's exit at the latest, although PE
\* code may never call _cexit.
ProcessFunctionsRun ==
    \A f \in Functions :
        Contains(table[Process], f) /\ drainer # "run" ~>
            Contains(ran, <<Process, f>>)

\* "Draining twice is safe": a thread that drains a table it is draining
\* already does not wait for itself.
DrainingTwiceIsSafe ==
    \A t \in Threads : pc[t] = "enter" => ~Contains(stack[t], want[t])

=============================================================================

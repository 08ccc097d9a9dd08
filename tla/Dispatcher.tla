----------------------------- MODULE Dispatcher -----------------------------
(***************************************************************************)
(* What a Windows program expects of the objects it waits for: each has a  *)
(* level, a wait that succeeds found it above zero at one instant and took *)
(* from it in that instant, a wait that failed took nothing.               *)
(***************************************************************************)
EXTENDS Naturals, FiniteSets

CONSTANTS
    Threads, Objects, NoObject,
    Most,     \* signals one call may give
    Lasting,  \* manual-reset events and threads: waits take nothing
    Binary,   \* events and threads: at most one signal is remembered
    Exact     \* objects whose level a time-out compares at its last instant

VARIABLES
    level,    \* signals to be had
    waiting,  \* the object a thread waits for
    got       \* how its wait ended

dvars == <<level, waiting, got>>

DInit ==
    /\ level \in [Objects -> Nat]
    /\ waiting = [t \in Threads |-> NoObject]
    /\ got = [t \in Threads |-> "none"]

Begin(t, o) ==
    /\ waiting[t] = NoObject
    /\ got[t] = "none"
    /\ waiting' = [waiting EXCEPT ![t] = o]
    /\ UNCHANGED <<level, got>>

\* The caller has the outcome; it may go on to wait for another object.
Collect(t, next) ==
    /\ got[t] # "none"
    /\ got' = [got EXCEPT ![t] = "none"]
    /\ waiting' = [waiting EXCEPT ![t] = next]
    /\ UNCHANGED level

\* The threads S stop waiting, each with the outcome r.
EndWaits(S, r) ==
    /\ waiting' = [t \in Threads |-> IF t \in S THEN NoObject ELSE waiting[t]]
    /\ got' = [t \in Threads |-> IF t \in S THEN r ELSE got[t]]

Acquire(t, o) ==
    /\ waiting[t] = o
    /\ level[o] > 0
    /\ level' = [level EXCEPT ![o] = IF o \in Lasting THEN @ ELSE @ - 1]
    /\ EndWaits({t}, "ok")

Expire(t, o) ==
    /\ waiting[t] = o
    /\ o \in Exact => level[o] = 0
    /\ EndWaits({t}, "timeout")
    /\ UNCHANGED level

\* n signals, which the threads S take at once; what is left is remembered.
Signal(o, n, S) ==
    /\ \A t \in S : waiting[t] = o
    /\ o \notin Lasting => Cardinality(S) <= n
    /\ level' = [level EXCEPT ![o] =
                    IF o \in Lasting THEN 1
                    ELSE IF o \notin Binary THEN @ + n - Cardinality(S)
                    ELSE IF S = {} THEN 1 ELSE @]
    /\ EndWaits(S, "ok")

Clear(o) ==
    /\ o \in Binary
    /\ level' = [level EXCEPT ![o] = 0]
    /\ UNCHANGED <<waiting, got>>

DNext ==
    \/ \E t \in Threads, o \in Objects : Begin(t, o) \/ Acquire(t, o) \/ Expire(t, o)
    \/ \E t \in Threads, next \in Objects \cup {NoObject} : Collect(t, next)
    \/ \E o \in Objects, n \in 1..Most, S \in SUBSET Threads : Signal(o, n, S)
    \/ \E o \in Objects : Clear(o)

DSpec == DInit /\ [][DNext]_dvars
=============================================================================

------------------------------ MODULE Monitor -------------------------------
(***************************************************************************)
(* What the C++ runtime expects of std::mutex and std::condition_variable: *)
(* one holder at a time, a recursion depth, waiting gives the mutex up and *)
(* takes it back at the same depth, and a notification is remembered for   *)
(* whoever was waiting.  A wait may also end for no reason.                *)
(***************************************************************************)
EXTENDS Naturals

CONSTANTS Threads, NoThread, Recursive

VARIABLES
    holder,  \* the thread inside the mutex
    depth,   \* how many times it locked it
    parked,  \* the depth to return to of a waiting thread; 0: not waiting
    told     \* the waiting threads a notification was for

mvars == <<holder, depth, parked, told>>

MInit ==
    /\ holder = NoThread
    /\ depth = 0
    /\ parked = [t \in Threads |-> 0]
    /\ told = {}

Enter(t) ==
    /\ holder = NoThread /\ parked[t] = 0
    /\ holder' = t
    /\ depth' = 1
    /\ UNCHANGED <<parked, told>>

EnterAgain(t) ==
    /\ Recursive
    /\ holder = t
    /\ depth' = depth + 1
    /\ UNCHANGED <<holder, parked, told>>

Leave(t) ==
    /\ holder = t
    /\ depth' = depth - 1
    /\ holder' = IF depth = 1 THEN NoThread ELSE t
    /\ UNCHANGED <<parked, told>>

Wait(t) ==
    /\ holder = t
    /\ parked' = [parked EXCEPT ![t] = depth]
    /\ holder' = NoThread
    /\ depth' = 0
    /\ UNCHANGED told

NotifyAll ==
    /\ told' = {t \in Threads : parked[t] > 0}
    /\ UNCHANGED <<holder, depth, parked>>

Resume(t) ==
    /\ holder = NoThread /\ parked[t] > 0
    /\ holder' = t
    /\ depth' = parked[t]
    /\ parked' = [parked EXCEPT ![t] = 0]
    /\ told' = told \ {t}

MNext ==
    \/ NotifyAll
    \/ \E t \in Threads :
          Enter(t) \/ EnterAgain(t) \/ Leave(t) \/ Wait(t) \/ Resume(t)

MSpec == MInit /\ [][MNext]_mvars

=============================================================================

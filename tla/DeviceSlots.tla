------------------------------ MODULE DeviceSlots ------------------------------
(***************************************************************************)
(* What the automation scheduler promises its devices, whatever else goes  *)
(* wrong: a device is held by one run at most; it is seen free before      *)
(* another run takes it, so that it is never handed over directly; and a   *)
(* command goes out to no device that a run holds.                         *)
(***************************************************************************)
EXTENDS Integers

CONSTANTS
    Devices,
    Runs,
    DevOf   \* the device of each run

VARIABLES
    holding,  \* the runs that hold each device
    jobs      \* how many executions of each run are under way

slotVars == <<holding, jobs>>

SlotInit ==
    /\ holding = [d \in Devices |-> {}]
    /\ jobs = [r \in Runs |-> 0]

\* A command for a run that may take its device.
Order(r) ==
    /\ holding[DevOf[r]] = {}
    /\ jobs' = [jobs EXCEPT ![r] = @ + 1]
    /\ UNCHANGED holding

End(r) ==
    /\ jobs[r] > 0
    /\ jobs' = [jobs EXCEPT ![r] = @ - 1]
    /\ UNCHANGED holding

\* Runs of different devices, all of them free, take them together.
Take(S) ==
    /\ \A r \in S : holding[DevOf[r]] = {}
    /\ \A q, r \in S : DevOf[q] = DevOf[r] => q = r
    /\ holding' = [d \in Devices |-> holding[d] \cup {r \in S : DevOf[r] = d}]
    /\ UNCHANGED jobs

Release(S) ==
    /\ holding' = [d \in Devices |-> holding[d] \ S]
    /\ UNCHANGED jobs

SlotNext ==
    \/ \E r \in Runs : Order(r) \/ End(r)
    \/ \E S \in SUBSET Runs : Take(S) \/ Release(S)

SlotSpec == SlotInit /\ [][SlotNext]_slotVars
================================================================================

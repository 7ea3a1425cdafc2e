---------------------- MODULE AutomationScheduler_proof ----------------------
(***************************************************************************)
(* The scheduler, for any number of runs, devices and restarts, and every  *)
(* interleaving with the REST endpoints and the result handler.  Types;    *)
(* no device ever has two committed running runs and no run is sent twice  *)
(* between two starts or rollbacks, whatever fails; while the database     *)
(* works, no running run is forgotten, and outcomes stay; and the          *)
(* scheduler implements DeviceSlots.                                       *)
(***************************************************************************)
EXTENDS AutomationScheduler, TLAPS

-----------------------------------------------------------------------------
(* TypeOK *)

\* The initial state of the scheduler has the declared types.
LEMMA InitTypeOK == Init => TypeOK
BY ConstantsAssumption DEF Init, TypeOK, Status, Finished, Idle, None, NoRun

\* Every transaction the scheduler applies leaves statuses.
LEMMA AppliedType ==
    ASSUME status \in [Runs -> Status],
           NEW w \in [Runs -> {None, "queued", "running", "timeout"}]
    PROVE  Applied(w) \in [Runs -> Status]
BY DEF Applied, Status, Finished, None

\* Every step of the scheduler, the endpoints and the agents preserves types.
LEMMA NextTypeOK == TypeOK /\ [Next]_vars => TypeOK'
<1> SUFFICES ASSUME TypeOK, [Next]_vars PROVE TypeOK'
    OBVIOUS
<1> USE ConstantsAssumption
<1> DEFINE Writes == [Runs -> {None, "queued", "running", "timeout"}]
<1>0. NoWrites \in Writes /\ Idle \in [at : {"idle", "popped", "loaded"},
          run : Runs \cup {NoRun}, ok : BOOLEAN, loaded : Status]
      /\ Idle.at = "idle"
    BY DEF NoWrites, Idle, Status, None, NoRun
<1>1. CASE Dispatch
    <2>1. CASE ReadBusy
        BY <2>1 DEF TypeOK, ReadBusy, env, Committed
    <2>2. CASE ReadQueued
        BY <2>2 DEF TypeOK, ReadQueued, env, Committed, FirstOf
    <2>3. CASE MarkRunning
        BY <2>3 DEF TypeOK, MarkRunning, env, Candidates
    <2>4. CASE Send
        BY <2>4 DEF TypeOK, Send
    <2>5. CASE SendFail
        BY <2>5 DEF TypeOK, SendFail
    <2>6. CASE Track
        BY <2>6 DEF TypeOK, Track, env
    <2>7. CASE CommitDispatch
        BY <2>7, <1>0, AppliedType DEF TypeOK, CommitDispatch, env
    <2>8. CASE DispatchError
        BY <2>8, <1>0 DEF TypeOK, DispatchError, Fault, CanFault, env
    <2> QED BY <1>1, <2>1, <2>2, <2>3, <2>4, <2>5, <2>6, <2>7, <2>8 DEF Dispatch
<1>2. CASE Sweep
    <2>0. Flushed \in Writes
        BY DEF TypeOK, Flushed
    <2>1. CASE SweepStart
        BY <2>1 DEF TypeOK, SweepStart, StaleRuns, env
    <2>2. ASSUME NEW r \in Runs, SweepRun(r) PROVE TypeOK'
        BY <2>0, <2>2 DEF TypeOK, SweepRun, env
    <2>3. CASE CommitSweep
        BY <2>0, <2>3, <1>0, AppliedType DEF TypeOK, CommitSweep, env
    <2>4. CASE SweepError
        <3>1. inFlight' \in [Runs -> {"no", "fresh", "stale"}]
            BY <2>4 DEF TypeOK, SweepError
        <3> QED BY <2>4, <3>1, <1>0 DEF TypeOK, SweepError, Fault, CanFault, env
    <2> QED BY <1>2, <2>1, <2>2, <2>3, <2>4 DEF Sweep
<1>3. CASE Result
    <2> DEFINE Event == [run : Runs, ok : BOOLEAN]
               Handler == [at : {"idle", "popped", "loaded"},
                           run : Runs \cup {NoRun}, ok : BOOLEAN, loaded : Status]
    <2>1. CASE TakeResult
        <3>1. bus \in Seq(Event) /\ bus # <<>>
            BY <2>1 DEF TypeOK, TakeResult
        <3>2. Head(bus) \in Event /\ Tail(bus) \in Seq(Event)
            <4> HIDE DEF Event
            <4> QED BY <3>1
        <3>3. bus' \in Seq(Event)
            BY <2>1, <3>2 DEF TakeResult
        <3>4. res' \in Handler /\ (res'.at # "idle" => res'.run \in Runs) /\ inFlight' \in [Runs -> {"no", "fresh", "stale"}]
            <4>1. CASE inFlight[Head(bus).run] = "no"
                BY <2>1, <4>1 DEF TypeOK, TakeResult
            <4>2. CASE inFlight[Head(bus).run] # "no"
                <5>1. res' = [at |-> "popped", run |-> Head(bus).run,
                              ok |-> Head(bus).ok, loaded |-> None]
                      /\ inFlight' = [inFlight EXCEPT ![Head(bus).run] = "no"]
                    BY <2>1, <4>2 DEF TakeResult
                <5> QED BY <3>2, <5>1 DEF TypeOK, Status
            <4> QED BY <4>1, <4>2
        <3> QED BY <2>1, <3>3, <3>4 DEF TypeOK, TakeResult, sched, env
    <2>2. CASE LoadRun
        <3>1. res.run \in Runs /\ status[res.run] \in Status
            BY <2>2 DEF TypeOK, LoadRun
        <3>3. res' \in Handler /\ res'.run \in Runs
            BY <2>2, <3>1 DEF TypeOK, LoadRun
        <3> QED BY <2>2, <3>3 DEF TypeOK, LoadRun, sched, env
    <2>3. CASE StoreResult
        <3>1. Outcome \in Status
            BY DEF Outcome, Status, Finished
        <3>2. status' \in [Runs -> Status]
            BY <2>3, <3>1 DEF TypeOK, StoreResult
        <3> QED BY <2>3, <3>2, <1>0 DEF TypeOK, StoreResult, sched, env
    <2>4. CASE ResultError
        BY <2>4, <1>0 DEF TypeOK, ResultError, Fault, CanFault, sched, env
    <2> QED BY <1>3, <2>1, <2>2, <2>3, <2>4 DEF Result
<1>4. CASE Api
    <2>1. CASE QueueRun
        <3>1. status' \in [Runs -> Status]
            BY <2>1 DEF TypeOK, QueueRun, Status
        <3>2. queuedRuns' \in 0..NumRuns
            BY <2>1 DEF TypeOK, QueueRun
        <3>3. UNCHANGED <<tx, pc, busy, todo, cur, done, inFlight, res, bus,
                          cancels, connected, jobs, sent, faults, crashes>>
            BY <2>1 DEF QueueRun, sched, env
        <3> QED BY <3>1, <3>2, <3>3 DEF TypeOK
    <2>2. ASSUME NEW r \in Runs, CancelCheck(r) PROVE TypeOK'
        BY <2>2 DEF TypeOK, CancelCheck, sched, env
    <2>3. ASSUME NEW r \in Runs, CancelStore(r) PROVE TypeOK'
        BY <2>3 DEF TypeOK, CancelStore, sched, env, Status
    <2>4. ASSUME NEW r \in Runs, CancelError(r) PROVE TypeOK'
        BY <2>4 DEF TypeOK, CancelError, Fault, CanFault, sched, env
    <2> QED BY <1>4, <2>1, <2>2, <2>3, <2>4 DEF Api
<1>5. CASE Agents
    <2>1. ASSUME NEW d \in Devices, Connect(d) \/ Disconnect(d) PROVE TypeOK'
        BY <2>1 DEF TypeOK, Connect, Disconnect, sched
    <2>2. ASSUME NEW r \in Runs, NEW ok \in BOOLEAN, AgentResult(r, ok)
          PROVE  TypeOK'
        <3>1. bus' \in Seq([run : Runs, ok : BOOLEAN])
            BY <2>2 DEF TypeOK, AgentResult
        <3> QED BY <2>2, <3>1 DEF TypeOK, AgentResult, sched
    <2>3. ASSUME NEW r \in Runs, AgentSilent(r) PROVE TypeOK'
        BY <2>3 DEF TypeOK, AgentSilent, sched
    <2> QED BY <1>5, <2>1, <2>2, <2>3 DEF Agents
<1>6. CASE Crash
    <2>1. <<>> \in Seq([run : Runs, ok : BOOLEAN])
        OBVIOUS
    <2> QED BY <1>6, <1>0, <2>1 DEF TypeOK, Crash
<1>7. CASE Start
    <2>1. Requeued \in [Runs -> Status]
        BY DEF TypeOK, Requeued, Status
    <2> QED BY <1>7, <2>1 DEF TypeOK, Start, Fault, CanFault, env
<1>8. ASSUME NEW r \in Runs, Expire(r) PROVE TypeOK'
    BY <1>8 DEF TypeOK, Expire, sched, env
<1>9. CASE UNCHANGED vars
    BY <1>9 DEF TypeOK, vars, sched, env
<1> QED BY <1>1, <1>2, <1>3, <1>4, <1>5, <1>6, <1>7, <1>8, <1>9 DEF Next

\* The variables of the scheduler always have their declared types.
THEOREM TypeCorrect == Spec => []TypeOK
BY InitTypeOK, NextTypeOK, PTL DEF Spec

-----------------------------------------------------------------------------
(* OneRunningPerDevice.  The committed rows alone do not carry the          *)
(* invariant: what a tick may commit depends on what it read before.        *)

Reading == pc \in {"busyRead", "loop", "sending", "sent"}
Looping == pc \in {"loop", "sending", "sent"}

\* busy_serials stays good after it was read: nobody else sets a run running.
BusyIsCurrent == Reading => \A r \in Runs : status[r] = "running" => DevOf[r] \in busy

\* The run being sent is the only one of its device in this tick.
CurrentIsAlone ==
    pc \in {"sending", "sent"} => DevOf[cur] \notin busy /\ DevOf[cur] \notin done

\* The runs the transaction has set running are those it has sent and the
\* current one, one a device, all of them of devices that were free.
WritesOne ==
    /\ \A r \in Runs : tx[r] = "running" =>
          /\ Looping
          /\ DevOf[r] \notin busy
          /\ DevOf[r] \in done \/ (pc # "loop" /\ r = cur)
    /\ \A q, r \in Runs :
          tx[q] = "running" /\ tx[r] = "running" /\ DevOf[q] = DevOf[r] => q = r

IInv == TypeOK /\ OneRunningPerDevice /\ BusyIsCurrent /\ CurrentIsAlone /\ WritesOne

\* Nothing but the commit of a tick creates running runs, and a smaller set of
\* them is as good.
LEMMA FewerRunning ==
    ASSUME IInv, UNCHANGED <<pc, busy, done, cur, tx>>, TypeOK',
           \A r \in Runs : status'[r] = "running" => status[r] = "running"
    PROVE  IInv'
BY DEF IInv, OneRunningPerDevice, BusyIsCurrent, CurrentIsAlone, WritesOne,
       Reading, Looping

\* Outside the dispatch loop, with no writes of "running", only the committed
\* rows matter.
LEMMA NoLoop ==
    ASSUME IInv, TypeOK', ~Reading', \A r \in Runs : tx'[r] # "running",
           OneRunningPerDevice'
    PROVE  IInv'
BY DEF IInv, BusyIsCurrent, CurrentIsAlone, WritesOne, Reading, Looping

LEMMA InitIInv == Init => IInv
<1> SUFFICES ASSUME Init PROVE IInv
    OBVIOUS
<1> QED BY InitTypeOK DEF Init, IInv, OneRunningPerDevice, BusyIsCurrent,
           CurrentIsAlone, WritesOne, Reading, Looping, None

LEMMA NextIInv == IInv /\ [Next]_vars => IInv'
<1> SUFFICES ASSUME IInv, [Next]_vars PROVE IInv'
    OBVIOUS
<1>0. TypeOK /\ TypeOK'
    BY NextTypeOK DEF IInv
<1> USE <1>0, ConstantsAssumption
<1>1. CASE Dispatch
    <2>1. CASE ReadBusy
        BY <2>1 DEF IInv, TypeOK, ReadBusy, Committed, OneRunningPerDevice,
                    BusyIsCurrent, CurrentIsAlone, WritesOne, Reading, Looping
    <2>2. CASE ReadQueued
        <3>1. \A r \in Runs : tx[r] # "running"
            BY <2>2 DEF IInv, ReadQueued, WritesOne, Looping
        <3> QED BY <2>2, <3>1 DEF IInv, ReadQueued, OneRunningPerDevice,
                    BusyIsCurrent, CurrentIsAlone, WritesOne, Reading, Looping
    <2>3. CASE MarkRunning
        <3>1. PICK r \in Runs : /\ Eligible(r)
                                /\ cur' = r
                                /\ tx' = [tx EXCEPT ![r] = "running"]
            BY <2>3 DEF MarkRunning, Candidates, TypeOK
        <3>2. UNCHANGED <<status, busy, done>> /\ pc = "loop" /\ pc' = "sending"
            BY <2>3 DEF MarkRunning
        <3>3. \A q \in Runs \ {r} : tx'[q] = tx[q] /\ tx'[r] = "running"
            BY <3>1 DEF TypeOK
        <3>4. \A q \in Runs : tx[q] = "running" => DevOf[q] \in done
            BY <3>2 DEF IInv, WritesOne
        <3>5. WritesOne'
            BY <3>1, <3>2, <3>3, <3>4 DEF IInv, WritesOne, Eligible, Looping
        <3> QED BY <3>1, <3>2, <3>5 DEF IInv, OneRunningPerDevice,
                    BusyIsCurrent, CurrentIsAlone, Reading, Eligible
    <2>4. CASE Send
        BY <2>4 DEF IInv, Send, OneRunningPerDevice, BusyIsCurrent,
                    CurrentIsAlone, WritesOne, Reading, Looping
    <2>5. CASE SendFail
        <3>1. \A r \in Runs : tx'[r] = "running" => tx[r] = "running" /\ r # cur
            BY <2>5 DEF SendFail, TypeOK
        <3> QED BY <2>5, <3>1 DEF IInv, SendFail, OneRunningPerDevice,
                    BusyIsCurrent, CurrentIsAlone, WritesOne, Reading, Looping
    <2>6. CASE Track
        BY <2>6 DEF IInv, Track, OneRunningPerDevice, BusyIsCurrent,
                    CurrentIsAlone, WritesOne, Reading, Looping
    <2>7. CASE CommitDispatch
        <3>1. \A r \in Runs : status'[r] = "running" =>
                  tx[r] = "running" \/ status[r] = "running"
            BY <2>7 DEF CommitDispatch, Applied, None
        <3>2. OneRunningPerDevice'
            BY <2>7, <3>1 DEF CommitDispatch, IInv, OneRunningPerDevice,
                              BusyIsCurrent, WritesOne, Reading
        <3> QED BY <2>7, <3>2, NoLoop DEF CommitDispatch, NoWrites, Reading, None
    <2>8. CASE DispatchError
        <3>1. OneRunningPerDevice'
            BY <2>8 DEF DispatchError, IInv, OneRunningPerDevice
        <3> QED BY <2>8, <3>1, NoLoop DEF DispatchError, NoWrites, Reading, None
    <2> QED BY <1>1, <2>1, <2>2, <2>3, <2>4, <2>5, <2>6, <2>7, <2>8 DEF Dispatch
<1>2. CASE Sweep
    <2>0. pc \in {"sweep", "sweepLoop"} =>
              \A r \in Runs : tx[r] # "running" /\ Flushed[r] # "running"
        BY DEF IInv, TypeOK, WritesOne, Looping, Flushed
    <2>1. CASE SweepStart
        <3>1. OneRunningPerDevice'
            BY <2>1 DEF SweepStart, IInv, OneRunningPerDevice
        <3> QED BY <2>0, <2>1, <3>1, NoLoop DEF SweepStart, Reading
    <2>2. ASSUME NEW r \in Runs, SweepRun(r) PROVE IInv'
        <3>1. OneRunningPerDevice'
            BY <2>2 DEF SweepRun, IInv, OneRunningPerDevice
        <3> QED BY <2>0, <2>2, <3>1, NoLoop DEF SweepRun, Reading
    <2>3. CASE CommitSweep
        <3>1. \A r \in Runs : status'[r] = "running" => status[r] = "running"
            BY <2>0, <2>3 DEF CommitSweep, Applied
        <3>2. OneRunningPerDevice'
            BY <3>1 DEF IInv, OneRunningPerDevice
        <3> QED BY <2>3, <3>2, NoLoop DEF CommitSweep, NoWrites, Reading, None
    <2>4. CASE SweepError
        <3>1. OneRunningPerDevice'
            BY <2>4 DEF SweepError, IInv, OneRunningPerDevice
        <3> QED BY <2>4, <3>1, NoLoop DEF SweepError, NoWrites, Reading, None
    <2> QED BY <1>2, <2>1, <2>2, <2>3, <2>4 DEF Sweep
<1>3. CASE Result
    <2>1. CASE TakeResult \/ LoadRun \/ ResultError
        BY <2>1, FewerRunning DEF TakeResult, LoadRun, ResultError, sched
    <2>2. CASE StoreResult
        <3>1. \A r \in Runs : status'[r] = "running" => status[r] = "running"
            BY <2>2 DEF StoreResult, Outcome, TypeOK
        <3> QED BY <2>2, <3>1, FewerRunning DEF StoreResult, sched
    <2> QED BY <1>3, <2>1, <2>2 DEF Result
<1>4. CASE Api
    <2>1. CASE QueueRun
        <3>1. \A r \in Runs : status'[r] = "running" => status[r] = "running"
            BY <2>1 DEF QueueRun, TypeOK
        <3> QED BY <2>1, <3>1, FewerRunning DEF QueueRun, sched
    <2>2. ASSUME NEW r \in Runs, CancelCheck(r) \/ CancelError(r) PROVE IInv'
        BY <2>2, FewerRunning DEF CancelCheck, CancelError, sched
    <2>3. ASSUME NEW r \in Runs, CancelStore(r) PROVE IInv'
        <3>1. \A q \in Runs : status'[q] = "running" => status[q] = "running"
            BY <2>3 DEF CancelStore, TypeOK
        <3> QED BY <2>3, <3>1, FewerRunning DEF CancelStore, sched
    <2> QED BY <1>4, <2>1, <2>2, <2>3 DEF Api
<1>5. CASE Agents
    BY <1>5, FewerRunning DEF Agents, Connect, Disconnect, AgentResult,
                              AgentSilent, sched
<1>6. CASE Crash
    <2>1. OneRunningPerDevice'
        BY <1>6 DEF Crash, IInv, OneRunningPerDevice
    <2> QED BY <1>6, <2>1, NoLoop DEF Crash, NoWrites, Reading, None
<1>7. CASE Start
    <2>1. \A r \in Runs : status'[r] = "running" => status[r] = "running"
        BY <1>7 DEF Start, Requeued, TypeOK
    <2>2. \A r \in Runs : tx'[r] # "running"
        BY <1>7 DEF Start, IInv, WritesOne, Looping
    <2>3. OneRunningPerDevice'
        BY <2>1 DEF IInv, OneRunningPerDevice
    <2> QED BY <1>7, <2>2, <2>3, NoLoop DEF Start, Reading
<1>8. ASSUME NEW r \in Runs, Expire(r) PROVE IInv'
    BY <1>8, FewerRunning DEF Expire, sched
<1>9. CASE UNCHANGED vars
    BY <1>9, FewerRunning DEF vars, sched
<1> QED BY <1>1, <1>2, <1>3, <1>4, <1>5, <1>6, <1>7, <1>8, <1>9 DEF Next

\* No two committed runs of one device are ever running together.
THEOREM OneRunning == Spec => []OneRunningPerDevice
<1>1. IInv => OneRunningPerDevice
    BY DEF IInv
<1> QED BY InitIInv, NextIInv, <1>1, PTL DEF Spec

-----------------------------------------------------------------------------
(* What a run has behind it and what can still touch it.  These two parts   *)
(* hold whatever fails: they follow the transaction and the queue counter.  *)

\* The loop variable and the kinds of writes belong to the phase they are made
\* in: a tick starts with an empty transaction.
Phases ==
    /\ cur # NoRun => pc \in {"sending", "sent", "sweepLoop"}
    /\ \A r \in Runs : /\ tx[r] \in {"running", "queued"} => Looping
                       /\ tx[r] = "timeout" => pc = "sweepLoop"

\* A run that was not queued yet appears nowhere.
UnqueuedUntouched ==
    \A r \in Runs : r > queuedRuns =>
        status[r] = None /\ ~PickedUp(r) /\ r \notin cancels

LEMMA InitPhases == Init => Phases /\ UnqueuedUntouched
BY DEF Init, Phases, UnqueuedUntouched, PickedUp, Idle, None, NoRun, Runs

LEMMA NextPhases == TypeOK /\ Phases /\ [Next]_vars => Phases'
<1> SUFFICES ASSUME TypeOK, Phases, [Next]_vars PROVE Phases'
    OBVIOUS
<1> USE DEF Phases, Looping
<1>0. \A r \in Runs : NoWrites[r] = None
    BY DEF NoWrites
<1>1. CASE Dispatch
    <2>1. CASE ReadBusy
        BY <2>1 DEF ReadBusy
    <2>2. CASE ReadQueued
        BY <2>2 DEF ReadQueued
    <2>3. CASE MarkRunning
        BY <2>3 DEF MarkRunning, TypeOK
    <2>4. CASE Send
        BY <2>4 DEF Send
    <2>5. CASE SendFail
        BY <2>5 DEF SendFail, TypeOK
    <2>6. CASE Track
        BY <2>6 DEF Track
    <2>7. CASE CommitDispatch \/ DispatchError
        BY <1>0, <2>7 DEF CommitDispatch, DispatchError, None
    <2> QED BY <1>1, <2>1, <2>2, <2>3, <2>4, <2>5, <2>6, <2>7 DEF Dispatch
<1>2. CASE Sweep
    <2>1. CASE SweepStart
        BY <2>1 DEF SweepStart
    <2>2. ASSUME NEW r \in Runs, SweepRun(r) PROVE Phases'
        BY <2>2 DEF SweepRun, Flushed, TypeOK
    <2>3. CASE CommitSweep \/ SweepError
        BY <1>0, <2>3 DEF CommitSweep, SweepError, None
    <2> QED BY <1>2, <2>1, <2>2, <2>3 DEF Sweep
<1>3. CASE Crash
    BY <1>0, <1>3 DEF Crash, None
<1>4. CASE Start
    BY <1>4 DEF Start
<1>5. CASE UNCHANGED sched
    BY <1>5 DEF sched
<1>6. CASE Result \/ Api \/ Agents \/ (\E r \in Runs : Expire(r)) \/ UNCHANGED vars
    <2>1. UNCHANGED sched
        BY <1>6 DEF Result, TakeResult, LoadRun, StoreResult, ResultError, Api,
                    QueueRun, CancelCheck, CancelStore, CancelError, Agents,
                    Connect, Disconnect, AgentResult, AgentSilent, Expire, vars
    <2> QED BY <1>5, <2>1
<1> QED BY <1>1, <1>2, <1>3, <1>4, <1>6 DEF Next

LEMMA NextUnqueued ==
    TypeOK /\ Phases /\ UnqueuedUntouched /\ [Next]_vars => UnqueuedUntouched'
<1> SUFFICES ASSUME TypeOK, Phases, UnqueuedUntouched, [Next]_vars
             PROVE  UnqueuedUntouched'
    OBVIOUS
<1> USE ConstantsAssumption DEF UnqueuedUntouched, PickedUp
<1>0. /\ queuedRuns \in Nat /\ \A r \in Runs : r \in Nat /\ NoWrites[r] = None
      /\ Idle.run \notin Runs /\ NoRun \notin Runs
    BY DEF TypeOK, NoWrites, Idle, NoRun, Runs
<1> USE <1>0
<1>1. CASE Dispatch
    <2>1. CASE ReadBusy \/ Send \/ Track
        BY <2>1 DEF ReadBusy, Send, Track, TypeOK, env
    <2>2. CASE ReadQueued
        BY <2>2 DEF ReadQueued, FirstOf, Committed, None, env
    <2>3. CASE MarkRunning
        BY <2>3 DEF MarkRunning, Candidates, TypeOK, env
    <2>4. CASE SendFail
        BY <2>4 DEF SendFail, TypeOK
    <2>5. CASE CommitDispatch \/ DispatchError
        BY <2>5 DEF CommitDispatch, DispatchError, Applied, env
    <2> QED BY <1>1, <2>1, <2>2, <2>3, <2>4, <2>5 DEF Dispatch
<1>2. CASE Sweep
    <2>1. CASE SweepStart
        BY <2>1 DEF SweepStart, StaleRuns, env
    <2>2. ASSUME NEW r \in Runs, SweepRun(r) PROVE UnqueuedUntouched'
        BY <2>2 DEF SweepRun, Flushed, TypeOK, env
    <2>3. CASE CommitSweep
        BY <2>3 DEF CommitSweep, Applied, Flushed, TypeOK, env
    <2>4. CASE SweepError
        BY <2>4 DEF SweepError, TypeOK, env
    <2> QED BY <1>2, <2>1, <2>2, <2>3, <2>4 DEF Sweep
<1>3. CASE Result
    <2>1. CASE TakeResult
        <3>1. \A r \in Runs : inFlight[r] = "no" => inFlight'[r] = "no"
            BY <2>1 DEF TakeResult, TypeOK
        <3>2. res' = res \/ inFlight[res'.run] # "no"
            BY <2>1 DEF TakeResult
        <3> QED BY <2>1, <3>1, <3>2 DEF TakeResult, sched, env
    <2>2. CASE LoadRun
        <3>1. res'.run = res.run
            BY <2>2 DEF LoadRun, TypeOK
        <3> QED BY <2>2, <3>1 DEF LoadRun, sched, env
    <2>3. CASE StoreResult \/ ResultError
        BY <2>3 DEF StoreResult, ResultError, TypeOK, sched, env
    <2> QED BY <1>3, <2>1, <2>2, <2>3 DEF Result
<1>4. CASE Api
    <2>1. CASE QueueRun
        BY <2>1 DEF QueueRun, TypeOK, sched, env
    <2>2. ASSUME NEW r \in Runs, CancelCheck(r) \/ CancelStore(r) \/ CancelError(r)
          PROVE  UnqueuedUntouched'
        BY <2>2 DEF CancelCheck, CancelStore, CancelError, TypeOK, None, sched, env
    <2> QED BY <1>4, <2>1, <2>2 DEF Api
<1>5. CASE Agents \/ UNCHANGED vars
    BY <1>5 DEF Agents, Connect, Disconnect, AgentResult, AgentSilent, sched, vars
<1>6. CASE Crash \/ Start
    BY <1>6 DEF Crash, Start, Requeued, None, env
<1>7. ASSUME NEW r \in Runs, Expire(r) PROVE UnqueuedUntouched'
    BY <1>7 DEF Expire, TypeOK, sched, env
<1> QED BY <1>1, <1>2, <1>3, <1>4, <1>5, <1>6, <1>7 DEF Next

-----------------------------------------------------------------------------
(* The life of a run while the database works.  Each part is about one run. *)

Handled(r) == res.at # "idle" /\ res.run = r
Watched(r) == inFlight[r] # "no" \/ Handled(r)
AtSend(r) == pc \in {"sending", "sent"} /\ cur = r
AtSweep(r) == pc = "sweepLoop" /\ cur = r
Waiting(r) == status[r] \in {"queued", "cancelled"}

\* What the loop has still to reach was queued when it was read; no result of
\* it can be taken, and only a cancel can have changed it.
TodoIsWaiting(r) ==
    Looping /\ r \in todo => Waiting(r) /\ tx[r] = None /\ ~Watched(r)

\* So is the run being sent, which the open transaction has marked.
SendingIsNew(r) == AtSend(r) => tx[r] = "running" /\ ~Watched(r)

\* The transaction of a dispatch has written waiting runs only: it has sent
\* and tracked those it marked, and put the others back.
WritesWaiting(r) ==
    /\ tx[r] \in {"running", "queued"} => Waiting(r)
    /\ tx[r] = "queued" => ~Watched(r)
    /\ tx[r] = "running" => Watched(r) \/ AtSend(r)

\* A run is queued and in flight only before its dispatch commits, and its
\* result then waits for the row.
QueuedUnwatched(r) == status[r] = "queued" /\ Watched(r) => tx[r] = "running"

\* The sweep times out what was running.
SweptWasRunning(r) ==
    tx[r] = "timeout" \/ AtSweep(r) =>
        status[r] \in Finished \cup {"running", "cancelled"}

\* A handler that loaded an outcome is late for a run that is over.
LoadedIsOver(r) ==
    res.at = "loaded" /\ res.run = r /\ res.loaded \in Finished =>
        /\ status[r] \in Finished \cup {"cancelled"}
        /\ tx[r] \notin {"running", "queued"}

\* A process that is down holds nothing.
DownForgets(r) == pc = "down" => ~Watched(r)

\* RunningIsWatched, of one run.
RunWatched(r) ==
    Up /\ status[r] = "running" =>
        Watched(r) \/ tx[r] = "timeout" \/ AtSweep(r)

Life(r) ==
    /\ TodoIsWaiting(r) /\ SendingIsNew(r) /\ WritesWaiting(r)
    /\ QueuedUnwatched(r) /\ SweptWasRunning(r) /\ LoadedIsOver(r)
    /\ DownForgets(r) /\ RunWatched(r)

LifeInv == faults = 0 => \A r \in Runs : Life(r)

LInv == TypeOK /\ Phases /\ UnqueuedUntouched /\ LifeInv

LEMMA InitLife == Init => LifeInv
BY DEF Init, LifeInv, Life, TodoIsWaiting, SendingIsNew, WritesWaiting, QueuedUnwatched,
       SweptWasRunning, LoadedIsOver, DownForgets, RunWatched, Handled, Watched,
       AtSend, AtSweep, Waiting, Looping, Idle, None, Finished

\* A step that leaves the scheduler where it is and does not touch a run in the
\* database, in memory or in a handler preserves what is known of it.
LEMMA LifeFrame ==
    ASSUME NEW r \in Runs, Life(r), UNCHANGED <<pc, cur>>,
           r \in todo' => r \in todo,
           status'[r] = status[r], tx'[r] = tx[r],
           inFlight'[r] = "no" <=> inFlight[r] = "no",
           res' = res \/ (~Handled(r) /\ ~Handled(r)')
    PROVE  Life(r)'
BY DEF Life, TodoIsWaiting, SendingIsNew, WritesWaiting, QueuedUnwatched,
       SweptWasRunning, LoadedIsOver, DownForgets, RunWatched, Handled, Watched,
       AtSend, AtSweep, Waiting, Looping, Up, Committed

\* A step either fails or leaves the count of failures alone.
LEMMA FaultSteps == [Next]_vars => UNCHANGED faults \/ Fault
<1> SUFFICES ASSUME [Next]_vars PROVE UNCHANGED faults \/ Fault
    OBVIOUS
<1>1. CASE Dispatch
    BY <1>1 DEF Dispatch, ReadBusy, ReadQueued, MarkRunning, Send, SendFail, Track,
                CommitDispatch, DispatchError
<1>2. CASE Sweep
    BY <1>2 DEF Sweep, SweepStart, SweepRun, CommitSweep, SweepError
<1>3. CASE Result
    BY <1>3 DEF Result, TakeResult, LoadRun, StoreResult, ResultError
<1>4. CASE Api
    BY <1>4 DEF Api, QueueRun, CancelCheck, CancelStore, CancelError
<1>5. CASE Agents
    BY <1>5 DEF Agents, Connect, Disconnect, AgentResult, AgentSilent
<1>6. CASE Crash \/ Start \/ (\E r \in Runs : Expire(r)) \/ UNCHANGED vars
    BY <1>6 DEF Crash, Start, Expire, vars
<1> QED BY <1>1, <1>2, <1>3, <1>4, <1>5, <1>6 DEF Next

LEMMA NextLife == LInv /\ TypeOK' /\ [Next]_vars => LifeInv'
<1> SUFFICES ASSUME LInv, TypeOK', [Next]_vars, faults' = 0, NEW r \in Runs
             PROVE  Life(r)'
    BY DEF LifeInv
<1>0. /\ TypeOK /\ Phases /\ UnqueuedUntouched
      /\ ~Fault /\ \A q \in Runs : Life(q)
    <2>1. faults \in Nat
        BY DEF LInv, TypeOK
    <2>2. ~Fault /\ faults = 0
        BY <2>1, FaultSteps DEF Fault
    <2> QED BY <2>2 DEF LInv, LifeInv
<1>1. Life(r) /\ NoRun \notin Runs /\ NoWrites[r] = None
    BY <1>0 DEF NoRun, NoWrites, Runs
<1> USE <1>0, <1>1
    DEF TodoIsWaiting, SendingIsNew, WritesWaiting, QueuedUnwatched,
        SweptWasRunning, LoadedIsOver, DownForgets, RunWatched, Life, Handled,
        Watched, AtSend, AtSweep, Waiting, Looping, Up, Phases
<1>2. CASE Dispatch
    <2>1. CASE ReadBusy
        BY <2>1 DEF ReadBusy, env
    <2>2. CASE ReadQueued
        <3>1. tx[r] = None
            BY <2>2 DEF ReadQueued, TypeOK
        <3>2. r \in todo' => status[r] = "queued"
            BY <2>2 DEF ReadQueued, FirstOf, Committed
        <3> QED BY <2>2, <3>1, <3>2 DEF ReadQueued, None
    <2>3. CASE MarkRunning
        <3>1. PICK q \in todo : /\ cur' = q /\ todo' = {p \in todo : Before(q, p)}
                                /\ tx' = [tx EXCEPT ![q] = "running"]
            BY <2>3 DEF MarkRunning, Candidates
        <3>2. q \notin todo' /\ todo' \subseteq todo /\ q \in Runs
            BY <3>1, ConstantsAssumption DEF Before, TypeOK, Runs
        <3>3. tx'[r] = IF r = q THEN "running" ELSE tx[r]
            BY <3>1 DEF TypeOK
        <3>4. UNCHANGED <<status, inFlight, res>> /\ pc = "loop" /\ pc' = "sending"
            BY <2>3 DEF MarkRunning
        <3> QED BY <3>1, <3>2, <3>3, <3>4
    <2>4. CASE Send
        BY <2>4 DEF Send, TypeOK
    <2>5. CASE SendFail
        <3>1. tx'[r] = IF r = cur THEN "queued" ELSE tx[r]
            BY <2>5 DEF SendFail, TypeOK
        <3> QED BY <2>5, <3>1 DEF SendFail, TypeOK, None
    <2>6. CASE Track
        <3>1. inFlight'[r] = IF r = cur THEN "fresh" ELSE inFlight[r]
            BY <2>6 DEF Track, TypeOK
        <3> QED BY <2>6, <3>1 DEF Track, TypeOK, None
    <2>7. CASE CommitDispatch
        <3>1. status'[r] = IF tx[r] = None THEN status[r] ELSE tx[r]
            BY <2>7 DEF CommitDispatch, Applied
        <3> QED BY <2>7, <3>1 DEF CommitDispatch, TypeOK, None, Finished
    <2>8. ~DispatchError
        BY DEF DispatchError
    <2> QED BY <1>2, <2>1, <2>2, <2>3, <2>4, <2>5, <2>6, <2>7, <2>8 DEF Dispatch
<1>3. CASE Sweep
    <2>1. CASE SweepStart
        BY <2>1 DEF SweepStart
    <2>2. ASSUME NEW q \in Runs, SweepRun(q) PROVE Life(r)'
        <3>1. /\ inFlight'[r] = IF r = q THEN "no" ELSE inFlight[r]
              /\ tx'[r] = IF r = cur THEN "timeout" ELSE tx[r]
              /\ status[r] = "running" /\ r = q => cur' = r
              /\ cur' = r => status[r] = "running"
              /\ pc = "sweepLoop" /\ UNCHANGED <<status, pc, res>>
            BY <2>2 DEF SweepRun, Flushed, TypeOK
        <3>2. tx[r] \notin {"running", "queued"}
            BY <3>1
        <3> QED BY <3>1, <3>2
    <2>3. CASE CommitSweep
        <3>1. status'[r] = IF r = cur THEN "timeout"
                           ELSE IF tx[r] = None THEN status[r] ELSE tx[r]
            BY <2>3 DEF CommitSweep, Applied, Flushed, TypeOK, None
        <3>2. tx[r] \in {None, "timeout"} /\ tx'[r] = None /\ pc' = "idle"
              /\ UNCHANGED <<inFlight, res>> /\ pc = "sweepLoop"
            BY <2>3 DEF CommitSweep, TypeOK
        <3> QED BY <3>1, <3>2 DEF None, Finished
    <2>4. ~SweepError
        BY DEF SweepError
    <2> QED BY <1>3, <2>1, <2>2, <2>3, <2>4 DEF Sweep
<1>4. CASE Result
    <2>1. CASE TakeResult
        <3>1. /\ UNCHANGED <<status, pc, cur, todo, tx>>
              /\ res.at = "idle"
              /\ \/ UNCHANGED <<inFlight, res>>
                 \/ /\ inFlight'[r] = IF r = res'.run THEN "no" ELSE inFlight[r]
                    /\ res'.at = "popped" /\ inFlight[res'.run] # "no"
            <4>1. UNCHANGED <<status, pc, cur, todo, tx>> /\ res.at = "idle"
                BY <2>1 DEF TakeResult, sched
            <4>2. CASE inFlight[Head(bus).run] = "no"
                BY <2>1, <4>1, <4>2 DEF TakeResult
            <4>3. CASE inFlight[Head(bus).run] # "no"
                <5>1. /\ res' = [at |-> "popped", run |-> Head(bus).run,
                                ok |-> Head(bus).ok, loaded |-> None]
                      /\ inFlight' = [inFlight EXCEPT ![Head(bus).run] = "no"]
                    BY <2>1, <4>3 DEF TakeResult
                <5>2. inFlight \in [Runs -> {"no", "fresh", "stale"}]
                    BY DEF TypeOK
                <5> QED BY <4>1, <4>3, <5>1, <5>2
            <4> QED BY <4>2, <4>3
        <3>2. CASE UNCHANGED <<inFlight, res>>
            BY <3>1, <3>2, LifeFrame
        <3>3. CASE res'.at = "popped" /\ res'.run # r /\ inFlight'[r] = inFlight[r]
            BY <3>1, <3>3, LifeFrame
        <3>4. CASE /\ res'.at = "popped" /\ res'.run = r
                   /\ inFlight[r] # "no" /\ inFlight'[r] = "no"
            BY <3>1, <3>4
        <3> QED BY <3>1, <3>2, <3>3, <3>4
    <2>2. CASE LoadRun
        <3>1. /\ UNCHANGED <<status, pc, cur, todo, tx, inFlight>>
              /\ res.at = "popped" /\ res'.at = "loaded" /\ res'.run = res.run
              /\ res'.loaded = status[res.run]
            BY <2>2 DEF LoadRun, TypeOK, sched
        <3> QED BY <3>1 DEF Finished
    <2>3. CASE StoreResult
        <3>1. /\ UNCHANGED <<pc, cur, todo, tx, inFlight>>
              /\ res.at = "loaded" /\ tx[res.run] = None /\ res'.at = "idle"
              /\ res'.run = NoRun /\ Outcome \in Finished
              /\ status'[r] = IF r = res.run /\ res.loaded # Outcome THEN Outcome
                              ELSE status[r]
            BY <2>3 DEF StoreResult, TypeOK, Locked, Outcome, Finished, Idle, sched
        <3> QED BY <3>1 DEF Finished, None
    <2>4. ~ResultError
        BY DEF ResultError
    <2> QED BY <1>4, <2>1, <2>2, <2>3, <2>4 DEF Result
<1>5. CASE Api
    <2>1. CASE QueueRun
        <3>1. /\ UNCHANGED <<pc, cur, todo, tx, inFlight, res>>
              /\ status'[r] = IF r = queuedRuns + 1 THEN "queued" ELSE status[r]
            BY <2>1 DEF QueueRun, TypeOK, sched
        <3>2. r = queuedRuns + 1 => ~PickedUp(r)
            <4>1. queuedRuns \in Nat
                BY ConstantsAssumption DEF TypeOK
            <4> QED BY <4>1 DEF UnqueuedUntouched
        <3> QED BY <3>1, <3>2 DEF PickedUp, None
    <2>2. ASSUME NEW q \in Runs, CancelCheck(q) \/ CancelError(q) PROVE Life(r)'
        BY <2>2, LifeFrame DEF CancelCheck, CancelError, sched
    <2>3. ASSUME NEW q \in Runs, CancelStore(q) PROVE Life(r)'
        <3>1. /\ UNCHANGED <<pc, cur, todo, tx, inFlight, res>> /\ tx[q] = None
              /\ status'[r] = IF r = q THEN "cancelled" ELSE status[r]
            BY <2>3 DEF CancelStore, TypeOK, Locked, sched
        <3> QED BY <3>1 DEF None
    <2> QED BY <1>5, <2>1, <2>2, <2>3 DEF Api
<1>6. CASE Agents \/ UNCHANGED vars
    <2>1. UNCHANGED <<status, sched, inFlight, res>>
        BY <1>6 DEF Agents, Connect, Disconnect, AgentResult, AgentSilent, vars
    <2> QED BY <2>1, LifeFrame DEF sched
<1>7. CASE Crash
    BY <1>7 DEF Crash, Idle, None
<1>8. CASE Start
    <2>1. status'[r] = IF status[r] = "running" THEN "queued" ELSE status[r]
        BY <1>8 DEF Start, Requeued
    <2>2. tx[r] = None
        BY <1>8 DEF Start, TypeOK
    <2> QED BY <1>8, <2>1, <2>2 DEF Start, None
<1>9. ASSUME NEW q \in Runs, Expire(q) PROVE Life(r)'
    <2>1. inFlight'[r] = "no" <=> inFlight[r] = "no"
        BY <1>9 DEF Expire, TypeOK
    <2> QED BY <1>9, <2>1, LifeFrame DEF Expire, sched
<1> QED BY <1>2, <1>3, <1>4, <1>5, <1>6, <1>7, <1>8, <1>9 DEF Next

LEMMA NextLInv == LInv /\ [Next]_vars => LInv'
BY NextTypeOK, NextPhases, NextUnqueued, NextLife DEF LInv

\* While the database works, every committed running run has somebody who will
\* end it: its entry in flight, its result handler or the sweep that popped it.
THEOREM RunningWatched == Spec => []RunningIsWatched
<1>1. Init => LInv
    BY InitTypeOK, InitPhases, InitLife DEF LInv
<1>2. LInv => RunningIsWatched
    BY DEF LInv, LifeInv, Life, RunWatched, RunningIsWatched, Watched, Handled,
           AtSweep, Committed
<1> QED BY <1>1, <1>2, NextLInv, PTL DEF Spec

-----------------------------------------------------------------------------
(* NotSentTwice: a send needs a run of which no command is out, whatever    *)
(* has failed before; only a restart and the rollback of the very tick that *)
(* sent it give a run back to the dispatcher.                               *)

MaySend(r) ==
    \/ pc = "down"
    \/ status[r] \in {None, "queued"} /\ tx[r] # "running"
    \/ Looping /\ r \in todo
    \/ pc = "sending" /\ cur = r
    \/ tx[r] = "queued"

\* The run being sent is marked, and the loop will not come back to it.
SendingIsMarked == pc = "sending" => tx[cur] = "running" /\ cur \notin todo

SentOnce(r) == sent[r] <= 1 /\ (MaySend(r) => sent[r] = 0)

SentInv ==
    /\ TypeOK /\ Phases /\ UnqueuedUntouched /\ SendingIsMarked
    /\ \A r \in Runs : SentOnce(r)

LEMMA NextSendingIsMarked == TypeOK /\ SendingIsMarked /\ [Next]_vars => SendingIsMarked'
<1> SUFFICES ASSUME TypeOK, SendingIsMarked, [Next]_vars PROVE SendingIsMarked'
    OBVIOUS
<1> USE DEF SendingIsMarked
<1>1. CASE MarkRunning
    <2>1. PICK q \in todo : /\ cur' = q /\ todo' = {p \in todo : Before(q, p)}
                            /\ tx' = [tx EXCEPT ![q] = "running"]
        BY <1>1 DEF MarkRunning, Candidates
    <2>2. q \in Runs /\ q \notin todo'
        BY <2>1, ConstantsAssumption DEF Before, TypeOK, Runs
    <2> QED BY <2>1, <2>2 DEF TypeOK
<1>2. CASE UNCHANGED sched
    BY <1>2 DEF sched
<1>3. CASE Result \/ Api \/ Agents \/ (\E r \in Runs : Expire(r)) \/ UNCHANGED vars
    <2>1. UNCHANGED sched
        BY <1>3 DEF Result, TakeResult, LoadRun, StoreResult, ResultError, Api,
                    QueueRun, CancelCheck, CancelStore, CancelError, Agents,
                    Connect, Disconnect, AgentResult, AgentSilent, Expire, vars
    <2> QED BY <1>2, <2>1
<1>4. CASE (Dispatch /\ ~MarkRunning) \/ Sweep \/ Crash \/ Start
    <2>1. pc' # "sending"
        BY <1>4 DEF Dispatch, ReadBusy, ReadQueued, Send, SendFail, Track,
                    CommitDispatch, DispatchError, Sweep, SweepStart, SweepRun,
                    CommitSweep, SweepError, Crash, Start
    <2> QED BY <2>1
<1> QED BY <1>1, <1>3, <1>4 DEF Next

\* The steps that matter are the send, the rollback and the crash; any other step
\* makes no run sendable that was not, and sends nothing.
LEMMA SendableStep ==
    ASSUME TypeOK, Phases, UnqueuedUntouched, [Next]_vars, NEW r \in Runs,
           ~Send, ~DispatchError, ~Crash
    PROVE  (MaySend(r)' => MaySend(r)) /\ sent'[r] = sent[r]
<1>0. NoRun \notin Runs /\ NoWrites[r] = None
    BY DEF NoRun, NoWrites, Runs
<1> USE <1>0 DEF MaySend, Looping, Phases
<1>1. CASE Dispatch
    <2>1. CASE ReadBusy
        BY <2>1 DEF ReadBusy, env
    <2>2. CASE ReadQueued
        BY <2>2 DEF ReadQueued, FirstOf, Committed, TypeOK, env
    <2>3. CASE MarkRunning
        <3>1. PICK q \in todo : /\ cur' = q /\ todo' \subseteq todo
                                /\ tx' = [tx EXCEPT ![q] = "running"]
            BY <2>3 DEF MarkRunning, Candidates
        <3>2. tx'[r] = IF r = q THEN "running" ELSE tx[r]
            BY <3>1 DEF TypeOK
        <3> QED BY <2>3, <3>1, <3>2 DEF MarkRunning, env
    <2>4. CASE SendFail
        <3>1. tx'[r] = IF r = cur THEN "queued" ELSE tx[r]
            BY <2>4 DEF SendFail, TypeOK
        <3> QED BY <2>4, <3>1 DEF SendFail
    <2>5. CASE Track
        BY <2>5 DEF Track, env
    <2>6. CASE CommitDispatch
        <3>1. status'[r] = IF tx[r] = None THEN status[r] ELSE tx[r]
            BY <2>6 DEF CommitDispatch, Applied
        <3> QED BY <2>6, <3>1 DEF CommitDispatch, TypeOK, None, env
    <2> QED BY <1>1, <2>1, <2>2, <2>3, <2>4, <2>5, <2>6 DEF Dispatch
<1>2. CASE Sweep
    <2>1. CASE SweepStart
        BY <2>1 DEF SweepStart, env
    <2>2. ASSUME NEW q \in Runs, SweepRun(q)
          PROVE  (MaySend(r)' => MaySend(r)) /\ UNCHANGED sent
        <3>1. /\ tx'[r] = tx[r] \/ tx'[r] = "timeout"
              /\ pc = "sweepLoop" /\ UNCHANGED <<status, pc, sent>>
            BY <2>2 DEF SweepRun, Flushed, TypeOK, env
        <3> QED BY <3>1
    <2>3. CASE CommitSweep
        <3>1. status'[r] = "timeout" \/ (tx[r] = None /\ status'[r] = status[r])
            BY <2>3 DEF CommitSweep, Applied, Flushed, TypeOK, None
        <3>2. /\ tx'[r] = None /\ pc' = "idle" /\ pc = "sweepLoop" /\ UNCHANGED sent
            BY <2>3 DEF CommitSweep, env
        <3> QED BY <3>1, <3>2 DEF None
    <2>4. CASE SweepError
        BY <2>4 DEF SweepError, None, env
    <2> QED BY <1>2, <2>1, <2>2, <2>3, <2>4 DEF Sweep
<1>3. CASE Result
    <2>1. UNCHANGED <<sched, sent>>
        BY <1>3 DEF Result, TakeResult, LoadRun, StoreResult, ResultError, env
    <2>2. status'[r] = status[r] \/ status'[r] \in {"passed", "failed"}
        BY <1>3 DEF Result, TakeResult, LoadRun, StoreResult, ResultError, TypeOK,
                    Outcome
    <2> QED BY <2>1, <2>2 DEF sched, None
<1>4. CASE Api
    <2>1. CASE QueueRun
        <3>1. /\ UNCHANGED <<pc, cur, todo, tx, sent>>
              /\ status'[r] = IF r = queuedRuns + 1 THEN "queued" ELSE status[r]
            BY <2>1 DEF QueueRun, TypeOK, sched, env
        <3>2. r = queuedRuns + 1 => status[r] = None /\ ~PickedUp(r)
            <4>1. queuedRuns \in Nat
                BY ConstantsAssumption DEF TypeOK
            <4> QED BY <4>1 DEF UnqueuedUntouched
        <3> QED BY <3>1, <3>2 DEF PickedUp, None
    <2>2. ASSUME NEW q \in Runs, CancelCheck(q) \/ CancelStore(q) \/ CancelError(q)
          PROVE  (MaySend(r)' => MaySend(r)) /\ UNCHANGED sent
        <3>1. UNCHANGED <<sched, sent>>
            BY <2>2 DEF CancelCheck, CancelStore, CancelError, env
        <3>2. status'[r] = status[r] \/ status'[r] = "cancelled"
            BY <2>2 DEF CancelCheck, CancelStore, CancelError, TypeOK
        <3> QED BY <3>1, <3>2 DEF sched, None
    <2> QED BY <1>4, <2>1, <2>2 DEF Api
<1>5. CASE Agents
    <2>1. UNCHANGED <<status, sched, sent>>
        BY <1>5 DEF Agents, Connect, Disconnect, AgentResult, AgentSilent
    <2> QED BY <2>1 DEF sched
<1>6. CASE Start
    BY <1>6 DEF Start, env
<1>7. CASE (\E q \in Runs : Expire(q)) \/ UNCHANGED vars
    BY <1>7 DEF Expire, vars, sched, env
<1> QED BY <1>1, <1>2, <1>3, <1>4, <1>5, <1>6, <1>7 DEF Next

LEMMA NextSent == SentInv /\ [Next]_vars => SentInv'
<1> SUFFICES ASSUME SentInv, [Next]_vars PROVE SentInv'
    OBVIOUS
<1>0. /\ TypeOK /\ Phases /\ UnqueuedUntouched /\ SendingIsMarked
      /\ \A r \in Runs : SentOnce(r)
    BY DEF SentInv
<1>1. TypeOK' /\ Phases' /\ UnqueuedUntouched' /\ SendingIsMarked'
    BY <1>0, NextTypeOK, NextPhases, NextUnqueued, NextSendingIsMarked
<1>2. ASSUME NEW r \in Runs PROVE SentOnce(r)'
    <2>0. sent[r] \in Nat /\ SentOnce(r)
        BY <1>0 DEF TypeOK
    <2>1. CASE Send
        <3>1. /\ sent'[r] = IF r = cur THEN sent[r] + 1 ELSE sent[r]
              /\ pc = "sending" /\ pc' = "sent"
              /\ UNCHANGED <<status, tx, todo, cur>>
            BY <1>0, <2>1 DEF Send, TypeOK
        <3>2. r = cur => tx[r] = "running" /\ r \notin todo
            BY <1>0, <3>1 DEF SendingIsMarked
        <3> QED BY <2>0, <3>1, <3>2 DEF SentOnce, MaySend, Looping
    <2>2. CASE DispatchError
        <3>1. /\ sent'[r] = IF tx[r] = "running" THEN 0 ELSE sent[r]
              /\ tx'[r] = None /\ pc' = "sweep" /\ UNCHANGED status
            BY <2>2 DEF DispatchError, NoWrites
        <3> QED BY <2>0, <3>1 DEF SentOnce, MaySend, Looping, None
    <2>3. CASE Crash
        BY <2>3 DEF Crash, SentOnce
    <2>4. CASE ~Send /\ ~DispatchError /\ ~Crash
        BY <1>0, <2>0, <2>4, SendableStep DEF SentOnce
    <2> QED BY <2>1, <2>2, <2>3, <2>4
<1> QED BY <1>1, <1>2 DEF SentInv

\* The command of a run goes out at most once between two starts of the process,
\* or two rollbacks of a tick that sent it, whatever errors, answers, timeouts and
\* cancellations come.
THEOREM SentOnceEach == Spec => []NotSentTwice
<1>1. Init => SentInv
    BY InitTypeOK, InitPhases DEF Init, SentInv, SentOnce, SendingIsMarked
<1>2. SentInv => NotSentTwice
    BY DEF SentInv, SentOnce, NotSentTwice
<1> QED BY <1>1, <1>2, NextSent, PTL DEF Spec

-----------------------------------------------------------------------------
(* OutcomeStays. *)

\* Who writes the status column.
LEMMA StatusWriters ==
    [Next]_vars =>
        \/ UNCHANGED status
        \/ CommitDispatch \/ CommitSweep \/ StoreResult \/ QueueRun \/ Start
        \/ \E r \in Runs : CancelStore(r)
BY DEF Next, Dispatch, ReadBusy, ReadQueued, MarkRunning, Send, SendFail, Track,
       DispatchError, Sweep, SweepStart, SweepRun, SweepError, Result, TakeResult,
       LoadRun, ResultError, Api, CancelCheck, CancelError, Agents, Connect,
       Disconnect, AgentResult, AgentSilent, Crash, Expire, vars

\* The first two clauses: what may follow an outcome, and a queued run.
LEMMA WorkingOutcome ==
    ASSUME LInv, [Next]_vars, faults' = 0, NEW r \in Runs
    PROVE  /\ status[r] \in Finished => status'[r] \in Finished \cup {"cancelled"}
           /\ status[r] = "queued" => status'[r] \notin Finished
<1>0. /\ TypeOK /\ Phases /\ UnqueuedUntouched /\ ~Fault /\ Life(r)
    <2>1. faults \in Nat
        BY DEF LInv, TypeOK
    <2> QED BY <2>1, FaultSteps DEF Fault, LInv, LifeInv
<1> USE <1>0
<1>1. CASE CommitDispatch
    <2>1. status'[r] = status[r] \/ (tx[r] # None /\ status'[r] = tx[r])
        BY <1>1 DEF CommitDispatch, Applied
    <2>2. tx[r] # "timeout"
        BY <1>1 DEF CommitDispatch, Phases
    <2> QED BY <2>1, <2>2 DEF TypeOK, Life, WritesWaiting, Waiting, Finished, None
<1>2. CASE CommitSweep
    <2>1. \/ status'[r] = status[r]
          \/ status'[r] = "timeout" /\ (tx[r] = "timeout" \/ AtSweep(r))
        BY <1>2 DEF CommitSweep, Applied, Flushed, AtSweep, TypeOK, Phases, Looping
    <2> QED BY <2>1 DEF Life, SweptWasRunning, Finished
<1>3. CASE StoreResult
    <2>1. \/ status'[r] = status[r]
          \/ status'[r] \in Finished /\ Watched(r) /\ tx[r] = None
        BY <1>3 DEF StoreResult, Outcome, Finished, Watched, Handled, Locked, TypeOK
    <2> QED BY <2>1 DEF Life, QueuedUnwatched, Finished, None
<1>4. CASE QueueRun
    <2>1. queuedRuns \in Nat
        BY ConstantsAssumption DEF TypeOK
    <2>2. r = queuedRuns + 1 => status[r] = None
        BY <2>1 DEF UnqueuedUntouched
    <2> QED BY <1>4, <2>2 DEF QueueRun, TypeOK, Finished, None
<1>5. CASE Start
    BY <1>5 DEF Start, Requeued, Finished
<1>6. CASE \E q \in Runs : CancelStore(q)
    BY <1>6 DEF CancelStore, TypeOK, Finished
<1>7. CASE UNCHANGED status
    BY <1>7 DEF Finished
<1> QED BY <1>1, <1>2, <1>3, <1>4, <1>5, <1>6, <1>7, StatusWriters

\* The third: nothing turns to a cancelled run that nobody has picked up.
LEMMA CancelledStays ==
    ASSUME TypeOK, UnqueuedUntouched, [Next]_vars, NEW r \in Runs,
           status[r] = "cancelled", ~PickedUp(r)
    PROVE  status'[r] = "cancelled" /\ ~PickedUp(r)' /\ jobs'[r] <= jobs[r]
<1>0. /\ jobs[r] \in Nat /\ NoRun \notin Runs /\ NoWrites[r] = None
      /\ Idle.run \notin Runs
    BY DEF TypeOK, NoRun, NoWrites, Idle, Runs
<1> USE <1>0 DEF PickedUp
<1>1. CASE Dispatch
    <2>1. CASE ReadBusy \/ Track
        BY <2>1 DEF ReadBusy, Track, TypeOK, env
    <2>2. CASE ReadQueued
        BY <2>2 DEF ReadQueued, FirstOf, Committed, env
    <2>3. CASE MarkRunning
        BY <2>3 DEF MarkRunning, Candidates, TypeOK, env
    <2>4. CASE Send
        BY <2>4 DEF Send, TypeOK
    <2>5. CASE SendFail
        BY <2>5 DEF SendFail, TypeOK
    <2>6. CASE CommitDispatch \/ DispatchError
        BY <2>6 DEF CommitDispatch, DispatchError, Applied, env
    <2> QED BY <1>1, <2>1, <2>2, <2>3, <2>4, <2>5, <2>6 DEF Dispatch
<1>2. CASE Sweep
    BY <1>2 DEF Sweep, SweepStart, SweepRun, CommitSweep, SweepError, StaleRuns,
                Applied, Flushed, TypeOK, env
<1>3. CASE Result
    <2>1. UNCHANGED <<sched, jobs>>
        BY <1>3 DEF Result, TakeResult, LoadRun, StoreResult, ResultError, env
    <2>2. status'[r] = status[r]
        BY <1>3 DEF Result, TakeResult, LoadRun, StoreResult, ResultError, TypeOK
    <2>3. inFlight'[r] = "no"
        BY <1>3 DEF Result, TakeResult, LoadRun, StoreResult, ResultError, TypeOK
    <2>4. res'.run # r
        <3>1. CASE TakeResult
            BY <3>1 DEF TakeResult
        <3>2. CASE LoadRun
            <4>1. res'.run = res.run
                BY <3>2 DEF LoadRun, TypeOK
            <4> QED BY <4>1
        <3>3. CASE StoreResult \/ ResultError
            BY <3>3 DEF StoreResult, ResultError
        <3> QED BY <1>3, <3>1, <3>2, <3>3 DEF Result
    <2> QED BY <2>1, <2>2, <2>3, <2>4 DEF sched
<1>4. CASE Api
    <2>1. CASE QueueRun
        <3>1. queuedRuns \in Nat
            BY ConstantsAssumption DEF TypeOK
        <3>2. r # queuedRuns + 1
            BY <3>1 DEF UnqueuedUntouched, None
        <3> QED BY <2>1, <3>2 DEF QueueRun, TypeOK, sched, env
    <2>2. ASSUME NEW q \in Runs, CancelCheck(q) \/ CancelStore(q) \/ CancelError(q)
          PROVE  status'[r] = "cancelled" /\ UNCHANGED <<sched, inFlight, res, jobs>>
        BY <2>2 DEF CancelCheck, CancelStore, CancelError, TypeOK, env
    <2> QED BY <1>4, <2>1, <2>2 DEF Api, sched
<1>5. CASE Agents
    <2>1. UNCHANGED <<status, sched, inFlight, res>>
        BY <1>5 DEF Agents, Connect, Disconnect, AgentResult, AgentSilent
    <2>2. jobs'[r] <= jobs[r]
        <3>1. CASE \E d \in Devices : Connect(d) \/ Disconnect(d)
            BY <3>1 DEF Connect, Disconnect
        <3>2. ASSUME NEW q \in Runs, jobs' = [jobs EXCEPT ![q] = @ - 1]
              PROVE  jobs'[r] <= jobs[r]
            BY <3>2 DEF TypeOK
        <3> QED BY <1>5, <3>1, <3>2 DEF Agents, AgentResult, AgentSilent
    <2> QED BY <2>1, <2>2 DEF sched
<1>6. CASE Crash \/ Start
    BY <1>6 DEF Crash, Start, Requeued, env
<1>7. CASE (\E q \in Runs : Expire(q)) \/ UNCHANGED vars
    BY <1>7 DEF Expire, TypeOK, vars, sched, env
<1> QED BY <1>1, <1>2, <1>3, <1>4, <1>5, <1>6, <1>7 DEF Next

\* A run that is over is not reopened and a late result never overtakes the
\* commit of its dispatch; a cancelled run that nothing has picked up is left
\* alone, whatever fails.
THEOREM OutcomesStay == Spec => OutcomeStays
<1> DEFINE Step ==
        \A r \in Runs :
            /\ faults' = 0 /\ status[r] \in Finished => status'[r] \in Finished \cup {"cancelled"}
            /\ faults' = 0 /\ status[r] = "queued" => status'[r] \notin Finished
            /\ status[r] = "cancelled" /\ ~PickedUp(r) =>
                  status'[r] = "cancelled" /\ ~PickedUp(r)' /\ jobs'[r] <= jobs[r]
<1>1. LInv /\ [Next]_vars => Step
    BY WorkingOutcome, CancelledStays DEF LInv
<1>2. Init => LInv
    BY InitTypeOK, InitPhases, InitLife DEF LInv
<1> QED BY <1>1, <1>2, NextLInv, PTL DEF Spec, OutcomeStays
-----------------------------------------------------------------------------
(* The scheduler implements the slots of its devices.                       *)

\* A run whose send failed is put back on a device that was free: committing
\* it does not free a device in the step in which another run takes it.
PutBackIsFree == \A r \in Runs : tx[r] = "queued" => DevOf[r] \notin busy

SlotInv == IInv /\ Phases /\ PutBackIsFree

LEMMA InitSlotInv == Init => SlotInv
<1>1. Init => PutBackIsFree
    BY DEF Init, PutBackIsFree, None
<1> QED BY <1>1, InitIInv, InitPhases DEF SlotInv

LEMMA NextPutBack == SlotInv /\ [Next]_vars => PutBackIsFree'
<1> SUFFICES ASSUME SlotInv, [Next]_vars PROVE PutBackIsFree'
    OBVIOUS
<1>0. /\ TypeOK /\ Phases /\ PutBackIsFree /\ CurrentIsAlone
      /\ \A r \in Runs : NoWrites[r] # "queued"
    BY DEF SlotInv, IInv, NoWrites, None
<1> USE <1>0 DEF PutBackIsFree
<1>1. CASE ReadBusy
    BY <1>1 DEF ReadBusy, Phases, Looping
<1>2. CASE MarkRunning
    BY <1>2 DEF MarkRunning, TypeOK
<1>3. CASE SendFail
    BY <1>3 DEF SendFail, TypeOK, CurrentIsAlone
<1>4. CASE CommitDispatch \/ DispatchError \/ CommitSweep \/ SweepError \/ Crash
    BY <1>4 DEF CommitDispatch, DispatchError, CommitSweep, SweepError, Crash
<1>5. ASSUME NEW r \in Runs, SweepRun(r) PROVE PutBackIsFree'
    BY <1>5 DEF SweepRun, Flushed, TypeOK
<1>6. CASE UNCHANGED <<tx, busy>>
    BY <1>6
<1>7. CASE ReadQueued \/ Send \/ Track \/ SweepStart \/ Start
    BY <1>6, <1>7 DEF ReadQueued, Send, Track, SweepStart, Start
<1>8. CASE Result \/ Api \/ Agents \/ (\E r \in Runs : Expire(r)) \/ UNCHANGED vars
    <2>1. UNCHANGED sched
        BY <1>8 DEF Result, TakeResult, LoadRun, StoreResult, ResultError, Api,
                    QueueRun, CancelCheck, CancelStore, CancelError, Agents,
                    Connect, Disconnect, AgentResult, AgentSilent, Expire, vars
    <2> QED BY <1>6, <2>1 DEF sched
<1> QED BY <1>1, <1>2, <1>3, <1>4, <1>5, <1>7, <1>8 DEF Next, Dispatch, Sweep

LEMMA NextSlotInv == SlotInv /\ [Next]_vars => SlotInv'
BY NextIInv, NextPhases, NextPutBack DEF SlotInv, IInv

\* A device that no committed run holds.
LEMMA FreeDevice ==
    ASSUME TypeOK, NEW r \in Runs,
           \A q \in Runs : status[q] = "running" => DevOf[q] # DevOf[r]
    PROVE  Holding[DevOf[r]] = {}
BY ConstantsAssumption DEF Holding

\* A step that sets no run running and starts and ends no execution releases
\* the devices of the runs that it ends.
LEMMA OnlyReleases ==
    ASSUME UNCHANGED jobs,
           \A r \in Runs : status'[r] = "running" => status[r] = "running"
    PROVE  Slots!SlotNext
<1> DEFINE S == {r \in Runs : status'[r] # "running"}
<1>1. ASSUME NEW d \in Devices
      PROVE  {r \in Runs : status'[r] = "running" /\ DevOf[r] = d}
             = {r \in Runs : status[r] = "running" /\ DevOf[r] = d} \ S
    OBVIOUS
<1>2. Holding' = [d \in Devices |-> Holding[d] \ S]
    BY <1>1 DEF Holding
<1>3. Slots!Release(S)
    BY <1>2 DEF Slots!Release
<1>4. S \in SUBSET Runs
    OBVIOUS
<1> HIDE DEF S
<1> QED BY <1>3, <1>4 DEF Slots!SlotNext

\* The commit of a tick: its runs take their devices together.
LEMMA CommitTakes == SlotInv /\ CommitDispatch => Slots!SlotNext
<1> SUFFICES ASSUME SlotInv, CommitDispatch PROVE Slots!SlotNext
    OBVIOUS
<1> DEFINE S == {r \in Runs : tx[r] = "running"}
<1>1. /\ TypeOK /\ pc = "loop" /\ UNCHANGED jobs
      /\ status' = [r \in Runs |-> IF tx[r] = None THEN status[r] ELSE tx[r]]
    BY DEF SlotInv, IInv, CommitDispatch, Applied, env
<1>2. \A r \in Runs : status[r] = "running" => DevOf[r] \in busy
    BY <1>1 DEF SlotInv, IInv, BusyIsCurrent, Reading
<1>3. \A r \in Runs : status'[r] = "running" <=> status[r] = "running" \/ r \in S
    <2> SUFFICES ASSUME NEW r \in Runs
                 PROVE  status'[r] = "running" <=> status[r] = "running" \/ r \in S
        OBVIOUS
    <2>1. tx[r] \in {None, "running", "queued"}
        BY <1>1 DEF SlotInv, TypeOK, Phases
    <2>2. tx[r] = "queued" => status[r] # "running"
        BY <1>2 DEF SlotInv, PutBackIsFree
    <2> QED BY <1>1, <2>1, <2>2 DEF None
<1>4. \A r \in S : Holding[DevOf[r]] = {}
    <2>1. \A r \in S : DevOf[r] \notin busy
        BY DEF SlotInv, IInv, WritesOne
    <2> QED BY <1>1, <1>2, <2>1, FreeDevice
<1>5. \A q, r \in S : DevOf[q] = DevOf[r] => q = r
    BY DEF SlotInv, IInv, WritesOne
<1>6. Holding' = [d \in Devices |-> Holding[d] \cup {r \in S : DevOf[r] = d}]
    <2>1. ASSUME NEW d \in Devices
          PROVE  {r \in Runs : status'[r] = "running" /\ DevOf[r] = d}
                 = {r \in Runs : status[r] = "running" /\ DevOf[r] = d}
                   \cup {r \in S : DevOf[r] = d}
        BY <1>3
    <2> QED BY <2>1 DEF Holding
<1>7. S \in SUBSET Runs
    OBVIOUS
<1> HIDE DEF S
<1>8. Slots!Take(S)
    BY <1>1, <1>4, <1>5, <1>6 DEF Slots!Take
<1> QED BY <1>7, <1>8 DEF Slots!SlotNext

\* A command goes out to a device that no committed run holds.
LEMMA SendOrders == SlotInv /\ Send => Slots!SlotNext
<1> SUFFICES ASSUME SlotInv, Send PROVE Slots!SlotNext
    OBVIOUS
<1>1. /\ TypeOK /\ pc = "sending" /\ cur \in Runs /\ UNCHANGED status
      /\ jobs' = [jobs EXCEPT ![cur] = @ + 1]
    BY DEF SlotInv, IInv, TypeOK, Send
<1>2. \A q \in Runs : status[q] = "running" => DevOf[q] # DevOf[cur]
    BY <1>1 DEF SlotInv, IInv, BusyIsCurrent, CurrentIsAlone, Reading
<1>3. Holding[DevOf[cur]] = {}
    BY <1>1, <1>2, FreeDevice
<1>4. Slots!Order(cur)
    BY <1>1, <1>3 DEF Slots!Order, Holding
<1> QED BY <1>1, <1>4 DEF Slots!SlotNext

\* Every step of the scheduler is one of the slots, or moves none.
LEMMA StepTakes == SlotInv /\ [Next]_vars => [Slots!SlotNext]_(Slots!slotVars)
<1> SUFFICES ASSUME SlotInv, [Next]_vars
             PROVE  [Slots!SlotNext]_(Slots!slotVars)
    OBVIOUS
<1>0. TypeOK
    BY DEF SlotInv, IInv
<1>1. CASE UNCHANGED <<status, jobs>>
    BY <1>1 DEF Slots!slotVars, Holding
<1>2. CASE CommitDispatch
    BY <1>2, CommitTakes
<1>3. CASE Send
    BY <1>3, SendOrders
<1>4. CASE \E r \in Runs : (\E ok \in BOOLEAN : AgentResult(r, ok)) \/ AgentSilent(r)
    <2>1. PICK r \in Runs : /\ jobs[r] > 0
                            /\ jobs' = [jobs EXCEPT ![r] = @ - 1]
                            /\ UNCHANGED status
        BY <1>4 DEF AgentResult, AgentSilent
    <2>2. Slots!End(r)
        BY <2>1 DEF Slots!End, Holding
    <2> QED BY <2>2 DEF Slots!SlotNext
<1>5. CASE CommitSweep \/ StoreResult \/ QueueRun \/ Start
           \/ \E r \in Runs : CancelStore(r)
    <2>1. UNCHANGED jobs
        BY <1>5 DEF CommitSweep, StoreResult, QueueRun, Start, CancelStore, env
    <2>2. \A r \in Runs : status'[r] = "running" => status[r] = "running"
        <3>1. CASE CommitSweep
            <4>1. \A r \in Runs : Flushed[r] # "running"
                BY <1>0, <3>1 DEF CommitSweep, SlotInv, Phases, Looping, Flushed,
                                  TypeOK
            <4> QED BY <3>1, <4>1 DEF CommitSweep, Applied
        <3>2. CASE ~CommitSweep
            BY <1>0, <1>5, <3>2 DEF StoreResult, Outcome, QueueRun, Start, Requeued,
                                    CancelStore, TypeOK
        <3> QED BY <3>1, <3>2
    <2> QED BY <2>1, <2>2, OnlyReleases
<1>6. CASE ReadBusy \/ ReadQueued \/ MarkRunning \/ SendFail \/ Track \/ DispatchError
           \/ SweepStart \/ (\E r \in Runs : SweepRun(r)) \/ SweepError
           \/ TakeResult \/ LoadRun \/ ResultError
           \/ (\E r \in Runs : CancelCheck(r) \/ CancelError(r))
           \/ (\E d \in Devices : Connect(d) \/ Disconnect(d))
           \/ Crash \/ (\E r \in Runs : Expire(r)) \/ UNCHANGED vars
    <2>1. UNCHANGED <<status, jobs>>
        BY <1>6 DEF ReadBusy, ReadQueued, MarkRunning, SendFail, Track,
                    DispatchError, SweepStart, SweepRun, SweepError, TakeResult,
                    LoadRun, ResultError, CancelCheck, CancelError, Connect,
                    Disconnect, Crash, Expire, vars, env
    <2> QED BY <1>1, <2>1
<1> QED BY <1>2, <1>3, <1>4, <1>5, <1>6
        DEF Next, Dispatch, Sweep, Result, Api, Agents

LEMMA InitTakes == Init => Slots!SlotInit
<1> SUFFICES ASSUME Init PROVE Slots!SlotInit
    OBVIOUS
<1>1. \A d \in Devices : {r \in Runs : status[r] = "running" /\ DevOf[r] = d} = {}
    BY DEF Init, None
<1>2. Holding = [d \in Devices |-> {}]
    BY <1>1 DEF Holding
<1> QED BY <1>2 DEF Init, Slots!SlotInit

\* Seen from its devices, the scheduler only ever lets runs take free devices, one
\* run each, and commands none that a run holds, whatever errors, crashes,
\* cancellations and late answers come.
THEOREM SchedulerImplementsSlots == Spec => TakesFreeDevices
<1>1. Spec => []SlotInv
    BY InitSlotInv, NextSlotInv, PTL DEF Spec
<1>2. Spec => Slots!SlotInit
    BY InitTakes DEF Spec
<1> QED BY <1>1, <1>2, StepTakes, PTL
        DEF Spec, TakesFreeDevices, Slots!SlotSpec
=============================================================================

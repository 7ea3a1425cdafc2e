------------------------ MODULE AutomationEngine_proof ------------------------
(***************************************************************************)
(* The execution pipeline of the earlier design, for any executions,       *)
(* devices, retries and mishaps: types, the budget of retries, and, as     *)
(* long as nothing fails, that running executions and the locks of an      *)
(* execution's first two attempts are looked after.                        *)
(***************************************************************************)
EXTENDS AutomationEngine, TLAPS

-----------------------------------------------------------------------------
(* The inductive invariant, by parts. *)

Waiting(e) == row[e].status \in {"new", "queued"}
Over(e) == row[e].status \in Failures \cup {"passed"}
Holds(e) == \E d \in Devices : locked[d] = e
Scheduled(e, steps) == sched.exec = e /\ sched.at \in steps
Handled(e, steps) == handler.exec = e /\ handler.at \in steps

\* What the tasks know of the execution they work on.
SchedShape ==
    /\ sched.at # "idle" => sched.exec \in Execs
    /\ sched.at \in {"allocated", "sending", "sent", "unsent"} => sched.device \in Devices
    /\ sched.at \in {"dequeued", "allocated"} => row[sched.exec].status = "queued"

HandlerShape ==
    /\ handler.at # "idle" => handler.exec \in Execs
    /\ handler.at \in {"loadResult", "storeResult"} => handler.status \in {"passed", "failed"}
    /\ handler.at = "storeRetry" =>
          /\ row[handler.exec].status \in Failures
          /\ row[handler.exec].retries < MaxRetries

\* A send to come is paid for by a retry, and so is the send in between when
\* the row is queued again while its last command is being sent.
Budget(e) ==
    /\ sent[e] <= 1 + row[e].retries
    /\ Waiting(e) \/ Scheduled(e, {"dequeued", "allocated", "sending"})
          => sent[e] <= row[e].retries
    /\ Waiting(e) /\ Scheduled(e, {"sending"}) => sent[e] < row[e].retries

BInv == TypeOK /\ SchedShape /\ HandlerShape /\ \A e \in Execs : Budget(e)

\* What is known of an attempt shows that it was sent.
WasSent ==
    /\ sched.at = "sent" => sent[sched.exec] >= 1
    /\ \A w \in watchers : sent[w.exec] >= 1
    /\ \A j \in jobs : sent[j.exec] >= 1
    /\ \A i \in DOMAIN bus : bus[i].type = "result" => sent[bus[i].exec] >= 1
    /\ handler.at \in {"loadResult", "storeResult"} => sent[handler.exec] >= 1

\* An outcome that a handler has loaded cannot be undone behind its back.
LoadedIsOver ==
    handler.at = "storeResult" /\ handler.row.status \in Failures \cup {"passed"}
        => Over(handler.exec)

Watched(e) ==
    row[e].status = "running" =>
        \/ Scheduled(e, {"sending", "sent", "unsent"})
        \/ \E w \in watchers : w.exec = e
        \/ Handled(e, {"loadResult", "storeResult", "loadOffline", "storeOffline"})

\* Where the first two attempts hold their device.
LockPlace(e) ==
    row[e].retries <= 1 => \A d \in Devices : locked[d] = e =>
        IF Waiting(e) THEN Scheduled(e, {"allocated"}) /\ sched.device = d
                      ELSE row[e].device = d

LockWatch(e) ==
    row[e].retries <= 1 => \A d \in Devices : locked[d] = e =>
        \/ Scheduled(e, {"allocated", "sending", "sent"}) /\ sched.device = d
        \/ \E w \in watchers : w.exec = e /\ w.device = d /\ w.at = "sleep"
        \/ Handled(e, {"loadResult"}) /\ row[e].device = d
        \/ Handled(e, {"storeResult"}) /\ handler.row.device = d

\* The first attempt gives its device back before its end is stored, and
\* everybody agrees on which device that is.
First(e) ==
    row[e].retries = 0 =>
        /\ Over(e) => ~Holds(e)
        /\ Scheduled(e, {"sending", "sent"}) => row[e].device = sched.device
        /\ Scheduled(e, {"unsent"}) => ~Holds(e)
        /\ \A w \in watchers : w.exec = e =>
              w.device = row[e].device /\ (w.at # "sleep" => ~Holds(e))
        /\ Handled(e, {"storeResult"}) => handler.row.device = row[e].device
        /\ Handled(e, {"loadOffline", "storeOffline"}) =>
              ~Holds(e) /\ (Waiting(e) => Scheduled(e, {"allocated"}))

RInv == trouble = 0 => LoadedIsOver /\ \A e \in Execs : Watched(e)

LockInv == trouble = 0 => \A e \in Execs : LockPlace(e) /\ LockWatch(e) /\ First(e)
-----------------------------------------------------------------------------
(* Types. *)

Rows == [Execs -> [status : Status, device : Devices \cup {None}, retries : 0..MaxRetries]]
Handlers == [at : {"idle", "loadResult", "storeResult", "loadOffline", "storeOffline",
                   "evaluate", "storeRetry"},
             exec : Execs \cup {None}, row : Columns, status : Status]
Events == [type : {"result", "done"}, exec : Execs, status : {"passed", "failed"}]
          \cup [type : {"offline"}, device : Devices]

\* The initial state has the declared types.
LEMMA InitTypeOK == Init => TypeOK
BY EngineAssumption
   DEF Init, TypeOK, Idle, Resting, Columns, Status, Active, Failures, Attempts, Watcher

\* Storing a status keeps the type of the table.
LEMMA SetStatusType ==
    ASSUME TypeOK, NEW e \in Execs, NEW s \in Status, SetStatus(e, s)
    PROVE  row' \in Rows
BY DEF TypeOK, SetStatus, Rows

\* A handler at rest has its type.
LEMMA RestingType == Resting \in Handlers /\ Resting.at = "idle"
BY DEF Resting, Handlers, Columns, Status

\* Taking an event leaves a queue of events.
LEMMA TakenType ==
    ASSUME TypeOK, bus # <<>>
    PROVE  Event \in Events /\ Tail(bus) \in Seq(Events)
<1>1. bus \in Seq(Events)
    BY DEF TypeOK, Events
<1> HIDE DEF Events
<1> QED BY <1>1 DEF Event

\* Ending or cancelling watchers, or moving one on, leaves watchers.
LEMMA CancelType ==
    ASSUME TypeOK, NEW e \in Execs, CancelTimeout(e)
    PROVE  tasks' \in [Execs -> Attempts] /\ watchers' \subseteq Watcher
BY EngineAssumption DEF TypeOK, CancelTimeout, Attempts

LEMMA EndType ==
    ASSUME TypeOK, NEW w \in watchers, End(w)
    PROVE  tasks' \in [Execs -> Attempts] /\ watchers' \subseteq Watcher
<1>1. 0 \in Attempts
    BY EngineAssumption DEF Attempts
<1>2. tasks \in [Execs -> Attempts] /\ watchers \subseteq Watcher
    BY DEF TypeOK
<1>3. watchers' = watchers \ {w} /\ tasks' = [tasks EXCEPT ![w.exec] = 0]
    BY DEF End
<1> QED BY <1>1, <1>2, <1>3

LEMMA AtType ==
    ASSUME TypeOK, NEW w \in watchers, NEW step \in {"load", "store"}, At(w, step)
    PROVE  watchers' \subseteq Watcher
<1>1. w \in Watcher /\ [w EXCEPT !.at = step] \in Watcher
    BY DEF TypeOK, Watcher
<1> QED BY <1>1 DEF TypeOK, At

\* Released devices have no holder, the others the one they had.
LEMMA ReleasedType ==
    ASSUME TypeOK, NEW d PROVE Released(d) \in [Devices -> Execs \cup {None}]
BY DEF TypeOK, Released

\* A mishap is counted within its bound.
LEMMA TroubleType ==
    ASSUME TypeOK, Trouble PROVE trouble' \in 0..MaxMishaps /\ trouble' >= 1
BY EngineAssumption DEF TypeOK, Trouble, Mishap

\* The scheduler's steps keep the types.
LEMMA SchedulerTypeOK == BInv /\ Scheduler => TypeOK'
<1> SUFFICES ASSUME BInv, Scheduler PROVE TypeOK'
    OBVIOUS
<1> USE EngineAssumption
<1>0. TypeOK /\ SchedShape /\ \A e \in Execs : Budget(e)
    BY DEF BInv
<1>1. Idle \in [at : {"idle", "dequeued", "allocated", "sending", "sent", "unsent"},
                exec : Execs \cup {None}, device : Devices \cup {None}]
    BY DEF Idle
<1>2. ASSUME NEW e \in Execs, Dequeue(e) PROVE TypeOK'
    BY <1>0, <1>2 DEF TypeOK, Dequeue, memory, world
<1>3. ASSUME NEW d \in Devices, Allocate(d) PROVE TypeOK'
    <2>1. sched.exec \in Execs
        BY <1>0, <1>3 DEF SchedShape, Allocate
    <2> QED BY <2>1, <1>0, <1>3 DEF TypeOK, Allocate, world
<1>4. CASE NoDevice
    BY <1>0, <1>1, <1>4 DEF TypeOK, NoDevice, memory, world
<1>5. CASE CommitAllocation
    <2>1. sched.exec \in Execs /\ sched.device \in Devices
        BY <1>0, <1>5 DEF SchedShape, CommitAllocation
    <2> DEFINE e == sched.exec
               stored == [row EXCEPT ![e].status = "running"]
    <2>0. row \in Rows /\ "running" \in Status
        BY <1>0 DEF TypeOK, Rows, Status, Active
    <2>3. stored \in Rows
        BY <2>0, <2>1 DEF Rows
    <2>4. row' = [stored EXCEPT ![e].device = sched.device]
        BY <1>5 DEF CommitAllocation
    <2>2. row' \in Rows
        BY <2>1, <2>3, <2>4 DEF Rows
    <2> QED BY <2>2, <1>0, <1>5 DEF TypeOK, CommitAllocation, memory, world, Rows
<1>6. CASE Send
    <2>1. sched.exec \in Execs /\ sched.device \in Devices
        BY <1>0, <1>6 DEF SchedShape, Send
    <2>2. sent[sched.exec] <= row[sched.exec].retries
        BY <1>0, <1>6, <2>1 DEF Budget, Scheduled, Send
    <2>3. sent[sched.exec] \in Nat /\ row[sched.exec].retries \in 0..MaxRetries
        BY <1>0, <2>1 DEF TypeOK, Attempts
    <2>4. sent[sched.exec] + 1 \in Attempts
        BY <2>2, <2>3 DEF Attempts
    <2>5. sent' \in [Execs -> Attempts] /\ jobs' \subseteq [exec : Execs, device : Devices, no : Attempts]
        BY <1>0, <1>6, <2>1, <2>4 DEF TypeOK, Send
    <2> QED BY <2>5, <1>0, <1>6 DEF TypeOK, Send, memory
<1>7. CASE Track
    <2>1. sched.exec \in Execs /\ sched.device \in Devices
        BY <1>0, <1>7 DEF SchedShape, Track
    <2>2. watchers' \subseteq Watcher /\ tasks' \in [Execs -> Attempts]
        BY <1>0, <1>7, <2>1 DEF TypeOK, Track, Watcher
    <2> QED BY <2>2, <1>0, <1>1, <1>7 DEF TypeOK, Track, world
<1>8. CASE SendFails
    <2>1. locked' \in [Devices -> Execs \cup {None}]
        BY <1>0, <1>8, ReleasedType DEF SendFails
    <2> QED BY <2>1, <1>0, <1>8 DEF TypeOK, SendFails, world
<1>9. CASE CommitUnsent
    <2>1. sched.exec \in Execs /\ "failed" \in Status
        BY <1>0, <1>9 DEF SchedShape, CommitUnsent, Status, Failures
    <2>2. row' \in Rows
        BY <1>0, <1>9, <2>1, SetStatusType DEF CommitUnsent
    <2> QED BY <2>2, <1>0, <1>1, <1>9 DEF TypeOK, CommitUnsent, memory, world, Rows
<1>10. CASE SchedulerError
    BY <1>0, <1>1, <1>10, TroubleType DEF TypeOK, SchedulerError, memory
<1> QED BY <1>2, <1>3, <1>4, <1>5, <1>6, <1>7, <1>8, <1>9, <1>10 DEF Scheduler

\* The handlers' steps keep the types.
LEMMA HandlerTypeOK == BInv /\ Handler => TypeOK'
<1> SUFFICES ASSUME BInv, Handler PROVE TypeOK'
    OBVIOUS
<1> USE EngineAssumption, RestingType
<1>0. TypeOK /\ HandlerShape
    BY DEF BInv
<1>1. row \in Rows /\ handler \in Handlers /\ bus \in Seq(Events) /\ sent \in [Execs -> Attempts]
    BY <1>0 DEF TypeOK, Rows, Handlers, Events
<1>2. handler' \in Handlers
    <2>1. CASE TakeResult
        <3>1. Event \in Events /\ Event.type = "result"
            BY <1>0, <2>1, TakenType DEF TakeResult
        <3>2. Event.exec \in Execs /\ Event.status \in Status
            BY <3>1 DEF Events, Status, Failures
        <3> QED BY <2>1, <3>2 DEF TakeResult, Handlers
    <2>2. CASE LoadResult
        <3>1. handler.exec \in Execs
            BY <1>0, <2>2 DEF HandlerShape, LoadResult
        <3>2. [status |-> row[handler.exec].status, device |-> row[handler.exec].device] \in Columns
            BY <1>1, <3>1 DEF Rows, Columns
        <3> QED BY <1>1, <2>2, <3>2 DEF LoadResult, Handlers
    <2>3. CASE StoreResult
        BY <2>3 DEF StoreResult
    <2>4. CASE TakeOffline
        <3>1. Event \in Events /\ Event.type = "offline"
            BY <1>0, <2>4, TakenType DEF TakeOffline
        <3>2. locked[Event.device] \in Execs \cup {None}
            BY <1>0, <3>1 DEF Events, TypeOK
        <3> QED BY <1>1, <2>4, <3>2 DEF TakeOffline, Handlers
    <2>5. CASE LoadOffline
        BY <1>1, <2>5 DEF LoadOffline, Handlers
    <2>6. CASE StoreOffline
        BY <1>1, <2>6 DEF StoreOffline, Handlers
    <2>7. CASE TakeDone
        <3>1. Event \in Events /\ Event.type = "done"
            BY <1>0, <2>7, TakenType DEF TakeDone
        <3>2. Event.exec \in Execs
            BY <3>1 DEF Events
        <3> QED BY <2>7, <3>2 DEF TakeDone, Handlers
    <2>8. CASE Evaluate
        BY <1>1, <2>8 DEF Evaluate, Handlers
    <2>9. CASE StoreRetry
        BY <2>9 DEF StoreRetry
    <2>10. CASE HandlerError
        BY <1>1, <2>10 DEF HandlerError, Handlers
    <2> QED BY <2>1, <2>2, <2>3, <2>4, <2>5, <2>6, <2>7, <2>8, <2>9, <2>10 DEF Handler
<1>3. row' \in Rows /\ earlier' \subseteq Execs \X Execs
    <2>1. CASE StoreResult
        <3>1. handler.exec \in Execs
            BY <1>0, <2>1 DEF HandlerShape, StoreResult
        <3>2. row' = row \/ SetStatus(handler.exec, handler.status)
            BY <2>1 DEF StoreResult, SetStatus
        <3>3. handler.status \in Status
            BY <1>1 DEF Handlers
        <3> QED BY <1>0, <1>1, <2>1, <3>1, <3>2, <3>3, SetStatusType DEF StoreResult, TypeOK
    <2>2. CASE StoreOffline
        <3>1. handler.exec \in Execs /\ "failed" \in Status
            BY <1>0, <2>2 DEF HandlerShape, StoreOffline, Status, Failures
        <3> QED BY <1>0, <2>2, <3>1, SetStatusType DEF StoreOffline, TypeOK
    <2>3. CASE StoreRetry
        <3>1. handler.exec \in Execs /\ row[handler.exec].retries < MaxRetries
            BY <1>0, <2>3 DEF HandlerShape, StoreRetry
        <3>2. row[handler.exec].retries \in 0..MaxRetries
            BY <1>1, <3>1 DEF Rows
        <3>3. row[handler.exec].retries + 1 \in 0..MaxRetries
            BY <3>1, <3>2
        <3>4. row' = [row EXCEPT ![handler.exec] =
                  [status |-> "queued", device |-> None, retries |-> row[handler.exec].retries + 1]]
            BY <2>3 DEF StoreRetry
        <3> DEFINE Row == [status : Status, device : Devices \cup {None}, retries : 0..MaxRetries]
                   queued == [status |-> "queued", device |-> None,
                              retries |-> row[handler.exec].retries + 1]
        <3>7. queued \in Row
            BY <3>3 DEF Status
        <3>8. row \in [Execs -> Row] /\ row' = [row EXCEPT ![handler.exec] = queued]
            BY <1>1, <3>4 DEF Rows
        <3>9. row' \in [Execs -> Row]
            <4> HIDE DEF Row, queued
            <4> QED BY <3>1, <3>7, <3>8
        <3>5. row' \in Rows
            BY <3>9 DEF Rows
        <3>6. earlier' \subseteq Execs \X Execs
            BY <1>0, <2>3, <3>1 DEF StoreRetry, Behind, TypeOK
        <3> QED BY <3>5, <3>6
    <2>4. CASE UNCHANGED <<row, earlier>>
        BY <1>0, <1>1, <2>4 DEF TypeOK
    <2> QED BY <2>1, <2>2, <2>3, <2>4 DEF Handler, TakeResult, LoadResult, TakeOffline, LoadOffline,
                TakeDone, Evaluate, HandlerError
<1>4. bus' \in Seq(Events)
    <2>1. CASE TakeResult \/ TakeOffline \/ TakeDone
        BY <1>0, <2>1, TakenType DEF TakeResult, TakeOffline, TakeDone
    <2>2. CASE StoreResult
        <3>1. handler.exec \in Execs /\ handler.status \in {"passed", "failed"}
            BY <1>0, <2>2 DEF HandlerShape, StoreResult
        <3>2. [type |-> "done", exec |-> handler.exec, status |-> handler.status] \in Events
            BY <3>1 DEF Events
        <3> HIDE DEF Events
        <3> QED BY <1>1, <2>2, <3>2 DEF StoreResult
    <2>3. CASE UNCHANGED bus
        BY <1>1, <2>3
    <2> QED BY <2>1, <2>2, <2>3 DEF Handler, LoadResult, LoadOffline, StoreOffline, Evaluate,
                StoreRetry, HandlerError
<1>5. locked' \in [Devices -> Execs \cup {None}] /\ tasks' \in [Execs -> Attempts]
      /\ watchers' \subseteq Watcher
    <2>1. CASE TakeResult
        <3>1. Event \in Events /\ Event.type = "result"
            BY <1>0, <2>1, TakenType DEF TakeResult
        <3>2. Event.exec \in Execs
            BY <3>1 DEF Events
        <3> QED BY <1>0, <2>1, <3>2, CancelType DEF TakeResult, TypeOK
    <2>2. CASE TakeOffline
        <3>1. Event \in Events /\ Event.type = "offline"
            BY <1>0, <2>2, TakenType DEF TakeOffline
        <3>2. locked[Event.device] \in Execs \cup {None}
            BY <1>0, <3>1 DEF Events, TypeOK
        <3>3. CASE locked[Event.device] = None
            BY <1>0, <2>2, <3>3 DEF TakeOffline, TypeOK, memory
        <3>4. CASE locked[Event.device] \in Execs
            BY <1>0, <2>2, <3>4, CancelType, ReleasedType DEF TakeOffline
        <3> QED BY <3>2, <3>3, <3>4
    <2>3. CASE StoreResult
        BY <1>0, <2>3, ReleasedType DEF StoreResult, TypeOK
    <2>4. CASE UNCHANGED memory
        BY <1>0, <2>4 DEF TypeOK, memory
    <2> QED BY <2>1, <2>2, <2>3, <2>4 DEF Handler, LoadResult, LoadOffline, StoreOffline, TakeDone,
                Evaluate, StoreRetry, HandlerError
<1>6. trouble' \in 0..MaxMishaps /\ UNCHANGED <<sched, sent, jobs, connected, drops>>
    <2>1. trouble' \in 0..MaxMishaps
        BY <1>0, TroubleType DEF Handler, TakeResult, LoadResult, StoreResult, TakeOffline, LoadOffline,
           StoreOffline, TakeDone, Evaluate, StoreRetry, HandlerError, world, TypeOK
    <2> QED BY <2>1 DEF Handler, TakeResult, LoadResult, StoreResult, TakeOffline, LoadOffline,
           StoreOffline, TakeDone, Evaluate, StoreRetry, HandlerError, world
<1> QED BY <1>0, <1>2, <1>3, <1>4, <1>5, <1>6 DEF TypeOK, Rows, Handlers, Events

\* The steps of watchers, of the agents, of callers and of the process do.
LEMMA OtherTypeOK ==
    ASSUME BInv,
           Timeout \/ Agents \/ Restart \/ \E e \in Execs : Enqueue(e)
    PROVE  TypeOK'
<1> USE EngineAssumption
<1>0. TypeOK
    BY DEF BInv
<1>1. row \in Rows /\ bus \in Seq(Events)
    BY <1>0 DEF TypeOK, Rows, Events
<1>2. ASSUME NEW w \in watchers, Expire(w) PROVE TypeOK'
    BY <1>0, <1>2, AtType, ReleasedType DEF Expire, TypeOK, world
<1>3. ASSUME NEW w \in watchers, WatcherLoad(w) PROVE TypeOK'
    <2>1. watchers' \subseteq Watcher /\ tasks' \in [Execs -> Attempts]
        BY <1>0, <1>3, AtType, EndType DEF WatcherLoad, TypeOK
    <2> QED BY <1>0, <1>3, <2>1 DEF WatcherLoad, TypeOK, world
<1>4. ASSUME NEW w \in watchers PROVE w.exec \in Execs /\ "timeout" \in Status
    BY <1>0 DEF TypeOK, Watcher, Status, Failures
<1>5. ASSUME NEW w \in watchers, WatcherStore(w) PROVE TypeOK'
    <2>1. watchers' \subseteq Watcher /\ tasks' \in [Execs -> Attempts] /\ row' \in Rows
        BY <1>0, <1>4, <1>5, EndType, SetStatusType DEF WatcherStore
    <2> QED BY <1>0, <1>5, <2>1 DEF WatcherStore, TypeOK, world, Rows
<1>6. ASSUME NEW w \in watchers, WatcherError(w) PROVE TypeOK'
    <2>1. watchers' \subseteq Watcher /\ tasks' \in [Execs -> Attempts]
        BY <1>0, <1>6, EndType DEF WatcherError, TypeOK
    <2>2. row' \in Rows
        BY <1>0, <1>1, <1>4, <1>6, SetStatusType DEF WatcherError
    <2>3. trouble' \in 0..MaxMishaps
        BY <1>0, <1>6, TroubleType DEF WatcherError
    <2> QED BY <1>0, <1>6, <2>1, <2>2, <2>3 DEF WatcherError, TypeOK, Rows
<1>7. ASSUME NEW d \in Devices, Connect(d) PROVE TypeOK'
    BY <1>0, <1>7 DEF Connect, TypeOK, memory
<1>8. ASSUME NEW d \in Devices, Disconnect(d) PROVE TypeOK'
    <2>1. [type |-> "offline", device |-> d] \in Events
        BY DEF Events
    <2>2. bus' \in Seq(Events)
        <3> HIDE DEF Events
        <3> QED BY <1>1, <1>8, <2>1 DEF Disconnect
    <2>3. drops' \in 0..MaxMishaps
        BY <1>0, <1>8 DEF Disconnect, TypeOK, Mishap
    <2> QED BY <1>0, <1>8, <2>2, <2>3 DEF Disconnect, TypeOK, memory, Events
<1>9. ASSUME NEW j \in jobs, NEW outcome \in {"passed", "failed"}, Answer(j, outcome) PROVE TypeOK'
    <2>1. [type |-> "result", exec |-> j.exec, status |-> outcome] \in Events
        BY <1>0 DEF Events, TypeOK
    <2>2. bus' \in Seq(Events)
        <3> HIDE DEF Events
        <3> QED BY <1>1, <1>9, <2>1 DEF Answer
    <2> QED BY <1>0, <1>9, <2>2 DEF Answer, TypeOK, memory, Events
<1>10. CASE Restart
    <2>1. bus' \in Seq(Events) /\ handler' \in Handlers /\ trouble' \in 0..MaxMishaps
        BY <1>0, <1>10, RestingType, TroubleType DEF Restart
    <2>2. tasks' \in [Execs -> Attempts]
        BY <1>10 DEF Restart, Attempts
    <2> QED BY <1>0, <1>10, <2>1, <2>2 DEF Restart, TypeOK, Events, Handlers, Idle
<1>11. ASSUME NEW e \in Execs, Enqueue(e) PROVE TypeOK'
    <2>1. row' \in Rows
        BY <1>0, <1>11, SetStatusType DEF Enqueue, Status
    <2>2. earlier' \subseteq Execs \X Execs
        BY <1>0, <1>11 DEF Enqueue, Behind, TypeOK
    <2> QED BY <1>0, <1>11, <2>1, <2>2 DEF Enqueue, TypeOK, memory, world, Rows
<1> QED BY <1>2, <1>3, <1>5, <1>6, <1>7, <1>8, <1>9, <1>10, <1>11 DEF Timeout, Agents

-----------------------------------------------------------------------------
(* What the tasks know, and the budget. *)

\* Facts of the types that the arithmetic and the cases below need.
LEMMA Numbers ==
    ASSUME TypeOK, NEW e \in Execs
    PROVE  sent[e] \in Nat /\ row[e].retries \in Nat /\ row[e].status \in Status
BY DEF TypeOK, Attempts

LEMMA SetStatusRow ==
    ASSUME TypeOK, NEW q \in Execs, NEW s, SetStatus(q, s), NEW e \in Execs
    PROVE  /\ row'[e].retries = row[e].retries /\ row'[e].device = row[e].device
           /\ row'[e].status = IF e = q THEN s ELSE row[e].status
           /\ e # q => row'[e] = row[e]
BY DEF TypeOK, SetStatus

\* The scheduler's transaction protects its row from the others.
LEMMA FreeRow ==
    ASSUME NEW e, RowFree(e) PROVE ~Scheduled(e, {"dequeued", "allocated"})
BY DEF RowFree, Scheduled

\* What a task other than the scheduler may do to the row of an execution.
Submitted(e) ==
    /\ row[e].status = "new" /\ row'[e].status = "queued"
    /\ row'[e].device = row[e].device /\ row'[e].retries = row[e].retries
Ended(e) ==
    /\ RowFree(e) /\ row'[e].device = row[e].device /\ row'[e].retries = row[e].retries
    /\ \/ row'[e].status \in Failures
       \/ StoreResult /\ handler.exec = e /\ row'[e].status \in {"passed", "failed"}
Requeued(e) ==
    /\ StoreRetry /\ handler.exec = e /\ RowFree(e)
    /\ row'[e] = [status |-> "queued", device |-> None, retries |-> row[e].retries + 1]

Others == Handler \/ Timeout \/ Agents \/ \E e \in Execs : Enqueue(e)

LEMMA OthersFrame == Others => UNCHANGED <<sched, sent>>
BY DEF Others, Handler, Timeout, Agents, Enqueue, TakeResult, LoadResult, StoreResult,
   TakeOffline, LoadOffline, StoreOffline, TakeDone, Evaluate, StoreRetry, HandlerError,
   Expire, WatcherLoad, WatcherStore, WatcherError, Connect, Disconnect, Answer

\* A row is submitted, ended or queued again, or left alone.
LEMMA OthersRow ==
    ASSUME BInv, Others, NEW e \in Execs
    PROVE  /\ UNCHANGED <<sched, sent>>
           /\ row'[e] = row[e] \/ Submitted(e) \/ Ended(e) \/ Requeued(e)
<1>0. TypeOK /\ HandlerShape
    BY DEF BInv
<1>1. UNCHANGED <<sched, sent>>
    BY OthersFrame
<1>2. CASE StoreResult
    <2>1. handler.exec \in Execs /\ handler.status \in {"passed", "failed"} /\ RowFree(handler.exec)
        BY <1>0, <1>2 DEF HandlerShape, StoreResult
    <2>2. row' = row \/ SetStatus(handler.exec, handler.status)
        BY <1>2 DEF StoreResult, SetStatus
    <2> QED BY <1>0, <1>1, <1>2, <2>1, <2>2, SetStatusRow DEF Ended
<1>3. CASE StoreOffline
    <2>1. handler.exec \in Execs /\ SetStatus(handler.exec, "failed") /\ RowFree(handler.exec)
        BY <1>0, <1>3 DEF HandlerShape, StoreOffline
    <2> QED BY <1>0, <1>1, <2>1, SetStatusRow DEF Ended, Failures
<1>4. CASE StoreRetry
    <2>1. handler.exec \in Execs /\ RowFree(handler.exec)
        BY <1>0, <1>4 DEF HandlerShape, StoreRetry
    <2>2. row' = [row EXCEPT ![handler.exec] =
              [status |-> "queued", device |-> None, retries |-> row[handler.exec].retries + 1]]
        BY <1>4 DEF StoreRetry
    <2>3. DOMAIN row = Execs
        BY <1>0 DEF TypeOK
    <2>4. e # handler.exec => row'[e] = row[e]
        BY <2>2, <2>3
    <2>5. e = handler.exec => Requeued(e)
        BY <1>4, <2>1, <2>2, <2>3 DEF Requeued
    <2> QED BY <1>1, <2>4, <2>5
<1>5. ASSUME NEW w \in watchers, WatcherStore(w) \/ WatcherError(w)
      PROVE  row'[e] = row[e] \/ Ended(e)
    <2>1. row' = row \/ (RowFree(w.exec) /\ SetStatus(w.exec, "timeout"))
        BY <1>5 DEF WatcherStore, WatcherError
    <2>2. w.exec \in Execs
        BY <1>0 DEF TypeOK, Watcher
    <2> QED BY <1>0, <2>1, <2>2, SetStatusRow DEF Ended, Failures
<1>6. ASSUME NEW x \in Execs, Enqueue(x) PROVE row'[e] = row[e] \/ Submitted(e)
    <2>1. row[x].status = "new" /\ SetStatus(x, "queued")
        BY <1>6 DEF Enqueue
    <2>2. CASE e = x
        BY <1>0, <2>1, <2>2, SetStatusRow DEF Submitted
    <2>3. CASE e # x
        BY <1>0, <2>1, <2>3 DEF TypeOK, SetStatus
    <2> QED BY <2>2, <2>3
<1>7. CASE UNCHANGED row
    BY <1>1, <1>7
<1> QED BY <1>1, <1>2, <1>3, <1>4, <1>5, <1>6, <1>7
        DEF Others, Handler, Timeout, Agents, TakeResult, LoadResult,
            TakeOffline, LoadOffline, TakeDone, Evaluate, HandlerError,
            Expire, WatcherLoad, Connect, Disconnect, Answer

\* The execution of the scheduler is the one it has in mind, or none.
LEMMA SchedSteps ==
    ASSUME BInv, [Next]_vars
    PROVE  \/ Scheduler
           \/ Others /\ ~Scheduler
           \/ Restart /\ sched' = Idle /\ handler' = Resting /\ UNCHANGED <<row, sent>>
           \/ UNCHANGED vars
BY DEF Next, Others, Restart

\* Types and shapes of the scheduler.
LEMMA NextSched == BInv /\ [Next]_vars => SchedShape'
<1> SUFFICES ASSUME BInv, [Next]_vars PROVE SchedShape'
    OBVIOUS
<1>0. TypeOK /\ SchedShape
    BY DEF BInv
<1>1. CASE Scheduler
    <2>1. CASE \E e \in Execs : Dequeue(e)
        BY <1>0, <2>1 DEF Dequeue, IsNext, SchedShape
    <2>2. CASE \E d \in Devices : Allocate(d)
        BY <1>0, <2>2 DEF Allocate, SchedShape, TypeOK
    <2>3. CASE CommitAllocation \/ Send \/ SendFails
        BY <1>0, <2>3 DEF CommitAllocation, Send, SendFails, SchedShape, TypeOK
    <2>4. CASE NoDevice \/ Track \/ CommitUnsent \/ SchedulerError
        BY <1>0, <2>4 DEF NoDevice, Track, CommitUnsent, SchedulerError, SchedShape, Idle
    <2> QED BY <1>1, <2>1, <2>2, <2>3, <2>4 DEF Scheduler
<1>2. CASE Others
    <2>1. ASSUME NEW e \in Execs, Scheduled(e, {"dequeued", "allocated"})
          PROVE  row'[e].status = "queued"
        <3>1. row[e].status = "queued" /\ ~RowFree(e)
            BY <1>0, <2>1 DEF SchedShape, RowFree, Scheduled
        <3> QED BY <1>2, <3>1, OthersRow DEF Submitted, Ended, Requeued
    <2> QED BY <1>0, <1>2, <2>1, OthersFrame DEF SchedShape, Scheduled
<1>3. CASE Restart /\ sched' = Idle /\ handler' = Resting /\ UNCHANGED <<row, sent>>
    BY <1>3 DEF SchedShape, Idle
<1>4. CASE UNCHANGED vars
    BY <1>0, <1>4 DEF SchedShape, vars
<1> QED BY <1>1, <1>2, <1>3, <1>4, SchedSteps

\* A step of the scheduler leaves the handler and, but for a row it writes,
\* the rows alone.
LEMMA SchedulerRow ==
    ASSUME BInv, Scheduler, NEW e \in Execs
    PROVE  /\ UNCHANGED <<handler, bus>>
           /\ CommitAllocation /\ sched.exec = e =>
                 /\ row'[e].status = "running" /\ row'[e].device = sched.device
                 /\ row'[e].retries = row[e].retries
           /\ CommitUnsent /\ sched.exec = e =>
                 /\ row'[e].status = "failed"
                 /\ row'[e].device = row[e].device /\ row'[e].retries = row[e].retries
           /\ \/ row'[e] = row[e]
              \/ (CommitAllocation \/ CommitUnsent) /\ sched.exec = e
<1>0. TypeOK /\ SchedShape
    BY DEF BInv
<1>1. UNCHANGED <<handler, bus>>
    BY DEF Scheduler, Dequeue, Allocate, NoDevice, CommitAllocation, Send, Track, SendFails,
       CommitUnsent, SchedulerError
<1>2. CASE CommitAllocation
    <2>1. sched.exec \in Execs /\ DOMAIN row = Execs /\ row[e] \in
              [status : Status, device : Devices \cup {None}, retries : 0..MaxRetries]
        BY <1>0, <1>2 DEF SchedShape, CommitAllocation, TypeOK
    <2>2. row' = [row EXCEPT ![sched.exec].status = "running",
                             ![sched.exec].device = sched.device]
        BY <1>2 DEF CommitAllocation
    <2>3. e # sched.exec => row'[e] = row[e]
        BY <2>1, <2>2
    <2> DEFINE stored == [row EXCEPT ![e].status = "running"]
    <2>4. ASSUME e = sched.exec
          PROVE  /\ row'[e].status = "running" /\ row'[e].device = sched.device
                 /\ row'[e].retries = row[e].retries
        <3>1. row \in Rows /\ "running" \in Status
            BY <1>0 DEF TypeOK, Rows, Status, Active
        <3>2. stored \in Rows /\ stored[e].status = "running" /\ stored[e].retries = row[e].retries
            BY <3>1 DEF Rows
        <3>3. row' = [stored EXCEPT ![e].device = sched.device]
            BY <2>2, <2>4
        <3> HIDE DEF stored
        <3> QED BY <3>2, <3>3 DEF Rows
    <2> QED BY <1>1, <1>2, <2>3, <2>4 DEF CommitAllocation, CommitUnsent
<1>3. CASE CommitUnsent
    <2>1. sched.exec \in Execs /\ SetStatus(sched.exec, "failed")
        BY <1>0, <1>3 DEF SchedShape, CommitUnsent
    <2> QED BY <1>0, <1>1, <1>3, <2>1, SetStatusRow DEF CommitAllocation, CommitUnsent
<1>4. CASE UNCHANGED row /\ ~CommitAllocation /\ ~CommitUnsent
    BY <1>1, <1>4
<1> QED BY <1>1, <1>2, <1>3, <1>4 DEF Scheduler, Dequeue, Allocate, NoDevice, Send, Track, SendFails,
       SchedulerError

\* Only its own steps and a restart move the handler.
LEMMA HandlerFrame ==
    BInv /\ [Next]_vars => Handler \/ UNCHANGED handler \/ (Restart /\ handler' = Resting)
<1> SUFFICES ASSUME BInv, [Next]_vars
             PROVE  Handler \/ UNCHANGED handler \/ (Restart /\ handler' = Resting)
    OBVIOUS
<1>1. Scheduler => UNCHANGED handler
    BY DEF Scheduler, Dequeue, Allocate, NoDevice, CommitAllocation, Send, Track, SendFails,
       CommitUnsent, SchedulerError
<1>2. Timeout \/ Agents \/ (\E e \in Execs : Enqueue(e)) => UNCHANGED handler
    BY DEF Timeout, Agents, Enqueue, Expire, WatcherLoad, WatcherStore, WatcherError, Connect,
       Disconnect, Answer
<1>3. Restart => handler' = Resting
    BY DEF Restart
<1> QED BY <1>1, <1>2, <1>3 DEF Next, vars

\* What the handler knows of its execution stays so.
LEMMA NextHandler == BInv /\ [Next]_vars => HandlerShape'
<1> SUFFICES ASSUME BInv, [Next]_vars PROVE HandlerShape'
    OBVIOUS
<1>0. TypeOK /\ SchedShape /\ HandlerShape
    BY DEF BInv
<1>1. CASE Handler
    <2>0. handler \in Handlers
        BY <1>0 DEF TypeOK, Handlers
    <2>1. CASE TakeResult \/ TakeDone
        <3>1. Event \in Events /\ Event.type \in {"result", "done"}
            BY <1>0, <2>1, TakenType DEF TakeResult, TakeDone
        <3>2. Event.exec \in Execs /\ Event.status \in {"passed", "failed"}
            BY <3>1 DEF Events
        <3>3. CASE TakeResult
            BY <3>2, <3>3 DEF TakeResult, HandlerShape, Resting
        <3>4. CASE TakeDone
            BY <3>2, <3>4 DEF TakeDone, HandlerShape, Resting
        <3> QED BY <2>1, <3>3, <3>4
    <2>2. CASE TakeOffline
        <3>1. Event \in Events /\ Event.type = "offline"
            BY <1>0, <2>2, TakenType DEF TakeOffline
        <3>2. locked[Event.device] \in Execs \cup {None}
            BY <1>0, <3>1 DEF Events, TypeOK
        <3>3. handler' = handler \/ handler' = [Resting EXCEPT !.at = "loadOffline",
                                                           !.exec = locked[Event.device]]
            BY <2>2 DEF TakeOffline
        <3> QED BY <2>2, <3>2, <3>3 DEF TakeOffline, HandlerShape, Resting
    <2>3. CASE LoadResult
        <3>1. handler.exec \in Execs /\ handler.status \in {"passed", "failed"}
            BY <1>0, <2>3 DEF LoadResult, HandlerShape
        <3>2. handler'.at = "storeResult" /\ handler'.exec = handler.exec
              /\ handler'.status = handler.status
            BY <2>0, <2>3 DEF LoadResult, Handlers
        <3> QED BY <3>1, <3>2 DEF HandlerShape
    <2>6. CASE LoadOffline \/ StoreOffline \/ HandlerError
        <3>1. \/ handler' = Resting
              \/ handler' = [handler EXCEPT !.at = "evaluate"]
              \/ handler' = [handler EXCEPT !.at = "storeOffline"]
            BY <2>6 DEF LoadOffline, StoreOffline, HandlerError
        <3>2. handler.exec \in Execs
            BY <1>0, <2>6 DEF LoadOffline, StoreOffline, HandlerError, HandlerShape
        <3> QED BY <2>0, <3>1, <3>2 DEF HandlerShape, Resting, Handlers
    <2>4. CASE StoreResult \/ StoreRetry
        BY <2>4 DEF StoreResult, StoreRetry, HandlerShape, Resting
    <2>5. CASE Evaluate
        <3>1. handler.exec \in Execs /\ UNCHANGED row
            BY <1>0, <2>5 DEF Evaluate, HandlerShape
        <3>2. CASE MayRetry(row[handler.exec]) /\ handler' = [handler EXCEPT !.at = "storeRetry"]
            BY <2>0, <2>5, <3>1, <3>2 DEF MayRetry, HandlerShape, Handlers
        <3>3. CASE handler' = Resting
            BY <3>3 DEF HandlerShape, Resting
        <3> QED BY <2>5, <3>2, <3>3 DEF Evaluate
    <2> QED BY <1>1, <2>1, <2>2, <2>3, <2>4, <2>5, <2>6 DEF Handler
<1>2. CASE UNCHANGED handler /\ ~Handler
    <2>1. ASSUME NEW e \in Execs, Handled(e, {"storeRetry"})
          PROVE  row'[e].status \in Failures /\ row'[e].retries < MaxRetries
        <3>1. row[e].status \in Failures /\ row[e].retries < MaxRetries
            BY <1>0, <2>1 DEF HandlerShape, Handled
        <3>2. CASE Scheduler
            <4>1. CommitAllocation /\ sched.exec = e => row[e].status = "queued"
                BY <1>0 DEF CommitAllocation, SchedShape
            <4> QED BY <3>1, <3>2, <4>1, SchedulerRow DEF Failures
        <3>3. CASE Others
            <4>1. ~StoreResult /\ ~StoreRetry
                BY <1>2 DEF Handler
            <4> QED BY <3>1, <3>3, <4>1, OthersRow DEF Submitted, Ended, Requeued, Failures
        <3> QED BY <3>1, <3>2, <3>3, SchedSteps DEF vars
    <2> QED BY <1>0, <1>2, <2>1 DEF HandlerShape, Handled
<1>3. CASE handler' = Resting
    BY <1>3 DEF HandlerShape, Resting
<1> QED BY <1>1, <1>2, <1>3, HandlerFrame

\* The budget keeps its balance in the steps that neither send nor queue.
LEMMA BudgetFrame ==
    ASSUME TypeOK, NEW e \in Execs, Budget(e),
           sent'[e] = sent[e], row'[e].retries = row[e].retries,
           Waiting(e)' => Waiting(e),
           Scheduled(e, {"dequeued", "allocated", "sending"})' =>
               Waiting(e) \/ Scheduled(e, {"dequeued", "allocated", "sending"}),
           Scheduled(e, {"sending"})' => Scheduled(e, {"sending"}) \/ ~Waiting(e)'
    PROVE  Budget(e)'
BY DEF Budget, Waiting

\* No step sends more than retries have paid for.
LEMMA NextBudget ==
    ASSUME BInv, [Next]_vars, NEW e \in Execs
    PROVE  Budget(e)'
<1>0. TypeOK /\ SchedShape /\ HandlerShape /\ Budget(e)
    BY DEF BInv
<1>1. sent[e] \in Nat /\ row[e].retries \in Nat
    BY <1>0, Numbers
<1>2. CASE Scheduler
    <2>1. CASE Send
        <3>1. sent \in [Execs -> Attempts] /\ UNCHANGED row /\ sched'.at = "sent"
            BY <1>0, <2>1 DEF TypeOK, Send
        <3>2. sent'[e] = IF e = sched.exec THEN sent[e] + 1 ELSE sent[e]
            BY <2>1, <3>1 DEF Send
        <3> QED BY <1>0, <1>1, <2>1, <3>1, <3>2 DEF Send, Budget, Scheduled, Waiting
    <2>2. CASE \E q \in Execs : Dequeue(q)
        BY <1>0, <2>2, BudgetFrame DEF Dequeue, IsNext, Waiting, Scheduled
    <2>3. CASE CommitAllocation
        <3>1. sched'.at = "sending" /\ UNCHANGED sent /\ sched'.exec = sched.exec
            BY <1>0, <2>3 DEF CommitAllocation, TypeOK
        <3>2. CASE e = sched.exec
            <4>1. row'[e].status = "running" /\ row'[e].retries = row[e].retries
                BY <1>2, <2>3, <3>2, SchedulerRow
            <4> QED BY <1>0, <2>3, <3>1, <3>2, <4>1, BudgetFrame
                    DEF CommitAllocation, Waiting, Scheduled
        <3>3. CASE e # sched.exec
            <4>1. row'[e] = row[e]
                BY <1>2, <3>3, SchedulerRow
            <4> QED BY <1>0, <3>1, <3>3, <4>1, BudgetFrame DEF Waiting, Scheduled
        <3> QED BY <3>2, <3>3
    <2>4. CASE (\E d \in Devices : Allocate(d)) \/ SendFails
        <3>1. UNCHANGED <<row, sent>> /\ sched'.exec = sched.exec
              /\ (sched'.at = "allocated" => sched.at = "dequeued")
              /\ sched'.at \in {"allocated", "unsent"}
            BY <1>0, <2>4 DEF Allocate, SendFails, TypeOK
        <3> QED BY <1>0, <3>1, BudgetFrame DEF Waiting, Scheduled
    <2>5. CASE NoDevice \/ Track \/ CommitUnsent \/ SchedulerError
        <3>1. sched'.at = "idle" /\ UNCHANGED sent
            BY <2>5 DEF NoDevice, Track, CommitUnsent, SchedulerError, Idle
        <3>2. row'[e].retries = row[e].retries /\ (Waiting(e)' => Waiting(e))
            BY <1>2, <2>5, SchedulerRow DEF CommitAllocation, NoDevice, Track, CommitUnsent, SchedulerError,
               Waiting
        <3> QED BY <1>0, <3>1, <3>2, BudgetFrame DEF Scheduled
    <2> QED BY <1>2, <2>1, <2>2, <2>3, <2>4, <2>5 DEF Scheduler
<1>3. CASE Others
    <2>1. UNCHANGED <<sched, sent>>
        BY <1>3, OthersFrame
    <2>2. CASE Requeued(e)
        <3>1. ~Scheduled(e, {"dequeued", "allocated"})
            BY <2>2, FreeRow DEF Requeued
        <3>2. row'[e].retries = row[e].retries + 1
            BY <2>2 DEF Requeued
        <3> QED BY <1>0, <1>1, <2>1, <3>1, <3>2 DEF Budget, Scheduled, Waiting
    <2>3. CASE row'[e] = row[e] \/ Submitted(e) \/ Ended(e)
        BY <1>0, <2>1, <2>3, BudgetFrame DEF Submitted, Ended, Waiting, Scheduled, Failures
    <2> QED BY <1>3, <2>2, <2>3, OthersRow
<1>4. CASE Restart /\ sched' = Idle /\ handler' = Resting /\ UNCHANGED <<row, sent>>
    BY <1>0, <1>4, BudgetFrame DEF Idle, Scheduled, Waiting
<1>5. CASE UNCHANGED vars
    BY <1>0, <1>5, BudgetFrame DEF vars, Scheduled, Waiting
<1> QED BY <1>2, <1>3, <1>4, <1>5, SchedSteps

\* The invariant of types, shapes and budget is inductive.
LEMMA NextBInv == BInv /\ [Next]_vars => BInv'
<1> SUFFICES ASSUME BInv, [Next]_vars PROVE BInv'
    OBVIOUS
<1>1. TypeOK'
    <2>1. CASE UNCHANGED vars
        BY <2>1 DEF BInv, TypeOK, vars, memory, world
    <2> QED BY <2>1, SchedulerTypeOK, HandlerTypeOK, OtherTypeOK DEF Next
<1>2. \A e \in Execs : Budget(e)'
    BY NextBudget
<1> QED BY <1>1, <1>2, NextSched, NextHandler DEF BInv

LEMMA InitBInv == Init => BInv
BY InitTypeOK DEF Init, BInv, SchedShape, HandlerShape, Budget, Waiting, Scheduled, Idle, Resting

LEMMA AlwaysBInv == Spec => []BInv
BY InitBInv, NextBInv, PTL DEF Spec

\* The state keeps its types: no execution is retried more often than
\* max_retries (recovery.py:88) or sent more often than once plus that.
THEOREM TypeCorrect == Spec => []TypeOK
<1>1. BInv => TypeOK
    BY DEF BInv
<1> QED BY <1>1, AlwaysBInv, PTL

\* queue.py:132, recovery.py:88: however results, timeouts, disconnects, errors
\* and restarts interleave, each send of an execution but its first is paid for
\* by a retry.
THEOREM SendsArePaid == Spec => []WithinBudget
<1>1. BInv => WithinBudget
    BY DEF BInv, Budget, WithinBudget
<1> QED BY <1>1, AlwaysBInv, PTL

-----------------------------------------------------------------------------
(* Running executions are watched. *)

\* As long as nothing has failed, no step was a failure.
LEMMA Undisturbed ==
    ASSUME BInv, [Next]_vars, trouble' = 0
    PROVE  /\ trouble = 0 /\ ~SchedulerError /\ ~HandlerError /\ ~Restart
           /\ \A w \in watchers : ~WatcherError(w)
           /\ StoreResult => bus' = Append(bus, [type |-> "done", exec |-> handler.exec,
                                                 status |-> handler.status])
<1>0. TypeOK /\ trouble \in Nat
    BY EngineAssumption DEF BInv, TypeOK
<1>1. ~Trouble
    BY <1>0, TroubleType
<1>2. trouble = 0
    BY <1>0, <1>1
       DEF Next, Scheduler, Handler, Timeout, Agents, Dequeue, Allocate, NoDevice, CommitAllocation, Send,
           Track, SendFails, CommitUnsent, SchedulerError, TakeResult, LoadResult, StoreResult,
           TakeOffline, LoadOffline, StoreOffline, TakeDone, Evaluate, StoreRetry, HandlerError,
           Expire, WatcherLoad, WatcherStore, WatcherError, Connect, Disconnect, Answer, Restart,
           Enqueue, vars, world
<1>3. ~SchedulerError /\ ~HandlerError /\ ~Restart /\ \A w \in watchers : ~WatcherError(w)
    BY <1>1 DEF SchedulerError, HandlerError, Restart, WatcherError
<1> QED BY <1>1, <1>2, <1>3 DEF StoreResult

\* The outcome a handler has loaded stays one.
LEMMA NextLoaded ==
    ASSUME BInv, LoadedIsOver, [Next]_vars
    PROVE  LoadedIsOver'
<1>0. TypeOK /\ SchedShape /\ HandlerShape
    BY DEF BInv
<1>1. CASE Handler
    <2>1. CASE LoadResult
        <3>1. /\ handler'.row.status = row[handler.exec].status /\ handler'.exec = handler.exec
              /\ UNCHANGED row
            BY <1>0, <2>1 DEF LoadResult, TypeOK
        <3> QED BY <3>1 DEF LoadedIsOver, Over
    <2>2. CASE ~LoadResult
        <3>2. handler'.at # "storeResult"
            <4>1. CASE StoreResult \/ StoreRetry
                BY <4>1 DEF StoreResult, StoreRetry, Resting
            <4>4. CASE TakeResult
                <5>1. handler'.at = "loadResult"
                    BY <4>4 DEF TakeResult, Resting
                <5> QED BY <5>1
            <4>5. CASE TakeDone
                <5>1. handler' = Resting
                      \/ handler' = [Resting EXCEPT !.at = "evaluate", !.exec = Event.exec]
                    BY <4>5 DEF TakeDone
                <5>2. Resting.at = "idle"
                      /\ [Resting EXCEPT !.at = "evaluate", !.exec = Event.exec].at = "evaluate"
                    BY DEF Resting
                <5> QED BY <5>1, <5>2
            <4>3. CASE TakeOffline
                <5>1. handler'.at \in {handler.at, "loadOffline"}
                    BY <4>3 DEF TakeOffline, Resting
                <5> QED BY <4>3, <5>1 DEF TakeOffline
            <4>2. CASE LoadOffline \/ StoreOffline \/ Evaluate \/ HandlerError
                <5>1. \/ handler' = Resting
                      \/ handler' = [handler EXCEPT !.at = "evaluate"]
                      \/ handler' = [handler EXCEPT !.at = "storeOffline"]
                      \/ handler' = [handler EXCEPT !.at = "storeRetry"]
                    BY <4>2 DEF LoadOffline, StoreOffline, Evaluate, HandlerError
                <5>2. handler \in Handlers
                    BY <1>0 DEF TypeOK, Handlers
                <5> QED BY <5>1, <5>2 DEF Resting, Handlers
            <4> QED BY <1>1, <2>2, <4>1, <4>2, <4>3, <4>4, <4>5 DEF Handler
        <3> QED BY <3>2 DEF LoadedIsOver
    <2> QED BY <2>1, <2>2
<1>2. CASE UNCHANGED handler /\ ~Handler
    <2>1. ASSUME NEW e \in Execs, Over(e) PROVE Over(e)'
        <3>1. CASE Scheduler
            <4>1. CommitAllocation /\ sched.exec = e => row[e].status = "queued"
                BY <1>0 DEF CommitAllocation, SchedShape
            <4> QED BY <2>1, <3>1, <4>1, SchedulerRow DEF Over, Failures
        <3>2. CASE Others
            <4>1. ~StoreResult /\ ~StoreRetry
                BY <1>2 DEF Handler
            <4> QED BY <2>1, <3>2, <4>1, OthersRow DEF Submitted, Ended, Requeued, Over, Failures
        <3> QED BY <2>1, <3>1, <3>2, SchedSteps DEF vars, Over
    <2> QED BY <1>0, <1>2, <2>1 DEF LoadedIsOver, HandlerShape
<1>3. CASE handler' = Resting
    BY <1>3 DEF LoadedIsOver, Resting
<1> QED BY <1>1, <1>2, <1>3, HandlerFrame

\* Nobody stops looking after a running execution.
LEMMA NextWatched ==
    ASSUME BInv, LoadedIsOver, NEW e \in Execs, Watched(e), [Next]_vars, trouble' = 0
    PROVE  Watched(e)'
<1>0. TypeOK /\ SchedShape /\ HandlerShape
    BY DEF BInv
<1> DEFINE HasWatcher == \E w \in watchers : w.exec = e
           InHand == {"loadResult", "storeResult", "loadOffline", "storeOffline"}
           Running == row[e].status = "running"
<1>1. CASE Scheduler
    <2>0. UNCHANGED handler /\ (Handled(e, InHand) => Handled(e, InHand)')
        BY <1>1, SchedulerRow DEF Handled
    <2>1. CASE CommitAllocation
        <3>1. CASE sched.exec = e
            <4>1. Scheduled(e, {"sending"})'
                BY <1>0, <2>1, <3>1 DEF CommitAllocation, Scheduled, TypeOK
            <4> QED BY <4>1 DEF Watched, Scheduled
        <3>2. CASE sched.exec # e
            <4>1. row'[e] = row[e] /\ UNCHANGED watchers
                BY <1>1, <2>1, <3>2, SchedulerRow DEF CommitAllocation, memory
            <4> QED BY <2>0, <3>2, <4>1 DEF Watched, Scheduled, Handled
        <3> QED BY <3>1, <3>2
    <2>2. CASE CommitUnsent
        <3>1. sched.exec = e => row'[e].status = "failed"
            BY <1>1, <2>2, SchedulerRow
        <3>2. sched.exec # e => row'[e] = row[e]
            BY <1>1, SchedulerRow
        <3>3. UNCHANGED watchers
            BY <2>2 DEF CommitUnsent, memory
        <3> QED BY <2>0, <3>1, <3>2, <3>3 DEF Watched, Scheduled, Handled
    <2>3. CASE Track
        <3>1. UNCHANGED row /\ watchers \subseteq watchers'
              /\ (sched.exec = e => \E w \in watchers' : w.exec = e)
            <4> DEFINE w == [exec |-> sched.exec, device |-> sched.device, no |-> sent[sched.exec],
                             at |-> "sleep"]
            <4>1. w \in watchers' /\ w.exec = sched.exec
                BY <2>3 DEF Track
            <4> HIDE DEF w
            <4> QED BY <2>3, <4>1 DEF Track
        <3> QED BY <2>0, <3>1 DEF Watched, Scheduled, Handled
    <2>4. CASE Send \/ SendFails
        <3>1. /\ UNCHANGED <<row, watchers>> /\ sched'.exec = sched.exec
              /\ sched'.at \in {"sent", "unsent"}
            BY <1>0, <2>4 DEF Send, SendFails, memory, TypeOK
        <3> QED BY <2>0, <3>1 DEF Watched, Scheduled, Handled
    <2>5. CASE (\E q \in Execs : Dequeue(q)) \/ (\E d \in Devices : Allocate(d)) \/ NoDevice
        <3>1. UNCHANGED <<row, watchers>> /\ sched.at \in {"idle", "dequeued"}
            BY <2>5 DEF Dequeue, Allocate, NoDevice, memory
        <3> QED BY <2>0, <3>1 DEF Watched, Scheduled, Handled
    <2> QED BY <1>1, <2>1, <2>2, <2>3, <2>4, <2>5, Undisturbed DEF Scheduler
<1>2. CASE Handler
    <2>0. UNCHANGED sched
        BY <1>2, OthersFrame DEF Others
    <2>1. ASSUME NEW q, handler.at = "idle", CancelTimeout(q), UNCHANGED row,
                 handler'.exec = q, handler'.at \in {"loadResult", "loadOffline"}
          PROVE  Watched(e)'
        <3>1. CASE e = q
            BY <2>1, <3>1 DEF Watched, Handled
        <3>2. CASE e # q
            <4>1. HasWatcher => HasWatcher'
                BY <2>1, <3>2 DEF CancelTimeout
            <4> QED BY <2>0, <2>1, <3>2, <4>1 DEF Watched, Scheduled, Handled
        <3> QED BY <3>1, <3>2
    <2>2. CASE TakeResult
        <3>1. handler'.exec = Event.exec /\ handler'.at = "loadResult"
            BY <2>2 DEF TakeResult, Resting
        <3> QED BY <2>1, <2>2, <3>1 DEF TakeResult
    <2>3. CASE TakeOffline
        <3>1. CASE locked[Event.device] = None
            BY <2>0, <2>3, <3>1 DEF TakeOffline, memory, Watched, Scheduled, Handled
        <3>2. CASE locked[Event.device] # None
            <4> DEFINE q == locked[Event.device]
            <4>1. CancelTimeout(q) /\ handler' = [Resting EXCEPT !.at = "loadOffline", !.exec = q]
                BY <2>3, <3>2 DEF TakeOffline
            <4>2. handler'.exec = q /\ handler'.at = "loadOffline"
                BY <4>1 DEF Resting
            <4> QED BY <2>1, <2>3, <4>1, <4>2 DEF TakeOffline
        <3> QED BY <3>1, <3>2
    <2>4. CASE LoadResult
        <3>1. handler'.exec = handler.exec /\ handler'.at = "storeResult" /\ UNCHANGED <<row, watchers>>
            BY <1>0, <2>4 DEF LoadResult, memory, TypeOK
        <3> QED BY <2>0, <3>1 DEF Watched, Scheduled, Handled
    <2>5. CASE StoreResult
        <3>1. handler.exec \in Execs /\ handler.status \in {"passed", "failed"} /\ UNCHANGED watchers
            BY <1>0, <2>5 DEF StoreResult, HandlerShape
        <3>2. CASE e = handler.exec
            <4>1. CASE handler.row.status = handler.status
                <5>1. Over(e) /\ UNCHANGED row
                    BY <2>5, <3>1, <3>2, <4>1 DEF LoadedIsOver, StoreResult, Failures
                <5> QED BY <5>1 DEF Watched, Over, Failures
            <4>2. CASE handler.row.status # handler.status
                <5>1. SetStatus(handler.exec, handler.status)
                    BY <2>5, <4>2 DEF StoreResult, SetStatus
                <5> QED BY <1>0, <3>1, <3>2, <5>1, SetStatusRow DEF Watched
            <4> QED BY <4>1, <4>2
        <3>3. CASE e # handler.exec
            <4>1. row'[e] = row[e]
                BY <1>0, <2>5, <3>3 DEF StoreResult, TypeOK
            <4> QED BY <2>0, <3>1, <3>3, <4>1 DEF Watched, Scheduled, Handled
        <3> QED BY <3>2, <3>3
    <2>6. CASE LoadOffline
        <3>1. UNCHANGED <<row, watchers>> /\ handler'.exec = handler.exec
            BY <1>0, <2>6 DEF LoadOffline, memory, TypeOK
        <3>2. handler.exec = e /\ Running => handler'.at = "storeOffline"
            BY <1>0, <2>6 DEF LoadOffline, TypeOK, Active
        <3> QED BY <2>0, <3>1, <3>2 DEF Watched, Scheduled, Handled
    <2>7. CASE StoreOffline
        <3>1. handler.exec \in Execs /\ SetStatus(handler.exec, "failed") /\ UNCHANGED watchers
            BY <1>0, <2>7 DEF StoreOffline, HandlerShape, memory
        <3>2. handler.exec = e => row'[e].status = "failed"
            BY <1>0, <3>1, SetStatusRow
        <3>3. handler.exec # e => row'[e] = row[e]
            BY <1>0, <3>1, SetStatusRow
        <3> QED BY <2>0, <3>1, <3>2, <3>3 DEF Watched, Scheduled, Handled
    <2>8. CASE TakeDone \/ Evaluate
        <3>1. UNCHANGED <<row, watchers>> /\ handler.at \in {"idle", "evaluate"}
            BY <2>8 DEF TakeDone, Evaluate, memory
        <3> QED BY <2>0, <3>1 DEF Watched, Scheduled, Handled
    <2>9. CASE StoreRetry
        <3>1. UNCHANGED watchers /\ handler.at = "storeRetry"
            BY <2>9 DEF StoreRetry, memory
        <3>2. row'[e] = row[e] \/ row'[e].status = "queued"
            BY <1>0, <2>9 DEF StoreRetry, TypeOK
        <3> QED BY <2>0, <3>1, <3>2 DEF Watched, Scheduled, Handled
    <2> QED BY <1>2, <2>2, <2>3, <2>4, <2>5, <2>6, <2>7, <2>8, <2>9, Undisturbed DEF Handler
<1>3. ASSUME NEW w \in watchers, Expire(w) \/ WatcherLoad(w) \/ WatcherStore(w)
      PROVE  Watched(e)'
    <2>0. UNCHANGED <<sched, handler>> /\ w \in Watcher
        BY <1>0, <1>3 DEF Expire, WatcherLoad, WatcherStore, TypeOK
    <2>1. ASSUME NEW step, At(w, step), UNCHANGED row PROVE Watched(e)'
        <3>1. [w EXCEPT !.at = step].exec = w.exec
            BY <2>0 DEF Watcher
        <3>2. HasWatcher => HasWatcher'
            BY <2>1, <3>1 DEF At
        <3> QED BY <2>0, <2>1, <3>2 DEF Watched, Scheduled, Handled
    <2>2. ASSUME End(w), row'[w.exec].status # "running", e # w.exec => row'[e] = row[e]
          PROVE  Watched(e)'
        <3>1. e # w.exec => (HasWatcher => HasWatcher')
            BY <2>2 DEF End
        <3> QED BY <2>0, <2>2, <3>1 DEF Watched, Scheduled, Handled
    <2>3. CASE Expire(w)
        BY <2>1, <2>3 DEF Expire
    <2>4. CASE WatcherLoad(w)
        <3>1. CASE row[w.exec].status \in Active
            BY <2>1, <2>4, <3>1 DEF WatcherLoad
        <3>2. CASE row[w.exec].status \notin Active
            BY <2>2, <2>4, <3>2 DEF WatcherLoad, Active
        <3> QED BY <3>1, <3>2
    <2>5. CASE WatcherStore(w)
        <3>1. w.exec \in Execs /\ SetStatus(w.exec, "timeout")
            BY <2>0, <2>5 DEF WatcherStore, Watcher
        <3>2. row'[w.exec].status = "timeout" /\ (e # w.exec => row'[e] = row[e])
            BY <1>0, <3>1 DEF SetStatus, TypeOK
        <3> QED BY <2>2, <2>5, <3>2 DEF WatcherStore
    <2> QED BY <1>3, <2>3, <2>4, <2>5
<1>4. CASE Agents
    BY <1>4 DEF Agents, Connect, Disconnect, Answer, memory, Watched, Scheduled, Handled
<1>5. ASSUME NEW q \in Execs, Enqueue(q) PROVE Watched(e)'
    <2>1. row'[e] = row[e] \/ row'[e].status = "queued"
        BY <1>0, <1>5 DEF Enqueue, SetStatus, TypeOK
    <2> QED BY <1>5, <2>1 DEF Enqueue, memory, Watched, Scheduled, Handled
<1>6. CASE UNCHANGED vars
    BY <1>6 DEF vars, memory, Watched, Scheduled, Handled
<1> QED BY <1>1, <1>2, <1>3, <1>4, <1>5, <1>6, Undisturbed DEF Next, Timeout

LEMMA NextRInv == BInv /\ RInv /\ [Next]_vars => RInv'
<1> SUFFICES ASSUME BInv, RInv, [Next]_vars, trouble' = 0
             PROVE  LoadedIsOver' /\ \A e \in Execs : Watched(e)'
    BY DEF RInv
<1> QED BY Undisturbed, NextLoaded, NextWatched DEF RInv

LEMMA InitRInv == Init => RInv
BY DEF Init, RInv, LoadedIsOver, Watched, Resting

\* engine.py:13-15: without errors and restarts no execution is left running
\* with nobody to end it, whichever attempts' results, timeouts and
\* disconnects cross.
THEOREM RunningWatched == Spec => []RunningIsWatched
<1>1. Init => BInv /\ RInv
    BY InitBInv, InitRInv
<1>2. BInv /\ RInv /\ [Next]_vars => (BInv /\ RInv)'
    BY NextBInv, NextRInv
<1>3. BInv /\ RInv => RunningIsWatched
    BY DEF RInv, Watched, Scheduled, Handled, RunningIsWatched
<1> QED BY <1>1, <1>2, <1>3, PTL DEF Spec

-----------------------------------------------------------------------------
(* Locks are watched. *)

\* Attempts that the system knows of have been sent.
LEMMA NextWasSent == BInv /\ WasSent /\ [Next]_vars => WasSent'
<1> SUFFICES ASSUME BInv, WasSent, [Next]_vars PROVE WasSent'
    OBVIOUS
<1>0. TypeOK /\ SchedShape /\ HandlerShape
    BY DEF BInv
<1>1. bus \in Seq(Events) /\ \A e \in Execs : sent[e] \in Nat
    BY <1>0, Numbers DEF TypeOK, Events
<1> DEFINE Known(e) == sent[e] >= 1
           Results(b) == \A i \in DOMAIN b : b[i].type = "result" => Known(b[i].exec)
<1>2. CASE Send
    <2>1. sched.exec \in Execs /\ UNCHANGED <<watchers, bus, handler>>
        BY <1>0, <1>2 DEF Send, SchedShape, memory
    <2>2. sent'[sched.exec] = sent[sched.exec] + 1 /\ \A e \in Execs : sent[e] >= 1 => sent'[e] >= 1
        BY <1>0, <1>1, <1>2, <2>1 DEF Send, TypeOK
    <2>3. sent'[sched.exec] >= 1
        BY <1>1, <2>1, <2>2
    <2>4. sched'.exec = sched.exec
        BY <1>0, <1>2 DEF Send, TypeOK
    <2>5. \A w \in watchers : w.exec \in Execs
        BY <1>0 DEF TypeOK, Watcher
    <2>6. \A j \in jobs : j.exec \in Execs
        BY <1>0 DEF TypeOK
    <2>7. \A j \in jobs' : sent'[j.exec] >= 1
        BY <1>2, <2>2, <2>3, <2>6 DEF Send, WasSent
    <2>8. \A i \in DOMAIN bus : bus[i].type = "result" => bus[i].exec \in Execs
        BY <1>1 DEF Events
    <2> QED BY <1>0, <2>1, <2>2, <2>3, <2>4, <2>5, <2>7, <2>8 DEF WasSent, HandlerShape
<1>3. CASE ~Send
    <2>1. UNCHANGED sent
        BY <1>3 DEF Next, Scheduler, Dequeue, Allocate, NoDevice, CommitAllocation, Track, SendFails,
           CommitUnsent, SchedulerError, Handler, TakeResult, LoadResult, StoreResult, TakeOffline,
           LoadOffline, StoreOffline, TakeDone, Evaluate, StoreRetry, HandlerError, Timeout,
           Expire, WatcherLoad, WatcherStore, WatcherError, Agents, Connect, Disconnect, Answer,
           Restart, Enqueue, vars
    <2>2. sched'.at = "sent" => Known(sched'.exec)
        <3>1. CASE Scheduler
            <4>1. sched'.at # "sent"
                <5>1. CASE (\E e \in Execs : Dequeue(e)) \/ NoDevice \/ Track \/ CommitUnsent \/ SchedulerError
                    BY <5>1 DEF Dequeue, NoDevice, Track, CommitUnsent, SchedulerError, Idle
                <5>2. CASE (\E d \in Devices : Allocate(d)) \/ CommitAllocation \/ SendFails
                    BY <1>0, <5>2 DEF Allocate, CommitAllocation, SendFails, TypeOK
                <5> QED BY <1>3, <3>1, <5>1, <5>2 DEF Scheduler
            <4> QED BY <4>1
        <3>2. CASE Others
            BY <3>2, OthersFrame DEF WasSent
        <3> QED BY <3>1, <3>2, SchedSteps DEF Idle, WasSent, vars
    <2>3. \A w \in watchers' : Known(w.exec)
        <3>1. CASE Track
            BY <3>1 DEF Track, WasSent
        <3>2. ASSUME NEW w \in watchers, NEW step, At(w, step) PROVE \A v \in watchers' : Known(v.exec)
            <4>1. w \in Watcher
                BY <1>0 DEF TypeOK
            <4>2. [w EXCEPT !.at = step].exec = w.exec
                BY <4>1 DEF Watcher
            <4> QED BY <3>2, <4>2 DEF At, WasSent
        <3>3. CASE watchers' \subseteq watchers
            BY <3>3 DEF WasSent
        <3> QED BY <3>1, <3>2, <3>3, <1>3
                DEF Next, Scheduler, Dequeue, Allocate, NoDevice, CommitAllocation, SendFails,
           CommitUnsent, SchedulerError, Handler, TakeResult, LoadResult, StoreResult, TakeOffline,
           LoadOffline, StoreOffline, TakeDone, Evaluate, StoreRetry, HandlerError, Timeout,
           Expire, WatcherLoad, WatcherStore, WatcherError, Agents, Connect, Disconnect, Answer,
           Restart, Enqueue, vars, memory, CancelTimeout, End
    <2>4. \A j \in jobs' : Known(j.exec)
        <3>1. jobs' \subseteq jobs
            BY <1>3 DEF Next, Scheduler, Dequeue, Allocate, NoDevice, CommitAllocation, Track, SendFails,
           CommitUnsent, SchedulerError, Handler, TakeResult, LoadResult, StoreResult, TakeOffline,
           LoadOffline, StoreOffline, TakeDone, Evaluate, StoreRetry, HandlerError, Timeout,
           Expire, WatcherLoad, WatcherStore, WatcherError, Agents, Connect, Disconnect, Answer,
           Restart, Enqueue, vars, world
        <3> QED BY <3>1 DEF WasSent
    <2>5. Results(bus')
        <3>0. Results(bus)
            BY DEF WasSent
        <3>1. ASSUME NEW ev, ev.type = "result" => Known(ev.exec), bus' = Append(bus, ev)
              PROVE  Results(bus')
            <4>1. DOMAIN bus' = 1..(Len(bus) + 1)
                  /\ \A i \in DOMAIN bus' : bus'[i] = IF i \in DOMAIN bus THEN bus[i] ELSE ev
                BY <1>1, <3>1
            <4> QED BY <3>0, <3>1, <4>1
        <3>2. CASE bus # <<>> /\ bus' = Tail(bus)
            <4>1. \A i \in DOMAIN bus' : i + 1 \in DOMAIN bus /\ bus'[i] = bus[i + 1]
                BY <1>1, <3>2
            <4> QED BY <3>0, <4>1
        <3>3. CASE bus' = bus \/ bus' = <<>>
            BY <3>0, <3>3
        <3>4. CASE StoreResult
            <4> DEFINE ev == [type |-> "done", exec |-> handler.exec, status |-> handler.status]
            <4>1. ev.type # "result" /\ (bus' = bus \/ bus' = Append(bus, ev))
                BY <3>4 DEF StoreResult
            <4> HIDE DEF ev
            <4> QED BY <3>1, <3>3, <4>1
        <3>5. ASSUME NEW d \in Devices, Disconnect(d) PROVE Results(bus')
            <4> DEFINE ev == [type |-> "offline", device |-> d]
            <4>1. ev.type # "result" /\ bus' = Append(bus, ev)
                BY <3>5 DEF Disconnect
            <4> HIDE DEF ev
            <4> QED BY <3>1, <4>1
        <3>6. ASSUME NEW j \in jobs, NEW outcome, Answer(j, outcome) PROVE Results(bus')
            <4> DEFINE ev == [type |-> "result", exec |-> j.exec, status |-> outcome]
            <4>1. Known(ev.exec) /\ bus' = Append(bus, ev)
                BY <3>6 DEF Answer, WasSent
            <4> HIDE DEF ev
            <4> QED BY <3>1, <4>1
        <3> QED BY <1>3, <3>2, <3>3, <3>4, <3>5, <3>6
                DEF Next, Scheduler, Dequeue, Allocate, NoDevice, CommitAllocation, Track, SendFails,
           CommitUnsent, SchedulerError, Handler, TakeResult, LoadResult, TakeOffline,
           LoadOffline, StoreOffline, TakeDone, Evaluate, StoreRetry, HandlerError, Timeout,
           Expire, WatcherLoad, WatcherStore, WatcherError, Agents, Connect,
           Restart, Enqueue, vars
    <2>6. handler'.at \in {"loadResult", "storeResult"} => Known(handler'.exec)
        <3>1. CASE TakeResult
            <4>1. Known(Event.exec)
                BY <1>1, <3>1 DEF TakeResult, Event, WasSent
            <4> QED BY <3>1, <4>1 DEF TakeResult, Resting
        <3>2. CASE LoadResult
            <4>1. handler'.exec = handler.exec /\ handler.at = "loadResult"
                BY <1>0, <3>2 DEF LoadResult, TypeOK
            <4> QED BY <4>1 DEF WasSent
        <3>3. CASE handler' = handler
            BY <3>3 DEF WasSent
        <3>4. CASE Handler /\ ~TakeResult /\ ~LoadResult
            <4> DEFINE Moved == handler'.at \in {"idle", "evaluate", "storeOffline", "storeRetry",
                                                 "loadOffline"}
            <4>1. CASE TakeOffline
                <5>1. handler' = handler \/ handler' = [Resting EXCEPT !.at = "loadOffline",
                                                                   !.exec = locked[Event.device]]
                    BY <4>1 DEF TakeOffline
                <5>2. [Resting EXCEPT !.at = "loadOffline", !.exec = locked[Event.device]].at
                      = "loadOffline"
                    BY DEF Resting
                <5> QED BY <3>3, <5>1, <5>2
            <4>2. CASE TakeDone
                <5>1. handler' = Resting
                      \/ handler' = [Resting EXCEPT !.at = "evaluate", !.exec = Event.exec]
                    BY <4>2 DEF TakeDone
                <5>2. [Resting EXCEPT !.at = "evaluate", !.exec = Event.exec].at = "evaluate"
                    BY DEF Resting
                <5>3. Moved
                    BY <5>1, <5>2, RestingType
                <5> QED BY <5>3
            <4>3. CASE StoreResult \/ StoreRetry \/ LoadOffline \/ StoreOffline \/ Evaluate \/ HandlerError
                <5>1. \/ handler' = Resting
                      \/ handler' = [handler EXCEPT !.at = "evaluate"]
                      \/ handler' = [handler EXCEPT !.at = "storeOffline"]
                      \/ handler' = [handler EXCEPT !.at = "storeRetry"]
                    BY <4>3 DEF StoreResult, StoreRetry, LoadOffline, StoreOffline, Evaluate, HandlerError
                <5>2. Moved
                    BY <1>0, <5>1, RestingType DEF TypeOK
                <5> QED BY <5>2
            <4> QED BY <3>4, <4>1, <4>2, <4>3 DEF Handler
        <3> QED BY <3>1, <3>2, <3>3, <3>4, HandlerFrame, RestingType
    <2> QED BY <2>1, <2>2, <2>3, <2>4, <2>5, <2>6 DEF WasSent
<1> QED BY <1>2, <1>3

Locks(e) == LockPlace(e) /\ LockWatch(e) /\ First(e)

Busy(e) == Handled(e, {"loadResult", "storeResult", "loadOffline", "storeOffline"})
Minded(e) == Scheduled(e, {"dequeued", "allocated", "sending", "sent", "unsent"})

\* What a step does not touch of an execution stays as it was.
LEMMA LocksFrame ==
    ASSUME NEW e \in Execs, Locks(e),
           row'[e] = row[e],
           \A d \in Devices : locked'[d] = e => locked[d] = e,
           {w \in watchers' : w.exec = e} = {w \in watchers : w.exec = e},
           Minded(e) \/ Minded(e)' => sched' = sched,
           Busy(e) \/ Busy(e)' => handler' = handler
    PROVE  Locks(e)'
<1>1. Waiting(e)' <=> Waiting(e)
    BY DEF Waiting
<1>2. (Over(e)' <=> Over(e)) /\ (Holds(e)' => Holds(e))
    BY DEF Over, Holds
<1>3. \A w : w.exec = e => (w \in watchers' <=> w \in watchers)
    OBVIOUS
<1>4. LockPlace(e)'
    BY <1>1 DEF Locks, LockPlace, Minded, Scheduled
<1>5. LockWatch(e)'
    BY <1>3 DEF Locks, LockWatch, Minded, Scheduled, Busy, Handled
<1>6. First(e)'
    BY <1>1, <1>2, <1>3 DEF Locks, First, Minded, Scheduled, Busy, Handled
<1> QED BY <1>4, <1>5, <1>6 DEF Locks

\* An execution that has been sent on its first attempt is neither waiting nor
\* about to be sent.
LEMMA FirstSent ==
    ASSUME TypeOK, NEW e \in Execs, Budget(e), row[e].retries = 0, sent[e] >= 1
    PROVE  ~Waiting(e) /\ ~Scheduled(e, {"dequeued", "allocated", "sending"})
BY Numbers DEF Budget

\* On its first attempt, the device it is locked with is the one of its row.
LEMMA FirstPlace ==
    ASSUME TypeOK, NEW e \in Execs, Budget(e), Locks(e), row[e].retries = 0, sent[e] >= 1
    PROVE  \A d \in Devices : locked[d] = e => d = row[e].device
BY FirstSent DEF Locks, LockPlace

\* What is held once a device is released was held before, on another device.
LEMMA ReleasedFrame ==
    ASSUME NEW e \in Execs, NEW x, locked' = Released(x)
    PROVE  \A d \in Devices : locked'[d] = e => locked[d] = e /\ d # x
BY EngineAssumption DEF Released

\* The scheduler's steps for its execution.
LEMMA SchedulerLocks ==
    ASSUME BInv, WasSent, Scheduler, ~SchedulerError, NEW e \in Execs, Locks(e)
    PROVE  Locks(e)'
<1>0. TypeOK /\ SchedShape /\ HandlerShape /\ Budget(e)
    BY DEF BInv
<1>1. sent[e] \in Nat /\ row[e].retries \in Nat
    BY <1>0, Numbers
<1>2. UNCHANGED handler /\ (row'[e] = row[e] \/ sched.exec = e)
    BY SchedulerRow
<1>3. CASE sched.exec # e /\ ~\E q \in Execs : Dequeue(q)
    <2>1. \A d \in Devices : locked'[d] = e => locked[d] = e
        <3>1. CASE SendFails
            BY <3>1, ReleasedFrame DEF SendFails
        <3>2. ASSUME NEW x \in Devices, Allocate(x)
              PROVE  \A d \in Devices : locked'[d] = e => locked[d] = e
            BY <1>0, <1>3, <3>2 DEF Allocate, TypeOK
        <3>3. CASE UNCHANGED locked
            BY <3>3
        <3> QED BY <1>3, <3>1, <3>2, <3>3 DEF Scheduler, NoDevice, CommitAllocation, Send, Track,
                   CommitUnsent, SchedulerError, memory
    <2>2. {w \in watchers' : w.exec = e} = {w \in watchers : w.exec = e}
        <3>1. CASE Track
            <4> DEFINE w == [exec |-> sched.exec, device |-> sched.device, no |-> sent[sched.exec],
                             at |-> "sleep"]
            <4>1. watchers' = watchers \cup {w} /\ w.exec # e
                BY <1>3, <3>1 DEF Track
            <4> HIDE DEF w
            <4> QED BY <4>1
        <3>2. CASE UNCHANGED watchers
            BY <3>2
        <3> QED BY <1>3, <3>1, <3>2 DEF Scheduler, Allocate, NoDevice, CommitAllocation, Send,
                   SendFails, CommitUnsent, SchedulerError, memory
    <2>3. ~Minded(e) /\ ~Minded(e)'
        <3>1. sched'.exec = sched.exec \/ sched' = Idle
            BY <1>0, <1>3 DEF Scheduler, Allocate, NoDevice, CommitAllocation, Send, Track, SendFails,
               CommitUnsent, SchedulerError, TypeOK
        <3> QED BY <1>3, <3>1 DEF Minded, Scheduled, Idle
    <2> QED BY <1>2, <1>3, <2>1, <2>2, <2>3, LocksFrame
<1>4. ASSUME NEW q \in Execs, Dequeue(q) PROVE Locks(e)'
    <2>1. /\ UNCHANGED <<row, locked, watchers>> /\ sched.at = "idle"
          /\ sched'.at = "dequeued" /\ sched'.exec = q /\ Waiting(q)
        BY <1>4 DEF Dequeue, memory, IsNext, Waiting
    <2>2. CASE q # e
        BY <1>2, <2>1, <2>2, LocksFrame DEF Minded, Scheduled
    <2>3. CASE q = e
        <3>1. LockPlace(e)' /\ LockWatch(e)'
            BY <1>2, <2>1, <2>3 DEF Locks, LockPlace, LockWatch, Scheduled, Waiting, Handled
        <3>2. First(e)'
            BY <1>2, <2>1, <2>3 DEF Locks, First, Scheduled, Waiting, Handled, Over, Failures, Holds
        <3> QED BY <3>1, <3>2 DEF Locks
    <2> QED BY <2>2, <2>3
<1>5. CASE NoDevice /\ sched.exec = e
    <2>1. /\ UNCHANGED <<row, locked, watchers>> /\ sched.at = "dequeued" /\ sched'.at = "idle"
          /\ Waiting(e)
        BY <1>0, <1>5 DEF NoDevice, memory, SchedShape, Waiting, Idle
    <2>2. LockPlace(e)' /\ LockWatch(e)'
        BY <1>2, <1>5, <2>1 DEF Locks, LockPlace, LockWatch, Scheduled, Waiting, Handled
    <2>3. First(e)'
        BY <1>2, <1>5, <2>1 DEF Locks, First, Scheduled, Waiting, Handled, Over, Failures, Holds
    <2> QED BY <2>2, <2>3 DEF Locks
<1>6. ASSUME NEW d \in Devices, Allocate(d), sched.exec = e PROVE Locks(e)'
    <2>1. /\ UNCHANGED <<row, watchers>> /\ sched.at = "dequeued" /\ Waiting(e)
          /\ sched'.at = "allocated" /\ sched'.exec = e /\ sched'.device = d
          /\ \A x \in Devices : locked'[x] = IF x = d THEN e ELSE locked[x]
        BY <1>0, <1>6 DEF Allocate, SchedShape, Waiting, TypeOK
    <2>2. LockPlace(e)'
        BY <1>6, <2>1 DEF Locks, LockPlace, Scheduled, Waiting
    <2>3. LockWatch(e)'
        BY <1>6, <2>1 DEF Locks, LockPlace, LockWatch, Scheduled, Waiting
    <2>4. ASSUME row[e].retries = 0 PROVE sent[e] = 0
        BY <1>0, <1>1, <1>6, <2>1, <2>4 DEF Budget
    <2>5. First(e)'
        <3>1. ASSUME row[e].retries = 0 PROVE \A w \in watchers : w.exec # e
            BY <2>4, <3>1 DEF WasSent
        <3>2. ASSUME row[e].retries = 0 PROVE ~Handled(e, {"storeResult"})
            BY <2>4, <3>2 DEF WasSent, Handled
        <3>3. ASSUME row[e].retries = 0 PROVE ~Handled(e, {"loadOffline", "storeOffline"})
            BY <1>6, <2>1, <3>3 DEF Locks, First, Scheduled
        <3> QED BY <1>2, <2>1, <3>1, <3>2, <3>3 DEF First, Scheduled, Handled, Over, Waiting, Failures
    <2> QED BY <2>2, <2>3, <2>5 DEF Locks
<1>7. CASE CommitAllocation /\ sched.exec = e
    <2>1. /\ UNCHANGED <<locked, watchers>> /\ sched.at = "allocated" /\ Waiting(e)
          /\ sched'.at = "sending" /\ sched'.exec = e /\ sched'.device = sched.device
          /\ row'[e].status = "running" /\ row'[e].device = sched.device
          /\ row'[e].retries = row[e].retries
        BY <1>0, <1>7, SchedulerRow DEF CommitAllocation, SchedShape, Waiting, TypeOK, memory
    <2>2. LockPlace(e)' /\ LockWatch(e)'
        BY <1>7, <2>1 DEF Locks, LockPlace, LockWatch, Scheduled, Waiting
    <2>3. ASSUME row[e].retries = 0 PROVE sent[e] = 0
        BY <1>0, <1>1, <1>7, <2>1, <2>3 DEF Budget
    <2>4. First(e)'
        <3>1. ASSUME row[e].retries = 0 PROVE \A w \in watchers : w.exec # e
            BY <2>3, <3>1 DEF WasSent
        <3>2. ASSUME row[e].retries = 0 PROVE ~Handled(e, {"storeResult"})
            BY <2>3, <3>2 DEF WasSent, Handled
        <3> QED BY <1>2, <2>1, <3>1, <3>2 DEF Locks, First, Scheduled, Handled, Over, Waiting, Failures, Holds
    <2> QED BY <2>2, <2>4 DEF Locks
<1>8. CASE Send /\ sched.exec = e
    <2>1. /\ UNCHANGED <<row, locked, watchers>> /\ sched.at = "sending"
          /\ sched'.at = "sent" /\ sched'.exec = e /\ sched'.device = sched.device
        BY <1>0, <1>8 DEF Send, memory, TypeOK
    <2>2. LockPlace(e)' /\ LockWatch(e)'
        BY <1>2, <1>8, <2>1 DEF Locks, LockPlace, LockWatch, Scheduled, Waiting, Handled
    <2>3. First(e)'
        BY <1>2, <1>8, <2>1 DEF Locks, First, Scheduled, Waiting, Handled, Over, Holds
    <2> QED BY <2>2, <2>3 DEF Locks
<1>9. CASE Track /\ sched.exec = e
    <2> DEFINE w == [exec |-> sched.exec, device |-> sched.device, no |-> sent[sched.exec],
                     at |-> "sleep"]
    <2>1. /\ UNCHANGED <<row, locked>> /\ sched.at = "sent" /\ sched'.at = "idle"
          /\ watchers' = watchers \cup {w}
          /\ w.exec = e /\ w.device = sched.device /\ w.at = "sleep"
        BY <1>9 DEF Track, Idle
    <2> HIDE DEF w
    <2>2. LockPlace(e)'
        BY <1>9, <2>1 DEF Locks, LockPlace, Scheduled, Waiting
    <2>3. LockWatch(e)'
        BY <1>2, <1>9, <2>1 DEF Locks, LockWatch, Scheduled, Handled
    <2>4. First(e)'
        BY <1>2, <1>9, <2>1 DEF Locks, First, Scheduled, Waiting, Handled, Over, Holds
    <2> QED BY <2>2, <2>3, <2>4 DEF Locks
<1>10. CASE SendFails /\ sched.exec = e
    <2>1. /\ UNCHANGED <<row, watchers>> /\ sched.at = "sending"
          /\ sched'.at = "unsent" /\ sched'.exec = e /\ sched'.device = sched.device
        BY <1>0, <1>10 DEF SendFails, TypeOK
    <2>0. \A d \in Devices : locked'[d] = e => locked[d] = e /\ d # sched.device
        BY <1>10, ReleasedFrame DEF SendFails
    <2>2. LockPlace(e)' /\ LockWatch(e)'
        BY <1>2, <1>10, <2>0, <2>1 DEF Locks, LockPlace, LockWatch, Scheduled, Waiting, Handled
    <2>3. ASSUME row[e].retries = 0 PROVE ~Holds(e)'
        <3>1. ~Waiting(e)
            BY <1>0, <1>1, <1>10, <2>1, <2>3 DEF Budget, Scheduled
        <3>2. row[e].device = sched.device
            BY <1>10, <2>1, <2>3 DEF Locks, First, Scheduled
        <3> QED BY <2>0, <2>3, <3>1, <3>2 DEF Locks, LockPlace, Holds
    <2>4. First(e)'
        BY <1>2, <1>10, <2>0, <2>1, <2>3 DEF Locks, First, Scheduled, Waiting, Handled, Over
    <2> QED BY <2>2, <2>4 DEF Locks
<1>11. CASE CommitUnsent /\ sched.exec = e
    <2>1. /\ UNCHANGED <<locked, watchers>> /\ sched.at = "unsent" /\ sched'.at = "idle"
          /\ row'[e].status = "failed" /\ row'[e].device = row[e].device
          /\ row'[e].retries = row[e].retries
        BY <1>11, SchedulerRow DEF CommitUnsent, memory, Idle
    <2>2. LockPlace(e)' /\ LockWatch(e)'
        BY <1>2, <1>11, <2>1 DEF Locks, LockPlace, LockWatch, Scheduled, Waiting, Handled
    <2>3. First(e)'
        BY <1>2, <1>11, <2>1 DEF Locks, First, Scheduled, Waiting, Handled, Over, Failures, Holds
    <2> QED BY <2>2, <2>3 DEF Locks
<1> QED BY <1>3, <1>4, <1>5, <1>6, <1>7, <1>8, <1>9, <1>10, <1>11 DEF Scheduler

\* The steps of the event handlers.
LEMMA HandlerLocks ==
    ASSUME BInv, WasSent, Handler, ~HandlerError, NEW e \in Execs, Locks(e)
    PROVE  Locks(e)'
<1>0. TypeOK /\ SchedShape /\ HandlerShape /\ Budget(e)
    BY DEF BInv
<1>1. sent[e] \in Nat /\ row[e].retries \in Nat /\ UNCHANGED sched
    BY <1>0, Numbers, OthersFrame DEF Others
<1>2. ASSUME NEW q, CancelTimeout(q), q # e
      PROVE  {w \in watchers' : w.exec = e} = {w \in watchers : w.exec = e}
    BY <1>2 DEF CancelTimeout
<1>3. ASSUME NEW q, CancelTimeout(q) PROVE watchers' \subseteq watchers
    BY <1>3 DEF CancelTimeout
<1>4. CASE TakeResult
    <2>1. /\ handler.at = "idle" /\ handler'.at = "loadResult" /\ handler'.exec = Event.exec
          /\ UNCHANGED <<row, locked>> /\ CancelTimeout(Event.exec)
        BY <1>4 DEF TakeResult, Resting
    <2>2. CASE Event.exec # e
        BY <1>1, <1>2, <2>1, <2>2, LocksFrame DEF Busy, Handled
    <2>3. CASE Event.exec = e
        <3>1. LockPlace(e)'
            BY <1>1, <2>1 DEF Locks, LockPlace, Waiting, Scheduled
        <3>2. LockWatch(e)'
            BY <1>1, <2>1, <2>3 DEF Locks, LockPlace, LockWatch, Waiting, Scheduled, Handled
        <3>3. First(e)'
            BY <1>1, <1>3, <2>1, <2>3 DEF Locks, First, Waiting, Scheduled, Handled, Over, Holds
        <3> QED BY <3>1, <3>2, <3>3 DEF Locks
    <2> QED BY <2>2, <2>3
<1>5. CASE LoadResult
    <2>1. /\ handler.at = "loadResult" /\ handler'.at = "storeResult" /\ handler'.exec = handler.exec
          /\ handler'.row.device = row[handler.exec].device
          /\ UNCHANGED <<row, locked, watchers>>
        BY <1>0, <1>5 DEF LoadResult, TypeOK, memory
    <2>2. CASE handler.exec # e
        BY <1>1, <2>1, <2>2, LocksFrame DEF Busy, Handled
    <2>3. CASE handler.exec = e
        <3>1. LockPlace(e)'
            BY <1>1, <2>1 DEF Locks, LockPlace, Waiting, Scheduled
        <3>2. LockWatch(e)'
            BY <1>1, <2>1, <2>3 DEF Locks, LockWatch, Waiting, Scheduled, Handled
        <3>3. First(e)'
            BY <1>1, <2>1, <2>3 DEF Locks, First, Waiting, Scheduled, Handled, Over, Holds
        <3> QED BY <3>1, <3>2, <3>3 DEF Locks
    <2> QED BY <2>2, <2>3
<1>6. CASE StoreResult
    <2>1. /\ handler.at = "storeResult" /\ handler'.at = "idle" /\ UNCHANGED watchers
          /\ handler.exec \in Execs /\ handler.status \in {"passed", "failed"}
          /\ RowFree(handler.exec)
        BY <1>0, <1>6 DEF StoreResult, HandlerShape, Resting
    <2>2. \A d \in Devices : locked'[d] = e => locked[d] = e /\ d # handler.row.device
        BY <1>6, ReleasedFrame DEF StoreResult
    <2>3. CASE handler.exec # e
        <3>1. row'[e] = row[e]
            BY <1>0, <1>6, <2>3 DEF StoreResult, TypeOK
        <3> QED BY <1>1, <2>1, <2>2, <2>3, <3>1, LocksFrame DEF Busy, Handled
    <2>4. CASE handler.exec = e
        <3>1. /\ row'[e].device = row[e].device /\ row'[e].retries = row[e].retries
              /\ row'[e].status = row[e].status \/ row'[e].status \in {"passed", "failed"}
            BY <1>0, <1>6, <2>1, <2>4, SetStatusRow DEF StoreResult, SetStatus
        <3>2. ~Scheduled(e, {"allocated"})
            BY <2>1, <2>4 DEF RowFree, Scheduled
        <3>3. LockPlace(e)'
            BY <1>1, <2>2, <3>1, <3>2 DEF Locks, LockPlace, Waiting, Scheduled
        <3>4. LockWatch(e)'
            BY <1>1, <2>1, <2>2, <2>4, <3>1 DEF Locks, LockWatch, Waiting, Scheduled, Handled
        <3>5. ASSUME row[e].retries = 0 PROVE ~Holds(e)'
            <4>1. \A d \in Devices : locked[d] = e => d = row[e].device
                BY <1>0, <2>1, <2>4, <3>5, FirstPlace DEF WasSent
            <4>2. handler.row.device = row[e].device
                BY <2>1, <2>4, <3>5 DEF Locks, First, Handled
            <4> QED BY <2>2, <4>1, <4>2 DEF Holds
        <3>6. First(e)'
            BY <1>1, <2>1, <3>1, <3>5 DEF Locks, First, Waiting, Scheduled, Handled
        <3> QED BY <3>3, <3>4, <3>6 DEF Locks
    <2> QED BY <2>3, <2>4
<1>7. CASE TakeOffline
    <2> DEFINE x == Event.device
               q == locked[x]
    <2>1. UNCHANGED row /\ handler.at = "idle" /\ x \in Devices
        <3>1. Event \in Events /\ Event.type = "offline"
            BY <1>0, <1>7, TakenType DEF TakeOffline
        <3> QED BY <1>7, <3>1 DEF TakeOffline, Events
    <2>2. CASE q = None
        BY <1>1, <1>7, <2>1, <2>2, LocksFrame DEF TakeOffline, memory
    <2>3. CASE q # None
        <3>1. CancelTimeout(q) /\ locked' = Released(x)
              /\ handler' = [Resting EXCEPT !.at = "loadOffline", !.exec = q]
            BY <1>7, <2>3 DEF TakeOffline
        <3>2. handler'.at = "loadOffline" /\ handler'.exec = q
            BY <3>1 DEF Resting
        <3>3. \A d \in Devices : locked'[d] = e => locked[d] = e /\ d # x
            BY <3>1, ReleasedFrame
        <3> HIDE DEF x, q
        <3>4. CASE q # e
            BY <1>1, <1>2, <2>1, <3>1, <3>2, <3>3, <3>4, LocksFrame DEF Busy, Handled
        <3>5. CASE q = e
            <4>0. locked[x] = e
                BY <3>5 DEF q
            <4>1. ASSUME row[e].retries <= 1 PROVE ~Holds(e)'
                BY <2>1, <3>3, <4>0, <4>1 DEF Locks, LockPlace, Holds
            <4>2. LockPlace(e)' /\ LockWatch(e)'
                BY <2>1, <4>1 DEF LockPlace, LockWatch, Holds
            <4>3. row[e].retries = 0 => (Waiting(e) => Scheduled(e, {"allocated"}))
                BY <2>1, <4>0 DEF Locks, LockPlace
            <4>4. First(e)'
                BY <1>1, <1>3, <2>1, <3>1, <3>2, <3>5, <4>1, <4>3
                   DEF Locks, First, Waiting, Scheduled, Handled, Over
            <4> QED BY <4>2, <4>4 DEF Locks
        <3> QED BY <3>4, <3>5
    <2> QED BY <2>2, <2>3
<1>8. CASE LoadOffline
    <2>1. /\ handler.at = "loadOffline" /\ handler'.at \in {"storeOffline", "evaluate"}
          /\ handler'.exec = handler.exec /\ UNCHANGED <<row, locked, watchers>>
        BY <1>0, <1>8 DEF LoadOffline, TypeOK, memory
    <2>2. CASE handler.exec # e
        BY <1>1, <2>1, <2>2, LocksFrame DEF Busy, Handled
    <2>3. CASE handler.exec = e
        <3>1. LockPlace(e)' /\ LockWatch(e)'
            BY <1>1, <2>1, <2>3 DEF Locks, LockPlace, LockWatch, Waiting, Scheduled, Handled
        <3>2. First(e)'
            BY <1>1, <2>1, <2>3 DEF Locks, First, Waiting, Scheduled, Handled, Over, Holds
        <3> QED BY <3>1, <3>2 DEF Locks
    <2> QED BY <2>2, <2>3
<1>9. CASE StoreOffline
    <2>1. /\ handler.at = "storeOffline" /\ handler'.at = "evaluate" /\ handler'.exec = handler.exec
          /\ UNCHANGED <<locked, watchers>> /\ RowFree(handler.exec)
          /\ handler.exec \in Execs /\ SetStatus(handler.exec, "failed")
        BY <1>0, <1>9 DEF StoreOffline, TypeOK, memory, HandlerShape
    <2>2. CASE handler.exec # e
        <3>1. row'[e] = row[e]
            BY <1>0, <2>1, <2>2, SetStatusRow
        <3> QED BY <1>1, <2>1, <2>2, <3>1, LocksFrame DEF Busy, Handled
    <2>3. CASE handler.exec = e
        <3>1. /\ row'[e].device = row[e].device /\ row'[e].retries = row[e].retries
              /\ row'[e].status = "failed"
            BY <1>0, <2>1, <2>3, SetStatusRow
        <3>2. ~Scheduled(e, {"allocated"})
            BY <2>1, <2>3 DEF RowFree, Scheduled
        <3>3. LockPlace(e)' /\ LockWatch(e)'
            BY <1>1, <2>1, <2>3, <3>1, <3>2 DEF Locks, LockPlace, LockWatch, Waiting, Scheduled, Handled
        <3>4. First(e)'
            BY <1>1, <2>1, <2>3, <3>1, <3>2 DEF Locks, First, Waiting, Scheduled, Handled, Over, Holds
        <3> QED BY <3>3, <3>4 DEF Locks
    <2> QED BY <2>2, <2>3
<1>10. CASE TakeDone \/ Evaluate
    <2>1. handler.at \in {"idle", "evaluate"} /\ UNCHANGED <<row, locked, watchers>>
        BY <1>10 DEF TakeDone, Evaluate, memory
    <2>2. handler'.at \in {"idle", "evaluate", "storeRetry"}
        <3>1. \/ handler' = Resting
              \/ handler' = [Resting EXCEPT !.at = "evaluate", !.exec = Event.exec]
              \/ handler' = [handler EXCEPT !.at = "storeRetry"]
            BY <1>10 DEF TakeDone, Evaluate
        <3>2. [Resting EXCEPT !.at = "evaluate", !.exec = Event.exec].at = "evaluate"
            BY DEF Resting
        <3>3. [handler EXCEPT !.at = "storeRetry"].at = "storeRetry"
            BY <1>0 DEF TypeOK
        <3> QED BY <3>1, <3>2, <3>3, RestingType
    <2> QED BY <1>1, <2>1, <2>2, LocksFrame DEF Busy, Handled
<1>11. CASE StoreRetry
    <2>1. /\ handler.at = "storeRetry" /\ handler'.at = "idle" /\ UNCHANGED <<locked, watchers>>
          /\ handler.exec \in Execs /\ row[handler.exec].status \in Failures
        BY <1>0, <1>11 DEF StoreRetry, HandlerShape, memory, Resting
    <2>2. CASE handler.exec # e
        <3>1. row'[e] = row[e]
            BY <1>0, <1>11, <2>2 DEF StoreRetry, TypeOK
        <3> QED BY <1>1, <2>1, <2>2, <3>1, LocksFrame DEF Busy, Handled
    <2>3. CASE handler.exec = e
        <3>1. row'[e].retries = row[e].retries + 1
            BY <1>0, <1>11, <2>1, <2>3 DEF StoreRetry, TypeOK
        <3>2. CASE row[e].retries = 0
            <4>1. ~Holds(e)'
                BY <2>1, <2>3, <3>2 DEF Locks, First, Over, Holds
            <4> QED BY <3>1, <3>2, <4>1 DEF Locks, LockPlace, LockWatch, First, Holds
        <3>3. CASE row[e].retries >= 1
            BY <1>1, <3>1, <3>3 DEF Locks, LockPlace, LockWatch, First
        <3> QED BY <1>1, <3>2, <3>3
    <2> QED BY <2>2, <2>3
<1> QED BY <1>4, <1>5, <1>6, <1>7, <1>8, <1>9, <1>10, <1>11 DEF Handler

\* The steps of watchers.
LEMMA WatcherLocks ==
    ASSUME BInv, WasSent, NEW w \in watchers, Expire(w) \/ WatcherLoad(w) \/ WatcherStore(w),
           NEW e \in Execs, Locks(e)
    PROVE  Locks(e)'
<1>0. TypeOK /\ Budget(e) /\ w \in Watcher
    BY DEF BInv, TypeOK
<1>1. UNCHANGED <<sched, handler>>
    BY DEF Expire, WatcherLoad, WatcherStore
<1>2. ASSUME NEW step, At(w, step)
      PROVE  /\ [w EXCEPT !.at = step].exec = w.exec
             /\ [w EXCEPT !.at = step].device = w.device
             /\ [w EXCEPT !.at = step].at = step
             /\ \A v : v \in watchers' <=> (v \in watchers /\ v # w) \/ v = [w EXCEPT !.at = step]
    BY <1>0, <1>2 DEF At, Watcher
<1>3. CASE Expire(w)
    <2>1. /\ w.at = "sleep" /\ At(w, "load") /\ UNCHANGED row
          /\ \A d \in Devices : locked'[d] = e => locked[d] = e /\ d # w.device
        BY <1>3, ReleasedFrame DEF Expire
    <2>2. CASE w.exec # e
        <3>1. {v \in watchers' : v.exec = e} = {v \in watchers : v.exec = e}
            <4> DEFINE m == [w EXCEPT !.at = "load"]
            <4>1. m.exec = w.exec /\ watchers' = (watchers \ {w}) \cup {m}
                BY <1>2, <2>1 DEF At
            <4> HIDE DEF m
            <4> QED BY <2>2, <4>1
        <3> QED BY <1>1, <2>1, <3>1, LocksFrame
    <2>3. CASE w.exec = e
        <3>1. LockPlace(e)'
            BY <1>1, <2>1 DEF Locks, LockPlace, Waiting, Scheduled
        <3>2. LockWatch(e)'
            <4>1. \A v \in watchers : v # w => v \in watchers'
                BY <1>2, <2>1
            <4> QED BY <1>1, <2>1, <4>1 DEF Locks, LockWatch, Scheduled, Handled
        <3>3. ASSUME row[e].retries = 0 PROVE ~Holds(e)' /\ w.device = row[e].device
            <4>1. \A d \in Devices : locked[d] = e => d = row[e].device
                BY <1>0, <2>3, <3>3, FirstPlace DEF WasSent
            <4>2. w.device = row[e].device
                BY <2>3, <3>3 DEF Locks, First
            <4> QED BY <2>1, <4>1, <4>2 DEF Holds
        <3>4. ASSUME row[e].retries = 0
              PROVE  \A v \in watchers' : v.exec = e =>
                         v.device = row[e].device /\ (v.at # "sleep" => ~Holds(e)')
            BY <1>2, <2>1, <3>3, <3>4 DEF Locks, First
        <3>5. First(e)'
            BY <1>1, <2>1, <3>3, <3>4 DEF Locks, First, Waiting, Scheduled, Handled, Over
        <3> QED BY <3>1, <3>2, <3>5 DEF Locks
    <2> QED BY <2>2, <2>3
<1>4. ASSUME UNCHANGED <<row, locked>>, w.at = "load", At(w, "store")
      PROVE  Locks(e)'
    <2>1. LockPlace(e)'
        BY <1>1, <1>4 DEF Locks, LockPlace, Waiting, Scheduled
    <2>2. LockWatch(e)'
        <3>1. \A v \in watchers : v.at = "sleep" => v \in watchers'
            BY <1>2, <1>4
        <3> QED BY <1>1, <1>4, <3>1 DEF Locks, LockWatch, Scheduled, Handled
    <2>3. ASSUME row[e].retries = 0
          PROVE  \A v \in watchers' : v.exec = e =>
                     v.device = row[e].device /\ (v.at # "sleep" => ~Holds(e))
        BY <1>2, <1>4, <2>3 DEF Locks, First
    <2>4. First(e)'
        BY <1>1, <1>4, <2>3 DEF Locks, First, Waiting, Scheduled, Handled, Over, Holds
    <2> QED BY <2>1, <2>2, <2>4 DEF Locks
<1>5. ASSUME UNCHANGED <<row, locked>>, w.at # "sleep", End(w)
      PROVE  Locks(e)'
    <2>1. LockPlace(e)'
        BY <1>1, <1>5 DEF Locks, LockPlace, Waiting, Scheduled
    <2>2. LockWatch(e)'
        BY <1>1, <1>5 DEF Locks, LockWatch, Scheduled, Handled, End
    <2>3. First(e)'
        BY <1>1, <1>5 DEF Locks, First, Waiting, Scheduled, Handled, Over, Holds, End
    <2> QED BY <2>1, <2>2, <2>3 DEF Locks
<1>6. CASE WatcherLoad(w)
    <2>1. w.at = "load" /\ UNCHANGED <<row, locked>> /\ (At(w, "store") \/ End(w))
        BY <1>6 DEF WatcherLoad
    <2> QED BY <1>4, <1>5, <2>1
<1>7. CASE WatcherStore(w)
    <2>1. /\ w.at = "store" /\ RowFree(w.exec) /\ SetStatus(w.exec, "timeout") /\ End(w)
          /\ UNCHANGED locked /\ w.exec \in Execs
        BY <1>0, <1>7 DEF WatcherStore, Watcher
    <2>2. watchers' = watchers \ {w}
        BY <2>1 DEF End
    <2>3. CASE w.exec # e
        <3>1. row'[e] = row[e]
            BY <1>0, <2>1, <2>3, SetStatusRow
        <3>2. {v \in watchers' : v.exec = e} = {v \in watchers : v.exec = e}
            BY <2>2, <2>3
        <3> QED BY <1>1, <2>1, <3>1, <3>2, LocksFrame
    <2>4. CASE w.exec = e
        <3>1. /\ row'[e].device = row[e].device /\ row'[e].retries = row[e].retries
              /\ row'[e].status = "timeout"
            BY <1>0, <2>1, <2>4, SetStatusRow
        <3>2. ~Scheduled(e, {"allocated"})
            BY <2>1, <2>4 DEF RowFree, Scheduled
        <3>3. LockPlace(e)'
            BY <1>1, <2>1, <3>1, <3>2 DEF Locks, LockPlace, Waiting, Scheduled
        <3>4. LockWatch(e)'
            BY <1>1, <2>1, <2>2, <3>1 DEF Locks, LockWatch, Scheduled, Handled
        <3>5. First(e)'
            BY <1>1, <2>1, <2>2, <2>4, <3>1, <3>2
               DEF Locks, First, Waiting, Scheduled, Handled, Over, Holds
        <3> QED BY <3>3, <3>4, <3>5 DEF Locks
    <2> QED BY <2>3, <2>4
<1> QED BY <1>3, <1>6, <1>7

\* The agents and callers have no part in it.
LEMMA OtherLocks ==
    ASSUME BInv, Agents \/ (\E q \in Execs : Enqueue(q)) \/ UNCHANGED vars, NEW e \in Execs, Locks(e)
    PROVE  Locks(e)'
<1>0. TypeOK
    BY DEF BInv
<1>1. UNCHANGED <<sched, handler, locked, watchers>>
    BY DEF Agents, Connect, Disconnect, Answer, Enqueue, memory, vars
<1>2. CASE row'[e] = row[e]
    BY <1>1, <1>2, LocksFrame
<1>3. ASSUME NEW q \in Execs, Enqueue(q) PROVE Locks(e)'
    <2>1. CASE q # e
        <3>1. row'[e] = row[e]
            BY <1>0, <1>3, <2>1, SetStatusRow DEF Enqueue
        <3> QED BY <1>2, <3>1
    <2>2. CASE q = e
        <3>1. /\ row'[e].device = row[e].device /\ row'[e].retries = row[e].retries
              /\ row[e].status = "new" /\ row'[e].status = "queued"
            BY <1>0, <1>3, <2>2, SetStatusRow DEF Enqueue
        <3>2. LockPlace(e)' /\ LockWatch(e)'
            BY <1>1, <3>1 DEF Locks, LockPlace, LockWatch, Waiting, Scheduled, Handled
        <3>3. First(e)'
            BY <1>1, <3>1 DEF Locks, First, Waiting, Scheduled, Handled, Over, Failures, Holds
        <3> QED BY <3>2, <3>3 DEF Locks
    <2> QED BY <2>1, <2>2
<1>4. CASE Agents \/ UNCHANGED vars
    BY <1>2, <1>4 DEF Agents, Connect, Disconnect, Answer, vars
<1> QED BY <1>3, <1>4

LEMMA NextLocks == BInv /\ WasSent /\ LockInv /\ [Next]_vars => LockInv'
<1> SUFFICES ASSUME BInv, WasSent, LockInv, [Next]_vars, trouble' = 0, NEW e \in Execs
             PROVE  Locks(e)'
    BY DEF LockInv, Locks
<1>1. Locks(e)
    BY Undisturbed DEF LockInv, Locks
<1>2. CASE Scheduler
    BY <1>1, <1>2, SchedulerLocks, Undisturbed
<1>3. CASE Handler
    BY <1>1, <1>3, HandlerLocks, Undisturbed
<1>4. CASE Timeout
    BY <1>1, <1>4, WatcherLocks, Undisturbed DEF Timeout
<1>5. CASE Agents \/ (\E q \in Execs : Enqueue(q)) \/ UNCHANGED vars
    BY <1>1, <1>5, OtherLocks
<1> QED BY <1>2, <1>3, <1>4, <1>5, Undisturbed DEF Next

LEMMA InitLocks == Init => WasSent /\ LockInv
<1> SUFFICES ASSUME Init PROVE WasSent /\ LockInv
    OBVIOUS
<1>1. WasSent
    BY DEF Init, WasSent, Idle, Resting
<1>2. ASSUME NEW e \in Execs PROVE ~Holds(e) /\ Locks(e)
    <2>1. \A d \in Devices : locked[d] # e
        BY EngineAssumption DEF Init
    <2>2. LockPlace(e) /\ LockWatch(e) /\ ~Holds(e)
        BY <2>1 DEF LockPlace, LockWatch, Holds
    <2>3. First(e)
        BY DEF Init, First, Over, Failures, Scheduled, Handled, Idle, Resting
    <2> QED BY <2>2, <2>3 DEF Locks
<1> QED BY <1>1, <1>2 DEF LockInv, Locks

\* runner.py:13, engine.py:12: without errors and restarts, an execution that
\* was retried at most once leaves no device locked, however many executions,
\* devices, timeouts and disconnects there are.
THEOREM LocksWatched == Spec => []LockIsWatched
<1>1. Init => BInv /\ WasSent /\ LockInv
    BY InitBInv, InitLocks
<1>2. BInv /\ WasSent /\ LockInv /\ [Next]_vars => (BInv /\ WasSent /\ LockInv)'
    BY NextBInv, NextWasSent, NextLocks
<1>3. BInv /\ LockInv => LockIsWatched
    <2> SUFFICES ASSUME BInv, LockInv, trouble = 0, NEW d \in Devices, locked[d] # None,
                        row[locked[d]].retries <= 1
                 PROVE  LET e == locked[d] IN
                            \/ /\ sched.at \in {"allocated", "sending", "sent"}
                               /\ sched.exec = e /\ sched.device = d
                            \/ \E w \in watchers : w.exec = e /\ w.device = d /\ w.at = "sleep"
                            \/ handler.at = "loadResult" /\ handler.exec = e /\ row[e].device = d
                            \/ handler.at = "storeResult" /\ handler.exec = e /\ handler.row.device = d
        BY DEF LockIsWatched
    <2>1. locked[d] \in Execs
        BY DEF BInv, TypeOK
    <2>2. LockWatch(locked[d])
        BY <2>1 DEF LockInv
    <2> QED BY <2>2 DEF LockWatch, Scheduled, Handled
<1> QED BY <1>1, <1>2, <1>3, PTL DEF Spec
==============================================================================

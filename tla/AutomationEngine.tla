--------------------------- MODULE AutomationEngine ---------------------------
(***************************************************************************)
(* The execution pipeline of the earlier design: the scheduler loop        *)
(* (automation/engine.py), the queue in the database (queue.py), the       *)
(* in-memory device locks (allocator.py), the timeout watchers and result  *)
(* handlers (runner.py) and the retries (recovery.py).                     *)
(*                                                                         *)
(* One task runs the scheduler, the event bus runs one handler at a time,  *)
(* and each dispatched execution has a watcher task.  An action is what a  *)
(* task does between two awaits; a commit is one step with what follows it *)
(* up to the next await.  The scheduler's SELECT ... FOR UPDATE locks its  *)
(* row until its first commit, and other writers of the row wait.          *)
(*                                                                         *)
(* Test results are abstracted to pass or fail, error messages to whether  *)
(* they are worth a retry, the device's platform and capabilities to the   *)
(* set of devices an execution may use.                                    *)
(***************************************************************************)
EXTENDS Integers, Sequences, FiniteSets

CONSTANTS
    Execs,       \* executions ever submitted, each once
    Devices,
    Matches,     \* the devices that satisfy an execution's filters
    Requested,   \* the device an execution explicitly asks for, or None
    MaxRetries,  \* max_retries of every execution
    None,        \* no device, no execution
    MaxMishaps   \* bound: disconnects, database errors, full-bus errors and restarts

ASSUME EngineAssumption ==
    /\ Matches \in [Execs -> SUBSET Devices]
    /\ Requested \in [Execs -> Devices \cup {None}]
    /\ None \notin Devices \cup Execs
    /\ {MaxRetries, MaxMishaps} \subseteq Nat

VARIABLES
    row,       \* automation_executions, as committed
    earlier,   \* pairs of executions, the first with the earlier queued_at
    sched,     \* the scheduler: its await, its execution and the device locked
    locked,    \* _locked: the execution that holds a device
    tasks,     \* _timeout_tasks: the number of an execution's watcher, or 0
    watchers,  \* watcher tasks that have not ended
    sent,      \* how often an execution has been sent, which numbers watchers
    handler,   \* the event bus: the handler that runs, its execution, the
               \* columns it has loaded, the status it will store
    bus,       \* events queued
    jobs,      \* executions under way on the agents
    connected,
    drops,
    trouble

memory == <<locked, tasks, watchers>>
world == <<jobs, connected, drops, trouble>>
vars == <<row, earlier, sched, memory, sent, handler, bus, world>>

Active == {"running"}   \* allocated and installing are never committed
Failures == {"failed", "timeout"}
Status == {"new", "queued", "passed"} \cup Active \cup Failures
Attempts == 0..MaxRetries + 1
Columns == [status : Status, device : Devices \cup {None}]
Watcher == [exec : Execs, device : Devices, no : Attempts, at : {"sleep", "load", "store"}]

Idle == [at |-> "idle", exec |-> None, device |-> None]
Resting == [at |-> "idle", exec |-> None, row |-> [status |-> "new", device |-> None],
            status |-> "new"]

TypeOK ==
    /\ row \in [Execs -> [status : Status, device : Devices \cup {None},
                          retries : 0..MaxRetries]]
    /\ earlier \subseteq Execs \X Execs
    /\ sched \in [at : {"idle", "dequeued", "allocated", "sending", "sent", "unsent"},
                  exec : Execs \cup {None}, device : Devices \cup {None}]
    /\ locked \in [Devices -> Execs \cup {None}]
    /\ tasks \in [Execs -> Attempts]
    /\ watchers \subseteq Watcher
    /\ sent \in [Execs -> Attempts]
    /\ handler \in [at : {"idle", "loadResult", "storeResult", "loadOffline",
                          "storeOffline", "evaluate", "storeRetry"},
                    exec : Execs \cup {None}, row : Columns, status : Status]
    /\ bus \in Seq([type : {"result", "done"}, exec : Execs, status : {"passed", "failed"}]
                   \cup [type : {"offline"}, device : Devices])
    /\ jobs \subseteq [exec : Execs, device : Devices, no : Attempts]
    /\ connected \subseteq Devices
    /\ drops \in 0..MaxMishaps /\ trouble \in 0..MaxMishaps

Init ==
    /\ row = [e \in Execs |-> [status |-> "new", device |-> Requested[e], retries |-> 0]]
    /\ earlier = {}
    /\ sched = Idle
    /\ locked = [d \in Devices |-> None]
    /\ tasks = [e \in Execs |-> 0]
    /\ watchers = {}
    /\ sent = [e \in Execs |-> 0]
    /\ handler = Resting
    /\ bus = <<>>
    /\ jobs = {} /\ connected = {}
    /\ drops = 0 /\ trouble = 0

Mishap == drops + trouble < MaxMishaps
Trouble == Mishap /\ trouble' = trouble + 1

\* A writer of a row waits for the scheduler's transaction.
RowFree(e) == ~(sched.exec = e /\ sched.at \in {"dequeued", "allocated"})

SetStatus(e, s) == row' = [row EXCEPT ![e].status = s]

Free(d) == d \in connected /\ locked[d] = None

\* release: whoever holds the device.
Released(d) == [x \in Devices |-> IF x = d THEN None ELSE locked[x]]

\* _cancel_timeout
CancelTimeout(e) ==
    /\ tasks' = [tasks EXCEPT ![e] = 0]
    /\ watchers' = {w \in watchers : w.exec # e \/ w.no # tasks[e]}

-----------------------------------------------------------------------------
(* The queue. *)

\* queued_at is now: e comes after every other execution.
Behind(e) == {p \in earlier : p[1] # e}
             \cup {x \in Execs \ {e} : row[x].status # "new"} \X {e}

Enqueue(e) ==
    /\ row[e].status = "new"
    /\ SetStatus(e, "queued")
    /\ earlier' = Behind(e)
    /\ UNCHANGED <<sched, memory, sent, handler, bus, world>>

\* A retry's priority is one better; the others have the same.
Rank(e) == -row[e].retries

\* ORDER BY priority, queued_at LIMIT 1
IsNext(e) ==
    /\ row[e].status = "queued"
    /\ \A x \in Execs \ {e} : row[x].status = "queued" =>
          \/ Rank(e) < Rank(x)
          \/ Rank(e) = Rank(x) /\ <<e, x>> \in earlier

-----------------------------------------------------------------------------
(* The scheduler loop: _process_queue. *)

\* If a device is available, SELECT ... FOR UPDATE, mark allocated and flush.
Dequeue(e) ==
    /\ sched.at = "idle"
    /\ \E d \in Devices : Free(d)
    /\ IsNext(e)
    /\ sched' = [at |-> "dequeued", exec |-> e, device |-> None]
    /\ UNCHANGED <<row, earlier, memory, sent, handler, bus, world>>

\* The device asked for, or one that matches; which one is least recently used
\* is left open.
Candidates(e) ==
    {d \in (IF row[e].device # None THEN {row[e].device} ELSE Matches[e]) : Free(d)}

Allocate(d) ==
    /\ sched.at = "dequeued"
    /\ d \in Candidates(sched.exec)
    /\ locked' = [locked EXCEPT ![d] = sched.exec]
    /\ sched' = [sched EXCEPT !.at = "allocated", !.device = d]
    /\ UNCHANGED <<row, earlier, tasks, watchers, sent, handler, bus, world>>

\* Put back where it was.  A device that is connected may not be online in the
\* database, which is asked unless a device was requested.
NoDevice ==
    /\ sched.at = "dequeued"
    /\ Candidates(sched.exec) = {} \/ row[sched.exec].device = None
    /\ sched' = Idle
    /\ UNCHANGED <<row, earlier, memory, sent, handler, bus, world>>

CommitAllocation ==
    /\ sched.at = "allocated"
    /\ row' = [row EXCEPT ![sched.exec].status = "running",
                          ![sched.exec].device = sched.device]
    /\ sched' = [sched EXCEPT !.at = "sending"]
    /\ UNCHANGED <<earlier, memory, sent, handler, bus, world>>

\* The agent has the command and may answer before the coroutine resumes.
Send ==
    /\ sched.at = "sending" /\ sched.device \in connected
    /\ LET e == sched.exec IN
          /\ sent' = [sent EXCEPT ![e] = @ + 1]
          /\ jobs' = jobs \cup {[exec |-> e, device |-> sched.device, no |-> sent[e] + 1]}
    /\ sched' = [sched EXCEPT !.at = "sent"]
    /\ UNCHANGED <<row, earlier, memory, handler, bus, connected, drops, trouble>>

\* Mutant of Track: no watcher is started.
MutTrack ==
    /\ sched.at = "sent"
    /\ sched' = Idle
    /\ UNCHANGED <<row, earlier, memory, sent, handler, bus, world>>

\* send returned True: start the watcher, which replaces any other.  The event
\* published then has no subscriber, and if the bus is full nothing is undone.
Track ==
    /\ sched.at = "sent"
    /\ LET e == sched.exec IN
          /\ watchers' = watchers \cup
                {[exec |-> e, device |-> sched.device, no |-> sent[e], at |-> "sleep"]}
          /\ tasks' = [tasks EXCEPT ![e] = sent[e]]
    /\ sched' = Idle
    /\ UNCHANGED <<row, earlier, locked, sent, handler, bus, world>>

\* Mutant of SendFails: the device is not released.
MutSendFails ==
    /\ sched.at = "sending" /\ sched.device \notin connected
    /\ sched' = [sched EXCEPT !.at = "unsent"]
    /\ UNCHANGED <<row, earlier, memory, sent, handler, bus, world>>

\* Not connected, or the write failed, which drops the connection.
SendFails ==
    /\ sched.at = "sending" /\ sched.device \notin connected
    /\ locked' = Released(sched.device)
    /\ sched' = [sched EXCEPT !.at = "unsent"]
    /\ UNCHANGED <<row, earlier, tasks, watchers, sent, handler, bus, world>>

\* The session writes its status over whatever the row has by then.
CommitUnsent ==
    /\ sched.at = "unsent"
    /\ SetStatus(sched.exec, "failed")
    /\ sched' = Idle
    /\ UNCHANGED <<earlier, memory, sent, handler, bus, world>>

\* A statement or a commit raises: rollback; a device stays locked.  Or, with the
\* command sent, the configured timeout is no number: no watcher is started.
SchedulerError ==
    /\ sched.at \in {"dequeued", "allocated", "sent", "unsent"}
    /\ Trouble
    /\ sched' = Idle
    /\ UNCHANGED <<row, earlier, memory, sent, handler, bus, jobs, connected, drops>>

-----------------------------------------------------------------------------
(* The event handlers, one at a time. *)

Event == Head(bus)

\* handle_result: cancel the watcher, whichever attempt the result is of.
TakeResult ==
    /\ handler.at = "idle" /\ bus # <<>> /\ Event.type = "result"
    /\ CancelTimeout(Event.exec)
    /\ handler' = [Resting EXCEPT !.at = "loadResult", !.exec = Event.exec,
                                  !.status = Event.status]
    /\ bus' = Tail(bus)
    /\ UNCHANGED <<row, earlier, sched, locked, sent, world>>

LoadResult ==
    /\ handler.at = "loadResult"
    /\ LET r == row[handler.exec] IN
       handler' = [handler EXCEPT !.at = "storeResult",
                                  !.row = [status |-> r.status, device |-> r.device]]
    /\ UNCHANGED <<row, earlier, sched, memory, sent, bus, world>>

\* Store the outcome, release the device of the row as it was loaded, and
\* publish automation.completed, which a full bus may refuse.
StoreResult ==
    /\ handler.at = "storeResult" /\ RowFree(handler.exec)
    /\ LET e == handler.exec IN
          /\ row' = IF handler.row.status = handler.status THEN row
                    ELSE [row EXCEPT ![e].status = handler.status]
          /\ \/ /\ bus' = Append(bus, [type |-> "done", exec |-> e, status |-> handler.status])
                /\ UNCHANGED trouble
             \/ Trouble /\ UNCHANGED bus
    /\ locked' = Released(handler.row.device)
    /\ handler' = Resting
    /\ UNCHANGED <<earlier, sched, tasks, watchers, sent, jobs, connected, drops>>

\* handle_device_offline: whoever holds the device loses it and its watcher.
TakeOffline ==
    /\ handler.at = "idle" /\ bus # <<>> /\ Event.type = "offline"
    /\ LET e == locked[Event.device] IN
          IF e = None THEN UNCHANGED <<memory, handler>>
          ELSE /\ CancelTimeout(e)
               /\ locked' = Released(Event.device)
               /\ handler' = [Resting EXCEPT !.at = "loadOffline", !.exec = e]
    /\ bus' = Tail(bus)
    /\ UNCHANGED <<row, earlier, sched, sent, world>>

LoadOffline ==
    /\ handler.at = "loadOffline"
    /\ handler' = [handler EXCEPT
          !.at = IF row[handler.exec].status \in Active THEN "storeOffline" ELSE "evaluate"]
    /\ UNCHANGED <<row, earlier, sched, memory, sent, bus, world>>

StoreOffline ==
    /\ handler.at = "storeOffline" /\ RowFree(handler.exec)
    /\ SetStatus(handler.exec, "failed")
    /\ handler' = [handler EXCEPT !.at = "evaluate"]
    /\ UNCHANGED <<earlier, sched, memory, sent, bus, world>>

\* _on_execution_done, for automation.completed.  automation.timeout has no
\* status in its payload, so its handler does nothing and is left out.
TakeDone ==
    /\ handler.at = "idle" /\ bus # <<>> /\ Event.type = "done"
    /\ handler' = IF Event.status \in Failures
                  THEN [Resting EXCEPT !.at = "evaluate", !.exec = Event.exec]
                  ELSE Resting
    /\ bus' = Tail(bus)
    /\ UNCHANGED <<row, earlier, sched, memory, sent, world>>

\* Mutant of MayRetry: the budget is exceeded by one.
MutMayRetry(r) == r.status \in Failures /\ r.retries <= MaxRetries

\* evaluate_failure: a failure within the budget.
MayRetry(r) == r.status \in Failures /\ r.retries < MaxRetries

\* _is_retryable: timeouts are, other failures depend on what they say.
Evaluate ==
    /\ handler.at = "evaluate"
    /\ LET r == row[handler.exec] IN
       \/ MayRetry(r) /\ handler' = [handler EXCEPT !.at = "storeRetry"]
       \/ ~(MayRetry(r) /\ r.status = "timeout") /\ handler' = Resting
    /\ UNCHANGED <<row, earlier, sched, memory, sent, bus, world>>

\* Mutant of StoreRetry: the retry is not counted.
MutStoreRetry ==
    /\ handler.at = "storeRetry" /\ RowFree(handler.exec)
    /\ row' = [row EXCEPT ![handler.exec] =
                  [status |-> "queued", device |-> None, retries |-> @.retries]]
    /\ earlier' = Behind(handler.exec)
    /\ handler' = Resting
    /\ UNCHANGED <<sched, memory, sent, bus, world>>

\* requeue, behind the others of its priority; any device may be next.
StoreRetry ==
    /\ handler.at = "storeRetry" /\ RowFree(handler.exec)
    /\ row' = [row EXCEPT ![handler.exec] =
                  [status |-> "queued", device |-> None, retries |-> @.retries + 1]]
    /\ earlier' = Behind(handler.exec)
    /\ handler' = Resting
    /\ UNCHANGED <<sched, memory, sent, bus, world>>

\* A SELECT or a commit raises, or publishing automation.retried does: nothing
\* is stored.  A device that went offline is evaluated all the same.
HandlerError ==
    /\ handler.at # "idle"
    /\ Trouble
    /\ handler' = IF handler.at \in {"loadOffline", "storeOffline"}
                  THEN [handler EXCEPT !.at = "evaluate"] ELSE Resting
    /\ UNCHANGED <<row, earlier, sched, memory, sent, bus, jobs, connected, drops>>

-----------------------------------------------------------------------------
(* _timeout_watcher *)

\* The watcher ends and drops the entry of its execution, whoever's it is.
End(w) ==
    /\ watchers' = watchers \ {w}
    /\ tasks' = [tasks EXCEPT ![w.exec] = 0]

At(w, step) == watchers' = (watchers \ {w}) \cup {[w EXCEPT !.at = step]}

\* The time is up: release the device, whoever has it.
Expire(w) ==
    /\ w.at = "sleep"
    /\ locked' = Released(w.device)
    /\ At(w, "load")
    /\ UNCHANGED <<row, earlier, sched, tasks, sent, handler, bus, world>>

WatcherLoad(w) ==
    /\ w.at = "load"
    /\ IF row[w.exec].status \in Active THEN At(w, "store") /\ UNCHANGED tasks ELSE End(w)
    /\ UNCHANGED <<row, earlier, sched, locked, sent, handler, bus, world>>

WatcherStore(w) ==
    /\ w.at = "store" /\ RowFree(w.exec)
    /\ SetStatus(w.exec, "timeout")
    /\ End(w)
    /\ UNCHANGED <<earlier, sched, locked, sent, handler, bus, world>>

\* A statement or the commit raises; or publishing automation.timeout does, and
\* the entry stays.
WatcherError(w) ==
    /\ w.at \in {"load", "store"}
    /\ Trouble
    /\ \/ End(w) /\ UNCHANGED row
       \/ /\ watchers' = watchers \ {w}
          /\ IF w.at = "store" THEN RowFree(w.exec) /\ SetStatus(w.exec, "timeout")
             ELSE UNCHANGED row
          /\ UNCHANGED tasks
    /\ UNCHANGED <<earlier, sched, locked, sent, handler, bus, jobs, connected, drops>>

-----------------------------------------------------------------------------
(* The agents, and the process as a whole. *)

Connect(d) ==
    /\ d \notin connected
    /\ connected' = connected \cup {d}
    /\ UNCHANGED <<row, earlier, sched, memory, sent, handler, bus, jobs, drops, trouble>>

\* The event names the device by its id, which the handlers here look for.
\* (Today's gateway names its serial number, and they would do nothing.)
Disconnect(d) ==
    /\ d \in connected /\ Mishap
    /\ drops' = drops + 1
    /\ connected' = connected \ {d}
    /\ bus' = Append(bus, [type |-> "offline", device |-> d])
    /\ UNCHANGED <<row, earlier, sched, memory, sent, handler, jobs, trouble>>

\* An agent that has died, or whose result gets lost, does not answer.
Answer(j, outcome) ==
    /\ j.device \in connected
    /\ jobs' = jobs \ {j}
    /\ bus' = Append(bus, [type |-> "result", exec |-> j.exec, status |-> outcome])
    /\ UNCHANGED <<row, earlier, sched, memory, sent, handler, connected, drops, trouble>>

\* The process stops and starts.  sync_from_db locks the devices of active
\* executions again; their watchers are gone.
Restart ==
    /\ Trouble
    /\ sched' = Idle /\ handler' = Resting
    /\ bus' = <<>> /\ connected' = {}
    /\ tasks' = [e \in Execs |-> 0] /\ watchers' = {}
    /\ locked' \in [Devices -> Execs \cup {None}]
    /\ \A d \in Devices :
          LET E == {e \in Execs : row[e].status \in Active /\ row[e].device = d}
          IN  IF E = {} THEN locked'[d] = None ELSE locked'[d] \in E
    /\ UNCHANGED <<row, earlier, sent, jobs, drops>>

-----------------------------------------------------------------------------
Scheduler == (\E e \in Execs : Dequeue(e)) \/ (\E d \in Devices : Allocate(d)) \/ NoDevice
             \/ CommitAllocation \/ Send \/ Track \/ SendFails \/ CommitUnsent
             \/ SchedulerError

Handler == TakeResult \/ LoadResult \/ StoreResult \/ TakeOffline \/ LoadOffline
           \/ StoreOffline \/ TakeDone \/ Evaluate \/ StoreRetry \/ HandlerError

Timeout == \E w \in watchers :
              Expire(w) \/ WatcherLoad(w) \/ WatcherStore(w) \/ WatcherError(w)

Agents == (\E d \in Devices : Connect(d) \/ Disconnect(d))
          \/ \E j \in jobs, outcome \in {"passed", "failed"} : Answer(j, outcome)

Next == Scheduler \/ Handler \/ Timeout \/ Agents \/ Restart
        \/ \E e \in Execs : Enqueue(e)

Spec == Init /\ [][Next]_vars

-----------------------------------------------------------------------------
(* Properties. *)

\* Retries are bounded: however results, timeouts, disconnects, errors and
\* restarts interleave, an execution is sent once, and once more per retry it
\* has been granted.
WithinBudget == \A e \in Execs : sent[e] <= 1 + row[e].retries

\* runner.py:13, engine.py:12: without errors and restarts, an execution that
\* was retried at most once leaves no device locked.  A device it has locked is
\* being dispatched to, or the watcher of its attempt is going to release it, or
\* the handler of a result is: though watchers are replaced, cancelled by the
\* result of another attempt, and forgotten when an entry of a later one is
\* dropped.  After a second retry this is no longer so.
LockIsWatched ==
    trouble = 0 =>
        \A d \in Devices : LET e == locked[d] IN
            e # None /\ row[e].retries <= 1 =>
                \/ /\ sched.at \in {"allocated", "sending", "sent"}
                   /\ sched.exec = e /\ sched.device = d
                \/ \E w \in watchers : w.exec = e /\ w.device = d /\ w.at = "sleep"
                \/ handler.at = "loadResult" /\ handler.exec = e /\ row[e].device = d
                \/ handler.at = "storeResult" /\ handler.exec = e /\ handler.row.device = d

\* Without errors and restarts no execution is left running: it is being sent,
\* or has a watcher, or a handler is about to store how it ended.
RunningIsWatched ==
    trouble = 0 =>
        \A e \in Execs : row[e].status = "running" =>
            \/ sched.at \in {"sending", "sent", "unsent"} /\ sched.exec = e
            \/ \E w \in watchers : w.exec = e
            \/ /\ handler.at \in {"loadResult", "storeResult", "loadOffline", "storeOffline"}
               /\ handler.exec = e
=============================================================================

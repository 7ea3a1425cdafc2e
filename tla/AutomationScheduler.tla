------------------------- MODULE AutomationScheduler -------------------------
(***************************************************************************)
(* The automation run scheduler (services/automation_scheduler.py) with    *)
(* the three parties it races with: the REST endpoints that queue and      *)
(* cancel runs (api/v1/automation.py), the device agents behind the        *)
(* WebSocket, and the database.                                            *)
(*                                                                         *)
(* One asyncio task runs the tick (dispatch, then timeout sweep); the      *)
(* event bus runs one result handler at a time; every REST request is a    *)
(* task of its own.  Each action below is what one of them does between    *)
(* two awaits.  The database is READ COMMITTED: a statement reads the      *)
(* committed rows, a flushed UPDATE locks its row until commit or rollback *)
(* and another writer of that row waits.                                   *)
(***************************************************************************)
EXTENDS Integers, Sequences, FiniteSets

CONSTANTS
    Devices,        \* serial numbers
    NumRuns,        \* runs that are ever queued; run k is the k-th one queued
    DevOf,          \* the device a run targets
    Prio,           \* the priority a run is queued with (smaller goes first)
    DispatchLimit,  \* the LIMIT of the queued-runs query
    MaxFaults,      \* bound: database errors
    MaxCrashes      \* bound: times the server process stops

Runs == 1..NumRuns

ASSUME ConstantsAssumption ==
    /\ NumRuns \in Nat \ {0}
    /\ DevOf \in [Runs -> Devices]
    /\ Prio \in [Runs -> Nat]
    /\ DispatchLimit \in Nat \ {0}
    /\ MaxFaults \in Nat
    /\ MaxCrashes \in Nat

VARIABLES
    status,     \* automation_runs.status as committed
    tx,         \* what the scheduler's open transaction wrote and locked
    pc,         \* where the scheduler task is
    busy,       \* busy_serials
    todo,       \* the runs the current loop has not reached yet
    cur,        \* the run the loop is at
    done,       \* dispatched_this_tick
    inFlight,   \* _in_flight: "no" entry, or a "fresh" or "stale" one
    res,        \* the result handler: its step and its event
    bus,        \* result events waiting in the event bus
    cancels,    \* cancel requests that have passed their status check
    connected,  \* devices with a registered WebSocket
    jobs,       \* executions of each run under way on its agent
    sent,       \* history: commands of each run that went out since the process
                \* started, or since the tick of the last one was rolled back
    queuedRuns, \* how many runs have been queued
    faults,
    crashes

sched == <<pc, busy, todo, cur, done, tx>>
env == <<connected, jobs, sent>>
vars == <<status, sched, inFlight, res, bus, cancels, env, queuedRuns,
          faults, crashes>>

None == "none"
NoRun == 0
Finished == {"passed", "failed", "timeout"}
Status == {None, "queued", "running", "cancelled"} \cup Finished

Idle == [at |-> "idle", run |-> NoRun, ok |-> FALSE, loaded |-> None]

TypeOK ==
    /\ status \in [Runs -> Status]
    /\ tx \in [Runs -> {None, "queued", "running", "timeout"}]
    /\ pc \in {"down", "idle", "busyRead", "loop", "sending", "sent",
               "sweep", "sweepLoop"}
    /\ busy \subseteq Devices /\ done \subseteq Devices
    /\ todo \subseteq Runs
    /\ cur \in Runs \cup {NoRun}
    /\ pc \in {"sending", "sent"} => cur \in Runs
    /\ inFlight \in [Runs -> {"no", "fresh", "stale"}]
    /\ res \in [at : {"idle", "popped", "loaded"}, run : Runs \cup {NoRun},
                ok : BOOLEAN, loaded : Status]
    /\ res.at # "idle" => res.run \in Runs
    /\ bus \in Seq([run : Runs, ok : BOOLEAN])
    /\ cancels \subseteq Runs
    /\ connected \in [Devices -> BOOLEAN]
    /\ jobs \in [Runs -> Nat]
    /\ sent \in [Runs -> Nat]
    /\ queuedRuns \in 0..NumRuns
    /\ faults \in 0..MaxFaults
    /\ crashes \in 0..MaxCrashes

Init ==
    /\ status = [r \in Runs |-> None]
    /\ tx = [r \in Runs |-> None]
    /\ pc = "idle" /\ busy = {} /\ todo = {} /\ cur = NoRun /\ done = {}
    /\ inFlight = [r \in Runs |-> "no"]
    /\ res = Idle
    /\ bus = <<>>
    /\ cancels = {}
    /\ connected = [d \in Devices |-> FALSE]
    /\ jobs = [r \in Runs |-> 0] /\ sent = [r \in Runs |-> 0]
    /\ queuedRuns = 0 /\ faults = 0 /\ crashes = 0

Up == pc # "down"

-----------------------------------------------------------------------------
(* The database. *)

Committed(s) == {r \in Runs : status[r] = s}

Locked(r) == tx[r] # None

\* The transaction's writes over the committed rows; NoWrites starts afresh.
Applied(w) == [r \in Runs |-> IF w[r] = None THEN status[r] ELSE w[r]]
NoWrites == [r \in Runs |-> None]

CanFault == faults < MaxFaults
Fault == CanFault /\ faults' = faults + 1

-----------------------------------------------------------------------------
(* The dispatch half of a tick. *)

\* ORDER BY priority, queued_at: runs are numbered in the order they came.
Before(q, r) ==
    \/ Prio[q] < Prio[r]
    \/ Prio[q] = Prio[r] /\ q < r

\* The first DispatchLimit runs of S.
FirstOf(S) == {r \in S : Cardinality({q \in S : Before(q, r)}) < DispatchLimit}

\* SELECT DISTINCT serial_number ... WHERE status = 'running'
ReadBusy ==
    /\ pc = "idle"
    /\ busy' = {DevOf[r] : r \in Committed("running")}
    /\ pc' = "busyRead"
    /\ UNCHANGED <<status, tx, todo, cur, done, inFlight, res, bus, cancels,
                   env, queuedRuns, faults, crashes>>

\* SELECT ... WHERE status = 'queued' ORDER BY ... LIMIT
ReadQueued ==
    /\ pc = "busyRead"
    /\ todo' = FirstOf(Committed("queued"))
    /\ done' = {}
    /\ pc' = "loop"
    /\ UNCHANGED <<status, tx, busy, cur, inFlight, res, bus, cancels,
                   env, queuedRuns, faults, crashes>>

\* Mutant of Eligible: dispatched_this_tick is not consulted.
MutEligible(r) == DevOf[r] \notin busy /\ connected[DevOf[r]]

Eligible(r) ==
    /\ DevOf[r] \notin busy
    /\ DevOf[r] \notin done
    /\ connected[DevOf[r]]

Candidates == {r \in todo : Eligible(r)}

\* Mutant of MarkRunning: the run keeps its status and nothing is flushed.
MutMarkRunning ==
    /\ pc = "loop"
    /\ \E r \in Candidates : cur' = r /\ todo' = {q \in todo : Before(r, q)}
    /\ pc' = "sending"
    /\ UNCHANGED <<status, tx, busy, done, inFlight, res, bus, cancels,
                   env, queuedRuns, faults, crashes>>

\* Pass over the runs that cannot go, mark the next one running and flush.
MarkRunning ==
    /\ pc = "loop"
    /\ \E r \in Candidates :
          /\ \A q \in Candidates \ {r} : Before(r, q)
          /\ cur' = r
          /\ todo' = {q \in todo : Before(r, q)}
          /\ tx' = [tx EXCEPT ![r] = "running"]
    /\ pc' = "sending"
    /\ UNCHANGED <<status, busy, done, inFlight, res, bus, cancels,
                   env, queuedRuns, faults, crashes>>

\* connection_manager.send found the socket and wrote the command to it; the
\* agent may answer before the coroutine resumes.
Send ==
    /\ pc = "sending"
    /\ connected[DevOf[cur]]
    /\ jobs' = [jobs EXCEPT ![cur] = @ + 1]
    /\ sent' = [sent EXCEPT ![cur] = @ + 1]
    /\ pc' = "sent"
    /\ UNCHANGED <<status, tx, busy, todo, cur, done, inFlight, res, bus,
                   cancels, connected, queuedRuns, faults, crashes>>

\* Mutant of SendFail: the run is not put back to queued.
MutSendFail ==
    /\ pc = "sending"
    /\ connected' = [connected EXCEPT ![DevOf[cur]] = FALSE]
    /\ cur' = NoRun
    /\ pc' = "loop"
    /\ UNCHANGED <<status, tx, busy, todo, done, inFlight, res, bus, cancels,
                   jobs, sent, queuedRuns, faults, crashes>>

\* connection_manager.send returned False: no socket, or the write failed and
\* the socket was dropped.
SendFail ==
    /\ pc = "sending"
    /\ connected' = [connected EXCEPT ![DevOf[cur]] = FALSE]
    /\ tx' = [tx EXCEPT ![cur] = "queued"]
    /\ cur' = NoRun
    /\ pc' = "loop"
    /\ UNCHANGED <<status, busy, todo, done, inFlight, res, bus, cancels,
                   jobs, sent, queuedRuns, faults, crashes>>

\* send returned True.
Track ==
    /\ pc = "sent"
    /\ inFlight' = [inFlight EXCEPT ![cur] = "fresh"]
    /\ done' = done \cup {DevOf[cur]}
    /\ cur' = NoRun
    /\ pc' = "loop"
    /\ UNCHANGED <<status, tx, busy, todo, res, bus, cancels,
                   env, queuedRuns, faults, crashes>>

\* Mutant of CommitDispatch: the session closes without the commit.
MutCommitDispatch ==
    /\ pc = "loop"
    /\ Candidates = {}
    /\ tx' = NoWrites
    /\ busy' = {} /\ done' = {} /\ todo' = {}
    /\ pc' = "sweep"
    /\ UNCHANGED <<status, cur, inFlight, res, bus, cancels, env, queuedRuns,
                   faults, crashes>>

CommitDispatch ==
    /\ pc = "loop"
    /\ Candidates = {}
    /\ status' = Applied(tx)
    /\ tx' = NoWrites
    /\ busy' = {} /\ done' = {} /\ todo' = {}
    /\ pc' = "sweep"
    /\ UNCHANGED <<cur, inFlight, res, bus, cancels, env, queuedRuns,
                   faults, crashes>>

\* A query, a flush or the commit raises: roll back, then sweep as usual.  What
\* the tick has sent stays in flight, and is queued again in the database.
DispatchError ==
    /\ pc \in {"idle", "busyRead", "loop"}
    /\ Fault
    /\ tx' = NoWrites
    /\ sent' = [r \in Runs |-> IF tx[r] = "running" THEN 0 ELSE sent[r]]
    /\ busy' = {} /\ done' = {} /\ todo' = {}
    /\ pc' = "sweep"
    /\ UNCHANGED <<status, cur, inFlight, res, bus, cancels, connected, jobs,
                   queuedRuns, crashes>>

-----------------------------------------------------------------------------
(* The timeout half of a tick. *)

\* RUN_TIMEOUT_SECONDS pass for an entry.
Expire(r) ==
    /\ inFlight[r] = "fresh"
    /\ inFlight' = [inFlight EXCEPT ![r] = "stale"]
    /\ UNCHANGED <<status, sched, res, bus, cancels, env, queuedRuns,
                   faults, crashes>>

StaleRuns == {r \in Runs : inFlight[r] = "stale"}

\* The list of stale runs is computed once; with none the tick is over.
SweepStart ==
    /\ pc = "sweep"
    /\ todo' = StaleRuns
    /\ pc' = IF StaleRuns = {} THEN "idle" ELSE "sweepLoop"
    /\ UNCHANGED <<status, tx, busy, cur, done, inFlight, res, bus, cancels,
                   env, queuedRuns, faults, crashes>>

\* The run at hand is dirty in the session; the next statement flushes it.
Flushed == IF cur = NoRun THEN tx ELSE [tx EXCEPT ![cur] = "timeout"]

\* Mutant of SweepRun: the entry is dropped and the run is left running.
MutSweepRun(r) ==
    /\ pc = "sweepLoop"
    /\ r \in todo
    /\ inFlight' = [inFlight EXCEPT ![r] = "no"]
    /\ todo' = todo \ {r}
    /\ UNCHANGED <<status, pc, busy, cur, done, tx, res, bus, cancels, env,
                   queuedRuns, faults, crashes>>

\* Pop the entry, then SELECT the run if it is still running.
SweepRun(r) ==
    /\ pc = "sweepLoop"
    /\ r \in todo
    /\ inFlight' = [inFlight EXCEPT ![r] = "no"]
    /\ tx' = Flushed
    /\ cur' = IF status[r] = "running" THEN r ELSE NoRun
    /\ todo' = todo \ {r}
    /\ UNCHANGED <<status, pc, busy, done, res, bus, cancels, env, queuedRuns,
                   faults, crashes>>

CommitSweep ==
    /\ pc = "sweepLoop"
    /\ todo = {}
    /\ status' = Applied(Flushed)
    /\ tx' = NoWrites
    /\ cur' = NoRun
    /\ pc' = "idle"
    /\ UNCHANGED <<busy, todo, done, inFlight, res, bus, cancels, env,
                   queuedRuns, faults, crashes>>

\* The SELECT of a run already popped raises, or the commit does.
SweepError ==
    /\ pc = "sweepLoop"
    /\ Fault
    /\ \/ todo = {} /\ UNCHANGED inFlight
       \/ \E r \in todo : inFlight' = [inFlight EXCEPT ![r] = "no"]
    /\ tx' = NoWrites
    /\ cur' = NoRun
    /\ todo' = {}
    /\ pc' = "idle"
    /\ UNCHANGED <<status, busy, done, res, bus, cancels, env, queuedRuns,
                   crashes>>

-----------------------------------------------------------------------------
(* The result handler, _handle_result, run by the event bus. *)

\* Ignore a run not in flight; else forget it and turn to the database.
TakeResult ==
    /\ Up /\ res.at = "idle" /\ bus # <<>>
    /\ LET e == Head(bus) IN
          IF inFlight[e.run] = "no"
          THEN UNCHANGED <<inFlight, res>>
          ELSE /\ inFlight' = [inFlight EXCEPT ![e.run] = "no"]
               /\ res' = [at |-> "popped", run |-> e.run, ok |-> e.ok,
                          loaded |-> None]
    /\ bus' = Tail(bus)
    /\ UNCHANGED <<status, sched, cancels, env, queuedRuns, faults, crashes>>

\* SELECT the run by id, whatever its status is.
LoadRun ==
    /\ res.at = "popped"
    /\ res' = [res EXCEPT !.at = "loaded", !.loaded = status[res.run]]
    /\ UNCHANGED <<status, sched, inFlight, bus, cancels, env, queuedRuns,
                   faults, crashes>>

\* Mutant of Outcome: the documented status "error", which the code never sets.
MutOutcome == IF res.ok THEN "passed" ELSE "error"

Outcome == IF res.ok THEN "passed" ELSE "failed"

\* Commit the outcome, once the row is free.  The session writes the column
\* only if it differs from what was loaded.
StoreResult ==
    /\ res.at = "loaded"
    /\ ~Locked(res.run)
    /\ status' = IF res.loaded = Outcome THEN status
                 ELSE [status EXCEPT ![res.run] = Outcome]
    /\ res' = Idle
    /\ UNCHANGED <<sched, inFlight, bus, cancels, env, queuedRuns, faults,
                   crashes>>

\* A count that is not a number, the SELECT or the commit raises: the result is
\* gone, and so is the entry.
ResultError ==
    /\ res.at # "idle"
    /\ Fault
    /\ res' = Idle
    /\ UNCHANGED <<status, sched, inFlight, bus, cancels, env, queuedRuns,
                   crashes>>

-----------------------------------------------------------------------------
(* The REST endpoints. *)

QueueRun ==
    /\ Up
    /\ queuedRuns < NumRuns
    /\ queuedRuns' = queuedRuns + 1
    /\ status' = [status EXCEPT ![queuedRuns + 1] = "queued"]
    /\ UNCHANGED <<sched, inFlight, res, bus, cancels, env, faults, crashes>>

\* cancel_automation_run: read the run and check its status ...
CancelCheck(r) ==
    /\ Up
    /\ r \notin cancels
    /\ status[r] \in {"queued", "running"}
    /\ cancels' = cancels \cup {r}
    /\ UNCHANGED <<status, sched, inFlight, res, bus, env, queuedRuns,
                   faults, crashes>>

\* ... then write it, flushed by the handler and committed by get_db.
CancelStore(r) ==
    /\ r \in cancels
    /\ ~Locked(r)
    /\ status' = [status EXCEPT ![r] = "cancelled"]
    /\ cancels' = cancels \ {r}
    /\ UNCHANGED <<sched, inFlight, res, bus, env, queuedRuns, faults, crashes>>

CancelError(r) ==
    /\ r \in cancels
    /\ Fault
    /\ cancels' = cancels \ {r}
    /\ UNCHANGED <<status, sched, inFlight, res, bus, env, queuedRuns, crashes>>

-----------------------------------------------------------------------------
(* The agents, and the process as a whole. *)

Connect(d) ==
    /\ Up /\ ~connected[d]
    /\ connected' = [connected EXCEPT ![d] = TRUE]
    /\ UNCHANGED <<status, sched, inFlight, res, bus, cancels, jobs, sent,
                   queuedRuns, faults, crashes>>

Disconnect(d) ==
    /\ connected[d]
    /\ connected' = [connected EXCEPT ![d] = FALSE]
    /\ UNCHANGED <<status, sched, inFlight, res, bus, cancels, jobs, sent,
                   queuedRuns, faults, crashes>>

\* A command_result reaches the gateway, which publishes it on the bus.  An
\* agent still executing at a reconnect or a restart reports then.
AgentResult(r, ok) ==
    /\ Up /\ jobs[r] > 0 /\ connected[DevOf[r]]
    /\ jobs' = [jobs EXCEPT ![r] = @ - 1]
    /\ bus' = Append(bus, [run |-> r, ok |-> ok])
    /\ UNCHANGED <<status, sched, inFlight, res, cancels, connected, sent,
                   queuedRuns, faults, crashes>>

\* The command or its result is lost: the agent died, or the bus was full.
AgentSilent(r) ==
    /\ jobs[r] > 0
    /\ jobs' = [jobs EXCEPT ![r] = @ - 1]
    /\ UNCHANGED <<status, sched, inFlight, res, bus, cancels, connected, sent,
                   queuedRuns, faults, crashes>>

\* The process ends, by a crash or by stop(), which cancels the task where it
\* is: open transactions roll back and all that is in memory is gone.
Crash ==
    /\ Up
    /\ crashes < MaxCrashes
    /\ crashes' = crashes + 1
    /\ pc' = "down"
    /\ tx' = NoWrites
    /\ busy' = {} /\ todo' = {} /\ cur' = NoRun /\ done' = {}
    /\ inFlight' = [r \in Runs |-> "no"]
    /\ res' = Idle
    /\ bus' = <<>>
    /\ cancels' = {}
    /\ connected' = [d \in Devices |-> FALSE]
    /\ sent' = [r \in Runs |-> 0]
    /\ UNCHANGED <<status, jobs, queuedRuns, faults>>

\* start(): _requeue_orphaned_runs, before anything is served; an error there
\* is logged and swallowed.
Requeued == [r \in Runs |-> IF status[r] = "running" THEN "queued"
                            ELSE status[r]]

Start ==
    /\ pc = "down"
    /\ \/ status' = Requeued /\ UNCHANGED faults
       \/ Fault /\ UNCHANGED status
    /\ pc' = "idle"
    /\ UNCHANGED <<tx, busy, todo, cur, done, inFlight, res, bus, cancels,
                   env, queuedRuns, crashes>>

-----------------------------------------------------------------------------
Dispatch == ReadBusy \/ ReadQueued \/ MarkRunning \/ Send \/ SendFail
            \/ Track \/ CommitDispatch \/ DispatchError

Sweep == SweepStart \/ (\E r \in Runs : SweepRun(r)) \/ CommitSweep
         \/ SweepError

Result == TakeResult \/ LoadRun \/ StoreResult \/ ResultError

Api == QueueRun \/ \E r \in Runs :
          CancelCheck(r) \/ CancelStore(r) \/ CancelError(r)

Agents ==
    \/ \E d \in Devices : Connect(d) \/ Disconnect(d)
    \/ \E r \in Runs : (\E ok \in BOOLEAN : AgentResult(r, ok)) \/ AgentSilent(r)

Next == Dispatch \/ Sweep \/ Result \/ Api \/ Agents \/ Crash \/ Start
        \/ \E r \in Runs : Expire(r)

Spec == Init /\ [][Next]_vars

\* asyncio runs every ready task, the poll timer fires and time passes; the
\* process is restarted.  Agents and users owe nothing.
Fairness ==
    /\ WF_vars(Dispatch) /\ WF_vars(Sweep) /\ WF_vars(Result)
    /\ \A r \in Runs : WF_vars(Expire(r)) /\ WF_vars(CancelStore(r))
    /\ WF_vars(Start)

FairSpec == Spec /\ Fairness

-----------------------------------------------------------------------------
(* Properties. *)

\* _dispatch_queued: "Only one run is dispatched per device at a time".  No
\* two committed runs of one device are ever running, whatever fails.
OneRunningPerDevice ==
    \A q, r \in Runs :
        status[q] = "running" /\ status[r] = "running" /\ DevOf[q] = DevOf[r]
        => q = r

\* _dispatch_queued: "if a device already has a 'running' run we skip all its
\* queued runs".  Seen from outside, runs take free devices only and one each, so
\* that OneRunningPerDevice holds, no device is handed over from one run to
\* another in one step, and no command goes out to a device that a committed run
\* holds, whatever fails.
Holding == [d \in Devices |-> {r \in Runs : status[r] = "running" /\ DevOf[r] = d}]

Slots == INSTANCE DeviceSlots WITH holding <- Holding

TakesFreeDevices == Slots!SlotSpec

\* While the database works, somebody will end every running run: it is in
\* flight (so it can be answered or time out), or popped by a handler or by the
\* sweep that is about to write it.  A run missed here keeps its device busy
\* until the next restart.
RunningIsWatched ==
    faults = 0 /\ Up =>
        \A r \in Committed("running") :
            \/ inFlight[r] # "no"
            \/ res.at # "idle" /\ res.run = r
            \/ tx[r] = "timeout" \/ (pc = "sweepLoop" /\ cur = r)

\* The command of a run goes out at most once, whatever becomes of it (an answer,
\* a timeout, a cancellation, a send that fails, a database error in the sweep or
\* in a handler): it is sent again only if the process has been restarted since,
\* or the very tick that sent it was rolled back (the except of _dispatch_queued).
NotSentTwice == \A r \in Runs : sent[r] <= 1

\* What can still touch a run: the tick that has selected it, its command in
\* flight, or the handler of its result.
PickedUp(r) ==
    \/ r \in todo \/ cur = r \/ tx[r] # None
    \/ inFlight[r] # "no"
    \/ res.run = r

\* While the database works, a run that has its outcome is never put back to
\* queued or running, and an outcome only replaces running, cancelled or
\* another outcome: a late result can not overtake the commit of its dispatch.
\* A run that is cancelled when nothing has picked it up stays cancelled and
\* is not sent, whatever fails.
OutcomeStays ==
    [][\A r \in Runs :
            /\ faults' = 0 /\ status[r] \in Finished => status'[r] \in Finished \cup {"cancelled"}
            /\ faults' = 0 /\ status[r] = "queued" => status'[r] \notin Finished
            /\ status[r] = "cancelled" /\ ~PickedUp(r) =>
                  status'[r] = "cancelled" /\ ~PickedUp(r)' /\ jobs'[r] <= jobs[r]]_vars

\* The class docstring, steps 1 and 2: every queued run is polled and dispatched
\* if its device is connected.  While the database works, a queued run whose
\* device stays connected does not stay queued forever.
QueuedIsDispatched ==
    [](faults = 0) =>
        \A r \in Runs :
            <>[]connected[DevOf[r]] => (status[r] = "queued" ~> status[r] # "queued")
=============================================================================

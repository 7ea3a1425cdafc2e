------------------------------ MODULE Presence ------------------------------
(***************************************************************************)
(* Whether a device is online: the devices row, written by the WebSocket   *)
(* handlers (Gateway), by the REST heartbeat endpoint, by the heartbeat    *)
(* monitor and by the deactivate endpoint, each in a transaction of its    *)
(* own, while connections come and go and the process restarts.            *)
(*                                                                         *)
(* The database is READ COMMITTED.  The session of a REST request writes   *)
(* the columns whose new value differs from the one it loaded; the         *)
(* handlers and the monitor write with UPDATE statements.  The monitor     *)
(* updates several rows in one transaction, which locks them.              *)
(***************************************************************************)
EXTENDS Gateway

CONSTANTS
    MaxFaults,       \* bound: database errors and full-bus errors
    MaxRestarts,     \* bound: restarts of the process
    MaxHeartbeats,   \* bound: heartbeat requests
    MaxDeactivations \* bound: deactivate requests

ASSUME BoundsAssumption ==
    {MaxFaults, MaxRestarts, MaxHeartbeats, MaxDeactivations} \subseteq Nat

VARIABLES
    online,   \* devices.is_online
    status,   \* devices.status
    beat,     \* the age of devices.last_heartbeat_at
    hb,       \* the row a device's heartbeat request has loaded, if one is open
    off,      \* the row a deactivate request has loaded, if one is open
    mon,      \* the monitor: whether it is in a check, which devices it found
              \* stale and has not reached, and which rows it has updated
    count     \* how much of each bound is used

row == <<online, status, beat>>
vars == <<gwVars, row, hb, off, mon, count>>

Health == {"healthy", "warning"}   \* "critical" is no different
Closed == [on |-> FALSE, online |-> FALSE, status |-> "unknown"]
Resting == [on |-> FALSE, todo |-> {}, wrote |-> {}]

Request == [on : BOOLEAN, online : BOOLEAN,
            status : Health \cup {"unknown", "offline"}]

TypeOK ==
    /\ GwTypeOK
    /\ online \in [Devices -> BOOLEAN]
    /\ status \in [Devices -> Health \cup {"unknown", "offline"}]
    /\ beat \in [Devices -> {"never", "fresh", "stale"}]
    /\ hb \in [Devices -> Request] /\ off \in [Devices -> Request]
    /\ mon \in [on : BOOLEAN, todo : SUBSET Devices, wrote : SUBSET Devices]
    /\ count \in [fault : 0..MaxFaults, restart : 0..MaxRestarts,
                  heartbeat : 0..MaxHeartbeats, deactivate : 0..MaxDeactivations]

Init ==
    /\ GwInit
    /\ online = [d \in Devices |-> FALSE]
    /\ status = [d \in Devices |-> "unknown"]
    /\ beat = [d \in Devices |-> "never"]
    /\ hb = [d \in Devices |-> Closed] /\ off = [d \in Devices |-> Closed]
    /\ mon = Resting
    /\ count = [fault |-> 0, restart |-> 0, heartbeat |-> 0,
                deactivate |-> 0]

Fault == count.fault < MaxFaults /\ count' = [count EXCEPT !.fault = @ + 1]

\* A writer of a row waits for the monitor's transaction.
Free(d) == d \notin mon.wrote

SetOffline(d) ==
    /\ online' = [online EXCEPT ![d] = FALSE]
    /\ status' = [status EXCEPT ![d] = "offline"]

-----------------------------------------------------------------------------
(* The connection handlers.  A database error is logged and passed over.   *)

MarkOnline(s) ==
    /\ GwMarkOnline(s)
    /\ LET d == SocketOf[s] IN
       \/ /\ Free(d)
          /\ online' = [online EXCEPT ![d] = TRUE]
          /\ status' = [status EXCEPT ![d] = "healthy"]
          /\ UNCHANGED count
       \/ Fault /\ UNCHANGED <<online, status>>
    /\ UNCHANGED <<beat, hb, off, mon>>

\* Mutant of MarkOffline: only the handler that is still registered writes.
MutMarkOffline(s) ==
    /\ GwMarkOffline(s)
    /\ Free(SocketOf[s])
    /\ IF reg[SocketOf[s]] = s THEN SetOffline(SocketOf[s])
       ELSE UNCHANGED <<online, status>>
    /\ UNCHANGED <<beat, hb, off, mon, count>>

\* Whatever is registered by now, the row is set offline.
MarkOffline(s) ==
    /\ GwMarkOffline(s)
    /\ \/ Free(SocketOf[s]) /\ SetOffline(SocketOf[s]) /\ UNCHANGED count
       \/ Fault /\ UNCHANGED <<online, status>>
    /\ UNCHANGED <<beat, hb, off, mon>>

ConnectedLost(s) ==
    /\ GwConnectedLost(s)
    /\ Fault
    /\ UNCHANGED <<row, hb, off, mon>>

\* The handler steps that leave the row alone.
Serve(s) ==
    /\ \/ Accept(s) \/ CloseOld(s) \/ Welcome(s) \/ Greet(s)
       \/ PublishConnected(s) \/ LeaveLoop(s) \/ LoopFails(s) \/ Unregister(s)
       \/ PublishDisconnected(s) \/ Drop(s)
    /\ UNCHANGED <<row, hb, off, mon, count>>

\* A send: a keep-alive ping, a command, a broadcast.
Send(d) ==
    /\ SendBegins(d)
    /\ UNCHANGED <<row, hb, off, mon, count>>

SendEnds(s) ==
    /\ SendWrites(s) \/ SendFails(s)
    /\ UNCHANGED <<row, hb, off, mon, count>>

-----------------------------------------------------------------------------
(* receive_heartbeat: load the device, then write and commit.              *)

Loaded(d) == [on |-> TRUE, online |-> online[d], status |-> status[d]]

HeartbeatLoad(d) ==
    /\ ~hb[d].on
    /\ count.heartbeat < MaxHeartbeats
    /\ count' = [count EXCEPT !.heartbeat = @ + 1]
    /\ hb' = [hb EXCEPT ![d] = Loaded(d)]
    /\ UNCHANGED <<gwVars, row, off, mon>>

\* A column is written if the new value differs from the loaded one.
Written(loaded, new, committed) == IF new = loaded THEN committed ELSE new

HeartbeatStore(d, health) ==
    /\ hb[d].on
    /\ Free(d)
    /\ online' = [online EXCEPT ![d] = Written(hb[d].online, TRUE, @)]
    /\ status' = [status EXCEPT ![d] = Written(hb[d].status, health, @)]
    /\ beat' = [beat EXCEPT ![d] = "fresh"]
    /\ hb' = [hb EXCEPT ![d] = Closed]
    /\ UNCHANGED <<gwVars, off, mon, count>>

HeartbeatError(d) ==
    /\ hb[d].on
    /\ Fault
    /\ hb' = [hb EXCEPT ![d] = Closed]
    /\ UNCHANGED <<gwVars, row, off, mon>>

\* heartbeat_timeout_seconds pass.
Age(d) ==
    /\ beat[d] = "fresh"
    /\ beat' = [beat EXCEPT ![d] = "stale"]
    /\ UNCHANGED <<gwVars, online, status, hb, off, mon, count>>

-----------------------------------------------------------------------------
(* deactivate_device, a soft delete: load the device, then write and commit. *)

DeactivateLoad(d) ==
    /\ ~off[d].on
    /\ count.deactivate < MaxDeactivations
    /\ count' = [count EXCEPT !.deactivate = @ + 1]
    /\ off' = [off EXCEPT ![d] = Loaded(d)]
    /\ UNCHANGED <<gwVars, row, hb, mon>>

\* Mutant of DeactivateStore: a status the column's documentation does not know.
MutDeactivateStore(d) ==
    /\ off[d].on
    /\ Free(d)
    /\ status' = [status EXCEPT ![d] = "deactivated"]
    /\ off' = [off EXCEPT ![d] = Closed]
    /\ UNCHANGED <<gwVars, online, beat, hb, mon, count>>

\* A device that was loaded offline is not written at all.
DeactivateStore(d) ==
    /\ off[d].on
    /\ Free(d) \/ (~off[d].online /\ off[d].status = "offline")
    /\ online' = [online EXCEPT ![d] = Written(off[d].online, FALSE, @)]
    /\ status' = [status EXCEPT ![d] = Written(off[d].status, "offline", @)]
    /\ off' = [off EXCEPT ![d] = Closed]
    /\ UNCHANGED <<gwVars, beat, hb, mon, count>>

DeactivateError(d) ==
    /\ off[d].on
    /\ Fault
    /\ off' = [off EXCEPT ![d] = Closed]
    /\ UNCHANGED <<gwVars, row, hb, mon>>

-----------------------------------------------------------------------------
(* The heartbeat monitor.                                                  *)

\* Mutant of Overdue: the comparison is turned round.
MutOverdue == {d \in Devices : online[d] /\ beat[d] = "fresh"}

\* is_online = TRUE and last_heartbeat_at < cutoff; NULL is not less.
Overdue == {d \in Devices : online[d] /\ beat[d] = "stale"}

Check ==
    /\ ~mon.on
    /\ mon' = [on |-> Overdue # {}, todo |-> Overdue, wrote |-> {}]
    /\ UNCHANGED <<gwVars, row, hb, off, count>>

\* UPDATE the device, whatever has happened to it since, and publish.
TimeOut(d) ==
    /\ mon.on /\ d \in mon.todo
    /\ mon' = [mon EXCEPT !.todo = @ \ {d}, !.wrote = @ \cup {d}]
    /\ UNCHANGED <<gwVars, row, hb, off, count>>

CommitCheck ==
    /\ mon.on /\ mon.todo = {}
    /\ online' = [d \in Devices |-> online[d] /\ d \notin mon.wrote]
    /\ status' = [d \in Devices |-> IF d \in mon.wrote THEN "offline" ELSE status[d]]
    /\ mon' = Resting
    /\ UNCHANGED <<gwVars, beat, hb, off, count>>

\* An UPDATE or the commit raises, or the bus is full: nothing is written.
CheckError ==
    /\ mon.on
    /\ Fault
    /\ mon' = Resting
    /\ UNCHANGED <<gwVars, row, hb, off>>

\* The process restarts: requests and transactions are gone, the rows stay.
Restart ==
    /\ count.restart < MaxRestarts
    /\ count' = [count EXCEPT !.restart = @ + 1]
    /\ GwRestart
    /\ hb' = [d \in Devices |-> Closed] /\ off' = [d \in Devices |-> Closed]
    /\ mon' = Resting
    /\ UNCHANGED row

-----------------------------------------------------------------------------
Handler(s) == Serve(s) \/ MarkOnline(s) \/ MarkOffline(s) \/ ConnectedLost(s)

Requests(d) ==
    \/ HeartbeatLoad(d) \/ HeartbeatError(d)
    \/ \E health \in Health : HeartbeatStore(d, health)
    \/ DeactivateLoad(d) \/ DeactivateStore(d) \/ DeactivateError(d)

Monitor == Check \/ (\E d \in Devices : TimeOut(d)) \/ CommitCheck \/ CheckError

Next ==
    \/ \E s \in Sockets : Handler(s) \/ SendEnds(s)
    \/ \E d \in Devices : Send(d) \/ Age(d) \/ Requests(d)
    \/ Monitor
    \/ Restart

Spec == Init /\ [][Next]_vars

\* The monitor and the pinger run on timers, requests and transactions end.
Fairness ==
    /\ WF_vars(Monitor)
    /\ \A s \in Sockets : WF_vars(SendEnds(s))
    /\ \A d \in Devices :
          /\ WF_vars(Send(d))
          /\ WF_vars(\E health \in Health : HeartbeatStore(d, health))

FairSpec == Spec /\ Fairness

-----------------------------------------------------------------------------
(* Properties. *)

\* gateway.py, lifecycle step 7.  Once every connection of a device has ended
\* and it never sent a heartbeat, its row does not say online: no interleaving
\* of the handlers of successive connections leaves an online mark behind
\* (without database errors, a full bus or a restart).
EndedIsOffline ==
    \A d \in Devices :
        /\ count.fault = 0 /\ count.restart = 0
        /\ beat[d] = "never" /\ ~hb[d].on
        /\ \A s \in Sockets : SocketOf[s] = d => stage[s] \in {"new", "ended"}
        => ~online[d]

\* The keep-alive pinger: a registration whose link is down goes away, even if
\* its handler died without cleaning up.
DeadIsUnregistered ==
    \A d \in Devices : \A s \in Sockets :
        (reg[d] = s /\ s \notin open) ~> reg[d] # s

\* The heartbeat monitor: a device whose heartbeats have stopped does not stay
\* online.
SilentGoesOffline ==
    \A d \in Devices :
        (online[d] /\ beat[d] = "stale") ~> (~online[d] \/ beat[d] = "fresh")

\* gateway.py, lifecycle steps 4 and 7: online from connect to disconnect.  A
\* device whose registered connection is up and in its message loop is online.
ServedIsOnline ==
    count.fault = 0 =>
        \A s \in open : stage[s] = "loop" => online[SocketOf[s]]
=============================================================================

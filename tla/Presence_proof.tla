--------------------------- MODULE Presence_proof ---------------------------
(***************************************************************************)
(* The connection registry never loses a live connection, for any number   *)
(* of devices and connections; and the presence model, with its database,  *)
(* monitor and heartbeats, implements the gateway, so the result holds     *)
(* there too.  Of its rows: types, and that a device whose connections     *)
(* have all ended is offline.                                              *)
(***************************************************************************)
EXTENDS Presence, TLAPS

GwInv == GwTypeOK /\ OpenIsRegistered

LEMMA GwInitInv == GwInit => GwInv
BY SocketAssumption DEF GwInit, GwInv, GwTypeOK, OpenIsRegistered

\* Every step of a handler, of the links and of the senders keeps the types.
LEMMA GwNextTypeOK == GwTypeOK /\ [GwNext]_gwVars => GwTypeOK'
<1> SUFFICES ASSUME GwTypeOK, [GwNext]_gwVars PROVE GwTypeOK'
    OBVIOUS
<1> USE SocketAssumption DEF GwTypeOK, Goto, Without, Serving, Leaving
<1>1. ASSUME NEW s \in Sockets, Accept(s) \/ CloseOld(s) PROVE GwTypeOK'
    BY <1>1 DEF Accept, CloseOld
<1>2. ASSUME NEW s \in Sockets, Welcome(s) \/ Greet(s) \/ Unregister(s)
      PROVE  GwTypeOK'
    BY <1>2 DEF Welcome, Greet, Unregister
<1>3. ASSUME NEW s \in Sockets,
             \/ GwMarkOnline(s) \/ PublishConnected(s) \/ GwConnectedLost(s)
             \/ LeaveLoop(s) \/ LoopFails(s) \/ GwMarkOffline(s)
             \/ PublishDisconnected(s) \/ Drop(s)
      PROVE  GwTypeOK'
    BY <1>3 DEF GwMarkOnline, PublishConnected, GwConnectedLost, LeaveLoop,
                LoopFails, GwMarkOffline, PublishDisconnected, Drop
<1>4. ASSUME NEW d \in Devices, SendBegins(d) PROVE GwTypeOK'
    BY <1>4 DEF SendBegins
<1>5. ASSUME NEW s \in Sockets, SendWrites(s) \/ SendFails(s) PROVE GwTypeOK'
    BY <1>5 DEF SendWrites, SendFails
<1>6. CASE GwRestart
    BY <1>6 DEF GwRestart
<1>7. CASE UNCHANGED gwVars
    BY <1>7 DEF gwVars
<1> QED BY <1>1, <1>2, <1>3, <1>4, <1>5, <1>6, <1>7 DEF GwNext

LEMMA GwNextInv == GwInv /\ [GwNext]_gwVars => GwInv'
<1> SUFFICES ASSUME GwInv, [GwNext]_gwVars PROVE GwInv'
    OBVIOUS
<1>0. GwTypeOK /\ GwTypeOK'
    BY GwNextTypeOK DEF GwInv
<1> USE SocketAssumption, <1>0 DEF GwInv, GwTypeOK, Serving, Leaving
<1>1. ASSUME NEW s \in Sockets, Accept(s) PROVE GwInv'
    <2>1. /\ open' = open \cup {s} /\ stage[s] = "new" /\ stage'[s] = "replacing"
          /\ \A t \in Sockets \ {s} : stage'[t] = stage[t] /\ found'[t] = found[t]
          /\ found'[s] = reg[SocketOf[s]] /\ reg'[SocketOf[s]] = s
          /\ \A d \in Devices \ {SocketOf[s]} : reg'[d] = reg[d]
        BY <1>1 DEF Accept, Goto
    <2>2. OpenIsRegistered'
        <3> SUFFICES ASSUME NEW x \in open', stage'[x] \in Serving PROVE
                 \/ reg'[SocketOf[x]] = x
                 \/ \E t \in Sockets : stage'[t] = "replacing" /\ found'[t] = x
            BY DEF OpenIsRegistered
        <3>1. CASE x = s
            BY <2>1, <3>1
        <3>2. CASE x # s /\ reg[SocketOf[x]] = x
            BY <2>1, <3>2
        <3>3. CASE x # s /\ reg[SocketOf[x]] # x
            <4>1. PICK t \in Sockets : stage[t] = "replacing" /\ found[t] = x
                BY <2>1, <3>3 DEF OpenIsRegistered
            <4> QED BY <2>1, <4>1
        <3> QED BY <3>1, <3>2, <3>3
    <2> QED BY <2>2
<1>2. ASSUME NEW s \in Sockets, CloseOld(s) PROVE GwInv'
    <2>1. \A t \in Sockets \ {s} : stage'[t] = stage[t] /\ found'[t] = found[t]
        BY <1>2 DEF CloseOld, Goto
    <2>2. /\ open' = open \ {found[s]} /\ reg' = reg
          /\ stage[s] = "replacing" /\ stage'[s] = "registered"
        BY <1>2 DEF CloseOld, Goto
    <2> QED BY <2>1, <2>2 DEF OpenIsRegistered
\* A handler goes on, no link opens, and the open registered sockets stay so but
\* perhaps its own, if it stops serving.
<1>3. ASSUME NEW s \in Sockets,
             /\ stage[s] # "replacing"
             /\ stage'[s] \in Serving => stage[s] \in Serving
             /\ \A t \in Sockets \ {s} : stage'[t] = stage[t] /\ found'[t] = found[t]
             /\ open' \subseteq open
             /\ \A x \in open : reg[SocketOf[x]] = x /\ (x # s \/ stage'[x] \in Serving)
                                   => reg'[SocketOf[x]] = x
      PROVE  GwInv'
    BY <1>3 DEF OpenIsRegistered
<1>4. ASSUME NEW s \in Sockets, Welcome(s) PROVE GwInv'
    BY <1>3, <1>4 DEF Welcome, Goto
<1>5. ASSUME NEW s \in Sockets, Greet(s) PROVE GwInv'
    <2>1. \A x \in open : reg[SocketOf[x]] = x => reg'[SocketOf[x]] = x
        BY <1>5 DEF Greet, Without
    <2> QED BY <1>3, <1>5, <2>1 DEF Greet, Goto
<1>6. ASSUME NEW s \in Sockets, Unregister(s) PROVE GwInv'
    <2>1. \A x \in open : reg[SocketOf[x]] = x /\ x # s => reg'[SocketOf[x]] = x
        BY <1>6 DEF Unregister, Without
    <2> QED BY <1>3, <1>6, <2>1 DEF Unregister, Goto
<1>7. ASSUME NEW s \in Sockets,
             \/ GwMarkOnline(s) \/ PublishConnected(s) \/ GwConnectedLost(s)
             \/ LeaveLoop(s) \/ LoopFails(s) \/ GwMarkOffline(s)
             \/ PublishDisconnected(s)
      PROVE  GwInv'
    BY <1>3, <1>7 DEF GwMarkOnline, PublishConnected, GwConnectedLost, LeaveLoop,
                      LoopFails, GwMarkOffline, PublishDisconnected, Goto
<1>8. ASSUME NEW s \in Sockets, Drop(s) PROVE GwInv'
    BY <1>8 DEF Drop, OpenIsRegistered
<1>9. ASSUME NEW d \in Devices, SendBegins(d) PROVE GwInv'
    BY <1>9 DEF SendBegins, OpenIsRegistered
<1>10. ASSUME NEW s \in Sockets, SendWrites(s) \/ SendFails(s) PROVE GwInv'
    <2>1. \A x \in open : reg[SocketOf[x]] = x => reg'[SocketOf[x]] = x
        BY <1>10 DEF SendWrites, SendFails, Without
    <2> QED BY <1>10, <2>1 DEF SendWrites, SendFails, OpenIsRegistered
<1>11. CASE GwRestart
    BY <1>11 DEF GwRestart, OpenIsRegistered
<1>12. CASE UNCHANGED gwVars
    BY <1>12 DEF gwVars, OpenIsRegistered
<1> QED BY <1>1, <1>2, <1>4, <1>5, <1>6, <1>7, <1>8, <1>9, <1>10, <1>11, <1>12
        DEF GwNext

\* A connection that is up and served is the registered one, or is about to be
\* closed by the newer one's handler.
THEOREM RegistryKeepsOpen == GwSpec => []OpenIsRegistered
<1>1. GwInv => OpenIsRegistered
    BY DEF GwInv
<1> QED BY GwInitInv, GwNextInv, <1>1, PTL DEF GwSpec

\* No step of any handler or sender takes the place of a registered connection
\* that is served and whose link stays up, but the accept of a newer one.
LEMMA StepNotEvicted ==
    GwInv /\ [GwNext]_gwVars =>
        [\A d \in Devices :
            reg[d] \in open \cap open' /\ stage[reg[d]] \in Serving =>
                \/ reg'[d] = reg[d]
                \/ \E t \in Sockets : stage[t] = "new" /\ reg'[d] = t]_gwVars
<1> SUFFICES ASSUME GwInv, GwNext, NEW d \in Devices,
                    reg[d] \in open \cap open', stage[reg[d]] \in Serving
             PROVE  \/ reg'[d] = reg[d]
                    \/ \E t \in Sockets : stage[t] = "new" /\ reg'[d] = t
    OBVIOUS
<1> USE SocketAssumption DEF GwInv, GwTypeOK
<1> DEFINE Stays == \/ reg'[d] = reg[d]
                    \/ \E t \in Sockets : stage[t] = "new" /\ reg'[d] = t
<1>1. ASSUME NEW s \in Sockets, Accept(s) PROVE Stays
    BY <1>1 DEF Accept, Goto
<1>2. ASSUME NEW s \in Sockets, Greet(s) \/ SendFails(s) PROVE Stays
    BY <1>2 DEF Greet, SendFails, Without
<1>3. ASSUME NEW s \in Sockets, Unregister(s) PROVE Stays
    <2>1. stage[s] \notin Serving
        BY <1>3 DEF Unregister, Goto, Serving
    <2> QED BY <1>3, <2>1 DEF Unregister, Without
<1>4. ASSUME NEW s \in Sockets,
             \/ CloseOld(s) \/ GwMarkOnline(s) \/ Welcome(s) \/ PublishConnected(s)
             \/ GwConnectedLost(s) \/ LeaveLoop(s) \/ LoopFails(s)
             \/ GwMarkOffline(s) \/ PublishDisconnected(s) \/ Drop(s)
             \/ SendWrites(s)
      PROVE  Stays
    BY <1>4 DEF CloseOld, GwMarkOnline, Welcome, PublishConnected, GwConnectedLost,
                LeaveLoop, LoopFails, GwMarkOffline, PublishDisconnected, Drop,
                SendWrites
<1>5. ASSUME NEW e \in Devices, SendBegins(e) PROVE Stays
    BY <1>5 DEF SendBegins
<1>6. CASE GwRestart
    BY <1>6 DEF GwRestart
<1> QED BY <1>1, <1>2, <1>3, <1>4, <1>5, <1>6 DEF GwNext

\* A registered connection that is up and served is replaced only by a newer one.
THEOREM RegistryNotEvicted == GwSpec => LiveNotEvicted
BY GwInitInv, GwNextInv, StepNotEvicted, PTL DEF GwSpec, LiveNotEvicted

-----------------------------------------------------------------------------
\* Every step of the presence model is a step of the gateway or leaves the
\* gateway's variables alone.
LEMMA PresenceStep == [Next]_vars => [GwNext]_gwVars
<1> SUFFICES ASSUME [Next]_vars PROVE [GwNext]_gwVars
    OBVIOUS
<1>1. ASSUME NEW s \in Sockets, Handler(s) PROVE GwNext
    BY <1>1 DEF Handler, Serve, MarkOnline, MarkOffline, ConnectedLost, GwNext
<1>2. ASSUME NEW s \in Sockets, SendEnds(s) PROVE GwNext
    BY <1>2 DEF SendEnds, GwNext
<1>3. ASSUME NEW d \in Devices, Send(d) PROVE GwNext
    BY <1>3 DEF Send, GwNext
<1>4. ASSUME NEW d \in Devices, Age(d) \/ Requests(d) PROVE UNCHANGED gwVars
    BY <1>4 DEF Age, Requests, HeartbeatLoad, HeartbeatError, HeartbeatStore,
                DeactivateLoad, DeactivateStore, DeactivateError
<1>5. CASE Monitor
    BY <1>5 DEF Monitor, Check, TimeOut, CommitCheck, CheckError
<1>6. CASE Restart
    BY <1>6 DEF Restart, GwNext
<1>7. CASE UNCHANGED vars
    BY <1>7 DEF vars
<1> QED BY <1>1, <1>2, <1>3, <1>4, <1>5, <1>6, <1>7 DEF Next

\* The presence model implements the gateway ...
THEOREM PresenceImplementsGateway == Spec => GwSpec
<1>1. Init => GwInit
    BY DEF Init
<1> QED BY <1>1, PresenceStep, PTL DEF Spec, GwSpec

\* ... so the latest live connection stays registered there too.
THEOREM PresenceNotEvicted == Spec => []OpenIsRegistered /\ LiveNotEvicted
BY PresenceImplementsGateway, RegistryKeepsOpen, RegistryNotEvicted, PTL

-----------------------------------------------------------------------------
(* The rows. *)

LEMMA InitTypeOK == Init => TypeOK
BY GwInitInv, BoundsAssumption
   DEF Init, GwInv, TypeOK, Closed, Resting, Health, Request

LEMMA NextTypeOK == TypeOK /\ [Next]_vars => TypeOK'
<1> SUFFICES ASSUME TypeOK, [Next]_vars PROVE TypeOK'
    OBVIOUS
<1> DEFINE RowTypes == /\ online \in [Devices -> BOOLEAN]
                       /\ status \in [Devices -> Health \cup {"unknown", "offline"}]
                       /\ beat \in [Devices -> {"never", "fresh", "stale"}]
           Tick == [on : BOOLEAN, todo : SUBSET Devices, wrote : SUBSET Devices]
           Counts == [fault : 0..MaxFaults, restart : 0..MaxRestarts,
                      heartbeat : 0..MaxHeartbeats, deactivate : 0..MaxDeactivations]
<1>0. GwTypeOK'
    BY PresenceStep, GwNextTypeOK DEF TypeOK
<1>1. /\ RowTypes /\ mon \in Tick /\ count \in Counts
      /\ hb \in [Devices -> Request] /\ off \in [Devices -> Request]
      /\ Closed \in Request /\ Resting \in Tick /\ SocketOf \in [Sockets -> Devices]
      /\ \A d \in Devices : Loaded(d) \in Request
    BY SocketAssumption DEF TypeOK, Closed, Resting, Request, Loaded
<1>2. Fault => count' \in Counts
    BY <1>1, BoundsAssumption DEF Fault
<1> USE <1>1 DEF row
<1>3. ASSUME NEW d \in Devices, SetOffline(d), UNCHANGED beat PROVE RowTypes'
    BY <1>3 DEF SetOffline
<1>4. ASSUME NEW s \in Sockets, Handler(s) PROVE TypeOK'
    <2>1. CASE Serve(s)
        BY <1>0, <2>1 DEF TypeOK, Serve
    <2>2. CASE MarkOnline(s)
        <3>1. RowTypes'
            BY <2>2 DEF MarkOnline, Health
        <3>2. count' \in Counts
            BY <1>2, <2>2 DEF MarkOnline
        <3> QED BY <1>0, <2>2, <3>1, <3>2 DEF TypeOK, MarkOnline
    <2>3. CASE MarkOffline(s)
        <3>1. RowTypes'
            BY <1>3, <2>3 DEF MarkOffline
        <3>2. count' \in Counts
            BY <1>2, <2>3 DEF MarkOffline
        <3> QED BY <1>0, <2>3, <3>1, <3>2 DEF TypeOK, MarkOffline
    <2>4. CASE ConnectedLost(s)
        BY <1>0, <1>2, <2>4 DEF TypeOK, ConnectedLost
    <2> QED BY <1>4, <2>1, <2>2, <2>3, <2>4 DEF Handler
<1>5. ASSUME NEW s \in Sockets, SendEnds(s) PROVE TypeOK'
    BY <1>0, <1>5 DEF TypeOK, SendEnds
<1>6. ASSUME NEW d \in Devices,
             \/ DeactivateLoad(d) \/ DeactivateStore(d) \/ DeactivateError(d)
      PROVE  TypeOK'
    <2>1. CASE DeactivateLoad(d)
        <3>1. count' \in Counts
            BY <2>1, BoundsAssumption DEF DeactivateLoad
        <3> QED BY <1>0, <2>1, <3>1 DEF TypeOK, DeactivateLoad
    <2>2. CASE DeactivateStore(d)
        BY <1>0, <2>2 DEF TypeOK, DeactivateStore, Written
    <2>3. CASE DeactivateError(d)
        BY <1>0, <1>2, <2>3 DEF TypeOK, DeactivateError
    <2> QED BY <1>6, <2>1, <2>2, <2>3
<1>7. ASSUME NEW d \in Devices, HeartbeatLoad(d) PROVE TypeOK'
    <2>1. count' \in Counts
        BY <1>7, BoundsAssumption DEF HeartbeatLoad
    <2> QED BY <1>0, <1>7, <2>1 DEF TypeOK, HeartbeatLoad
<1>8. ASSUME NEW d \in Devices, HeartbeatError(d) PROVE TypeOK'
    BY <1>0, <1>2, <1>8 DEF TypeOK, HeartbeatError
<1>9. ASSUME NEW d \in Devices, NEW health \in Health, HeartbeatStore(d, health)
      PROVE  TypeOK'
    BY <1>0, <1>9 DEF TypeOK, HeartbeatStore, Written
<1>10. CASE Monitor
    <2>1. CASE Check
        BY <1>0, <2>1 DEF TypeOK, Check, Overdue
    <2>2. ASSUME NEW d \in Devices, TimeOut(d) PROVE TypeOK'
        BY <1>0, <2>2 DEF TypeOK, TimeOut
    <2>3. CASE CommitCheck
        BY <1>0, <2>3 DEF TypeOK, CommitCheck
    <2>4. CASE CheckError
        BY <1>0, <1>2, <2>4 DEF TypeOK, CheckError
    <2> QED BY <1>10, <2>1, <2>2, <2>3, <2>4 DEF Monitor
<1>11. CASE Restart
    <2>1. count' \in Counts
        BY <1>11, BoundsAssumption DEF Restart
    <2> QED BY <1>0, <1>11, <2>1 DEF TypeOK, Restart
<1>12. CASE UNCHANGED vars
    BY <1>0, <1>12 DEF TypeOK, vars
<1>13. ASSUME NEW d \in Devices, Send(d) \/ Age(d) PROVE TypeOK'
    BY <1>0, <1>13 DEF TypeOK, Send, Age
<1> QED BY <1>4, <1>5, <1>6, <1>7, <1>8, <1>9, <1>10, <1>11, <1>12, <1>13
        DEF Next, Requests

\* The variables of the presence model always have their declared types.
THEOREM TypeCorrect == Spec => []TypeOK
BY InitTypeOK, NextTypeOK, PTL DEF Spec

\* The handler of a connection that has set the row online is going to set it
\* offline again.
Marked == {"welcome", "greeting", "publish", "loop", "cleanup", "offline"}

OnlineIsMarked ==
    count.fault = 0 /\ count.restart = 0 =>
        \A d \in Devices : beat[d] = "never" /\ online[d] =>
            \E s \in Sockets : SocketOf[s] = d /\ stage[s] \in Marked

LEMMA NextMarked == TypeOK /\ OnlineIsMarked /\ [Next]_vars => OnlineIsMarked'
<1> SUFFICES ASSUME TypeOK, OnlineIsMarked, [Next]_vars,
                    count'.fault = 0, count'.restart = 0,
                    NEW d \in Devices, beat'[d] = "never", online'[d]
             PROVE  \E s \in Sockets : SocketOf[s] = d /\ stage'[s] \in Marked
    BY DEF OnlineIsMarked
<1>0. TypeOK' /\ GwTypeOK /\ SocketOf \in [Sockets -> Devices]
    BY NextTypeOK, SocketAssumption DEF TypeOK
<1>1. /\ count.fault \in Nat /\ count.restart \in Nat /\ stage \in [Sockets ->
             {"new", "ended"} \cup Serving \cup Leaving]
      /\ online \in [Devices -> BOOLEAN] /\ beat \in [Devices -> {"never", "fresh", "stale"}]
    BY BoundsAssumption DEF TypeOK, GwTypeOK
<1> USE <1>0, <1>1
<1>2. count.fault = 0 /\ count.restart = 0 /\ ~Fault /\ ~Restart
    <2>1. \/ UNCHANGED count \/ Fault
          \/ count' = [count EXCEPT !.heartbeat = @ + 1]
          \/ count' = [count EXCEPT !.deactivate = @ + 1]
          \/ count' = [count EXCEPT !.restart = @ + 1]
        BY DEF Next, Handler, Serve, MarkOnline, MarkOffline, ConnectedLost, Send,
               SendEnds, Age, Requests, HeartbeatLoad, HeartbeatError, HeartbeatStore,
               DeactivateLoad, DeactivateStore, DeactivateError, Monitor, Check, TimeOut, CommitCheck, CheckError, Restart, vars
    <2> QED BY <2>1 DEF TypeOK, Fault, Restart
<1> DEFINE Marks(s) == SocketOf[s] = d /\ stage[s] \in Marked
<1> SUFFICES \E s \in Sockets : Marks(s)'
    OBVIOUS
<1>3. ASSUME beat[d] = "never", online[d], \A s \in Sockets : Marks(s) => Marks(s)'
      PROVE  \E s \in Sockets : Marks(s)'
    BY <1>2, <1>3 DEF OnlineIsMarked
<1> HIDE DEF Marks
<1>4. ASSUME UNCHANGED <<stage, online, beat>>
      PROVE  \E s \in Sockets : Marks(s)'
    BY <1>3, <1>4 DEF Marks
<1>5. ASSUME NEW s \in Sockets, Handler(s) PROVE \E x \in Sockets : Marks(x)'
    <2>1. CASE Serve(s)
        <3>1. \A x \in Sockets : Marks(x) => Marks(x)'
            BY <2>1 DEF Marks, Marked, Serve, Accept, CloseOld, Welcome, Greet,
                        PublishConnected, LeaveLoop, LoopFails, Unregister, PublishDisconnected, Drop, Goto
        <3> QED BY <2>1, <3>1, <1>3 DEF Serve, row
    <2>2. CASE MarkOnline(s)
        <3>1. \A x \in Sockets : stage'[x] = IF x = s THEN "welcome" ELSE stage[x]
            BY <2>2 DEF MarkOnline, GwMarkOnline, Goto
        <3>2. CASE SocketOf[s] = d
            BY <3>1, <3>2 DEF Marks, Marked
        <3>3. CASE SocketOf[s] # d
            <4>1. online'[d] = online[d] /\ beat' = beat
                BY <1>2, <2>2, <3>3 DEF MarkOnline
            <4> QED BY <3>1, <4>1, <1>3 DEF Marks, Marked
        <3> QED BY <3>2, <3>3
    <2>3. CASE MarkOffline(s)
        <3>1. \A x \in Sockets : x # s => stage'[x] = stage[x]
            BY <2>3 DEF MarkOffline, GwMarkOffline, Goto
        <3>2. /\ online'[d] = IF d = SocketOf[s] THEN FALSE ELSE online[d]
              /\ beat' = beat
            BY <1>2, <2>3 DEF MarkOffline, SetOffline
        <3> QED BY <3>1, <3>2, <1>3 DEF Marks
    <2> QED BY <1>2, <1>5, <2>1, <2>2, <2>3 DEF Handler, ConnectedLost
<1>6. ASSUME (\E e \in Devices : Send(e)) \/ (\E s \in Sockets : SendEnds(s))
      PROVE  \E x \in Sockets : Marks(x)'
    BY <1>4, <1>6 DEF Send, SendEnds, SendBegins, SendWrites, SendFails, row
<1>7. ASSUME NEW e \in Devices, Age(e) \/ Requests(e)
      PROVE  \E s \in Sockets : Marks(s)'
    <2>1. CASE \/ HeartbeatLoad(e) \/ HeartbeatError(e) \/ DeactivateLoad(e)
               \/ DeactivateError(e)
        BY <1>4, <2>1 DEF HeartbeatLoad, HeartbeatError, DeactivateLoad,
                          DeactivateError, row, gwVars
    <2>2. ASSUME UNCHANGED stage, beat[d] = "never", online[d]
          PROVE  \E s \in Sockets : Marks(s)'
        BY <2>2, <1>3 DEF Marks
    <2>3. CASE Age(e)
        BY <2>2, <2>3 DEF Age, gwVars
    <2>4. CASE DeactivateStore(e)
        <3>1. UNCHANGED stage /\ UNCHANGED beat
            BY <2>4 DEF DeactivateStore, gwVars
        <3>2. online'[d] => online[d]
            BY <2>4 DEF DeactivateStore, Written
        <3> QED BY <2>2, <3>1, <3>2
    <2>5. ASSUME NEW health \in Health, HeartbeatStore(e, health)
          PROVE  \E s \in Sockets : Marks(s)'
        <3>1. UNCHANGED stage /\ (d = e => beat'[d] = "fresh")
              /\ (d # e => beat'[d] = beat[d] /\ online'[d] = online[d])
            BY <2>5 DEF HeartbeatStore, gwVars
        <3> QED BY <2>2, <3>1
    <2> QED BY <1>7, <2>1, <2>3, <2>4, <2>5 DEF Requests
<1>8. CASE Monitor
    <2>1. UNCHANGED <<stage, beat>> /\ online[d]
        BY <1>8 DEF Monitor, Check, TimeOut, CommitCheck, CheckError, row, gwVars
    <2> QED BY <2>1, <1>3 DEF Marks
<1>9. CASE UNCHANGED vars
    BY <1>4, <1>9 DEF vars, gwVars, row
<1> QED BY <1>2, <1>5, <1>6, <1>7, <1>8, <1>9 DEF Next

\* Without errors and restarts, a device whose connections have all ended and
\* that never sent a heartbeat is not online.
THEOREM EndedAreOffline == Spec => []EndedIsOffline
<1>1. Init => OnlineIsMarked
    BY DEF Init, OnlineIsMarked
<1>2. OnlineIsMarked => EndedIsOffline
    BY DEF OnlineIsMarked, EndedIsOffline, Marked
<1> QED BY <1>1, <1>2, InitTypeOK, NextTypeOK, NextMarked, PTL DEF Spec
=============================================================================

------------------------------- MODULE Gateway -------------------------------
(***************************************************************************)
(* The agents' WebSockets: the connection registry (ws/manager.py) and the *)
(* life of the handler that serves one connection (ws/gateway.py).         *)
(*                                                                         *)
(* A handler is a coroutine; its stages are the awaits it can be suspended *)
(* at.  The registry's lock is never held across an await, so connect and  *)
(* disconnect change the registry in one step.  A send takes two: it reads *)
(* the registered socket, awaits the write, and unregisters that socket if *)
(* the write fails; by then another one may be registered.  Messages are   *)
(* plain JSON, so that a write fails only on a dead link.                  *)
(*                                                                         *)
(* What the handler does to the database and the event bus is left open    *)
(* here; Presence adds it.                                                 *)
(***************************************************************************)
EXTENDS Integers, FiniteSets

CONSTANTS
    Devices,    \* serial numbers
    Sockets,    \* connections ever made, each used once
    SocketOf,   \* the device that makes a connection
    None        \* no socket

ASSUME SocketAssumption == SocketOf \in [Sockets -> Devices] /\ None \notin Sockets

VARIABLES
    reg,     \* _connections: the socket registered for a device
    open,    \* sockets whose link is up
    stage,   \* the await each socket's handler is at
    found,   \* the socket a handler has read from the registry: to close it, or
             \* to greet it
    writing  \* sockets that a send has read and is writing to

gwVars == <<reg, open, stage, found, writing>>

\* Stages before the handler has left its message loop, and after.
Serving == {"replacing", "registered", "welcome", "greeting", "publish", "loop"}
Leaving == {"cleanup", "offline", "goodbye"}

GwTypeOK ==
    /\ reg \in [Devices -> Sockets \cup {None}]
    /\ open \subseteq Sockets
    /\ stage \in [Sockets -> {"new", "ended"} \cup Serving \cup Leaving]
    /\ found \in [Sockets -> Sockets \cup {None}]
    /\ writing \subseteq Sockets

GwInit ==
    /\ reg = [d \in Devices |-> None]
    /\ open = {}
    /\ stage = [s \in Sockets |-> "new"]
    /\ found = [s \in Sockets |-> None]
    /\ writing = {}

Goto(s, from, to) == stage[s] = from /\ stage' = [stage EXCEPT ![s] = to]

\* disconnect(serial, websocket): only the socket that is registered goes.
Without(s) == [d \in Devices |-> IF reg[d] = s THEN None ELSE reg[d]]

\* connect(): accept, then register the new socket and remember the old one.
Accept(s) ==
    /\ Goto(s, "new", "replacing")
    /\ open' = open \cup {s}
    /\ found' = [found EXCEPT ![s] = reg[SocketOf[s]]]
    /\ reg' = [reg EXCEPT ![SocketOf[s]] = s]
    /\ UNCHANGED writing

\* Mutant of CloseOld: the replaced socket is left open.
MutCloseOld(s) ==
    /\ Goto(s, "replacing", "registered")
    /\ found' = [found EXCEPT ![s] = None]
    /\ UNCHANGED <<reg, open, writing>>

\* ... and close the old one, with 4001 "replaced".
CloseOld(s) ==
    /\ Goto(s, "replacing", "registered")
    /\ open' = open \ {found[s]}
    /\ found' = [found EXCEPT ![s] = None]
    /\ UNCHANGED <<reg, writing>>

GwMarkOnline(s) ==
    /\ Goto(s, "registered", "welcome")
    /\ UNCHANGED <<reg, open, found, writing>>

\* The welcome message goes to whatever socket is registered by now ...
Welcome(s) ==
    /\ Goto(s, "welcome", "greeting")
    /\ found' = [found EXCEPT ![s] = reg[SocketOf[s]]]
    /\ UNCHANGED <<reg, open, writing>>

\* ... which is unregistered if the write fails; with none nothing was written.
Greet(s) ==
    /\ Goto(s, "greeting", "publish")
    /\ reg' = IF found[s] \in open THEN reg ELSE Without(found[s])
    /\ found' = [found EXCEPT ![s] = None]
    /\ UNCHANGED <<open, writing>>

PublishConnected(s) ==
    /\ Goto(s, "publish", "loop")
    /\ UNCHANGED <<reg, open, found, writing>>

\* The bus is full: publish raises out of the handler, with no cleanup.
GwConnectedLost(s) ==
    /\ Goto(s, "publish", "ended")
    /\ open' = open \ {s}
    /\ UNCHANGED <<reg, found, writing>>

\* receive_json raises WebSocketDisconnect once the link is down.
LeaveLoop(s) ==
    /\ s \notin open
    /\ Goto(s, "loop", "cleanup")
    /\ UNCHANGED <<reg, open, found, writing>>

\* Any other exception ends the loop as well, with the link up: a JSON message
\* that is no object, a binary frame, a full bus under a message's handler.
LoopFails(s) ==
    /\ s \in open
    /\ Goto(s, "loop", "cleanup")
    /\ UNCHANGED <<reg, open, found, writing>>

\* Mutant of Unregister: disconnect without the identity check.
MutUnregister(s) ==
    /\ Goto(s, "cleanup", "offline")
    /\ reg' = [reg EXCEPT ![SocketOf[s]] = None]
    /\ UNCHANGED <<open, found, writing>>

Unregister(s) ==
    /\ Goto(s, "cleanup", "offline")
    /\ reg' = Without(s)
    /\ UNCHANGED <<open, found, writing>>

GwMarkOffline(s) ==
    /\ Goto(s, "offline", "goodbye")
    /\ UNCHANGED <<reg, open, found, writing>>

\* Published or lost, the handler ends, and the server closes what is open.
PublishDisconnected(s) ==
    /\ Goto(s, "goodbye", "ended")
    /\ open' = open \ {s}
    /\ UNCHANGED <<reg, found, writing>>

\* The agent closes the connection, or the network loses it.
Drop(s) ==
    /\ s \in open
    /\ open' = open \ {s}
    /\ UNCHANGED <<reg, stage, found, writing>>

\* send, broadcast: read the registered socket and start to write to it.  Sends
\* that write to the same socket at once are one: each can only unregister it.
SendBegins(d) ==
    /\ reg[d] # None /\ reg[d] \notin writing
    /\ writing' = writing \cup {reg[d]}
    /\ UNCHANGED <<reg, open, stage, found>>

\* The message is written.
SendWrites(s) ==
    /\ s \in writing /\ s \in open
    /\ writing' = writing \ {s}
    /\ UNCHANGED <<reg, open, stage, found>>

\* Mutant of SendFails: a failed send is only reported.
MutSendFails(s) ==
    /\ s \in writing /\ s \notin open
    /\ writing' = writing \ {s}
    /\ UNCHANGED <<reg, open, stage, found>>

\* The write raises: disconnect the socket that was read.
SendFails(s) ==
    /\ s \in writing /\ s \notin open
    /\ writing' = writing \ {s}
    /\ reg' = Without(s)
    /\ UNCHANGED <<open, stage, found>>

\* The process stops; the next one starts with an empty registry.
GwRestart ==
    /\ reg' = [d \in Devices |-> None]
    /\ open' = {}
    /\ stage' = [s \in Sockets |-> IF stage[s] = "new" THEN "new" ELSE "ended"]
    /\ found' = [s \in Sockets |-> None]
    /\ writing' = {}

GwNext ==
    \/ \E s \in Sockets :
          \/ Accept(s) \/ CloseOld(s) \/ GwMarkOnline(s) \/ Welcome(s) \/ Greet(s)
          \/ PublishConnected(s) \/ GwConnectedLost(s) \/ LeaveLoop(s)
          \/ LoopFails(s) \/ Unregister(s) \/ GwMarkOffline(s)
          \/ PublishDisconnected(s) \/ Drop(s) \/ SendWrites(s) \/ SendFails(s)
    \/ \E d \in Devices : SendBegins(d)
    \/ GwRestart

GwSpec == GwInit /\ [][GwNext]_gwVars

-----------------------------------------------------------------------------
(* Properties. *)

\* ws/manager.py: "latest connection wins".  A connection that is up and being
\* served, from accept to the end of its message loop, is the registered one,
\* unless a newer handler has just replaced it and is about to close it: no
\* failed send to an earlier connection and no cleanup of its handler, however
\* late, leaves a connection served that no command can reach.
OpenIsRegistered ==
    \A s \in open : stage[s] \in Serving =>
        \/ reg[SocketOf[s]] = s
        \/ \E t \in Sockets : stage[t] = "replacing" /\ found[t] = s

\* ws/gateway.py:135: a stale cleanup does not evict a newer connection.  While
\* a registered connection is up and served, it stays registered: the only step
\* that takes its place is the accept of a newer one.
LiveNotEvicted ==
    [][\A d \in Devices :
          reg[d] \in open \cap open' /\ stage[reg[d]] \in Serving =>
              \/ reg'[d] = reg[d]
              \/ \E t \in Sockets : stage[t] = "new" /\ reg'[d] = t]_gwVars
=============================================================================

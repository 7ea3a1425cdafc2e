------------------------------- MODULE Viewers -------------------------------
(***************************************************************************)
(* The browsers that watch one device: their WebSocket handlers and sender *)
(* tasks (ws/remote_gateway.py), the registry and the frame queues         *)
(* (ws/viewer_manager.py), and the device's frames (ws/handlers.py).       *)
(*                                                                         *)
(* A send to the agent puts its message on the connection without a        *)
(* suspension before, so counting the viewers and telling the agent to     *)
(* stop is one step.  The agent is external: it takes commands in order,   *)
(* sends frames while it is streaming, and goes on streaming when its      *)
(* connection is lost.  Taps and keep-alive pings change no state and are  *)
(* left out; an error reported by the device is sent on like a frame.      *)
(***************************************************************************)
EXTENDS Integers, Sequences

CONSTANTS
    Viewers,    \* connections of browsers, each used once
    QueueSize,  \* maxsize of a viewer's queue
    Grace,      \* frames a device sends before it is told that nobody watches
    MaxFrame,   \* bound: frames that are told apart, the later ones are one
    MaxPending, \* bound: commands under way to the agent
    MaxDrops    \* bound: losses of the agent's connection

ASSUME ViewersAssumption ==
    /\ {QueueSize, MaxFrame, MaxPending} \subseteq Nat \ {0}
    /\ {Grace, MaxDrops} \subseteq Nat

VARIABLES
    stage,    \* what a viewer's handler is doing
    gone,     \* viewers whose browser has closed the connection
    viewers,  \* the registry
    queue,    \* a viewer's queue
    sender,   \* a viewer's sender task: the frame it is sending, if any
    newest,   \* history: the latest frame queued for a viewer
    shown,    \* history: the latest frame sent to a viewer
    wants,    \* history: viewers that have started the stream, which nothing
              \* but the server can have stopped since
    frame,    \* the number of the device's latest frame
    agent,    \* the device: its mode, its frames since the stream started
    link,     \* the agent's connection, and how often it was lost
    commands  \* commands under way to the agent

viewerVars == <<stage, gone, viewers, sender>>
agentVars == <<agent, link, commands>>
vars == <<viewerVars, queue, newest, shown, wants, frame, agentVars>>

NotRunning == -1
Waiting == 0
NotStreaming == [mode |-> "idle", sent |-> 0]

TypeOK ==
    /\ stage \in [Viewers -> {"new", "ack", "loop", "ended"}]
    /\ gone \subseteq Viewers
    /\ viewers \subseteq Viewers
    /\ queue \in [Viewers -> Seq(1..MaxFrame)]
    /\ \A v \in Viewers : Len(queue[v]) <= QueueSize
    /\ sender \in [Viewers -> {NotRunning, Waiting} \cup 1..MaxFrame]
    /\ newest \in [Viewers -> 0..MaxFrame]
    /\ shown \in [Viewers -> 0..MaxFrame]
    /\ wants \subseteq Viewers
    /\ frame \in 0..MaxFrame
    /\ agent \in [mode : {"idle", "streaming"}, sent : 0..Grace + 1]
    /\ link \in [state : {"up", "down"}, drops : 0..MaxDrops]
    /\ commands \in Seq({"start", "stop"}) /\ Len(commands) <= MaxPending

Init ==
    /\ stage = [v \in Viewers |-> "new"]
    /\ gone = {}
    /\ viewers = {}
    /\ queue = [v \in Viewers |-> <<>>]
    /\ sender = [v \in Viewers |-> NotRunning]
    /\ newest = [v \in Viewers |-> 0]
    /\ shown = [v \in Viewers |-> 0]
    /\ wants = {}
    /\ frame = 0
    /\ agent = NotStreaming
    /\ link = [state |-> "up", drops |-> 0]
    /\ commands = <<>>

Connected == link.state = "up"
Streaming == agent.mode = "streaming"

Min2(a, b) == IF a < b THEN a ELSE b

\* connection_manager.send: nothing happens if the agent is not connected.
Tell(c) ==
    IF Connected
    THEN Len(commands) < MaxPending /\ commands' = Append(commands, c)
    ELSE UNCHANGED commands

-----------------------------------------------------------------------------
(* A viewer's handler and its sender task. *)

Join(v) ==
    /\ stage[v] = "new"
    /\ stage' = [stage EXCEPT ![v] = "ack"]
    /\ viewers' = viewers \cup {v}
    /\ UNCHANGED <<gone, sender, queue, newest, shown, wants, frame, agentVars>>

\* "viewer.connected" is sent, the sender task started.
Ack(v) ==
    /\ stage[v] = "ack"
    /\ stage' = [stage EXCEPT ![v] = "loop"]
    /\ sender' = [sender EXCEPT ![v] = Waiting]
    /\ UNCHANGED <<gone, viewers, queue, newest, shown, wants, frame, agentVars>>

\* It cannot be sent: the handler ends outside its try block.
AckFails(v) ==
    /\ stage[v] = "ack" /\ v \in gone
    /\ stage' = [stage EXCEPT ![v] = "ended"]
    /\ UNCHANGED <<gone, viewers, sender, queue, newest, shown, wants, frame, agentVars>>

\* The browser asks for the stream, or asks the device to stop it.
Ask(v, c) ==
    /\ stage[v] = "loop" /\ v \notin gone
    /\ Tell(c)
    /\ wants' = IF c = "start" /\ Connected THEN wants \cup {v} ELSE {}
    /\ UNCHANGED <<viewerVars, queue, newest, shown, frame, agent, link>>

CloseTab(v) ==
    /\ stage[v] \in {"ack", "loop"}
    /\ gone' = gone \cup {v}
    /\ UNCHANGED <<stage, viewers, sender, queue, newest, shown, wants, frame, agentVars>>

\* Mutant of Leave: whoever leaves stops the device.
MutLeaveStops(v) ==
    /\ stage[v] = "loop" /\ v \in gone
    /\ stage' = [stage EXCEPT ![v] = "ended"]
    /\ sender' = [sender EXCEPT ![v] = NotRunning]
    /\ viewers' = viewers \ {v}
    /\ queue' = [queue EXCEPT ![v] = <<>>]
    /\ newest' = [newest EXCEPT ![v] = 0] /\ shown' = [shown EXCEPT ![v] = 0]
    /\ Tell("stop")
    /\ wants' = wants \ {v}
    /\ UNCHANGED <<gone, frame, agent, link>>

\* Mutant of Leave: only the last one of all tells the agent, and nobody is
\* removed before it.
MutLeave(v) ==
    /\ stage[v] = "loop" /\ v \in gone
    /\ stage' = [stage EXCEPT ![v] = "ended"]
    /\ sender' = [sender EXCEPT ![v] = NotRunning]
    /\ IF viewers = {v} THEN viewers' = {} /\ Tell("stop")
                        ELSE UNCHANGED <<viewers, commands>>
    /\ queue' = [queue EXCEPT ![v] = <<>>]
    /\ newest' = [newest EXCEPT ![v] = 0] /\ shown' = [shown EXCEPT ![v] = 0]
    /\ wants' = wants \ {v}
    /\ UNCHANGED <<gone, frame, agent, link>>

\* The finally block: cancel the sender, remove the viewer, and stop the device
\* if nobody is left.  The queue goes with the viewer: the sentinel that
\* remove_viewer puts there is never read, as the sender is cancelled before.
Leave(v) ==
    /\ stage[v] = "loop" /\ v \in gone
    /\ stage' = [stage EXCEPT ![v] = "ended"]
    /\ sender' = [sender EXCEPT ![v] = NotRunning]
    /\ viewers' = viewers \ {v}
    /\ queue' = [queue EXCEPT ![v] = <<>>]
    /\ newest' = [newest EXCEPT ![v] = 0] /\ shown' = [shown EXCEPT ![v] = 0]
    /\ IF viewers' = {} THEN Tell("stop") ELSE UNCHANGED commands
    /\ wants' = wants \ {v}
    /\ UNCHANGED <<gone, frame, agent, link>>

SenderGet(v) ==
    /\ sender[v] = Waiting
    /\ queue[v] # <<>>
    /\ queue' = [queue EXCEPT ![v] = Tail(@)]
    /\ sender' = [sender EXCEPT ![v] = Head(queue[v])]
    /\ UNCHANGED <<stage, gone, viewers, newest, shown, wants, frame, agentVars>>

SenderSent(v) ==
    /\ sender[v] > 0
    /\ shown' = [shown EXCEPT ![v] = sender[v]]
    /\ sender' = [sender EXCEPT ![v] = Waiting]
    /\ UNCHANGED <<stage, gone, viewers, queue, newest, wants, frame, agentVars>>

\* The send, of a frame or a ping, fails: the task ends.
SenderFails(v) ==
    /\ sender[v] # NotRunning /\ v \in gone
    /\ sender' = [sender EXCEPT ![v] = NotRunning]
    /\ UNCHANGED <<stage, gone, viewers, queue, newest, shown, wants, frame, agentVars>>

-----------------------------------------------------------------------------
(* The device's messages and their handler. *)

\* Mutant of Enqueue: a full queue keeps the old frames.
MutEnqueue(q, m) == IF Len(q) < QueueSize THEN Append(q, m) ELSE q

\* Mutant of Enqueue: the oldest frame is not dropped.
MutEnqueueAll(q, m) == Append(q, m)

\* enqueue_frame: the oldest frame makes room.
Enqueue(q, m) == IF Len(q) < QueueSize THEN Append(q, m) ELSE Append(Tail(q), m)

\* broadcast_frame
Broadcast ==
    LET m == Min2(frame + 1, MaxFrame) IN
    /\ frame' = m
    /\ queue' = [v \in Viewers |-> IF v \in viewers THEN Enqueue(queue[v], m) ELSE queue[v]]
    /\ newest' = [v \in Viewers |-> IF v \in viewers THEN m ELSE newest[v]]
    /\ UNCHANGED <<viewerVars, shown>>

\* Mutant of Frame: the handler trusts that the last viewer has told the agent.
MutFrame ==
    /\ Streaming /\ Connected
    /\ Broadcast
    /\ agent' = [agent EXCEPT !.sent = Min2(@ + 1, Grace + 1)]
    /\ UNCHANGED <<wants, link, commands>>

\* stream.frame: sent to all viewers; if there are none and the first frames
\* are past, the agent is told to stop.
Frame ==
    /\ Streaming /\ Connected
    /\ Broadcast
    /\ agent' = [agent EXCEPT !.sent = Min2(@ + 1, Grace + 1)]
    /\ IF viewers = {} /\ agent.sent > Grace THEN Tell("stop") ELSE UNCHANGED commands
    /\ UNCHANGED <<wants, link>>

\* stream.stopped: the system has ended the capture.
SystemStops ==
    /\ Streaming /\ Connected
    /\ Broadcast
    /\ agent' = NotStreaming
    /\ wants' = {}
    /\ UNCHANGED <<link, commands>>

\* The agent takes a command.
Obey ==
    /\ commands # <<>>
    /\ commands' = Tail(commands)
    /\ agent' = CASE Head(commands) = "stop" -> NotStreaming
                  [] Head(commands) = "start" /\ ~Streaming -> [mode |-> "streaming", sent |-> 0]
                  [] OTHER -> agent
    /\ UNCHANGED <<viewerVars, queue, newest, shown, wants, frame, link>>

\* The connection is lost with what is under way.
LinkLost ==
    /\ Connected /\ link.drops < MaxDrops
    /\ link' = [state |-> "down", drops |-> link.drops + 1]
    /\ commands' = <<>>
    /\ wants' = {}
    /\ UNCHANGED <<viewerVars, queue, newest, shown, frame, agent>>

Reconnect ==
    /\ ~Connected
    /\ link' = [link EXCEPT !.state = "up"]
    /\ UNCHANGED <<viewerVars, queue, newest, shown, wants, frame, agent, commands>>

-----------------------------------------------------------------------------
Next ==
    \/ \E v \in Viewers :
          \/ Join(v) \/ Ack(v) \/ AckFails(v) \/ CloseTab(v) \/ Leave(v)
          \/ SenderGet(v) \/ SenderSent(v) \/ SenderFails(v)
          \/ \E c \in {"start", "stop"} : Ask(v, c)
    \/ Frame \/ SystemStops \/ Obey \/ LinkLost \/ Reconnect

Spec == Init /\ [][Next]_vars

\* asyncio runs the handlers and tasks; an agent reconnects, obeys, and sends
\* frames while it streams.  Browsers owe nothing.
Fairness ==
    /\ \A v \in Viewers :
          /\ WF_vars(Ack(v) \/ AckFails(v)) /\ WF_vars(Leave(v))
          /\ WF_vars(SenderGet(v)) /\ WF_vars(SenderSent(v) \/ SenderFails(v))
    /\ WF_vars(Frame) /\ WF_vars(Obey) /\ WF_vars(Reconnect)

FairSpec == Spec /\ Fairness

-----------------------------------------------------------------------------
(* Properties. *)

\* viewer_manager.py:10: a slow viewer loses the oldest frames.  So what a
\* viewer has, is being sent and has waiting is in order and ends with the
\* newest frame since it joined.
EndsWithNewest ==
    \A v \in viewers \ gone :
        LET pending == <<shown[v]>>
                       \o (IF sender[v] > 0 THEN <<sender[v]>> ELSE <<>>)
                       \o queue[v]
        IN  /\ pending[Len(pending)] = newest[v]
            /\ \A i \in 1..Len(pending) - 1 : pending[i] <= pending[i + 1]

\* The server does not stop a stream that a viewer has started and still
\* watches: whichever viewers leave or join meanwhile, the agent streams once
\* it has taken the commands under way.
WantedStreams ==
    wants # {} => IF commands = <<>> THEN Streaming
                                     ELSE commands[Len(commands)] = "start"

\* A viewer whose handler got as far as its loop leaves the registry when its
\* browser is gone, whatever its sender task is doing.
GoneLeaves ==
    \A v \in Viewers : (stage[v] = "loop" /\ v \in gone) ~> v \notin viewers

\* A device that nobody is registered for stops streaming: if the command of
\* the last viewer does not reach it, the first frame after its return does.
UnwatchedStops == <>[](viewers = {}) => <>[]~Streaming

\* viewer_manager.py:50: "Registry of all active viewer WebSocket connections."
\* The code violates it: a viewer that closes before it is acknowledged is
\* never removed.
RegisteredIsServed == \A v \in viewers : stage[v] # "ended"
=============================================================================

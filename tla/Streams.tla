-------------------------------- MODULE Streams --------------------------------
(***************************************************************************)
(* Streaming sessions between viewers and devices                          *)
(* (streaming/session_manager.py).                                         *)
(*                                                                         *)
(* create_session and end_session await a send to the agent; everything    *)
(* else, the handler of a device that went offline included, runs in one   *)
(* step.  A device's list of sessions is a set here.                       *)
(*                                                                         *)
(* The relays of signals and inputs, which change no state but a           *)
(* statistic, are left out, and so is what is published: a full bus raises *)
(* in publish, but after the last change of state.                         *)
(***************************************************************************)
EXTENDS Integers, FiniteSets

CONSTANTS
    StreamDevices,
    Streams,    \* session_ids, each used once
    Enders,     \* end_session calls at a time, each used again and again
    MaxLost,    \* bound: connections lost
    NoStream

ASSUME StreamsAssumption == NoStream \notin Streams /\ MaxLost \in Nat

VARIABLES
    link,     \* devices in the connection registry
    stream,   \* the StreamSessionInfo objects
    tracked,  \* _sessions
    listed,   \* _device_sessions
    sending,  \* streams whose create_session is sending the start command
    ending,   \* the stream each end_session call is stopping
    notices,  \* devices that went offline, not yet handled
    missed,   \* history: streams that were being created during the handling
    lost

streamVars == <<link, stream, tracked, listed, sending, ending, notices, missed, lost>>

State == {"none", "pending", "active", "ended", "error"}

StreamTypeOK ==
    /\ link \subseteq StreamDevices
    /\ stream \in [Streams -> [device : StreamDevices, state : State]]
    /\ tracked \subseteq Streams
    /\ listed \in [StreamDevices -> SUBSET Streams]
    /\ sending \subseteq Streams
    /\ ending \in [Enders -> Streams \cup {NoStream}]
    /\ notices \subseteq StreamDevices
    /\ missed \subseteq Streams
    /\ lost \in 0..MaxLost

StreamInit ==
    /\ link = StreamDevices
    /\ stream \in [Streams -> [device : StreamDevices, state : {"none"}]]
    /\ tracked = {}
    /\ listed = [d \in StreamDevices |-> {}]
    /\ sending = {}
    /\ ending = [c \in Enders |-> NoStream]
    /\ notices = {}
    /\ missed = {}
    /\ lost = 0

Become(S, state) ==
    stream' = [s \in Streams |-> IF s \in S THEN [stream[s] EXCEPT !.state = state] ELSE stream[s]]

\* _cleanup_session of each of S; nothing for one that is gone already.
CleanUp(S) ==
    /\ tracked' = tracked \ S
    /\ listed' = [d \in StreamDevices |->
                     listed[d] \ {s \in S : s \in tracked /\ stream[s].device = d}]

-----------------------------------------------------------------------------
\* create_session until the send; of a device that is not connected, nothing.
Create(s) ==
    /\ stream[s].state = "none"
    /\ stream[s].device \in link
    /\ Become({s}, "pending")
    /\ tracked' = tracked \cup {s}
    /\ listed' = [listed EXCEPT ![stream[s].device] = @ \cup {s}]
    /\ sending' = sending \cup {s}
    /\ UNCHANGED <<link, ending, notices, missed, lost>>

\* The start command was sent: active, whatever became of it meanwhile.
Started(s) ==
    /\ s \in sending
    /\ Become({s}, "active")
    /\ sending' = sending \ {s}
    /\ UNCHANGED <<link, tracked, listed, ending, notices, missed, lost>>

NotStarted(s) ==
    /\ s \in sending
    /\ CleanUp({s})
    /\ sending' = sending \ {s}
    /\ UNCHANGED <<link, stream, ending, notices, missed, lost>>

\* end_session, of a session that is tracked, sends the stop command.
End(c, s) ==
    /\ ending[c] = NoStream
    /\ s \in tracked
    /\ ending' = [ending EXCEPT ![c] = s]
    /\ UNCHANGED <<link, stream, tracked, listed, sending, notices, missed, lost>>

Ended(c) ==
    /\ ending[c] # NoStream
    /\ Become({ending[c]}, "ended")
    /\ CleanUp({ending[c]})
    /\ ending' = [ending EXCEPT ![c] = NoStream]
    /\ UNCHANGED <<link, sending, notices, missed, lost>>

-----------------------------------------------------------------------------
Lose(d) ==
    /\ d \in link /\ lost < MaxLost
    /\ link' = link \ {d}
    /\ notices' = notices \cup {d}
    /\ lost' = lost + 1
    /\ UNCHANGED <<stream, tracked, listed, sending, ending, missed>>

Return(d) ==
    /\ d \notin link
    /\ link' = link \cup {d}
    /\ UNCHANGED <<stream, tracked, listed, sending, ending, notices, missed, lost>>

\* The sessions that handle_device_offline ends.
Running(d) == {s \in listed[d] : s \in tracked /\ stream[s].state = "active"}

\* Mutant of Offline: without the copy of the list, a session after one that is
\* removed is passed over.
MutOffline(d) ==
    /\ d \in notices
    /\ \E S \in SUBSET Running(d) :
          /\ 2 * Cardinality(S) \in {Cardinality(Running(d)), Cardinality(Running(d)) + 1}
          /\ Become(S, "error") /\ CleanUp(S)
    /\ notices' = notices \ {d}
    /\ missed' = missed \cup (listed[d] \cap sending)
    /\ UNCHANGED <<link, sending, ending, lost>>

Offline(d) ==
    /\ d \in notices
    /\ Become(Running(d), "error") /\ CleanUp(Running(d))
    /\ notices' = notices \ {d}
    /\ missed' = missed \cup (listed[d] \cap sending)
    /\ UNCHANGED <<link, sending, ending, lost>>

StreamNext ==
    \/ \E s \in Streams : Create(s) \/ Started(s) \/ NotStarted(s) \/ \E c \in Enders : End(c, s)
    \/ \E c \in Enders : Ended(c)
    \/ \E d \in StreamDevices : Lose(d) \/ Return(d) \/ Offline(d)

StreamSpec == StreamInit /\ [][StreamNext]_streamVars

-----------------------------------------------------------------------------
\* session_manager.py:238: a device that went offline leaves no active session
\* behind once that was handled, however sessions of it are created and ended
\* at the time; but for those whose create_session was at the send just then,
\* which the handler passes over.
OfflineEndsActive ==
    \A s \in tracked :
        stream[s].state = "active" =>
            \/ stream[s].device \in link \cup notices
            \/ s \in sending \cup missed
================================================================================

----------------------------- MODULE Orchestration -----------------------------
(***************************************************************************)
(* Orchestration sessions over paired devices: the sessions                *)
(* (orchestration/session_orchestrator.py) and the handlers that pause and *)
(* resume them (reconnect_orchestrator.py, engine.py).  The pairs are      *)
(* those of Pairing, whose graph the handlers read.                        *)
(*                                                                         *)
(* The event bus runs one handler at a time.  A transaction, of a handler  *)
(* or of an operator's request, loads a session with its entries, decides  *)
(* on what it has loaded, and stores the columns it has changed; what      *)
(* others commit in between it neither sees nor, in other columns, undoes. *)
(* Its stores are one step with its commit: until then they lock their     *)
(* rows and nobody sees them.                                              *)
(*                                                                         *)
(* Broadcasts and messages to partners carry no state and are left out,    *)
(* and so are the events that sessions publish, but for the exception a    *)
(* full bus raises.  The notifications that end the handler of a           *)
(* disconnect change no session and are left out.                          *)
(***************************************************************************)
EXTENDS Pairing

CONSTANTS
    Sessions,
    Members,    \* the devices of a session
    Operators,  \* requests on sessions at a time, each used again and again
    Reports,    \* bound: what a request says of a device's entry
    MaxDrops    \* bound: lost connections

\* pending -> active <-> paused, and from there to one of the others.
Status == {"none", "pending", "active", "paused", "completed", "failed", "aborted"}
Entry == {"pending", "ready", "active", "disconnected", "completed", "failed"}

ASSUME OrchestrationAssumption ==
    /\ Members \in [Sessions -> SUBSET Devices]
    /\ Reports \subseteq Entry
    /\ MaxDrops \in Nat

VARIABLES
    up,        \* connected devices
    events,    \* device.connected and device.disconnected on the bus
    handler,   \* the event handler that runs, and the sessions it has loaded
    sess,      \* orchestration_sessions with their device entries, as committed
    op,        \* an operator's transaction
    meddled,   \* history: sessions an operator paused, whose entries an
               \* operator changed, of which two transactions overlapped, or
               \* whose handler failed
    drops

sessVars == <<sess, op, meddled>>
vars == <<pairVars, up, events, handler, sessVars, drops>>

Loaded == [status : Status, entry : [Devices -> Entry]]

NoSession == [status |-> "none", entry |-> [d \in Devices |-> "pending"]]
Quiet == [pc |-> "idle", type |-> "none", dev |-> None, read |-> {},
          was |-> [s \in Sessions |-> NoSession]]
OpIdle == [kind |-> "none", session |-> None, was |-> NoSession]

OpKinds == {"activate", "pause", "complete", "fail", "abort", "entry"}

OrchTypeOK ==
    /\ up \subseteq Devices
    /\ events \in Seq([type : {"connected", "disconnected"}, dev : Devices])
    /\ handler \in [pc : {"idle", "load", "store"},
                    type : {"none", "connected", "disconnected"},
                    dev : Devices \cup {None}, read : SUBSET Sessions,
                    was : [Sessions -> Loaded]]
    /\ sess \in [Sessions -> Loaded]
    /\ op \in [Operators -> [kind : OpKinds \cup {"none"}, session : Sessions \cup {None},
                             was : Loaded]]
    /\ meddled \subseteq Sessions
    /\ drops \in 0..MaxDrops

TypeOK == PairTypeOK /\ OrchTypeOK

Init ==
    /\ PairInit
    /\ up = Devices
    /\ events = <<>>
    /\ handler = Quiet
    /\ sess = [s \in Sessions |-> NoSession]
    /\ op = [o \in Operators |-> OpIdle]
    /\ meddled = {}
    /\ drops = 0

\* The columns that differ from what was loaded are written.
Stored(now, was, new) ==
    [status |-> IF new.status = was.status THEN now.status ELSE new.status,
     entry |-> [d \in Devices |-> IF new.entry[d] = was.entry[d] THEN now.entry[d]
                                  ELSE new.entry[d]]]

\* Transactions on s that have loaded it and not ended.
Open(s) == (\E o \in Operators : op[o].session = s)
Handled(s) == handler.pc = "store" /\ s \in handler.read

-----------------------------------------------------------------------------
(* Connections and their events. *)

Tell(type, d) == events' = Append(events, [type |-> type, dev |-> d])

Drop(d) ==
    /\ d \in up /\ drops < MaxDrops
    /\ drops' = drops + 1
    /\ up' = up \ {d}
    /\ Tell("disconnected", d)
    /\ UNCHANGED <<pairVars, handler, sessVars>>

Connect(d) ==
    /\ d \notin up
    /\ up' = up \cup {d}
    /\ Tell("connected", d)
    /\ UNCHANGED <<pairVars, handler, sessVars, drops>>

-----------------------------------------------------------------------------
(* The handlers. *)

\* The impact is read from the graph.  A disconnect that affects nobody and
\* a connect of a device on which nobody depends end here.
Concerns(e) == IF e.type = "disconnected" THEN Severity(graph, e.dev) # "none"
               ELSE Dependents(graph, e.dev) # {}

Take ==
    /\ handler.pc = "idle" /\ events # <<>>
    /\ handler' = IF Concerns(Head(events))
                  THEN [Quiet EXCEPT !.pc = "load", !.type = Head(events).type,
                                     !.dev = Head(events).dev]
                  ELSE Quiet
    /\ events' = Tail(events)
    /\ UNCHANGED <<pairVars, up, sessVars, drops>>

\* get_active_sessions_for_device, after the partners were told.
ActiveSessions(d) ==
    {s \in Sessions : d \in Members[s] /\ sess[s].status \in {"active", "paused", "pending"}}

Load ==
    /\ handler.pc = "load"
    /\ handler' = [handler EXCEPT !.pc = "store", !.read = ActiveSessions(handler.dev),
                                  !.was = [s \in Sessions |->
                                      IF s \in ActiveSessions(handler.dev) THEN sess[s]
                                      ELSE NoSession]]
    /\ meddled' = meddled \cup {s \in ActiveSessions(handler.dev) : Open(s)}
    /\ UNCHANGED <<pairVars, up, events, sess, op, drops>>

\* Mutant of Paused: no automatic pause.
MutPaused(was, d) == [was EXCEPT !.entry[d] = "disconnected"]

Paused(was, d) ==
    [status |-> IF was.status = "active" THEN "paused" ELSE was.status,
     entry |-> [was.entry EXCEPT ![d] = "disconnected"]]

\* Mutant of Resumed: the entry is not counted with those that are back.
MutResumed(was, d, members) ==
    [status |-> IF /\ was.status = "paused"
                   /\ \A c \in members : was.entry[c] \in {"active", "ready", "completed"}
                THEN "active" ELSE was.status,
     entry |-> [was.entry EXCEPT ![d] = "active"]]

\* Resumed when all devices of the session are back.
Resumed(was, d, members) ==
    LET entry == [was.entry EXCEPT ![d] = "active"]
    IN  [status |-> IF /\ was.status = "paused"
                       /\ \A c \in members : entry[c] \in {"active", "ready", "completed"}
                    THEN "active" ELSE was.status,
         entry |-> entry]

Outcome(s) ==
    IF handler.type = "disconnected" THEN Paused(handler.was[s], handler.dev)
    ELSE Resumed(handler.was[s], handler.dev, Members[s])

Store ==
    /\ handler.pc = "store"
    /\ sess' = [s \in Sessions |->
                   IF s \in handler.read THEN Stored(sess[s], handler.was[s], Outcome(s))
                   ELSE sess[s]]
    /\ handler' = Quiet
    /\ UNCHANGED <<pairVars, up, events, op, meddled, drops>>

\* A statement, a publish or the commit raises: rolled back and logged.
StoreFails ==
    /\ handler.pc = "store"
    /\ Err
    /\ meddled' = meddled \cup handler.read
    /\ handler' = Quiet
    /\ UNCHANGED <<graph, row, call, torn, up, events, sess, op, drops>>

-----------------------------------------------------------------------------
(* Operators' requests. *)

CreateSession(s) ==
    /\ sess[s].status = "none"
    /\ sess' = [sess EXCEPT ![s].status = "pending"]
    /\ UNCHANGED <<pairVars, up, events, handler, op, meddled, drops>>

Permitted(kind, status) ==
    CASE kind = "activate" -> status = "pending"
      [] kind = "pause" -> status = "active"
      [] kind = "complete" -> status \in {"active", "paused"}
      [] kind \in {"fail", "abort"} -> status \notin {"completed", "aborted"}
      [] kind = "entry" -> TRUE

\* activate_session, pause_session and the others load the session, and end
\* here when its status forbids what is asked.
LoadSession(o, kind, s) ==
    /\ op[o].kind = "none" /\ sess[s].status # "none" /\ Permitted(kind, sess[s].status)
    /\ op' = [op EXCEPT ![o] = [kind |-> kind, session |-> s, was |-> sess[s]]]
    /\ meddled' = IF Open(s) \/ Handled(s) THEN meddled \cup {s} ELSE meddled
    /\ UNCHANGED <<pairVars, up, events, handler, sess, drops>>

Requested(kind, was, members) ==
    CASE kind = "activate" ->
            {[status |-> "active",
              entry |-> [d \in Devices |-> IF d \in members THEN "active" ELSE was.entry[d]]]}
      [] kind = "pause" -> {[was EXCEPT !.status = "paused"]}
      [] kind = "complete" ->
            {[status |-> "completed",
              entry |-> [d \in Devices |-> IF was.entry[d] \in {"active", "ready"}
                                           THEN "completed" ELSE was.entry[d]]]}
      [] kind = "fail" -> {[was EXCEPT !.status = "failed"]}
      [] kind = "abort" -> {[was EXCEPT !.status = "aborted"]}
      [] kind = "entry" -> {[was EXCEPT !.entry[d] = e] : d \in members, e \in Reports}

\* A request says that a device is not ready.
Holds(new, was) ==
    \E d \in Devices : /\ new.entry[d] # was.entry[d]
                      /\ new.entry[d] \in {"pending", "disconnected", "failed"}

StoreSession(o) ==
    /\ op[o].kind # "none"
    /\ LET s == op[o].session
           was == op[o].was
       IN  \E new \in Requested(op[o].kind, was, Members[s]) :
              /\ sess' = [sess EXCEPT ![s] = Stored(@, was, new)]
              /\ meddled' = IF op[o].kind = "pause" \/ Holds(new, was)
                            THEN meddled \cup {s} ELSE meddled
    /\ op' = [op EXCEPT ![o] = OpIdle]
    /\ UNCHANGED <<pairVars, up, events, handler, drops>>

-----------------------------------------------------------------------------
\* The process ends and starts: events, transactions and connections are lost.
Restart ==
    /\ PairRestart
    /\ up' = {}
    /\ events' = <<>>
    /\ handler' = Quiet
    /\ op' = [o \in Operators |-> OpIdle]
    /\ UNCHANGED <<sess, meddled, drops>>

Pairs ==
    /\ \E q \in Calls : PairCall(q)
    /\ UNCHANGED <<up, events, handler, sessVars, drops>>

Handlers ==
    Take \/ Load \/ Store \/ StoreFails

Next ==
    \/ Pairs \/ Restart \/ Handlers
    \/ \E d \in Devices : Drop(d) \/ Connect(d)
    \/ \E s \in Sessions : CreateSession(s)
    \/ \E o \in Operators :
          \/ \E kind \in OpKinds, s \in Sessions : LoadSession(o, kind, s)
          \/ StoreSession(o)

Spec == Init /\ [][Next]_vars

\* The bus and the database let a handler go on; errors are not required.
Fairness == WF_vars(Take \/ Load \/ Store)

FairSpec == Spec /\ Fairness

-----------------------------------------------------------------------------
(* Properties. *)

\* session_orchestrator.py:21-25: a session whose device is gone does not go
\* on, and one of several devices that were gone does not resume it, unless a
\* handler failed, two transactions on it overlapped or an operator set it so.
ActiveIsWhole ==
    \A s \in Sessions \ meddled :
        sess[s].status = "active" =>
            \A d \in Members[s] : sess[s].entry[d] # "disconnected"

\* reconnect_orchestrator.py:11-12: when all its devices are back, a paused
\* session is resumed, provided that each of them always has dependents: the
\* handler passes over a device that is only a target of pairs.
Resumes ==
    \A s \in Sessions :
        (/\ <>[](Members[s] \subseteq up /\ s \notin meddled)
         /\ [](\A d \in Members[s] : Dependents(graph, d) # {}))
        => <>[](sess[s].status # "paused")
================================================================================

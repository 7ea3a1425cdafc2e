---------------------------- MODULE RemoteControl ----------------------------
(***************************************************************************)
(* Remote control of devices: the exclusive control locks                  *)
(* (remote_control/lock_manager.py) and the gestures that users execute    *)
(* under them (remote_control/manager.py).                                 *)
(*                                                                         *)
(* The lock operations await nothing but publish, which never suspends, so *)
(* each is one step.  A gesture checks the lock once; it is suspended      *)
(* after each input it has sent, in the audit write, and before each       *)
(* further input, in the delay the gesture asks for.  The first input of   *)
(* every gesture has no delay: it leaves in the same step as the check.    *)
(*                                                                         *)
(* What an input is, and the statistics, are left out.                     *)
(***************************************************************************)
EXTENDS Integers

CONSTANTS
    Devices,
    Users,
    Calls,     \* execute_gesture coroutines, each used again and again
    TTL,       \* the time to live of a lock, in ticks
    MaxSteps,  \* bound: inputs of a gesture
    None       \* no user

ASSUME RemoteControlAssumption ==
    /\ None \notin Users
    /\ TTL \in Nat \ {0}
    /\ MaxSteps \in Nat \ {0}

VARIABLES
    lock,   \* _locks: who holds a device's lock, and its time since refreshed
    call,   \* what each gesture is doing
    req     \* history: the user whose request this step served, and whether
            \* it was an administrator's, who may override a lock

vars == <<lock, call, req>>

Free == [holder |-> None, age |-> 0]
Idle == [pc |-> "idle", user |-> None, device |-> None, left |-> 0, sent |-> 0]
NoRequest == [user |-> None, role |-> "user"]

TypeOK ==
    /\ lock \in [Devices -> [holder : Users \cup {None}, age : 0..TTL]]
    /\ call \in [Calls -> [pc : {"idle", "audit", "delay"},
                           user : Users \cup {None}, device : Devices \cup {None},
                           left : 0..MaxSteps, sent : 0..MaxSteps]]
    /\ \A c \in Calls :
          call[c].pc # "idle" => /\ call[c].user \in Users
                                 /\ call[c].device \in Devices
                                 /\ call[c].left + call[c].sent <= MaxSteps
                                 /\ call[c].pc = "delay" => call[c].left > 0
    /\ req \in [user : Users \cup {None}, role : {"user", "admin"}]

Init ==
    /\ lock = [d \in Devices |-> Free]
    /\ call = [c \in Calls |-> Idle]
    /\ req = NoRequest

HeldBy(d, u) == lock[d].holder = u /\ lock[d].age < TTL
Expired(d) == lock[d].holder # None /\ lock[d].age = TTL

Request(u, role) == req' = [user |-> u, role |-> role]
Background == req' = NoRequest

Lock(d, u) == lock' = [lock EXCEPT ![d] = [holder |-> u, age |-> 0]]
Unlock(d) == lock' = [lock EXCEPT ![d] = Free]

-----------------------------------------------------------------------------
(* Locks. *)

\* A free or expired lock is taken; the holder's own is refreshed.
Acquire(d, u) ==
    /\ Request(u, "user")
    /\ IF \E v \in Users \ {u} : HeldBy(d, v)
       THEN UNCHANGED lock
       ELSE Lock(d, u)
    /\ UNCHANGED call

\* force=True takes it from anyone, once the theft has been published: when
\* the bus is full nothing is taken.
Steal(d, u) ==
    /\ Request(u, "admin")
    /\ \/ Lock(d, u)
       \/ (\E v \in Users \ {u} : HeldBy(d, v)) /\ UNCHANGED lock
    /\ UNCHANGED call

\* Mutant of Release: without the test of the holder.
MutRelease(d, u) == Request(u, "user") /\ Unlock(d) /\ UNCHANGED call

\* Only the holder's release, of a live or an expired lock, removes it.
Release(d, u) ==
    /\ Request(u, "user")
    /\ IF lock[d].holder = u THEN Unlock(d) ELSE UNCHANGED lock
    /\ UNCHANGED call

ForceRelease(d, u) == Request(u, "admin") /\ Unlock(d) /\ UNCHANGED call

\* get_lock, cleanup_expired: a lock found expired is removed.
Cleanup(D) ==
    /\ Background
    /\ lock' = [d \in Devices |-> IF d \in D /\ Expired(d) THEN Free ELSE lock[d]]
    /\ UNCHANGED call

\* Time passes for a lock.
Tick(d) ==
    /\ Background
    /\ lock[d].holder # None /\ lock[d].age < TTL
    /\ lock' = [lock EXCEPT ![d].age = @ + 1]
    /\ UNCHANGED call

-----------------------------------------------------------------------------
(* Gestures. *)

\* Mutant of Allowed: a device that has a lock is not told from one that is
\* locked by the caller.
MutAllowed(d, u) == TRUE

\* check: no lock, an expired one or one's own.
Allowed(d, u) == \A v \in Users \ {u} : ~HeldBy(d, v)

\* An expired lock is removed by check; the lock in force, which is then the
\* caller's own, is refreshed by refresh_on_activity.
Touched(d) ==
    [lock EXCEPT ![d] = IF Expired(d) THEN Free ELSE [@ EXCEPT !.age = 0]]

\* Mutant of Denied: the activity is counted before the lock is checked.
MutDenied(d, u) ==
    /\ ~Allowed(d, u)
    /\ Request(u, "user")
    /\ lock' = Touched(d)
    /\ UNCHANGED call

Denied(d, u) ==
    /\ ~Allowed(d, u)
    /\ Request(u, "user")
    /\ UNCHANGED <<lock, call>>

\* An unknown gesture, a click outside the picture, an empty text: one audit
\* entry.  n = 0 is a scroll of no steps, which returns at once.
Begin(c, d, u) ==
    /\ call[c].pc = "idle"
    /\ Allowed(d, u)
    /\ Request(u, "user")
    /\ lock' = Touched(d)
    /\ \/ UNCHANGED call
       \/ call' = [call EXCEPT ![c] = [pc |-> "audit", user |-> u, device |-> d,
                                       left |-> 0, sent |-> 0]]
       \/ \E n \in 1..MaxSteps, ok \in {0, 1} :
             call' = [call EXCEPT ![c] = [pc |-> "audit", user |-> u, device |-> d,
                                          left |-> n - 1, sent |-> ok]]

\* The entry is written, or the failure is logged; then the delay of the next
\* input, or the end.
Audit(c) ==
    /\ call[c].pc = "audit"
    /\ Background
    /\ call' = [call EXCEPT ![c] = IF @.left = 0 THEN Idle ELSE [@ EXCEPT !.pc = "delay"]]
    /\ UNCHANGED lock

\* Mutant of Send: the loop does not count its steps.
MutSend(c) ==
    /\ call[c].pc = "delay"
    /\ Background
    /\ call' = [call EXCEPT ![c].pc = "audit", ![c].sent = @ + 1]
    /\ UNCHANGED lock

\* The delay is over: the next input is sent, if the agent is connected.
Send(c) ==
    /\ call[c].pc = "delay"
    /\ Background
    /\ \E ok \in {0, 1} :
          call' = [call EXCEPT ![c].pc = "audit", ![c].left = @ - 1, ![c].sent = @ + ok]
    /\ UNCHANGED lock

-----------------------------------------------------------------------------
Next ==
    \/ \E d \in Devices, u \in Users :
          \/ Acquire(d, u) \/ Steal(d, u) \/ Release(d, u) \/ ForceRelease(d, u)
          \/ Denied(d, u)
          \/ \E c \in Calls : Begin(c, d, u)
    \/ \E D \in SUBSET Devices : Cleanup(D)
    \/ \E d \in Devices : Tick(d)
    \/ \E c \in Calls : Audit(c) \/ Send(c)

Spec == Init /\ [][Next]_vars

\* Time passes, and asyncio and the database let a gesture go on.
Fairness ==
    /\ \A d \in Devices : WF_vars(Tick(d))
    /\ \A c \in Calls : WF_vars(Audit(c)) /\ WF_vars(Send(c))

FairSpec == Spec /\ Fairness

-----------------------------------------------------------------------------
(* Properties. *)

\* What the agent is sent in a step on behalf of a gesture.
Injects(c) == call'[c].sent > call[c].sent

\* No request but the holder's own or a forced one ends a lock before its
\* time: not a denied acquire, a foreign release, a check or a cleanup.
NotTakenByOthers ==
    [][\A d \in Devices, u \in Users :
          HeldBy(d, u) /\ ~HeldBy(d, u)' =>
             req'.user = u \/ req'.role = "admin" \/ (lock'[d].holder = u /\ lock'[d].age = TTL)]_vars

\* "Auto-releases on inactivity": a user who makes no more requests ends up
\* without the lock, however often others try to use the device.
AbandonedLapses ==
    \A u \in Users, d \in Devices : <>[](req.user # u) => <>[]~HeldBy(d, u)

\* A user who keeps the lock ends up being the only one who sends inputs: what
\* the check of the lock misses is at most the rest of gestures then running.
Undisturbed ==
    \A u \in Users, d \in Devices :
        <>[]HeldBy(d, u) =>
            <>[][\A c \in Calls : Injects(c) /\ call'[c].device = d
                                     => call'[c].user = u]_vars
=============================================================================

------------------------------- MODULE EventBus -------------------------------
(***************************************************************************)
(* The in-process event bus (services/event_bus.py): a bounded queue, one  *)
(* processor task, and the subscribers' callbacks, which the processor     *)
(* runs as concurrent tasks (asyncio.gather), one event at a time.         *)
(*                                                                         *)
(* A subscription is a pair of an event type, or "*", and a callback; the  *)
(* code never subscribes the same pair twice.  A callback subscribed both  *)
(* to a type and to "*" is called twice.  Counters and logs are left out.  *)
(***************************************************************************)
EXTENDS Integers, Sequences

CONSTANTS
    Events,         \* events ever published, each once
    Types,          \* event types
    TypeOf,         \* the type of an event
    Star,           \* "*"
    Subscriptions,  \* pairs of a type, or Star, and a callback
    MaxQueue        \* max_queue_size

ASSUME EventBusAssumption ==
    /\ TypeOf \in [Events -> Types]
    /\ Star \notin Types
    /\ \A s \in Subscriptions : s[1] \in Types \cup {Star}
    /\ MaxQueue \in Nat \ {0}

VARIABLES
    queue,   \* _queue
    subs,    \* _subscribers
    proc,    \* the processor task: what it awaits
    tasks,   \* the callbacks of gather: the subscription, the number of the
             \* event it is called with, whether it has had its first turn
    taken,   \* history: the events the processor has got, in order
    since,   \* history: how many events had been got when a pair subscribed
    got      \* history: the numbers of the events a pair's callback has seen

vars == <<queue, subs, proc, tasks, taken, since, got>>

Published == {queue[i] : i \in DOMAIN queue} \cup {taken[i] : i \in DOMAIN taken}

TypeOK ==
    /\ queue \in Seq(Events) /\ Len(queue) <= MaxQueue
    /\ taken \in Seq(Events)
    /\ subs \subseteq Subscriptions
    /\ proc \in {"new", "get", "gather", "cancelled", "stopped"}
    /\ tasks \subseteq [sub : Subscriptions, n : 1..Len(taken), at : {"due", "running"}]
    /\ since \in [Subscriptions -> 0..Len(taken)]
    /\ got \in [Subscriptions -> SUBSET (1..Len(taken))]

Init ==
    /\ queue = <<>>
    /\ subs = {}
    /\ proc = "new"
    /\ tasks = {}
    /\ taken = <<>>
    /\ since = [s \in Subscriptions |-> 0]
    /\ got = [s \in Subscriptions |-> {}]

Start ==
    /\ proc = "new"
    /\ proc' = "get"
    /\ UNCHANGED <<queue, subs, tasks, taken, since, got>>

Subscribe(s) ==
    /\ s \notin subs
    /\ subs' = subs \cup {s}
    /\ since' = [since EXCEPT ![s] = Len(taken)]
    /\ UNCHANGED <<queue, proc, tasks, taken, got>>

\* Calls that are under way go on.
Unsubscribe(s) ==
    /\ subs' = subs \ {s}
    /\ UNCHANGED <<queue, proc, tasks, taken, since, got>>

\* Mutant of Publish: the capacity is not enforced.
MutPublish(e) ==
    /\ e \notin Published
    /\ queue' = Append(queue, e)
    /\ UNCHANGED <<subs, proc, tasks, taken, since, got>>

\* By a handler, a service or a callback, before start and after stop as well.
\* A full queue refuses the event: EventBusFullError.
Publish(e) ==
    /\ e \notin Published
    /\ Len(queue) < MaxQueue
    /\ queue' = Append(queue, e)
    /\ UNCHANGED <<subs, proc, tasks, taken, since, got>>

\* Mutant of Matching: exact subscribers hide the wildcard ones.
MutMatching(e) ==
    LET exact == {s \in subs : s[1] = TypeOf[e]} IN
    IF exact # {} THEN exact ELSE {s \in subs : s[1] = Star}

\* The subscriptions an event is dispatched to.
Matching(e) == {s \in subs : s[1] = TypeOf[e] \/ s[1] = Star}

\* Mutant of Take: a burst of events is collapsed to its first one.
MutTake ==
    /\ proc = "get"
    /\ queue # <<>>
    /\ queue' = <<>>
    /\ taken' = Append(taken, Head(queue))
    /\ tasks' = {[sub |-> s, n |-> Len(taken) + 1, at |-> "due"] : s \in Matching(Head(queue))}
    /\ proc' = IF tasks' = {} THEN "get" ELSE "gather"
    /\ UNCHANGED <<subs, since, got>>

\* Mutant of Take: the newest event is taken first.
MutTakeNewest ==
    /\ proc = "get"
    /\ queue # <<>>
    /\ queue' = SubSeq(queue, 1, Len(queue) - 1)
    /\ taken' = Append(taken, queue[Len(queue)])
    /\ tasks' = {[sub |-> s, n |-> Len(taken) + 1, at |-> "due"] :
                     s \in Matching(queue[Len(queue)])}
    /\ proc' = IF tasks' = {} THEN "get" ELSE "gather"
    /\ UNCHANGED <<subs, since, got>>

\* queue.get() and the start of _dispatch.  An event without subscribers is
\* done with at once.
Take ==
    /\ proc = "get"
    /\ queue # <<>>
    /\ queue' = Tail(queue)
    /\ taken' = Append(taken, Head(queue))
    /\ tasks' = {[sub |-> s, n |-> Len(taken) + 1, at |-> "due"] : s \in Matching(Head(queue))}
    /\ proc' = IF tasks' = {} THEN "get" ELSE "gather"
    /\ UNCHANGED <<subs, since, got>>

\* A task gets its first turn.
Call(t) ==
    /\ t \in tasks /\ t.at = "due"
    /\ tasks' = (tasks \ {t}) \cup {[t EXCEPT !.at = "running"]}
    /\ got' = [got EXCEPT ![t.sub] = @ \cup {t.n}]
    /\ UNCHANGED <<queue, subs, proc, taken, since>>

Return(t) ==
    /\ t \in tasks /\ t.at = "running"
    /\ tasks' = tasks \ {t}
    /\ UNCHANGED <<queue, subs, proc, taken, since, got>>

\* Mutant of Raise: without return_exceptions=True the first exception ends
\* gather, but not the other callbacks.
MutRaise(t) ==
    /\ t \in tasks /\ t.at = "running"
    /\ tasks' = tasks \ {t}
    /\ proc' = IF proc = "gather" THEN "get" ELSE proc
    /\ UNCHANGED <<queue, subs, taken, since, got>>

\* The exception is a result like any other; it is logged.
Raise(t) ==
    /\ t \in tasks /\ t.at = "running"
    /\ tasks' = tasks \ {t}
    /\ UNCHANGED <<queue, subs, proc, taken, since, got>>

\* gather is done, the processor goes on to the next event.
Gathered ==
    /\ proc = "gather" /\ tasks = {}
    /\ proc' = "get"
    /\ UNCHANGED <<queue, subs, tasks, taken, since, got>>

\* stop() cancels the processor.  That cancels gather's tasks: one that had
\* not had a turn never runs, the others end in their own time.
Stop ==
    /\ proc \in {"get", "gather"}
    /\ proc' = IF proc = "get" THEN "stopped" ELSE "cancelled"
    /\ tasks' = {t \in tasks : t.at = "running"}
    /\ UNCHANGED <<queue, subs, taken, since, got>>

Cancelled ==
    /\ proc = "cancelled" /\ tasks = {}
    /\ proc' = "stopped"
    /\ UNCHANGED <<queue, subs, tasks, taken, since, got>>

Next ==
    \/ Start \/ Take \/ Gathered \/ Stop \/ Cancelled
    \/ \E s \in Subscriptions : Subscribe(s) \/ Unsubscribe(s)
    \/ \E e \in Events : Publish(e)
    \/ \E t \in tasks : Call(t) \/ Return(t) \/ Raise(t)

Spec == Init /\ [][Next]_vars

\* asyncio gives every ready task its turn, and callbacks return.
Fairness ==
    /\ WF_vars(Start) /\ WF_vars(Take) /\ WF_vars(Gathered) /\ WF_vars(Cancelled)
    /\ WF_vars(\E t \in tasks : Call(t) \/ Return(t) \/ Raise(t))

FairSpec == Spec /\ Fairness

-----------------------------------------------------------------------------
(* Properties. *)

\* The callbacks of one event are over before the next event is dispatched,
\* and before stop() returns.  Services rely on it: two calls of a callback
\* never overlap, whatever its callbacks publish, raise or await.
OneEventAtATime ==
    /\ \A t \in tasks : t.n = Len(taken)
    /\ tasks # {} => proc \in {"gather", "cancelled"}

\* A subscriber sees each event of its type that is dispatched while it is
\* subscribed: the failure of another callback, a wildcard, or subscriptions
\* that come and go meanwhile cost it none.  Excepted are the callbacks that
\* have not had their turn, and those that stop() cancels.
SeesAll ==
    \A s \in subs : \A i \in since[s] + 1 .. Len(taken) :
        s[1] \in {TypeOf[taken[i]], Star} =>
           \/ i \in got[s]
           \/ [sub |-> s, n |-> i, at |-> "due"] \in tasks
           \/ i = Len(taken) /\ proc \in {"cancelled", "stopped"}

\* No accepted event is lost while the bus runs.
AcceptedIsDispatched ==
    \A e \in Events :
        e \in Published ~> \/ \E i \in DOMAIN taken : taken[i] = e
                           \/ proc \in {"cancelled", "stopped"}

\* The bus is a bounded log that is delivered in order, each event once: the
\* log is what the processor has got and what is still queued.
Delivery == INSTANCE OrderedDelivery WITH
    Subscribers <- Subscriptions,
    Interest <- [s \in Subscriptions |-> {e \in Events : s[1] \in {TypeOf[e], Star}}],
    Capacity <- MaxQueue,
    log <- taken \o queue,
    cursor <- Len(taken),
    seen <- got

DeliversInOrder == Delivery!DeliverySpec
=============================================================================

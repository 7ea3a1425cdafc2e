---------------------------- MODULE EventBus_proof ----------------------------
(* Delivery of events, for any events, types, subscriptions and capacity. *)
EXTENDS EventBus, TLAPS, SequenceTheorems

Calls == [sub : Subscriptions, n : 1..Len(taken), at : {"due", "running"}]

\* A call is due to a subscription that the event matches and that has not
\* seen it.
CallsAreNew ==
    \A t \in tasks : /\ t.sub[1] \in {TypeOf[taken[t.n]], Star}
                     /\ t.at = "due" => t.n \notin got[t.sub]

Inv == TypeOK /\ OneEventAtATime /\ CallsAreNew /\ SeesAll

\* Getting an event moves it from the head of the queue to the end of the log.
LEMMA TakeFacts ==
    ASSUME TypeOK, Take
    PROVE  /\ Head(queue) \in Events
           /\ queue' \in Seq(Events) /\ Len(queue') = Len(queue) - 1
           /\ taken' \in Seq(Events) /\ Len(taken') = Len(taken) + 1
           /\ \A i \in 1..Len(taken) : taken'[i] = taken[i]
           /\ taken'[Len(taken) + 1] = Head(queue)
           /\ taken' \o queue' = taken \o queue
<1>1. queue \in Seq(Events) /\ queue # <<>> /\ taken \in Seq(Events)
    BY DEF TypeOK, Take
<1>2. queue' = Tail(queue) /\ taken' = Append(taken, Head(queue))
    BY DEF Take
<1>3. /\ Head(queue) \in Events /\ Tail(queue) \in Seq(Events)
      /\ Len(Tail(queue)) = Len(queue) - 1
    BY <1>1
<1>4. /\ taken' \in Seq(Events) /\ Len(taken') = Len(taken) + 1
      /\ \A i \in 1..Len(taken) : taken'[i] = taken[i]
      /\ taken'[Len(taken) + 1] = Head(queue)
    BY <1>1, <1>2, <1>3
<1>5. taken' \o queue' = taken \o queue
    BY <1>1, <1>2, <1>3
<1> QED BY <1>2, <1>3, <1>4, <1>5

LEMMA InitInv == Init => Inv
<1> SUFFICES ASSUME Init PROVE Inv
    OBVIOUS
<1>1. TypeOK
    BY EventBusAssumption DEF Init, TypeOK
<1> QED BY <1>1 DEF Init, Inv, OneEventAtATime, CallsAreNew, SeesAll

LEMMA NextInv == Inv /\ [Next]_vars => Inv'
<1> SUFFICES ASSUME Inv, [Next]_vars PROVE Inv'
    OBVIOUS
<1> USE EventBusAssumption
<1>t. /\ TypeOK /\ OneEventAtATime /\ CallsAreNew /\ SeesAll
      /\ Len(taken) \in Nat /\ Len(queue) \in Nat
    BY DEF Inv, TypeOK
<1>1. CASE Start \/ Gathered \/ Cancelled
  <2>1. /\ UNCHANGED <<queue, subs, tasks, taken, since, got>>
        /\ proc' \in {"get", "stopped"}
        /\ tasks = {}
        /\ proc' = "stopped" <=> proc = "cancelled"
    BY <1>1, <1>t DEF Start, Gathered, Cancelled, OneEventAtATime
  <2>2. TypeOK' /\ OneEventAtATime' /\ CallsAreNew'
    BY <2>1, <1>t DEF TypeOK, OneEventAtATime, CallsAreNew
  <2>3. SeesAll'
    BY <2>1, <1>1, <1>t DEF SeesAll, Start, Gathered, Cancelled
  <2> QED BY <2>2, <2>3 DEF Inv
<1>2. CASE Take
  <2>1. /\ tasks = {} /\ proc = "get" /\ UNCHANGED <<subs, since, got>>
        /\ proc' \in {"get", "gather"} /\ (proc' = "get" => tasks' = {})
    BY <1>2, <1>t DEF Take, OneEventAtATime
  <2>2. tasks' = {[sub |-> s, n |-> Len(taken) + 1, at |-> "due"] : s \in Matching(Head(queue))}
    BY <1>2 DEF Take
  <2>3. Matching(Head(queue)) \subseteq Subscriptions
    BY <1>t DEF Matching, TypeOK
  <2>4. \A t \in tasks' : /\ t.sub \in Matching(Head(queue))
                          /\ t.n = Len(taken) + 1 /\ t.at = "due"
    BY <2>2
  <2>5. TypeOK'
    <3>1. tasks' \subseteq [sub : Subscriptions, n : 1..Len(taken'), at : {"due", "running"}]
        BY <2>2, <2>3, <1>2, <1>t, TakeFacts
    <3>2. since' \in [Subscriptions -> 0..Len(taken')]
        BY <2>1, <1>2, <1>t, TakeFacts DEF TypeOK
    <3>3. got' \in [Subscriptions -> SUBSET (1..Len(taken'))]
        BY <2>1, <1>2, <1>t, TakeFacts DEF TypeOK
    <3> QED BY <3>1, <3>2, <3>3, <2>1, <1>2, <1>t, TakeFacts DEF TypeOK
  <2>6. OneEventAtATime'
    BY <2>1, <2>4, <1>2, <1>t, TakeFacts DEF OneEventAtATime
  <2>7. CallsAreNew'
    <3> SUFFICES ASSUME NEW t \in tasks'
                 PROVE  /\ t.sub[1] \in {TypeOf[taken'[t.n]], Star}
                        /\ t.n \notin got'[t.sub]
        BY DEF CallsAreNew
    <3>1. t.sub \in Subscriptions /\ taken'[t.n] = Head(queue)
        BY <2>3, <2>4, <1>2, <1>t, TakeFacts
    <3>2. t.sub[1] \in {TypeOf[taken'[t.n]], Star}
        BY <3>1, <2>4 DEF Matching
    <3>3. Len(taken) + 1 \notin got[t.sub]
        BY <3>1, <1>t DEF TypeOK
    <3> QED BY <3>2, <3>3, <2>1, <2>4
  <2>8. SeesAll'
    <3> SUFFICES ASSUME NEW s \in subs, NEW i \in since[s] + 1 .. Len(taken) + 1,
                        s[1] \in {TypeOf[taken'[i]], Star}
                 PROVE  i \in got[s] \/ [sub |-> s, n |-> i, at |-> "due"] \in tasks'
        BY <2>1, <1>2, <1>t, TakeFacts DEF SeesAll
    <3>0. s \in Subscriptions /\ since[s] \in Nat
        BY <1>t DEF TypeOK
    <3>1. CASE i = Len(taken) + 1
        <4>1. s \in Matching(Head(queue))
            BY <3>1, <1>2, <1>t, TakeFacts DEF Matching
        <4> QED BY <4>1, <2>2, <3>1
    <3>2. CASE i # Len(taken) + 1
        <4>1. i \in since[s] + 1 .. Len(taken) /\ i \in 1..Len(taken)
            BY <3>0, <3>2, <1>t
        <4>2. taken'[i] = taken[i]
            BY <4>1, <1>2, <1>t, TakeFacts
        <4> QED BY <4>1, <4>2, <2>1, <1>t DEF SeesAll
    <3> QED BY <3>1, <3>2
  <2> QED BY <2>5, <2>6, <2>7, <2>8 DEF Inv
<1>3. CASE Stop
  <2>1. /\ UNCHANGED <<queue, subs, taken, since, got>>
        /\ tasks' \subseteq tasks
        /\ proc' \in {"stopped", "cancelled"}
        /\ proc' = "stopped" => tasks = {}
    BY <1>3, <1>t DEF Stop, OneEventAtATime
  <2>2. TypeOK'
    BY <2>1, <1>t DEF TypeOK
  <2>3. OneEventAtATime' /\ CallsAreNew'
    BY <2>1, <1>t DEF OneEventAtATime, CallsAreNew
  <2>4. SeesAll'
    <3> SUFFICES ASSUME NEW s \in subs, NEW i \in since[s] + 1 .. Len(taken),
                        s[1] \in {TypeOf[taken[i]], Star}, i # Len(taken)
                 PROVE  i \in got[s]
        BY <2>1 DEF SeesAll
    <3>1. [sub |-> s, n |-> i, at |-> "due"] \notin tasks
        BY <1>t DEF OneEventAtATime
    <3> QED BY <3>1, <1>t DEF SeesAll
  <2> QED BY <2>2, <2>3, <2>4 DEF Inv
<1>4. ASSUME NEW s \in Subscriptions, Subscribe(s) \/ Unsubscribe(s) PROVE Inv'
  <2>1. /\ UNCHANGED <<queue, proc, tasks, taken, got>>
        /\ subs' \subseteq subs \cup {s}
        /\ since' \in [Subscriptions -> 0..Len(taken)]
        /\ \A r \in subs' : (r \in subs /\ since'[r] = since[r]) \/ since'[r] = Len(taken)
    <3>1. CASE Subscribe(s)
        BY <3>1, <1>t DEF Subscribe, TypeOK
    <3>2. CASE Unsubscribe(s)
        BY <3>2, <1>t DEF Unsubscribe, TypeOK
    <3> QED BY <1>4, <3>1, <3>2
  <2>2. TypeOK'
    BY <2>1, <1>t DEF TypeOK
  <2>3. OneEventAtATime' /\ CallsAreNew'
    BY <2>1, <1>t DEF OneEventAtATime, CallsAreNew
  <2>4. SeesAll'
    <3> SUFFICES ASSUME NEW r \in subs', NEW i \in since'[r] + 1 .. Len(taken),
                        r[1] \in {TypeOf[taken[i]], Star}
                 PROVE  \/ i \in got[r]
                        \/ [sub |-> r, n |-> i, at |-> "due"] \in tasks
                        \/ i = Len(taken) /\ proc \in {"cancelled", "stopped"}
        BY <2>1 DEF SeesAll
    <3>1. since'[r] # Len(taken)
        BY <1>t
    <3> QED BY <3>1, <2>1, <1>t DEF SeesAll
  <2> QED BY <2>2, <2>3, <2>4 DEF Inv
<1>5. ASSUME NEW e \in Events, Publish(e) PROVE Inv'
  <2>1. /\ UNCHANGED <<subs, proc, tasks, taken, since, got>>
        /\ queue' \in Seq(Events) /\ Len(queue') <= MaxQueue
    BY <1>5, <1>t DEF Publish, TypeOK
  <2> QED BY <2>1, <1>t DEF Inv, TypeOK, OneEventAtATime, CallsAreNew, SeesAll
<1>6. ASSUME NEW t \in tasks, Call(t) PROVE Inv'
  <2>1. /\ UNCHANGED <<queue, subs, proc, taken, since>>
        /\ tasks' = (tasks \ {t}) \cup {[t EXCEPT !.at = "running"]}
        /\ got' = [got EXCEPT ![t.sub] = @ \cup {t.n}]
        /\ t.at = "due"
    BY <1>6 DEF Call
  <2>2. t \in Calls
    BY <1>t DEF TypeOK, Calls
  <2>3. [t EXCEPT !.at = "running"] = [sub |-> t.sub, n |-> t.n, at |-> "running"]
    BY <2>2 DEF Calls
  <2>4. tasks' \subseteq Calls
    BY <2>1, <2>2, <2>3, <1>t DEF TypeOK, Calls
  <2>5. /\ got' \in [Subscriptions -> SUBSET (1..Len(taken))]
        /\ \A s \in Subscriptions : got[s] \subseteq got'[s]
        /\ t.n \in got'[t.sub]
        /\ \A s \in Subscriptions : s # t.sub => got'[s] = got[s]
        /\ got'[t.sub] = got[t.sub] \cup {t.n}
    BY <2>1, <2>2, <1>t DEF TypeOK, Calls
  <2>6. TypeOK'
    BY <2>1, <2>4, <2>5, <1>t DEF TypeOK, Calls
  <2>7. OneEventAtATime'
    BY <2>1, <2>3, <1>t DEF OneEventAtATime
  <2>8. CallsAreNew'
    <3> SUFFICES ASSUME NEW r \in tasks'
                 PROVE  /\ r.sub[1] \in {TypeOf[taken[r.n]], Star}
                        /\ r.at = "due" => r.n \notin got'[r.sub]
        BY <2>1 DEF CallsAreNew
    <3>1. CASE r = [t EXCEPT !.at = "running"]
        BY <3>1, <2>3, <1>t DEF CallsAreNew
    <3>2. CASE r \in tasks /\ r # t
        <4>1. r \in Calls /\ r.n = t.n
            BY <3>2, <1>t DEF TypeOK, Calls, OneEventAtATime
        <4>2. r.at = "due" => r.sub # t.sub
            BY <4>1, <3>2, <2>1, <2>2 DEF Calls
        <4> QED BY <4>1, <4>2, <3>2, <2>5, <1>t DEF CallsAreNew, Calls
    <3> QED BY <3>1, <3>2, <2>1
  <2>9. SeesAll'
    <3> SUFFICES ASSUME NEW s \in subs, NEW i \in since[s] + 1 .. Len(taken),
                        s[1] \in {TypeOf[taken[i]], Star},
                        [sub |-> s, n |-> i, at |-> "due"] \notin tasks',
                        ~(i = Len(taken) /\ proc \in {"cancelled", "stopped"})
                 PROVE  i \in got'[s]
        BY <2>1 DEF SeesAll
    <3>0. s \in Subscriptions
        BY <1>t DEF TypeOK
    <3>1. CASE [sub |-> s, n |-> i, at |-> "due"] \in tasks
        <4>1. t = [sub |-> s, n |-> i, at |-> "due"]
            BY <3>1, <2>1
        <4> QED BY <4>1, <2>5
    <3>2. CASE [sub |-> s, n |-> i, at |-> "due"] \notin tasks
        BY <3>0, <3>2, <2>5, <1>t DEF SeesAll
    <3> QED BY <3>1, <3>2
  <2> QED BY <2>6, <2>7, <2>8, <2>9 DEF Inv
<1>7. ASSUME NEW t \in tasks, Return(t) \/ Raise(t) PROVE Inv'
  <2>1. /\ UNCHANGED <<queue, subs, proc, taken, since, got>>
        /\ tasks' \subseteq tasks
        /\ \A s, i : [sub |-> s, n |-> i, at |-> "due"] \in tasks
                        => [sub |-> s, n |-> i, at |-> "due"] \in tasks'
    BY <1>7 DEF Return, Raise
  <2>2. TypeOK' /\ OneEventAtATime' /\ CallsAreNew'
    BY <2>1, <1>t DEF TypeOK, OneEventAtATime, CallsAreNew
  <2>3. SeesAll'
    BY <2>1, <1>t DEF SeesAll
  <2> QED BY <2>2, <2>3 DEF Inv
<1>8. CASE UNCHANGED vars
    BY <1>8, <1>t DEF vars, Inv, TypeOK, OneEventAtATime, CallsAreNew, SeesAll
<1> QED BY <1>1, <1>2, <1>3, <1>4, <1>5, <1>6, <1>7, <1>8 DEF Next

LEMMA Invariance == Spec => []Inv
BY InitInv, NextInv, PTL DEF Spec

\* In particular, no more events than the capacity are ever queued.
THEOREM TypeCorrect == Spec => []TypeOK
BY Invariance, PTL DEF Inv

\* The callbacks of an event are over before the next event is dispatched and
\* before stop() returns.
THEOREM EventsDoNotOverlap == Spec => []OneEventAtATime
BY Invariance, PTL DEF Inv

\* A subscriber sees every event of its type dispatched since it subscribed.
THEOREM SubscribersSeeAll == Spec => []SeesAll
BY Invariance, PTL DEF Inv

-----------------------------------------------------------------------------
\* Every step of the bus is a step of the bounded ordered log, or none.
LEMMA StepDelivers ==
    Inv /\ [Next]_vars => [Delivery!DeliveryNext]_(Delivery!deliveryVars)
<1> SUFFICES ASSUME Inv, Next
             PROVE  Delivery!DeliveryNext \/ UNCHANGED Delivery!deliveryVars
    BY DEF vars, Delivery!deliveryVars
<1> USE EventBusAssumption
<1>t. TypeOK /\ OneEventAtATime /\ CallsAreNew
    BY DEF Inv
<1>1. CASE UNCHANGED <<queue, taken, got>>
    BY <1>1 DEF Delivery!deliveryVars
<1>2. CASE Take
  <2>1. /\ taken' \o queue' = taken \o queue
        /\ Len(taken') = Len(taken) + 1 /\ UNCHANGED got
    BY <1>2, <1>t, TakeFacts DEF Take
  <2>2. Len(taken) < Len(taken \o queue)
    BY <1>2, <1>t DEF Take, TypeOK
  <2> QED BY <2>1, <2>2 DEF Delivery!DeliveryNext, Delivery!Advance
<1>3. ASSUME NEW e \in Events, Publish(e) PROVE Delivery!DeliveryNext
  <2>1. /\ taken \in Seq(Events) /\ queue \in Seq(Events) /\ e \in Events
        /\ queue' = Append(queue, e) /\ UNCHANGED <<taken, got>>
        /\ Len(queue) < MaxQueue
    BY <1>3, <1>t DEF Publish, TypeOK
  <2>2. taken \o Append(queue, e) = Append(taken \o queue, e)
    BY <2>1
  <2>3. Len(taken \o queue) - Len(taken) < MaxQueue
    BY <2>1
  <2>4. Delivery!Accept(e)
    BY <2>1, <2>2, <2>3 DEF Delivery!Accept
  <2> QED BY <2>4 DEF Delivery!DeliveryNext
<1>4. ASSUME NEW t \in tasks, Call(t) PROVE Delivery!DeliveryNext
  <2>1. /\ t.sub \in Subscriptions /\ t.n = Len(taken) /\ t.n \in 1..Len(taken)
        /\ t.n \notin got[t.sub] /\ t.sub[1] \in {TypeOf[taken[t.n]], Star}
    BY <1>4, <1>t DEF TypeOK, OneEventAtATime, CallsAreNew, Call
  <2>2. UNCHANGED <<queue, taken>> /\ got' = [got EXCEPT ![t.sub] = @ \cup {t.n}]
    BY <1>4 DEF Call
  <2>3. /\ Len(taken) \in 1..Len(taken \o queue)
        /\ (taken \o queue)[Len(taken)] = taken[Len(taken)]
        /\ taken[Len(taken)] \in Events
    BY <2>1, <1>t DEF TypeOK
  <2>4. Delivery!See(t.sub)
    BY <2>1, <2>2, <2>3 DEF Delivery!See
  <2> QED BY <2>1, <2>4 DEF Delivery!DeliveryNext
<1>5. CASE \/ Start \/ Gathered \/ Stop \/ Cancelled
           \/ \E s \in Subscriptions : Subscribe(s) \/ Unsubscribe(s)
           \/ \E t \in tasks : Return(t) \/ Raise(t)
    BY <1>1, <1>5 DEF Start, Gathered, Stop, Cancelled, Subscribe, Unsubscribe, Return, Raise
<1> QED BY <1>2, <1>3, <1>4, <1>5 DEF Next

\* The bus delivers like a bounded log, in order and without repetition.
THEOREM BusImplementsDelivery == Spec => DeliversInOrder
<1>1. Init => Delivery!DeliveryInit
    BY DEF Init, Delivery!DeliveryInit
<1> QED BY <1>1, StepDelivers, Invariance, PTL
        DEF Spec, DeliversInOrder, Delivery!DeliverySpec
==============================================================================

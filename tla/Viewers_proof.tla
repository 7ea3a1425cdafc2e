---------------------------- MODULE Viewers_proof ----------------------------
(***************************************************************************)
(* What a viewer is shown and which streams go on, for any viewers, queue  *)
(* size, frames, commands under way and losses of the agent's connection.  *)
(***************************************************************************)
EXTENDS Viewers, TLAPS, SequenceTheorems

-----------------------------------------------------------------------------
(* Types. *)

Commands == {"start", "stop"}

\* Taking the first element leaves the others in order.
LEMMA TailFacts ==
    ASSUME NEW S, NEW q \in Seq(S), q # <<>>
    PROVE  /\ Head(q) \in S /\ Head(q) = q[1]
           /\ Tail(q) \in Seq(S) /\ Len(Tail(q)) = Len(q) - 1
           /\ Len(q) \in Nat \ {0}
           /\ \A i \in 1..Len(q) - 1 : Tail(q)[i] = q[i + 1]
           /\ \A i \in 1..Len(q) : q[i] \in S
           /\ Tail(q) = <<>> => Len(q) = 1
<1>1. Head(q) = q[1] /\ Len(q) \in Nat \ {0} /\ (\A i \in 1..Len(q) : q[i] \in S)
    BY EmptySeq
<1>2. Tail(q) = <<>> => Len(Tail(q)) = 0
    BY EmptySeq
<1> QED BY <1>1, <1>2, HeadTailProperties

\* Telling the agent adds one command at the end, or changes nothing.
LEMMA TellFacts ==
    ASSUME TypeOK, NEW c \in Commands, Tell(c)
    PROVE  /\ commands' \in Seq(Commands) /\ Len(commands') <= MaxPending
           /\ Connected => /\ commands' # <<>>
                            /\ commands'[Len(commands')] = c
           /\ ~Connected => commands' = commands
<1>1. commands \in Seq(Commands) /\ Len(commands) <= MaxPending
    BY DEF TypeOK, Commands
<1>2. CASE Connected
    <2>1. commands' = Append(commands, c) /\ Len(commands) < MaxPending
        BY <1>2 DEF Tell
    <2> HIDE DEF Commands
    <2>2. /\ commands' \in Seq(Commands) /\ Len(commands') = Len(commands) + 1
          /\ commands'[Len(commands) + 1] = c
        BY <1>1, <2>1
    <2>3. MaxPending \in Nat /\ Len(commands) \in Nat
        BY <1>1, ViewersAssumption
    <2> QED BY <1>2, <2>1, <2>2, <2>3
<1>3. CASE ~Connected
    BY <1>1, <1>3 DEF Tell
<1> QED BY <1>2, <1>3

\* A queue keeps its bound, ends with the new frame, and loses at most its head.
LEMMA EnqueueFacts ==
    ASSUME NEW q \in Seq(1..MaxFrame), Len(q) <= QueueSize, NEW m \in 1..MaxFrame
    PROVE  LET p == Enqueue(q, m) IN
           /\ p \in Seq(1..MaxFrame) /\ Len(p) <= QueueSize /\ Len(p) > 0
           /\ p[Len(p)] = m
           /\ \A i \in 1..Len(p) - 1 : \E j \in 1..Len(q) :
                 p[i] = q[j] /\ j - i = Len(q) - (Len(p) - 1)
<1>1. QueueSize \in Nat \ {0} /\ Len(q) \in Nat
    BY ViewersAssumption
<1>2. CASE Len(q) < QueueSize
    BY <1>1, <1>2 DEF Enqueue
<1>3. CASE ~(Len(q) < QueueSize)
    <2>1. q # <<>> /\ Tail(q) \in Seq(1..MaxFrame) /\ Len(Tail(q)) = Len(q) - 1
          /\ \A i \in 1..Len(q) - 1 : Tail(q)[i] = q[i + 1]
        BY <1>1, <1>3
    <2>2. Enqueue(q, m) = Append(Tail(q), m)
        BY <1>3 DEF Enqueue
    <2>3. \A i \in 1..Len(q) - 1 : Append(Tail(q), m)[i] = q[i + 1]
        BY <2>1
    <2>4. Len(Append(Tail(q), m)) = Len(q) /\ Append(Tail(q), m)[Len(q)] = m
          /\ Append(Tail(q), m) \in Seq(1..MaxFrame)
        BY <1>1, <2>1
    <2>5. \A i \in 1..Len(q) - 1 : i + 1 \in 1..Len(q) /\ (i + 1) - i = Len(q) - (Len(q) - 1)
        BY <1>1
    <2> QED BY <1>1, <1>3, <2>2, <2>3, <2>4, <2>5
<1> QED BY <1>2, <1>3

\* The frame after the latest one is a frame, and not an older one.
LEMMA NextFrame ==
    ASSUME TypeOK
    PROVE  Min2(frame + 1, MaxFrame) \in 1..MaxFrame /\ frame <= Min2(frame + 1, MaxFrame)
BY ViewersAssumption DEF TypeOK, Min2

\* Broadcasting a frame fills the queues of the viewers with it.
LEMMA BroadcastTypes ==
    ASSUME TypeOK, Broadcast
    PROVE  /\ UNCHANGED <<stage, gone, viewers, sender, shown>>
           /\ frame' \in 0..MaxFrame
           /\ queue' \in [Viewers -> Seq(1..MaxFrame)]
           /\ \A v \in Viewers : Len(queue'[v]) <= QueueSize
           /\ newest' \in [Viewers -> 0..MaxFrame]
<1> DEFINE m == Min2(frame + 1, MaxFrame)
<1>1. m \in 1..MaxFrame /\ m \in 0..MaxFrame
    BY NextFrame, ViewersAssumption
<1>2. \A v \in Viewers : queue[v] \in Seq(1..MaxFrame) /\ Len(queue[v]) <= QueueSize
    BY DEF TypeOK
<1>3. \A v \in Viewers : Enqueue(queue[v], m) \in Seq(1..MaxFrame)
                         /\ Len(Enqueue(queue[v], m)) <= QueueSize
    BY <1>1, <1>2, EnqueueFacts
<1>4. /\ frame' = m
      /\ queue' = [v \in Viewers |-> IF v \in viewers THEN Enqueue(queue[v], m) ELSE queue[v]]
      /\ newest' = [v \in Viewers |-> IF v \in viewers THEN m ELSE newest[v]]
      /\ UNCHANGED <<stage, gone, viewers, sender, shown>>
    BY DEF Broadcast, viewerVars
<1>5. newest' \in [Viewers -> 0..MaxFrame]
    BY <1>1, <1>4 DEF TypeOK
<1> HIDE DEF m
<1> QED BY <1>1, <1>2, <1>3, <1>4, <1>5

\* Every step of a handler, a sender task and the agent keeps the types.
LEMMA NextTypeOK == TypeOK /\ [Next]_vars => TypeOK'
<1> SUFFICES ASSUME TypeOK, [Next]_vars PROVE TypeOK'
    OBVIOUS
<1> USE ViewersAssumption
<1>0. 0 \in 0..MaxFrame /\ <<>> \in Seq(1..MaxFrame) /\ Len(<<>>) <= QueueSize
      /\ Len(<<>>) <= MaxPending /\ <<>> \in Seq(Commands)
    OBVIOUS
<1>1. ASSUME NEW v \in Viewers, Join(v) \/ Ack(v) \/ AckFails(v) \/ CloseTab(v)
      PROVE TypeOK'
    BY <1>1 DEF TypeOK, Join, Ack, AckFails, CloseTab, agentVars, Waiting
<1>2. ASSUME NEW v \in Viewers, Leave(v) PROVE TypeOK'
    <2>1. commands' \in Seq(Commands) /\ Len(commands') <= MaxPending
        <3>1. CASE viewers' = {}
            BY <1>2, <3>1, TellFacts DEF Leave, Commands
        <3>2. CASE viewers' # {}
            BY <1>2, <3>2 DEF Leave, TypeOK, Commands
        <3> QED BY <3>1, <3>2
    <2>2. /\ stage' \in [Viewers -> {"new", "ack", "loop", "ended"}]
          /\ viewers' \subseteq Viewers /\ wants' \subseteq Viewers
          /\ sender' \in [Viewers -> {NotRunning, Waiting} \cup 1..MaxFrame]
        BY <1>2, <1>0 DEF Leave, TypeOK, NotRunning
    <2>3. /\ newest' \in [Viewers -> 0..MaxFrame]
          /\ shown' \in [Viewers -> 0..MaxFrame]
        BY <1>2, <1>0 DEF Leave, TypeOK
    <2>4. /\ queue' \in [Viewers -> Seq(1..MaxFrame)]
          /\ \A w \in Viewers : Len(queue'[w]) <= QueueSize
        BY <1>2, <1>0 DEF Leave, TypeOK
    <2> QED BY <1>2, <2>1, <2>2, <2>3, <2>4 DEF Leave, TypeOK, Commands
<1>3. ASSUME NEW v \in Viewers, SenderGet(v) PROVE TypeOK'
    <2>1. queue[v] \in Seq(1..MaxFrame) /\ queue[v] # <<>>
          /\ Len(queue[v]) <= QueueSize
        BY <1>3 DEF SenderGet, TypeOK
    <2>2. /\ Head(queue[v]) \in 1..MaxFrame
          /\ Tail(queue[v]) \in Seq(1..MaxFrame)
          /\ Len(Tail(queue[v])) = Len(queue[v]) - 1 /\ Len(queue[v]) \in Nat \ {0}
        BY <2>1, TailFacts
    <2>3. sender' \in [Viewers -> {NotRunning, Waiting} \cup 1..MaxFrame]
        BY <1>3, <2>2 DEF SenderGet, TypeOK
    <2>4. /\ queue' \in [Viewers -> Seq(1..MaxFrame)]
          /\ \A w \in Viewers : Len(queue'[w]) <= QueueSize
        BY <1>3, <2>2 DEF SenderGet, TypeOK
    <2> QED BY <1>3, <2>3, <2>4 DEF SenderGet, TypeOK, agentVars
<1>4. ASSUME NEW v \in Viewers, SenderSent(v) \/ SenderFails(v) PROVE TypeOK'
    <2>1. sender' \in [Viewers -> {NotRunning, Waiting} \cup 1..MaxFrame]
        BY <1>4 DEF TypeOK, SenderSent, SenderFails
    <2>2. shown' \in [Viewers -> 0..MaxFrame]
        <3>1. sender[v] \in {-1, 0} \cup 1..MaxFrame
            BY DEF TypeOK, NotRunning, Waiting
        <3>2. CASE SenderSent(v)
            <4>1. sender[v] > 0 /\ shown' = [shown EXCEPT ![v] = sender[v]]
                BY <3>2 DEF SenderSent
            <4>2. sender[v] \in 0..MaxFrame
                BY <3>1, <4>1
            <4> QED BY <4>1, <4>2 DEF TypeOK
        <3>3. CASE SenderFails(v)
            BY <3>3 DEF TypeOK, SenderFails
        <3> QED BY <1>4, <3>2, <3>3
    <2> QED BY <1>4, <2>1, <2>2 DEF TypeOK, SenderSent, SenderFails, agentVars
<1>5. ASSUME NEW v \in Viewers, NEW c \in Commands, Ask(v, c) PROVE TypeOK'
    <2>1. commands' \in Seq(Commands) /\ Len(commands') <= MaxPending
        BY <1>5, TellFacts DEF Ask
    <2>2. wants' \subseteq Viewers
        BY <1>5 DEF Ask, TypeOK
    <2> QED BY <1>5, <2>1, <2>2 DEF Ask, TypeOK, viewerVars, Commands
<1>6. CASE Frame
    <2>1. commands' \in Seq(Commands) /\ Len(commands') <= MaxPending
        <3>1. CASE viewers = {} /\ agent.sent > Grace
            BY <1>6, <3>1, TellFacts DEF Frame, Commands
        <3>2. CASE ~(viewers = {} /\ agent.sent > Grace)
            BY <1>6, <3>2 DEF Frame, TypeOK, Commands
        <3> QED BY <3>1, <3>2
    <2>2. agent' \in [mode : {"idle", "streaming"}, sent : 0..Grace + 1]
        <3>1. Min2(agent.sent + 1, Grace + 1) \in 0..Grace + 1
            BY DEF TypeOK, Min2
        <3> QED BY <1>6, <3>1 DEF Frame, TypeOK
    <2>3. Broadcast /\ UNCHANGED <<wants, link>>
        BY <1>6 DEF Frame
    <2> QED BY <2>1, <2>2, <2>3, BroadcastTypes DEF TypeOK, Commands
<1>7. CASE SystemStops
    BY <1>7, BroadcastTypes DEF SystemStops, TypeOK, NotStreaming
<1>8. CASE Obey
    <2>1. commands \in Seq(Commands) /\ commands # <<>> /\ Len(commands) <= MaxPending
        BY <1>8 DEF Obey, TypeOK, Commands
    <2>2. Tail(commands) \in Seq(Commands) /\ Len(Tail(commands)) <= MaxPending
        <3>1. Tail(commands) \in Seq(Commands) /\ Len(Tail(commands)) = Len(commands) - 1
              /\ Len(commands) \in Nat \ {0}
            BY <2>1, TailFacts
        <3> QED BY <2>1, <3>1
    <2>3. agent' \in [mode : {"idle", "streaming"}, sent : 0..Grace + 1]
        BY <1>8 DEF Obey, TypeOK, NotStreaming
    <2> QED BY <1>8, <2>2, <2>3 DEF Obey, TypeOK, viewerVars, Commands
<1>9. CASE LinkLost \/ Reconnect
    <2>1. commands' \in Seq(Commands) /\ Len(commands') <= MaxPending
        BY <1>9, <1>0 DEF LinkLost, Reconnect, TypeOK, Commands
    <2>2. link' \in [state : {"up", "down"}, drops : 0..MaxDrops]
        <3>1. CASE LinkLost
            <4>1. link.drops + 1 \in 0..MaxDrops
                BY <3>1 DEF LinkLost, TypeOK
            <4> QED BY <3>1, <4>1 DEF LinkLost, TypeOK
        <3>2. CASE Reconnect
            BY <3>2 DEF Reconnect, TypeOK
        <3> QED BY <1>9, <3>1, <3>2
    <2> QED BY <1>9, <2>1, <2>2 DEF LinkLost, Reconnect, TypeOK, viewerVars, Commands
<1>10. CASE UNCHANGED vars
    BY <1>10 DEF vars, viewerVars, agentVars, TypeOK
<1> QED BY <1>1, <1>2, <1>3, <1>4, <1>5, <1>6, <1>7, <1>8, <1>9, <1>10 DEF Next, Commands

\* Queues keep their bound, and no more commands are under way than are sent.
THEOREM TypeCorrect == Spec => []TypeOK
<1>1. Init => TypeOK
    BY ViewersAssumption DEF Init, TypeOK, NotStreaming
<1> QED BY <1>1, NextTypeOK, PTL DEF Spec

-----------------------------------------------------------------------------
(* A viewer's frames. *)

\* The frames of a viewer that was shown h, is being sent s and has q waiting
\* are in order, and the last of them is the newest, n.
Chain(h, s, q, n) ==
    /\ h <= n
    /\ s > 0 => h <= s /\ s <= n
    /\ \A i \in 1..Len(q) : h <= q[i] /\ q[i] <= n /\ (s > 0 => s <= q[i])
    /\ \A i, j \in 1..Len(q) : i <= j => q[i] <= q[j]
    /\ IF q # <<>> THEN q[Len(q)] = n ELSE IF s > 0 THEN s = n ELSE h = n

FrameNumbers == 0..MaxFrame

\* A newer frame, even if it costs the oldest one its place in the queue.
LEMMA ChainPush ==
    ASSUME NEW h \in FrameNumbers, NEW s \in Int, NEW n \in FrameNumbers,
           NEW q \in Seq(1..MaxFrame), Len(q) <= QueueSize,
           NEW m \in 1..MaxFrame, n <= m, Chain(h, s, q, n)
    PROVE  Chain(h, s, Enqueue(q, m), m)
<1> USE ViewersAssumption
<1> DEFINE p == Enqueue(q, m)
<1>1. /\ p \in Seq(1..MaxFrame) /\ Len(p) \in Nat \ {0} /\ p[Len(p)] = m /\ p # <<>>
      /\ \A i \in 1..Len(p) - 1 : \E j \in 1..Len(q) :
            p[i] = q[j] /\ j - i = Len(q) - (Len(p) - 1)
  <2>1. /\ p \in Seq(1..MaxFrame) /\ Len(p) > 0 /\ p[Len(p)] = m
        /\ \A i \in 1..Len(p) - 1 : \E j \in 1..Len(q) :
              p[i] = q[j] /\ j - i = Len(q) - (Len(p) - 1)
    BY EnqueueFacts
  <2> HIDE DEF p
  <2>2. Len(p) \in Nat /\ (p = <<>> => Len(p) = 0)
    BY <2>1
  <2> QED BY <2>1, <2>2
<1> HIDE DEF p
<1>2. Len(q) \in Nat /\ (\A i \in 1..Len(q) : q[i] \in 1..MaxFrame) /\ MaxFrame \in Nat
    OBVIOUS
<1>3. ASSUME NEW i \in 1..Len(p)
      PROVE  h <= p[i] /\ p[i] <= m /\ (s > 0 => s <= p[i])
    <2>1. CASE i = Len(p)
        BY <1>1, <1>2, <2>1 DEF Chain, FrameNumbers
    <2>2. CASE i # Len(p)
        <3>1. i \in 1..Len(p) - 1
            BY <1>1, <2>2
        <3>2. PICK j \in 1..Len(q) : p[i] = q[j]
            BY <1>1, <3>1
        <3> QED BY <1>2, <3>2 DEF Chain, FrameNumbers
    <2> QED BY <2>1, <2>2
<1>4. ASSUME NEW i \in 1..Len(p), NEW j \in 1..Len(p), i <= j PROVE p[i] <= p[j]
    <2>1. CASE j = Len(p)
        BY <1>1, <1>3, <2>1
    <2>2. CASE j # Len(p)
        <3>1. i \in 1..Len(p) - 1 /\ j \in 1..Len(p) - 1
            BY <1>1, <1>4, <2>2
        <3>2. PICK k \in 1..Len(q) : p[i] = q[k] /\ k - i = Len(q) - (Len(p) - 1)
            BY <1>1, <3>1
        <3>3. PICK l \in 1..Len(q) : p[j] = q[l] /\ l - j = Len(q) - (Len(p) - 1)
            BY <1>1, <3>1
        <3>4. k <= l
            BY <1>1, <1>2, <1>4, <3>2, <3>3
        <3> QED BY <3>2, <3>3, <3>4 DEF Chain
    <2> QED BY <2>1, <2>2
<1>5. h <= m /\ (s > 0 => h <= s /\ s <= m)
    BY <1>2 DEF Chain, FrameNumbers
<1>6. Chain(h, s, p, m)
    BY <1>1, <1>3, <1>4, <1>5 DEF Chain
<1> QED BY <1>6 DEF p

\* A waiting sender takes the oldest frame.
LEMMA ChainGet ==
    ASSUME NEW h \in FrameNumbers, NEW n \in FrameNumbers,
           NEW q \in Seq(1..MaxFrame), q # <<>>, Chain(h, Waiting, q, n)
    PROVE  Chain(h, Head(q), Tail(q), n)
<1>1. /\ Head(q) \in 1..MaxFrame /\ Head(q) = q[1]
      /\ Tail(q) \in Seq(1..MaxFrame) /\ Len(Tail(q)) = Len(q) - 1
      /\ Len(q) \in Nat \ {0}
      /\ \A i \in 1..Len(q) - 1 : Tail(q)[i] = q[i + 1]
      /\ Tail(q) = <<>> => Len(q) = 1
    BY TailFacts
<1>2. \A i \in 1..Len(q) : q[i] \in 1..MaxFrame
    BY TailFacts
<1>3. MaxFrame \in Nat
    BY ViewersAssumption
<1> DEFINE t == Tail(q)  x == Head(q)
<1> HIDE DEF t, x
<1>4. ASSUME NEW i \in 1..Len(t) PROVE h <= t[i] /\ t[i] <= n /\ x <= t[i]
    <2>1. i + 1 \in 1..Len(q) /\ 1 \in 1..Len(q) /\ t[i] = q[i + 1] /\ 1 <= i + 1
        BY <1>1 DEF t
    <2> QED BY <1>1, <2>1 DEF Chain, x
<1>5. ASSUME NEW i \in 1..Len(t), NEW j \in 1..Len(t), i <= j PROVE t[i] <= t[j]
    <2>1. i + 1 \in 1..Len(q) /\ j + 1 \in 1..Len(q) /\ t[i] = q[i + 1] /\ t[j] = q[j + 1]
        BY <1>1 DEF t
    <2>2. i + 1 <= j + 1
        BY <1>5
    <2> QED BY <2>1, <2>2 DEF Chain
<1>6. h <= n /\ h <= x /\ x <= n /\ x > 0
    BY <1>1, <1>3 DEF Chain, x
<1>7. CASE t = <<>>
    <2>1. Len(q) = 1
        BY <1>1, <1>7 DEF t
    <2>2. x = n
        BY <1>1, <2>1 DEF Chain, x
    <2> QED BY <1>4, <1>5, <1>6, <1>7, <2>2 DEF Chain, t, x
<1>8. CASE t # <<>>
    <2>1. Len(t) \in 1..Len(q) - 1 /\ Len(t) + 1 = Len(q)
        BY <1>1, <1>8 DEF t
    <2>2. t[Len(t)] = n
        BY <1>1, <2>1 DEF Chain, t
    <2>3. Chain(h, x, t, n)
        BY <1>4, <1>5, <1>6, <1>8, <2>2 DEF Chain
    <2> QED BY <2>3 DEF t, x
<1> QED BY <1>7, <1>8

\* The frame has been sent.
LEMMA ChainSent ==
    ASSUME NEW h \in FrameNumbers, NEW s \in 1..MaxFrame, NEW n \in FrameNumbers,
           NEW q \in Seq(1..MaxFrame), Chain(h, s, q, n)
    PROVE  Chain(s, Waiting, q, n)
<1>1. s > 0
    BY ViewersAssumption
<1> QED BY <1>1 DEF Chain, Waiting

\* What a chain says of the frames a viewer has yet to see.
LEMMA ChainEnds ==
    ASSUME NEW h \in FrameNumbers, NEW s \in {NotRunning, Waiting} \cup 1..MaxFrame,
           NEW n \in FrameNumbers, NEW q \in Seq(1..MaxFrame), Chain(h, s, q, n)
    PROVE  LET pending == <<h>> \o (IF s > 0 THEN <<s>> ELSE <<>>) \o q
           IN  /\ pending[Len(pending)] = n
               /\ \A i \in 1..Len(pending) - 1 : pending[i] <= pending[i + 1]
<1> DEFINE front == <<h>> \o (IF s > 0 THEN <<s>> ELSE <<>>)
           pending == front \o q
<1>1. /\ Len(q) \in Nat
      /\ \A i \in 1..Len(q) : q[i] \in 1..MaxFrame
      /\ q = <<>> <=> Len(q) = 0
  <2>1. Len(q) \in Nat
    BY LenProperties
  <2>2. \A i \in 1..Len(q) : q[i] \in 1..MaxFrame
    BY ElementOfSeq
  <2>3. q = <<>> => Len(q) = 0
    BY EmptySeq
  <2>4. q # <<>> => Len(q) \in Nat \ {0}
    BY EmptySeq
  <2> QED BY <2>1, <2>2, <2>3, <2>4
<1>2. MaxFrame \in Nat /\ h \in Int /\ s \in Int
    <2>1. MaxFrame \in Nat
        BY ViewersAssumption
    <2>2. s \in {-1, 0} \cup 1..MaxFrame
        BY DEF NotRunning, Waiting
    <2> QED BY <2>1, <2>2 DEF FrameNumbers
<1>5. q \in Seq(Int)
    <2>1. 1..MaxFrame \subseteq Int
        BY <1>2
    <2> QED BY <2>1, SeqMonotonic
<1>3. CASE s > 0
    <2>1. front \in Seq(Int) /\ Len(front) = 2 /\ front[1] = h /\ front[2] = s
        <3>1. front = <<h>> \o <<s>> /\ <<h>> \in Seq(Int) /\ <<s>> \in Seq(Int)
            BY <1>2, <1>3
        <3> QED BY <3>1, ConcatProperties
    <2>2. /\ Len(pending) = Len(q) + 2
          /\ pending[1] = h /\ pending[2] = s
          /\ \A i \in 1..Len(q) : pending[i + 2] = q[i]
        <3> HIDE DEF front
        <3>0. /\ Len(pending) = Len(front) + Len(q)
              /\ \A i \in 1..Len(front) + Len(q) :
                    pending[i] = IF i <= Len(front) THEN front[i] ELSE q[i - Len(front)]
            BY <1>5, <2>1, ConcatProperties, Zenon
        <3>1. /\ Len(pending) = 2 + Len(q)
              /\ \A i \in 1..2 + Len(q) :
                    pending[i] = IF i <= 2 THEN front[i] ELSE q[i - 2]
            BY <2>1, <3>0
        <3>2. \A i \in 1..Len(q) : i + 2 \in 1..2 + Len(q) /\ ~(i + 2 <= 2) /\ i + 2 - 2 = i
            BY <1>1
        <3> QED BY <1>1, <2>1, <3>1, <3>2
    <2> HIDE DEF pending
    <2>3. pending[Len(pending)] = n
        <3>1. CASE q = <<>>
            BY <1>1, <1>3, <2>2, <3>1 DEF Chain
        <3>2. CASE q # <<>>
            BY <1>1, <1>3, <2>2, <3>2 DEF Chain
        <3> QED BY <3>1, <3>2
    <2>4. ASSUME NEW i \in 1..Len(pending) - 1 PROVE pending[i] <= pending[i + 1]
        <3>1. CASE i = 1
            BY <1>3, <2>2, <3>1 DEF Chain
        <3>2. CASE i = 2
            <4>1. 1 \in 1..Len(q) /\ pending[3] = q[1]
                BY <1>1, <2>2, <3>2
            <4> QED BY <1>3, <2>2, <3>2, <4>1 DEF Chain
        <3>3. CASE i > 2
            <4>1. i - 2 \in 1..Len(q) /\ i - 1 \in 1..Len(q) /\ i - 2 <= i - 1
                BY <1>1, <2>2, <3>3
            <4>2. pending[i - 2 + 2] = q[i - 2] /\ pending[i - 1 + 2] = q[i - 1]
                BY <2>2, <4>1
            <4>3. i - 2 + 2 = i /\ i - 1 + 2 = i + 1
                BY <1>1, <2>2
            <4> QED BY <4>1, <4>2, <4>3 DEF Chain
        <3> QED BY <1>1, <2>2, <3>1, <3>2, <3>3
    <2> QED BY <2>3, <2>4 DEF pending
<1>4. CASE ~(s > 0)
    <2>1. front \in Seq(Int) /\ Len(front) = 1 /\ front[1] = h
        <3>1. front = <<h>> \o <<>> /\ <<h>> \in Seq(Int)
            BY <1>2, <1>4
        <3>2. front = <<h>>
            BY <3>1, ConcatEmptySeq
        <3> QED BY <3>1, <3>2
    <2>2. /\ Len(pending) = Len(q) + 1
          /\ pending[1] = h
          /\ \A i \in 1..Len(q) : pending[i + 1] = q[i]
        <3> HIDE DEF front
        <3>0. /\ Len(pending) = Len(front) + Len(q)
              /\ \A i \in 1..Len(front) + Len(q) :
                    pending[i] = IF i <= Len(front) THEN front[i] ELSE q[i - Len(front)]
            BY <1>5, <2>1, ConcatProperties, Zenon
        <3>1. /\ Len(pending) = 1 + Len(q)
              /\ \A i \in 1..1 + Len(q) :
                    pending[i] = IF i <= 1 THEN front[i] ELSE q[i - 1]
            BY <2>1, <3>0
        <3>2. \A i \in 1..Len(q) : i + 1 \in 1..1 + Len(q) /\ ~(i + 1 <= 1) /\ i + 1 - 1 = i
            BY <1>1
        <3> QED BY <1>1, <2>1, <3>1, <3>2
    <2> HIDE DEF pending
    <2>3. pending[Len(pending)] = n
        <3>1. CASE q = <<>>
            BY <1>1, <1>4, <2>2, <3>1 DEF Chain
        <3>2. CASE q # <<>>
            BY <1>1, <1>4, <2>2, <3>2 DEF Chain
        <3> QED BY <3>1, <3>2
    <2>4. ASSUME NEW i \in 1..Len(pending) - 1 PROVE pending[i] <= pending[i + 1]
        <3>1. CASE i = 1
            <4>1. 1 \in 1..Len(q) /\ pending[2] = q[1]
                BY <1>1, <2>2, <3>1
            <4> QED BY <2>2, <3>1, <4>1 DEF Chain
        <3>2. CASE i > 1
            <4>1. i - 1 \in 1..Len(q) /\ i \in 1..Len(q) /\ i - 1 <= i
                BY <1>1, <2>2, <3>2
            <4>2. pending[i - 1 + 1] = q[i - 1] /\ pending[i + 1] = q[i]
                BY <2>2, <4>1
            <4>3. i - 1 + 1 = i
                BY <1>1, <2>2
            <4> QED BY <4>1, <4>2, <4>3 DEF Chain
        <3> QED BY <1>1, <2>2, <3>1, <3>2
    <2> QED BY <2>3, <2>4 DEF pending
<1> QED BY <1>3, <1>4

-----------------------------------------------------------------------------
(* The invariant. *)

\* A viewer is in the registry while its handler serves it, and may stay there
\* only if its browser has gone; one that has not joined has nothing.
Registered ==
    \A v \in Viewers :
        /\ stage[v] \in {"ack", "loop"} => v \in viewers
        /\ stage[v] = "ended" /\ v \in viewers => v \in gone
        /\ stage[v] \in {"new", "ack"} => sender[v] = NotRunning
        /\ stage[v] = "new" => /\ v \notin viewers
                               /\ queue[v] = <<>>
                               /\ newest[v] = 0 /\ shown[v] = 0

\* Each viewer whose browser is there has its frames in order, up to the newest.
Chained ==
    /\ \A v \in viewers \ gone : Chain(shown[v], sender[v], queue[v], newest[v])
    /\ \A v \in Viewers : newest[v] <= frame

\* Streams are wanted by viewers that are served, over a connection that is up.
Starters ==
    /\ \A v \in wants : stage[v] = "loop"
    /\ wants # {} => Connected

Inv == TypeOK /\ Registered /\ Chained /\ Starters /\ WantedStreams

LEMMA InitInv == Init => Inv
<1>1. Init => TypeOK
    BY ViewersAssumption DEF Init, TypeOK, NotStreaming
<1> QED BY <1>1 DEF Init, Inv, Registered, Chained, Starters, WantedStreams

\* Who is in the registry, and what they have.
LEMMA NextRegistered == TypeOK /\ Registered /\ [Next]_vars => Registered'
<1> SUFFICES ASSUME TypeOK, Registered, [Next]_vars PROVE Registered'
    OBVIOUS
<1> USE DEF TypeOK, Registered
<1>1. ASSUME NEW v \in Viewers, Join(v) \/ Ack(v) \/ AckFails(v) \/ CloseTab(v)
      PROVE Registered'
    BY <1>1 DEF Join, Ack, AckFails, CloseTab
<1>2. ASSUME NEW v \in Viewers, Leave(v) PROVE Registered'
    BY <1>2 DEF Leave
<1>3. ASSUME NEW v \in Viewers, SenderGet(v) PROVE Registered'
    <2>1. stage[v] \notin {"new", "ack"}
        BY <1>3 DEF SenderGet, NotRunning, Waiting
    <2> QED BY <1>3, <2>1 DEF SenderGet
<1>4. ASSUME NEW v \in Viewers, SenderSent(v) \/ SenderFails(v) PROVE Registered'
    <2>1. stage[v] \notin {"new", "ack"}
        BY <1>4 DEF SenderSent, SenderFails, NotRunning
    <2> QED BY <1>4, <2>1 DEF SenderSent, SenderFails
<1>5. ASSUME NEW v \in Viewers, NEW c \in Commands, Ask(v, c) PROVE Registered'
    BY <1>5 DEF Ask, viewerVars
<1>6. CASE Frame \/ SystemStops
    <2>1. Broadcast
        BY <1>6 DEF Frame, SystemStops
    <2> QED BY <2>1 DEF Broadcast, viewerVars
<1>7. CASE Obey \/ LinkLost \/ Reconnect
    BY <1>7 DEF Obey, LinkLost, Reconnect, viewerVars
<1>8. CASE UNCHANGED vars
    BY <1>8 DEF vars, viewerVars
<1> QED BY <1>1, <1>2, <1>3, <1>4, <1>5, <1>6, <1>7, <1>8 DEF Next, Commands

\* The frames of each viewer whose browser is there.
LEMMA NextChained == TypeOK /\ Registered /\ Chained /\ [Next]_vars => Chained'
<1> SUFFICES ASSUME TypeOK, Registered, Chained, [Next]_vars PROVE Chained'
    OBVIOUS
<1> USE ViewersAssumption
<1>0. ASSUME NEW v \in Viewers
      PROVE  /\ shown[v] \in FrameNumbers /\ newest[v] \in FrameNumbers
             /\ queue[v] \in Seq(1..MaxFrame) /\ Len(queue[v]) <= QueueSize
             /\ sender[v] \in Int /\ newest[v] <= frame
    <2>1. sender[v] \in {-1, 0} \cup 1..MaxFrame
        BY DEF TypeOK, NotRunning, Waiting
    <2> QED BY <2>1 DEF TypeOK, FrameNumbers, Chained
<1>1. ASSUME NEW v \in Viewers, Join(v) PROVE Chained'
    <2>1. Chain(0, NotRunning, <<>>, 0)
        BY DEF Chain, NotRunning
    <2>2. /\ queue[v] = <<>> /\ sender[v] = NotRunning
          /\ newest[v] = 0 /\ shown[v] = 0
        BY <1>1 DEF Join, Registered
    <2> QED BY <1>1, <2>1, <2>2 DEF Join, Chained
<1>2. ASSUME NEW v \in Viewers, Ack(v) PROVE Chained'
    <2>1. ASSUME NEW w \in viewers \ gone
          PROVE  Chain(shown[w], sender'[w], queue[w], newest[w])
        <3>1. CASE w # v
            BY <1>2, <3>1 DEF Ack, Chained, TypeOK
        <3>2. CASE w = v
            <4>1. Chain(shown[v], sender[v], queue[v], newest[v]) /\ sender'[v] = Waiting
                BY <1>2, <3>2 DEF Ack, Chained, TypeOK
            <4>2. sender[v] = NotRunning
                BY <1>2 DEF Ack, Registered
            <4> QED BY <3>2, <4>1, <4>2 DEF Chain, NotRunning, Waiting
        <3> QED BY <3>1, <3>2
    <2> QED BY <1>2, <2>1 DEF Ack, Chained
<1>3. ASSUME NEW v \in Viewers, AckFails(v) \/ CloseTab(v) PROVE Chained'
    BY <1>3 DEF AckFails, CloseTab, Chained
<1>4. ASSUME NEW v \in Viewers, Leave(v) PROVE Chained'
    BY <1>4, <1>0 DEF Leave, Chained, TypeOK
<1>5. ASSUME NEW v \in Viewers, SenderGet(v) PROVE Chained'
    <2>1. ASSUME v \in viewers \ gone
          PROVE  Chain(shown[v], Head(queue[v]), Tail(queue[v]), newest[v])
        BY <1>0, <1>5, <2>1, ChainGet DEF SenderGet, Chained
    <2> QED BY <1>5, <2>1 DEF SenderGet, Chained, TypeOK
<1>6. ASSUME NEW v \in Viewers, SenderSent(v) PROVE Chained'
    <2>1. ASSUME v \in viewers \ gone
          PROVE  Chain(sender[v], Waiting, queue[v], newest[v])
        <3>1. sender[v] \in 1..MaxFrame
            <4>1. sender[v] \in {-1, 0} \cup 1..MaxFrame
                BY DEF TypeOK, NotRunning, Waiting
            <4>2. sender[v] > 0
                BY <1>6 DEF SenderSent
            <4> QED BY <4>1, <4>2
        <3> QED BY <1>0, <2>1, <3>1, ChainSent DEF Chained
    <2> QED BY <1>6, <2>1 DEF SenderSent, Chained, TypeOK
<1>7. ASSUME NEW v \in Viewers, SenderFails(v) PROVE Chained'
    BY <1>7 DEF SenderFails, Chained, TypeOK
<1>8. ASSUME NEW v \in Viewers, NEW c \in Commands, Ask(v, c) PROVE Chained'
    BY <1>8 DEF Ask, viewerVars, Chained
<1>9. CASE Frame \/ SystemStops
    <2> DEFINE m == Min2(frame + 1, MaxFrame)
    <2>1. m \in 1..MaxFrame /\ frame <= m
        BY NextFrame
    <2>2. /\ frame' = m
          /\ \A v \in Viewers : queue'[v] = IF v \in viewers THEN Enqueue(queue[v], m) ELSE queue[v]
          /\ \A v \in Viewers : newest'[v] = IF v \in viewers THEN m ELSE newest[v]
          /\ UNCHANGED <<gone, viewers, sender, shown>>
        BY <1>9 DEF Frame, SystemStops, Broadcast, viewerVars
    <2> HIDE DEF m
    <2>3. viewers \subseteq Viewers /\ frame \in Int /\ MaxFrame \in Nat
        BY DEF TypeOK
    <2>4. ASSUME NEW v \in viewers \ gone
          PROVE  Chain(shown[v], sender[v], Enqueue(queue[v], m), m)
        <3>1. v \in Viewers /\ newest[v] <= m
            BY <1>0, <2>1, <2>3 DEF FrameNumbers
        <3>2. Chain(shown[v], sender[v], queue[v], newest[v])
            BY DEF Chained
        <3> QED BY <1>0, <2>1, <3>1, <3>2, ChainPush
    <2>5. \A v \in Viewers : newest'[v] <= m
        BY <1>0, <2>1, <2>2, <2>3 DEF FrameNumbers
    <2> QED BY <2>2, <2>3, <2>4, <2>5 DEF Chained
<1>10. CASE Obey \/ LinkLost \/ Reconnect
    BY <1>10 DEF Obey, LinkLost, Reconnect, viewerVars, Chained
<1>11. CASE UNCHANGED vars
    BY <1>11 DEF vars, viewerVars, Chained
<1> QED BY <1>1, <1>2, <1>3, <1>4, <1>5, <1>6, <1>7, <1>8, <1>9, <1>10, <1>11
        DEF Next, Commands

\* The streams that are wanted: the agent streams, or has a start command under
\* way with nothing behind it.
LEMMA NextWanted ==
    TypeOK /\ Registered /\ Starters /\ WantedStreams /\ [Next]_vars
    => Starters' /\ WantedStreams'
<1> SUFFICES ASSUME TypeOK, Registered, Starters, WantedStreams, [Next]_vars
             PROVE  Starters' /\ WantedStreams'
    OBVIOUS
<1> USE DEF Starters, WantedStreams, Streaming, Connected
<1>0. wants \subseteq viewers /\ wants \subseteq Viewers
    BY DEF TypeOK, Registered
<1>1. ASSUME NEW v \in Viewers, Join(v) \/ Ack(v) \/ AckFails(v) \/ CloseTab(v)
      PROVE Starters' /\ WantedStreams'
    BY <1>0, <1>1 DEF Join, Ack, AckFails, CloseTab, agentVars, TypeOK
<1>2. ASSUME NEW v \in Viewers, Leave(v) PROVE Starters' /\ WantedStreams'
    <2>1. CASE viewers' = {}
        <3>1. wants' = {}
            BY <1>0, <1>2, <2>1 DEF Leave
        <3> QED BY <3>1
    <2>2. CASE viewers' # {}
        <3>1. commands' = commands /\ agent' = agent /\ link' = link
              /\ wants' = wants \ {v}
            BY <1>2, <2>2 DEF Leave
        <3>2. \A w \in wants' : stage'[w] = "loop"
            BY <1>0, <1>2, <3>1 DEF Leave, TypeOK
        <3> QED BY <3>1, <3>2
    <2> QED BY <2>1, <2>2
<1>3. ASSUME NEW v \in Viewers, SenderGet(v) \/ SenderSent(v) \/ SenderFails(v)
      PROVE Starters' /\ WantedStreams'
    BY <1>3 DEF SenderGet, SenderSent, SenderFails, agentVars
<1>4. ASSUME NEW v \in Viewers, NEW c \in Commands, Ask(v, c)
      PROVE Starters' /\ WantedStreams'
    <2>1. CASE c = "start" /\ Connected
        <3>1. commands' # <<>> /\ commands'[Len(commands')] = "start"
            BY <1>4, <2>1, TellFacts DEF Ask
        <3>2. /\ \A w \in wants' : stage'[w] = "loop"
              /\ link' = link
            BY <1>4, <2>1 DEF Ask, viewerVars
        <3> QED BY <2>1, <3>1, <3>2
    <2>2. CASE ~(c = "start" /\ Connected)
        <3>1. wants' = {}
            BY <1>4, <2>2 DEF Ask
        <3> QED BY <3>1
    <2> QED BY <2>1, <2>2
<1>5. CASE Frame
    <2>1. UNCHANGED <<stage, wants, link>> /\ agent'.mode = agent.mode
        BY <1>5 DEF Frame, Broadcast, viewerVars, TypeOK
    <2>2. CASE wants = {}
        BY <2>1, <2>2
    <2>3. CASE wants # {}
        <3>1. commands' = commands
            BY <1>0, <1>5, <2>3 DEF Frame
        <3> QED BY <2>1, <3>1
    <2> QED BY <2>2, <2>3
<1>6. CASE SystemStops \/ LinkLost
    <2>1. wants' = {}
        BY <1>6 DEF SystemStops, LinkLost
    <2> QED BY <2>1
<1>7. CASE Obey
    <2>1. commands \in Seq(Commands) /\ commands # <<>> /\ commands' = Tail(commands)
          /\ UNCHANGED <<stage, wants, link>>
        BY <1>7 DEF Obey, viewerVars, TypeOK, Commands
    <2> HIDE DEF Commands
    <2>2. /\ Head(commands) = commands[1] /\ Len(commands) \in Nat \ {0}
          /\ commands' \in Seq(Commands) /\ Len(commands') = Len(commands) - 1
          /\ \A i \in 1..Len(commands) - 1 : commands'[i] = commands[i + 1]
          /\ commands' = <<>> => Len(commands) = 1
        BY <2>1, TailFacts
    <2>3. CASE commands' = <<>>
        <3>1. wants # {} => Head(commands) = "start"
            BY <2>1, <2>2, <2>3
        <3>2. Head(commands) = "start" => agent'.mode = "streaming"
            BY <1>7 DEF Obey
        <3> QED BY <2>1, <2>3, <3>1, <3>2
    <2>4. CASE commands' # <<>>
        <3>1. Len(commands') \in Nat \ {0}
            BY <2>2, <2>4, EmptySeq
        <3>2. commands'[Len(commands')] = commands[Len(commands)]
            BY <2>2, <3>1
        <3> QED BY <2>1, <2>4, <3>2
    <2> QED BY <2>3, <2>4
<1>8. CASE Reconnect
    <2>1. wants = {} /\ wants' = {}
        BY <1>8 DEF Reconnect
    <2> QED BY <2>1
<1>9. CASE UNCHANGED vars
    BY <1>9 DEF vars, viewerVars, agentVars
<1> QED BY <1>1, <1>2, <1>3, <1>4, <1>5, <1>6, <1>7, <1>8, <1>9 DEF Next, Commands

LEMMA SpecInv == Spec => []Inv
<1>1. Inv /\ [Next]_vars => Inv'
    BY NextTypeOK, NextRegistered, NextChained, NextWanted DEF Inv
<1> QED BY InitInv, <1>1, PTL DEF Spec

-----------------------------------------------------------------------------
(* The theorems. *)

\* A slow viewer loses the oldest frames only: what it has, is being sent and
\* has waiting is in order and ends with the newest frame.
THEOREM SlowViewersCatchUp == Spec => []EndsWithNewest
<1>1. Inv => EndsWithNewest
  <2> SUFFICES ASSUME Inv, NEW v \in viewers \ gone
               PROVE LET pending == <<shown[v]>>
                                    \o (IF sender[v] > 0 THEN <<sender[v]>> ELSE <<>>)
                                    \o queue[v]
                     IN  /\ pending[Len(pending)] = newest[v]
                         /\ \A i \in 1..Len(pending) - 1 : pending[i] <= pending[i + 1]
    BY DEF EndsWithNewest
  <2>1. v \in Viewers /\ Chain(shown[v], sender[v], queue[v], newest[v])
    BY DEF Inv, Chained, TypeOK
  <2>2. /\ shown[v] \in FrameNumbers /\ newest[v] \in FrameNumbers
        /\ queue[v] \in Seq(1..MaxFrame)
        /\ sender[v] \in {NotRunning, Waiting} \cup 1..MaxFrame
    BY <2>1 DEF Inv, TypeOK, FrameNumbers
  <2> QED BY <2>1, <2>2, ChainEnds
<1> QED BY SpecInv, <1>1, PTL

\* The server stops no stream that a viewer has started and still watches.
THEOREM StreamsGoOn == Spec => []WantedStreams
<1>1. Inv => WantedStreams
    BY DEF Inv
<1> QED BY SpecInv, <1>1, PTL
==============================================================================

------------------------- MODULE RemoteControl_proof -------------------------
(***************************************************************************)
(* Who may end a control lock, and what others can still send to a device  *)
(* that a user holds, for any users, devices, gestures and time to live;   *)
(* and, below, where clicks and the steps of gestures land, for every      *)
(* display, canvas, click and parameter.                                   *)
(***************************************************************************)
EXTENDS RemoteControl, CoordinateMapper, TLAPS

\* A step with its actor named: the form the proofs split Next into.
Step ==
    \/ \E d \in Devices, u \in Users :
          Acquire(d, u) \/ Steal(d, u) \/ Release(d, u) \/ ForceRelease(d, u) \/ Denied(d, u)
    \/ \E d \in Devices, u \in Users, c \in Calls : Begin(c, d, u)
    \/ \E D \in SUBSET Devices : Cleanup(D)
    \/ \E d \in Devices : Tick(d)
    \/ \E c \in Calls : Audit(c) \/ Send(c)

LEMMA NextIsStep == Next => Step
BY DEF Next, Step

\* The state keeps its types: a lock's age stays within its time to live and a
\* gesture never counts more inputs than it has.
THEOREM TypeCorrect == Spec => []TypeOK
<1>1. Init => TypeOK
    BY RemoteControlAssumption DEF Init, TypeOK, Free, Idle, NoRequest
<1>2. TypeOK /\ [Next]_vars => TypeOK'
  <2> SUFFICES ASSUME TypeOK, [Next]_vars PROVE TypeOK'
    OBVIOUS
  <2> USE RemoteControlAssumption
  <2>1. ASSUME NEW d \in Devices, NEW u \in Users,
               Acquire(d, u) \/ Steal(d, u) \/ Release(d, u) \/ ForceRelease(d, u) \/ Denied(d, u)
        PROVE TypeOK'
    <3>1. Lock(d, u) \/ Unlock(d) \/ UNCHANGED lock
        BY <2>1 DEF Acquire, Steal, Release, ForceRelease, Denied
    <3>2. lock' \in [Devices -> [holder : Users \cup {None}, age : 0..TTL]]
        BY <3>1 DEF TypeOK, Lock, Unlock, Free
    <3>3. req' \in [user : Users \cup {None}, role : {"user", "admin"}] /\ UNCHANGED call
        BY <2>1 DEF Acquire, Steal, Release, ForceRelease, Denied, Request
    <3> QED BY <3>1, <3>2, <3>3 DEF TypeOK
  <2>2. ASSUME NEW d \in Devices, NEW u \in Users, NEW c \in Calls, Begin(c, d, u)
        PROVE TypeOK'
    <3>1. /\ lock' \in [Devices -> [holder : Users \cup {None}, age : 0..TTL]]
          /\ req' \in [user : Users \cup {None}, role : {"user", "admin"}]
        BY <2>2 DEF TypeOK, Begin, Request, Touched, Free
    <3>2. CASE UNCHANGED call
        BY <3>1, <3>2 DEF TypeOK
    <3>3. ASSUME NEW l \in 0..MaxSteps, NEW s \in 0..MaxSteps, l + s <= MaxSteps,
                 call' = [call EXCEPT ![c] = [pc |-> "audit", user |-> u, device |-> d,
                                              left |-> l, sent |-> s]]
          PROVE TypeOK'
        <4>1. call' \in [Calls -> [pc : {"idle", "audit", "delay"},
                                  user : Users \cup {None}, device : Devices \cup {None},
                                  left : 0..MaxSteps, sent : 0..MaxSteps]]
            BY <3>3 DEF TypeOK
        <4>2. \A b \in Calls : call'[b].pc # "idle" =>
                 /\ call'[b].user \in Users
                 /\ call'[b].device \in Devices
                 /\ call'[b].left + call'[b].sent <= MaxSteps
                 /\ call'[b].pc = "delay" => call'[b].left > 0
            BY <3>3 DEF TypeOK
        <4> QED BY <3>1, <4>1, <4>2 DEF TypeOK
    <3>4. CASE call' = [call EXCEPT ![c] = [pc |-> "audit", user |-> u, device |-> d,
                                            left |-> 0, sent |-> 0]]
        <4>1. 0 \in 0..MaxSteps /\ 0 + 0 <= MaxSteps
            OBVIOUS
        <4> QED BY <4>1, <3>3, <3>4
    <3>5. CASE \E n \in 1..MaxSteps, ok \in {0, 1} :
                 call' = [call EXCEPT ![c] = [pc |-> "audit", user |-> u, device |-> d,
                                              left |-> n - 1, sent |-> ok]]
        <4>1. PICK n \in 1..MaxSteps, ok \in {0, 1} :
                 call' = [call EXCEPT ![c] = [pc |-> "audit", user |-> u, device |-> d,
                                              left |-> n - 1, sent |-> ok]]
            BY <3>5
        <4>2. n - 1 \in 0..MaxSteps /\ ok \in 0..MaxSteps /\ (n - 1) + ok <= MaxSteps
            OBVIOUS
        <4> QED BY <4>1, <4>2, <3>3
    <3> QED BY <2>2, <3>2, <3>4, <3>5 DEF Begin
  <2>3. ASSUME NEW D \in SUBSET Devices, Cleanup(D) PROVE TypeOK'
    BY <2>3 DEF TypeOK, Cleanup, Background, NoRequest, Free
  <2>4. ASSUME NEW d \in Devices, Tick(d) PROVE TypeOK'
    BY <2>4 DEF TypeOK, Tick, Background, NoRequest
  <2>5. ASSUME NEW c \in Calls, Audit(c) \/ Send(c) PROVE TypeOK'
    <3>1. UNCHANGED lock /\ req' \in [user : Users \cup {None}, role : {"user", "admin"}]
        BY <2>5 DEF Audit, Send, Background, NoRequest
    <3>2. CASE Audit(c)
        BY <3>1, <3>2 DEF TypeOK, Audit, Idle
    <3>3. CASE Send(c)
        <4>1. PICK ok \in {0, 1} :
                 call' = [call EXCEPT ![c].pc = "audit", ![c].left = @ - 1, ![c].sent = @ + ok]
            BY <3>3 DEF Send
        <4>2. /\ call[c].pc # "idle"
              /\ call[c].left \in 0..MaxSteps /\ call[c].sent \in 0..MaxSteps
              /\ call[c].left + call[c].sent <= MaxSteps
            BY <3>3 DEF TypeOK, Send
        <4>3. call[c].left # 0
            BY <3>3 DEF TypeOK, Send
        <4>4. /\ call[c].left - 1 \in 0..MaxSteps /\ call[c].sent + ok \in 0..MaxSteps
              /\ (call[c].left - 1) + (call[c].sent + ok) <= MaxSteps
            BY <4>2, <4>3
        <4>5. call' \in [Calls -> [pc : {"idle", "audit", "delay"},
                                  user : Users \cup {None}, device : Devices \cup {None},
                                  left : 0..MaxSteps, sent : 0..MaxSteps]]
            BY <4>1, <4>4 DEF TypeOK
        <4>6. \A b \in Calls : call'[b].pc # "idle" =>
                 /\ call'[b].user \in Users
                 /\ call'[b].device \in Devices
                 /\ call'[b].left + call'[b].sent <= MaxSteps
                 /\ call'[b].pc = "delay" => call'[b].left > 0
            BY <4>1, <4>2, <4>4 DEF TypeOK
        <4> QED BY <3>1, <4>5, <4>6 DEF TypeOK
    <3> QED BY <2>5, <3>2, <3>3
  <2>6. CASE UNCHANGED vars
    BY <2>6 DEF TypeOK, vars
  <2> QED BY <2>1, <2>2, <2>3, <2>4, <2>5, <2>6, NextIsStep DEF Step
<1> QED BY <1>1, <1>2, PTL DEF Spec

\* Only its holder, an administrator or time ends a user's lock, whatever the
\* others request and whenever expired locks are collected.
THEOREM LocksAreKept == Spec => NotTakenByOthers
<1> DEFINE Kept == \A d \in Devices, u \in Users :
                      HeldBy(d, u) /\ ~HeldBy(d, u)' =>
                         req'.user = u \/ req'.role = "admin"
                         \/ (lock'[d].holder = u /\ lock'[d].age = TTL)
<1>1. TypeOK /\ [Next]_vars => [Kept]_vars
  <2> SUFFICES ASSUME TypeOK, Next PROVE Kept
    BY DEF NotTakenByOthers
  <2> SUFFICES ASSUME NEW d \in Devices, NEW u \in Users, HeldBy(d, u), ~HeldBy(d, u)'
               PROVE req'.user = u \/ req'.role = "admin"
                     \/ (lock'[d].holder = u /\ lock'[d].age = TTL)
    OBVIOUS
  <2> USE RemoteControlAssumption DEF TypeOK, HeldBy
  <2>1. ASSUME NEW e \in Devices, NEW v \in Users,
               Acquire(e, v) \/ Steal(e, v) \/ Release(e, v) \/ ForceRelease(e, v) \/ Denied(e, v)
        PROVE req'.user = u \/ req'.role = "admin"
    BY <2>1 DEF Acquire, Steal, Release, ForceRelease, Denied, Request, Lock, Unlock, Free
  <2>2. ASSUME NEW e \in Devices, NEW v \in Users, NEW c \in Calls, Begin(c, e, v)
        PROVE FALSE
    BY <2>2 DEF Begin, Touched, Expired, Free
  <2>3. ASSUME NEW D \in SUBSET Devices, Cleanup(D) PROVE FALSE
    BY <2>3 DEF Cleanup, Expired
  <2>4. ASSUME NEW e \in Devices, Tick(e)
        PROVE lock'[d].holder = u /\ lock'[d].age = TTL
    BY <2>4 DEF Tick
  <2>5. ASSUME NEW c \in Calls, Audit(c) \/ Send(c) PROVE FALSE
    BY <2>5 DEF Audit, Send
  <2> QED BY <2>1, <2>2, <2>3, <2>4, <2>5, NextIsStep DEF Step
<1> QED BY <1>1, TypeCorrect, PTL DEF Spec, NotTakenByOthers

\* How many inputs gesture c has left on device d, if it is not of user u.
Rest(c, d, u) ==
    IF call[c].pc # "idle" /\ call[c].device = d /\ call[c].user # u THEN call[c].left ELSE 0

\* The check of the lock misses no more than the rest of gestures that run:
\* while a user holds a device, what others have left on it never grows, and
\* each input they send uses it up.  This is why Undisturbed holds: a gesture
\* can go on for a while, but not for ever, and no other begins.
THEOREM OthersRunDry ==
    Spec => [][\A u \in Users, d \in Devices, c \in Calls :
                  HeldBy(d, u) =>
                     /\ Rest(c, d, u)' <= Rest(c, d, u)
                     /\ Injects(c) /\ call'[c].device = d /\ call'[c].user # u
                           => Rest(c, d, u)' < Rest(c, d, u)]_vars
<1> DEFINE Dwindles == \A u \in Users, d \in Devices, c \in Calls :
                  HeldBy(d, u) =>
                     /\ Rest(c, d, u)' <= Rest(c, d, u)
                     /\ Injects(c) /\ call'[c].device = d /\ call'[c].user # u
                           => Rest(c, d, u)' < Rest(c, d, u)
<1>1. TypeOK /\ [Next]_vars => [Dwindles]_vars
  <2> SUFFICES ASSUME TypeOK, Next, NEW u \in Users, NEW d \in Devices, NEW c \in Calls,
                      HeldBy(d, u)
               PROVE  /\ Rest(c, d, u)' <= Rest(c, d, u)
                      /\ Injects(c) /\ call'[c].device = d /\ call'[c].user # u
                            => Rest(c, d, u)' < Rest(c, d, u)
    OBVIOUS
  <2>0. /\ Rest(c, d, u) \in Nat
        /\ call[c].left \in Nat /\ call[c].sent \in Nat
        /\ call[c].pc = "delay" => call[c].left > 0
    BY RemoteControlAssumption DEF TypeOK, Rest
  <2>1. CASE call'[c] = call[c]
    BY <2>0, <2>1 DEF Rest, Injects
  <2>2. ASSUME NEW e \in Devices, NEW v \in Users, Begin(c, e, v), call'[c] # call[c]
        PROVE  Rest(c, d, u)' = 0 /\ (call'[c].device = d => call'[c].user = u)
    <3>1. call'[c].device = e /\ call'[c].user = v
      BY <2>2 DEF Begin, TypeOK
    <3>2. e = d => v = u
      BY <2>2 DEF Begin, Allowed
    <3> QED BY <3>1, <3>2 DEF Rest
  <2>3. CASE Audit(c)
    <3>1. call'[c] = Idle \/ call'[c] = [call[c] EXCEPT !.pc = "delay"]
      BY <2>3 DEF Audit, TypeOK
    <3>2. CASE call'[c] = Idle
      BY <2>0, <3>2 DEF Rest, Injects, Idle
    <3>3. CASE call'[c] = [call[c] EXCEPT !.pc = "delay"]
      <4>1. /\ call'[c].sent = call[c].sent /\ call'[c].left = call[c].left
            /\ call'[c].device = call[c].device /\ call'[c].user = call[c].user
            /\ call[c].pc # "idle"
        BY <2>3, <3>3 DEF TypeOK, Audit
      <4> QED BY <2>0, <4>1 DEF Rest, Injects
    <3> QED BY <3>1, <3>2, <3>3
  <2>4. CASE Send(c)
    <3>1. /\ call[c].pc = "delay" /\ call'[c].pc = "audit"
          /\ call'[c].left = call[c].left - 1
          /\ call'[c].device = call[c].device /\ call'[c].user = call[c].user
      BY <2>4 DEF Send, TypeOK
    <3> QED BY <2>0, <3>1 DEF Rest
  <2>5. \/ call'[c] = call[c]
        \/ \E e \in Devices, v \in Users : Begin(c, e, v)
        \/ Audit(c) \/ Send(c)
    <3>1. ASSUME NEW e \in Devices, NEW v \in Users,
                 Acquire(e, v) \/ Steal(e, v) \/ Release(e, v) \/ ForceRelease(e, v)
                 \/ Denied(e, v)
          PROVE  UNCHANGED call
      BY <3>1 DEF Acquire, Steal, Release, ForceRelease, Denied
    <3>2. ASSUME NEW e \in Devices, NEW v \in Users, NEW b \in Calls, Begin(b, e, v), b # c
          PROVE  call'[c] = call[c]
      BY <3>2 DEF Begin, TypeOK
    <3>3. ASSUME NEW D \in SUBSET Devices, Cleanup(D) PROVE UNCHANGED call
      BY <3>3 DEF Cleanup
    <3>4. ASSUME NEW e \in Devices, Tick(e) PROVE UNCHANGED call
      BY <3>4 DEF Tick
    <3>5. ASSUME NEW b \in Calls, Audit(b) \/ Send(b), b # c PROVE call'[c] = call[c]
      BY <3>5 DEF Audit, Send, TypeOK
    <3> QED BY <3>1, <3>2, <3>3, <3>4, <3>5, NextIsStep DEF Step
  <2>6. CASE \E e \in Devices, v \in Users : Begin(c, e, v)
    <3>1. call'[c] # call[c] => Rest(c, d, u)' = 0 /\ (call'[c].device = d => call'[c].user = u)
      BY <2>2, <2>6
    <3> QED BY <2>0, <2>1, <3>1
  <2> QED BY <2>1, <2>3, <2>4, <2>5, <2>6
<1> QED BY <1>1, TypeCorrect, PTL DEF Spec

-----------------------------------------------------------------------------
(* Clicks and the pixels they are mapped to. *)

Displays == [width : Nat \ {0}, height : Nat \ {0}, rotation : Int, bar : Nat]
Canvases == [width : Int, height : Int]
Points == Int \X Int
Params == [distance : Int, count : Nat, text : STRING]

\* coordinate_mapper.py:136-138: what is clamped is a pixel.
LEMMA ClampedInRange ==
    ASSUME NEW size \in Nat \ {0}, NEW n \in Int
    PROVE  Clamped(n, size) \in 0..(size - 1)
  BY DEF Clamped, Larger, Smaller

\* A fraction that locates a click has integers and a positive denominator.
Fraction(f) == f \in Int \X (Nat \ {0})

LEMMA AlongIsFraction ==
    ASSUME NEW n \in Int, NEW size \in Int
    PROVE  Fraction(Along(n, size))
  BY DEF Along, Fraction

LEMMA ProductPositive ==
    ASSUME NEW a \in Nat \ {0}, NEW b \in Nat \ {0}
    PROVE  a * b \in Nat \ {0} /\ 2 * a * b \in Nat \ {0}
  <1>1. a * b \in Nat \ {0}
    OBVIOUS
  <1>2. 2 * (a * b) \in Nat \ {0}
    BY <1>1
  <1>3. 2 * a * b = 2 * (a * b)
    OBVIOUS
  <1> QED BY <1>1, <1>2, <1>3

LEMMA NormalisedIsFractions ==
    ASSUME NEW dev \in Displays, NEW view \in Canvases, NEW p \in Points
    PROVE  /\ Fraction(Normalised(dev, view, p)[1])
           /\ Fraction(Normalised(dev, view, p)[2])
  <1> USE DEF Displays, Canvases, Points
  <1>1. CASE Flat(dev, view)
    BY <1>1, AlongIsFraction DEF Normalised
  <1>2. CASE ~Flat(dev, view)
    <2>1. /\ view.width \in Nat \ {0} /\ view.height \in Nat \ {0}
          /\ dev.width \in Nat \ {0} /\ dev.height \in Nat \ {0}
      BY <1>2 DEF Flat
    <2>2. /\ 2 * view.width * dev.height \in Nat \ {0}
          /\ 2 * view.height * dev.width \in Nat \ {0}
      BY <2>1, ProductPositive
    <2>3. /\ 2 * p[2] * dev.width - view.height * dev.width + view.width * dev.height \in Int
          /\ 2 * p[1] * dev.height - view.width * dev.height + view.height * dev.width \in Int
      BY <2>1
    <2> QED BY <1>2, <2>1, <2>2, <2>3 DEF Normalised, Fraction
  <1> QED BY <1>1, <1>2

LEMMA RotatedIsFractions ==
    ASSUME NEW r \in Int, NEW p, Fraction(p[1]), Fraction(p[2])
    PROVE  Fraction(Rotated(r, p)[1]) /\ Fraction(Rotated(r, p)[2])
  <1>1. Fraction(FromEnd(p[1])) /\ Fraction(FromEnd(p[2]))
    BY DEF Fraction, FromEnd
  <1> HIDE DEF Fraction, FromEnd
  <1>2. CASE r = 90
    BY <1>1, <1>2 DEF Rotated
  <1>3. CASE r = 180
    BY <1>1, <1>3 DEF Rotated
  <1>4. CASE r = 270
    BY <1>1, <1>4 DEF Rotated
  <1>5. CASE r \notin {90, 180, 270}
    BY <1>5 DEF Rotated
  <1> QED BY <1>2, <1>3, <1>4, <1>5

LEMMA PixelIsInteger ==
    ASSUME NEW f, Fraction(f), NEW size \in Nat
    PROVE  (f[1] * size) \div f[2] \in Int
  <1>1. f[1] * size \in Int /\ f[2] \in Nat \ {0}
    BY DEF Fraction
  <1> QED BY <1>1

\* A click is mapped to a pixel of the display.
LEMMA MapOnScreen ==
    ASSUME NEW dev \in Displays, NEW view \in Canvases, NEW p \in Points
    PROVE  Map(dev, view, p) \in (0..(dev.width - 1)) \X (0..(dev.height - 1))
  <1> DEFINE r == Rotated(dev.rotation, Normalised(dev, view, p))
             x == (r[1][1] * dev.width) \div r[1][2]
             y == (r[2][1] * dev.height) \div r[2][2]
  <1>1. Fraction(r[1]) /\ Fraction(r[2])
    BY NormalisedIsFractions, RotatedIsFractions DEF Displays
  <1>2. x \in Int /\ y \in Int
    <2> HIDE DEF r
    <2> QED BY <1>1, PixelIsInteger DEF Displays
  <1>3. Map(dev, view, p) = <<Clamped(x, dev.width), Clamped(y + dev.bar, dev.height)>>
    BY DEF Map, Pixel
  <1> HIDE DEF x, y
  <1>4. y + dev.bar \in Int
    BY <1>2 DEF Displays
  <1>5. /\ Clamped(x, dev.width) \in 0..(dev.width - 1)
        /\ Clamped(y + dev.bar, dev.height) \in 0..(dev.height - 1)
    BY <1>2, <1>4, ClampedInRange DEF Displays
  <1> QED BY <1>3, <1>5

-----------------------------------------------------------------------------
(* Coordinates: a click reaches the pixel that the viewer sees.              *)

\* The fraction f is n/d.
Equals(f, n, d) == \E c \in Nat \ {0} : f = <<c * n, c * d>>

\* The middle of part p of `size' parts lies in that part: scaled to whole
\* pixels it is p.
LEMMA MiddleOfPixel ==
    ASSUME NEW size \in Nat \ {0}, NEW other \in Nat \ {0}, NEW p \in Nat,
           NEW f, Equals(f, (2 * p + 1) * other, 2 * size * other)
    PROVE  (f[1] * size) \div f[2] = p
  <1>1. PICK c \in Nat \ {0} : f = <<c * ((2 * p + 1) * other), c * (2 * size * other)>>
    BY DEF Equals
  <1> DEFINE k == c * size * other
  <1>2. /\ c * ((2 * p + 1) * other) * size = (2 * p + 1) * k
        /\ c * (2 * size * other) = 2 * k
    BY Z3
  <1>3. k \in Nat \ {0}
    BY Z3
  <1> HIDE DEF k
  <1>4. ((2 * p + 1) * k) \div (2 * k) = p
    BY <1>3, Z3
  <1> QED BY <1>1, <1>2, <1>4

\* Counted from the other end, n of d parts are d - n.
LEMMA TurnedEquals ==
    ASSUME NEW f, NEW n \in Int, NEW d \in Int, Equals(f, n, d)
    PROVE  Equals(FromEnd(f), d - n, d)
  <1>1. PICK c \in Nat \ {0} : f = <<c * n, c * d>>
    BY DEF Equals
  <1>2. c * d - c * n = c * (d - n)
    BY Z3
  <1> QED BY <1>1, <1>2 DEF FromEnd, Equals

\* A fraction between zero and one is on the picture.
LEMMA InsideEquals ==
    ASSUME NEW f, NEW n \in Int, NEW d \in Int, Equals(f, n, d), 0 <= n, n <= d
    PROVE  Inside(f)
  <1>1. PICK c \in Nat \ {0} : f = <<c * n, c * d>>
    BY DEF Equals
  <1>2. 0 <= c * n /\ c * n <= c * d
    BY Z3
  <1> QED BY <1>1, <1>2 DEF Inside

\* Where the viewer sees a point a and b parts into a picture that is as wide
\* as the canvas, which is W by H units of 2wwhh; the divisions are exact.
LEMMA WidePicture ==
    ASSUME NEW w \in Nat \ {0}, NEW h \in Nat \ {0}, NEW W \in Nat \ {0}, NEW H \in Nat \ {0},
           NEW a \in Int, NEW b \in Int
    PROVE  LET unit == 2 * w * w * h * h IN
        /\ ((W * unit - W * unit) \div 2) + ((w * h * a * (W * unit)) \div unit) = W * w * h * a
        /\ ((H * unit - W * 2 * w * h * h * h) \div 2)
             + ((w * h * b * (W * 2 * w * h * h * h)) \div unit)
           = H * w * w * h * h - W * w * h * h * h + W * h * h * b
  <1> DEFINE unit == 2 * w * w * h * h
  <1>1. unit \in Nat \ {0}
    BY Z3
  <1>2. /\ w * h * a * (W * unit) = (W * w * h * a) * unit
        /\ w * h * b * (W * 2 * w * h * h * h) = (W * h * h * b) * unit
        /\ H * unit - W * 2 * w * h * h * h = 2 * (H * w * w * h * h - W * w * h * h * h)
        /\ W * unit - W * unit = 0
    BY Z3
  <1> HIDE DEF unit
  <1>3. \A q \in Int : (q * unit) \div unit = q
    BY <1>1, Z3
  <1>4. \A q \in Int : (2 * q) \div 2 = q
    BY Z3
  <1>5. W * w * h * a \in Int /\ W * h * h * b \in Int
    BY Z3
  <1>6. H * w * w * h * h - W * w * h * h * h \in Int
    BY Z3
  <1>7. /\ (w * h * a * (W * unit)) \div unit = W * w * h * a
        /\ (w * h * b * (W * 2 * w * h * h * h)) \div unit = W * h * h * b
        /\ (H * unit - W * 2 * w * h * h * h) \div 2 = H * w * w * h * h - W * w * h * h * h
        /\ (W * unit - W * unit) \div 2 = 0
    BY <1>2, <1>3, <1>4, <1>5, <1>6
  <1>8. 0 + W * w * h * a = W * w * h * a
    BY Z3
  <1> QED BY <1>7, <1>8 DEF unit

\* The same of a picture that is as high as the canvas.
LEMMA TallPicture ==
    ASSUME NEW w \in Nat \ {0}, NEW h \in Nat \ {0}, NEW W \in Nat \ {0}, NEW H \in Nat \ {0},
           NEW a \in Int, NEW b \in Int
    PROVE  LET unit == 2 * w * w * h * h IN
        /\ ((H * unit - H * unit) \div 2) + ((w * h * b * (H * unit)) \div unit) = H * w * h * b
        /\ ((W * unit - H * 2 * w * w * w * h) \div 2)
             + ((w * h * a * (H * 2 * w * w * w * h)) \div unit)
           = W * w * w * h * h - H * w * w * w * h + H * w * w * a
  <1>1. /\ 2 * h * h * w * w = 2 * w * w * h * h
        /\ h * w * b = w * h * b /\ h * w * a = w * h * a
        /\ H * 2 * h * w * w * w = H * 2 * w * w * w * h
        /\ H * h * w * b = H * w * h * b
        /\ W * h * h * w * w - H * h * w * w * w + H * w * w * a
             = W * w * w * h * h - H * w * w * w * h + H * w * w * a
    BY Z3
  <1> QED BY <1>1, WidePicture

\* Where the middle of a pixel is on the turned picture, in parts of 2wh.
Turned(dev, p) ==
    LET parts == 2 * dev.width * dev.height
        u == (2 * p[1] + 1) * dev.height
        v == (2 * p[2] + 1) * dev.width
    IN  CASE dev.rotation = 90 -> <<parts - v, u>>
          [] dev.rotation = 180 -> <<parts - u, parts - v>>
          [] dev.rotation = 270 -> <<v, parts - u>>
          [] OTHER -> <<u, v>>

\* Seen, without divisions.
LEMMA SeenTurned ==
    ASSUME NEW dev \in Displays, NEW view \in [width : Nat \ {0}, height : Nat \ {0}],
           NEW p \in Nat \X Nat, NEW a \in Int, NEW b \in Int, Turned(dev, p) = <<a, b>>,
           KeepsShape(dev)
    PROVE  LET w == dev.width
               h == dev.height
               W == view.width
               H == view.height
           IN  Seen(dev, view, p) =
                 IF W * h <= H * w
                 THEN <<W * w * h * a, H * w * w * h * h - W * w * h * h * h + W * h * h * b>>
                 ELSE <<W * w * w * h * h - H * w * w * w * h + H * w * w * a, H * w * h * b>>
  <1> DEFINE w == dev.width
             h == dev.height
             W == view.width
             H == view.height
             unit == 2 * w * w * h * h
             u == (2 * p[1] + 1) * w * h * h
             v == (2 * p[2] + 1) * w * w * h
             at == CASE dev.rotation = 90 -> <<unit - v, u>>
                     [] dev.rotation = 180 -> <<unit - u, unit - v>>
                     [] dev.rotation = 270 -> <<v, unit - u>>
                     [] OTHER -> <<u, v>>
             fits == W * h <= H * w
             pw == IF fits THEN W * unit ELSE H * 2 * w * w * w * h
             ph == IF fits THEN W * 2 * w * h * h * h ELSE H * unit
  <1>1. /\ w \in Nat \ {0} /\ h \in Nat \ {0} /\ W \in Nat \ {0} /\ H \in Nat \ {0}
        /\ p[1] \in Nat /\ p[2] \in Nat /\ dev.rotation \in Int
    BY DEF Displays
  <1>2. Seen(dev, view, p) = <<((W * unit - pw) \div 2) + ((at[1] * pw) \div unit),
                               ((H * unit - ph) \div 2) + ((at[2] * ph) \div unit)>>
    <2>1. Picture(dev).width = w /\ Picture(dev).height = h
      BY DEF Picture, KeepsShape
    <2> QED BY <2>1 DEF Seen
  <1>3. at = <<w * h * a, w * h * b>>
    <2> DEFINE x == (2 * p[1] + 1) * h
               y == (2 * p[2] + 1) * w
    <2>1. /\ u = w * h * x /\ v = w * h * y
          /\ unit - u = w * h * (2 * w * h - x) /\ unit - v = w * h * (2 * w * h - y)
      <3> HIDE DEF w, h
      <3> QED BY <1>1, Z3
    <2>2. CASE dev.rotation = 90
      BY <2>1, <2>2 DEF Turned
    <2>3. CASE dev.rotation = 180
      BY <2>1, <2>3 DEF Turned
    <2>4. CASE dev.rotation = 270
      BY <2>1, <2>4 DEF Turned
    <2>5. CASE dev.rotation \notin {90, 180, 270}
      BY <2>1, <2>5 DEF Turned
    <2> QED BY <2>2, <2>3, <2>4, <2>5
  <1>4. at[1] = w * h * a /\ at[2] = w * h * b
    BY <1>3
  <1> HIDE DEF w, h, W, H, at
  <1>5. fits => Seen(dev, view, p) =
                  <<W * w * h * a, H * w * w * h * h - W * w * h * h * h + W * h * h * b>>
    <2> SUFFICES ASSUME fits PROVE Seen(dev, view, p) =
                  <<W * w * h * a, H * w * w * h * h - W * w * h * h * h + W * h * h * b>>
      OBVIOUS
    <2>1. pw = W * unit /\ ph = W * 2 * w * h * h * h
      OBVIOUS
    <2>2. /\ ((W * unit - W * unit) \div 2) + ((w * h * a * (W * unit)) \div unit) = W * w * h * a
          /\ ((H * unit - W * 2 * w * h * h * h) \div 2)
               + ((w * h * b * (W * 2 * w * h * h * h)) \div unit)
             = H * w * w * h * h - W * w * h * h * h + W * h * h * b
      BY <1>1, WidePicture
    <2> HIDE DEF unit, pw, ph
    <2> QED BY <1>2, <1>4, <2>1, <2>2
  <1>6. ~fits => Seen(dev, view, p) =
                  <<W * w * w * h * h - H * w * w * w * h + H * w * w * a, H * w * h * b>>
    <2> SUFFICES ASSUME ~fits PROVE Seen(dev, view, p) =
                  <<W * w * w * h * h - H * w * w * w * h + H * w * w * a, H * w * h * b>>
      OBVIOUS
    <2>1. pw = H * 2 * w * w * w * h /\ ph = H * unit
      OBVIOUS
    <2>2. /\ ((W * unit - H * 2 * w * w * w * h) \div 2)
               + ((w * h * a * (H * 2 * w * w * w * h)) \div unit)
             = W * w * w * h * h - H * w * w * w * h + H * w * w * a
          /\ ((H * unit - H * unit) \div 2) + ((w * h * b * (H * unit)) \div unit) = H * w * h * b
      BY <1>1, TallPicture
    <2> HIDE DEF unit, pw, ph
    <2> QED BY <1>2, <1>4, <2>1, <2>2
  <1> HIDE DEF unit, pw, ph
  <1> QED BY <1>5, <1>6 DEF w, h, W, H

\* Normalising takes away what fitting and centring have added.
LEMMA SeenNormalised ==
    ASSUME NEW dev \in Displays, NEW view \in [width : Nat \ {0}, height : Nat \ {0}],
           NEW p \in Nat \X Nat, NEW a \in Int, NEW b \in Int, Turned(dev, p) = <<a, b>>,
           KeepsShape(dev)
    PROVE  LET canvas == Magnified(dev, view)
               f == Normalised(dev, canvas, Seen(dev, view, p))
               parts == 2 * dev.width * dev.height
           IN  ~Flat(dev, canvas) /\ Equals(f[1], a, parts) /\ Equals(f[2], b, parts)
  <1> DEFINE w == dev.width
             h == dev.height
             W == view.width
             H == view.height
             unit == 2 * w * w * h * h
             canvas == Magnified(dev, view)
             s == Seen(dev, view, p)
             f == Normalised(dev, canvas, s)
             parts == 2 * w * h
  <1>1. w \in Nat \ {0} /\ h \in Nat \ {0} /\ W \in Nat \ {0} /\ H \in Nat \ {0}
    BY DEF Displays
  <1>2. canvas.width = W * unit /\ canvas.height = H * unit
    BY DEF Magnified
  <1>3. s = IF W * h <= H * w
            THEN <<W * w * h * a, H * w * w * h * h - W * w * h * h * h + W * h * h * b>>
            ELSE <<W * w * w * h * h - H * w * w * w * h + H * w * w * a, H * w * h * b>>
    BY SeenTurned
  <1>4. ~Flat(dev, canvas)
    <2>1. W * unit > 0 /\ H * unit > 0
      <3> HIDE DEF w, h, W, H
      <3> QED BY <1>1, Z3
    <2> QED BY <1>1, <1>2, <2>1 DEF Flat
  <1>5. Wider(dev, canvas) <=> W * h < H * w
    <2>1. w * (H * unit) > (W * unit) * h <=> W * h < H * w
      <3> HIDE DEF w, h, W, H
      <3>1. /\ w * (H * unit) = (H * w) * unit /\ (W * unit) * h = (W * h) * unit
            /\ unit > 0 /\ H * w \in Int /\ W * h \in Int /\ unit \in Int
        BY <1>1, Z3
      <3> QED BY <3>1, Z3
    <2> QED BY <1>2, <2>1 DEF Wider
  <1>6. f = IF Wider(dev, canvas)
            THEN <<<<s[1], W * unit>>,
                   <<2 * s[2] * w - H * unit * w + W * unit * h, 2 * (W * unit) * h>>>>
            ELSE <<<<2 * s[1] * h - W * unit * h + H * unit * w, 2 * (H * unit) * w>>,
                   <<s[2], H * unit>>>>
    BY <1>2, <1>4 DEF Normalised
  <1>7. CASE W * h < H * w
    <2>1. s = <<W * w * h * a, H * w * w * h * h - W * w * h * h * h + W * h * h * b>>
      <3> HIDE DEF s, w, h, W, H
      <3> QED BY <1>1, <1>3, <1>7
    <2> DEFINE c == W * w * h
               e == 2 * W * w * h * h
    <2> HIDE DEF s, w, h, W, H
    <2>2. /\ c \in Nat \ {0} /\ e \in Nat \ {0}
          /\ W * w * h * a = c * a /\ W * unit = c * parts
          /\ 2 * (H * w * w * h * h - W * w * h * h * h + W * h * h * b) * w
               - H * unit * w + W * unit * h = e * b
          /\ 2 * (W * unit) * h = e * parts
      BY <1>1, Z3
    <2>3. f[1] = <<c * a, c * parts>> /\ f[2] = <<e * b, e * parts>>
      <3>1. /\ s[1] = c * a
            /\ 2 * s[2] * w - H * unit * w + W * unit * h = e * b
        <4> HIDE DEF unit, c, e
        <4> QED BY <2>1, <2>2
      <3> HIDE DEF f, unit, c, e, parts, canvas
      <3>2. f = <<<<s[1], W * unit>>,
                  <<2 * s[2] * w - H * unit * w + W * unit * h, 2 * (W * unit) * h>>>>
        BY <1>5, <1>6, <1>7
      <3> QED BY <2>2, <3>1, <3>2
    <2> HIDE DEF c, e
    <2> QED BY <1>4, <2>2, <2>3 DEF Equals, w, h, s
  <1>8. CASE ~(W * h < H * w)
    <2> DEFINE c == 2 * H * w * w * h
               e == H * w * h
    <2>1. /\ 2 * s[1] * h - W * unit * h + H * unit * w = c * a
          /\ s[2] = e * b
      <3>1. CASE W * h = H * w
        <4>1. s = <<W * w * h * a, H * w * w * h * h - W * w * h * h * h + W * h * h * b>>
          <5> HIDE DEF s, w, h, W, H
          <5> QED BY <1>1, <1>3, <3>1
        <4> HIDE DEF s, w, h, W, H
        <4>2. /\ 2 * (W * w * h * a) * h = 2 * (W * h) * w * h * a
              /\ W * unit * h = (W * h) * unit /\ H * unit * w = (H * w) * unit
              /\ 2 * (H * w) * w * h * a = c * a
              /\ H * w * w * h * h - W * w * h * h * h + W * h * h * b
                   = (H * w) * w * h * h - (W * h) * w * h * h + (W * h) * h * b
              /\ (H * w) * h * b = e * b
          BY <1>1, Z3
        <4>3. (W * h) * unit = (H * w) * unit /\ (H * w) * unit \in Int
          BY <1>1, <3>1, Z3
        <4>4. /\ (W * h) * w * h * h = (H * w) * w * h * h /\ (H * w) * w * h * h \in Int
              /\ (W * h) * h * b = (H * w) * h * b /\ (H * w) * h * b \in Int
              /\ c * a \in Int
          BY <1>1, <3>1, Z3
        <4>5. 2 * (W * w * h * a) * h = c * a
          BY <3>1, <4>2
        <4> QED BY <4>1, <4>2, <4>3, <4>4, <4>5
      <3>2. CASE W * h > H * w
        <4>1. s = <<W * w * w * h * h - H * w * w * w * h + H * w * w * a, H * w * h * b>>
          <5> HIDE DEF s, w, h, W, H
          <5> QED BY <1>1, <1>3, <3>2
        <4> HIDE DEF s, w, h, W, H
        <4>2. 2 * (W * w * w * h * h - H * w * w * w * h + H * w * w * a) * h
                - W * unit * h + H * unit * w = c * a
          BY <1>1, Z3
        <4> QED BY <4>1, <4>2
      <3> HIDE DEF w, h, W, H
      <3> QED BY <1>1, <1>8, <3>1, <3>2
    <2> HIDE DEF s, w, h, W, H
    <2>2. /\ c \in Nat \ {0} /\ e \in Nat \ {0}
          /\ 2 * (H * unit) * w = c * parts /\ H * unit = e * parts
      BY <1>1, Z3
    <2>3. f[1] = <<c * a, c * parts>> /\ f[2] = <<e * b, e * parts>>
      <3> HIDE DEF f, unit, c, e, parts, canvas
      <3>1. f = <<<<2 * s[1] * h - W * unit * h + H * unit * w, 2 * (H * unit) * w>>,
                  <<s[2], H * unit>>>>
        BY <1>5, <1>6, <1>8
      <3> QED BY <2>1, <2>2, <3>1
    <2> HIDE DEF c, e
    <2> QED BY <1>4, <2>2, <2>3 DEF Equals, w, h, s
  <1> QED BY <1>7, <1>8

\* Rotating turns the picture back, so that the click is on it, and half a
\* pixel past the first edges of its pixel.
LEMMA RotatedSeen ==
    ASSUME NEW dev \in Displays, NEW view \in [width : Nat \ {0}, height : Nat \ {0}],
           NEW p \in (0..(dev.width - 1)) \X (0..(dev.height - 1)), KeepsShape(dev)
    PROVE  LET canvas == Magnified(dev, view)
               s == Seen(dev, view, p)
               r == Rotated(dev.rotation, Normalised(dev, canvas, s))
               parts == 2 * dev.width * dev.height
           IN  /\ Valid(dev, canvas, s)
               /\ Equals(r[1], (2 * p[1] + 1) * dev.height, parts)
               /\ Equals(r[2], (2 * p[2] + 1) * dev.width, parts)
  <1> DEFINE w == dev.width
             h == dev.height
             parts == 2 * w * h
             u == (2 * p[1] + 1) * h
             v == (2 * p[2] + 1) * w
             canvas == Magnified(dev, view)
             s == Seen(dev, view, p)
             f == Normalised(dev, canvas, s)
             r == Rotated(dev.rotation, f)
  <1>1. /\ w \in Nat \ {0} /\ h \in Nat \ {0} /\ dev.rotation \in Int
        /\ p \in Nat \X Nat /\ p[1] + 1 <= w /\ p[2] + 1 <= h
    BY DEF Displays
  <1>2. /\ u \in 0..parts /\ v \in 0..parts
        /\ parts - u \in 0..parts /\ parts - v \in 0..parts
        /\ parts \in Int /\ parts - (parts - u) = u /\ parts - (parts - v) = v
    <2> DEFINE x == p[1]
               y == p[2]
    <2>0. x \in Nat /\ y \in Nat /\ x + 1 <= w /\ y + 1 <= h
      BY <1>1
    <2> HIDE DEF w, h, x, y
    <2>1. (2 * x + 1) * h <= 2 * w * h /\ (2 * y + 1) * w <= 2 * w * h
      <3>1. 2 * x + 1 <= 2 * w /\ 2 * y + 1 <= 2 * h
        BY <1>1, <2>0
      <3>2. (2 * x + 1) * h <= (2 * w) * h /\ (2 * y + 1) * w <= (2 * h) * w
        BY <1>1, <2>0, <3>1, Z3
      <3> QED BY <1>1, <2>0, <3>2, Z3
    <2>2. (2 * x + 1) * h \in Nat /\ (2 * y + 1) * w \in Nat /\ 2 * w * h \in Nat
      BY <1>1, <2>0, Z3
    <2> QED BY <2>1, <2>2 DEF x, y
  <1>3. \A a \in 0..parts, b \in 0..parts : Turned(dev, p) = <<a, b>> =>
            Valid(dev, canvas, s) /\ Equals(f[1], a, parts) /\ Equals(f[2], b, parts)
    <2> SUFFICES ASSUME NEW a \in 0..parts, NEW b \in 0..parts, Turned(dev, p) = <<a, b>>
                 PROVE  Valid(dev, canvas, s) /\ Equals(f[1], a, parts) /\ Equals(f[2], b, parts)
      OBVIOUS
    <2>1. a \in Int /\ b \in Int /\ 0 <= a /\ a <= parts /\ 0 <= b /\ b <= parts
      BY <1>2
    <2>2. ~Flat(dev, canvas) /\ Equals(f[1], a, parts) /\ Equals(f[2], b, parts)
      BY <1>1, <2>1, SeenNormalised
    <2> HIDE DEF parts, f, canvas, s
    <2>3. Inside(f[1]) /\ Inside(f[2])
      BY <1>2, <2>1, <2>2, InsideEquals
    <2> QED BY <2>2, <2>3 DEF Valid, f
  <1>4. CASE dev.rotation = 90
    <2>1. Turned(dev, p) = <<parts - v, u>> /\ r = <<f[2], FromEnd(f[1])>>
      BY <1>4 DEF Turned, Rotated
    <2> HIDE DEF f, r, parts, canvas, s, u, v
    <2>2. Valid(dev, canvas, s) /\ Equals(f[1], parts - v, parts) /\ Equals(f[2], u, parts)
      BY <1>2, <1>3, <2>1
    <2>3. Equals(FromEnd(f[1]), v, parts)
      BY <1>2, <2>2, TurnedEquals
    <2> QED BY <2>1, <2>2, <2>3 DEF f, r, parts, canvas, s, u, v
  <1>5. CASE dev.rotation = 180
    <2>1. Turned(dev, p) = <<parts - u, parts - v>> /\ r = <<FromEnd(f[1]), FromEnd(f[2])>>
      BY <1>5 DEF Turned, Rotated
    <2> HIDE DEF f, r, parts, canvas, s, u, v
    <2>2. Valid(dev, canvas, s) /\ Equals(f[1], parts - u, parts) /\ Equals(f[2], parts - v, parts)
      BY <1>2, <1>3, <2>1
    <2>3. Equals(FromEnd(f[1]), u, parts) /\ Equals(FromEnd(f[2]), v, parts)
      BY <1>2, <2>2, TurnedEquals
    <2> QED BY <2>1, <2>2, <2>3 DEF f, r, parts, canvas, s, u, v
  <1>6. CASE dev.rotation = 270
    <2>1. Turned(dev, p) = <<v, parts - u>> /\ r = <<FromEnd(f[2]), f[1]>>
      BY <1>6 DEF Turned, Rotated
    <2> HIDE DEF f, r, parts, canvas, s, u, v
    <2>2. Valid(dev, canvas, s) /\ Equals(f[1], v, parts) /\ Equals(f[2], parts - u, parts)
      BY <1>2, <1>3, <2>1
    <2>3. Equals(FromEnd(f[2]), u, parts)
      BY <1>2, <2>2, TurnedEquals
    <2> QED BY <2>1, <2>2, <2>3 DEF f, r, parts, canvas, s, u, v
  <1>7. CASE dev.rotation \notin {90, 180, 270}
    <2>1. Turned(dev, p) = <<u, v>> /\ r = f
      BY <1>7 DEF Turned, Rotated
    <2> HIDE DEF f, r, parts, canvas, s, u, v
    <2> QED BY <1>2, <1>3, <2>1 DEF f, r, parts, canvas, s, u, v
  <1> QED BY <1>4, <1>5, <1>6, <1>7

\* coordinate_mapper.py:3-25: whatever the sizes of display and canvas and the
\* bars this leaves, a click on the middle of a pixel is mapped to that pixel,
\* below the status bar if there is one: of an upright display, of one upside
\* down, and of a square one on its side.
THEOREM ClicksHitPixels ==
    ASSUME NEW dev \in Displays, NEW view \in [width : Nat \ {0}, height : Nat \ {0}],
           KeepsShape(dev)
    PROVE  HitsPixels(dev, view)
  <1> SUFFICES ASSUME NEW p \in (0..(dev.width - 1)) \X (0..(dev.height - 1))
               PROVE  LET canvas == Magnified(dev, view)
                          s == Seen(dev, view, p)
                      IN  /\ Valid(dev, canvas, s)
                          /\ Map(dev, canvas, s) = <<p[1], Clamped(p[2] + dev.bar, dev.height)>>
    BY DEF HitsPixels
  <1> DEFINE w == dev.width
             h == dev.height
             canvas == Magnified(dev, view)
             s == Seen(dev, view, p)
             r == Rotated(dev.rotation, Normalised(dev, canvas, s))
  <1>1. w \in Nat \ {0} /\ h \in Nat \ {0} /\ p[1] \in 0..(w - 1) /\ p[2] \in 0..(h - 1)
    BY DEF Displays
  <1>2. /\ Valid(dev, canvas, s)
        /\ Equals(r[1], (2 * p[1] + 1) * h, 2 * w * h)
        /\ Equals(r[2], (2 * p[2] + 1) * w, 2 * w * h)
    BY RotatedSeen
  <1>3. (r[1][1] * w) \div r[1][2] = p[1] /\ (r[2][1] * h) \div r[2][2] = p[2]
    <2> HIDE DEF r, w, h
    <2>1. 2 * w * h = 2 * h * w /\ p[1] \in Nat /\ p[2] \in Nat
      BY <1>1, Z3
    <2> QED BY <1>1, <1>2, <2>1, MiddleOfPixel
  <1>4. Clamped(p[1], w) = p[1]
    BY <1>1 DEF Clamped, Larger, Smaller
  <1>5. Map(dev, canvas, s) = <<Clamped((r[1][1] * w) \div r[1][2], w),
                                Clamped(((r[2][1] * h) \div r[2][2]) + dev.bar, h)>>
    BY DEF Map, Pixel
  <1> HIDE DEF r, canvas, s
  <1> QED BY <1>2, <1>3, <1>4, <1>5 DEF canvas, s

\* The projection is that of the display and the canvas as they are.
MapperInv ==
    /\ display \in Screens /\ viewport \in Views
    /\ projection = Projection(display, viewport)

LEMMA MapperInvHolds == MapperSpec => []MapperInv
<1>1. MapperInit => MapperInv
  BY DEF MapperInit, MapperInv
<1>2. MapperInv /\ [MapperNext]_mapperVars => MapperInv'
  BY DEF MapperInv, MapperNext, mapperVars, UpdateDevice, UpdateViewport, Projection
<1> QED BY <1>1, <1>2, PTL DEF MapperSpec

LEMMA CurrentProjectionHits == MapperInv => RoundTrip
  <1> SUFFICES ASSUME MapperInv, ~Flat(display, viewport), KeepsShape(display),
                      NEW p \in (0..(display.width - 1)) \X (0..(display.height - 1))
               PROVE  LET seen == Seen(display, viewport, p)
                      IN  /\ Reaches(seen)
                          /\ Lands(seen) = <<p[1], Clamped(p[2] + display.bar, display.height)>>
    BY DEF RoundTrip
  <1>1. /\ display \in [width : Int, height : Int, rotation : Int, bar : Nat]
        /\ viewport \in [width : Int, height : Int]
    BY MapperAssumption DEF MapperInv
  <1>2. /\ display.width > 0 /\ display.height > 0 /\ viewport.width > 0 /\ viewport.height > 0
    BY <1>1 DEF Flat
  <1>3. display \in Displays /\ viewport \in [width : Nat \ {0}, height : Nat \ {0}]
    BY <1>1, <1>2 DEF Displays
  <1>4. HitsPixels(display, viewport)
    BY <1>3, ClicksHitPixels
  <1>5. projection.display = display /\ projection.viewport = viewport
    BY DEF MapperInv, Projection
  <1> QED BY <1>4, <1>5 DEF HitsPixels, Map, Reaches, Lands, Projected

\* coordinate_mapper.py:3-25, manager.py:63-70: after any rotations and resizes,
\* a click on the middle of a pixel is mapped to that pixel, unless the display
\* is on its side and not square.
THEOREM ResizedClicksHitPixels == MapperSpec => []RoundTrip
<1> QED BY MapperInvHolds, CurrentProjectionHits, PTL

-----------------------------------------------------------------------------
(* Gestures. *)

Pixels(dev) == (0..(dev.width - 1)) \X (0..(dev.height - 1))

\* Every place is a pixel of the display, and all inputs but the first wait.
Good(dev, steps) ==
    \A i \in 1..Len(steps) :
        /\ StepOnScreen(dev, steps[i])
        /\ steps[i].delay = "no" <=> i = 1

LEMMA SwipeGood ==
    ASSUME NEW dev \in Displays, NEW p \in Pixels(dev), NEW q \in Pixels(dev)
    PROVE  /\ StepOnScreen(dev, Swipe(p, q)) /\ Swipe(p, q).delay = "no"
           /\ StepOnScreen(dev, Later(Swipe(p, q))) /\ Later(Swipe(p, q)).delay # "no"
  BY DEF Displays, Pixels, StepOnScreen, OnScreen, Swipe, Later

LEMMA TapGood ==
    ASSUME NEW dev \in Displays, NEW p \in Pixels(dev)
    PROVE  /\ StepOnScreen(dev, Tap(p)) /\ Tap(p).delay = "no"
           /\ StepOnScreen(dev, Later(Tap(p))) /\ Later(Tap(p)).delay # "no"
  BY DEF Displays, Pixels, StepOnScreen, OnScreen, Tap, Later

LEMMA PressGood ==
    ASSUME NEW dev, NEW key
    PROVE  /\ StepOnScreen(dev, Press(key)) /\ Press(key).delay = "no"
           /\ StepOnScreen(dev, Later(Press(key))) /\ Later(Press(key)).delay # "no"
           /\ StepOnScreen(dev, Type(key)) /\ Type(key).delay = "no"
  BY DEF StepOnScreen, Press, Type, Later, Place

LEMMA OneStep ==
    ASSUME NEW dev, NEW a, StepOnScreen(dev, a), a.delay = "no"
    PROVE  Good(dev, <<a>>)
  BY DEF Good

LEMMA TwoSteps ==
    ASSUME NEW dev, NEW a, NEW b, StepOnScreen(dev, a), a.delay = "no",
           StepOnScreen(dev, b), b.delay # "no"
    PROVE  Good(dev, <<a, b>>)
  BY DEF Good

LEMMA NoSteps == ASSUME NEW dev PROVE Good(dev, <<>>)
  BY DEF Good

LEMMA HalfOnScreen ==
    ASSUME NEW n \in Nat \ {0}
    PROVE  n \div 2 \in 0..(n - 1) /\ n \div 3 \in 0..(n - 1)
  OBVIOUS

LEMMA PanelGood ==
    ASSUME NEW dev \in Displays, NEW gesture
    PROVE  Good(dev, <<PanelStep(dev, gesture)>>)
  <1>1. /\ <<dev.width \div 2, 0>> \in Pixels(dev)
        /\ <<dev.width \div 2, dev.height \div 2>> \in Pixels(dev)
        /\ <<dev.width \div 2, dev.height \div 3>> \in Pixels(dev)
    BY HalfOnScreen DEF Displays, Pixels
  <1>2. \E q \in Pixels(dev) : PanelStep(dev, gesture) = Swipe(<<dev.width \div 2, 0>>, q)
    BY <1>1 DEF PanelStep
  <1> QED BY <1>1, <1>2, SwipeGood, OneStep

LEMMA DirectionalOnScreen ==
    ASSUME NEW dev \in Displays, NEW p \in Pixels(dev), NEW direction, NEW distance \in Int
    PROVE  DirectionalEnd(dev, direction, p, distance) \in Pixels(dev)
  <1> DEFINE n == distance * Larger(dev.width, dev.height)
             dist == Truncated(n, 100)
             toward(back, on) ==
                IF direction = back THEN -dist ELSE IF direction = on THEN dist ELSE 0
             dx == toward("swipe_left", "swipe_right")
             dy == toward("swipe_up", "swipe_down")
  <1>1. n \in Int
    BY DEF Displays, Larger
  <1>2. dist \in Int
    <2> HIDE DEF n
    <2> QED BY <1>1 DEF Truncated
  <1>3. dx \in Int /\ dy \in Int
    <2> HIDE DEF dist
    <2> QED BY <1>2
  <1>4. DirectionalEnd(dev, direction, p, distance)
            = <<Clamped(p[1] + dx, dev.width), Clamped(p[2] + dy, dev.height)>>
    BY DEF DirectionalEnd
  <1> HIDE DEF dx, dy
  <1>5. p[1] + dx \in Int /\ p[2] + dy \in Int
    BY <1>3 DEF Pixels, Displays
  <1>6. /\ Clamped(p[1] + dx, dev.width) \in 0..(dev.width - 1)
        /\ Clamped(p[2] + dy, dev.height) \in 0..(dev.height - 1)
    BY <1>5, ClampedInRange DEF Displays
  <1> QED BY <1>4, <1>6 DEF Pixels

LEMMA ScrollOnScreen ==
    ASSUME NEW dev \in Displays, NEW p \in Pixels(dev), NEW direction
    PROVE  ScrollEnd(dev, direction, p) \in Pixels(dev)
  <1>1. dev.height \div 6 \in Nat
    BY DEF Displays
  <1> QED BY <1>1 DEF ScrollEnd, Larger, Smaller, Pixels, Displays

LEMMA ScrollGood ==
    ASSUME NEW dev \in Displays, NEW p \in Pixels(dev), NEW direction, NEW count \in Nat
    PROVE  Good(dev, ScrollSteps(dev, direction, p, count))
  <1> DEFINE q == ScrollEnd(dev, direction, p)
  <1>1. /\ StepOnScreen(dev, Swipe(p, q)) /\ Swipe(p, q).delay = "no"
        /\ StepOnScreen(dev, Later(Swipe(p, q))) /\ Later(Swipe(p, q)).delay # "no"
    BY ScrollOnScreen, SwipeGood
  <1>2. Len(ScrollSteps(dev, direction, p, count)) = count
    BY DEF ScrollSteps
  <1>3. \A i \in 1..count : ScrollSteps(dev, direction, p, count)[i]
                               = IF i = 1 THEN Swipe(p, q) ELSE Later(Swipe(p, q))
    BY DEF ScrollSteps
  <1> QED BY <1>1, <1>2, <1>3 DEF Good

\* The gestures that begin at a pixel, for every pixel.
LEMMA RouteFromGood ==
    ASSUME NEW gesture \in Names \ (KeyGestures \cup Panels), NEW dev \in Displays,
           NEW view \in Canvases, NEW p \in Pixels(dev), NEW click2 \in Points,
           NEW params \in Params
    PROVE  Good(dev, RouteFrom(gesture, dev, view, p, click2, params).steps)
  <1> DEFINE r == RouteFrom(gesture, dev, view, p, click2, params)
  <1>0. /\ \A steps : Done(steps).steps = steps
        /\ Refused.steps = <<>>
    BY DEF Done, Refused
  <1> DEFINE single == {"tap", "double_tap", "long_press", "swipe", "text", "unknown"}
  <1>d. /\ gesture \in single => gesture \notin Directions /\ gesture \notin Scrolls
        /\ gesture \in Directions => gesture \notin single /\ gesture \notin Scrolls
        /\ gesture \in Scrolls => gesture \notin single
    BY DEF Directions, Scrolls
  <1>1. CASE gesture = "tap"
    <2>1. r = Done(<<Tap(p)>>)
      BY <1>1, <1>d DEF RouteFrom
    <2> QED BY <2>1, <1>0, TapGood, OneStep
  <1>2. CASE gesture = "double_tap"
    <2>1. r = Done(<<Tap(p), Later(Tap(p))>>)
      BY <1>2, <1>d DEF RouteFrom
    <2> QED BY <2>1, <1>0, TapGood, TwoSteps
  <1>3. CASE gesture = "long_press"
    <2>1. r = Done(<<Swipe(p, p)>>)
      BY <1>3, <1>d DEF RouteFrom
    <2> QED BY <2>1, <1>0, SwipeGood, OneStep
  <1>4. CASE gesture = "swipe"
    <2>1. r = Done(<<Swipe(p, Map(dev, view, click2))>>) \/ r = Refused
      BY <1>4, <1>d DEF RouteFrom
    <2>2. Map(dev, view, click2) \in Pixels(dev)
      BY MapOnScreen DEF Pixels
    <2> QED BY <2>1, <2>2, <1>0, SwipeGood, OneStep, NoSteps
  <1>5. CASE gesture \in Directions
    <2>1. r = Done(<<Swipe(p, DirectionalEnd(dev, gesture, p, params.distance))>>)
      BY <1>5, <1>d DEF RouteFrom
    <2>2. DirectionalEnd(dev, gesture, p, params.distance) \in Pixels(dev)
      BY DirectionalOnScreen DEF Params
    <2> QED BY <2>1, <2>2, <1>0, SwipeGood, OneStep
  <1>6. CASE gesture \in Scrolls
    <2>1. r = Done(ScrollSteps(dev, gesture, p, params.count))
      BY <1>6, <1>d DEF RouteFrom
    <2>2. params.count \in Nat
      BY DEF Params
    <2> QED BY <2>1, <2>2, <1>0, ScrollGood
  <1>7. CASE gesture = "text"
    <2>1. r = Refused \/ r = Done(<<Type(params.text)>>)
      BY <1>7, <1>d DEF RouteFrom
    <2> QED BY <2>1, <1>0, PressGood, OneStep, NoSteps
  <1>8. CASE gesture = "unknown"
    <2>1. r = Refused
      BY <1>8, <1>d DEF RouteFrom
    <2> QED BY <2>1, <1>0, NoSteps
  <1>9. \/ gesture = "tap" \/ gesture = "double_tap" \/ gesture = "long_press"
        \/ gesture = "swipe" \/ gesture \in Directions \/ gesture \in Scrolls
        \/ gesture = "text" \/ gesture = "unknown"
    BY DEF Names
  <1> QED BY <1>1, <1>2, <1>3, <1>4, <1>5, <1>6, <1>7, <1>8, <1>9

\* gesture_router.py: whatever the gesture, the display, the canvas and the
\* parameters, no input falls off the screen; and RemoteControl's view of a
\* gesture is right, that its first input leaves at once and the others wait.
THEOREM StepsOnScreen ==
    ASSUME NEW gesture \in Names, NEW dev \in Displays, NEW view \in Canvases,
           NEW click \in Points, NEW click2 \in Points, NEW params \in Params
    PROVE  Good(dev, Route(gesture, dev, view, click, click2, params).steps)
  <1> DEFINE r == Route(gesture, dev, view, click, click2, params)
  <1>0. /\ \A steps : Done(steps).steps = steps
        /\ Refused.steps = <<>>
    BY DEF Done, Refused
  <1>1. CASE gesture \in KeyGestures
    <2>1. r = Done(KeySteps(gesture))
      <3>1. gesture \notin Panels
        BY <1>1 DEF KeyGestures, Panels
      <3> QED BY <1>1, <3>1 DEF Route
    <2>2. \/ KeySteps(gesture) = <<Press("power"), Later(Press("volume_down"))>>
          \/ KeySteps(gesture) = <<Press(gesture)>>
      BY DEF KeySteps
    <2>3. Good(dev, KeySteps(gesture))
      BY <2>2, PressGood, OneStep, TwoSteps
    <2> QED BY <2>1, <2>3, <1>0
  <1>2. CASE gesture \in Panels
    <2>1. r = Done(<<PanelStep(dev, gesture)>>)
      BY <1>2 DEF Route, Panels, KeyGestures
    <2> QED BY <2>1, <1>0, PanelGood
  <1>3. CASE gesture \notin KeyGestures \cup Panels
    <2>1. \/ r = RouteFrom(gesture, dev, view, Map(dev, view, click), click2, params)
          \/ r = Refused
      BY <1>3 DEF Route
    <2>2. Map(dev, view, click) \in Pixels(dev)
      BY MapOnScreen DEF Pixels
    <2>3. Good(dev, RouteFrom(gesture, dev, view, Map(dev, view, click), click2, params).steps)
      BY <1>3, <2>2, RouteFromGood
    <2> QED BY <2>1, <2>3, <1>0, NoSteps
  <1> QED BY <1>1, <1>2, <1>3

LEMMA PixelInUnit ==
    ASSUME NEW dev \in Displays, NEW p, OnScreen(dev, p),
           dev.width <= EventWidth, dev.height <= EventHeight
    PROVE  InUnit(p)
  BY DEF OnScreen, InUnit, Displays, EventWidth, EventHeight

\* manager.py:240-250: on a display of the default size, or a smaller one, the
\* events of these inputs are fractions of the screen; on a larger one they
\* need not be, since the divisor is fixed.
THEOREM DefaultEventsInUnit ==
    ASSUME NEW gesture \in Names, NEW dev \in Displays, NEW view \in Canvases,
           NEW click \in Points, NEW click2 \in Points, NEW params \in Params,
           dev.width <= EventWidth, dev.height <= EventHeight,
           NEW i \in 1..Len(Route(gesture, dev, view, click, click2, params).steps),
           Route(gesture, dev, view, click, click2, params).steps[i].action \in Place
    PROVE  LET step == Route(gesture, dev, view, click, click2, params).steps[i]
           IN  InUnit(step.from) /\ InUnit(step.to)
  <1> DEFINE steps == Route(gesture, dev, view, click, click2, params).steps
             step == steps[i]
  <1>1. OnScreen(dev, step.from) /\ OnScreen(dev, step.to)
    <2>1. Good(dev, steps)
      BY StepsOnScreen
    <2> HIDE DEF steps
    <2>2. i \in 1..Len(steps) /\ steps[i].action \in Place
      BY DEF steps
    <2> QED BY <2>1, <2>2 DEF Good, StepOnScreen
  <1> QED BY <1>1, PixelInUnit
==============================================================================

--------------------------- MODULE Orchestration_proof ---------------------------
(* Pairs, their graph and sessions over them: types and safety, for every value *)
(* of the constants.                                                            *)
EXTENDS Orchestration, FiniteSetTheorems, SequenceTheorems, WellFoundedInduction, TLAPS

-----------------------------------------------------------------------------
(* The graph. *)

LEMMA KeyParts ==
    /\ None \notin Keys
    /\ \A k \in Keys : /\ k[1] \in Devices /\ k[2] \in Devices /\ k[3] \in Types
                       /\ k = <<k[1], k[2], k[3]>>
    /\ \A e \in EdgesTo : /\ e[1] \in Devices /\ e[2] \in Types /\ e[3] \in Ids
                          /\ e = <<e[1], e[2], e[3]>>
    /\ \A d, c \in Devices, t \in Types : <<d, c, t>> \in Keys
  BY GraphAssumption DEF Keys, EdgesTo

LEMMA AddEdgeKeeps ==
    ASSUME NEW g \in Graphs, Mirrored(g), NEW p \in Ids, NEW k \in Keys, g.pairs[p] = None
    PROVE  /\ AddEdge(g, p, k) \in Graphs /\ Mirrored(AddEdge(g, p, k))
           /\ \A q \in Ids : AddEdge(g, p, k).pairs[q] = IF q = p THEN k ELSE g.pairs[q]
  <1> DEFINE h == AddEdge(g, p, k)
             there == <<k[2], k[3], p>>
             back == <<k[1], k[3], p>>
  <1>0. /\ g.forward \in [Devices -> SUBSET EdgesTo] /\ g.reverse \in [Devices -> SUBSET EdgesTo]
        /\ g.pairs \in [Ids -> Keys \cup {None}]
      BY DEF Graphs
  <1>1. /\ h.forward = [g.forward EXCEPT ![k[1]] = @ \cup {there}]
        /\ h.reverse = [g.reverse EXCEPT ![k[2]] = @ \cup {back}]
        /\ h.pairs = [g.pairs EXCEPT ![p] = k]
        /\ h = [forward |-> h.forward, reverse |-> h.reverse, pairs |-> h.pairs]
      BY DEF AddEdge
  <1>2. /\ there \in EdgesTo /\ there[1] = k[2] /\ there[2] = k[3] /\ there[3] = p
        /\ back \in EdgesTo /\ back[1] = k[1] /\ back[2] = k[3] /\ back[3] = p
        /\ k[1] \in Devices /\ k[2] \in Devices
      BY KeyParts DEF EdgesTo
  <1> HIDE DEF there, back, h
  <1>3. \A q \in Ids : h.pairs[q] = IF q = p THEN k ELSE g.pairs[q]
      BY <1>0, <1>1
  <1>4. \A d \in Devices :
           /\ h.forward[d] = IF d = k[1] THEN g.forward[d] \cup {there} ELSE g.forward[d]
           /\ h.reverse[d] = IF d = k[2] THEN g.reverse[d] \cup {back} ELSE g.reverse[d]
      BY <1>0, <1>1, <1>2
  <1>5. h \in Graphs
    <2>1. /\ h.forward \in [Devices -> SUBSET EdgesTo] /\ h.reverse \in [Devices -> SUBSET EdgesTo]
          /\ h.pairs \in [Ids -> Keys \cup {None}]
        BY <1>0, <1>1, <1>2
    <2> QED
        BY <1>1, <2>1 DEF Graphs
  <1>6. ASSUME NEW d \in Devices, NEW e \in EdgesTo
        PROVE  e \in h.forward[d] <=> h.pairs[e[3]] = <<d, e[1], e[2]>>
    <2>0. /\ e[3] \in Ids /\ <<d, e[1], e[2]>> # None
          /\ e \in g.forward[d] <=> g.pairs[e[3]] = <<d, e[1], e[2]>>
        BY KeyParts DEF Mirrored
    <2>1. e = there /\ d = k[1] <=> e[3] = p /\ k = <<d, e[1], e[2]>>
      <3>1. e = <<e[1], e[2], e[3]>> /\ k = <<k[1], k[2], k[3]>>
          BY KeyParts
      <3> QED
          BY <3>1 DEF there
    <2>2. e[3] = p => e \notin g.forward[d]
        BY <2>0
    <2>3. e \in h.forward[d] <=> e \in g.forward[d] \/ (d = k[1] /\ e = there)
        BY <1>4
    <2> QED
        BY <1>3, <2>0, <2>1, <2>2, <2>3
  <1>7. ASSUME NEW d \in Devices, NEW e \in EdgesTo
        PROVE  e \in h.reverse[d] <=> h.pairs[e[3]] = <<e[1], d, e[2]>>
    <2>0. /\ e[3] \in Ids /\ <<e[1], d, e[2]>> # None
          /\ e \in g.reverse[d] <=> g.pairs[e[3]] = <<e[1], d, e[2]>>
        BY KeyParts DEF Mirrored
    <2>1. e = back /\ d = k[2] <=> e[3] = p /\ k = <<e[1], d, e[2]>>
      <3>1. e = <<e[1], e[2], e[3]>> /\ k = <<k[1], k[2], k[3]>>
          BY KeyParts
      <3> QED
          BY <3>1 DEF back
    <2>2. e[3] = p => e \notin g.reverse[d]
        BY <2>0
    <2>3. e \in h.reverse[d] <=> e \in g.reverse[d] \/ (d = k[2] /\ e = back)
        BY <1>4
    <2> QED
        BY <1>3, <2>0, <2>1, <2>2, <2>3
  <1> QED
      BY <1>3, <1>5, <1>6, <1>7 DEF Mirrored, h

LEMMA RemoveEdgeKeeps ==
    ASSUME NEW g \in Graphs, Mirrored(g), NEW p \in Ids
    PROVE  /\ RemoveEdge(g, p) \in Graphs /\ Mirrored(RemoveEdge(g, p))
           /\ \A q \in Ids : RemoveEdge(g, p).pairs[q] = IF q = p THEN None ELSE g.pairs[q]
  <1>1. CASE g.pairs[p] = None
      BY <1>1 DEF RemoveEdge
  <1>2. CASE g.pairs[p] # None
    <2> DEFINE h == RemoveEdge(g, p)
               k == g.pairs[p]
    <2>0. /\ g.forward \in [Devices -> SUBSET EdgesTo] /\ g.reverse \in [Devices -> SUBSET EdgesTo]
          /\ g.pairs \in [Ids -> Keys \cup {None}] /\ k \in Keys
        BY <1>2 DEF Graphs
    <2>1. /\ h.forward = [g.forward EXCEPT ![k[1]] = Without(@, p)]
          /\ h.reverse = [g.reverse EXCEPT ![k[2]] = Without(@, p)]
          /\ h.pairs = [g.pairs EXCEPT ![p] = None]
          /\ h = [forward |-> h.forward, reverse |-> h.reverse, pairs |-> h.pairs]
        BY <1>2 DEF RemoveEdge
    <2>2. k[1] \in Devices /\ k[2] \in Devices
        BY <2>0, KeyParts
    <2> HIDE DEF h
    <2>3. \A q \in Ids : h.pairs[q] = IF q = p THEN None ELSE g.pairs[q]
        BY <2>0, <2>1
    <2>4. \A d \in Devices :
             /\ h.forward[d] = IF d = k[1] THEN Without(g.forward[d], p) ELSE g.forward[d]
             /\ h.reverse[d] = IF d = k[2] THEN Without(g.reverse[d], p) ELSE g.reverse[d]
        BY <2>0, <2>1, <2>2
    <2>5. h \in Graphs
      <3>1. /\ h.forward \in [Devices -> SUBSET EdgesTo]
            /\ h.reverse \in [Devices -> SUBSET EdgesTo]
            /\ h.pairs \in [Ids -> Keys \cup {None}]
          BY <2>0, <2>1, <2>2 DEF Without
      <3> QED
          BY <2>1, <3>1 DEF Graphs
    <2>6. \A S : \A e : e \in Without(S, p) <=> e \in S /\ e[3] # p
        BY DEF Without
    <2>7. ASSUME NEW d \in Devices, NEW e \in EdgesTo
          PROVE  e \in h.forward[d] <=> h.pairs[e[3]] = <<d, e[1], e[2]>>
      <3>0. /\ e[3] \in Ids /\ <<d, e[1], e[2]>> \in Keys /\ <<d, e[1], e[2]>> # None
            /\ <<d, e[1], e[2]>>[1] = d
            /\ e \in g.forward[d] <=> g.pairs[e[3]] = <<d, e[1], e[2]>>
          BY KeyParts DEF Mirrored
      <3>1. e[3] = p /\ e \in g.forward[d] => d = k[1]
          BY <3>0
      <3>2. e \in h.forward[d] <=> e \in g.forward[d] /\ e[3] # p
          BY <2>4, <2>6, <3>0, <3>1
      <3> QED
          BY <2>3, <3>0, <3>2
    <2>8. ASSUME NEW d \in Devices, NEW e \in EdgesTo
          PROVE  e \in h.reverse[d] <=> h.pairs[e[3]] = <<e[1], d, e[2]>>
      <3>0. /\ e[3] \in Ids /\ <<e[1], d, e[2]>> \in Keys /\ <<e[1], d, e[2]>> # None
            /\ <<e[1], d, e[2]>>[2] = d
            /\ e \in g.reverse[d] <=> g.pairs[e[3]] = <<e[1], d, e[2]>>
          BY KeyParts DEF Mirrored
      <3>1. e[3] = p /\ e \in g.reverse[d] => d = k[2]
          BY <3>0
      <3>2. e \in h.reverse[d] <=> e \in g.reverse[d] /\ e[3] # p
          BY <2>4, <2>6, <3>0, <3>1
      <3> QED
          BY <2>3, <3>0, <3>2
    <2> QED
        BY <2>3, <2>5, <2>7, <2>8 DEF Mirrored, h
  <1> QED
      BY <1>1, <1>2

RowType == [status : {"none", "active", "dissolved"}, key : Keys \cup {None}]

\* What row p says the graph holds.
Due(rows, p) == IF rows[p].status = "active" THEN rows[p].key ELSE None

LEMMA LoadGraphFollows ==
    ASSUME NEW rows \in [Ids -> RowType], NEW g, g = LoadGraph(rows)
    PROVE  g \in Graphs /\ Mirrored(g) /\ \A p \in Ids : g.pairs[p] = Due(rows, p)
  <1>1. /\ \A d \in Devices, e \in EdgesTo :
              e \in g.forward[d] <=> rows[e[3]].status = "active" /\ rows[e[3]].key = <<d, e[1], e[2]>>
        /\ \A d \in Devices, e \in EdgesTo :
              e \in g.reverse[d] <=> rows[e[3]].status = "active" /\ rows[e[3]].key = <<e[1], d, e[2]>>
        /\ \A p \in Ids : g.pairs[p] = Due(rows, p)
      BY DEF LoadGraph, Due
  <1>2. g \in Graphs
    <2>1. \A p \in Ids : Due(rows, p) \in Keys \cup {None}
        BY DEF Due, RowType
    <2>2. [p \in Ids |-> Due(rows, p)] \in [Ids -> Keys \cup {None}]
        BY <2>1
    <2> QED
        BY <2>2 DEF LoadGraph, Graphs, Due
  <1>3. \A d, c \in Devices, t \in Types : <<d, c, t>> # None
      BY KeyParts
  <1>4. \A e \in EdgesTo : e[1] \in Devices /\ e[2] \in Types /\ e[3] \in Ids
      BY KeyParts
  <1>5. ASSUME NEW d \in Devices, NEW e \in EdgesTo
        PROVE  /\ e \in g.forward[d] <=> g.pairs[e[3]] = <<d, e[1], e[2]>>
               /\ e \in g.reverse[d] <=> g.pairs[e[3]] = <<e[1], d, e[2]>>
    <2>1. /\ <<d, e[1], e[2]>> # None /\ <<e[1], d, e[2]>> # None
          /\ g.pairs[e[3]] = Due(rows, e[3])
        BY <1>1, <1>3, <1>4
    <2>2. CASE rows[e[3]].status = "active"
        BY <1>1, <2>1, <2>2 DEF Due
    <2>3. CASE rows[e[3]].status # "active"
        BY <1>1, <2>1, <2>3 DEF Due
    <2> QED
        BY <2>2, <2>3
  <1> QED
      BY <1>1, <1>2, <1>5 DEF Mirrored

LEMMA EmptyMirrors == Empty \in Graphs /\ Mirrored(Empty) /\ \A p \in Ids : Empty.pairs[p] = None
  BY KeyParts DEF Empty, Graphs, Mirrored

-----------------------------------------------------------------------------
(* Loops.  What a loop computes is a recursive function of its state, which is   *)
(* well defined when every pass lowers a rank: there are functions that unroll   *)
(* as far as any rank, they agree, and together they unroll everywhere.          *)

LEMMA LeastNumber ==
    ASSUME NEW T \in SUBSET Nat, T # {}
    PROVE  \E m \in T : \A k \in T : m <= k
  <1> DEFINE R == {ss \in Nat \X Nat : ss[1] < ss[2]}
  <1>1. IsWellFoundedOn(R, Nat)
    BY NatLessThanWellFounded DEF OpToRel
  <1>2. PICK m \in T : \A k \in T : ~(<<k, m>> \in R)
    <2> HIDE DEF R
    <2> QED BY <1>1, WFMin
  <1>3. ASSUME NEW k \in T PROVE m <= k
    <2>1. <<k, m>> \notin R
      BY <1>2
    <2> QED BY <2>1
  <1> QED BY <1>3

\* F is what the loop computes on D: Out where it is over, and otherwise what
\* the rest of it computes after a Step.
Unrolls(F, D, Over, Out, Step) ==
    F = [s \in D |-> IF s \in Over THEN Out[s] ELSE F[Step[s]]]

LEMMA LoopFunction ==
    ASSUME NEW S, NEW Over, NEW Out, NEW Step, NEW rank \in [S -> Nat],
           \A s \in S \ Over : Step[s] \in S /\ rank[Step[s]] < rank[s]
    PROVE  \E F : Unrolls(F, S, Over, Out, Step)
  <1> DEFINE Below(k) == {s \in S : rank[s] < k}
  <1> DEFINE Good(f, k) == Unrolls(f, Below(k), Over, Out, Step)
  <1>1. \A n \in Nat : \A s \in Below(n) \ Over :
            Step[s] \in Below(n) /\ \A m \in Nat : n = m + 1 => Step[s] \in Below(m)
    OBVIOUS
  <1>2. ASSUME NEW n \in Nat PROVE \E f : Good(f, n)
    <2> DEFINE T == {k \in Nat : ~ \E f : Good(f, k)}
    <2> SUFFICES ASSUME T # {} PROVE FALSE
      OBVIOUS
    <2>1. PICK m \in T : \A k \in T : m <= k
      <3> HIDE DEF T
      <3> QED BY LeastNumber DEF T
    <2>2. CASE m = 0
      <3>1. Below(m) = {}
        BY <2>2
      <3> DEFINE e == [s \in Below(m) |-> Out[s]]
      <3>2. e = [s \in Below(m) |-> IF s \in Over THEN Out[s] ELSE e[Step[s]]]
        <4>1. \A s \in Below(m) : Out[s] = IF s \in Over THEN Out[s] ELSE e[Step[s]]
          <5> HIDE DEF e
          <5> QED BY <3>1
        <4> HIDE DEF Below
        <4> QED BY <4>1
      <3>3. Good(e, m)
        <4> HIDE DEF e, Below
        <4> QED BY <3>2 DEF Unrolls
      <3> HIDE DEF e
      <3> QED BY <2>1, <3>3
    <2>3. CASE m # 0
      <3>1. m - 1 \in Nat /\ m - 1 \notin T /\ m = (m - 1) + 1
        <4>1. m \in Nat
          BY <2>1
        <4>2. m - 1 \in Nat /\ m = (m - 1) + 1 /\ ~(m <= m - 1)
          BY <2>3, <4>1
        <4> HIDE DEF T
        <4> QED BY <2>1, <4>2
      <3>2. PICK f : Good(f, m - 1)
        BY <3>1
      <3> DEFINE h == [s \in Below(m) |-> IF s \in Over THEN Out[s] ELSE f[Step[s]]]
      <3>3. ASSUME NEW s \in Below(m - 1) PROVE h[s] = f[s]
        <4>1. s \in Below(m)
          BY <3>1
        <4>2. f[s] = IF s \in Over THEN Out[s] ELSE f[Step[s]]
          <5> HIDE DEF Below
          <5> QED BY <3>2 DEF Unrolls
        <4> HIDE DEF Below
        <4> QED BY <4>1, <4>2
      <3>4. \A s \in Below(m) \ Over : Step[s] \in Below(m - 1)
        BY <1>1, <3>1
      <3>5. h = [s \in Below(m) |-> IF s \in Over THEN Out[s] ELSE h[Step[s]]]
        <4> HIDE DEF Below
        <4>1. \A s \in Below(m) : (IF s \in Over THEN Out[s] ELSE f[Step[s]])
                                  = (IF s \in Over THEN Out[s] ELSE h[Step[s]])
          <5> HIDE DEF h
          <5> QED BY <3>3, <3>4
        <4> QED BY <4>1
      <3>6. Good(h, m)
        <4> HIDE DEF h, Below
        <4> QED BY <3>5 DEF Unrolls
      <3> HIDE DEF h
      <3> QED BY <2>1, <3>6
    <2> QED BY <2>2, <2>3
  <1>3. ASSUME NEW n \in Nat, NEW m \in Nat, NEW f, NEW h, Good(f, n), Good(h, m),
               NEW s \in Below(n) \cap Below(m)
        PROVE  f[s] = h[s]
    <2> DEFINE Both == Below(n) \cap Below(m)
               T == {rank[x] : x \in {y \in Both : f[y] # h[y]}}
    <2> SUFFICES ASSUME T # {} PROVE FALSE
      <3>1. f[s] # h[s] => rank[s] \in T
        OBVIOUS
      <3> HIDE DEF T
      <3> QED BY <3>1
    <2>1. T \in SUBSET Nat
      OBVIOUS
    <2>2. PICK k \in T : \A j \in T : k <= j
      <3> HIDE DEF T
      <3> QED BY <2>1, LeastNumber
    <2>3. PICK x \in Both : f[x] # h[x] /\ k = rank[x]
      BY <2>2
    <2>4. /\ f[x] = IF x \in Over THEN Out[x] ELSE f[Step[x]]
          /\ h[x] = IF x \in Over THEN Out[x] ELSE h[Step[x]]
      <3>1. x \in Below(n) /\ x \in Below(m)
        OBVIOUS
      <3> HIDE DEF Below
      <3> QED BY <1>3, <3>1 DEF Unrolls
    <2>5. x \notin Over /\ f[Step[x]] # h[Step[x]]
      BY <2>3, <2>4
    <2>6. Step[x] \in Both /\ rank[Step[x]] < rank[x]
      BY <1>1, <2>5
    <2>7. rank[Step[x]] \in T
      BY <2>5, <2>6
    <2>8. rank[x] \in Nat /\ rank[Step[x]] \in Nat
      BY <2>6
    <2> HIDE DEF T
    <2> QED BY <2>2, <2>3, <2>6, <2>7
  <1> DEFINE G(k) == CHOOSE f : Good(f, k)
  <1> DEFINE F == [s \in S |-> G(rank[s] + 1)[s]]
  <1>4. \A n \in Nat : Good(G(n), n)
    BY <1>2, Zenon
  <1>5. ASSUME NEW s \in S PROVE F[s] = IF s \in Over THEN Out[s] ELSE F[Step[s]]
    <2> DEFINE n == rank[s] + 1
    <2>1. n \in Nat /\ s \in Below(n)
      OBVIOUS
    <2>2. Good(G(n), n)
      BY <1>4, <2>1
    <2>3. G(n)[s] = IF s \in Over THEN Out[s] ELSE G(n)[Step[s]]
      <3> HIDE DEF Below, G, n
      <3> QED BY <2>1, <2>2 DEF Unrolls
    <2>4. F[s] = G(n)[s]
      <3> HIDE DEF G
      <3> QED OBVIOUS
    <2>5. ASSUME s \notin Over PROVE G(n)[Step[s]] = F[Step[s]]
      <3> DEFINE m == rank[Step[s]] + 1
      <3>1. Step[s] \in S /\ m \in Nat /\ Step[s] \in Below(n) \cap Below(m)
        BY <2>1, <2>5, <1>1
      <3>2. Good(G(m), m)
        BY <1>4, <3>1
      <3>3. F[Step[s]] = G(m)[Step[s]]
        <4> HIDE DEF G
        <4> QED BY <3>1
      <3> HIDE DEF G, n, m, Good, Below, F
      <3> QED BY <1>3, <2>1, <2>2, <3>1, <3>2, <3>3
    <2> HIDE DEF F, G
    <2> QED BY <2>3, <2>4, <2>5
  <1>6. Unrolls(F, S, Over, Out, Step)
    <2>1. F = [s \in S |-> F[s]]
      <3> HIDE DEF G
      <3> QED OBVIOUS
    <2> HIDE DEF F
    <2> QED BY <1>5, <2>1 DEF Unrolls
  <1> HIDE DEF F
  <1> QED BY <1>6

LEMMA SetToSeqLists ==
    ASSUME NEW S, IsFiniteSet(S)
    PROVE  /\ SetToSeq(S) \in Seq(S) /\ Len(SetToSeq(S)) = Cardinality(S)
           /\ \A x \in S : \E i \in 1..Len(SetToSeq(S)) : SetToSeq(S)[i] = x
  <1> DEFINE n == Cardinality(S)
             q == SetToSeq(S)
  <1>1. n \in Nat /\ ExistsBijection(1..n, S)
      BY FS_CardinalityType
  <1>2. \E f \in [1..n -> S] : IsInjective(f)
      BY <1>1 DEF ExistsBijection, Bijection, Injection
  <1>3. q \in [1..n -> S] /\ IsInjective(q)
      BY <1>2 DEF SetToSeq
  <1> HIDE DEF q
  <1>4. IsFiniteSet(1..n) /\ Cardinality(1..n) = n
      BY <1>1, FS_Interval
  <1>5. q \in Surjection(1..n, S)
    <2>1. q \in Injection(1..n, S)
        BY <1>3 DEF Injection
    <2> HIDE DEF n
    <2> QED
        BY <1>4, <2>1, FS_Injection DEF n
  <1>6. q \in Seq(S) /\ Len(q) = n
      BY <1>1, <1>3
  <1> QED
      BY <1>5, <1>6 DEF q, Surjection

-----------------------------------------------------------------------------
(* The search.  Every device is visited once, and a pass that visits none        *)
(* shortens the line, to which a visit adds no more than there are devices.      *)

Waiting(s) == {s.line[i] : i \in 1..Len(s.line)}

\* The rank of the search, which every pass lowers.
Left(s) == Cardinality(Devices \ s.visited) * (Cardinality(Devices) + 1) + Len(s.line)

LEMMA NeighboursAre ==
    ASSUME NEW g \in Graphs, NEW d \in Devices
    PROVE  Neighbours(g, d) \in SUBSET Devices
  BY DEF Neighbours, Graphs, EdgesTo

LEMMA VisitSteps ==
    ASSUME NEW g \in Graphs, NEW s \in Searches, s.line # <<>>,
           NEW c, c = Head(s.line), NEW t, t = Visit(g, s)
    PROVE  /\ c \in Devices /\ t \in Searches
           /\ Left(s) \in Nat /\ Left(t) \in Nat /\ Left(t) < Left(s)
           /\ c \in Waiting(s) /\ t.visited = s.visited \cup {c}
           /\ Waiting(t) \cup t.visited = Waiting(s) \cup s.visited
                 \cup IF c \in s.visited THEN {} ELSE Neighbours(g, c)
  <1> DEFINE rest == Tail(s.line)
             fresh == Neighbours(g, c) \ (s.visited \cup {c})
             next == SetToSeq(fresh)
             N == Cardinality(Devices)
  <1>1. /\ s.visited \in SUBSET Devices /\ s.line \in Seq(Devices)
        /\ s = [visited |-> s.visited, line |-> s.line]
      BY DEF Searches
  <1>2. /\ c \in Devices /\ rest \in Seq(Devices) /\ Len(rest) = Len(s.line) - 1
        /\ \A i \in 1..Len(rest) : rest[i] = s.line[i + 1]
        /\ c = s.line[1] /\ Len(s.line) \in Nat \ {0} /\ Len(rest) \in Nat
      BY <1>1, HeadTailProperties, LenProperties, EmptySeq
  <1>3. [s EXCEPT !.line = Tail(@)] = [visited |-> s.visited, line |-> rest]
      BY <1>1
  <1> DEFINE Listed(q) == {q[i] : i \in 1..Len(q)}
  <1>4. Waiting(s) = {c} \cup Listed(rest)
    <2>1. ASSUME NEW i \in 1..Len(s.line) PROVE s.line[i] \in {c} \cup Listed(rest)
      <3>1. CASE i = 1
          BY <1>2, <3>1
      <3>2. CASE i # 1
        <4>1. i - 1 \in 1..Len(rest) /\ rest[i - 1] = s.line[i]
            BY <1>2, <3>2
        <4> QED
            BY <4>1
      <3> QED
          BY <3>1, <3>2
    <2>2. ASSUME NEW i \in 1..Len(rest) PROVE rest[i] \in Waiting(s)
      <3>1. i + 1 \in 1..Len(s.line) /\ rest[i] = s.line[i + 1]
          BY <1>2
      <3> QED
          BY <3>1 DEF Waiting
    <2>3. c \in Waiting(s)
        BY <1>2 DEF Waiting
    <2> QED
        BY <2>1, <2>2, <2>3 DEF Waiting
  <1>5. fresh \in SUBSET Devices /\ IsFiniteSet(fresh) /\ Cardinality(fresh) <= N
        /\ Cardinality(fresh) \in Nat /\ N \in Nat
      BY <1>2, NeighboursAre, GraphAssumption, FS_Subset, FS_CardinalityType
  <1>6. /\ next \in Seq(Devices) /\ Len(next) = Cardinality(fresh) /\ Listed(next) = fresh
    <2>1. next \in Seq(fresh) /\ Len(next) = Cardinality(fresh)
          /\ \A x \in fresh : \E i \in 1..Len(next) : next[i] = x
        BY <1>5, SetToSeqLists
    <2> HIDE DEF next
    <2>2. \A i \in 1..Len(next) : next[i] \in fresh
        BY <2>1, ElementOfSeq
    <2>3. next \in Seq(Devices)
        BY <1>5, <2>1, SeqMonotonic
    <2> HIDE DEF fresh
    <2> QED
        BY <2>1, <2>2, <2>3
  <1> HIDE DEF next
  <1> DEFINE K == Cardinality(Devices \ s.visited)
  <1>7. /\ K \in Nat /\ K * (N + 1) \in Nat /\ Left(s) = K * (N + 1) + Len(s.line)
        /\ Devices \ (s.visited \cup {c}) = (Devices \ s.visited) \ {c}
        /\ c \notin s.visited =>
              /\ K > 0 /\ (K - 1) * (N + 1) = K * (N + 1) - (N + 1) /\ (K - 1) * (N + 1) \in Nat
              /\ Cardinality((Devices \ s.visited) \ {c}) = K - 1
    <2>1. IsFiniteSet(Devices \ s.visited) /\ K \in Nat
        BY GraphAssumption, FS_Subset, FS_CardinalityType
    <2>2. Left(s) = K * (N + 1) + Len(s.line)
        BY DEF Left
    <2>3. c \notin s.visited => K > 0 /\ Cardinality((Devices \ s.visited) \ {c}) = K - 1
      <3>1. c \notin s.visited => c \in Devices \ s.visited
          BY <1>2
      <3>2. Cardinality((Devices \ s.visited) \ {c}) =
               IF c \in Devices \ s.visited THEN K - 1 ELSE K
          BY <2>1, FS_RemoveElement
      <3>3. IsFiniteSet((Devices \ s.visited) \ {c})
          BY <2>1, FS_RemoveElement
      <3>4. Cardinality((Devices \ s.visited) \ {c}) \in Nat
          BY <3>3, FS_CardinalityType
      <3> HIDE DEF K
      <3> QED
          BY <2>1, <3>1, <3>2, <3>4
    <2> HIDE DEF K, N
    <2>4. K * (N + 1) \in Nat
        BY <1>5, <2>1
    <2>5. K > 0 => (K - 1) * (N + 1) = K * (N + 1) - (N + 1) /\ (K - 1) * (N + 1) \in Nat
        BY <1>5, <2>1
    <2> QED
        BY <2>1, <2>2, <2>3, <2>4, <2>5
  <1>8. CASE c \in s.visited
    <2>1. t = [visited |-> s.visited, line |-> rest]
        BY <1>3, <1>8 DEF Visit
    <2>2. t \in Searches /\ Waiting(t) = Listed(rest) /\ t.visited = s.visited
        BY <1>1, <1>2, <2>1 DEF Searches, Waiting
    <2>3. Left(t) = K * (N + 1) + Len(rest)
        BY <2>1 DEF Left
    <2>4. Left(s) \in Nat /\ Left(t) \in Nat /\ Left(t) < Left(s)
      <3> HIDE DEF K, N, rest
      <3> QED
          BY <1>2, <1>7, <2>3
    <2> HIDE DEF Listed, rest
    <2> QED
        BY <1>2, <1>4, <1>8, <2>2, <2>4
  <1>9. CASE c \notin s.visited
    <2>1. t = [visited |-> s.visited \cup {c}, line |-> rest \o next]
        BY <1>9 DEF Visit, next, fresh
    <2> HIDE DEF rest
    <2>2. /\ rest \o next \in Seq(Devices) /\ Len(rest \o next) = Len(rest) + Len(next)
          /\ \A i \in 1..Len(rest) + Len(next) :
                (rest \o next)[i] = IF i <= Len(rest) THEN rest[i] ELSE next[i - Len(rest)]
      <3>1. rest \in Seq(Devices) /\ next \in Seq(Devices)
          BY <1>2, <1>6
      <3> QED
          BY <3>1, ConcatProperties
    <2>3. Listed(rest \o next) = Listed(rest) \cup Listed(next)
      <3>0. Len(rest) \in Nat /\ Len(next) \in Nat
          BY <1>2, <1>6, LenProperties
      <3>1. \A i \in 1..Len(rest) : i \in 1..Len(rest \o next) /\ (rest \o next)[i] = rest[i]
          BY <2>2, <3>0
      <3>2. \A i \in 1..Len(next) : /\ i + Len(rest) \in 1..Len(rest \o next)
                                    /\ (rest \o next)[i + Len(rest)] = next[i]
          BY <2>2, <3>0
      <3>3. \A i \in 1..Len(rest \o next) :
               \/ i \in 1..Len(rest) /\ (rest \o next)[i] = rest[i]
               \/ i - Len(rest) \in 1..Len(next) /\ (rest \o next)[i] = next[i - Len(rest)]
          BY <2>2, <3>0
      <3>4. Listed(rest) \subseteq Listed(rest \o next)
          BY <3>1
      <3>5. Listed(next) \subseteq Listed(rest \o next)
          BY <3>2
      <3>6. Listed(rest \o next) \subseteq Listed(rest) \cup Listed(next)
          BY <3>3
      <3> QED
          BY <3>4, <3>5, <3>6
    <2>4. t \in Searches /\ t.visited = s.visited \cup {c} /\ Waiting(t) = Listed(rest \o next)
        BY <1>1, <1>2, <2>1, <2>2 DEF Searches, Waiting
    <2>5. Left(t) = (K - 1) * (N + 1) + Len(rest) + Len(next)
      <3>1. Left(t) = Cardinality(Devices \ (s.visited \cup {c})) * (N + 1) + Len(rest \o next)
          BY <2>1 DEF Left
      <3>2. Len(rest) \in Nat /\ Len(next) \in Nat
          BY <1>2, <1>6, LenProperties
      <3> DEFINE M == Cardinality(Devices \ (s.visited \cup {c}))
      <3>3. M = K - 1 /\ (K - 1) * (N + 1) \in Nat
          BY <1>7, <1>9
      <3> HIDE DEF K, N, M
      <3>4. Left(t) = M * (N + 1) + Len(rest \o next)
          BY <3>1 DEF M
      <3> DEFINE B == (K - 1) * (N + 1)
      <3>5. Left(t) = B + Len(rest \o next) /\ B \in Nat
          BY <3>3, <3>4
      <3> HIDE DEF B
      <3>6. Left(t) = B + Len(rest) + Len(next)
          BY <2>2, <3>2, <3>5
      <3> QED
          BY <3>6 DEF B
    <2>6. Left(s) \in Nat /\ Left(t) \in Nat /\ Left(t) < Left(s)
      <3>1. Len(next) \in Nat /\ Len(next) <= N
          BY <1>5, <1>6
      <3> HIDE DEF K, N
      <3> DEFINE A == K * (N + 1)
                 B == (K - 1) * (N + 1)
      <3>2. A \in Nat /\ B \in Nat /\ B = A - (N + 1) /\ Left(s) = A + Len(s.line)
            /\ Left(t) = B + Len(rest) + Len(next)
          BY <1>7, <1>9, <2>5
      <3> HIDE DEF A, B
      <3> QED
          BY <1>2, <1>5, <3>1, <3>2
    <2>7. Listed(next) = Neighbours(g, c) \ (s.visited \cup {c})
        BY <1>6 DEF fresh
    <2> HIDE DEF Listed, fresh
    <2> QED
        BY <1>2, <1>4, <1>9, <2>3, <2>4, <2>6, <2>7
  <1> QED
      BY <1>8, <1>9

\* Search is the function that its definition asks for.
LEMMA SearchUnfolds ==
    ASSUME NEW g \in Graphs
    PROVE  \A s \in Searches :
              Search(g)[s] = IF s.line = <<>> THEN s.visited ELSE Search(g)[Visit(g, s)]
  <1> DEFINE Over == {s \in Searches : s.line = <<>>}
             Out == [s \in Searches |-> s.visited]
             Step == [s \in Searches |-> Visit(g, s)]
             rank == [s \in Searches |-> Left(s)]
             Visited[s \in Searches] ==
                 IF s.line = <<>> THEN s.visited ELSE Visited[Visit(g, s)]
  <1>1. ASSUME NEW s \in Searches PROVE Left(s) \in Nat
    <2>1. CASE s.line = <<>>
      <3>1. Cardinality(Devices \ s.visited) \in Nat /\ Cardinality(Devices) \in Nat
          BY GraphAssumption, FS_Subset, FS_CardinalityType
      <3>2. Len(s.line) = 0
          BY <2>1
      <3> DEFINE K == Cardinality(Devices \ s.visited)
                 N == Cardinality(Devices)
      <3>3. Left(s) = K * (N + 1) + 0
          BY <3>2 DEF Left
      <3> HIDE DEF K, N
      <3> QED
          BY <3>1, <3>3 DEF K, N
    <2>2. CASE s.line # <<>>
        BY <2>2, VisitSteps
    <2> QED
        BY <2>1, <2>2
  <1>2. rank \in [Searches -> Nat]
      BY <1>1
  <1>3. \A s \in Searches \ Over : Step[s] \in Searches /\ rank[Step[s]] < rank[s]
    <2> SUFFICES ASSUME NEW s \in Searches, s.line # <<>>
                 PROVE  Visit(g, s) \in Searches /\ Left(Visit(g, s)) < Left(s)
      OBVIOUS
    <2> QED
        BY VisitSteps
  <1>4. PICK F : Unrolls(F, Searches, Over, Out, Step)
    <2> HIDE DEF Over, Out, Step, rank
    <2> QED
        BY <1>2, <1>3, LoopFunction
  <1>5. F = [s \in Searches |-> IF s.line = <<>> THEN s.visited ELSE F[Visit(g, s)]]
      BY <1>4 DEF Unrolls
  <1>6. Visited = [s \in Searches |-> IF s.line = <<>> THEN s.visited ELSE Visited[Visit(g, s)]]
      BY <1>5
  <1>7. Search(g) = Visited
      BY DEF Search
  <1> HIDE DEF Visited
  <1> QED
      BY <1>6, <1>7

\* C holds what its devices are paired with.
Closed(g, C) == \A c \in C : Neighbours(g, c) \subseteq C

\* Those paired with a visited device were visited or wait in line.
Ready(g, s) == \A c \in s.visited : Neighbours(g, c) \subseteq s.visited \cup Waiting(s)

\* Induction over the search: of the states that go wrong, take one that is
\* nearest to its end.
LEMMA LeastLeft ==
    ASSUME NEW g \in Graphs, NEW Bad \in SUBSET Searches, Bad # {}
    PROVE  \E s \in Bad :
              /\ s.line # <<>> => Visit(g, s) \in Searches \ Bad
              /\ s.line = <<>> => Waiting(s) = {}
  <1> DEFINE T == {Left(s) : s \in Bad}
             D == {s \in Bad : s.line = <<>>}
  <1>1. CASE D # {}
    <2>1. PICK s \in Bad : s.line = <<>>
        BY <1>1
    <2>2. Waiting(s) = {}
        BY <2>1 DEF Waiting
    <2> QED
        BY <2>1, <2>2
  <1>2. CASE D = {}
    <2>1. \A s \in Bad : s.line # <<>>
        BY <1>2
    <2>2. \A s \in Bad : /\ Left(s) \in Nat /\ Left(Visit(g, s)) \in Nat
                         /\ Left(Visit(g, s)) < Left(s) /\ Visit(g, s) \in Searches
        BY <2>1, VisitSteps
    <2>3. T \in SUBSET Nat /\ T # {}
        BY <2>2
    <2>4. PICK m \in T : \A k \in T : m <= k
      <3> HIDE DEF T
      <3> QED
          BY <2>3, LeastNumber
    <2>5. PICK s \in Bad : Left(s) = m
        BY <2>4
    <2>6. \A r \in Bad : m <= Left(r)
        BY <2>4
    <2>7. Visit(g, s) \notin Bad
      <3>1. /\ Left(s) \in Nat /\ Left(Visit(g, s)) \in Nat
            /\ Left(Visit(g, s)) < Left(s)
          BY <2>2
      <3>2. ~(m <= Left(Visit(g, s)))
          BY <2>5, <3>1
      <3> QED
          BY <2>6, <3>2
    <2> QED
        BY <2>1, <2>2, <2>7
  <1> QED
      BY <1>1, <1>2

\* All that was visited or waits is found, with all it is connected with...
LEMMA SearchFinds ==
    ASSUME NEW g \in Graphs, NEW s \in Searches, Ready(g, s)
    PROVE  /\ s.visited \cup Waiting(s) \subseteq Search(g)[s]
           /\ Search(g)[s] \subseteq Devices
           /\ Closed(g, Search(g)[s])
  <1> DEFINE Found(r) == /\ r.visited \cup Waiting(r) \subseteq Search(g)[r]
                         /\ Search(g)[r] \subseteq Devices
                         /\ Closed(g, Search(g)[r])
             Bad == {r \in Searches : Ready(g, r) /\ ~Found(r)}
  <1> SUFFICES ASSUME Bad # {} PROVE FALSE
      OBVIOUS
  <1>1. PICK r \in Bad : /\ r.line # <<>> => Visit(g, r) \in Searches \ Bad
                         /\ r.line = <<>> => Waiting(r) = {}
    <2> HIDE DEF Found
    <2>1. Bad \in SUBSET Searches
        OBVIOUS
    <2> HIDE DEF Bad
    <2> QED
        BY <2>1, LeastLeft
  <1>2. r \in Searches /\ Ready(g, r) /\ ~Found(r) /\ r.visited \subseteq Devices
      BY DEF Searches
  <1>3. CASE r.line = <<>>
    <2>1. Search(g)[r] = r.visited
        BY <1>2, <1>3, SearchUnfolds
    <2>2. Waiting(r) = {}
        BY <1>1, <1>3
    <2> QED
        BY <1>2, <2>1, <2>2 DEF Closed, Ready
  <1>4. CASE r.line # <<>>
    <2> DEFINE t == Visit(g, r)
               c == Head(r.line)
    <2>1. Search(g)[r] = Search(g)[t]
        BY <1>2, <1>4, SearchUnfolds
    <2>2. /\ t \in Searches /\ c \in Waiting(r) /\ t.visited = r.visited \cup {c}
          /\ Waiting(t) \cup t.visited = Waiting(r) \cup r.visited
                \cup IF c \in r.visited THEN {} ELSE Neighbours(g, c)
      <3> HIDE DEF Bad
      <3> QED
          BY <1>2, <1>4, VisitSteps
    <2>3. t \notin Bad
        BY <1>1, <1>4
    <2> HIDE DEF t, c
    <2>4. Ready(g, t)
        BY <1>2, <2>2 DEF Ready
    <2>5. Found(t)
        BY <2>2, <2>3, <2>4
    <2> QED
        BY <1>2, <2>1, <2>2, <2>5
  <1> QED
      BY <1>3, <1>4

\* ...and nothing that a closed set with them leaves out.
LEMMA SearchFindsOnly ==
    ASSUME NEW g \in Graphs, NEW s \in Searches, NEW C, Closed(g, C),
           s.visited \cup Waiting(s) \subseteq C
    PROVE  Search(g)[s] \subseteq C
  <1> DEFINE In(r) == r.visited \cup Waiting(r) \subseteq C
             Bad == {r \in Searches : In(r) /\ ~(Search(g)[r] \subseteq C)}
  <1> SUFFICES ASSUME Bad # {} PROVE FALSE
      OBVIOUS
  <1>1. PICK r \in Bad : r.line # <<>> => Visit(g, r) \in Searches \ Bad
    <2>1. Bad \in SUBSET Searches
        OBVIOUS
    <2> HIDE DEF Bad
    <2> QED
        BY <2>1, LeastLeft
  <1>2. r \in Searches /\ In(r) /\ ~(Search(g)[r] \subseteq C)
      OBVIOUS
  <1>3. CASE r.line = <<>>
    <2>1. Search(g)[r] = r.visited
        BY <1>2, <1>3, SearchUnfolds
    <2> QED
        BY <1>2, <2>1
  <1>4. CASE r.line # <<>>
    <2> DEFINE t == Visit(g, r)
               c == Head(r.line)
    <2>1. Search(g)[r] = Search(g)[t]
        BY <1>2, <1>4, SearchUnfolds
    <2>2. /\ t \in Searches /\ c \in Waiting(r)
          /\ Waiting(t) \cup t.visited = Waiting(r) \cup r.visited
                \cup IF c \in r.visited THEN {} ELSE Neighbours(g, c)
      <3> HIDE DEF Bad
      <3> QED
          BY <1>2, <1>4, VisitSteps
    <2>3. t \notin Bad
        BY <1>1, <1>4
    <2> HIDE DEF t, c
    <2>4. In(t)
        BY <1>2, <2>2 DEF Closed
    <2>5. Search(g)[t] \subseteq C
        BY <2>2, <2>3, <2>4
    <2> QED
        BY <1>2, <2>1, <2>5
  <1> QED
      BY <1>3, <1>4

\* Every pair has both its devices in C or neither.
Whole(g, C) ==
    \A p \in Ids : g.pairs[p] # None => (g.pairs[p][1] \in C <=> g.pairs[p][2] \in C)

\* Where the indexes mirror the pairs, neighbours are those in a pair together.
LEMMA ClosedIsWhole ==
    ASSUME NEW g \in Graphs, Mirrored(g), NEW C \in SUBSET Devices
    PROVE  Closed(g, C) <=> Whole(g, C)
  <1>1. ASSUME NEW p \in Ids, g.pairs[p] # None
        PROVE  LET k == g.pairs[p] IN
                 /\ k[1] \in Devices /\ k[2] \in Devices
                 /\ k[2] \in Neighbours(g, k[1]) /\ k[1] \in Neighbours(g, k[2])
    <2> DEFINE k == g.pairs[p]
               there == <<k[2], k[3], p>>
               back == <<k[1], k[3], p>>
    <2>1. k \in Keys
        BY <1>1 DEF Graphs
    <2>2. /\ k[1] \in Devices /\ k[2] \in Devices /\ k[3] \in Types
          /\ k = <<k[1], k[2], k[3]>>
        BY <2>1, KeyParts
    <2> HIDE DEF k
    <2>3. /\ there \in EdgesTo /\ there[1] = k[2] /\ there[2] = k[3] /\ there[3] = p
          /\ back \in EdgesTo /\ back[1] = k[1] /\ back[2] = k[3] /\ back[3] = p
        BY <2>2 DEF EdgesTo
    <2>4. there \in g.forward[k[1]]
        BY <2>2, <2>3 DEF Mirrored, k
    <2>5. back \in g.reverse[k[2]]
        BY <2>2, <2>3 DEF Mirrored, k
    <2> HIDE DEF there, back
    <2> QED
        BY <2>2, <2>3, <2>4, <2>5 DEF Neighbours, k
  <1>2. ASSUME NEW d \in Devices, NEW c \in Neighbours(g, d)
        PROVE  \E p \in Ids : /\ g.pairs[p] # None
                              /\ \/ g.pairs[p][1] = d /\ g.pairs[p][2] = c
                                 \/ g.pairs[p][1] = c /\ g.pairs[p][2] = d
    <2>1. PICK e \in g.forward[d] \cup g.reverse[d] : c = e[1]
        BY DEF Neighbours
    <2>2. e \in EdgesTo
        BY DEF Graphs
    <2>3. /\ e[1] \in Devices /\ e[2] \in Types /\ e[3] \in Ids
          /\ <<d, e[1], e[2]>> # None /\ <<e[1], d, e[2]>> # None
        BY <2>2, KeyParts
    <2>4. g.pairs[e[3]] = <<d, e[1], e[2]>> \/ g.pairs[e[3]] = <<e[1], d, e[2]>>
        BY <2>2 DEF Mirrored
    <2>5. <<d, e[1], e[2]>>[1] = d /\ <<d, e[1], e[2]>>[2] = e[1]
          /\ <<e[1], d, e[2]>>[1] = e[1] /\ <<e[1], d, e[2]>>[2] = d
        OBVIOUS
    <2> QED
        BY <2>1, <2>3, <2>4, <2>5
  <1>3. Closed(g, C) => Whole(g, C)
      BY <1>1 DEF Closed, Whole
  <1>4. ASSUME Whole(g, C), NEW d \in C, NEW c \in Neighbours(g, d) PROVE c \in C
      BY <1>2, <1>4 DEF Whole
  <1> QED
      BY <1>3, <1>4 DEF Closed

\* dependency_graph.py:129-156: in every graph whose indexes mirror its pairs,
\* the search from a device ends, and finds the component of the device.
THEOREM SearchIsRight ==
    ASSUME NEW g \in Graphs, Mirrored(g), NEW d \in Devices
    PROVE  GetAllRelated(g, d) = Component(g, d) \ {d}
  <1> DEFINE s == [visited |-> {}, line |-> <<d>>]
             R == Search(g)[s]
  <1>1. s \in Searches /\ s.visited = {} /\ Waiting(s) = {d}
    <2>1. s.line \in Seq(Devices) /\ Len(s.line) = 1 /\ s.line[1] = d
        OBVIOUS
    <2>2. 1..1 = {1}
        OBVIOUS
    <2> QED
        BY <2>1, <2>2 DEF Searches, Waiting
  <1>2. GetAllRelated(g, d) = R \ {d}
      BY DEF GetAllRelated
  <1> HIDE DEF s
  <1>3. d \in R /\ R \in SUBSET Devices /\ Closed(g, R)
    <2>1. Ready(g, s)
        BY <1>1 DEF Ready
    <2> QED
        BY <1>1, <2>1, SearchFinds
  <1>4. \A C \in SUBSET Devices : d \in C /\ Closed(g, C) => R \subseteq C
      BY <1>1, SearchFindsOnly
  <1> HIDE DEF R
  <1>5. Component(g, d) = {c \in Devices : \A C \in SUBSET Devices :
                              d \in C /\ Closed(g, C) => c \in C}
    <2>1. \A C \in SUBSET Devices : Closed(g, C) <=> Whole(g, C)
        BY ClosedIsWhole
    <2> QED
        BY <2>1 DEF Component, Whole
  <1>6. Component(g, d) = R
      BY <1>3, <1>4, <1>5
  <1> QED
      BY <1>2, <1>6

-----------------------------------------------------------------------------
(* Pairs. *)

CallType == [pc : {"idle", "checked", "written"}, op : {"none", "create", "dissolve"},
             id : Ids \cup {None}, key : Keys \cup {None}]

Creating(q) == call[q].op = "create" /\ call[q].pc # "idle"
Dissolving(q) == call[q].op = "dissolve" /\ call[q].pc # "idle"
Written(q) == call[q].pc = "written"

PairTypes ==
    /\ graph \in Graphs
    /\ row \in [Ids -> RowType]
    /\ \A p \in Ids : row[p].status = "none" <=> row[p].key = None
    /\ call \in [Calls -> CallType]
    /\ torn \subseteq Ids
    /\ trouble \in 0..MaxTrouble

\* What a request knows of its pair.
CallInv ==
    \A q \in Calls :
        /\ Written(q) => Creating(q) \/ Dissolving(q)
        /\ Creating(q) => call[q].key \in Keys
        /\ Creating(q) /\ Written(q) =>
              /\ call[q].id \in Ids
              /\ row[call[q].id].status = "none"
              /\ graph.pairs[call[q].id] = call[q].key
        /\ Dissolving(q) => call[q].id \in Ids /\ row[call[q].id].status # "none"
        /\ Dissolving(q) /\ Written(q) => graph.pairs[call[q].id] = None

\* Requests that create have pairs of their own.
CreateInv ==
    \A q, r \in Calls :
        Creating(q) /\ Written(q) /\ Creating(r) /\ Written(r) /\ call[q].id = call[r].id => q = r

Follows ==
    \A p \in Ids :
        \/ p \in torn
        \/ \E q \in Calls : Written(q) /\ call[q].id = p
        \/ graph.pairs[p] = Due(row, p)

PairInv == PairTypes /\ Mirrored(graph) /\ CallInv /\ CreateInv /\ Follows

LEMMA PairInvInit == PairInit => PairInv
  <1> SUFFICES ASSUME PairInit PROVE PairInv
      OBVIOUS
  <1>1. /\ row \in [Ids -> RowType]
        /\ \A p \in Ids : row[p].status = "none" <=> row[p].key = None
      BY KeyParts DEF PairInit, RowType, NoRow
  <1>2. graph \in Graphs /\ Mirrored(graph) /\ \A p \in Ids : graph.pairs[p] = Due(row, p)
      BY <1>1, LoadGraphFollows DEF PairInit
  <1>3. Resting \in CallType /\ Resting.pc = "idle"
      BY DEF Resting, CallType
  <1>4. \A q \in Calls : call[q] = Resting
      BY DEF PairInit
  <1>5. PairTypes
      BY <1>1, <1>2, <1>3, PairingAssumption, SMT DEF PairInit, PairTypes
  <1> QED
      BY <1>2, <1>3, <1>4, <1>5
      DEF PairInv, CallInv, CreateInv, Follows, Creating, Dissolving, Written

\* What a change of trouble alone keeps.
LEMMA PairInvQuiet ==
    ASSUME PairInv, UNCHANGED <<graph, row, call, torn>>, trouble' \in 0..MaxTrouble
    PROVE  PairInv'
  BY DEF PairInv, PairTypes, Mirrored, CallInv, CreateInv, Follows, Creating, Dissolving,
         Written, Due

LEMMA PairInvNext == PairInv /\ [PairNext]_pairVars => PairInv'
  <1> SUFFICES ASSUME PairInv, [PairNext]_pairVars PROVE PairInv'
      OBVIOUS
  <1>0. /\ PairTypes /\ Mirrored(graph) /\ CallInv /\ CreateInv /\ Follows
        /\ graph.pairs \in [Ids -> Keys \cup {None}]
        /\ \A p \in Ids : row[p].key \in Keys \cup {None}
      BY DEF PairInv, PairTypes, Graphs, RowType
  <1>1. ASSUME NEW q \in Calls, NEW c \in CallType, Go(q, c)
        PROVE  /\ call' \in [Calls -> CallType]
               /\ call'[q] = c
               /\ \A r \in Calls : r # q => call'[r] = call[r]
      BY <1>0, <1>1 DEF PairTypes, Go
  <1>2. ASSUME NEW q \in Calls, NEW key \in Keys, CreateCheck(q, key) PROVE PairInv'
    <2> DEFINE c == [pc |-> "checked", op |-> "create", id |-> None, key |-> key]
    <2>1. /\ c \in CallType /\ c.pc = "checked" /\ c.op = "create" /\ c.key = key
          /\ Go(q, c) /\ call[q].pc = "idle"
          /\ UNCHANGED <<graph, row, torn, trouble>>
        BY <1>2 DEF CreateCheck, CallType, Idle
    <2> HIDE DEF c
    <2>2. /\ call' \in [Calls -> CallType] /\ call'[q] = c
          /\ \A r \in Calls : r # q => call'[r] = call[r]
        BY <1>1, <2>1
    <2> QED
        BY <1>0, <2>1, <2>2
        DEF PairInv, PairTypes, CallInv, CreateInv, Follows, Creating, Dissolving, Written
  <1>3. ASSUME NEW q \in Calls, CreateInsert(q) PROVE PairInv'
    <2>0. /\ call[q].pc = "checked" /\ call[q].op = "create" /\ call[q].key \in Keys
          /\ call[q] \in CallType /\ UNCHANGED <<row, torn, trouble>>
        BY <1>0, <1>3 DEF CreateInsert, At, CallInv, Creating, PairTypes
    <2>1. CASE Go(q, Resting) /\ UNCHANGED graph
      <3>1. Resting \in CallType /\ Resting.pc = "idle"
          BY DEF Resting, CallType
      <3>2. /\ call' \in [Calls -> CallType] /\ call'[q] = Resting
            /\ \A r \in Calls : r # q => call'[r] = call[r]
          BY <1>1, <2>1, <3>1
      <3> QED
          BY <1>0, <2>0, <2>1, <3>1, <3>2
          DEF PairInv, PairTypes, CallInv, CreateInv, Follows, Creating, Dissolving, Written
    <2>2. ASSUME NEW p \in Ids, Fresh(p), graph' = AddEdge(graph, p, call[q].key),
                 Go(q, [call[q] EXCEPT !.pc = "written", !.id = p])
          PROVE  PairInv'
      <3> DEFINE c == [call[q] EXCEPT !.pc = "written", !.id = p]
      <3>1. /\ c \in CallType /\ c.pc = "written" /\ c.op = "create" /\ c.id = p
            /\ c.key = call[q].key
          BY <2>0 DEF CallType
      <3>2. Go(q, c)
          BY <2>2
      <3> HIDE DEF c
      <3>3. /\ call' \in [Calls -> CallType] /\ call'[q] = c
            /\ \A r \in Calls : r # q => call'[r] = call[r]
          BY <1>1, <3>1, <3>2
      <3>4. /\ row[p].status = "none" /\ graph.pairs[p] = None
            /\ \A r \in Calls : call[r].id # p
          BY <2>2 DEF Fresh
      <3>5. /\ graph' \in Graphs /\ Mirrored(graph')
            /\ \A i \in Ids : graph'.pairs[i] = IF i = p THEN c.key ELSE graph.pairs[i]
          BY <1>0, <2>0, <2>2, <3>1, <3>4, AddEdgeKeeps DEF PairTypes
      <3>6. PairTypes'
          BY <1>0, <2>0, <3>3, <3>5 DEF PairTypes
      <3>7. CallInv'
          BY <1>0, <2>0, <3>1, <3>3, <3>4, <3>5 DEF CallInv, Creating, Dissolving, Written
      <3>8. CreateInv'
          BY <1>0, <3>1, <3>3, <3>4 DEF CreateInv, Creating, Written
      <3>9. Follows'
          BY <1>0, <2>0, <3>1, <3>3, <3>5 DEF Follows, Written, Due
      <3>10. Mirrored(graph)'
          BY <3>5 DEF Mirrored
      <3> QED
          BY <3>6, <3>7, <3>8, <3>9, <3>10 DEF PairInv
    <2> QED
        BY <1>3, <2>1, <2>2 DEF CreateInsert
  <1>4. ASSUME NEW q \in Calls, CreateCommit(q) PROVE PairInv'
    <2> DEFINE p == call[q].id
               new == [status |-> "active", key |-> call[q].key]
    <2>1. /\ Creating(q) /\ Written(q) /\ p \in Ids /\ call[q].key \in Keys
          /\ call[q].key # None /\ graph.pairs[p] = call[q].key
          /\ UNCHANGED <<graph, torn, trouble>>
        BY <1>0, <1>4, KeyParts DEF CreateCommit, At, CallInv, Creating, Written
    <2>2. /\ Resting \in CallType /\ Resting.pc = "idle" /\ Go(q, Resting)
        BY <1>4 DEF Resting, CallType, CreateCommit
    <2>3. /\ call' \in [Calls -> CallType] /\ call'[q] = Resting
          /\ \A r \in Calls : r # q => call'[r] = call[r]
        BY <1>1, <2>2
    <2>4. /\ new \in RowType /\ new.status = "active" /\ new.key = graph.pairs[p]
          /\ new.key # None
        BY <2>1 DEF RowType
    <2>5. row' = [row EXCEPT ![p] = new]
        BY <1>4 DEF CreateCommit
    <2> HIDE DEF p, new
    <2>6. /\ row' \in [Ids -> RowType]
          /\ row'[p] = new /\ \A i \in Ids : i # p => row'[i] = row[i]
        BY <1>0, <2>1, <2>4, <2>5 DEF PairTypes
    <2>7. PairTypes'
        BY <1>0, <2>1, <2>3, <2>4, <2>6 DEF PairTypes
    <2>8. \A r \in Calls : r # q /\ Creating(r) /\ Written(r) => call[r].id # p
        BY <1>0, <2>1 DEF CreateInv, p
    <2>9. CallInv'
        BY <1>0, <2>1, <2>2, <2>3, <2>4, <2>6, <2>8 DEF CallInv, Creating, Dissolving, Written
    <2>10. CreateInv'
        BY <1>0, <2>2, <2>3 DEF CreateInv, Creating, Written
    <2>11. Follows'
      <3> SUFFICES ASSUME NEW i \in Ids
                   PROVE  \/ i \in torn'
                          \/ \E r \in Calls : Written(r)' /\ call'[r].id = i
                          \/ graph'.pairs[i] = Due(row', i)
          BY DEF Follows, Written
      <3>1. CASE i = p
          BY <2>1, <2>4, <2>6, <3>1 DEF Due
      <3>2. CASE i # p
        <4>1. Due(row', i) = Due(row, i)
            BY <2>6, <3>2 DEF Due
        <4>2. \A r \in Calls : Written(r) /\ call[r].id = i =>
                                   Written(r)' /\ call'[r].id = i
            BY <2>3, <3>2 DEF Written, p
        <4> QED
            BY <1>0, <2>1, <4>1, <4>2 DEF Follows
      <3> QED
          BY <3>1, <3>2
    <2> QED
        BY <1>0, <2>1, <2>7, <2>9, <2>10, <2>11 DEF PairInv, Mirrored
  <1>5. ASSUME NEW q \in Calls, NEW p \in Ids, DissolveLoad(q, p) PROVE PairInv'
    <2> DEFINE c == [pc |-> "checked", op |-> "dissolve", id |-> p, key |-> None]
    <2>1. /\ c \in CallType /\ c.pc = "checked" /\ c.op = "dissolve" /\ c.id = p
          /\ Go(q, c) /\ call[q].pc = "idle" /\ row[p].status = "active"
          /\ UNCHANGED <<graph, row, torn, trouble>>
        BY <1>5 DEF DissolveLoad, CallType, Idle
    <2> HIDE DEF c
    <2>2. /\ call' \in [Calls -> CallType] /\ call'[q] = c
          /\ \A r \in Calls : r # q => call'[r] = call[r]
        BY <1>1, <2>1
    <2> QED
        BY <1>0, <2>1, <2>2
        DEF PairInv, PairTypes, Mirrored, CallInv, CreateInv, Follows, Creating, Dissolving,
            Written, Due
  <1>6. ASSUME NEW q \in Calls, DissolveUpdate(q) PROVE PairInv'
    <2> DEFINE p == call[q].id
               c == [call[q] EXCEPT !.pc = "written"]
    <2>0. /\ call[q] \in CallType /\ call[q].pc = "checked" /\ call[q].op = "dissolve"
          /\ p \in Ids /\ row[p].status # "none"
          /\ graph' = RemoveEdge(graph, p) /\ Go(q, c)
          /\ UNCHANGED <<row, torn, trouble>>
        BY <1>0, <1>6 DEF DissolveUpdate, At, CallInv, Dissolving, PairTypes
    <2>1. c \in CallType /\ c.pc = "written" /\ c.op = "dissolve" /\ c.id = p
        BY <2>0 DEF CallType
    <2> HIDE DEF c, p
    <2>2. /\ call' \in [Calls -> CallType] /\ call'[q] = c
          /\ \A r \in Calls : r # q => call'[r] = call[r]
        BY <1>1, <2>0, <2>1
    <2>3. /\ graph' \in Graphs /\ Mirrored(graph')
          /\ \A i \in Ids : graph'.pairs[i] = IF i = p THEN None ELSE graph.pairs[i]
        BY <1>0, <2>0, RemoveEdgeKeeps DEF PairTypes
    <2>4. PairTypes'
        BY <1>0, <2>0, <2>2, <2>3 DEF PairTypes
    <2>5. CallInv'
        BY <1>0, <2>0, <2>1, <2>2, <2>3 DEF CallInv, Creating, Dissolving, Written
    <2>6. CreateInv'
        BY <1>0, <2>1, <2>2 DEF CreateInv, Creating, Written
    <2>7. Follows'
        BY <1>0, <2>0, <2>1, <2>2, <2>3 DEF Follows, Written, Due
    <2> QED
        BY <2>3, <2>4, <2>5, <2>6, <2>7 DEF PairInv, Mirrored
  <1>7. ASSUME NEW q \in Calls, DissolveCommit(q) PROVE PairInv'
    <2> DEFINE p == call[q].id
    <2>1. /\ Dissolving(q) /\ Written(q) /\ p \in Ids /\ row[p].status # "none"
          /\ graph.pairs[p] = None
          /\ UNCHANGED <<graph, torn, trouble>>
        BY <1>0, <1>7 DEF DissolveCommit, At, CallInv, Dissolving, Written
    <2>2. /\ Resting \in CallType /\ Resting.pc = "idle" /\ Go(q, Resting)
        BY <1>7 DEF Resting, CallType, DissolveCommit
    <2>3. /\ call' \in [Calls -> CallType] /\ call'[q] = Resting
          /\ \A r \in Calls : r # q => call'[r] = call[r]
        BY <1>1, <2>2
    <2>4. row' = [row EXCEPT ![p].status = "dissolved"]
        BY <1>7 DEF DissolveCommit
    <2> HIDE DEF p
    <2>5. /\ row' \in [Ids -> RowType]
          /\ row'[p].status = "dissolved" /\ row'[p].key = row[p].key
          /\ \A i \in Ids : i # p => row'[i] = row[i]
      <3>1. row[p] \in RowType
          BY <1>0, <2>1 DEF PairTypes
      <3> QED
          BY <1>0, <2>1, <2>4, <3>1 DEF PairTypes, RowType
    <2>6. PairTypes'
        BY <1>0, <2>1, <2>3, <2>5 DEF PairTypes
    <2>7. CallInv'
        BY <1>0, <2>1, <2>2, <2>3, <2>5 DEF CallInv, Creating, Dissolving, Written
    <2>8. CreateInv'
        BY <1>0, <2>2, <2>3 DEF CreateInv, Creating, Written
    <2>9. Follows'
      <3> SUFFICES ASSUME NEW i \in Ids
                   PROVE  \/ i \in torn'
                          \/ \E r \in Calls : Written(r)' /\ call'[r].id = i
                          \/ graph'.pairs[i] = Due(row', i)
          BY DEF Follows, Written
      <3>1. CASE i = p
          BY <2>1, <2>5, <3>1 DEF Due
      <3>2. CASE i # p
        <4>1. Due(row', i) = Due(row, i)
            BY <2>5, <3>2 DEF Due
        <4>2. \A r \in Calls : Written(r) /\ call[r].id = i =>
                                   Written(r)' /\ call'[r].id = i
            BY <2>3, <3>2 DEF Written, p
        <4> QED
            BY <1>0, <2>1, <4>1, <4>2 DEF Follows
      <3> QED
          BY <3>1, <3>2
    <2> QED
        BY <1>0, <2>1, <2>6, <2>7, <2>8, <2>9 DEF PairInv, Mirrored
  <1>8. ASSUME NEW q \in Calls, Rollback(q) PROVE PairInv'
    <2>1. /\ Written(q) /\ call[q].id \in Ids
          /\ torn' = torn \cup {call[q].id}
          /\ trouble' \in 0..MaxTrouble /\ UNCHANGED <<graph, row>>
        BY <1>0, <1>8, PairingAssumption
        DEF Rollback, Err, CallInv, Creating, Dissolving, Written, PairTypes
    <2>2. /\ Resting \in CallType /\ Resting.pc = "idle" /\ Go(q, Resting)
        BY <1>8 DEF Resting, CallType, Rollback
    <2>3. /\ call' \in [Calls -> CallType] /\ call'[q] = Resting
          /\ \A r \in Calls : r # q => call'[r] = call[r]
        BY <1>1, <2>2
    <2>4. PairTypes'
        BY <1>0, <2>1, <2>3 DEF PairTypes
    <2>5. CallInv' /\ CreateInv'
        BY <1>0, <2>1, <2>2, <2>3
        DEF CallInv, CreateInv, Creating, Dissolving, Written
    <2>6. Follows'
        BY <1>0, <2>1, <2>2, <2>3 DEF Follows, Written, Due
    <2> QED
        BY <1>0, <2>1, <2>4, <2>5, <2>6 DEF PairInv, Mirrored
  <1>9. ASSUME PairRestart PROVE PairInv'
    <2>1. /\ trouble' \in 0..MaxTrouble /\ UNCHANGED row
        BY <1>0, <1>9, PairingAssumption DEF PairRestart, Err, PairTypes
    <2>2. Resting \in CallType /\ Resting.pc = "idle"
        BY DEF Resting, CallType
    <2>3. /\ call' \in [Calls -> CallType]
          /\ \A q \in Calls : call'[q].pc = "idle"
        BY <1>9, <2>2 DEF PairRestart
    <2>4. /\ graph' \in Graphs /\ Mirrored(graph') /\ torn' \subseteq Ids
          /\ \A p \in Ids : p \in torn' \/ graph'.pairs[p] = Due(row, p)
      <3>1. CASE graph' = LoadGraph(row) /\ torn' = {}
          BY <1>0, <3>1, LoadGraphFollows DEF PairTypes
      <3>2. CASE graph' = Empty /\ torn' = {p \in Ids : row[p].status = "active"}
          BY <3>2, EmptyMirrors DEF Due
      <3> QED
          BY <1>9, <3>1, <3>2 DEF PairRestart
    <2>5. PairTypes'
        BY <1>0, <2>1, <2>3, <2>4 DEF PairTypes
    <2>6. CallInv' /\ CreateInv' /\ Follows'
        BY <2>1, <2>3, <2>4
        DEF CallInv, CreateInv, Follows, Creating, Dissolving, Written, Due
    <2> QED
        BY <2>4, <2>5, <2>6 DEF PairInv, Mirrored
  <1>10. CASE UNCHANGED pairVars
      BY <1>0, <1>10, PairInvQuiet DEF pairVars, PairTypes
  <1> QED
      BY <1>2, <1>3, <1>4, <1>5, <1>6, <1>7, <1>8, <1>9, <1>10, PairingAssumption
      DEF PairNext, PairCall

LEMMA PairInvShows == PairInv => PairTypeOK /\ GraphFollowsRows
  BY DEF PairInv, PairTypes, PairTypeOK, RowType, CallType, Follows, GraphFollowsRows, Written,
         Due

\* The graph holds the active pairs and mirrors them, as long as requests come
\* to their ends (dependency_graph.py:22, pairing_manager.py).
THEOREM GraphFollows == PairSpec => [](PairTypeOK /\ GraphFollowsRows)
  <1>1. PairSpec => []PairInv
      BY PairInvInit, PairInvNext, PTL DEF PairSpec
  <1> QED
      BY <1>1, PairInvShows, PTL

\* dependency_graph.py:129: whatever requests, failures and restarts have made
\* of the graph, the search in it finds the devices that pairs connect.
THEOREM RelatedAreConnected == PairSpec => []RelatedIsComponent
  <1>1. PairSpec => []PairInv
      BY PairInvInit, PairInvNext, PTL DEF PairSpec
  <1>2. PairInv => RelatedIsComponent
      BY SearchIsRight DEF PairInv, PairTypes, RelatedIsComponent
  <1> QED
      BY <1>1, <1>2, PTL

-----------------------------------------------------------------------------
(* Sessions. *)

EventType == [type : {"connected", "disconnected"}, dev : Devices]
HandlerType == [pc : {"idle", "load", "store"}, type : {"none", "connected", "disconnected"},
                dev : Devices \cup {None}, read : SUBSET Sessions, was : [Sessions -> Loaded]]
OpType == [kind : OpKinds \cup {"none"}, session : Sessions \cup {None}, was : Loaded]

SessTypes ==
    /\ events \in Seq(EventType)
    /\ up \subseteq Devices
    /\ handler \in HandlerType
    /\ sess \in [Sessions -> Loaded]
    /\ op \in [Operators -> OpType]
    /\ meddled \subseteq Sessions
    /\ drops \in 0..MaxDrops

Busy(o) == op[o].kind # "none"

\* A transaction that has loaded a session which nobody meddled with is the
\* only one on it, and what it has loaded is still what is committed.
OpInv ==
    \A o \in Operators : Busy(o) =>
        /\ op[o].session \in Sessions /\ op[o].was.status # "none"
        /\ op[o].session \notin meddled =>
              /\ op[o].was = sess[op[o].session]
              /\ \A r \in Operators : Busy(r) /\ op[r].session = op[o].session => r = o

HandlerInv ==
    \A s \in Sessions \ meddled : Handled(s) =>
        /\ handler.was[s] = sess[s] /\ sess[s].status # "none"
        /\ \A o \in Operators : Busy(o) => op[o].session # s

SessInv == SessTypes /\ OpInv /\ HandlerInv /\ ActiveIsWhole

LEMMA NoSessionType == NoSession \in Loaded /\ NoSession.status = "none"
  BY DEF NoSession, Loaded, Status, Entry

LEMMA QuietType == Quiet \in HandlerType /\ Quiet.pc = "idle"
  BY NoSessionType DEF Quiet, HandlerType

LEMMA OpIdleType == OpIdle \in OpType /\ OpIdle.kind = "none"
  BY NoSessionType DEF OpIdle, OpType

\* What is stored: what was decided, where nobody else has stored.
LEMMA StoredIs ==
    ASSUME NEW now \in Loaded, NEW was \in Loaded, NEW new \in Loaded
    PROVE  /\ Stored(now, was, new) \in Loaded
           /\ was = now => /\ Stored(now, was, new).status = new.status
                           /\ \A d \in Devices : Stored(now, was, new).entry[d] = new.entry[d]
  <1> DEFINE t == Stored(now, was, new)
  <1>1. /\ t.status = IF new.status = was.status THEN now.status ELSE new.status
        /\ t.entry = [d \in Devices |-> IF new.entry[d] = was.entry[d] THEN now.entry[d]
                                        ELSE new.entry[d]]
        /\ t = [status |-> t.status, entry |-> t.entry]
      BY DEF Stored
  <1> HIDE DEF t
  <1>2. /\ now.status \in Status /\ new.status \in Status
        /\ now.entry \in [Devices -> Entry] /\ new.entry \in [Devices -> Entry]
      BY DEF Loaded
  <1>3. t.entry \in [Devices -> Entry] /\ t.status \in Status
      BY <1>1, <1>2
  <1>4. t \in Loaded
      BY <1>1, <1>3 DEF Loaded
  <1> QED
      BY <1>1, <1>4 DEF t

\* A handler's outcome is whole where the session was.
LEMMA OutcomeIsWhole ==
    ASSUME NEW was \in Loaded, NEW d, NEW M \in SUBSET Devices
    PROVE  /\ Paused(was, d) \in Loaded /\ Paused(was, d).status # "active"
           /\ Resumed(was, d, M) \in Loaded
           /\ /\ was.status = "active" => \A c \in M : was.entry[c] # "disconnected"
              /\ Resumed(was, d, M).status = "active"
              => \A c \in M : Resumed(was, d, M).entry[c] # "disconnected"
  <1>1. was.status \in Status /\ was.entry \in [Devices -> Entry]
      BY DEF Loaded
  <1>2. /\ [was.entry EXCEPT ![d] = "disconnected"] \in [Devices -> Entry]
        /\ [was.entry EXCEPT ![d] = "active"] \in [Devices -> Entry]
      BY <1>1 DEF Entry
  <1>3. /\ Paused(was, d) \in Loaded /\ Paused(was, d).status # "active"
      BY <1>1, <1>2 DEF Paused, Loaded, Status
  <1> DEFINE t == Resumed(was, d, M)
  <1>4. /\ t.entry = [was.entry EXCEPT ![d] = "active"]
        /\ t.status = IF /\ was.status = "paused"
                         /\ \A c \in M : t.entry[c] \in {"active", "ready", "completed"}
                      THEN "active" ELSE was.status
        /\ t = [status |-> t.status, entry |-> t.entry]
      BY DEF Resumed
  <1> HIDE DEF t
  <1>5. t \in Loaded
      BY <1>1, <1>2, <1>4 DEF Loaded, Status
  <1>6. ASSUME was.status = "active" => \A c \in M : was.entry[c] # "disconnected",
               t.status = "active", NEW c \in M
        PROVE  t.entry[c] # "disconnected"
    <2>1. t.entry[c] = "active" \/ t.entry[c] = was.entry[c]
        BY <1>1, <1>4
    <2>2. CASE was.status = "active"
        BY <1>6, <2>1, <2>2
    <2>3. CASE was.status # "active"
        BY <1>4, <1>6, <2>3
    <2> QED
        BY <2>2, <2>3
  <1> QED
      BY <1>3, <1>5, <1>6 DEF t

\* What a request decides is whole where the session was, or it is a pause or
\* holds a device back.
LEMMA RequestedIsWhole ==
    ASSUME NEW kind \in OpKinds, NEW was \in Loaded, NEW M \in SUBSET Devices,
           NEW new \in Requested(kind, was, M)
    PROVE  /\ new \in Loaded
           /\ /\ was.status = "active" => \A c \in M : was.entry[c] # "disconnected"
              /\ kind # "pause" /\ ~Holds(new, was)
              /\ new.status = "active"
              => \A c \in M : new.entry[c] # "disconnected"
  <1>1. was.status \in Status /\ was.entry \in [Devices -> Entry]
      BY DEF Loaded
  <1>2. CASE kind = "activate"
    <2>1. new = [status |-> "active",
                 entry |-> [d \in Devices |-> IF d \in M THEN "active" ELSE was.entry[d]]]
        BY <1>2 DEF Requested
    <2>2. /\ new.entry \in [Devices -> Entry] /\ \A c \in M : new.entry[c] = "active"
        BY <1>1, <2>1 DEF Entry
    <2> QED
        BY <2>1, <2>2 DEF Loaded, Status
  <1>3. CASE kind = "complete"
    <2>1. new = [status |-> "completed",
                 entry |-> [d \in Devices |-> IF was.entry[d] \in {"active", "ready"}
                                              THEN "completed" ELSE was.entry[d]]]
        BY <1>3 DEF Requested
    <2>2. new.entry \in [Devices -> Entry]
        BY <1>1, <2>1 DEF Entry
    <2> QED
        BY <2>1, <2>2 DEF Loaded, Status
  <1>4. CASE kind \in {"pause", "fail", "abort"}
    <2>1. \E st \in {"paused", "failed", "aborted"} :
              new = [was EXCEPT !.status = st] /\ (kind # "pause" => st # "active")
        BY <1>4 DEF Requested
    <2> QED
        BY <1>1, <2>1 DEF Loaded, Status
  <1>5. CASE kind = "entry"
    <2>1. PICK d \in M, e \in Reports : new = [was EXCEPT !.entry[d] = e]
        BY <1>5 DEF Requested
    <2>2. /\ new.status = was.status /\ new.entry = [was.entry EXCEPT ![d] = e]
          /\ new = [status |-> new.status, entry |-> new.entry]
        BY <1>1, <2>1 DEF Loaded
    <2>3. e \in Entry /\ new.entry \in [Devices -> Entry]
        BY <1>1, <2>2, OrchestrationAssumption
    <2>4. new \in Loaded
        BY <1>1, <2>2, <2>3 DEF Loaded
    <2>5. ~Holds(new, was) =>
              \A c \in Devices : new.entry[c] = was.entry[c] \/ new.entry[c] # "disconnected"
        BY DEF Holds
    <2> QED
        BY <2>2, <2>4, <2>5
  <1> QED
      BY <1>2, <1>3, <1>4, <1>5 DEF OpKinds

LEMMA SessInvInit == Init => SessInv
  <1> SUFFICES ASSUME Init PROVE SessInv
      OBVIOUS
  <1>1. /\ \A s \in Sessions : sess[s] = NoSession
        /\ \A o \in Operators : op[o] = OpIdle
        /\ handler = Quiet /\ events = <<>> /\ up = Devices /\ meddled = {} /\ drops = 0
        /\ sess = [s \in Sessions |-> NoSession] /\ op = [o \in Operators |-> OpIdle]
      BY DEF Init
  <1>2. SessTypes
      BY <1>1, NoSessionType, QuietType, OpIdleType, OrchestrationAssumption DEF SessTypes
  <1> QED
      BY <1>1, <1>2, NoSessionType, QuietType, OpIdleType
      DEF SessInv, OpInv, HandlerInv, ActiveIsWhole, Busy, Handled

LEMMA SessInvNext == SessInv /\ [Next]_vars => SessInv'
  <1> SUFFICES ASSUME SessInv, [Next]_vars PROVE SessInv'
      OBVIOUS
  <1>0. SessTypes /\ OpInv /\ HandlerInv /\ ActiveIsWhole
      BY DEF SessInv
  \* Steps that leave sessions and the transactions on them alone.
  <1>1. ASSUME UNCHANGED sessVars, up' \subseteq Devices, events' \in Seq(EventType),
               handler' \in HandlerType, drops' \in 0..MaxDrops,
               handler' = handler \/ handler'.pc # "store"
        PROVE  SessInv'
    <2>1. SessTypes'
        BY <1>0, <1>1 DEF SessTypes, sessVars
    <2>2. OpInv' /\ ActiveIsWhole'
        BY <1>0, <1>1 DEF OpInv, Busy, ActiveIsWhole, sessVars
    <2>3. HandlerInv'
        BY <1>0, <1>1 DEF HandlerInv, Handled, Busy, sessVars
    <2> QED
        BY <2>1, <2>2, <2>3 DEF SessInv
  <1>2. ASSUME NEW d \in Devices, Drop(d) \/ Connect(d) PROVE SessInv'
    <2>1. \A type \in {"connected", "disconnected"} :
             Tell(type, d) => events' \in Seq(EventType)
        BY <1>0 DEF SessTypes, Tell, EventType
    <2>2. drops' \in 0..MaxDrops
        BY <1>0, <1>2, OrchestrationAssumption DEF SessTypes, Drop, Connect
    <2> QED
        BY <1>0, <1>1, <1>2, <2>1, <2>2 DEF SessTypes, Drop, Connect
  <1>3. CASE Take
    <2>1. /\ Head(events) \in EventType /\ events' \in Seq(EventType)
          /\ UNCHANGED <<up, sessVars, drops>>
        BY <1>0, <1>3 DEF SessTypes, Take
    <2>2. Head(events).type \in {"connected", "disconnected"} /\ Head(events).dev \in Devices
        BY <2>1 DEF EventType
    <2> DEFINE h == [Quiet EXCEPT !.pc = "load", !.type = Head(events).type,
                                  !.dev = Head(events).dev]
    <2>3. h \in HandlerType /\ h.pc = "load"
        BY <2>2, QuietType DEF HandlerType
    <2>4. handler' = h \/ handler' = Quiet
        BY <1>3 DEF Take
    <2> QED
        BY <1>0, <1>1, <2>1, <2>3, <2>4, QuietType DEF SessTypes
  <1>4. CASE Load
    <2> DEFINE S == ActiveSessions(handler.dev)
               w == [s \in Sessions |-> IF s \in S THEN sess[s] ELSE NoSession]
    <2>1. /\ handler' = [handler EXCEPT !.pc = "store", !.read = S, !.was = w]
          /\ meddled' = meddled \cup {s \in S : Open(s)}
          /\ UNCHANGED <<up, events, sess, op, drops>>
        BY <1>4 DEF Load
    <2>2. /\ S \subseteq Sessions /\ \A s \in S : sess[s].status # "none"
          /\ w \in [Sessions -> Loaded] /\ \A s \in S : w[s] = sess[s]
        BY <1>0, NoSessionType DEF ActiveSessions, SessTypes
    <2> HIDE DEF S, w
    <2>3. handler' \in HandlerType /\ handler'.read = S /\ handler'.was = w
        BY <1>0, <2>1, <2>2 DEF SessTypes, HandlerType
    <2>4. SessTypes' /\ meddled \subseteq meddled'
        BY <1>0, <2>1, <2>2, <2>3 DEF SessTypes
    <2>5. OpInv' /\ ActiveIsWhole'
        BY <1>0, <2>1, <2>4 DEF OpInv, Busy, ActiveIsWhole
    <2>6. HandlerInv'
      <3> SUFFICES ASSUME NEW s \in Sessions, s \notin meddled', s \in S
                   PROVE  /\ handler'.was[s] = sess'[s] /\ sess'[s].status # "none"
                          /\ \A o \in Operators : Busy(o)' => op'[o].session # s
          BY <2>3 DEF HandlerInv, Handled, Busy
      <3>1. ~Open(s)
          BY <2>1
      <3> QED
          BY <2>1, <2>2, <2>3, <3>1 DEF Open
    <2> QED
        BY <2>4, <2>5, <2>6 DEF SessInv
  <1>5. CASE Store
    <2>1. /\ handler.pc = "store" /\ handler' = Quiet
          /\ UNCHANGED <<up, events, op, meddled, drops>>
          /\ \A s \in Sessions : sess'[s] = IF s \in handler.read
                                            THEN Stored(sess[s], handler.was[s], Outcome(s))
                                            ELSE sess[s]
          /\ sess' = [s \in Sessions |-> sess'[s]]
        BY <1>5 DEF Store
    <2>2. ASSUME NEW s \in Sessions
          PROVE  /\ handler.was[s] \in Loaded /\ sess[s] \in Loaded /\ Outcome(s) \in Loaded
                 /\ /\ handler.was[s].status = "active" =>
                          \A c \in Members[s] : handler.was[s].entry[c] # "disconnected"
                    /\ Outcome(s).status = "active"
                    => \A c \in Members[s] : Outcome(s).entry[c] # "disconnected"
      <3>1. handler.was[s] \in Loaded /\ sess[s] \in Loaded /\ Members[s] \in SUBSET Devices
          BY <1>0, OrchestrationAssumption DEF SessTypes, HandlerType
      <3> QED
          BY <3>1, OutcomeIsWhole DEF Outcome
    <2>3. \A s \in Sessions : sess'[s] \in Loaded
        BY <1>0, <2>1, <2>2, StoredIs DEF SessTypes
    <2>4. SessTypes'
        BY <1>0, <2>1, <2>3, QuietType DEF SessTypes
    <2>5. OpInv'
      <3> SUFFICES ASSUME NEW o \in Operators, Busy(o), op[o].session \notin meddled
                   PROVE  op[o].was = sess'[op[o].session]
          BY <1>0, <2>1 DEF OpInv, Busy
      <3>1. ~Handled(op[o].session)
          BY <1>0 DEF OpInv, HandlerInv
      <3> QED
          BY <1>0, <2>1, <3>1 DEF OpInv, Handled
    <2>6. HandlerInv'
        BY <2>1, QuietType DEF HandlerInv, Handled
    <2>7. ActiveIsWhole'
      <3> SUFFICES ASSUME NEW s \in Sessions, s \notin meddled, sess'[s].status = "active",
                          NEW c \in Members[s]
                   PROVE  sess'[s].entry[c] # "disconnected"
          BY <2>1 DEF ActiveIsWhole
      <3>1. CASE s \in handler.read
        <4>1. handler.was[s] = sess[s]
            BY <1>0, <2>1, <3>1 DEF HandlerInv, Handled
        <4>2. sess'[s] = Stored(sess[s], handler.was[s], Outcome(s))
            BY <2>1, <3>1
        <4>3. /\ sess'[s].status = Outcome(s).status
              /\ \A d \in Devices : sess'[s].entry[d] = Outcome(s).entry[d]
            BY <2>2, <4>1, <4>2, StoredIs
        <4>4. c \in Devices
            BY OrchestrationAssumption
        <4> QED
            BY <1>0, <2>2, <4>1, <4>3, <4>4 DEF ActiveIsWhole
      <3>2. CASE s \notin handler.read
          BY <1>0, <2>1, <3>2 DEF ActiveIsWhole
      <3> QED
          BY <3>1, <3>2
    <2> QED
        BY <2>4, <2>5, <2>6, <2>7 DEF SessInv
  <1>6. CASE StoreFails
    <2>1. /\ handler' = Quiet /\ meddled' = meddled \cup handler.read
          /\ UNCHANGED <<up, events, sess, op, drops>>
        BY <1>6 DEF StoreFails
    <2>2. SessTypes'
        BY <1>0, <2>1, QuietType DEF SessTypes, HandlerType
    <2>3. OpInv' /\ ActiveIsWhole'
        BY <1>0, <2>1 DEF OpInv, Busy, ActiveIsWhole
    <2>4. HandlerInv'
        BY <2>1, QuietType DEF HandlerInv, Handled
    <2> QED
        BY <2>2, <2>3, <2>4 DEF SessInv
  <1>7. ASSUME NEW s \in Sessions, CreateSession(s) PROVE SessInv'
    <2>1. /\ sess[s] \in Loaded /\ sess[s].status = "none"
          /\ sess' = [sess EXCEPT ![s].status = "pending"]
          /\ UNCHANGED <<up, events, handler, op, meddled, drops>>
        BY <1>0, <1>7 DEF CreateSession, SessTypes
    <2>2. /\ sess' \in [Sessions -> Loaded] /\ sess'[s].status = "pending"
          /\ \A r \in Sessions : r # s => sess'[r] = sess[r]
        BY <1>0, <2>1 DEF SessTypes, Loaded, Status
    <2>3. SessTypes'
        BY <1>0, <2>1, <2>2 DEF SessTypes
    <2>4. OpInv' /\ HandlerInv'
        BY <1>0, <2>1, <2>2 DEF OpInv, HandlerInv, Handled, Busy
    <2>5. ActiveIsWhole'
        BY <1>0, <2>1, <2>2 DEF ActiveIsWhole
    <2> QED
        BY <2>3, <2>4, <2>5 DEF SessInv
  <1>8. ASSUME NEW o \in Operators, NEW kind \in OpKinds, NEW s \in Sessions,
               LoadSession(o, kind, s)
        PROVE  SessInv'
    <2> DEFINE t == [kind |-> kind, session |-> s, was |-> sess[s]]
    <2>1. /\ ~Busy(o) /\ sess[s].status # "none" /\ sess[s] \in Loaded
          /\ op' = [op EXCEPT ![o] = t]
          /\ meddled' = IF Open(s) \/ Handled(s) THEN meddled \cup {s} ELSE meddled
          /\ UNCHANGED <<up, events, handler, sess, drops>>
        BY <1>0, <1>8 DEF LoadSession, Busy, SessTypes
    <2>2. /\ t \in OpType /\ t.kind # "none" /\ t.session = s /\ t.was = sess[s]
        BY <2>1 DEF OpType, OpKinds
    <2> HIDE DEF t
    <2>3. /\ op' \in [Operators -> OpType] /\ op'[o] = t
          /\ \A r \in Operators : r # o => op'[r] = op[r]
        BY <1>0, <2>1, <2>2 DEF SessTypes
    <2>4. /\ meddled \subseteq meddled' /\ meddled' \subseteq Sessions
          /\ s \notin meddled' => ~Open(s) /\ ~Handled(s)
        BY <1>0, <2>1 DEF SessTypes
    <2>5. SessTypes'
        BY <1>0, <2>1, <2>3, <2>4 DEF SessTypes
    <2>6. OpInv'
      <3> SUFFICES ASSUME NEW r \in Operators, Busy(r)'
                   PROVE  /\ op'[r].session \in Sessions /\ op'[r].was.status # "none"
                          /\ op'[r].session \notin meddled' =>
                                /\ op'[r].was = sess'[op'[r].session]
                                /\ \A x \in Operators :
                                      Busy(x)' /\ op'[x].session = op'[r].session => x = r
          BY DEF OpInv, Busy
      <3>1. CASE r = o
          BY <2>1, <2>2, <2>3, <2>4, <3>1 DEF Open, Busy
      <3>2. CASE r # o
        <4>1. Busy(r) /\ op'[r] = op[r] /\ op[r].session \in Sessions
            BY <1>0, <2>3, <3>2 DEF Busy, OpInv
        <4>2. op[r].session \notin meddled' => op[r].session # s
            BY <2>4 DEF Open
        <4> QED
            BY <1>0, <2>1, <2>2, <2>3, <2>4, <4>1, <4>2 DEF OpInv, Busy
      <3> QED
          BY <3>1, <3>2
    <2>7. HandlerInv'
        BY <1>0, <2>1, <2>2, <2>3, <2>4 DEF HandlerInv, Handled, Busy
    <2>8. ActiveIsWhole'
        BY <1>0, <2>1, <2>4 DEF ActiveIsWhole
    <2> QED
        BY <2>5, <2>6, <2>7, <2>8 DEF SessInv
  <1>9. ASSUME NEW o \in Operators, StoreSession(o) PROVE SessInv'
    <2> DEFINE s == op[o].session
               was == op[o].was
    <2>1. PICK new \in Requested(op[o].kind, was, Members[s]) :
             /\ sess' = [sess EXCEPT ![s] = Stored(@, was, new)]
             /\ meddled' = IF op[o].kind = "pause" \/ Holds(new, was)
                           THEN meddled \cup {s} ELSE meddled
        BY <1>9 DEF StoreSession
    <2>2. /\ Busy(o) /\ op[o] \in OpType /\ s \in Sessions
          /\ op[o].kind \in OpKinds /\ was \in Loaded /\ sess[s] \in Loaded
          /\ Members[s] \in SUBSET Devices
          /\ op' = [op EXCEPT ![o] = OpIdle] /\ UNCHANGED <<up, events, handler, drops>>
        BY <1>0, <1>9, OrchestrationAssumption
        DEF StoreSession, Busy, SessTypes, OpInv, OpType
    <2>3. /\ new \in Loaded
          /\ /\ was.status = "active" => \A c \in Members[s] : was.entry[c] # "disconnected"
             /\ op[o].kind # "pause" /\ ~Holds(new, was)
             /\ new.status = "active"
             => \A c \in Members[s] : new.entry[c] # "disconnected"
        BY <2>1, <2>2, RequestedIsWhole
    <2>4. /\ Stored(sess[s], was, new) \in Loaded
          /\ was = sess[s] =>
                /\ Stored(sess[s], was, new).status = new.status
                /\ \A d \in Devices : Stored(sess[s], was, new).entry[d] = new.entry[d]
        BY <2>2, <2>3, StoredIs
    <2>5. /\ sess' \in [Sessions -> Loaded] /\ sess'[s] = Stored(sess[s], was, new)
          /\ \A r \in Sessions : r # s => sess'[r] = sess[r]
        BY <1>0, <2>1, <2>2, <2>4 DEF SessTypes
    <2>6. /\ op' \in [Operators -> OpType] /\ op'[o].kind = "none"
          /\ \A r \in Operators : r # o => op'[r] = op[r]
        BY <1>0, <2>2, OpIdleType DEF SessTypes
    <2>7. /\ meddled \subseteq meddled' /\ meddled' \subseteq Sessions
          /\ s \notin meddled' => op[o].kind # "pause" /\ ~Holds(new, was)
        BY <1>0, <2>1, <2>2 DEF SessTypes
    <2>8. SessTypes'
        BY <1>0, <2>2, <2>5, <2>6, <2>7 DEF SessTypes
    <2>9. s \notin meddled => \A r \in Operators : Busy(r) /\ op[r].session = s => r = o
        BY <1>0, <2>2 DEF OpInv
    <2>10. OpInv'
      <3> SUFFICES ASSUME NEW r \in Operators, Busy(r)'
                   PROVE  /\ op'[r].session \in Sessions /\ op'[r].was.status # "none"
                          /\ op'[r].session \notin meddled' =>
                                /\ op'[r].was = sess'[op'[r].session]
                                /\ \A x \in Operators :
                                      Busy(x)' /\ op'[x].session = op'[r].session => x = r
          BY DEF OpInv, Busy
      <3>1. r # o /\ Busy(r) /\ op'[r] = op[r]
          BY <2>6 DEF Busy
      <3>2. op[r].session \notin meddled => op[r].session # s
          BY <2>9, <3>1
      <3>3. /\ op[r].session \in Sessions /\ op[r].was.status # "none"
            /\ op[r].session \notin meddled =>
                  /\ op[r].was = sess[op[r].session]
                  /\ \A x \in Operators : Busy(x) /\ op[x].session = op[r].session => x = r
          BY <1>0, <3>1 DEF OpInv
      <3>4. \A x \in Operators : Busy(x)' => x # o /\ Busy(x) /\ op'[x] = op[x]
          BY <2>6 DEF Busy
      <3> QED
          BY <2>5, <2>7, <3>1, <3>2, <3>3, <3>4
    <2>11. HandlerInv'
      <3> SUFFICES ASSUME NEW r \in Sessions, r \notin meddled', Handled(r)
                   PROVE  /\ handler.was[r] = sess'[r] /\ sess'[r].status # "none"
                          /\ \A x \in Operators : Busy(x)' => op'[x].session # r
          BY <2>2 DEF HandlerInv, Handled, Busy
      <3>1. r \notin meddled /\ r # s
          BY <1>0, <2>2, <2>7 DEF HandlerInv
      <3>2. \A x \in Operators : Busy(x)' => Busy(x) /\ op'[x] = op[x]
          BY <2>6 DEF Busy
      <3> QED
          BY <1>0, <2>5, <3>1, <3>2 DEF HandlerInv
    <2>12. ActiveIsWhole'
      <3> SUFFICES ASSUME NEW r \in Sessions, r \notin meddled', sess'[r].status = "active",
                          NEW c \in Members[r]
                   PROVE  sess'[r].entry[c] # "disconnected"
          BY DEF ActiveIsWhole
      <3>1. CASE r = s
        <4>1. was = sess[s] /\ s \notin meddled
            BY <1>0, <2>2, <2>7, <3>1 DEF OpInv
        <4>2. was.status = "active" => \A x \in Members[s] : was.entry[x] # "disconnected"
            BY <1>0, <2>2, <4>1 DEF ActiveIsWhole
        <4>3. c \in Devices
            BY OrchestrationAssumption
        <4>4. new.status = "active" /\ sess'[r].entry[c] = new.entry[c]
            BY <2>4, <2>5, <3>1, <4>1, <4>3
        <4> QED
            BY <2>3, <2>7, <3>1, <4>2, <4>4
      <3>2. CASE r # s
          BY <1>0, <2>5, <2>7, <3>2 DEF ActiveIsWhole
      <3> QED
          BY <3>1, <3>2
    <2> QED
        BY <2>8, <2>10, <2>11, <2>12 DEF SessInv
  <1>10. CASE Restart
    <2>1. /\ up' = {} /\ events' = <<>> /\ handler' = Quiet
          /\ op' = [o \in Operators |-> OpIdle] /\ UNCHANGED <<sess, meddled, drops>>
        BY <1>10 DEF Restart
    <2>2. \A o \in Operators : op'[o] = OpIdle
        BY <2>1
    <2>3. SessTypes'
        BY <1>0, <2>1, QuietType, OpIdleType DEF SessTypes
    <2>4. OpInv' /\ HandlerInv' /\ ActiveIsWhole'
        BY <1>0, <2>1, <2>2, QuietType, OpIdleType
        DEF OpInv, HandlerInv, ActiveIsWhole, Busy, Handled
    <2> QED
        BY <2>3, <2>4 DEF SessInv
  <1>11. CASE Pairs \/ UNCHANGED vars
      BY <1>0, <1>1, <1>11 DEF Pairs, vars, SessTypes, sessVars
  <1> QED
      BY <1>2, <1>3, <1>4, <1>5, <1>6, <1>7, <1>8, <1>9, <1>10, <1>11 DEF Next, Handlers

\* Every step of the sessions keeps what is known of pairs and their graph.
LEMMA PairsKept == PairInv /\ [Next]_vars => PairInv'
  <1> SUFFICES ASSUME PairInv, [Next]_vars PROVE PairInv'
      OBVIOUS
  <1>1. CASE Pairs \/ Restart
      BY <1>1, PairInvNext DEF Pairs, Restart, PairNext
  <1>2. CASE StoreFails
      BY <1>2, PairInvQuiet, PairingAssumption DEF StoreFails, Err, PairInv, PairTypes
  <1>3. CASE UNCHANGED pairVars
      BY <1>3, PairInvNext
  <1> QED
      BY <1>1, <1>2, <1>3
      DEF Next, Handlers, vars, Drop, Connect, Take, Load, Store, CreateSession, LoadSession,
          StoreSession

\* Every variable has its type.
THEOREM OrchTypes == Spec => []TypeOK
  <1>1. SessInv /\ PairInv => TypeOK
      BY PairInvShows
      DEF SessInv, SessTypes, TypeOK, OrchTypeOK, EventType, HandlerType, OpType
  <1>2. Init => PairInv
      BY PairInvInit DEF Init
  <1> QED
      BY <1>1, <1>2, SessInvInit, SessInvNext, PairsKept, PTL DEF Spec

\* A session whose device is gone does not go on, and one of several that were
\* gone does not resume it, unless a handler failed, transactions on it
\* overlapped or an operator set it so (session_orchestrator.py,
\* reconnect_orchestrator.py).
THEOREM SessionsStayWhole == Spec => []ActiveIsWhole
  <1>1. SessInv => ActiveIsWhole
      BY DEF SessInv
  <1> QED
      BY <1>1, SessInvInit, SessInvNext, PTL DEF Spec

\* The graph follows the rows while handlers read it, too.
THEOREM SessionsKeepGraph == Spec => []GraphFollowsRows
  <1>1. Init => PairInv
      BY PairInvInit DEF Init
  <1> QED
      BY <1>1, PairInvShows, PairsKept, PTL DEF Spec

\* So is the search right that the handlers' impact analysis relies on.
THEOREM SessionsFindRelated == Spec => []RelatedIsComponent
  <1>1. Init => PairInv
      BY PairInvInit DEF Init
  <1>2. PairInv => RelatedIsComponent
      BY SearchIsRight DEF PairInv, PairTypes, RelatedIsComponent
  <1> QED
      BY <1>1, <1>2, PairsKept, PTL DEF Spec
-----------------------------------------------------------------------------
(* Who is concerned by the loss of a device. *)

\* A pair has two devices: create_pair refuses others.
EndsDiffer(k) == k # None => k[1] # k[2]

TwoEnded ==
    /\ \A p \in Ids : EndsDiffer(graph.pairs[p]) /\ EndsDiffer(row[p].key)
    /\ \A q \in Calls : EndsDiffer(call[q].key)

LEMMA TwoEndedInit == PairInit => TwoEnded
  <1> SUFFICES ASSUME PairInit PROVE TwoEnded
      OBVIOUS
  <1>1. \A p \in Ids : EndsDiffer(row[p].key)
      BY DEF PairInit, NoRow, EndsDiffer
  <1>2. \A p \in Ids : graph.pairs[p] = Due(row, p)
      BY DEF PairInit, LoadGraph, Due
  <1> QED
      BY <1>1, <1>2 DEF TwoEnded, EndsDiffer, Due, PairInit, Resting

LEMMA TwoEndedNext == PairInv /\ TwoEnded /\ [PairNext]_pairVars => TwoEnded'
  <1> SUFFICES ASSUME PairInv, TwoEnded, [PairNext]_pairVars PROVE TwoEnded'
      OBVIOUS
  <1>0. /\ PairTypes /\ Mirrored(graph) /\ CallInv
        /\ call \in [Calls -> CallType] /\ row \in [Ids -> RowType] /\ graph \in Graphs
        /\ EndsDiffer(Resting.key)
      BY DEF PairInv, PairTypes, EndsDiffer, Resting
  <1> USE DEF TwoEnded
  <1>1. ASSUME NEW q \in Calls, NEW c, EndsDiffer(c.key), Go(q, c), UNCHANGED <<graph, row>>
        PROVE  TwoEnded'
    <2>1. \A r \in Calls : call'[r] = c \/ call'[r] = call[r]
        BY <1>0, <1>1 DEF Go
    <2> QED
        BY <1>1, <2>1
  <1>2. ASSUME NEW q \in Calls, NEW key \in Asked, CreateCheck(q, key) PROVE TwoEnded'
    <2> DEFINE c == [pc |-> "checked", op |-> "create", id |-> None, key |-> key]
    <2>1. EndsDiffer(c.key) /\ Go(q, c) /\ UNCHANGED <<graph, row>>
        BY <1>2 DEF CreateCheck, EndsDiffer
    <2> HIDE DEF c
    <2> QED
        BY <1>1, <2>1
  <1>3. ASSUME NEW q \in Calls, CreateInsert(q) PROVE TwoEnded'
    <2>1. CASE Go(q, Resting) /\ UNCHANGED graph
        BY <1>0, <1>1, <1>3, <2>1 DEF CreateInsert
    <2>2. ASSUME NEW p \in Ids, Fresh(p), graph' = AddEdge(graph, p, call[q].key),
                 Go(q, [call[q] EXCEPT !.pc = "written", !.id = p])
          PROVE  TwoEnded'
      <3> DEFINE c == [call[q] EXCEPT !.pc = "written", !.id = p]
      <3>1. c.key = call[q].key
          BY <1>0 DEF CallType
      <3>2. Go(q, c)
          BY <2>2
      <3> HIDE DEF c
      <3>3. \A r \in Calls : call'[r] = c \/ call'[r] = call[r]
          BY <1>0, <3>2 DEF Go
      <3>4. call[q].key \in Keys /\ graph.pairs[p] = None /\ UNCHANGED row
          BY <1>0, <1>3, <2>2 DEF CreateInsert, At, CallInv, Creating, Fresh
      <3>5. \A i \in Ids : graph'.pairs[i] = IF i = p THEN call[q].key ELSE graph.pairs[i]
          BY <1>0, <2>2, <3>4, AddEdgeKeeps
      <3> QED
          BY <3>1, <3>3, <3>4, <3>5
    <2> QED
        BY <1>3, <2>1, <2>2 DEF CreateInsert
  <1>4. ASSUME NEW q \in Calls, CreateCommit(q) PROVE TwoEnded'
    <2> DEFINE new == [status |-> "active", key |-> call[q].key]
    <2>1. /\ row' = [row EXCEPT ![call[q].id] = new] /\ new.key = call[q].key
          /\ Go(q, Resting) /\ UNCHANGED graph
        BY <1>4 DEF CreateCommit
    <2> HIDE DEF new
    <2>2. /\ \A p \in Ids : row'[p] = new \/ row'[p] = row[p]
          /\ \A r \in Calls : call'[r] = Resting \/ call'[r] = call[r]
        BY <1>0, <2>1 DEF Go
    <2> QED
        BY <1>0, <2>1, <2>2
  <1>5. ASSUME NEW q \in Calls, NEW p \in Ids, DissolveLoad(q, p) PROVE TwoEnded'
    <2> DEFINE c == [pc |-> "checked", op |-> "dissolve", id |-> p, key |-> None]
    <2>1. EndsDiffer(c.key) /\ Go(q, c) /\ UNCHANGED <<graph, row>>
        BY <1>5 DEF DissolveLoad, EndsDiffer
    <2> HIDE DEF c
    <2> QED
        BY <1>1, <2>1
  <1>6. ASSUME NEW q \in Calls, DissolveUpdate(q) PROVE TwoEnded'
    <2> DEFINE c == [call[q] EXCEPT !.pc = "written"]
               p == call[q].id
    <2>1. c.key = call[q].key
        BY <1>0 DEF CallType
    <2>2. p \in Ids /\ graph' = RemoveEdge(graph, p) /\ Go(q, c) /\ UNCHANGED row
        BY <1>0, <1>6 DEF DissolveUpdate, At, CallInv, Dissolving
    <2> HIDE DEF c, p
    <2>3. \A r \in Calls : call'[r] = c \/ call'[r] = call[r]
        BY <1>0, <2>2 DEF Go
    <2>4. \A i \in Ids : graph'.pairs[i] = IF i = p THEN None ELSE graph.pairs[i]
        BY <1>0, <2>2, RemoveEdgeKeeps
    <2> QED
        BY <2>1, <2>2, <2>3, <2>4 DEF EndsDiffer
  <1>7. ASSUME NEW q \in Calls, DissolveCommit(q) PROVE TwoEnded'
    <2>1. \A p \in Ids : row'[p].key = row[p].key
      <3>1. row' = [row EXCEPT ![call[q].id].status = "dissolved"]
          BY <1>7 DEF DissolveCommit
      <3> QED
          BY <1>0, <3>1 DEF RowType
    <2>2. \A r \in Calls : call'[r] = Resting \/ call'[r] = call[r]
        BY <1>0, <1>7 DEF DissolveCommit, Go
    <2> QED
        BY <1>0, <1>7, <2>1, <2>2 DEF DissolveCommit
  <1>8. ASSUME NEW q \in Calls, Rollback(q) PROVE TwoEnded'
      BY <1>0, <1>1, <1>8 DEF Rollback
  <1>9. CASE PairRestart
    <2>1. /\ UNCHANGED row /\ \A q \in Calls : call'[q] = Resting
          /\ graph' = LoadGraph(row) \/ graph' = Empty
        BY <1>9 DEF PairRestart
    <2>2. \A p \in Ids : graph'.pairs[p] = Due(row, p) \/ graph'.pairs[p] = None
        BY <2>1 DEF LoadGraph, Empty, Due
    <2> QED
        BY <1>0, <2>1, <2>2 DEF EndsDiffer, Due
  <1>10. CASE UNCHANGED pairVars
      BY <1>10 DEF pairVars
  <1> QED
      BY <1>2, <1>3, <1>4, <1>5, <1>6, <1>7, <1>8, <1>9, <1>10 DEF PairNext, PairCall

\* A device has a finite number of edges, one at most for each pair.
LEMMA FiniteEdges ==
    ASSUME NEW g \in Graphs, Mirrored(g), NEW d \in Devices
    PROVE  IsFiniteSet(Dependents(g, d))
  <1> DEFINE P == {p \in Ids : g.pairs[p] # None /\ g.pairs[p][1] = d}
             edge == [p \in P |-> <<g.pairs[p][2], g.pairs[p][3], p>>]
             E == g.forward[d]
  <1>1. ASSUME NEW p \in P PROVE edge[p] \in E
    <2>1. g.pairs[p] \in Keys /\ g.pairs[p][1] = d /\ p \in Ids
        BY DEF Graphs
    <2> DEFINE k == g.pairs[p]
    <2>2. k[2] \in Devices /\ k[3] \in Types /\ k = <<d, k[2], k[3]>>
        BY <2>1, KeyParts
    <2> HIDE DEF k
    <2> DEFINE e == <<k[2], k[3], p>>
    <2>3. e \in EdgesTo /\ e[1] = k[2] /\ e[2] = k[3] /\ e[3] = p
        BY <2>1, <2>2 DEF EdgesTo
    <2>4. e \in E
        BY <2>2, <2>3 DEF Mirrored, k
    <2> QED
        BY <2>4 DEF k
  <1>2. ASSUME NEW e \in E PROVE \E p \in P : edge[p] = e
    <2>1. e \in EdgesTo
        BY DEF Graphs
    <2>2. /\ e[3] \in Ids /\ e = <<e[1], e[2], e[3]>> /\ <<d, e[1], e[2]>> # None
          /\ g.pairs[e[3]] = <<d, e[1], e[2]>>
        BY <2>1, KeyParts DEF Mirrored
    <2>3. e[3] \in P
        BY <2>2
    <2>4. edge[e[3]] = e
        BY <2>2, <2>3
    <2> QED
        BY <2>3, <2>4
  <1>3. edge \in Surjection(P, E)
    <2> HIDE DEF P, E
    <2>1. edge \in [P -> E]
        BY <1>1
    <2> HIDE DEF edge
    <2> QED
        BY <1>2, <2>1 DEF Surjection
  <1>4. IsFiniteSet(P)
      BY GraphAssumption, FS_Subset
  <1> HIDE DEF P, E, edge
  <1> QED
      BY <1>3, <1>4, FS_Surjection DEF E, Dependents

\* A pair's device has a partner: somebody depends on it, or it is related.
LEMMA PairedHasPartner ==
    ASSUME NEW g \in Graphs, Mirrored(g), NEW d \in Devices,
           \A p \in Ids : EndsDiffer(g.pairs[p])
    PROVE  PairsOf(g, d) # {} <=> GetAllRelated(g, d) # {}
  <1>0. GetAllRelated(g, d) = Component(g, d) \ {d}
      BY SearchIsRight
  <1>1. ASSUME PairsOf(g, d) = {} PROVE GetAllRelated(g, d) = {}
    <2>1. Whole(g, {d})
        BY <1>1 DEF Whole, PairsOf
    <2>2. Component(g, d) \subseteq {d}
        BY <2>1 DEF Component, Whole
    <2> QED
        BY <1>0, <2>2
  <1>2. ASSUME NEW p \in PairsOf(g, d) PROVE GetAllRelated(g, d) # {}
    <2> DEFINE k == g.pairs[p]
    <2>1. /\ p \in Ids /\ k # None /\ k \in Keys /\ k[1] # k[2] /\ d \in {k[1], k[2]}
        BY DEF PairsOf, Graphs, EndsDiffer
    <2>2. k[1] \in Devices /\ k[2] \in Devices
        BY <2>1, KeyParts
    <2>3. k[1] \in Component(g, d) /\ k[2] \in Component(g, d)
        BY <2>1, <2>2 DEF Component
    <2> QED
        BY <1>0, <2>1, <2>3
  <1> QED
      BY <1>1, <1>2

LEMMA SeverityIsRight ==
    ASSUME NEW g \in Graphs, Mirrored(g), NEW d \in Devices,
           \A p \in Ids : EndsDiffer(g.pairs[p])
    PROVE  Severity(g, d) # "none" <=> PairsOf(g, d) # {}
  <1> DEFINE n == Cardinality(Dependents(g, d))
             related == GetAllRelated(g, d) # {}
  <1>1. n \in Nat
      BY FiniteEdges, FS_CardinalityType
  <1>2. n # 0 => PairsOf(g, d) # {}
    <2> SUFFICES ASSUME n # 0 PROVE PairsOf(g, d) # {}
        OBVIOUS
    <2>1. PICK e : e \in Dependents(g, d)
        BY FS_EmptySet
    <2>2. e \in EdgesTo /\ e \in g.forward[d]
        BY <2>1 DEF Dependents, Graphs
    <2>3. /\ e[3] \in Ids /\ <<d, e[1], e[2]>> # None
          /\ g.pairs[e[3]] = <<d, e[1], e[2]>>
        BY <2>2, KeyParts DEF Mirrored
    <2>4. <<d, e[1], e[2]>>[1] = d
        OBVIOUS
    <2>5. e[3] \in PairsOf(g, d)
        BY <2>3, <2>4, Zenon DEF PairsOf
    <2> QED
        BY <2>5
  <1>3. related <=> PairsOf(g, d) # {}
      BY PairedHasPartner
  <1>4. Severity(g, d) = CASE n >= 3 -> "critical"
                           [] n \in {1, 2} -> "high"
                           [] n = 0 /\ related -> "medium"
                           [] OTHER -> "none"
      BY DEF Severity
  <1> HIDE DEF n, related
  <1>5. CASE n >= 3
      BY <1>1, <1>2, <1>4, <1>5
  <1>6. CASE n \in {1, 2}
      BY <1>1, <1>2, <1>4, <1>6
  <1>7. CASE n = 0
      BY <1>3, <1>4, <1>7
  <1> QED
      BY <1>1, <1>5, <1>6, <1>7

\* reconnect_orchestrator.py:85: a disconnect of severity "none" is passed over.
\* That is done for exactly those devices that no pair in the graph has, whatever
\* requests, errors and restarts have made of it.
THEOREM PairedAreConcerned ==
    Spec => [](\A d \in Devices : Concerns([type |-> "disconnected", dev |-> d])
                                  <=> PairsOf(graph, d) # {})
  <1> DEFINE I == PairInv /\ TwoEnded
             Right == \A d \in Devices : Concerns([type |-> "disconnected", dev |-> d])
                                         <=> PairsOf(graph, d) # {}
  <1>1. Init => I
      BY PairInvInit, TwoEndedInit DEF Init
  <1>2. I /\ [Next]_vars => I'
    <2> SUFFICES ASSUME PairInv, TwoEnded, [Next]_vars PROVE I'
        OBVIOUS
    <2>1. TwoEnded'
      <3>1. CASE Pairs \/ Restart
          BY <3>1, TwoEndedNext DEF Pairs, Restart, PairNext
      <3>2. CASE StoreFails \/ UNCHANGED pairVars
          BY <3>2 DEF StoreFails, pairVars, TwoEnded
      <3> QED
          BY <3>1, <3>2
          DEF Next, Handlers, vars, Drop, Connect, Take, Load, Store, CreateSession,
              LoadSession, StoreSession
    <2> QED
        BY <2>1, PairsKept
  <1>3. I => Right
      BY SeverityIsRight DEF PairInv, PairTypes, TwoEnded, Concerns
  <1> HIDE DEF I, Right
  <1>4. Spec => []Right
      BY <1>1, <1>2, <1>3, PTL DEF Spec
  <1> QED
      BY <1>4 DEF Right
================================================================================

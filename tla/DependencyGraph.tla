---------------------------- MODULE DependencyGraph ----------------------------
(***************************************************************************)
(* The in-memory graph of device pairs (orchestration/dependency_graph.py) *)
(* as operators on its value.  An edge is a pair row: a key, that is a     *)
(* source, a target and a relationship type, under the row's id.           *)
(*                                                                         *)
(* The lists of edges are sets here: an id is in a list at most once, and  *)
(* their order only is that of the sends.  A key without edges, which the  *)
(* code deletes from its dictionary, maps to the empty set.                *)
(***************************************************************************)
EXTENDS Integers, Sequences, FiniteSets, SequencesExt

CONSTANTS
    Devices,
    Types,  \* relationship types
    Ids,    \* pair_ids
    None

ASSUME GraphAssumption ==
    /\ None \notin Devices \X Devices \X Types
    /\ IsFiniteSet(Devices) /\ IsFiniteSet(Ids)

Keys == Devices \X Devices \X Types
EdgesTo == Devices \X Types \X Ids   \* the other end, the type, the pair

Graphs == [forward : [Devices -> SUBSET EdgesTo],
           reverse : [Devices -> SUBSET EdgesTo],
           pairs : [Ids -> Keys \cup {None}]]

Empty == [forward |-> [d \in Devices |-> {}],
          reverse |-> [d \in Devices |-> {}],
          pairs |-> [p \in Ids |-> None]]

-----------------------------------------------------------------------------
(* Mutations. *)

\* Mutant of AddEdge: an edge is remembered in one direction only.
MutAddEdge(g, p, key) ==
    IF g.pairs[p] # None THEN g
    ELSE [forward |-> [g.forward EXCEPT ![key[1]] = @ \cup {<<key[2], key[3], p>>}],
          reverse |-> g.reverse,
          pairs |-> [g.pairs EXCEPT ![p] = key]]

AddEdge(g, p, key) ==
    IF g.pairs[p] # None THEN g
    ELSE [forward |-> [g.forward EXCEPT ![key[1]] = @ \cup {<<key[2], key[3], p>>}],
          reverse |-> [g.reverse EXCEPT ![key[2]] = @ \cup {<<key[1], key[3], p>>}],
          pairs |-> [g.pairs EXCEPT ![p] = key]]

Without(edges, p) == {e \in edges : e[3] # p}

RemoveEdge(g, p) ==
    IF g.pairs[p] = None THEN g
    ELSE LET key == g.pairs[p]
         IN  [forward |-> [g.forward EXCEPT ![key[1]] = Without(@, p)],
              reverse |-> [g.reverse EXCEPT ![key[2]] = Without(@, p)],
              pairs |-> [g.pairs EXCEPT ![p] = None]]

-----------------------------------------------------------------------------
(* Queries. *)

Neighbours(g, d) == {e[1] : e \in g.forward[d] \cup g.reverse[d]}

\* Mutant of GetAllRelated: only the neighbours, not their neighbours.
MutGetAllRelated(g, d) == Neighbours(g, d) \ {d}

\* What the search remembers: who was visited, and who waits in line.
Searches == [visited : SUBSET Devices, line : Seq(Devices)]

\* One pass of its loop.
Visit(g, s) ==
    LET current == Head(s.line)
        seen == s.visited \cup {current}
    IN  IF current \in s.visited THEN [s EXCEPT !.line = Tail(@)]
        ELSE [visited |-> seen,
              line |-> Tail(s.line) \o SetToSeq(Neighbours(g, current) \ seen)]

\* The devices that the loop has visited when the line is empty.
Search(g) ==
    LET Visited[s \in Searches] ==
            IF s.line = <<>> THEN s.visited ELSE Visited[Visit(g, s)]
    IN  Visited

\* Breadth first from d, over edges of both directions.
GetAllRelated(g, d) == Search(g)[[visited |-> {}, line |-> <<d>>]] \ {d}

\* Forward edges: one for each pair, so a device may count several times.
Dependents(g, d) == g.forward[d]

PairsOf(g, d) == {p \in Ids : g.pairs[p] # None /\ d \in {g.pairs[p][1], g.pairs[p][2]}}

Severity(g, d) ==
    LET direct == Cardinality(Dependents(g, d))
    IN  CASE direct >= 3 -> "critical"
          [] direct \in {1, 2} -> "high"
          [] direct = 0 /\ GetAllRelated(g, d) # {} -> "medium"
          [] OTHER -> "none"

EdgeCount(g) == Cardinality({p \in Ids : g.pairs[p] # None})
NodeCount(g) == Cardinality({d \in Devices : PairsOf(g, d) # {}})

-----------------------------------------------------------------------------
(* What the graph owes its readers. *)

\* Both indexes hold exactly the edges of the pairs.
Mirrored(g) ==
    /\ \A d \in Devices, e \in EdgesTo :
          e \in g.forward[d] <=> g.pairs[e[3]] = <<d, e[1], e[2]>>
    /\ \A d \in Devices, e \in EdgesTo :
          e \in g.reverse[d] <=> g.pairs[e[3]] = <<e[1], d, e[2]>>

\* The connected component of d: what is in every set that holds d and, with
\* a device, those it is paired with.
Component(g, d) ==
    LET Closed == {C \in SUBSET Devices :
                      /\ d \in C
                      /\ \A p \in Ids : g.pairs[p] # None =>
                            (g.pairs[p][1] \in C <=> g.pairs[p][2] \in C)}
    IN  {c \in Devices : \A C \in Closed : c \in C}
================================================================================

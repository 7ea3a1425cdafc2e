-------------------------------- MODULE Pairing --------------------------------
(***************************************************************************)
(* Creating and dissolving pairs (orchestration/pairing_manager.py).       *)
(*                                                                         *)
(* A request changes the dependency graph when its statement has been      *)
(* flushed, and its caller commits or rolls back later.  What the database *)
(* has committed is in row; a flushed row is locked until its transaction  *)
(* ends, and an INSERT of a key that another open transaction has inserted *)
(* waits for it.  The table allows one row per key, dissolved ones         *)
(* included.  publish, in the step of the flush, may raise: the caller     *)
(* then rolls back, as it does when the commit fails.                      *)
(*                                                                         *)
(* Labels and metadata are left out, and requests that only read.  A       *)
(* device that does not exist or is inactive ends a request like a         *)
(* duplicate does.                                                         *)
(***************************************************************************)
EXTENDS DependencyGraph

CONSTANTS
    Calls,       \* requests at a time, each used again and again
    Asked,       \* bound: the keys that requests are about
    MaxTrouble   \* bound: errors and restarts

ASSUME PairingAssumption == Asked \subseteq Keys /\ MaxTrouble \in Nat

VARIABLES
    graph,    \* the DependencyGraph
    row,      \* device_pairs, as committed
    call,     \* what each request is doing
    torn,     \* history: pairs whose request failed when the graph had
              \* changed, or that could not be loaded
    trouble

pairVars == <<graph, row, call, torn, trouble>>

NoRow == [status |-> "none", key |-> None]
Resting == [pc |-> "idle", op |-> "none", id |-> None, key |-> None]

PairTypeOK ==
    /\ graph \in Graphs
    /\ row \in [Ids -> [status : {"none", "active", "dissolved"}, key : Keys \cup {None}]]
    /\ \A p \in Ids : row[p].status = "none" <=> row[p].key = None
    /\ call \in [Calls -> [pc : {"idle", "checked", "written"},
                           op : {"none", "create", "dissolve"},
                           id : Ids \cup {None}, key : Keys \cup {None}]]
    /\ torn \subseteq Ids
    /\ trouble \in 0..MaxTrouble

\* Mutant of LoadGraph: dissolved rows are loaded too.
MutLoadGraph(rows) ==
    [forward |-> [d \in Devices |-> {e \in EdgesTo :
        rows[e[3]].status # "none" /\ rows[e[3]].key = <<d, e[1], e[2]>>}],
     reverse |-> [d \in Devices |-> {e \in EdgesTo :
        rows[e[3]].status # "none" /\ rows[e[3]].key = <<e[1], d, e[2]>>}],
     pairs |-> [p \in Ids |-> rows[p].key]]

\* load_graph_from_db: cleared, then an edge for each active row.
LoadGraph(rows) ==
    [forward |-> [d \in Devices |-> {e \in EdgesTo :
        rows[e[3]].status = "active" /\ rows[e[3]].key = <<d, e[1], e[2]>>}],
     reverse |-> [d \in Devices |-> {e \in EdgesTo :
        rows[e[3]].status = "active" /\ rows[e[3]].key = <<e[1], d, e[2]>>}],
     pairs |-> [p \in Ids |-> IF rows[p].status = "active" THEN rows[p].key ELSE None]]

\* The server starts on the rows of an earlier run.
PairInit ==
    /\ row \in [Ids -> [status : {"active"}, key : Keys] \cup {NoRow}]
    /\ \A p, q \in Ids : p # q /\ row[p].key = row[q].key => row[p] = NoRow
    /\ \A p \in Ids : row[p] # NoRow => row[p].key[1] # row[p].key[2]
    /\ graph = LoadGraph(row)
    /\ call = [q \in Calls |-> Resting]
    /\ torn = {}
    /\ trouble = 0

Idle(q) == call[q].pc = "idle"
At(q, pc, op) == call[q].pc = pc /\ call[q].op = op
Go(q, c) == call' = [call EXCEPT ![q] = c]
Err == trouble < MaxTrouble /\ trouble' = trouble + 1

-----------------------------------------------------------------------------
(* create_pair. *)

\* Not the device itself, and no active pair of the same key.
CreateCheck(q, key) ==
    /\ Idle(q)
    /\ key[1] # key[2]
    /\ \A p \in Ids : row[p].status = "active" => row[p].key # key
    /\ Go(q, [pc |-> "checked", op |-> "create", id |-> None, key |-> key])
    /\ UNCHANGED <<graph, row, torn, trouble>>

\* A fresh uuid: not in a row, the graph or another request.
Fresh(p) ==
    /\ row[p].status = "none" /\ graph.pairs[p] = None /\ p \notin torn
    /\ \A q \in Calls : call[q].id # p

\* Another transaction has inserted the key and is still open.
KeyLocked(key) == \E q \in Calls : At(q, "written", "create") /\ call[q].key = key

\* INSERT, then the edge.  A row of the same key, active or dissolved, is a
\* violation of the unique constraint, before the graph has changed.
CreateInsert(q) ==
    /\ At(q, "checked", "create")
    /\ ~KeyLocked(call[q].key)
    /\ IF \E p \in Ids : row[p].key = call[q].key
       THEN Go(q, Resting) /\ UNCHANGED graph
       ELSE \E p \in Ids :
               /\ Fresh(p)
               /\ graph' = AddEdge(graph, p, call[q].key)
               /\ Go(q, [call[q] EXCEPT !.pc = "written", !.id = p])
    /\ UNCHANGED <<row, torn, trouble>>

CreateCommit(q) ==
    /\ At(q, "written", "create")
    /\ row' = [row EXCEPT ![call[q].id] = [status |-> "active", key |-> call[q].key]]
    /\ Go(q, Resting)
    /\ UNCHANGED <<graph, torn, trouble>>

-----------------------------------------------------------------------------
(* dissolve_pair. *)

DissolveLoad(q, p) ==
    /\ Idle(q)
    /\ row[p].status = "active"
    /\ Go(q, [pc |-> "checked", op |-> "dissolve", id |-> p, key |-> None])
    /\ UNCHANGED <<graph, row, torn, trouble>>

RowLocked(p) == \E q \in Calls : At(q, "written", "dissolve") /\ call[q].id = p

\* Mutant of DissolveUpdate: the edge stays.
MutDissolveUpdate(q) ==
    /\ At(q, "checked", "dissolve")
    /\ ~RowLocked(call[q].id)
    /\ Go(q, [call[q] EXCEPT !.pc = "written"])
    /\ UNCHANGED <<graph, row, torn, trouble>>

\* UPDATE, whatever the row has become since it was loaded, then the edge.
DissolveUpdate(q) ==
    /\ At(q, "checked", "dissolve")
    /\ ~RowLocked(call[q].id)
    /\ graph' = RemoveEdge(graph, call[q].id)
    /\ Go(q, [call[q] EXCEPT !.pc = "written"])
    /\ UNCHANGED <<row, torn, trouble>>

DissolveCommit(q) ==
    /\ At(q, "written", "dissolve")
    /\ row' = [row EXCEPT ![call[q].id].status = "dissolved"]
    /\ Go(q, Resting)
    /\ UNCHANGED <<graph, torn, trouble>>

-----------------------------------------------------------------------------
\* publish or the commit raises: the row is as before, the graph is not.
Rollback(q) ==
    /\ call[q].pc = "written"
    /\ Err
    /\ torn' = torn \cup {call[q].id}
    /\ Go(q, Resting)
    /\ UNCHANGED <<graph, row>>

\* The engine starts anew.  An error while the pairs are loaded is logged, and
\* the graph stays empty.
PairRestart ==
    /\ Err
    /\ call' = [q \in Calls |-> Resting]
    /\ \/ graph' = LoadGraph(row) /\ torn' = {}
       \/ graph' = Empty /\ torn' = {p \in Ids : row[p].status = "active"}
    /\ UNCHANGED row

PairCall(q) ==
    \/ \E key \in Asked : CreateCheck(q, key)
    \/ CreateInsert(q) \/ CreateCommit(q)
    \/ \E p \in Ids : row[p].key \in Asked /\ DissolveLoad(q, p)
    \/ DissolveUpdate(q) \/ DissolveCommit(q)
    \/ Rollback(q)

PairNext == PairRestart \/ \E q \in Calls : PairCall(q)

PairSpec == PairInit /\ [][PairNext]_pairVars

-----------------------------------------------------------------------------
\* dependency_graph.py:22: the graph is "kept in sync".  Both its indexes hold
\* the edges of its pairs, and those are the active rows, except for pairs
\* whose request is between flush and commit or has failed there, however
\* requests for the same pair interleave.
GraphFollowsRows ==
    /\ Mirrored(graph)
    /\ \A p \in Ids :
          \/ p \in torn
          \/ \E q \in Calls : call[q].pc = "written" /\ call[q].id = p
          \/ graph.pairs[p] = IF row[p].status = "active" THEN row[p].key ELSE None

\* dependency_graph.py:129: the breadth-first search from a device, whatever
\* was added to the graph and removed from it, finds the devices that pairs
\* connect it with, over edges of both directions, and no others.
RelatedIsComponent ==
    \A d \in Devices : GetAllRelated(graph, d) = Component(graph, d) \ {d}
================================================================================

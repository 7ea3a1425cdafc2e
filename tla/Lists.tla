--------------------------------- MODULE Lists ---------------------------------
(***************************************************************************)
(* The paginated lists of the API (api/v1) and of the orchestration        *)
(* package, read page by page while rows are added and change.             *)
(*                                                                         *)
(* A table is the sequence of its rows in the order of its list: the       *)
(* newest first, devices by serial number.  No list is ordered by a column *)
(* that changes; a row may be committed behind newer ones, since its time  *)
(* is that of the start of its transaction or before.  No two rows of a    *)
(* table have the same time.                                               *)
(*                                                                         *)
(* The reader asks for pages until one is not full.  The total that is     *)
(* returned with them is counted by an earlier statement; a reader who     *)
(* stops by it can miss a row that was added in between.                   *)
(***************************************************************************)
EXTENDS Integers, Sequences, FiniteSets

CONSTANTS
    Serials,
    PerPage,
    MaxRows,    \* bound: rows of a table
    Resolvers,  \* resolve_alert requests at a time, each used again and again
    Unset         \* a filter that is not set

ASSUME ListsAssumption ==
    /\ Unset \notin Serials \cup {"open", "closed"}
    /\ PerPage \in Nat \ {0}
    /\ MaxRows \in Nat

VARIABLES
    list,       \* the list that is read; its table is the only one modelled
    query,      \* the reader's filters
    table,
    walk,       \* whether the reader goes on, and the page it asks for next
    received,   \* ids of rows it has received
    standing,   \* history: ids of rows shown ever since its first page
    left,       \* history: whether a row left the list during the walk
    resolving   \* the alert each resolve_alert request has loaded

listVars == <<list, query, table, walk, received, standing, left, resolving>>

\* serial stands for every filter on a column that stays.  open: an alert that
\* is not resolved, a logcat command, a run, device or session with the status
\* that is asked for, an active pair.
Row == [id : 1..MaxRows, serial : Serials, tag : {"open", "closed"}]

Histories == {"commands", "logs", "heartbeats", "screenshots", "snapshots"}
ListNames == Histories \cup {"alerts", "runs", "devices", "sessions", "pairs"}

ListTypeOK ==
    /\ list \in ListNames
    /\ query \in [serial : Serials \cup {Unset}, tag : {"open", "closed", Unset}]
    /\ table \in Seq(Row) /\ Len(table) <= MaxRows
    /\ walk \in [state : {"on", "done", "failed"}, page : 1..(MaxRows + 1)]
    /\ received \subseteq 1..MaxRows
    /\ standing \subseteq 1..MaxRows
    /\ left \in {"no", "yes"}
    /\ resolving \in [Resolvers -> 0..MaxRows]

\* The filters that a list has, and whether they must be set.
Allows(name, q) ==
    /\ name \in Histories \cup {"runs"} => q.serial # Unset
    /\ name \in {"devices", "sessions"} => q.serial = Unset
    /\ name \in Histories => q.tag = Unset
    /\ name = "pairs" => q.tag # "closed"

ListInit ==
    /\ list \in ListNames
    /\ query \in [serial : Serials \cup {Unset}, tag : {"open", "closed", Unset}]
    /\ Allows(list, query)
    /\ table = <<>>
    /\ walk = [state |-> "on", page |-> 1]
    /\ received = {} /\ standing = {} /\ left = "no"
    /\ resolving = [o \in Resolvers |-> 0]

-----------------------------------------------------------------------------
(* What the lists show. *)

AlertsShown(r) == query.serial \in {Unset, r.serial} /\ query.tag \in {Unset, r.tag}
CommandsShown(r) == r.serial = query.serial
HeartbeatsShown(r) == r.serial = query.serial
ScreenshotsShown(r) == r.serial = query.serial
SnapshotsShown(r) == r.serial = query.serial
LogsShown(r) == r.serial = query.serial /\ r.tag = "open"
RunsShown(r) == r.serial = query.serial /\ query.tag \in {Unset, r.tag}
DevicesShown(r) == query.tag \in {Unset, r.tag}
SessionsShown(r) == query.tag \in {Unset, r.tag}
PairsShown(r) == query.serial \in {Unset, r.serial} /\ (query.tag = "open" => r.tag = "open")

Shown(r) ==
    CASE list = "alerts" -> AlertsShown(r)
      [] list = "commands" -> CommandsShown(r)
      [] list = "logs" -> LogsShown(r)
      [] list = "heartbeats" -> HeartbeatsShown(r)
      [] list = "screenshots" -> ScreenshotsShown(r)
      [] list = "snapshots" -> SnapshotsShown(r)
      [] list = "runs" -> RunsShown(r)
      [] list = "devices" -> DevicesShown(r)
      [] list = "sessions" -> SessionsShown(r)
      [] list = "pairs" -> PairsShown(r)

ShownIds(rows) == {rows[i].id : i \in {j \in DOMAIN rows : Shown(rows[j])}}

\* The position of row i among those that are shown.
Position(rows, i) == Cardinality({j \in 1..i : Shown(rows[j])})

\* Mutant of Page: the offset counts from page 1.
MutPage(rows, page) ==
    {rows[i].id : i \in {j \in DOMAIN rows : /\ Shown(rows[j])
                                             /\ page * PerPage < Position(rows, j)
                                             /\ Position(rows, j) <= (page + 1) * PerPage}}

\* WHERE, ORDER BY, OFFSET and LIMIT.
Page(rows, page) ==
    {rows[i].id : i \in {j \in DOMAIN rows : /\ Shown(rows[j])
                                             /\ (page - 1) * PerPage < Position(rows, j)
                                             /\ Position(rows, j) <= page * PerPage}}

Full(rows, page) == Position(rows, Len(rows)) >= page * PerPage

Read ==
    /\ walk.state = "on" /\ list # "logs"
    /\ received' = received \cup Page(table, walk.page)
    /\ walk' = IF Full(table, walk.page) THEN [walk EXCEPT !.page = @ + 1]
               ELSE [walk EXCEPT !.state = "done"]
    /\ standing' = IF walk.page = 1 THEN ShownIds(table) ELSE standing
    /\ UNCHANGED <<list, query, table, left, resolving>>

\* get_device_logs hands its rows to the response under a name that it does not
\* have: every request ends in an error.
ReadLogs ==
    /\ walk.state = "on" /\ list = "logs"
    /\ walk' = [walk EXCEPT !.state = "failed"]
    /\ UNCHANGED <<list, query, table, received, standing, left, resolving>>

-----------------------------------------------------------------------------
(* What changes them. *)

Reading == walk.page > 1 /\ walk.state = "on"

Now(rows) ==
    /\ table' = rows
    /\ standing' = standing \cap ShownIds(rows)
    /\ left' = IF Reading /\ ~(ShownIds(table) \subseteq ShownIds(rows)) THEN "yes" ELSE left

\* A new row behind the first k.
Added(k, serial, tag) ==
    SubSeq(table, 1, k) \o <<[id |-> Len(table) + 1, serial |-> serial, tag |-> tag]>>
        \o SubSeq(table, k + 1, Len(table))

Add(serial, tag) ==
    /\ Len(table) < MaxRows
    /\ \E k \in 0..Len(table) : Now(Added(k, serial, tag))
    /\ UNCHANGED <<list, query, walk, received, resolving>>

\* Nothing sends the command to its device.
ExecuteCommand(serial) == list \in {"commands", "logs"} /\ Add(serial, "closed")
CollectLogs(serial) == list \in {"commands", "logs"} /\ Add(serial, "open")

\* The other tables.
AddOther(serial, tag) ==
    /\ list \notin {"commands", "logs"}
    /\ list \in Histories => tag = "open"
    /\ Add(serial, tag)

Retagged(id, tag) ==
    [i \in DOMAIN table |-> IF table[i].id = id THEN [table[i] EXCEPT !.tag = tag] ELSE table[i]]

\* A run, device or session gets another status; a pair is dissolved.
Change(id, tag) ==
    /\ list \in {"runs", "devices", "sessions", "pairs"}
    /\ \E i \in DOMAIN table : table[i].id = id /\ table[i].tag # tag
    /\ list = "pairs" => tag = "closed"
    /\ Now(Retagged(id, tag))
    /\ UNCHANGED <<list, query, walk, received, resolving>>

\* resolve_alert loads an alert; a resolved one is refused.
ResolveLoad(o, id) ==
    /\ list = "alerts" /\ resolving[o] = 0
    /\ \E i \in DOMAIN table : table[i].id = id /\ table[i].tag = "open"
    /\ resolving' = [resolving EXCEPT ![o] = id]
    /\ UNCHANGED <<list, query, table, walk, received, standing, left>>

\* The UPDATE does not look whether somebody has resolved it meanwhile.
ResolveStore(o) ==
    /\ resolving[o] # 0
    /\ Now(Retagged(resolving[o], "closed"))
    /\ resolving' = [resolving EXCEPT ![o] = 0]
    /\ UNCHANGED <<list, query, walk, received>>

ListNext ==
    \/ Read \/ ReadLogs
    \/ \E serial \in Serials :
          \/ ExecuteCommand(serial) \/ CollectLogs(serial)
          \/ \E tag \in {"open", "closed"} : AddOther(serial, tag)
    \/ \E id \in 1..MaxRows :
          \/ \E tag \in {"open", "closed"} : Change(id, tag)
          \/ \E o \in Resolvers : ResolveLoad(o, id)
    \/ \E o \in Resolvers : ResolveStore(o)

ListSpec == ListInit /\ [][ListNext]_listVars

-----------------------------------------------------------------------------
\* Offsets shift while a list is read.  A walk to a page that is not full has
\* received every row that was in the list all the time, rows being added at
\* any place, unless a row left the list before its end: that moves the next
\* page's first row to a page that was read already.
WalkMissesNothing ==
    walk.state = "done" /\ left = "no" => standing \subseteq received
================================================================================

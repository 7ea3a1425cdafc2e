--------------------------- MODULE OrderedDelivery ---------------------------
(***************************************************************************)
(* What the event bus promises its publishers and subscribers: accepted    *)
(* events form a log, of which at most Capacity are ahead of the cursor;   *)
(* the cursor moves over the log in order; and each subscription sees the  *)
(* event at the cursor at most once, and only if it is interested in it.   *)
(***************************************************************************)
EXTENDS Integers, Sequences

CONSTANTS Events, Subscribers, Interest, Capacity

VARIABLES log, cursor, seen

deliveryVars == <<log, cursor, seen>>

DeliveryInit ==
    /\ log = <<>>
    /\ cursor = 0
    /\ seen = [s \in Subscribers |-> {}]

Accept(e) ==
    /\ Len(log) - cursor < Capacity
    /\ log' = Append(log, e)
    /\ UNCHANGED <<cursor, seen>>

Advance ==
    /\ cursor < Len(log)
    /\ cursor' = cursor + 1
    /\ UNCHANGED <<log, seen>>

See(s) ==
    /\ cursor \in 1..Len(log)
    /\ log[cursor] \in Interest[s]
    /\ cursor \notin seen[s]
    /\ seen' = [seen EXCEPT ![s] = @ \cup {cursor}]
    /\ UNCHANGED <<log, cursor>>

DeliveryNext ==
    \/ \E e \in Events : Accept(e)
    \/ Advance
    \/ \E s \in Subscribers : See(s)

DeliverySpec == DeliveryInit /\ [][DeliveryNext]_deliveryVars
==============================================================================

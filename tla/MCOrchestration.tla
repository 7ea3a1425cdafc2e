---------------------------- MODULE MCOrchestration ----------------------------
(* Two devices that are paired in both directions, one of the pairs being   *)
(* dissolved and created while a session of both is handled.               *)
EXTENDS Orchestration

CONSTANTS d1, d2, t1, p1, p2, q1, s1, o1

MCDevices == {d1, d2}
MCTypes == {t1}
MCIds == {p1, p2}
MCCalls == {q1}
MCSessions == {s1}
MCMembers == [s \in MCSessions |-> MCDevices]
MCAsked == {<<d2, d1, t1>>}
MCReports == {"completed"}
MCOperators == {o1}

Active(key) == [status |-> "active", key |-> key]
Mutual == [p \in MCIds |-> IF p = p1 THEN Active(<<d1, d2, t1>>) ELSE Active(<<d2, d1, t1>>)]

MCInit == Init /\ row = Mutual
MCSpec == MCInit /\ [][Next]_vars /\ Fairness
================================================================================

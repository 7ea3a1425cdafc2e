-------------------------- MODULE MCAutomationEngine --------------------------
(* Two executions and two devices, any of which may run either execution.     *)
EXTENDS AutomationEngine

CONSTANTS d1, d2, x1, x2

MCDevices == {d1, d2}
MCExecs == {x1, x2}
MCMatches == [e \in MCExecs |-> MCDevices]
MCRequested == [e \in MCExecs |-> None]

\* Either one execution has both devices, two retries and two mishaps; or two
\* compete for one device, with one retry and one mishap between them.
Small == \/ row[x2].status = "new"
         \/ connected \subseteq {d1} /\ drops + trouble <= 1 /\ row[x1].retries + row[x2].retries <= 1
==============================================================================

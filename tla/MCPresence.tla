----------------------------- MODULE MCPresence -----------------------------
(* One device with two connections. *)
EXTENDS Presence

CONSTANTS d1, s1, s2

MCOneDevice == {d1}
MCSockets == {s1, s2}
MCAllOfOne == [s \in MCSockets |-> d1]

\* One error or one restart and two heartbeats; or a deactivation and one of these.
\* The two connections are alike, so the first to be made may be called s1.
Bounded ==
    /\ count'.fault + count'.restart <= 1
    /\ count'.deactivate > 0 =>
          count'.fault + count'.restart + count'.heartbeat <= 1
    /\ stage'[s2] # "new" => stage'[s1] # "new"
=============================================================================

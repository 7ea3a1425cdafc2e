--------------------------- MODULE MCRemoteControl ---------------------------
(* One device, two users, two gestures at a time. *)
EXTENDS RemoteControl

CONSTANTS d1, u1, u2, c1, c2

MCDevices == {d1}
MCUsers == {u1, u2}
MCCalls == {c1, c2}
==============================================================================

------------------------------ MODULE MCEventBus ------------------------------
(* Three events of two types, a subscriber of one type and one of all. *)
EXTENDS EventBus, TLC

CONSTANTS e1, e2, e3, t1, t2, f, g

MCEvents == {e1, e2, e3}
MCTypes == {t1, t2}
MCTypeOf == (e1 :> t1 @@ e2 :> t2 @@ e3 :> t1)
MCSubscriptions == {<<t1, f>>, <<Star, g>>}
==============================================================================

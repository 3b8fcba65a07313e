----------------------------- MODULE MCEventBus -----------------------------
(* A small instance of EventBus: a subscriber to one concrete type and one  *)
(* to an interface that both types implement.                               *)
EXTENDS EventBus, TLC
CONSTANTS p1, p2, s1, s2, t1, t2
MCAccepts == (s1 :> {t1}) @@ (s2 :> {t1, t2})
=============================================================================

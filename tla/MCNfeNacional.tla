--------------------------- MODULE MCNfeNacional ---------------------------
(* A small instance of NfeNacional for TLC: one execution started by a timer,
   one by the operator. *)
EXTENDS NfeNacional, TLC

CONSTANTS e1, e2

TimerEPedido == (e1 :> {"noturna"}) @@ (e2 :> {"periodo"})
=============================================================================

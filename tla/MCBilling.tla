------------------------------ MODULE MCBilling ------------------------------
(* Small instances of Billing for TLC. *)
EXTENDS Billing, TLC

CONSTANTS u1, u2

PkOrder == u1 :> 1 @@ u2 :> 2
==============================================================================

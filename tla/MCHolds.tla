------------------------------ MODULE MCHolds ------------------------------
(* Two steps of hashrate; two minutes to a hold and three to a stall.      *)
EXTENDS Holds
=============================================================================

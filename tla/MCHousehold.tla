----------------------------- MODULE MCHousehold -----------------------------
(* One user with two addresses, and another with one.                      *)
EXTENDS Household, TLC

CONSTANTS d1, d2, w1, w2, w3

MCDesktops == {d1, d2}
MCOwn == (d1 :> {w1, w2}) @@ (d2 :> {w3})
=============================================================================

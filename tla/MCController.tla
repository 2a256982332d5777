---------------------------- MODULE MCController ----------------------------
(* A machine of four cores with three of the four presets.                 *)
EXTENDS Controller, TLC

MCCeilings == ("ghost" :> 2) @@ ("polite" :> 3) @@ ("full" :> 4)
=============================================================================

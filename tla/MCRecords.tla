----------------------------- MODULE MCRecords ------------------------------
(* The ledger of one machine, or the payouts of a household: they share no  *)
(* state, so each behaviour is of one of them, and the other stays as it    *)
(* began.  One window is longer than the span: it needs two minutes.        *)
EXTENDS Ledger, Payouts

VARIABLE part

Init == part \in {"ledger", "payouts"} /\ LedgerInit /\ PayoutsInit
Next == /\ UNCHANGED part
        /\ \/ part = "ledger" /\ LedgerNext /\ UNCHANGED payoutsVars
           \/ part = "payouts" /\ PayoutsNext /\ UNCHANGED ledgerVars
Spec == Init /\ [][Next]_<<part, ledgerVars, payoutsVars>> /\ PayoutsFairness
=============================================================================

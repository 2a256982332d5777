----------------------------- MODULE MCSupervisor -----------------------------
EXTENDS Supervisor

\* Every configuration there is.
MCSetups == AllSetups
=============================================================================

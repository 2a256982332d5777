-------------------------------- MODULE MCRelay --------------------------------
EXTENDS Relay

\* One connection of each kind at a time.
MCRPC == {"r1"}
MCZMQ == {"z1"}
=============================================================================

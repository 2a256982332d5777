------------------------------ MODULE MCStartup ------------------------------
(* Two releases, two manifests: the first wants the second release's engine *)
(* from a fork on, the second at once, and names another default node.      *)
EXTENDS Startup

CONSTANTS onion, clear, home

MCNodes == {onion, clear, home}
MCRequires == [m \in 1..2 |-> m]
MCFork == [m \in 1..2 |-> 2]
MCLists == [m \in 0..2 |-> CASE m = 0 -> {onion}
                             [] m = 1 -> {}
                             [] OTHER -> {onion, clear}]
Configured(ships, own, mode, remote, nodo) ==
  [ships |-> ships, own |-> own, mode |-> mode, remote |-> remote,
   nodo |-> nodo]
MCSetups == {Configured("bare", FALSE, "remote", NoNode, FALSE),
             Configured("bare", TRUE, "remote", onion, TRUE),
             Configured("chosen", TRUE, "local", NoNode, TRUE),
             Configured("packaged", FALSE, "remote", clear, FALSE),
             Configured("packaged", FALSE, "remote", "bad", FALSE)}
=============================================================================

--------------------------------- MODULE Relay ---------------------------------
(***************************************************************************)
(* The relay that stands in for an onion node (internal/nodes/relay.go):   *)
(* it accepts p2pool's RPC and ZMQ connections on loopback and carries     *)
(* each to the node through Tor.  Every accepted connection has a handler, *)
(* forward or forwardZMQ; the latter dials in a goroutine of its own while *)
(* it shakes hands with p2pool.  Close may come at any moment: it sweeps   *)
(* the connections tracked so far and waits for the handlers.              *)
(*                                                                         *)
(* A connection is a slot that p2pool uses again and again.  What is       *)
(* carried, and what the handshakes say, is left out.                      *)
(***************************************************************************)

CONSTANTS RPC, ZMQ   \* the slots, by the listener that accepted them

Slots == RPC \cup ZMQ

ASSUME RelayAssumption == RPC \cap ZMQ = {}

VARIABLES
  closed,   \* r.closed: and the context cancelled, the listeners closed
  serving,  \* the accept loops that run
  conns,    \* r.conns: the tracked ends
  handler,  \* slot -> where forward or forwardZMQ stands
  dialer,   \* slot -> where forwardZMQ's goroutine stands
  gaveUp,   \* slot -> forwardZMQ has cancelled its context
  local,    \* slot -> the connection with p2pool
  remote,   \* slot -> the connection with the node
  closer    \* where Close stands

relayVars == <<closed, serving, conns, handler, dialer, gaveUp, local, remote, closer>>

\* A connection: "eof" is one whose other end is gone, "shut" one we closed.
Socks == {"none", "open", "eof", "shut"}
Sides == {<<c, side>> : c \in Slots, side \in {"local", "remote"}}
Shut(sock) == IF sock = "none" THEN "none" ELSE "shut"

\* Types; an end is tracked only while the handler of its connection runs.
RelayTypeOK ==
  /\ closed \in BOOLEAN
  /\ serving \subseteq {"rpc", "zmq"}
  /\ conns \subseteq {e \in Sides : handler[e[1]] # "none"}
  /\ handler \in [Slots -> {"none", "track", "dial", "trackRemote", "shake", "await", "drop",
                            "splice", "untrack"}]
  /\ dialer \in [Slots -> {"none", "dial", "track", "shake", "conn", "error"}]
  /\ gaveUp \in [Slots -> BOOLEAN]
  /\ local \in [Slots -> Socks] /\ remote \in [Slots -> Socks]
  /\ closer \in {"open", "waits", "returned"}

RelayInit == /\ closed = FALSE
             /\ serving = {"rpc", "zmq"}
             /\ conns = {}
             /\ handler = [c \in Slots |-> "none"]
             /\ dialer = [c \in Slots |-> "none"]
             /\ gaveUp = [c \in Slots |-> FALSE]
             /\ local = [c \in Slots |-> "none"]
             /\ remote = [c \in Slots |-> "none"]
             /\ closer = "open"

\* The context of a dial is done.
Cancelled(c) == closed \/ gaveUp[c]

Handles(c, from, to) == handler[c] = from /\ handler' = [handler EXCEPT ![c] = to]
Dials(c, from, to) == dialer[c] = from /\ dialer' = [dialer EXCEPT ![c] = to]

-----------------------------------------------------------------------------
(* Both kinds of connection.                                               *)

Kind(c) == IF c \in RPC THEN "rpc" ELSE "zmq"

\* The accept loop, and its end when the listener is closed.
Accept(c) == /\ ~closed /\ Kind(c) \in serving
             /\ Handles(c, "none", "track") /\ dialer[c] = "none"
             /\ local' = [local EXCEPT ![c] = "open"]
             /\ remote' = [remote EXCEPT ![c] = "none"]
             /\ gaveUp' = [gaveUp EXCEPT ![c] = FALSE]
             /\ UNCHANGED <<closed, serving, conns, dialer, closer>>
ServeEnds == /\ closed
             /\ \E k \in serving : serving' = serving \ {k}
             /\ UNCHANGED <<closed, conns, handler, dialer, gaveUp, local, remote, closer>>

\* The local side is tracked, or refused by a relay that is closing.
TrackLocal(c) ==
  \/ /\ closed
     /\ Handles(c, "track", "untrack")
     /\ local' = [local EXCEPT ![c] = Shut(@)]
     /\ UNCHANGED <<closed, serving, conns, dialer, gaveUp, remote, closer>>
  \/ /\ ~closed
     /\ Handles(c, "track", IF c \in RPC THEN "dial" ELSE "shake")
     /\ dialer' = IF c \in RPC THEN dialer ELSE [dialer EXCEPT ![c] = "dial"]
     /\ conns' = conns \cup {<<c, "local">>}
     /\ UNCHANGED <<closed, serving, gaveUp, local, remote, closer>>

HalfSplice(c) == /\ local[c] # "open" /\ remote[c] # "open"
                 /\ Handles(c, "splice", "untrack")
                 /\ local' = [local EXCEPT ![c] = Shut(@)]
                 /\ remote' = [remote EXCEPT ![c] = Shut(@)]
                 /\ UNCHANGED <<closed, serving, conns, dialer, gaveUp, closer>>
\* splice: either side's end closes both.
Splice(c) == /\ local[c] # "open" \/ remote[c] # "open"
             /\ Handles(c, "splice", "untrack")
             /\ local' = [local EXCEPT ![c] = Shut(@)]
             /\ remote' = [remote EXCEPT ![c] = Shut(@)]
             /\ UNCHANGED <<closed, serving, conns, dialer, gaveUp, closer>>

\* The deferred calls: both ends untracked, the context cancelled.  What the
\* goroutine left in its channel is dropped with it.
Untrack(c) == /\ Handles(c, "untrack", "none")
              /\ conns' = conns \ {<<c, "local">>, <<c, "remote">>}
              /\ gaveUp' = [gaveUp EXCEPT ![c] = TRUE]
              /\ dialer' = [dialer EXCEPT ![c] = IF @ \in {"conn", "error"} THEN "none" ELSE @]
              /\ UNCHANGED <<closed, serving, local, remote, closer>>

-----------------------------------------------------------------------------
(* forward: dial, then track the node's side.                              *)

DialAnswers(c) == /\ Handles(c, "dial", "trackRemote")
                  /\ remote' = [remote EXCEPT ![c] = "open"]
                  /\ UNCHANGED <<closed, serving, conns, dialer, gaveUp, local, closer>>
DialFails(c) == /\ Handles(c, "dial", "untrack")
                /\ local' = [local EXCEPT ![c] = Shut(@)]
                /\ UNCHANGED <<closed, serving, conns, dialer, gaveUp, remote, closer>>
TrackRemote(c) ==
  \/ /\ closed
     /\ Handles(c, "trackRemote", "untrack")
     /\ local' = [local EXCEPT ![c] = Shut(@)] /\ remote' = [remote EXCEPT ![c] = Shut(@)]
     /\ UNCHANGED <<closed, serving, conns, dialer, gaveUp, closer>>
  \/ /\ ~closed
     /\ Handles(c, "trackRemote", "splice")
     /\ conns' = conns \cup {<<c, "remote">>}
     /\ UNCHANGED <<closed, serving, dialer, gaveUp, local, remote, closer>>

-----------------------------------------------------------------------------
(* forwardZMQ: the goroutine that dials, tracks and shakes hands with the  *)
(* node, and the handler that meanwhile shakes hands with p2pool.          *)

NodeAnswers(c) == /\ Dials(c, "dial", "track")
                  /\ remote' = [remote EXCEPT ![c] = "open"]
                  /\ UNCHANGED <<closed, serving, conns, handler, gaveUp, local, closer>>
NodeFails(c) == /\ Dials(c, "dial", "error")
                /\ UNCHANGED <<closed, serving, conns, handler, gaveUp, local, remote, closer>>
\* "Tracked from the start, so Close cuts a handshake still waiting on Tor."
TrackNode(c) ==
  \/ /\ closed
     /\ Dials(c, "track", "error")
     /\ remote' = [remote EXCEPT ![c] = Shut(@)]
     /\ UNCHANGED <<closed, serving, conns, handler, gaveUp, local, closer>>
  \/ /\ ~closed
     /\ Dials(c, "track", "shake")
     /\ conns' = conns \cup {<<c, "remote">>}
     /\ UNCHANGED <<closed, serving, handler, gaveUp, local, remote, closer>>
\* A peer that has hung up may have said enough before.
ShakesWithNode(c) == /\ remote[c] # "shut"
                     /\ Dials(c, "shake", "conn")
                     /\ UNCHANGED <<closed, serving, conns, handler, gaveUp, local, remote, closer>>
NodeShakeFails(c) == /\ Dials(c, "shake", "error")
                     /\ conns' = conns \ {<<c, "remote">>}
                     /\ remote' = [remote EXCEPT ![c] = Shut(@)]
                     /\ UNCHANGED <<closed, serving, handler, gaveUp, local, closer>>

ShakesWithP2Pool(c) == /\ local[c] # "shut"
                       /\ Handles(c, "shake", "await")
                       /\ UNCHANGED <<closed, serving, conns, dialer, gaveUp, local, remote, closer>>
\* Not p2pool, or it gave up, or the relay is closing: the node's side is told.
LocalShakeFails(c) == /\ Handles(c, "shake", "drop")
                      /\ local' = [local EXCEPT ![c] = Shut(@)]
                      /\ gaveUp' = [gaveUp EXCEPT ![c] = TRUE]
                      /\ UNCHANGED <<closed, serving, conns, dialer, remote, closer>>

DropAtOnce(c) == /\ Handles(c, "drop", "untrack")
                 /\ remote' = [remote EXCEPT ![c] = IF dialer[c] = "conn" THEN Shut(@) ELSE @]
                 /\ UNCHANGED <<closed, serving, conns, dialer, gaveUp, local, closer>>
\* It waits for the goroutine all the same, and closes what it brings.
Drop(c) == /\ dialer[c] \in {"conn", "error"}
           /\ Handles(c, "drop", "untrack")
           /\ remote' = [remote EXCEPT ![c] = Shut(@)]
           /\ UNCHANGED <<closed, serving, conns, dialer, gaveUp, local, closer>>
Await(c) == /\ dialer[c] \in {"conn", "error"}
            /\ Handles(c, "await", IF dialer[c] = "conn" THEN "splice" ELSE "untrack")
            /\ local' = IF dialer[c] = "conn" THEN local ELSE [local EXCEPT ![c] = Shut(@)]
            /\ UNCHANGED <<closed, serving, conns, dialer, gaveUp, remote, closer>>

-----------------------------------------------------------------------------
(* Close, and the two peers.                                               *)

CloseOnlyListens == /\ ~closed
                    /\ closed' = TRUE
                    /\ closer' = "waits"
                    /\ UNCHANGED <<serving, conns, handler, dialer, gaveUp, local, remote>>
\* Under r.mu: no more is tracked, and what is tracked is closed.
CloseBegins == /\ ~closed
               /\ closed' = TRUE
               /\ closer' = "waits"
               /\ local' = [c \in Slots |-> IF <<c, "local">> \in conns THEN Shut(local[c])
                                            ELSE local[c]]
               /\ remote' = [c \in Slots |-> IF <<c, "remote">> \in conns THEN Shut(remote[c])
                                             ELSE remote[c]]
               /\ UNCHANGED <<serving, conns, handler, dialer, gaveUp>>
\* r.wg.Wait.
CloseReturns == /\ closer = "waits"
                /\ serving = {} /\ \A c \in Slots : handler[c] = "none"
                /\ closer' = "returned"
                /\ UNCHANGED <<closed, serving, conns, handler, dialer, gaveUp, local, remote>>

\* p2pool or the node goes away.
HangsUp(c) == /\ \/ /\ local[c] = "open"
                    /\ local' = [local EXCEPT ![c] = "eof"]
                    /\ UNCHANGED remote
                 \/ /\ remote[c] = "open"
                    /\ remote' = [remote EXCEPT ![c] = "eof"]
                    /\ UNCHANGED local
              /\ UNCHANGED <<closed, serving, conns, handler, dialer, gaveUp, closer>>

RelayNext == \/ ServeEnds \/ CloseBegins \/ CloseReturns
             \/ \E c \in Slots :
                  \/ Accept(c) \/ TrackLocal(c) \/ Splice(c) \/ Untrack(c) \/ HangsUp(c)
                  \/ DialAnswers(c) \/ DialFails(c) \/ TrackRemote(c)
                  \/ NodeAnswers(c) \/ NodeFails(c) \/ TrackNode(c) \/ ShakesWithNode(c)
                  \/ NodeShakeFails(c) \/ ShakesWithP2Pool(c) \/ LocalShakeFails(c)
                  \/ Drop(c) \/ Await(c)

\* The goroutines run.  A dial or a handshake ends by itself once its context
\* is done or its connection gone; relayDialTimeout and localHandshakeTimeout
\* are counted on only while the relay is open, and nothing the peers do is.
RelayFairness ==
  /\ WF_relayVars(ServeEnds) /\ WF_relayVars(CloseReturns)
  /\ \A c \in Slots :
       /\ WF_relayVars(\/ TrackLocal(c) \/ Splice(c) \/ Untrack(c)
                       \/ TrackRemote(c) \/ Drop(c) \/ Await(c))
       /\ WF_relayVars(TrackNode(c))
       /\ WF_relayVars(DialFails(c) /\ Cancelled(c)) /\ WF_relayVars(DialFails(c) /\ ~closed)
       /\ WF_relayVars(NodeFails(c) /\ Cancelled(c)) /\ WF_relayVars(NodeFails(c) /\ ~closed)
       /\ WF_relayVars(NodeShakeFails(c) /\ (Cancelled(c) \/ remote[c] # "open"))
       /\ WF_relayVars(NodeShakeFails(c) /\ ~closed)
       /\ WF_relayVars(LocalShakeFails(c) /\ local[c] # "open")
       /\ WF_relayVars(LocalShakeFails(c) /\ ~closed)
RelaySpec == RelayInit /\ [][RelayNext]_relayVars /\ RelayFairness

-----------------------------------------------------------------------------
(* Properties.                                                             *)

\* "Close stops listening, drops every relayed connection, and waits for the
\* relay's goroutines to finish": afterwards no connection is held and nothing
\* dials, whatever each connection was doing when it came.
NothingLeft == closer = "returned" => \A c \in Slots : /\ local[c] \in {"none", "shut"}
                                                       /\ remote[c] \in {"none", "shut"}
                                                       /\ dialer[c] = "none"

\* What holds of every state.
RelayKept == RelayTypeOK /\ NothingLeft

\* "closing never waits out a circuit that is still forming": Close returns
\* with no help from the node, from p2pool or from a timeout.
CloseDone == closer = "waits" ~> closer = "returned"

\* p2pool going away is carried to the node, and the other way round, in every
\* phase of a connection: neither end is kept once the other is gone.
HangUpCarried == \A c \in Slots :
  (local[c] = "eof" \/ remote[c] = "eof") ~> /\ local[c] \in {"none", "shut"}
                                            /\ remote[c] \in {"none", "shut"}
=============================================================================

--------------------------- MODULE Supervisor_proofs --------------------------
(***************************************************************************)
(* What the mining stack's shutdown promises, for any number of launches   *)
(* of p2pool and changes of the Nodo's settings, whichever steps of Start  *)
(* fail and however quit, restart and onion fall between them; and what    *)
(* the onion relay promises of its own sockets and goroutines, for any     *)
(* number of connections.                                                  *)
(***************************************************************************)
EXTENDS Supervisor, Relay, TLAPS

-----------------------------------------------------------------------------
(* The inductive invariant.                                                *)

Steps == StartSteps \cup DownSteps \cup WatchSteps \cup {"up", "off", "idle"}
Positions == /\ pc \in [Threads -> Steps]
             /\ pc["start"] \in StartSteps \cup DownSteps \cup {"up", "off"}
             /\ pc["quit"] \in DownSteps \cup {"idle", "off"}
             /\ pc["watch"] \in WatchSteps
Types == SupTypeOK /\ pc \in [Threads -> Steps]

\* Start before its watches run, and before it has a p2pool.
Early == StartSteps \ {"miner"}
BeforeP2Pool == Early \ {"launch", "wait", "beside"}

\* A closer that is past the step that ...
TookHub == {"hub", "close", "stop", "monerodStop", "take", "relayClose", "torStop", "off"}
ClosedP2Pool == TookHub \ {"hub", "close"}
StoppedP2Pool == ClosedP2Pool \ {"stop"}
StoppedMonerod == StoppedP2Pool \ {"monerodStop"}
TookRest == StoppedMonerod \ {"take"}
Past(steps) == \E c \in Closers : pc[c] \in steps

\* Who can be where together.  Unless the quit came while Start ran, Start and
\* a shutdown do not overlap, and no watch runs before p2pool does.
Order == /\ ~midway /\ pc["quit"] # "idle" => pc["start"] \notin StartSteps
         /\ midway => pc["quit"] # "idle"
         /\ pc["watch"] # "none" => p2pool.made /\ pc["start"] \notin Early
         /\ pc["start"] \in BeforeP2Pool => ~p2pool.made
         /\ pc["start"] \in Early \ BeforeP2Pool => p2pool.made

\* p2pool: the process in cmd is the only one alive and on the node last set,
\* and a closed one has none once the Stop that follows is over.
Pool == /\ \A l \in Launches : proc[l] \in Alive => p2pool.cmd = l /\ via[l] = p2pool.via
        /\ ~p2pool.made => p2pool.cmd = 0 /\ ~p2pool.closed
        /\ p2pool.closed /\ (\A c \in Closers : pc[c] # "stop") => p2pool.cmd = 0
        /\ pc["watch"] \in {"set", "launch"} => p2pool.cmd = 0
        /\ pc["watch"] \in {"launch", "wait", "hand", "relayClose", "torStop"}
             => p2pool.via = "local"

\* What a shutdown has behind it stays down.
Down == /\ p2pool.made /\ Past(ClosedP2Pool) => p2pool.closed
        /\ Past(StoppedP2Pool) => p2pool.cmd = 0
        /\ mining = "running" => pc["start"] = "up" /\ pc["quit"] \in {"idle", "down"}
        /\ monerod.process \in Alive => ~Past(StoppedMonerod)

\* The hub's Tor runs, or may still be started, only in somebody's hands.
HubHeld == /\ hubTor.held => ~Past(TookHub)
           /\ hubTor.process \in Alive \/ (hubTor.starting /\ ~hubTor.closed)
                => hubTor.held \/ \E c \in Closers : pc[c] = "hub" /\ "hub" \in taken[c]

\* And so do our Tor and the relay: the supervisor's, or those of a thread that
\* took them and has not yet closed them.
TorHeld == /\ sTor \/ sRelay => ~Past(TookRest)
           /\ pc["start"] = "torStart" => sTor
           /\ tor \in Alive => sTor \/ \E t \in Threads : /\ pc[t] \in {"relayClose", "torStop"}
                                                          /\ "tor" \in taken[t]
           /\ relay = "open" => sRelay \/ \E t \in Threads : /\ pc[t] = "relayClose"
                                                             /\ "relay" \in taken[t]

\* What p2pool is pointed at goes only once p2pool has been pointed elsewhere,
\* or stopped for good.
RelayHeld == /\ pc["start"] \in Early => relay # "closed" /\ tor # "gone"
             /\ p2pool.via = "relay" /\ (relay # "open" \/ tor = "gone") => Past(StoppedP2Pool)

StackInv == /\ Types /\ Order /\ Pool
            /\ ~midway => Down /\ HubHeld /\ TorHeld /\ RelayHeld

-----------------------------------------------------------------------------
(* Types.                                                                  *)

\* A thread that goes on leaves the others where they stand.
LEMMA Going ==
  ASSUME Positions, NEW t \in Threads, NEW from, NEW to, Goto(t, from, to),
         to \in IF t = "start" THEN StartSteps \cup DownSteps \cup {"up", "off"}
                ELSE IF t = "quit" THEN DownSteps \cup {"idle", "off"} ELSE WatchSteps
  PROVE  /\ Positions'
         /\ pc[t] = from /\ pc'[t] = to
         /\ \A u \in Threads \ {t} : pc'[u] = pc[u]
<1>1. to \in Steps
  BY DEF Steps, Threads, Closers
<1>2. pc[t] = from /\ pc' = [pc EXCEPT ![t] = to] /\ pc \in [Threads -> Steps]
  BY DEF Goto, Positions
<1>3. /\ pc' \in [Threads -> Steps] /\ pc'[t] = to
      /\ \A u \in Threads \ {t} : pc'[u] = pc[u]
  BY <1>1, <1>2
<1>4. QED
  BY <1>2, <1>3 DEF Positions, Threads, Closers

LEMMA Standing == Positions /\ UNCHANGED pc => Positions'
  BY DEF Positions

\* The steps of Start, and what each moves.
LEMMA StartPositions ==
  ASSUME Positions, Start
  PROVE  Positions'
<1> USE DEF StartSteps, DownSteps, Threads, Closers
<1>1. ASSUME NEW from, NEW to \in StartSteps \cup {"down", "up"}, Goto("start", from, to)
      PROVE  Positions'
  BY <1>1, Going
<1>2. CASE Prepare \/ StartMonerod \/ MonerodReturns
  BY <1>1, <1>2 DEF Prepare, StartMonerod, MonerodReturns
<1>3. CASE Choose \/ RecordTor \/ TorStart \/ TorReturns
  BY <1>1, <1>3 DEF Choose, RecordTor, TorStart, TorReturns
<1>4. CASE Resolve \/ Make \/ StartMiner
  BY <1>1, <1>4 DEF Resolve, Make, StartMiner
<1>5. CASE Beside
  BY <1>5 DEF Beside, Positions, Steps, WatchSteps
<1>6. QED
  BY <1>2, <1>3, <1>4, <1>5 DEF Start

\* The closers' steps, p2pool's and the watch's.
LEMMA ShutdownPositions ==
  ASSUME Positions, NEW c \in Closers, Shutdown(c)
  PROVE  Positions'
<1> USE DEF DownSteps, Threads, Closers
<1>1. ASSUME NEW from, NEW to \in DownSteps \cup {"off"}, Goto(c, from, to)
      PROVE  Positions'
  BY <1>1, Going
<1>2. CASE StopMining(c) \/ EndWatches(c) \/ CloseHub(c)
  BY <1>1, <1>2 DEF StopMining, EndWatches, CloseHub
<1>3. CASE CloseP2Pool(c) \/ StopP2Pool(c) \/ StopMonerod(c)
  BY <1>1, <1>3 DEF CloseP2Pool, StopP2Pool, StopMonerod
<1>4. CASE TakeRest(c) \/ CloseRelay(c) \/ StopTor(c)
  BY <1>1, <1>4 DEF TakeRest, CloseRelay, StopTor
<1>5. QED
  BY <1>2, <1>3, <1>4 DEF Shutdown

LEMMA P2PoolPositions ==
  ASSUME Positions, NEW t \in {"start", "watch"}, P2PoolStart(t) \/ P2PoolWait(t)
  PROVE  Positions'
<1>1. \E from, to : Goto(t, from, to) /\ to \in {"wait", OnError(t), OnReady(t)}
  BY DEF P2PoolStart, P2PoolWait, P2PoolReady, P2PoolExited, P2PoolTimesOut
<1>2. PICK from, to : Goto(t, from, to) /\ to \in {"wait", OnError(t), OnReady(t)}
  BY <1>1
<1>3. to \in IF t = "start" THEN StartSteps \cup DownSteps ELSE WatchSteps
  BY <1>2 DEF OnError, OnReady, StartSteps, DownSteps, WatchSteps
<1>4. QED
  BY <1>2, <1>3, Going DEF Threads, Closers

LEMMA WatchPositions ==
  ASSUME Positions, Watch
  PROVE  Positions'
<1> USE DEF WatchSteps, Threads, Closers
<1>1. ASSUME NEW from, NEW to \in WatchSteps, Goto("watch", from, to)
      PROVE  Positions'
  BY <1>1, Going
<1>2. CASE WatchEnds \/ Probe
  BY <1>1, <1>2 DEF WatchEnds, Probe
<1>3. CASE ReadSettings \/ Restart \/ SetTarget \/ HandOff
  BY <1>1, <1>3 DEF ReadSettings, Restart, SetTarget, HandOff
<1>4. CASE CloseRelay("watch") \/ StopTor("watch")
  BY <1>1, <1>4 DEF CloseRelay, StopTor
<1>5. QED
  BY <1>2, <1>3, <1>4 DEF Watch

LEMMA PositionsKept ==
  ASSUME Positions, [Next]_vars
  PROVE  Positions'
<1>1. CASE Quit
  BY <1>1, Going DEF Quit, DownSteps, Threads, Closers
<1>2. CASE MonerodSyncs \/ MonerodSignals \/ HubOnion \/ OwnerSaves
  BY <1>2, Standing DEF MonerodSyncs, MonerodSignals, HubOnion, OwnerSaves
<1>3. ASSUME NEW l \in Launches, ReadOutput(l) \/ P2PoolRuns(l) PROVE Positions'
  BY <1>3, Standing DEF ReadOutput, P2PoolRuns
<1>4. CASE UNCHANGED vars
  BY <1>4, Standing DEF vars
<1>5. QED
  BY <1>1, <1>2, <1>3, <1>4, StartPositions, ShutdownPositions, P2PoolPositions,
     WatchPositions DEF Next

LEMMA StoppedTypes == \A p \in Processes : Stopped(p) \in Processes \ Alive
  BY DEF Stopped, Processes, Alive

\* p2pool's own part, which few steps touch.
PoolTypes == /\ p2pool \in [made : BOOLEAN, closed : BOOLEAN, cmd : 0..MaxLaunches,
                            ready : BOOLEAN, via : Nodes, login : Settings]
             /\ proc \in [Launches -> Processes] /\ via \in [Launches -> Nodes]
             /\ out \in [Launches -> {"none", "reads", "saw", "signalled", "done"}]
             /\ told \subseteq Launches

LEMMA LaunchNumbers == 0 \in 0..MaxLaunches /\ Launches \subseteq 0..MaxLaunches
  BY SupervisorAssumption DEF SupervisorAssumption, Launches

LEMMA PoolTypesKept ==
  ASSUME SupTypeOK, [Next]_vars
  PROVE  PoolTypes'
<1>1. PoolTypes /\ known \in Settings
  BY DEF PoolTypes, SupTypeOK
<1> USE DEF PoolTypes, poolVars
<1>2. UNCHANGED poolVars => PoolTypes'
  BY <1>1
<1>3. P2PoolStopped => PoolTypes'
  <2> SUFFICES ASSUME P2PoolStopped PROVE PoolTypes'
    OBVIOUS
  <2>1. p2pool' \in [made : BOOLEAN, closed : BOOLEAN, cmd : 0..MaxLaunches,
                     ready : BOOLEAN, via : Nodes, login : Settings]
    BY <1>1, LaunchNumbers, Zenon DEF P2PoolStopped
  <2>2. proc' \in [Launches -> Processes]
    BY <1>1 DEF P2PoolStopped, Processes
  <2>3. QED
    BY <1>1, <2>1, <2>2 DEF P2PoolStopped
<1>4. CASE Start
  <2>1. CASE Make
    BY <1>1, <2>1 DEF Make, Followed, Nodes
  <2>2. CASE ~Make
    BY <1>2, <1>4, <2>2
       DEF Start, Prepare, StartMonerod, MonerodReturns, Choose, RecordTor, TorStart,
           TorReturns, Resolve, Beside, StartMiner
  <2>3. QED
    BY <2>1, <2>2
<1>5. ASSUME NEW c \in Closers, Shutdown(c) PROVE PoolTypes'
  <2>1. CASE CloseP2Pool(c)
    BY <1>1, <2>1 DEF CloseP2Pool
  <2>2. CASE StopP2Pool(c)
    BY <1>3, <2>2 DEF StopP2Pool
  <2>3. CASE ~CloseP2Pool(c) /\ ~StopP2Pool(c)
    BY <1>2, <1>5, <2>3
       DEF Shutdown, StopMining, EndWatches, CloseHub, StopMonerod, TakeRest, CloseRelay,
           StopTor
  <2>4. QED
    BY <2>1, <2>2, <2>3
<1>6. ASSUME NEW t \in {"start", "watch"}, P2PoolStart(t) \/ P2PoolWait(t)
      PROVE  PoolTypes'
  <2>1. ASSUME NEW l \in Launches, Launched(l) PROVE PoolTypes'
    <3>1. p2pool' \in [made : BOOLEAN, closed : BOOLEAN, cmd : 0..MaxLaunches,
                       ready : BOOLEAN, via : Nodes, login : Settings]
      BY <1>1, <2>1, LaunchNumbers DEF Launched
    <3>2. proc' \in [Launches -> Processes] /\ via' \in [Launches -> Nodes]
      BY <1>1, <2>1 DEF Launched, Processes
    <3>3. out' \in [Launches -> {"none", "reads", "saw", "signalled", "done"}]
      BY <1>1, <2>1 DEF Launched
    <3>4. QED
      BY <2>1, <3>1, <3>2, <3>3, <1>1 DEF Launched
  <2>2. CASE P2PoolStart(t)
    BY <1>2, <2>1, <2>2 DEF P2PoolStart
  <2>3. CASE P2PoolWait(t)
    BY <1>1, <2>3 DEF P2PoolWait, P2PoolReady, P2PoolExited, P2PoolTimesOut
  <2>4. QED
    BY <1>6, <2>2, <2>3
<1>7. CASE Watch
  <2>1. CASE Restart
    BY <1>3, <2>1 DEF Restart
  <2>2. CASE SetTarget
    BY <1>1, <2>2 DEF SetTarget, Nodes
  <2>3. CASE ~Restart /\ ~SetTarget
    BY <1>2, <1>7, <2>3
       DEF Watch, WatchEnds, Probe, ReadSettings, HandOff, CloseRelay, StopTor
  <2>4. QED
    BY <2>1, <2>2, <2>3
<1>8. ASSUME NEW l \in Launches, ReadOutput(l) \/ P2PoolRuns(l) PROVE PoolTypes'
  BY <1>1, <1>8 DEF ReadOutput, Scans, Signals, Ends, P2PoolRuns, Processes
<1>9. CASE \/ MonerodSyncs \/ MonerodSignals \/ HubOnion \/ Quit \/ OwnerSaves
           \/ UNCHANGED vars
  BY <1>2, <1>9 DEF MonerodSyncs, MonerodSignals, HubOnion, Quit, OwnerSaves, vars
<1>10. QED
  BY <1>4, <1>5, <1>6, <1>7, <1>8, <1>9 DEF Next

\* The rest of the stack.
SideTypes == /\ setup \in Setups
             /\ {midway, stopped, sTor, sRelay, event} \subseteq BOOLEAN
             /\ tor \in Processes
             /\ hubTor \in [process : Processes, closed : BOOLEAN, held : BOOLEAN,
                            starting : BOOLEAN]
             /\ monerod \in [process : Processes, locked : BOOLEAN, signalled : BOOLEAN]
             /\ relay \in {"none", "open", "closed"}
             /\ taken \in [Threads -> SUBSET {"relay", "tor", "hub"}]
             /\ mining \in {"none", "running", "closed"}
             /\ {settings, known} \subseteq Settings /\ shown \in Nodes \cup {"none"}

LEMMA MonerodLaunched ==
  [process |-> "boot", locked |-> TRUE, signalled |-> FALSE]
    \in [process : Processes, locked : BOOLEAN, signalled : BOOLEAN]
  BY DEF Processes

LEMMA SideTypesKept ==
  ASSUME SideTypes, [Next]_vars
  PROVE  SideTypes'
<1> USE DEF SideTypes, torVars, nodoVars, sideVars
<1>1. UNCHANGED <<torVars, nodoVars, sideVars>> => SideTypes'
  OBVIOUS
<1>2. ASSUME NEW t \in Threads, Take(t), UNCHANGED <<tor, relay, nodoVars>>,
             UNCHANGED <<setup, midway, stopped, hubTor, monerod, mining>>,
             shown' \in {shown, "local"}
      PROVE  SideTypes'
  BY <1>2 DEF Take, Nodes
<1>3. ASSUME NEW t \in Threads, CloseRelay(t) \/ StopTor(t) PROVE SideTypes'
  BY <1>3, StoppedTypes DEF CloseRelay, StopTor
<1>4. CASE Start
  <2>1. CASE Prepare \/ MonerodReturns
    BY <2>1 DEF Prepare, MonerodReturns
  <2>2. CASE StartMonerod
    <3>1. monerod' = monerod
            \/ monerod' = [process |-> "boot", locked |-> TRUE, signalled |-> FALSE]
      BY <2>2 DEF StartMonerod
    <3>2. monerod' \in [process : Processes, locked : BOOLEAN, signalled : BOOLEAN]
      BY <3>1, MonerodLaunched
    <3>3. QED
      BY <2>2, <3>2 DEF StartMonerod
  <2>3. CASE Choose \/ TorReturns
    BY <1>1, <2>3 DEF Choose, TorReturns
  <2>4. CASE RecordTor \/ TorStart
    BY <2>4 DEF RecordTor, TorStart, Processes
  <2>5. CASE Resolve
    BY <2>5 DEF Resolve
  <2>6. CASE Make
    BY <2>6 DEF Make, Followed, Nodes
  <2>7. CASE Beside
    BY <2>7 DEF Beside
  <2>8. CASE StartMiner
    BY <2>8 DEF StartMiner
  <2>9. QED
    BY <1>4, <2>1, <2>2, <2>3, <2>4, <2>5, <2>6, <2>7, <2>8 DEF Start
<1>5. ASSUME NEW c \in Closers, Shutdown(c) PROVE SideTypes'
  <2>1. CASE StopMining(c)
    BY <2>1 DEF StopMining
  <2>2. CASE EndWatches(c)
    BY <2>2 DEF EndWatches
  <2>3. CASE CloseHub(c)
    BY <2>3, StoppedTypes DEF CloseHub
  <2>4. CASE CloseP2Pool(c) \/ StopP2Pool(c)
    BY <1>1, <2>4 DEF CloseP2Pool, StopP2Pool
  <2>5. CASE StopMonerod(c)
    BY <2>5, StoppedTypes DEF StopMonerod
  <2>6. CASE TakeRest(c)
    BY <1>2, <2>6 DEF TakeRest, Threads
  <2>7. QED
    BY <1>3, <1>5, <2>1, <2>2, <2>3, <2>4, <2>5, <2>6 DEF Shutdown, Threads
<1>6. ASSUME NEW t \in {"start", "watch"}, P2PoolStart(t) \/ P2PoolWait(t)
      PROVE  SideTypes'
  BY <1>1, <1>6
     DEF P2PoolStart, P2PoolWait, P2PoolReady, P2PoolExited, P2PoolTimesOut
<1>7. CASE Watch
  <2>1. CASE WatchEnds \/ Probe \/ Restart \/ SetTarget
    BY <1>1, <2>1 DEF WatchEnds, Probe, Restart, SetTarget
  <2>2. CASE ReadSettings
    BY <2>2 DEF ReadSettings
  <2>3. CASE HandOff
    BY <1>2, <2>3 DEF HandOff, Threads
  <2>4. QED
    BY <1>3, <1>7, <2>1, <2>2, <2>3 DEF Watch, Threads
<1>8. ASSUME NEW l \in Launches, ReadOutput(l) \/ P2PoolRuns(l) PROVE SideTypes'
  BY <1>1, <1>8 DEF ReadOutput, P2PoolRuns
<1>9. CASE MonerodSyncs \/ MonerodSignals
  BY <1>9 DEF MonerodSyncs, MonerodSignals, Processes
<1>10. CASE HubOnion
  <2>1. hubTor' \in [process : Processes, closed : BOOLEAN, held : BOOLEAN, starting : BOOLEAN]
    BY <1>10 DEF HubOnion, Processes
  <2>2. QED
    BY <1>10, <2>1 DEF HubOnion
<1>11. CASE Quit
  BY <1>11 DEF Quit
<1>12. CASE OwnerSaves
  BY <1>12, SupervisorAssumption DEF OwnerSaves, SupervisorAssumption, Settings
<1>13. CASE UNCHANGED vars
  BY <1>1, <1>13 DEF vars
<1>14. QED
  BY <1>4, <1>5, <1>6, <1>7, <1>8, <1>9, <1>10, <1>11, <1>12, <1>13 DEF Next

LEMMA TypesAre == Types <=> Positions /\ PoolTypes /\ SideTypes
  BY DEF Types, SupTypeOK, Positions, PoolTypes, SideTypes

LEMMA TypesKept ==
  ASSUME Types, [Next]_vars
  PROVE  Types'
<1>1. Positions' /\ PoolTypes' /\ SideTypes'
  BY TypesAre, PositionsKept, PoolTypesKept, SideTypesKept DEF Types
<1>2. QED
  BY <1>1
     DEF Types, SupTypeOK, Positions, PoolTypes, SideTypes

-----------------------------------------------------------------------------
(* Who moves what.                                                         *)

AtPool == {"launch", "wait", "hand", "relayClose", "torStop"}

\* The way through Start is one way; a watch begins in Beside.
StartWays == /\ pc'["start"] \in StartSteps => pc["start"] \in StartSteps
             /\ pc'["start"] \in Early => pc["start"] \in Early
             /\ pc'["start"] \in BeforeP2Pool => pc["start"] \in BeforeP2Pool
             /\ pc'["start"] \in Early \ BeforeP2Pool
                  => pc["start"] \in Early \ BeforeP2Pool \/ Make
             /\ pc'["start"] = "torStart" => pc["start"] = "torStart" \/ RecordTor
             /\ pc'["start"] = "up" => pc["start"] = "up" \/ StartMiner
             /\ pc["start"] = "up" => pc'["start"] = "up"

\* A shutdown goes step by step, each with what that step does.
DownWays == \A c \in Closers :
  /\ pc[c] \in TookHub => pc'[c] \in TookHub
  /\ pc[c] \in ClosedP2Pool => pc'[c] \in ClosedP2Pool
  /\ pc[c] \in StoppedP2Pool => pc'[c] \in StoppedP2Pool
  /\ pc'[c] \in TookHub => pc[c] \in TookHub \/ EndWatches(c)
  /\ pc'[c] \in ClosedP2Pool => pc[c] \in ClosedP2Pool \/ CloseP2Pool(c)
  /\ pc'[c] \in StoppedP2Pool
       => pc[c] \in StoppedP2Pool \/ StopP2Pool(c) \/ (CloseP2Pool(c) /\ ~p2pool.made)
  /\ pc'[c] \in StoppedMonerod => pc[c] \in StoppedMonerod \/ StopMonerod(c)
  /\ pc'[c] \in TookRest => pc[c] \in TookRest \/ TakeRest(c)
  /\ pc[c] = "hub" => pc'[c] = "hub" \/ CloseHub(c)
  /\ pc[c] = "stop" => pc'[c] = "stop" \/ StopP2Pool(c)

QuitWays == /\ pc'["quit"] # "idle" => pc["quit"] # "idle" \/ Quit
            /\ pc["quit"] # "idle" => pc'["quit"] # "idle"
            /\ pc["quit"] \in {"idle", "down"}
                 => pc'["quit"] \in {"idle", "down"} \/ StopMining("quit")

WatchWays == /\ pc'["watch"] # "none" => pc["watch"] # "none" \/ Beside
             /\ pc'["watch"] \in {"set", "launch"}
                  => pc["watch"] \in {"set", "launch"} \/ Restart
             /\ pc'["watch"] \in AtPool => pc["watch"] \in AtPool \/ SetTarget

\* What was taken is closed by whoever took it.
TakenWays == \A t \in Threads :
  /\ pc[t] \in {"relayClose", "torStop"} => pc'[t] \in {"relayClose", "torStop"} \/ StopTor(t)
  /\ pc[t] = "relayClose" => pc'[t] = "relayClose" \/ CloseRelay(t)

Ways == StartWays /\ DownWays /\ QuitWays /\ WatchWays /\ TakenWays

LEMMA StandingWays == UNCHANGED pc => Ways
  BY DEF Ways, StartWays, DownWays, QuitWays, WatchWays, TakenWays

LEMMA StartGoing ==
  ASSUME Positions, Order, Start
  PROVE  Ways
<1> USE DEF Positions, Ways, StartWays, DownWays, QuitWays, WatchWays, TakenWays, StartSteps,
            DownSteps, Early, BeforeP2Pool, TookHub, ClosedP2Pool, StoppedP2Pool,
            StoppedMonerod, TookRest, AtPool, Threads, Closers, Goto
<1>1. CASE Prepare
  BY <1>1 DEF Prepare
<1>2. CASE StartMonerod \/ MonerodReturns
  BY <1>2 DEF StartMonerod, MonerodReturns
<1>3. CASE Choose
  BY <1>3 DEF Choose
<1>4. CASE RecordTor
  BY <1>4 DEF RecordTor
<1>5. CASE TorStart \/ TorReturns
  BY <1>5 DEF TorStart, TorReturns
<1>6. CASE Resolve
  BY <1>6 DEF Resolve
<1>7. CASE Make
  BY <1>7 DEF Make
<1>8. CASE Beside
  <2>1. /\ pc["start"] = "beside" /\ pc'["start"] = "miner" /\ pc'["quit"] = pc["quit"]
        /\ pc'["watch"] \in {"polling", pc["watch"]}
    BY <1>8 DEF Beside
  <2>2. StartWays
    BY <2>1
  <2>3. WatchWays
    BY <1>8, <2>1
  <2>4. TakenWays
    <3>1. pc["watch"] = "none"
      BY <2>1 DEF Order
    <3>2. QED
      BY <1>8, <2>1, <3>1
  <2>5. QuitWays
    BY <2>1
  <2>6. ASSUME NEW c \in Closers
        PROVE  \/ pc'[c] = pc[c]
               \/ pc[c] = "beside" /\ pc'[c] = "miner"
    BY <2>1
  <2>7. DownWays
    BY <2>6
  <2>8. QED
    BY <2>2, <2>3, <2>4, <2>5, <2>7
<1>9. CASE StartMiner
  BY <1>9 DEF StartMiner
<1>10. QED
  BY <1>1, <1>2, <1>3, <1>4, <1>5, <1>6, <1>7, <1>8, <1>9 DEF Start

LEMMA ShutdownGoing ==
  ASSUME Positions, NEW c \in Closers, Shutdown(c)
  PROVE  Ways
<1> USE DEF Positions, Ways, StartWays, DownWays, QuitWays, WatchWays, TakenWays, StartSteps,
            DownSteps, Early, BeforeP2Pool, TookHub, ClosedP2Pool, StoppedP2Pool,
            StoppedMonerod, TookRest, AtPool, Threads, Closers, Goto
<1>1. CASE StopMining(c)
  BY <1>1 DEF StopMining
<1>2. CASE EndWatches(c)
  BY <1>2 DEF EndWatches
<1>3. CASE CloseHub(c)
  BY <1>3 DEF CloseHub
<1>4. CASE CloseP2Pool(c)
  <2>1. CASE p2pool.made
    BY <1>4, <2>1 DEF CloseP2Pool
  <2>2. CASE ~p2pool.made
    BY <1>4, <2>2 DEF CloseP2Pool
  <2>3. QED
    BY <2>1, <2>2
<1>5. CASE StopP2Pool(c)
  BY <1>5 DEF StopP2Pool
<1>6. CASE StopMonerod(c)
  BY <1>6 DEF StopMonerod
<1>7. CASE TakeRest(c)
  BY <1>7 DEF TakeRest
<1>8. CASE CloseRelay(c)
  BY <1>8 DEF CloseRelay
<1>9. CASE StopTor(c)
  BY <1>9 DEF StopTor
<1>10. QED
  BY <1>1, <1>2, <1>3, <1>4, <1>5, <1>6, <1>7, <1>8, <1>9 DEF Shutdown

LEMMA RestartGoing ==
  ASSUME Positions,
         Watch \/ \E t \in {"start", "watch"} : P2PoolStart(t) \/ P2PoolWait(t)
  PROVE  Ways
<1> USE DEF Positions, Ways, StartWays, DownWays, QuitWays, WatchWays, TakenWays, StartSteps,
            DownSteps, Early, BeforeP2Pool, TookHub, ClosedP2Pool, StoppedP2Pool,
            StoppedMonerod, TookRest, AtPool, WatchSteps, Threads, Closers
<1>1. ASSUME NEW t \in {"start", "watch"}, P2PoolStart(t) PROVE Ways
  BY <1>1 DEF P2PoolStart, OnError, OnReady, Goto
<1>2. ASSUME NEW t \in {"start", "watch"}, P2PoolWait(t) PROVE Ways
  BY <1>2
     DEF P2PoolWait, P2PoolReady, P2PoolExited, P2PoolTimesOut, OnError, OnReady, Goto
<1>3. CASE WatchEnds \/ Probe
  BY <1>3 DEF WatchEnds, Probe, Goto
<1>4. CASE ReadSettings
  BY <1>4 DEF ReadSettings, Goto
<1>5. CASE Restart
  BY <1>5 DEF Restart, Goto
<1>6. CASE SetTarget
  BY <1>6 DEF SetTarget, Goto
<1>7. CASE HandOff
  BY <1>7 DEF HandOff, Goto
<1>8. CASE CloseRelay("watch") \/ StopTor("watch")
  BY <1>8 DEF CloseRelay, StopTor, Goto
<1>9. QED
  BY <1>1, <1>2, <1>3, <1>4, <1>5, <1>6, <1>7, <1>8 DEF Watch

LEMMA AllGoing ==
  ASSUME Positions, Order, [Next]_vars
  PROVE  Ways
<1>1. CASE Quit
  BY <1>1
     DEF Quit, Goto, Positions, Ways, StartWays, DownWays, QuitWays, WatchWays, TakenWays,
         TookHub, ClosedP2Pool, StoppedP2Pool, StoppedMonerod, TookRest, Threads, Closers
<1>2. CASE MonerodSyncs \/ MonerodSignals \/ HubOnion \/ OwnerSaves
  BY <1>2, StandingWays DEF MonerodSyncs, MonerodSignals, HubOnion, OwnerSaves
<1>3. ASSUME NEW l \in Launches, ReadOutput(l) \/ P2PoolRuns(l) PROVE Ways
  BY <1>3, StandingWays DEF ReadOutput, P2PoolRuns
<1>4. CASE UNCHANGED vars
  BY <1>4, StandingWays DEF vars
<1>5. QED
  BY <1>1, <1>2, <1>3, <1>4, StartGoing, ShutdownGoing, RestartGoing DEF Next

\* And what is set where.
Hands ==
  /\ UNCHANGED midway \/ Quit
  /\ \/ UNCHANGED <<p2pool, proc, via>>
     \/ Make \/ Restart \/ SetTarget
     \/ \E c \in Closers : CloseP2Pool(c) \/ StopP2Pool(c)
     \/ \E t \in {"start", "watch"}, l \in Launches : P2PoolStart(t) /\ Launched(l)
     \/ \E l \in Launches : ReadOutput(l) \/ P2PoolRuns(l)
  /\ UNCHANGED mining \/ StartMiner \/ \E c \in Closers : StopMining(c)
  /\ \/ UNCHANGED monerod
     \/ StartMonerod \/ MonerodReturns \/ MonerodSyncs \/ MonerodSignals
     \/ \E c \in Closers : StopMonerod(c)
  /\ \/ UNCHANGED hubTor
     \/ Beside \/ HubOnion
     \/ \E c \in Closers : EndWatches(c) \/ CloseHub(c)
  /\ \/ UNCHANGED taken
     \/ HandOff
     \/ \E c \in Closers : EndWatches(c) \/ TakeRest(c)
  /\ \/ UNCHANGED <<sTor, sRelay>>
     \/ RecordTor \/ Resolve \/ HandOff
     \/ \E c \in Closers : TakeRest(c)
  /\ UNCHANGED tor \/ TorStart \/ \E t \in Threads : StopTor(t)
  /\ UNCHANGED relay \/ Resolve \/ \E t \in Threads : CloseRelay(t)

LEMMA AllHands ==
  ASSUME [Next]_vars
  PROVE  Hands
<1> USE DEF poolVars, torVars, nodoVars, sideVars
<1>1. CASE Start
  BY <1>1
     DEF Hands, Start, Prepare, StartMonerod, MonerodReturns, Choose, RecordTor, TorStart,
         TorReturns, Resolve, Make, Beside, StartMiner
<1>2. ASSUME NEW c \in Closers, Shutdown(c) PROVE Hands
  BY <1>2
     DEF Hands, Shutdown, StopMining, EndWatches, CloseHub, CloseP2Pool, StopP2Pool,
         StopMonerod, TakeRest, CloseRelay, StopTor, Threads
<1>3. ASSUME NEW t \in {"start", "watch"}, P2PoolStart(t) \/ P2PoolWait(t) PROVE Hands
  BY <1>3
     DEF Hands, P2PoolStart, P2PoolWait, P2PoolReady, P2PoolExited, P2PoolTimesOut
<1>4. CASE Watch
  BY <1>4
     DEF Hands, Watch, WatchEnds, Probe, ReadSettings, Restart, SetTarget, HandOff,
         CloseRelay, StopTor, Threads
<1>5. ASSUME NEW l \in Launches, ReadOutput(l) \/ P2PoolRuns(l) PROVE Hands
  BY <1>5 DEF Hands, ReadOutput, P2PoolRuns
<1>6. CASE MonerodSyncs \/ MonerodSignals \/ HubOnion \/ Quit \/ OwnerSaves
  BY <1>6 DEF Hands, MonerodSyncs, MonerodSignals, HubOnion, Quit, OwnerSaves
<1>7. CASE UNCHANGED vars
  BY <1>7 DEF Hands, vars
<1>8. QED
  BY <1>1, <1>2, <1>3, <1>4, <1>5, <1>6, <1>7 DEF Next

\* What a step of this stack is, as far as the rest of the proof needs to know.
Goes == Types /\ Order /\ Ways /\ Hands

LEMMA AllGoes ==
  ASSUME Types, Order, [Next]_vars
  PROVE  Goes
  BY AllGoing, AllHands, TypesAre DEF Goes

\* p2pool is launched where it is neither closed nor running, by a thread that
\* finds it made.
LaunchedBy(t, l) == P2PoolStart(t) /\ Launched(l)
LEMMA LaunchMoves ==
  ASSUME Types, Order, NEW t \in {"start", "watch"}, NEW l \in Launches, LaunchedBy(t, l)
  PROVE  /\ ~p2pool.closed /\ p2pool.made /\ p2pool.cmd = 0
         /\ Goto(t, "launch", "wait")
         /\ p2pool'.cmd = l /\ p2pool'.via = p2pool.via
         /\ p2pool'.made = p2pool.made /\ p2pool'.closed = p2pool.closed
         /\ proc' = [proc EXCEPT ![l] = "boot"] /\ via' = [via EXCEPT ![l] = p2pool.via]
<1> USE DEF LaunchedBy
<1>1. p2pool \in [made : BOOLEAN, closed : BOOLEAN, cmd : 0..MaxLaunches, ready : BOOLEAN,
                  via : Nodes, login : Settings]
  BY DEF Types, SupTypeOK
<1>2. /\ p2pool' = [p2pool EXCEPT !.cmd = l, !.ready = FALSE]
      /\ proc[l] = "none" /\ proc' = [proc EXCEPT ![l] = "boot"]
      /\ via' = [via EXCEPT ![l] = p2pool.via]
  BY DEF Launched
<1>3. /\ p2pool'.cmd = l /\ p2pool'.via = p2pool.via
      /\ p2pool'.made = p2pool.made /\ p2pool'.closed = p2pool.closed
  BY <1>1, <1>2
<1>4. proc \in [Launches -> Processes]
  BY DEF Types, SupTypeOK
<1>5. proc'[l] = "boot" /\ proc' # proc
  BY <1>2, <1>4
<1>6. /\ ~p2pool.closed /\ p2pool.cmd = 0
      /\ Goto(t, "launch", "wait")
  BY <1>5 DEF P2PoolStart, poolVars
<1>7. p2pool.made
  BY <1>6 DEF Goto, Order, Early, BeforeP2Pool, StartSteps
<1>8. QED
  BY <1>2, <1>3, <1>6, <1>7

\* p2pool's record and its processes, step by step.
LEMMA PoolMoves ==
  ASSUME Types, Order, Hands
  PROVE  /\ p2pool.made => p2pool'.made
         /\ p2pool'.made => p2pool.made \/ Make
         /\ p2pool.closed => p2pool'.closed
         /\ p2pool'.cmd # 0
              => \/ p2pool'.cmd = p2pool.cmd
                 \/ ~p2pool.closed /\ p2pool.made
         /\ p2pool'.via # p2pool.via => Make \/ SetTarget
<1> USE DEF poolVars, torVars, nodoVars, sideVars
<1>1. p2pool \in [made : BOOLEAN, closed : BOOLEAN, cmd : 0..MaxLaunches, ready : BOOLEAN,
                  via : Nodes, login : Settings]
  BY DEF Types, SupTypeOK
<1>2. CASE UNCHANGED <<p2pool, proc, via>>
  BY <1>2
<1>3. CASE Make
  BY <1>1, <1>3 DEF Make
<1>4. CASE Restart \/ \E c \in Closers : StopP2Pool(c)
  BY <1>1, <1>4 DEF Restart, StopP2Pool, P2PoolStopped
<1>5. CASE SetTarget
  BY <1>1, <1>5 DEF SetTarget
<1>6. CASE \E c \in Closers : CloseP2Pool(c)
  BY <1>1, <1>6 DEF CloseP2Pool
<1>7. CASE \E t \in {"start", "watch"}, l \in Launches : LaunchedBy(t, l)
  BY <1>7, LaunchMoves
<1>8. CASE \E l \in Launches : ReadOutput(l) \/ P2PoolRuns(l)
  BY <1>1, <1>8 DEF ReadOutput, P2PoolRuns, Scans, Signals, Ends
<1>9. QED
  BY <1>2, <1>3, <1>4, <1>5, <1>6, <1>7, <1>8 DEF Hands, LaunchedBy

\* Who can be where together.
LEMMA OrderKept ==
  ASSUME Goes
  PROVE  Order'
<1> USE DEF Goes, StartSteps, Early, BeforeP2Pool
<1>1. Ways /\ Order /\ Types /\ Hands
  OBVIOUS
<1>2. ~midway' /\ pc'["quit"] # "idle" => pc'["start"] \notin StartSteps
  <2>1. CASE Quit
    <3>1. pc'["start"] = pc["start"] /\ midway' = (pc["start"] \in StartSteps)
      BY <2>1 DEF Quit, Goto, Types, Threads, Closers
    <3>2. QED
      BY <3>1
  <2>2. CASE ~Quit
    <3>1. midway' = midway /\ (pc'["quit"] # "idle" => pc["quit"] # "idle")
      BY <1>1, <2>2 DEF Hands, Ways, QuitWays
    <3>2. pc'["start"] \in StartSteps => pc["start"] \in StartSteps
      BY <1>1 DEF Ways, StartWays
    <3>3. QED
      BY <1>1, <3>1, <3>2 DEF Order
  <2>3. QED
    BY <2>1, <2>2
<1>3. midway' => pc'["quit"] # "idle"
  <2>1. CASE Quit
    BY <1>1, <2>1 DEF Quit, Goto, Types, Threads, Closers
  <2>2. CASE ~Quit
    <3>1. midway' => pc["quit"] # "idle"
      BY <1>1, <2>2 DEF Hands, Order
    <3>2. pc["quit"] # "idle" => pc'["quit"] # "idle"
      BY <1>1 DEF Ways, QuitWays
    <3>3. QED
      BY <3>1, <3>2
  <2>3. QED
    BY <2>1, <2>2
<1>4. pc'["watch"] # "none" => p2pool'.made /\ pc'["start"] \notin Early
  <2>1. CASE pc["watch"] # "none"
    BY <1>1, <2>1, PoolMoves DEF Order, Ways, StartWays
  <2>2. CASE Beside
    <3>1. pc["start"] = "beside" /\ p2pool' = p2pool
      BY <2>2 DEF Beside, poolVars
    <3>2. pc'["start"] = "miner"
      BY <1>1, <2>2 DEF Beside, Types, Threads, Closers
    <3>3. QED
      BY <1>1, <3>1, <3>2 DEF Order
  <2>3. QED
    BY <1>1, <2>1, <2>2 DEF Ways, WatchWays
<1>5. pc'["start"] \in BeforeP2Pool => ~p2pool'.made
  <2>1. SUFFICES ASSUME pc'["start"] \in BeforeP2Pool
                 PROVE  ~p2pool'.made
    OBVIOUS
  <2>2. ~p2pool.made
    BY <1>1, <2>1 DEF Ways, StartWays, Order
  <2>3. ~Make
    BY <1>1, <2>1 DEF Make, Goto, Types, Threads, Closers
  <2>4. QED
    BY <1>1, <2>2, <2>3, PoolMoves
<1>6. pc'["start"] \in Early \ BeforeP2Pool => p2pool'.made
  <2>1. Make => p2pool'.made
    BY <1>1 DEF Make, Types, SupTypeOK
  <2>2. QED
    BY <1>1, <2>1, PoolMoves DEF Ways, StartWays, Order
<1>7. QED
  BY <1>2, <1>3, <1>4, <1>5, <1>6 DEF Order

\* p2pool, part by part.  Where its processes and its record stand still, so
\* does what holds of them, but for where the threads are.
PoolNumbers == /\ p2pool \in [made : BOOLEAN, closed : BOOLEAN, cmd : 0..MaxLaunches,
                              ready : BOOLEAN, via : Nodes, login : Settings]
               /\ proc \in [Launches -> Processes] /\ via \in [Launches -> Nodes]

OneProcess == \A l \in Launches : proc[l] \in Alive => p2pool.cmd = l /\ via[l] = p2pool.via
NoneYet == ~p2pool.made => p2pool.cmd = 0 /\ ~p2pool.closed
ClosedIsDown == p2pool.closed /\ (\A c \in Closers : pc[c] # "stop") => p2pool.cmd = 0

LEMMA NoProcess ==
  ASSUME Types, Pool, p2pool.cmd = 0, NEW l \in Launches
  PROVE  proc[l] \notin Alive
  BY SupervisorAssumption DEF Pool, Launches

LEMMA OneProcessKept ==
  ASSUME Goes, Pool
  PROVE  OneProcess'
<1> USE DEF Goes
<1>1. OneProcess /\ PoolNumbers
  BY DEF Pool, OneProcess, PoolNumbers, Types, SupTypeOK
<1>2. CASE UNCHANGED <<p2pool, proc, via>>
  BY <1>1, <1>2 DEF OneProcess
<1>3. CASE Make
  <2>1. p2pool.cmd = 0 /\ proc' = proc
    BY <1>3 DEF Make, Goto, Order, Pool, BeforeP2Pool, Early, StartSteps
  <2>2. QED
    BY <2>1, NoProcess DEF OneProcess
<1>4. CASE P2PoolStopped
  <2>1. ASSUME NEW l \in Launches PROVE proc'[l] \notin Alive
    <3>1. CASE p2pool.cmd = 0
      BY <1>4, <3>1, NoProcess DEF P2PoolStopped
    <3>2. CASE p2pool.cmd = l /\ l # 0
      BY <1>1, <1>4, <3>2 DEF P2PoolStopped, PoolNumbers, Alive
    <3>3. CASE p2pool.cmd # 0 /\ p2pool.cmd # l
      <4>1. proc[l] \notin Alive
        BY <1>1, <3>3 DEF OneProcess
      <4>2. proc'[l] = proc[l]
        BY <1>1, <1>4, <3>3 DEF P2PoolStopped, PoolNumbers
      <4>3. QED
        BY <4>1, <4>2
    <3>4. l # 0
      BY SupervisorAssumption DEF Launches
    <3>5. QED
      BY <3>1, <3>2, <3>3, <3>4
  <2>2. QED
    BY <2>1 DEF OneProcess
<1>5. CASE SetTarget
  <2>1. p2pool.cmd = 0 /\ proc' = proc
    BY <1>5 DEF SetTarget, Goto, Pool
  <2>2. QED
    BY <2>1, NoProcess DEF OneProcess
<1>6. ASSUME NEW c \in Closers, CloseP2Pool(c) PROVE OneProcess'
  <2>1. /\ p2pool'.cmd = p2pool.cmd /\ p2pool'.via = p2pool.via
        /\ proc' = proc /\ via' = via
    BY <1>1, <1>6 DEF CloseP2Pool, PoolNumbers
  <2>2. QED
    BY <1>1, <2>1 DEF OneProcess
<1>7. ASSUME NEW t \in {"start", "watch"}, NEW k \in Launches, LaunchedBy(t, k)
      PROVE  OneProcess'
  <2>1. /\ p2pool.cmd = 0 /\ p2pool'.cmd = k /\ p2pool'.via = p2pool.via
        /\ proc' = [proc EXCEPT ![k] = "boot"] /\ via' = [via EXCEPT ![k] = p2pool.via]
    BY <1>7, LaunchMoves
  <2>2. ASSUME NEW l \in Launches, proc'[l] \in Alive PROVE l = k
    BY <1>1, <2>1, <2>2, NoProcess DEF PoolNumbers
  <2>3. via'[k] = p2pool.via
    BY <1>1, <2>1 DEF PoolNumbers
  <2>4. QED
    BY <2>1, <2>2, <2>3 DEF OneProcess
<1>8. ASSUME NEW k \in Launches, ReadOutput(k) \/ P2PoolRuns(k) PROVE OneProcess'
  <2>1. /\ p2pool'.cmd = p2pool.cmd /\ p2pool'.via = p2pool.via /\ via' = via
        /\ \A l \in Launches : proc'[l] \in Alive => proc[l] \in Alive
    BY <1>1, <1>8
       DEF ReadOutput, Scans, Signals, Ends, P2PoolRuns, PoolNumbers, Alive
  <2>2. QED
    BY <1>1, <2>1 DEF OneProcess
<1>9. QED
  BY <1>2, <1>3, <1>4, <1>5, <1>6, <1>7, <1>8 DEF Hands, LaunchedBy, Restart, StopP2Pool

LEMMA ClosedIsDownKept ==
  ASSUME Goes, Pool
  PROVE  ClosedIsDown'
<1> USE DEF Goes
<1>1. PoolNumbers
  BY DEF PoolNumbers, Types, SupTypeOK
<1>2. SUFFICES ASSUME p2pool'.closed, \A c \in Closers : pc'[c] # "stop"
               PROVE  p2pool'.cmd = 0
  BY DEF ClosedIsDown
<1>3. CASE \E c \in Closers : StopP2Pool(c)
  BY <1>1, <1>3 DEF StopP2Pool, P2PoolStopped, PoolNumbers
<1>4. CASE \E c \in Closers : CloseP2Pool(c)
  <2>1. PICK c \in Closers : CloseP2Pool(c)
    BY <1>4
  <2>2. pc'[c] = IF p2pool.made THEN "stop" ELSE "monerodStop"
    BY <2>1 DEF CloseP2Pool, Goto, Types, Threads
  <2>3. ~p2pool.made
    BY <1>2, <2>2
  <2>4. p2pool'.closed = FALSE
    BY <1>1, <2>1, <2>3 DEF CloseP2Pool, Pool, PoolNumbers
  <2>5. QED
    BY <1>2, <2>4
<1>5. CASE ~(\E c \in Closers : StopP2Pool(c) \/ CloseP2Pool(c))
  <2>1. \A c \in Closers : pc[c] # "stop"
    BY <1>2, <1>5 DEF Ways, DownWays
  <2>2. p2pool'.closed = p2pool.closed
    <3>1. CASE Make \/ SetTarget
      BY <1>1, <3>1 DEF Make, SetTarget, PoolNumbers
    <3>2. CASE Restart
      BY <1>1, <3>2 DEF Restart, P2PoolStopped, PoolNumbers
    <3>3. CASE \E t \in {"start", "watch"}, l \in Launches : LaunchedBy(t, l)
      BY <3>3, LaunchMoves
    <3>4. CASE \E l \in Launches : ReadOutput(l) \/ P2PoolRuns(l)
      BY <1>1, <3>4 DEF ReadOutput, Scans, Signals, Ends, P2PoolRuns, PoolNumbers
    <3>5. QED
      BY <1>5, <3>1, <3>2, <3>3, <3>4 DEF Hands, LaunchedBy
  <2>3. p2pool.cmd = 0
    BY <1>2, <2>1, <2>2 DEF Pool
  <2>4. QED
    BY <1>2, <2>2, <2>3, PoolMoves
<1>6. QED
  BY <1>3, <1>4, <1>5

LEMMA PoolKept ==
  ASSUME Goes, Pool
  PROVE  Pool'
<1> USE DEF Goes
<1>1. PoolNumbers /\ Order'
  BY OrderKept DEF PoolNumbers, Types, SupTypeOK
<1>2. NoneYet'
  <2>1. SUFFICES ASSUME ~p2pool'.made
                 PROVE  p2pool'.cmd = 0 /\ ~p2pool'.closed
    BY DEF NoneYet
  <2>2. ~p2pool.made /\ p2pool.cmd = 0 /\ ~p2pool.closed
    BY <2>1, PoolMoves DEF Pool
  <2>3. p2pool'.cmd = 0
    BY <2>2, PoolMoves
  <2>4. ~p2pool'.closed
    <3>1. CASE Make \/ SetTarget \/ Restart \/ \E c \in Closers : StopP2Pool(c)
      BY <1>1, <2>2, <3>1
         DEF Make, SetTarget, Restart, StopP2Pool, P2PoolStopped, PoolNumbers
    <3>2. CASE \E t \in {"start", "watch"}, l \in Launches : LaunchedBy(t, l)
      BY <2>2, <3>2, LaunchMoves
    <3>3. CASE \E l \in Launches : ReadOutput(l) \/ P2PoolRuns(l)
      BY <1>1, <2>2, <3>3 DEF ReadOutput, Scans, Signals, Ends, P2PoolRuns, PoolNumbers
    <3>4. CASE \E c \in Closers : CloseP2Pool(c)
      BY <1>1, <2>2, <3>4 DEF CloseP2Pool, PoolNumbers
    <3>5. QED
      BY <2>2, <3>1, <3>2, <3>3, <3>4 DEF Hands, LaunchedBy
  <2>5. QED
    BY <2>3, <2>4
<1>3. pc'["watch"] \in {"set", "launch"} => p2pool'.cmd = 0
  <2>1. SUFFICES ASSUME pc'["watch"] \in {"set", "launch"}
                 PROVE  p2pool'.cmd = 0
    OBVIOUS
  <2>2. CASE Restart
    BY <1>1, <2>2 DEF Restart, P2PoolStopped, PoolNumbers
  <2>3. CASE ~Restart
    <3>1. pc["watch"] \in {"set", "launch"} /\ p2pool.cmd = 0
      BY <2>1, <2>3 DEF Ways, WatchWays, Pool
    <3>2. ASSUME NEW t \in {"start", "watch"}, NEW l \in Launches, LaunchedBy(t, l)
          PROVE  FALSE
      <4>1. Goto(t, "launch", "wait")
        BY <3>2, LaunchMoves
      <4>2. CASE t = "watch"
        BY <2>1, <4>1, <4>2 DEF Goto, Types, Threads
      <4>3. CASE t = "start"
        BY <3>1, <4>1, <4>3 DEF Goto, Order, Early, StartSteps
      <4>4. QED
        BY <4>2, <4>3
    <3>3. CASE Make \/ SetTarget \/ \E c \in Closers : CloseP2Pool(c)
      BY <1>1, <3>1, <3>3 DEF Make, SetTarget, CloseP2Pool, PoolNumbers
    <3>4. CASE \E c \in Closers : StopP2Pool(c)
      BY <1>1, <3>4 DEF StopP2Pool, P2PoolStopped, PoolNumbers
    <3>5. CASE \E l \in Launches : ReadOutput(l) \/ P2PoolRuns(l)
      BY <1>1, <3>1, <3>5 DEF ReadOutput, Scans, Signals, Ends, P2PoolRuns, PoolNumbers
    <3>6. QED
      BY <2>3, <3>1, <3>2, <3>3, <3>4, <3>5 DEF Hands, LaunchedBy
  <2>4. QED
    BY <2>2, <2>3
<1>4. pc'["watch"] \in AtPool => p2pool'.via = "local"
  <2>1. SUFFICES ASSUME pc'["watch"] \in AtPool
                 PROVE  p2pool'.via = "local"
    OBVIOUS
  <2>2. CASE SetTarget
    BY <1>1, <2>2 DEF SetTarget, PoolNumbers
  <2>3. CASE Make
    BY <1>1, <2>1, <2>3 DEF Make, Goto, Order, Types, AtPool, BeforeP2Pool, Early, StartSteps
  <2>4. CASE ~SetTarget /\ ~Make
    BY <2>1, <2>4, PoolMoves DEF Ways, WatchWays, Pool, AtPool
  <2>5. QED
    BY <2>2, <2>3, <2>4
<1>5. QED
  BY <1>2, <1>3, <1>4, OneProcessKept, ClosedIsDownKept
     DEF Pool, AtPool, OneProcess, NoneYet, ClosedIsDown

-----------------------------------------------------------------------------
(* What a shutdown has behind it, where the quit did not come midway.  Then    *)
(* nothing of Start's is left to happen once a shutdown has begun.             *)

\* While Start runs nobody shuts down.
LEMMA NobodyShutsDown ==
  ASSUME Types, Order, ~midway, pc["start"] \in StartSteps
  PROVE  \A c \in Closers : pc[c] \notin TookHub
  BY DEF Order, StartSteps, TookHub, Closers

LEMMA QuietlyMidway ==
  ASSUME Goes, ~midway'
  PROVE  ~midway
  BY DEF Goes, Hands, Quit, Goto, Order

LEMMA Stages == /\ TookRest \subseteq StoppedMonerod /\ StoppedMonerod \subseteq StoppedP2Pool
                /\ StoppedP2Pool \subseteq ClosedP2Pool /\ ClosedP2Pool \subseteq TookHub
  BY DEF TookHub, ClosedP2Pool, StoppedP2Pool, StoppedMonerod, TookRest

LEMMA DownKept ==
  ASSUME Goes, ~midway, Pool, Down
  PROVE  Down'
<1> USE DEF Goes
<1>1. ASSUME p2pool'.made, NEW c \in Closers, pc'[c] \in ClosedP2Pool
      PROVE  p2pool'.closed
  <2>1. CASE CloseP2Pool(c)
    BY <1>1, <2>1 DEF CloseP2Pool, Types, SupTypeOK
  <2>2. CASE pc[c] \in ClosedP2Pool /\ p2pool.made
    BY <2>2, PoolMoves DEF Down, Past
  <2>3. CASE pc[c] \in ClosedP2Pool /\ ~p2pool.made
    <3>1. Make
      BY <1>1, <2>3, PoolMoves
    <3>2. pc["start"] \in StartSteps
      BY <3>1 DEF Make, Goto, StartSteps
    <3>3. QED
      BY <2>3, <3>2, NobodyShutsDown, Stages
  <2>4. QED
    BY <1>1, <2>1, <2>2, <2>3 DEF Ways, DownWays
<1>2. ASSUME NEW c \in Closers, pc'[c] \in StoppedP2Pool
      PROVE  p2pool'.cmd = 0
  <2>1. CASE StopP2Pool(c)
    BY <2>1 DEF StopP2Pool, P2PoolStopped, Types, SupTypeOK
  <2>2. CASE CloseP2Pool(c) /\ ~p2pool.made
    BY <2>2 DEF CloseP2Pool, Pool, Types, SupTypeOK
  <2>3. CASE pc[c] \in StoppedP2Pool
    <3>1. p2pool.cmd = 0 /\ (p2pool.made => p2pool.closed)
      BY <2>3, Stages DEF Down, Past
    <3>2. QED
      BY <3>1, PoolMoves
  <2>4. QED
    BY <1>2, <2>1, <2>2, <2>3 DEF Ways, DownWays
<1>3. ASSUME mining' = "running"
      PROVE  pc'["start"] = "up" /\ pc'["quit"] \in {"idle", "down"}
  <2>1. ASSUME NEW c \in Closers PROVE ~StopMining(c)
    BY <1>3 DEF StopMining
  <2>2. CASE mining = "running"
    <3>1. pc["start"] = "up" /\ pc["quit"] \in {"idle", "down"}
      BY <2>2 DEF Down
    <3>2. QED
      BY <2>1, <3>1 DEF Ways, StartWays, QuitWays, Closers
  <2>3. CASE StartMiner /\ mining # "running"
    <3>1. pc["start"] = "miner" /\ pc' = [pc EXCEPT !["start"] = "up"]
      BY <1>3, <2>3 DEF StartMiner, Goto
    <3>2. pc["quit"] = "idle"
      BY <3>1 DEF Order, StartSteps
    <3>3. QED
      BY <3>1, <3>2 DEF Types, Threads, Closers
  <2>4. QED
    BY <1>3, <2>1, <2>2, <2>3 DEF Hands
<1>4. ASSUME monerod'.process \in Alive, NEW c \in Closers, pc'[c] \in StoppedMonerod
      PROVE  FALSE
  <2>1. monerod \in [process : Processes, locked : BOOLEAN, signalled : BOOLEAN]
    BY DEF Types, SupTypeOK
  <2>2. ASSUME NEW d \in Closers PROVE ~StopMonerod(d)
    BY <1>4, <2>1, StoppedTypes DEF StopMonerod
  <2>3. pc[c] \in StoppedMonerod
    BY <1>4, <2>2 DEF Ways, DownWays
  <2>4. monerod.process \notin Alive
    BY <2>3 DEF Down, Past
  <2>5. CASE StartMonerod
    <3>1. pc["start"] \in StartSteps
      BY <2>5 DEF StartMonerod, Goto, StartSteps
    <3>2. QED
      BY <2>3, <3>1, NobodyShutsDown, Stages
  <2>6. CASE MonerodReturns \/ MonerodSyncs \/ MonerodSignals \/ UNCHANGED monerod
    BY <1>4, <2>1, <2>4, <2>6 DEF MonerodReturns, MonerodSyncs, MonerodSignals, Alive
  <2>7. QED
    BY <2>2, <2>5, <2>6 DEF Hands
<1>5. QED
  BY <1>1, <1>2, <1>3, <1>4 DEF Down, Past

\* What a thread has taken it keeps until it has closed it.
LEMMA TakenKept ==
  ASSUME Types, Hands, NEW t \in Threads,
         pc[t] \in {"hub", "relayClose", "torStop"}, pc'[t] \in {"hub", "relayClose", "torStop"}
  PROVE  taken'[t] = taken[t]
<1>1. taken \in [Threads -> SUBSET {"relay", "tor", "hub"}]
  BY DEF Types, SupTypeOK
<1>2. CASE HandOff
  BY <1>1, <1>2 DEF HandOff, Take, Goto, Threads
<1>3. ASSUME NEW c \in Closers, EndWatches(c) PROVE taken'[t] = taken[t]
  BY <1>1, <1>3 DEF EndWatches, Goto, Threads
<1>4. ASSUME NEW c \in Closers, TakeRest(c) PROVE taken'[t] = taken[t]
  BY <1>1, <1>4 DEF TakeRest, Take, Goto, Threads
<1>5. QED
  BY <1>2, <1>3, <1>4 DEF Hands

\* The hub's Tor.
HubUp == hubTor.process \in Alive \/ (hubTor.starting /\ ~hubTor.closed)
HubInHand(c) == pc[c] = "hub" /\ "hub" \in taken[c]

LEMMA HubKept ==
  ASSUME Goes, ~midway, HubHeld
  PROVE  HubHeld'
<1> USE DEF Goes
<1>1. hubTor \in [process : Processes, closed : BOOLEAN, held : BOOLEAN, starting : BOOLEAN]
  BY DEF Types, SupTypeOK
<1>2. ASSUME hubTor'.held, NEW c \in Closers, pc'[c] \in TookHub
      PROVE  FALSE
  <2>1. ASSUME NEW d \in Closers PROVE ~EndWatches(d)
    BY <1>1, <1>2 DEF EndWatches
  <2>2. pc[c] \in TookHub
    BY <1>2, <2>1 DEF Ways, DownWays
  <2>3. ~hubTor.held
    BY <2>2 DEF HubHeld, Past
  <2>4. ~Beside
    BY <2>2, NobodyShutsDown DEF Beside, StartSteps
  <2>5. QED
    BY <1>1, <1>2, <2>1, <2>3, <2>4 DEF Hands, HubOnion, CloseHub
<1>3. ASSUME HubUp'
      PROVE  hubTor'.held \/ \E c \in Closers : HubInHand(c)'
  <2>1. ASSUME NEW c \in Closers, HubInHand(c), ~CloseHub(c)
        PROVE  HubInHand(c)'
    <3>1. pc'[c] = "hub"
      BY <2>1 DEF HubInHand, Ways, DownWays
    <3>2. QED
      BY <2>1, <3>1, TakenKept DEF HubInHand, Threads
  <2>2. HubUp => hubTor.held \/ \E c \in Closers : HubInHand(c)
    BY DEF HubHeld, HubUp, HubInHand
  <2>3. CASE Beside
    <3>1. CASE hubTor'.held
      BY <3>1
    <3>2. CASE ~hubTor'.held
      <4>1. hubTor' = hubTor /\ taken' = taken
        BY <1>1, <2>3, <3>2 DEF Beside
      <4>2. ASSUME NEW c \in Closers, HubInHand(c) PROVE HubInHand(c)'
        BY <2>3, <4>1, <4>2 DEF Beside, HubInHand, Types, Closers, Threads
      <4>3. QED
        BY <1>3, <2>2, <4>1, <4>2 DEF HubUp
    <3>3. QED
      BY <3>1, <3>2
  <2>4. CASE HubOnion
    <3>1. HubUp /\ hubTor'.held = hubTor.held /\ pc' = pc /\ taken' = taken
      BY <1>1, <1>3, <2>4 DEF HubOnion, HubUp
    <3>2. QED
      BY <2>2, <3>1 DEF HubInHand
  <2>5. ASSUME NEW c \in Closers, CloseHub(c)
        PROVE  hubTor'.held \/ \E d \in Closers : HubInHand(d)'
    <3>1. /\ "hub" \notin taken[c] /\ hubTor' = hubTor /\ taken' = taken
          /\ pc' = [pc EXCEPT ![c] = "close"]
      <4>1. "hub" \notin taken[c]
        BY <1>1, <1>3, <2>5, StoppedTypes DEF CloseHub, HubUp
      <4>2. QED
        BY <2>5, <4>1 DEF CloseHub, Goto
    <3>2. ASSUME NEW d \in Closers, HubInHand(d) PROVE HubInHand(d)'
      BY <3>1, <3>2 DEF HubInHand, Types, Threads
    <3>3. QED
      BY <1>3, <2>2, <3>1, <3>2 DEF HubUp
  <2>6. ASSUME NEW c \in Closers, EndWatches(c)
        PROVE  hubTor'.held \/ \E d \in Closers : HubInHand(d)'
    <3>1. HubUp
      BY <1>1, <1>3, <2>6 DEF EndWatches, HubUp
    <3>2. CASE hubTor.held
      BY <2>6, <3>2 DEF EndWatches, Goto, HubInHand, Types, SupTypeOK, Threads
    <3>3. ASSUME NEW d \in Closers, HubInHand(d) PROVE HubInHand(d)'
      BY <2>6, <3>3 DEF EndWatches, Goto, HubInHand, Types, SupTypeOK, Threads
    <3>4. QED
      BY <2>2, <3>1, <3>2, <3>3
  <2>7. CASE UNCHANGED hubTor
    <3>1. HubUp
      BY <1>3, <2>7 DEF HubUp
    <3>2. CASE \E c \in Closers : CloseHub(c)
      BY <2>5, <3>2
    <3>3. CASE ~\E c \in Closers : CloseHub(c)
      BY <2>1, <2>2, <2>7, <3>1, <3>3
    <3>4. QED
      BY <3>2, <3>3
  <2>8. QED
    BY <2>3, <2>4, <2>5, <2>6, <2>7 DEF Hands
<1>4. QED
  BY <1>2, <1>3 DEF HubHeld, HubUp, HubInHand, Past

\* Our Tor and the relay.
OursToStop(t) == pc[t] \in {"relayClose", "torStop"} /\ "tor" \in taken[t]
OursToClose(t) == pc[t] = "relayClose" /\ "relay" \in taken[t]

\* Whoever takes them has them in hand, whole.
LEMMA TakenInHand ==
  ASSUME Types, NEW t \in Threads, (t = "watch" /\ HandOff) \/ (t \in Closers /\ TakeRest(t))
  PROVE  (sTor => OursToStop(t)') /\ (sRelay => OursToClose(t)')
<1>1. pc'[t] = "relayClose"
  BY DEF HandOff, TakeRest, Goto, Types
<1>2. taken'[t] = {x \in {"relay", "tor"} : IF x = "tor" THEN sTor ELSE sRelay}
  BY DEF HandOff, TakeRest, Take, Types, SupTypeOK
<1>3. QED
  BY <1>1, <1>2 DEF OursToStop, OursToClose

LEMMA StillInHand ==
  ASSUME Goes, NEW t \in Threads
  PROVE  /\ OursToStop(t) /\ ~StopTor(t) => OursToStop(t)'
         /\ OursToClose(t) /\ ~CloseRelay(t) => OursToClose(t)'
<1> USE DEF Goes
<1>1. ASSUME OursToStop(t), ~StopTor(t) PROVE OursToStop(t)'
  <2>1. pc'[t] \in {"relayClose", "torStop"}
    BY <1>1 DEF OursToStop, Ways, TakenWays
  <2>2. QED
    BY <1>1, <2>1, TakenKept DEF OursToStop
<1>2. ASSUME OursToClose(t), ~CloseRelay(t) PROVE OursToClose(t)'
  <2>1. pc'[t] = "relayClose"
    BY <1>2 DEF OursToClose, Ways, TakenWays
  <2>2. QED
    BY <1>2, <2>1, TakenKept DEF OursToClose
<1>3. QED
  BY <1>1, <1>2

\* s.tor and s.relay are set in Start and cleared by whoever takes them.
LEMMA HeldOrTaken ==
  ASSUME Goes
  PROVE  /\ sTor => sTor' \/ \E t \in Threads : OursToStop(t)'
         /\ sRelay => sRelay' \/ \E t \in Threads : OursToClose(t)'
<1> USE DEF Goes
<1>1. CASE HandOff
  BY <1>1, TakenInHand DEF Threads
<1>2. ASSUME NEW c \in Closers, TakeRest(c)
      PROVE  /\ sTor => \E t \in Threads : OursToStop(t)'
             /\ sRelay => \E t \in Threads : OursToClose(t)'
  BY <1>2, TakenInHand DEF Threads
<1>3. CASE RecordTor \/ Resolve \/ UNCHANGED <<sTor, sRelay>>
  BY <1>3 DEF RecordTor, Resolve
<1>4. QED
  BY <1>1, <1>2, <1>3 DEF Hands

LEMMA TorKept ==
  ASSUME Goes, ~midway, TorHeld
  PROVE  TorHeld'
<1> USE DEF Goes
<1>1. ASSUME sTor' \/ sRelay', NEW c \in Closers, pc'[c] \in TookRest
      PROVE  FALSE
  <2>1. ASSUME NEW d \in Closers PROVE ~TakeRest(d)
    BY <1>1 DEF TakeRest, Take
  <2>2. pc[c] \in TookRest
    BY <1>1, <2>1 DEF Ways, DownWays
  <2>3. ~sTor /\ ~sRelay
    BY <2>2 DEF TorHeld, Past
  <2>4. ~RecordTor /\ ~Resolve
    <3>1. pc["start"] \notin StartSteps
      BY <2>2, NobodyShutsDown, Stages
    <3>2. QED
      BY <3>1 DEF RecordTor, Resolve, Goto, StartSteps
  <2>5. ~HandOff
    BY <1>1 DEF HandOff, Take
  <2>6. QED
    BY <1>1, <2>1, <2>3, <2>4, <2>5 DEF Hands
<1>2. ASSUME pc'["start"] = "torStart"
      PROVE  sTor'
  <2>1. CASE RecordTor
    BY <2>1 DEF RecordTor
  <2>2. CASE pc["start"] = "torStart"
    <3>1. sTor
      BY <2>2 DEF TorHeld
    <3>2. ~HandOff
      BY <2>2 DEF HandOff, Goto, Order, Early, StartSteps
    <3>3. ASSUME NEW c \in Closers PROVE ~TakeRest(c)
      <4>1. CASE c = "start"
        BY <2>2, <4>1 DEF TakeRest, Goto
      <4>2. CASE c = "quit"
        BY <2>2, <4>2 DEF TakeRest, Goto, Order, StartSteps
      <4>3. QED
        BY <4>1, <4>2 DEF Closers
    <3>4. QED
      BY <3>1, <3>2, <3>3 DEF Hands, RecordTor, Resolve
  <2>3. QED
    BY <1>2, <2>1, <2>2 DEF Ways, StartWays
<1>3. ASSUME tor' \in Alive
      PROVE  sTor' \/ \E t \in Threads : OursToStop(t)'
  <2>1. CASE TorStart /\ tor' # tor
    <3>1. pc["start"] = "torStart" /\ sTor' = sTor
      BY <2>1 DEF TorStart, Goto
    <3>2. QED
      BY <3>1 DEF TorHeld
  <2>2. ASSUME NEW t \in Threads, StopTor(t), tor' # tor
        PROVE  FALSE
    BY <1>3, <2>2, StoppedTypes DEF StopTor, Types, SupTypeOK
  <2>3. CASE tor' = tor
    <3>1. sTor \/ \E t \in Threads : OursToStop(t)
      BY <1>3, <2>3 DEF TorHeld, OursToStop
    <3>2. ASSUME NEW t \in Threads, OursToStop(t) PROVE ~StopTor(t)
      BY <1>3, <2>3, <3>2, StoppedTypes DEF OursToStop, StopTor, Types, SupTypeOK
    <3>3. QED
      BY <3>1, <3>2, HeldOrTaken, StillInHand
  <2>4. QED
    BY <2>1, <2>2, <2>3 DEF Hands
<1>4. ASSUME relay' = "open"
      PROVE  sRelay' \/ \E t \in Threads : OursToClose(t)'
  <2>1. CASE Resolve /\ relay' # relay
    BY <2>1 DEF Resolve
  <2>2. ASSUME NEW t \in Threads, CloseRelay(t), relay' # relay
        PROVE  FALSE
    BY <1>4, <2>2 DEF CloseRelay
  <2>3. CASE relay' = relay
    <3>1. sRelay \/ \E t \in Threads : OursToClose(t)
      BY <1>4, <2>3 DEF TorHeld, OursToClose
    <3>2. ASSUME NEW t \in Threads, OursToClose(t) PROVE ~CloseRelay(t)
      BY <1>4, <3>2 DEF OursToClose, CloseRelay
    <3>3. QED
      BY <3>1, <3>2, HeldOrTaken, StillInHand
  <2>4. QED
    BY <2>1, <2>2, <2>3 DEF Hands
<1>5. QED
  BY <1>1, <1>2, <1>3, <1>4 DEF TorHeld, OursToStop, OursToClose, Past

LEMMA RelayStepKept ==
  ASSUME Goes, ~midway, Pool, RelayHeld
  PROVE  RelayHeld'
<1> USE DEF Goes
<1>1. ASSUME pc'["start"] \in Early
      PROVE  relay' # "closed" /\ tor' # "gone"
  <2>1. pc["start"] \in Early /\ relay # "closed" /\ tor # "gone"
    BY <1>1 DEF Ways, StartWays, RelayHeld
  <2>2. ASSUME NEW t \in Threads PROVE pc[t] \notin {"relayClose", "torStop"}
    BY <2>1 DEF Order, Early, StartSteps, Threads, Closers
  <2>3. \A t \in Threads : ~CloseRelay(t) /\ ~StopTor(t)
    BY <2>2 DEF CloseRelay, StopTor, Goto
  <2>4. QED
    BY <2>1, <2>3 DEF Hands, Resolve, TorStart
<1>2. ASSUME p2pool'.via = "relay", relay' # "open" \/ tor' = "gone"
      PROVE  \E c \in Closers : pc'[c] \in StoppedP2Pool
  <2>1. ASSUME NEW c \in Closers, pc[c] \in StoppedP2Pool
        PROVE  pc'[c] \in StoppedP2Pool
    BY <2>1 DEF Ways, DownWays
  <2>2. CASE p2pool.via = "relay" /\ (relay # "open" \/ tor = "gone")
    BY <2>1, <2>2 DEF RelayHeld, Past
  <2>3. CASE p2pool.via = "relay" /\ relay = "open" /\ tor # "gone"
    <3>1. ~Resolve \/ relay' = relay
      BY <2>3 DEF Resolve
    <3>2. ~TorStart \/ tor' # "gone"
      BY <2>3 DEF TorStart
    <3>3. PICK t \in Threads : CloseRelay(t) \/ StopTor(t)
      BY <1>2, <2>3, <3>1, <3>2 DEF Hands, Resolve
    <3>4. pc[t] \in {"relayClose", "torStop"}
      BY <3>3 DEF CloseRelay, StopTor, Goto
    <3>5. t # "watch"
      BY <2>3, <3>4 DEF Pool
    <3>6. pc[t] \in StoppedP2Pool /\ t \in Closers
      BY <3>4, <3>5 DEF StoppedP2Pool, ClosedP2Pool, TookHub, Threads
    <3>7. QED
      BY <2>1, <3>6
  <2>4. CASE p2pool.via # "relay"
    <3>1. ~SetTarget
      BY <1>2 DEF SetTarget, Types, SupTypeOK
    <3>2. Make
      BY <1>2, <2>4, <3>1, PoolMoves
    <3>3. p2pool'.via = Followed /\ pc["start"] = "make" /\ relay' = relay /\ tor' = tor
      BY <3>2 DEF Make, Goto, torVars, Types, SupTypeOK
    <3>4. relay # "none" /\ relay # "closed" /\ tor # "gone"
      BY <1>2, <3>3 DEF Followed, RelayHeld, Early, StartSteps
    <3>5. QED
      BY <1>2, <3>3, <3>4 DEF Types, SupTypeOK
  <2>5. QED
    BY <2>2, <2>3, <2>4
<1>3. QED
  BY <1>1, <1>2 DEF RelayHeld, Past

-----------------------------------------------------------------------------
(* The theorems.                                                           *)

LEMMA InitInv == Init => StackInv
<1> SUFFICES ASSUME Init PROVE StackInv
  OBVIOUS
<1>1. Types
  <2>1. 0 \in Settings /\ 0 \in 0..MaxLaunches
    BY SupervisorAssumption DEF SupervisorAssumption, Settings
  <2>2. Positions
    BY DEF Init, Positions, Steps, StartSteps, DownSteps, WatchSteps, Threads, Closers
  <2>3. PoolTypes
    BY <2>1 DEF Init, PoolTypes, Nodes, Processes
  <2>4. SideTypes
    BY <2>1 DEF Init, SideTypes, Processes, Nodes
  <2>5. QED
    BY <2>2, <2>3, <2>4, TypesAre
<1>2. /\ pc["start"] = "prepare" /\ pc["quit"] = "idle" /\ pc["watch"] = "none"
      /\ \A c \in Closers : pc[c] \notin TookHub
  BY DEF Init, Threads, Closers, TookHub
<1>3. Order
  BY <1>2 DEF Init, Order, StartSteps, Early, BeforeP2Pool
<1>4. Pool
  BY <1>2 DEF Init, Pool, Alive
<1>5. Down
  BY <1>2, Stages DEF Init, Down, Past, Alive
<1>6. HubHeld
  BY <1>2 DEF Init, HubHeld, Past, Alive
<1>7. TorHeld
  BY <1>2, Stages DEF Init, TorHeld, Past, Alive
<1>8. RelayHeld
  BY <1>2 DEF Init, RelayHeld
<1>9. QED
  BY <1>1, <1>3, <1>4, <1>5, <1>6, <1>7, <1>8 DEF StackInv

LEMMA StackInvKept ==
  ASSUME StackInv, [Next]_vars
  PROVE  StackInv'
<1>1. Goes /\ Pool
  BY AllGoes DEF StackInv
<1>2. Types' /\ Order' /\ Pool'
  BY <1>1, TypesKept, OrderKept, PoolKept DEF StackInv
<1>3. ASSUME ~midway' PROVE Down' /\ HubHeld' /\ TorHeld' /\ RelayHeld'
  BY <1>1, <1>3, QuietlyMidway, DownKept, HubKept, TorKept, RelayStepKept
     DEF StackInv
<1>4. QED
  BY <1>2, <1>3 DEF StackInv

\* The inductive invariant of the stack: who can be where together, one p2pool
\* process and on the node last set, and, unless the quit came while Start ran,
\* what a shutdown has behind it stays down and what is up is in somebody's hands.
THEOREM StackInvariant == Spec => []StackInv
<1>1. Init => StackInv
  BY InitInv
<1>2. StackInv /\ [Next]_vars => StackInv'
  BY StackInvKept
<1>3. QED
  BY <1>1, <1>2, PTL DEF Spec

LEMMA InvTearsDown == StackInv => TornDown
<1> SUFFICES ASSUME StackInv, ~midway, NEW c \in Closers, pc[c] = "off",
                    \A d \in Closers : pc[d] \in Finished
             PROVE  /\ \A l \in Launches : proc[l] \notin Alive
                    /\ hubTor.process \notin Alive /\ monerod.process \notin Alive
                    /\ mining # "running"
                    /\ tor \in Alive => "tor" \in taken["watch"] /\ pc["watch"] # "done"
                    /\ relay = "open" => "relay" \in taken["watch"] /\ pc["watch"] # "done"
  BY DEF TornDown
<1>1. Types /\ Pool /\ Down /\ HubHeld /\ TorHeld
  BY DEF StackInv
<1>2. /\ Past(TookHub) /\ Past(StoppedP2Pool) /\ Past(StoppedMonerod) /\ Past(TookRest)
  BY DEF Past, TookHub, ClosedP2Pool, StoppedP2Pool, StoppedMonerod, TookRest
<1>3. \A l \in Launches : proc[l] \notin Alive
  BY <1>1, <1>2, NoProcess DEF Down
<1>4. hubTor.process \notin Alive /\ monerod.process \notin Alive
  BY <1>1, <1>2 DEF HubHeld, Down, Finished
<1>5. mining # "running"
  BY <1>1 DEF Down, Finished, Closers
<1>6. ASSUME NEW t \in Threads, pc[t] \in {"relayClose", "torStop"}
      PROVE  t = "watch" /\ pc["watch"] # "done"
  BY <1>6 DEF Finished, Threads
<1>7. ~sTor /\ ~sRelay
  BY <1>1, <1>2 DEF TorHeld
<1>8. tor \in Alive => "tor" \in taken["watch"] /\ pc["watch"] # "done"
  BY <1>1, <1>6, <1>7 DEF TorHeld
<1>9. relay = "open" => "relay" \in taken["watch"] /\ pc["watch"] # "done"
  BY <1>1, <1>6, <1>7 DEF TorHeld
<1>10. QED
  BY <1>3, <1>4, <1>5, <1>8, <1>9

\* Where a shutdown has come to its end, no process and no relay of the stack is
\* left, whichever steps of Start failed before it and whatever restart of
\* p2pool, hub's onion or switch to the local node it met on its way
\* (core.go's Shutdown and startOrTearDown); and a p2pool closed for good has
\* no process again (P2Pool.Close), also where the quit came while Start ran.
THEOREM SupervisorStaysSafe == Spec => []SupervisorSafe
<1>1. StackInv => SupTypeOK /\ TornDown
  BY InvTearsDown DEF StackInv, Types
<1>2. StackInv => ClosedForGood
  BY NoProcess DEF StackInv, ClosedForGood, Pool
<1>3. StackInv => SupervisorSafe
  BY <1>1, <1>2 DEF SupervisorSafe
<1>4. QED
  BY <1>3, StackInvariant, PTL

\* No p2pool runs against a relay, or a Tor, that is gone: not on the way up,
\* not across the switch to the local node, not on the way down
\* (switchToLocal, Shutdown's order).
THEOREM RelayStaysUnderP2Pool == Spec => []RelayUnderP2Pool
<1>1. ASSUME StackInv, ~midway, NEW l \in Launches, proc[l] \in Alive, via[l] = "relay"
      PROVE  relay = "open" /\ tor # "gone"
  <2>1. p2pool.cmd = l /\ p2pool.via = "relay"
    BY <1>1 DEF StackInv, Pool
  <2>2. ~Past(StoppedP2Pool)
    BY <1>1, <2>1, NoProcess DEF StackInv, Down
  <2>3. QED
    BY <1>1, <2>1, <2>2 DEF StackInv, RelayHeld
<1>2. StackInv => RelayUnderP2Pool
  BY <1>1 DEF RelayUnderP2Pool
<1>3. QED
  BY <1>2, StackInvariant, PTL

-----------------------------------------------------------------------------
(* The relay.                                                              *)

Handlers == {"none", "track", "dial", "trackRemote", "shake", "await", "drop", "splice", "untrack"}
Dialers == {"none", "dial", "track", "shake", "conn", "error"}
Let == {"none", "shut"}     \* nothing that is still held

SlotTypes == /\ closed \in BOOLEAN
             /\ serving \subseteq {"rpc", "zmq"}
             /\ handler \in [Slots -> Handlers]
             /\ dialer \in [Slots -> Dialers]
             /\ gaveUp \in [Slots -> BOOLEAN]
             /\ local \in [Slots -> Socks]
             /\ remote \in [Slots -> Socks]
             /\ closer \in {"open", "waits", "returned"}

\* The goroutine of forwardZMQ runs only under a handler that waits for it in
\* the end, and what it brings is in remote.
DialerInv(c) == /\ dialer[c] \in {"dial", "track", "shake"} => handler[c] \in {"shake", "await", "drop"}
                /\ handler[c] \in {"none", "track", "dial", "trackRemote"} => dialer[c] = "none"
                /\ dialer[c] \in {"dial", "error"} => remote[c] \in Let

\* A handler that is done, or has not begun, holds nothing.
SlotInv(c) == /\ handler[c] \in {"none", "untrack"} => local[c] \in Let /\ remote[c] \in Let
              /\ handler[c] \in {"track", "dial"} => remote[c] \in Let
              /\ handler[c] = "drop" => local[c] \in Let

\* Only what a running handler has is tracked.
TrackedInv == conns \subseteq {e \in Sides : handler[e[1]] # "none"}

CloseInv == /\ closer # "open" => closed
            /\ closer = "returned" => serving = {} /\ \A c \in Slots : handler[c] = "none"

SlotsInv == \A c \in Slots : DialerInv(c) /\ SlotInv(c)

RelayInv == SlotTypes /\ SlotsInv /\ TrackedInv /\ CloseInv

LEMMA RelayInitially == RelayInit => RelayInv
<1> SUFFICES ASSUME RelayInit PROVE RelayInv
  OBVIOUS
<1>1. SlotTypes
  BY DEF RelayInit, SlotTypes, Handlers, Dialers, Socks
<1>2. SlotsInv
  BY DEF RelayInit, SlotsInv, DialerInv, SlotInv, Let
<1> QED
  BY <1>1, <1>2 DEF RelayInit, RelayInv, TrackedInv, CloseInv

\* A closed connection, or one there never was, is not held.
LEMMA ShutLets == \A sock \in Socks : Shut(sock) \in Let /\ Shut(sock) \in Socks
  BY DEF Shut, Let, Socks

\* The steps of one connection.
Moves(c) == \/ Accept(c) \/ TrackLocal(c) \/ Splice(c) \/ Untrack(c) \/ HangsUp(c)
            \/ DialAnswers(c) \/ DialFails(c) \/ TrackRemote(c)
            \/ NodeAnswers(c) \/ NodeFails(c) \/ TrackNode(c) \/ ShakesWithNode(c)
            \/ NodeShakeFails(c) \/ ShakesWithP2Pool(c) \/ LocalShakeFails(c)
            \/ Drop(c) \/ Await(c)

\* What a step of connection c leaves alone: the other connections, and Close.
LEMMA OthersUntouched ==
  ASSUME SlotTypes, NEW c \in Slots, Moves(c)
  PROVE  /\ \A d \in Slots \ {c} : /\ handler'[d] = handler[d] /\ dialer'[d] = dialer[d]
                                   /\ local'[d] = local[d] /\ remote'[d] = remote[d]
         /\ UNCHANGED <<closed, serving, closer>>
<1> USE DEF SlotTypes, Handles, Dials
<1>1. CASE Accept(c) \/ TrackLocal(c) \/ Splice(c) \/ Untrack(c) \/ HangsUp(c)
  BY <1>1 DEF Accept, TrackLocal, Splice, Untrack, HangsUp
<1>2. CASE DialAnswers(c) \/ DialFails(c) \/ TrackRemote(c) \/ NodeAnswers(c) \/ NodeFails(c)
  BY <1>2 DEF DialAnswers, DialFails, TrackRemote, NodeAnswers, NodeFails
<1>3. CASE TrackNode(c) \/ ShakesWithNode(c) \/ NodeShakeFails(c)
  BY <1>3 DEF TrackNode, ShakesWithNode, NodeShakeFails
<1>4. CASE ShakesWithP2Pool(c) \/ LocalShakeFails(c) \/ Drop(c) \/ Await(c)
  BY <1>4 DEF ShakesWithP2Pool, LocalShakeFails, Drop, Await
<1> QED
  BY <1>1, <1>2, <1>3, <1>4 DEF Moves

\* Each variable moves within its own set.
LEMMA MovesKeepTypes ==
  ASSUME SlotTypes, NEW c \in Slots, Moves(c)
  PROVE  SlotTypes'
<1>1. \/ handler' = handler
      \/ \E h \in Handlers : handler' = [handler EXCEPT ![c] = h]
  <2>1. CASE Accept(c) \/ TrackLocal(c) \/ Splice(c)
    BY <2>1 DEF Accept, TrackLocal, Splice, Handles, Handlers
  <2>2. CASE Untrack(c) \/ HangsUp(c) \/ DialAnswers(c)
    BY <2>2 DEF Untrack, HangsUp, DialAnswers, Handles, Handlers
  <2>3. CASE DialFails(c) \/ TrackRemote(c) \/ NodeAnswers(c)
    BY <2>3 DEF DialFails, TrackRemote, NodeAnswers, Handles, Handlers
  <2>4. CASE NodeFails(c) \/ TrackNode(c) \/ ShakesWithNode(c)
    BY <2>4 DEF NodeFails, TrackNode, ShakesWithNode, Handles, Handlers
  <2>5. CASE NodeShakeFails(c) \/ ShakesWithP2Pool(c) \/ LocalShakeFails(c)
    BY <2>5 DEF NodeShakeFails, ShakesWithP2Pool, LocalShakeFails, Handles, Handlers
  <2>6. CASE Drop(c) \/ Await(c)
    BY <2>6 DEF Drop, Await, Handles, Handlers
  <2> QED
    BY <2>1, <2>2, <2>3, <2>4, <2>5, <2>6 DEF Moves
<1>2. \/ dialer' = dialer
      \/ \E d \in Dialers : dialer' = [dialer EXCEPT ![c] = d]
  <2>1. CASE Accept(c) \/ TrackLocal(c) \/ Splice(c)
    BY <2>1 DEF Accept, TrackLocal, Splice, Dials, Dialers, SlotTypes
  <2>2. CASE Untrack(c) \/ HangsUp(c) \/ DialAnswers(c)
    BY <2>2 DEF Untrack, HangsUp, DialAnswers, Dials, Dialers, SlotTypes
  <2>3. CASE DialFails(c) \/ TrackRemote(c) \/ NodeAnswers(c)
    BY <2>3 DEF DialFails, TrackRemote, NodeAnswers, Dials, Dialers, SlotTypes
  <2>4. CASE NodeFails(c) \/ TrackNode(c) \/ ShakesWithNode(c)
    BY <2>4 DEF NodeFails, TrackNode, ShakesWithNode, Dials, Dialers, SlotTypes
  <2>5. CASE NodeShakeFails(c) \/ ShakesWithP2Pool(c) \/ LocalShakeFails(c)
    BY <2>5 DEF NodeShakeFails, ShakesWithP2Pool, LocalShakeFails, Dials, Dialers, SlotTypes
  <2>6. CASE Drop(c) \/ Await(c)
    BY <2>6 DEF Drop, Await, Dials, Dialers, SlotTypes
  <2> QED
    BY <2>1, <2>2, <2>3, <2>4, <2>5, <2>6 DEF Moves
<1>3. \/ gaveUp' = gaveUp
      \/ \E g \in BOOLEAN : gaveUp' = [gaveUp EXCEPT ![c] = g]
  <2>1. CASE Accept(c) \/ TrackLocal(c) \/ Splice(c)
    BY <2>1 DEF Accept, TrackLocal, Splice, SlotTypes
  <2>2. CASE Untrack(c) \/ HangsUp(c) \/ DialAnswers(c)
    BY <2>2 DEF Untrack, HangsUp, DialAnswers, SlotTypes
  <2>3. CASE DialFails(c) \/ TrackRemote(c) \/ NodeAnswers(c)
    BY <2>3 DEF DialFails, TrackRemote, NodeAnswers, SlotTypes
  <2>4. CASE NodeFails(c) \/ TrackNode(c) \/ ShakesWithNode(c)
    BY <2>4 DEF NodeFails, TrackNode, ShakesWithNode, SlotTypes
  <2>5. CASE NodeShakeFails(c) \/ ShakesWithP2Pool(c) \/ LocalShakeFails(c)
    BY <2>5 DEF NodeShakeFails, ShakesWithP2Pool, LocalShakeFails, SlotTypes
  <2>6. CASE Drop(c) \/ Await(c)
    BY <2>6 DEF Drop, Await, SlotTypes
  <2> QED
    BY <2>1, <2>2, <2>3, <2>4, <2>5, <2>6 DEF Moves
<1>4. \/ local' = local
      \/ \E sock \in Socks : local' = [local EXCEPT ![c] = sock]
  <2>1. CASE Accept(c) \/ TrackLocal(c) \/ Splice(c)
    BY <2>1 DEF Accept, TrackLocal, Splice, SlotTypes, Shut, Socks
  <2>2. CASE Untrack(c) \/ HangsUp(c) \/ DialAnswers(c)
    BY <2>2 DEF Untrack, HangsUp, DialAnswers, SlotTypes, Shut, Socks
  <2>3. CASE DialFails(c) \/ TrackRemote(c) \/ NodeAnswers(c)
    BY <2>3 DEF DialFails, TrackRemote, NodeAnswers, SlotTypes, Shut, Socks
  <2>4. CASE NodeFails(c) \/ TrackNode(c) \/ ShakesWithNode(c)
    BY <2>4 DEF NodeFails, TrackNode, ShakesWithNode, SlotTypes, Shut, Socks
  <2>5. CASE NodeShakeFails(c) \/ ShakesWithP2Pool(c) \/ LocalShakeFails(c)
    BY <2>5 DEF NodeShakeFails, ShakesWithP2Pool, LocalShakeFails, SlotTypes, Shut, Socks
  <2>6. CASE Drop(c) \/ Await(c)
    BY <2>6 DEF Drop, Await, SlotTypes, Shut, Socks
  <2> QED
    BY <2>1, <2>2, <2>3, <2>4, <2>5, <2>6 DEF Moves
<1>5. \/ remote' = remote
      \/ \E sock \in Socks : remote' = [remote EXCEPT ![c] = sock]
  <2>1. CASE Accept(c) \/ TrackLocal(c) \/ Splice(c)
    BY <2>1 DEF Accept, TrackLocal, Splice, SlotTypes, Shut, Socks
  <2>2. CASE Untrack(c) \/ HangsUp(c) \/ DialAnswers(c)
    BY <2>2 DEF Untrack, HangsUp, DialAnswers, SlotTypes, Shut, Socks
  <2>3. CASE DialFails(c) \/ TrackRemote(c) \/ NodeAnswers(c)
    BY <2>3 DEF DialFails, TrackRemote, NodeAnswers, SlotTypes, Shut, Socks
  <2>4. CASE NodeFails(c) \/ TrackNode(c) \/ ShakesWithNode(c)
    BY <2>4 DEF NodeFails, TrackNode, ShakesWithNode, SlotTypes, Shut, Socks
  <2>5. CASE NodeShakeFails(c) \/ ShakesWithP2Pool(c) \/ LocalShakeFails(c)
    BY <2>5 DEF NodeShakeFails, ShakesWithP2Pool, LocalShakeFails, SlotTypes, Shut, Socks
  <2>6. CASE Drop(c) \/ Await(c)
    BY <2>6 DEF Drop, Await, SlotTypes, Shut, Socks
  <2> QED
    BY <2>1, <2>2, <2>3, <2>4, <2>5, <2>6 DEF Moves
<1>6. UNCHANGED <<closed, serving, closer>>
  BY OthersUntouched
<1> QED
  BY <1>1, <1>2, <1>3, <1>4, <1>5, <1>6 DEF SlotTypes

\* The connection's own part: what its handler and its goroutine may hold.
LEMMA MovesKeepSlot ==
  ASSUME SlotTypes, NEW c \in Slots, DialerInv(c), SlotInv(c), Moves(c)
  PROVE  DialerInv(c)' /\ SlotInv(c)'
<1> USE ShutLets DEF SlotTypes, Handles, Dials, Handlers, Dialers, Socks, Let, DialerInv, SlotInv
<1>1. CASE Accept(c)           BY <1>1 DEF Accept
<1>2. CASE TrackLocal(c)       BY <1>2 DEF TrackLocal
<1>3. CASE Splice(c)           BY <1>3 DEF Splice
<1>4. CASE Untrack(c)          BY <1>4 DEF Untrack
<1>5. CASE HangsUp(c)          BY <1>5 DEF HangsUp
<1>6. CASE DialAnswers(c)      BY <1>6 DEF DialAnswers
<1>7. CASE DialFails(c)        BY <1>7 DEF DialFails
<1>8. CASE TrackRemote(c)      BY <1>8 DEF TrackRemote
<1>9. CASE NodeAnswers(c)      BY <1>9 DEF NodeAnswers
<1>10. CASE NodeFails(c)       BY <1>10 DEF NodeFails
<1>11. CASE TrackNode(c)       BY <1>11 DEF TrackNode
<1>12. CASE ShakesWithNode(c)  BY <1>12 DEF ShakesWithNode
<1>13. CASE NodeShakeFails(c)  BY <1>13 DEF NodeShakeFails
<1>14. CASE ShakesWithP2Pool(c) BY <1>14 DEF ShakesWithP2Pool
<1>15. CASE LocalShakeFails(c) BY <1>15 DEF LocalShakeFails
<1>16. CASE Drop(c)            BY <1>16 DEF Drop
<1>17. CASE Await(c)           BY <1>17 DEF Await
<1> QED
  BY <1>1, <1>2, <1>3, <1>4, <1>5, <1>6, <1>7, <1>8, <1>9, <1>10, <1>11, <1>12, <1>13, <1>14,
     <1>15, <1>16, <1>17 DEF Moves

\* Only a handler, or the goroutine it waits for, tracks an end, and it untracks
\* both as it goes.
LEMMA MovesKeepTracked ==
  ASSUME SlotTypes, TrackedInv, NEW c \in Slots, DialerInv(c), Moves(c)
  PROVE  TrackedInv'
<1> USE DEF SlotTypes, Handles, Dials, Handlers, Dialers
<1>1. \A e \in Sides : e[1] \in Slots /\ (e[1] = c => e \in {<<c, "local">>, <<c, "remote">>})
  BY DEF Sides
<1>2. <<c, "local">> \in Sides /\ <<c, "remote">> \in Sides
  BY DEF Sides
<1>3. \A d \in Slots \ {c} : handler'[d] = handler[d]
  BY OthersUntouched
<1>4. CASE Untrack(c)
  <2>1. conns' = conns \ {<<c, "local">>, <<c, "remote">>}
    BY <1>4 DEF Untrack
  <2> QED
    BY <1>1, <1>3, <2>1 DEF TrackedInv
<1>5. CASE ~Untrack(c)
  <2>1. conns' \subseteq conns \cup {<<c, "local">>, <<c, "remote">>}
    <3>1. CASE Accept(c) \/ TrackLocal(c) \/ Splice(c) \/ HangsUp(c) \/ DialAnswers(c) \/ DialFails(c)
      BY <3>1 DEF Accept, TrackLocal, Splice, HangsUp, DialAnswers, DialFails
    <3>2. CASE TrackRemote(c) \/ NodeAnswers(c) \/ NodeFails(c) \/ TrackNode(c) \/ ShakesWithNode(c)
      BY <3>2 DEF TrackRemote, NodeAnswers, NodeFails, TrackNode, ShakesWithNode
    <3>3. CASE \/ NodeShakeFails(c) \/ ShakesWithP2Pool(c) \/ LocalShakeFails(c)
               \/ Drop(c) \/ Await(c)
      BY <3>3 DEF NodeShakeFails, ShakesWithP2Pool, LocalShakeFails, Drop, Await
    <3> QED
      BY <1>5, <3>1, <3>2, <3>3 DEF Moves
  <2>2. handler'[c] # "none" \/ (conns' = conns /\ handler'[c] = handler[c])
    <3>1. CASE Accept(c) \/ TrackLocal(c) \/ Splice(c) \/ HangsUp(c) \/ DialAnswers(c) \/ DialFails(c)
      BY <3>1 DEF Accept, TrackLocal, Splice, HangsUp, DialAnswers, DialFails
    <3>2. CASE TrackRemote(c) \/ NodeAnswers(c) \/ NodeFails(c) \/ ShakesWithNode(c)
      BY <3>2 DEF TrackRemote, NodeAnswers, NodeFails, ShakesWithNode
    <3>3. CASE TrackNode(c) \/ NodeShakeFails(c)
      <4>1. dialer[c] \in {"track", "shake"} /\ UNCHANGED handler
        BY <3>3 DEF TrackNode, NodeShakeFails
      <4> QED
        BY <4>1 DEF DialerInv
    <3>4. CASE ShakesWithP2Pool(c) \/ LocalShakeFails(c) \/ Drop(c) \/ Await(c)
      BY <3>4 DEF ShakesWithP2Pool, LocalShakeFails, Drop, Await
    <3> QED
      BY <1>5, <3>1, <3>2, <3>3, <3>4 DEF Moves
  <2> QED
    BY <1>1, <1>2, <1>3, <2>1, <2>2 DEF TrackedInv
<1> QED
  BY <1>4, <1>5

\* Once Close has returned there is no handler, so no connection takes a step
\* but to be hung up on.
LEMMA MovesKeepClose ==
  ASSUME SlotTypes, CloseInv, NEW c \in Slots, DialerInv(c), Moves(c)
  PROVE  CloseInv'
<1>1. UNCHANGED <<closed, serving, closer>>
  BY OthersUntouched
<1>2. CASE closer # "returned"
  BY <1>1, <1>2 DEF CloseInv
<1>3. CASE closer = "returned"
  <2>1. closed /\ handler[c] = "none" /\ dialer[c] \notin {"dial", "track", "shake"}
    BY <1>3 DEF CloseInv, DialerInv
  <2>2. UNCHANGED handler
    BY <2>1 DEF Moves, Handles, Dials, Accept, TrackLocal, Splice, Untrack, HangsUp, DialAnswers,
       DialFails, TrackRemote, NodeAnswers, NodeFails, TrackNode, ShakesWithNode, NodeShakeFails,
       ShakesWithP2Pool, LocalShakeFails, Drop, Await
  <2> QED
    BY <1>1, <2>2 DEF CloseInv
<1> QED
  BY <1>2, <1>3

LEMMA RelayStep == RelayInv /\ [RelayNext]_relayVars => RelayInv'
<1> SUFFICES ASSUME RelayInv, [RelayNext]_relayVars PROVE RelayInv'
  OBVIOUS
<1>0. SlotTypes /\ SlotsInv /\ TrackedInv /\ CloseInv
  BY DEF RelayInv
<1>1. CASE UNCHANGED relayVars
  BY <1>0, <1>1 DEF relayVars, RelayInv, SlotTypes, SlotsInv, DialerInv, SlotInv, TrackedInv, CloseInv
<1>2. CASE ServeEnds
  BY <1>0, <1>2 DEF ServeEnds, RelayInv, SlotTypes, SlotsInv, DialerInv, SlotInv, TrackedInv, CloseInv
<1>3. CASE CloseBegins
  <2>1. SlotTypes'
    BY <1>0, <1>3, ShutLets DEF CloseBegins, SlotTypes
  <2>2. \A c \in Slots : /\ local[c] \in Let => local'[c] \in Let
                         /\ remote[c] \in Let => remote'[c] \in Let
    BY <1>0, <1>3, ShutLets DEF CloseBegins, SlotTypes
  <2>3. SlotsInv'
    BY <1>0, <1>3, <2>2 DEF CloseBegins, SlotsInv, DialerInv, SlotInv
  <2> QED
    BY <1>0, <1>3, <2>1, <2>3 DEF CloseBegins, RelayInv, TrackedInv, CloseInv
<1>4. CASE CloseReturns
  BY <1>0, <1>4 DEF CloseReturns, RelayInv, SlotTypes, SlotsInv, DialerInv, SlotInv, TrackedInv, CloseInv
<1>5. CASE \E c \in Slots : Moves(c)
  <2> PICK c \in Slots : Moves(c)
    BY <1>5
  <2>1. DialerInv(c) /\ SlotInv(c)
    BY <1>0 DEF SlotsInv
  <2>2. DialerInv(c)' /\ SlotInv(c)'
    BY <1>0, <2>1, MovesKeepSlot
  <2>3. \A d \in Slots \ {c} : DialerInv(d)' /\ SlotInv(d)'
    BY <1>0, OthersUntouched DEF SlotsInv, DialerInv, SlotInv
  <2>4. SlotsInv'
    BY <2>2, <2>3 DEF SlotsInv
  <2> QED
    BY <1>0, <2>1, <2>4, MovesKeepTypes, MovesKeepTracked, MovesKeepClose DEF RelayInv
<1> QED
  BY <1>1, <1>2, <1>3, <1>4, <1>5 DEF RelayNext, Moves

\* The inductive invariant holds throughout.
THEOREM RelaySafe == RelaySpec => []RelayInv
  BY RelayInitially, RelayStep, PTL DEF RelaySpec

\* Type correctness, and only the ends of connections in hand are tracked.
THEOREM RelayTypes == RelaySpec => []RelayTypeOK
<1>1. RelayInv => RelayTypeOK
  BY DEF RelayInv, SlotTypes, TrackedInv, RelayTypeOK, Handlers, Dialers
<1> QED
  BY <1>1, RelaySafe, PTL

\* Close leaves no connection open and no goroutine dialling (Relay.Close).
THEOREM RelayLeavesNothing == RelaySpec => []NothingLeft
<1>1. RelayInv => NothingLeft
  BY DEF RelayInv, SlotsInv, DialerInv, SlotInv, CloseInv, NothingLeft, Let
<1> QED
  BY <1>1, RelaySafe, PTL

\* What the relay's run checks of every state.
THEOREM RelayStaysKept == RelaySpec => []RelayKept
  BY RelayTypes, RelayLeavesNothing, PTL DEF RelayKept
=============================================================================

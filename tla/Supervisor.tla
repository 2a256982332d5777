------------------------------ MODULE Supervisor ------------------------------
(***************************************************************************)
(* The mining stack's life (internal/core): Start brings up what one       *)
(* configuration needs, Shutdown takes it down in reverse, and in between  *)
(* a watch restarts p2pool, off Tor once this machine's own node is usable *)
(* or with the settings the owner changed on a Nodo.  The engines are      *)
(* internal/engine's P2Pool, Tor and Monerod.                              *)
(*                                                                         *)
(* Three threads: "start" (startOrTearDown: Start, and Shutdown where it   *)
(* fails), "quit" (the main goroutine's Shutdown, which the window lets    *)
(* come at any moment) and "watch"; beside them the hub's onion.  What     *)
(* runs under one lock is one step; p2pool's Start lets its lock go to     *)
(* wait, monerod's keeps it.  A p2pool process is named by the number of   *)
(* its launch and has a reader, the goroutine on its output.               *)
(*                                                                         *)
(* The miner and its scheduler are one flag: XMRig and Scheduler are about *)
(* them.  One Start: the window's Retry is another, from a stack that      *)
(* TornDown says is clean.                                                 *)
(***************************************************************************)
EXTENDS Integers

CONSTANTS Setups,       \* the configurations, of AllSetups
          MaxLaunches,  \* bound: how often p2pool is launched
          MaxSettings   \* bound: how often the owner changes the Nodo's settings

AllSetups == {"onion",    \* p2pool-remote, no remote_node, manage_tor
              "nodo",     \* the Nodo profile
              "monerod"}  \* p2pool-local with manage_monerod, serving a hub with an onion

ASSUME SupervisorAssumption == /\ Setups \subseteq AllSetups
                               /\ MaxLaunches \in Nat \ {0}
                               /\ MaxSettings \in Nat

Launches == 1..MaxLaunches
Settings == 0..MaxSettings
Closers == {"start", "quit"}
Threads == Closers \cup {"watch"}

VARIABLES
  setup,
  pc,        \* thread -> where it stands
  midway,    \* the quit came while Start ran
  stopped,   \* localWatchStop or nodoStop is closed
  p2pool,    \* the P2Pool
  proc,      \* launch -> what the operating system has of that p2pool
  via,       \* launch -> the node it was given: the "relay" or the "local" one
  out,       \* launch -> where the reader of its output stands
  told,      \* the launches whose readyCh holds a signal
  tor,       \* our Tor's process
  sTor,      \* s.tor # nil
  hubTor,    \* the hub's Tor
  monerod,   \* the process, whether Start holds the lock, a signal in syncedCh
  relay,     \* the relay's listeners
  sRelay,    \* s.relay # nil
  taken,     \* thread -> what of "relay", "tor", "hub" it took to close
  mining,    \* xmrig and the scheduler
  settings,  \* Nodo's config.json
  event,     \* the watch on that file has an event pending
  known,     \* the settings last read from it
  shown      \* what Node() says is followed

poolVars == <<p2pool, proc, via, out, told>>
torVars == <<tor, sTor, relay, sRelay>>
nodoVars == <<settings, event, known>>
sideVars == <<setup, midway, stopped, hubTor, monerod, taken, mining, shown>>
vars == <<pc, poolVars, torVars, nodoVars, sideVars>>

StartSteps == {"prepare", "monerod", "monerodWait", "choose", "tor", "torStart", "torWait",
               "resolve", "make", "launch", "wait", "beside", "miner"}
DownSteps == {"down", "watches", "hub", "close", "stop", "monerodStop", "take", "relayClose",
              "torStop"}
WatchSteps == {"none", "polling", "probing", "restart", "set", "launch", "wait", "hand",
               "relayClose", "torStop", "done"}
Processes == {"none", "boot", "serving", "crashed", "gone"}
Alive == {"boot", "serving"}
Nodes == {"relay", "local"}

SupTypeOK ==
  /\ setup \in Setups
  /\ pc["start"] \in StartSteps \cup DownSteps \cup {"up", "off"}
  /\ pc["quit"] \in DownSteps \cup {"idle", "off"}
  /\ pc["watch"] \in WatchSteps
  /\ {midway, stopped, sTor, sRelay, event} \subseteq BOOLEAN
  /\ p2pool \in [made : BOOLEAN, closed : BOOLEAN, cmd : 0..MaxLaunches, ready : BOOLEAN,
                 via : Nodes, login : Settings]
  /\ proc \in [Launches -> Processes] /\ via \in [Launches -> Nodes]
  /\ out \in [Launches -> {"none", "reads", "saw", "signalled", "done"}]
  /\ told \subseteq Launches
  /\ tor \in Processes
  /\ hubTor \in [process : Processes, closed : BOOLEAN, held : BOOLEAN, starting : BOOLEAN]
  /\ monerod \in [process : Processes, locked : BOOLEAN, signalled : BOOLEAN]
  /\ relay \in {"none", "open", "closed"}
  /\ taken \in [Threads -> SUBSET {"relay", "tor", "hub"}]
  /\ mining \in {"none", "running", "closed"}
  /\ {settings, known} \subseteq Settings /\ shown \in Nodes \cup {"none"}

Init ==
  /\ setup \in Setups
  /\ pc = [t \in Threads |-> CASE t = "start" -> "prepare" [] t = "quit" -> "idle"
                               [] t = "watch" -> "none"]
  /\ midway = FALSE /\ stopped = FALSE
  /\ p2pool = [made |-> FALSE, closed |-> FALSE, cmd |-> 0, ready |-> FALSE, via |-> "local",
               login |-> 0]
  /\ proc = [l \in Launches |-> "none"] /\ via = [l \in Launches |-> "local"]
  /\ out = [l \in Launches |-> "none"] /\ told = {}
  /\ tor = "none" /\ sTor = FALSE /\ relay = "none" /\ sRelay = FALSE
  /\ hubTor = [process |-> "none", closed |-> FALSE, held |-> FALSE, starting |-> FALSE]
  /\ monerod = [process |-> "none", locked |-> FALSE, signalled |-> FALSE]
  /\ taken = [t \in Threads |-> {}]
  /\ mining = "none" /\ shown = "none"
  /\ settings = 0 /\ event = FALSE /\ known = 0

\* The main goroutine returns from its Shutdown and the program exits.
Lives == pc["quit"] # "off"

Goto(t, from, to) == Lives /\ pc[t] = from /\ pc' = [pc EXCEPT ![t] = to]

\* Stopped: a process that was killed and waited for, if there was one.
Stopped(process) == IF process = "none" THEN "none" ELSE "gone"

-----------------------------------------------------------------------------
(* P2Pool (engine/p2pool.go).                                              *)

\* Where the caller of P2Pool.Start goes from there.
OnError(t) == IF t = "start" THEN "down" ELSE IF setup = "nodo" THEN "polling" ELSE "done"
OnReady(t) == IF t = "start" THEN "beside" ELSE IF setup = "nodo" THEN "polling" ELSE "hand"

\* The next p2pool process.
Launched(l) == /\ proc[l] = "none" /\ \A k \in 1..(l - 1) : proc[k] # "none"
               /\ p2pool' = [p2pool EXCEPT !.cmd = l, !.ready = FALSE]
               /\ proc' = [proc EXCEPT ![l] = "boot"]
               /\ via' = [via EXCEPT ![l] = p2pool.via]
               /\ out' = [out EXCEPT ![l] = "reads"]
               /\ UNCHANGED told

\* Start up to the unlock: refused after Close, and nothing to do while there
\* is a process; resolve and launch may fail.
P2PoolStart(t) ==
  /\ IF p2pool.closed THEN Goto(t, "launch", OnError(t)) /\ UNCHANGED poolVars
     ELSE IF p2pool.cmd # 0 THEN Goto(t, "launch", OnReady(t)) /\ UNCHANGED poolVars
     ELSE \/ Goto(t, "launch", OnError(t)) /\ UNCHANGED poolVars
          \/ Goto(t, "launch", "wait") /\ \E l \in Launches : Launched(l)
  /\ UNCHANGED <<torVars, nodoVars, sideVars>>

\* The launch a waiting Start of t is about.  Only t's own call launches while
\* it waits, but a Shutdown may have cleared cmd meanwhile.
Last == CHOOSE l \in Launches : proc[l] # "none" /\ \A k \in (l + 1)..MaxLaunches : proc[k] = "none"

\* The select at Start's end: readyCh, exitCh, the timeout.
P2PoolReady(t) == /\ Goto(t, "wait", OnReady(t))
                  /\ Last \in told
                  /\ told' = told \ {Last}
                  /\ UNCHANGED <<p2pool, proc, via, out, torVars, nodoVars, sideVars>>
P2PoolExited(t) == /\ Goto(t, "wait", OnError(t))
                   /\ out[Last] = "done"
                   /\ UNCHANGED <<poolVars, torVars, nodoVars, sideVars>>
P2PoolTimesOut(t) == /\ Goto(t, "wait", OnError(t))
                     /\ UNCHANGED <<poolVars, torVars, nodoVars, sideVars>>

\* Stop: kills the process in cmd and waits for it, all under the lock.
P2PoolStopped == /\ p2pool' = [p2pool EXCEPT !.cmd = 0, !.ready = FALSE]
                 /\ proc' = IF p2pool.cmd = 0 THEN proc ELSE [proc EXCEPT ![p2pool.cmd] = "gone"]
                 /\ UNCHANGED <<via, out, told>>

\* readOutput: scans a line that says the stratum is up, records that under
\* the lock, signals; ends when the output does.
Scans(l) == /\ out[l] = "reads" /\ proc[l] = "serving"
            /\ out' = [out EXCEPT ![l] = "saw"]
            /\ UNCHANGED <<p2pool, proc, via, told>>
Signals(l) == /\ out[l] = "saw"
              /\ out' = [out EXCEPT ![l] = "signalled"]
              /\ p2pool' = [p2pool EXCEPT !.ready = TRUE]
              /\ told' = told \cup {l}
              /\ UNCHANGED <<proc, via>>
NeverEnds(l) == FALSE
Ends(l) == /\ out[l] \in {"reads", "signalled"} /\ proc[l] \in {"crashed", "gone"}
           /\ out' = [out EXCEPT ![l] = "done"]
           /\ UNCHANGED <<p2pool, proc, via, told>>
ReadOutput(l) == /\ Lives
                 /\ Scans(l) \/ Signals(l) \/ Ends(l)
                 /\ UNCHANGED <<pc, torVars, nodoVars, sideVars>>

\* The process: its stratum comes up, or it ends by itself.
P2PoolRuns(l) == /\ Lives
                 /\ \/ proc[l] = "boot" /\ proc' = [proc EXCEPT ![l] = "serving"]
                    \/ proc[l] \in Alive /\ proc' = [proc EXCEPT ![l] = "crashed"]
                 /\ UNCHANGED <<p2pool, via, out, told, pc, torVars, nodoVars, sideVars>>

-----------------------------------------------------------------------------
(* Start (core.go).                                                        *)

\* resolveEngines, detectNodo and householdRole; the first and the last may
\* fail.
Prepare == /\ \/ Goto("start", "prepare", "down")
              \/ Goto("start", "prepare", IF setup = "monerod" THEN "monerod" ELSE "choose")
           /\ known' = settings
           /\ UNCHANGED <<poolVars, torVars, settings, event, sideVars>>

\* startMonerod and Monerod.Start: a launch, and a wait that keeps the lock.
\* Whether it ends with a synced node or the timeout, it returns nil.
StartMonerod == /\ \/ /\ Goto("start", "monerod", "down")
                      /\ UNCHANGED monerod
                   \/ /\ Goto("start", "monerod", "monerodWait")
                      /\ monerod' = [process |-> "boot", locked |-> TRUE, signalled |-> FALSE]
                /\ UNCHANGED <<poolVars, torVars, nodoVars, setup, midway, stopped, hubTor, taken,
                               mining, shown>>
MonerodKeepsLock == /\ Goto("start", "monerodWait", "choose")
                    /\ UNCHANGED <<poolVars, torVars, nodoVars, sideVars>>
MonerodReturns == /\ Goto("start", "monerodWait", "choose")
                  /\ monerod' = [monerod EXCEPT !.locked = FALSE]
                  /\ UNCHANGED <<poolVars, torVars, nodoVars, setup, midway, stopped, hubTor,
                                 taken, mining, shown>>

\* monerod says it is synced; its readOutput takes the lock to record that,
\* and only then signals.
MonerodSyncs == /\ Lives /\ monerod.process = "boot"
                /\ monerod' = [monerod EXCEPT !.process = "serving"]
                /\ UNCHANGED <<pc, poolVars, torVars, nodoVars, setup, midway, stopped, hubTor,
                               taken, mining, shown>>
MonerodSignals == /\ Lives /\ monerod.process = "serving" /\ ~monerod.signalled /\ ~monerod.locked
                  /\ monerod' = [monerod EXCEPT !.signalled = TRUE]
                  /\ UNCHANGED <<pc, poolVars, torVars, nodoVars, setup, midway, stopped, hubTor,
                                 taken, mining, shown>>

\* findLocalNode and ensureTor: the remote node is an onion, and our own Tor is
\* started where none is listening.
Choose == /\ \/ Goto("start", "choose", "make") /\ setup # "onion"
             \/ /\ setup = "onion"
                /\ \/ Goto("start", "choose", "make")     \* a usable node here
                   \/ Goto("start", "choose", "resolve")  \* a Tor listens already
                   \/ Goto("start", "choose", "tor")
          /\ UNCHANGED <<poolVars, torVars, nodoVars, sideVars>>

\* startManagedTor: recorded before it is started, so that a Tor that is too
\* slow is still ours.  Tor.Start: a launch and a wait, neither fatal.
RecordTor == /\ Goto("start", "tor", "torStart")
             /\ sTor' = TRUE
             /\ UNCHANGED <<poolVars, tor, relay, sRelay, nodoVars, sideVars>>
TorStart == /\ \/ Goto("start", "torStart", "resolve") /\ UNCHANGED tor
               \/ Goto("start", "torStart", "torWait") /\ tor' = "boot"
            /\ UNCHANGED <<poolVars, sTor, relay, sRelay, nodoVars, sideVars>>
TorReturns == /\ Goto("start", "torWait", "resolve")
              /\ UNCHANGED <<poolVars, torVars, nodoVars, sideVars>>

\* resolveNode and reachNode, either of which may fail: the node is an onion,
\* and a relay stands in for it.
Resolve == /\ \/ Goto("start", "resolve", "down") /\ UNCHANGED <<relay, sRelay>>
              \/ Goto("start", "resolve", "make") /\ relay' = "open" /\ sRelay' = TRUE
           /\ UNCHANGED <<poolVars, tor, sTor, nodoVars, sideVars>>

\* The rest of startP2Pool up to p2pool's Start.
Followed == IF relay = "none" THEN "local" ELSE "relay"
Make == /\ Goto("start", "make", "launch")
        /\ p2pool' = [p2pool EXCEPT !.made = TRUE, !.via = Followed, !.login = known]
        /\ shown' = Followed
        /\ UNCHANGED <<proc, via, out, told, torVars, nodoVars, setup, midway, stopped, hubTor,
                       monerod, taken, mining>>

\* And after it: startHubOnion, startLocalWatch, watchNodo.
Watches == setup = "nodo" \/ relay # "none"
Beside == /\ Lives /\ pc["start"] = "beside"
          /\ pc' = [pc EXCEPT !["start"] = "miner", !["watch"] = IF Watches THEN "polling" ELSE @]
          /\ hubTor' = IF setup = "monerod" THEN [hubTor EXCEPT !.held = TRUE, !.starting = TRUE]
                       ELSE hubTor
          /\ UNCHANGED <<poolVars, torVars, nodoVars, setup, midway, stopped, monerod, taken,
                         mining, shown>>

\* startMiner, which may fail, and startScheduler.
StartMiner == /\ \/ Goto("start", "miner", "down") /\ UNCHANGED mining
                 \/ Goto("start", "miner", "up") /\ mining' = "running"
              /\ UNCHANGED <<poolVars, torVars, nodoVars, setup, midway, stopped, hubTor, monerod,
                             taken, shown>>

Start == \/ Prepare \/ StartMonerod \/ MonerodReturns \/ Choose \/ RecordTor \/ TorStart
         \/ TorReturns \/ Resolve \/ Make \/ Beside \/ StartMiner

\* The goroutine of startHubOnion: Tor.Start, refused after Close.
HubOnion == /\ Lives /\ hubTor.starting
            /\ \E p \in IF hubTor.closed THEN {hubTor.process} ELSE {"boot", "none"} :
                 hubTor' = [hubTor EXCEPT !.starting = FALSE, !.process = p]
            /\ UNCHANGED <<pc, poolVars, torVars, nodoVars, setup, midway, stopped, monerod,
                           taken, mining, shown>>

-----------------------------------------------------------------------------
(* Shutdown (core.go), by the failed Start's goroutine or the main one.    *)

\* The window closes: the main goroutine goes on to the deferred Shutdown.
Quit == /\ Goto("quit", "idle", "down")
        /\ midway' = (pc["start"] \in StartSteps)
        /\ UNCHANGED <<poolVars, torVars, nodoVars, setup, stopped, hubTor, monerod, taken,
                       mining, shown>>

\* The scheduler, then the miner.
StopMining(c) == /\ Goto(c, "down", "watches")
                 /\ mining' = IF mining = "running" THEN "closed" ELSE mining
                 /\ UNCHANGED <<poolVars, torVars, nodoVars, setup, midway, stopped, hubTor,
                                monerod, taken, shown>>

\* Under s.mu: the watches are told, the hub's servers taken.
EndWatches(c) == /\ Goto(c, "watches", "hub")
                 /\ stopped' = (stopped \/ pc["watch"] # "none")
                 /\ hubTor' = [hubTor EXCEPT !.held = FALSE]
                 /\ taken' = [taken EXCEPT ![c] = IF hubTor.held THEN {"hub"} ELSE {}]
                 /\ UNCHANGED <<poolVars, torVars, nodoVars, setup, midway, monerod, mining, shown>>

StopHub(c) == /\ Goto(c, "hub", "close")
              /\ hubTor' = IF "hub" \in taken[c]
                           THEN [hubTor EXCEPT !.process = Stopped(@)]
                           ELSE hubTor
              /\ UNCHANGED <<poolVars, torVars, nodoVars, setup, midway, stopped, monerod, taken,
                             mining, shown>>
\* hubTor.Close.
CloseHub(c) == /\ Goto(c, "hub", "close")
               /\ hubTor' = IF "hub" \in taken[c]
                            THEN [hubTor EXCEPT !.closed = TRUE, !.process = Stopped(@)]
                            ELSE hubTor
               /\ UNCHANGED <<poolVars, torVars, nodoVars, setup, midway, stopped, monerod, taken,
                              mining, shown>>

\* p2pool.Close: first it is closed, then it is stopped.
CloseP2Pool(c) == /\ Goto(c, "close", IF p2pool.made THEN "stop" ELSE "monerodStop")
                  /\ p2pool' = [p2pool EXCEPT !.closed = @ \/ p2pool.made]
                  /\ UNCHANGED <<proc, via, out, told, torVars, nodoVars, sideVars>>
StopP2Pool(c) == /\ Goto(c, "stop", "monerodStop")
                 /\ P2PoolStopped
                 /\ UNCHANGED <<torVars, nodoVars, sideVars>>

\* Monerod.Stop waits for the lock a Start in progress holds.
StopMonerod(c) == /\ ~monerod.locked
                  /\ Goto(c, "monerodStop", "take")
                  /\ monerod' = [monerod EXCEPT !.process = Stopped(@)]
                  /\ UNCHANGED <<poolVars, torVars, nodoVars, setup, midway, stopped, hubTor,
                                 taken, mining, shown>>

\* Under s.mu, here and in switchToLocal: the relay and our Tor are taken, by
\* whoever comes first.
Take(t) == /\ sRelay' = FALSE /\ sTor' = FALSE
           /\ taken' = [taken EXCEPT ![t] = {x \in {"relay", "tor"} : IF x = "tor" THEN sTor ELSE sRelay}]
TakeRest(c) == /\ Goto(c, "take", "relayClose")
               /\ Take(c)
               /\ UNCHANGED <<poolVars, tor, relay, nodoVars, setup, midway, stopped, hubTor,
                              monerod, mining, shown>>
CloseRelay(t) == /\ Goto(t, "relayClose", "torStop")
                 /\ relay' = IF "relay" \in taken[t] THEN "closed" ELSE relay
                 /\ UNCHANGED <<poolVars, tor, sTor, sRelay, nodoVars, sideVars>>
StopTor(t) == /\ Goto(t, "torStop", IF t = "watch" THEN "done" ELSE "off")
              /\ tor' = IF "tor" \in taken[t] THEN Stopped(tor) ELSE tor
              /\ UNCHANGED <<poolVars, sTor, relay, sRelay, nodoVars, sideVars>>

Shutdown(c) == \/ StopMining(c) \/ EndWatches(c) \/ CloseHub(c) \/ CloseP2Pool(c)
               \/ StopP2Pool(c) \/ StopMonerod(c) \/ TakeRest(c) \/ CloseRelay(c) \/ StopTor(c)

-----------------------------------------------------------------------------
(* The watch: localnode.go's watchLocal and switchToLocal, nodo.go's       *)
(* watchNodo.                                                              *)

WatchEnds == /\ stopped
             /\ Goto("watch", "polling", "done")
             /\ UNCHANGED <<poolVars, torVars, nodoVars, sideVars>>

\* watchLocal: a probe, whose answer is acted on whatever happened meanwhile.
Probe == /\ setup = "onion"
         /\ \/ Goto("watch", "polling", "probing")
            \/ Goto("watch", "probing", "polling")
            \/ Goto("watch", "probing", "restart")
         /\ UNCHANGED <<poolVars, torVars, nodoVars, sideVars>>

\* nodo.Watch: the file, read once it has been quiet for a while.
ReadSettings == /\ setup = "nodo" /\ event
                /\ Goto("watch", "polling", IF settings = known THEN "polling" ELSE "restart")
                /\ event' = FALSE
                /\ known' = settings
                /\ UNCHANGED <<poolVars, torVars, settings, sideVars>>
DropsEvents == /\ Lives /\ setup = "nodo" /\ settings < MaxSettings
               /\ settings' = settings + 1
               /\ event' = (event \/ pc["watch"] = "polling")
               /\ UNCHANGED <<pc, poolVars, torVars, known, sideVars>>
\* The owner saves other settings.  The file watch keeps one event while the
\* goroutine is busy.
OwnerSaves == /\ Lives /\ setup = "nodo" /\ settings < MaxSettings
              /\ settings' = settings + 1
              /\ event' = (event \/ pc["watch"] \notin {"none", "done"})
              /\ UNCHANGED <<pc, poolVars, torVars, known, sideVars>>

\* Retarget and Reconnect: Stop, then the new target under the lock, then
\* Start, each on its own.
Restart == /\ Goto("watch", "restart", "set")
           /\ P2PoolStopped
           /\ UNCHANGED <<torVars, nodoVars, sideVars>>
SetTargetKeepsHost == /\ Goto("watch", "set", "launch")
                      /\ p2pool' = [p2pool EXCEPT !.login = known]
                      /\ UNCHANGED <<proc, via, out, told, torVars, nodoVars, sideVars>>
SetTarget == /\ Goto("watch", "set", "launch")
             /\ p2pool' = [p2pool EXCEPT !.via = "local", !.login = known]
             /\ UNCHANGED <<proc, via, out, told, torVars, nodoVars, sideVars>>

\* switchToLocal, once p2pool is back.
HandOff == /\ Goto("watch", "hand", "relayClose")
           /\ Take("watch")
           /\ shown' = "local"
           /\ UNCHANGED <<poolVars, tor, relay, nodoVars, setup, midway, stopped, hubTor, monerod,
                          mining>>

Watch == \/ WatchEnds \/ Probe \/ ReadSettings \/ Restart \/ SetTarget \/ HandOff
         \/ CloseRelay("watch") \/ StopTor("watch")

P2PoolWait(t) == P2PoolReady(t) \/ P2PoolExited(t) \/ P2PoolTimesOut(t)
Next == \/ Start \/ MonerodSyncs \/ MonerodSignals \/ HubOnion \/ Quit \/ Watch \/ OwnerSaves
        \/ \E c \in Closers : Shutdown(c)
        \/ \E t \in {"start", "watch"} : P2PoolStart(t) \/ P2PoolWait(t)
        \/ \E l \in Launches : ReadOutput(l) \/ P2PoolRuns(l)

\* Goroutines run, and the waits end.  P2Pool.Start's timeout is counted on
\* only while its process lives, so that a property about one that has died
\* does not hold by the clock.
Fairness ==
  /\ WF_vars(Start) /\ WF_vars(HubOnion) /\ WF_vars(Watch)
  /\ \A c \in Closers : WF_vars(Shutdown(c))
  /\ \A t \in {"start", "watch"} : /\ WF_vars(P2PoolStart(t))
                                   /\ WF_vars(P2PoolReady(t) \/ P2PoolExited(t))
                                   /\ WF_vars(P2PoolTimesOut(t) /\ proc[Last] \in Alive)
  /\ \A l \in Launches : WF_vars(ReadOutput(l))
Spec == Init /\ [][Next]_vars /\ Fairness

\* With no clock to end Monerod.Start's wait.
NoClockSpec == Init /\ [][Next]_vars /\ WF_vars(MonerodSignals)
                 /\ WF_vars(monerod.signalled /\ MonerodReturns)

-----------------------------------------------------------------------------
(* Properties.                                                             *)

Finished == {"idle", "off", "up"}

\* "startOrTearDown ... stops whatever it got as far as launching, so the error
\* screen's Retry starts from nothing", and a quit of a stack that stood leaves
\* nothing: no process, no relay, the watch's restart and the hub's onion
\* notwithstanding.  What a switch to the local node has taken to close is
\* its own to finish.
TornDown ==
  (~midway /\ "off" \in {pc[c] : c \in Closers} /\ \A c \in Closers : pc[c] \in Finished)
    => /\ \A l \in Launches : proc[l] \notin Alive
       /\ hubTor.process \notin Alive /\ monerod.process \notin Alive
       /\ mining # "running"
       /\ tor \in Alive => "tor" \in taken["watch"] /\ pc["watch"] # "done"
       /\ relay = "open" => "relay" \in taken["watch"] /\ pc["watch"] # "done"

\* "Close stops p2pool for good", whatever restart is under way, and also
\* where the quit came while Start ran.
ClosedForGood ==
  (p2pool.closed /\ \A c \in Closers : pc[c] # "stop") => \A l \in Launches : proc[l] \notin Alive

\* What a shutdown promises, in every state.
SupervisorSafe == SupTypeOK /\ TornDown /\ ClosedForGood

\* p2pool "is never pointed at a relay that is already gone" (switchToLocal),
\* on the way up, across the switch and on the way down.
RelayUnderP2Pool ==
  ~midway => \A l \in Launches : proc[l] \in Alive /\ via[l] = "relay" => relay = "open" /\ tor # "gone"

\* "A Start already waiting for readiness returns as soon as its process dies"
\* (Close), not at the timeout.
WaitEndsWithProcess ==
  \A t \in {"start", "watch"} :
    (pc[t] = "wait" /\ proc[Last] \notin Alive) ~> (pc[t] # "wait" \/ ~Lives)

\* A change the owner makes on the Nodo while the watch runs reaches p2pool,
\* also one made while p2pool is being restarted for another: in the end it
\* has what the file says, or is closed, or the watch has ended.
SettingsFollowed ==
  (pc["watch"] = "polling" /\ event) ~> (p2pool.login = settings \/ p2pool.closed \/ stopped \/ ~Lives)

\* A quit ends, also one that has to wait for Monerod.Start to let its lock go.
ShutdownReturns == pc["quit"] = "down" ~> pc["quit"] = "off"

\* "Start launches monerod and waits until it reports being synchronized (up to
\* timeout)" (Monerod.Start): its report ends the wait, with no help from the
\* timeout.  It does not: the reader of the report needs the lock the wait has.
SyncEndsWait == (pc["start"] = "monerodWait" /\ monerod.process = "serving")
                  ~> (pc["start"] # "monerodWait" \/ ~Lives)
=============================================================================

------------------------------- MODULE Startup -------------------------------
(***************************************************************************)
(* From the program's start to mining, and the advisory that follows it    *)
(* (internal/core: engines, core, advisory; autoinstall; advisory; nodes): *)
(* which engine binary runs and what version it is known to be, which      *)
(* monerod p2pool follows, and the signed manifest that may stop an old    *)
(* engine and names the default nodes.                                     *)
(*                                                                         *)
(* The process may end at any step and be started again, by another        *)
(* release too; what is on disk stays as it was left.  One engine stands   *)
(* for xmrig and p2pool, which are resolved the same way.  A manifest is   *)
(* its serial; a signature is the serial it signs, and verifies only that. *)
(* Archives that match their pinned hash hold the pinned build.            *)
(***************************************************************************)
EXTENDS Naturals, FiniteSets

CONSTANTS MaxRelease,  \* releases of the program, each with its own pins
          MaxSerial,   \* manifests
          Requires,    \* serial -> the oldest safe engine version
          Fork,        \* serial -> the version its fork needs
          Nodes, Onion, Local, \* monerods, the onions, the one here
          Lists,       \* serial, or 0 for the built-in list -> nodes
          Setups,      \* the ways the program may be shipped and configured
          Attempts,    \* maxAttempts of resolveNode
          NoNode

Releases == 1..MaxRelease
Serials == 1..MaxSerial
Torn == MaxRelease + 1    \* a file some of which was written

\* ships: the daemon's chosen pair, a pair beside the program, or nothing.
\* own: a build of the user's own is configured.  mode, remote: of the
\* config, "bad" for an address that does not parse.
SetupType == [ships : {"chosen", "packaged", "bare"}, own : BOOLEAN,
              mode : {"local", "remote"}, remote : Nodes \cup {NoNode, "bad"},
              nodo : BOOLEAN]

ASSUME StartupAssumption ==
  /\ {MaxRelease, MaxSerial, Attempts} \subseteq Nat \ {0}
  /\ Requires \in [Serials -> 0..MaxRelease]
  /\ Fork \in [Serials -> 0..MaxRelease]
  /\ Onion \subseteq Nodes /\ Local \in Nodes \ Onion
  /\ Lists \in [0..MaxSerial -> SUBSET Nodes] /\ Lists[0] # {}
  /\ Setups \subseteq SetupType
  /\ NoNode \notin Nodes

VARIABLES
  setup, release,   \* what this program is
  file, stamp,      \* the downloaded engine (0 none); what its stamp names
  torFile,          \* the downloaded Tor
  data, sig,        \* the manifest and the signature kept (0 none)
  served, expired,  \* the serial the source serves; those out of date
  torUp,            \* is a Tor listening
  pc,               \* where the process stands
  running, known,   \* the engine it resolved; the version it has noted
  defaults,         \* the serial whose list is communityNodes (0 built-in)
  attempt, node, login,  \* resolveNode's; the node; has p2pool the RPC login
  watch,            \* where the advisory's watch stands
  due,              \* its fetch is due
  got, mem, stop    \* the manifest in hand; the one in force; does it stop

disk == <<file, stamp, torFile, data, sig>>
world == <<served, expired, torUp>>
engine == <<running, known>>
choice == <<defaults, attempt, node, login>>
advisory == <<watch, due, got, mem, stop>>
startupVars == <<setup, release, disk, world, pc, engine, choice, advisory>>

Files == 0..Torn
StartupTypeOK ==
  /\ setup \in Setups /\ release \in Releases
  /\ file \in Files /\ stamp \in 0..MaxRelease /\ torFile \in Files
  /\ data \in 0..MaxSerial /\ sig \in 0..MaxSerial
  /\ served \in 0..MaxSerial /\ expired \subseteq Serials
  /\ torUp \in BOOLEAN
  /\ pc \in {"off", "engines", "fetch", "write", "written", "stamp", "tor",
             "tor fetch", "tor write", "select", "mining"}
  /\ running \in Files /\ known \in 0..MaxRelease
  /\ defaults \in 0..MaxSerial
  /\ attempt \in 0..Attempts /\ node \in Nodes \cup {NoNode}
  /\ login \in BOOLEAN
  /\ watch \in {"off", "load", "wait", "signature", "save", "saved", "take"}
  /\ due \in BOOLEAN
  /\ got \in 0..MaxSerial /\ mem \in 0..MaxSerial /\ stop \in BOOLEAN

Fresh == /\ running' = 0 /\ known' = 0
         /\ defaults' = 0
         /\ attempt' = 0 /\ node' = NoNode /\ login' = FALSE
         /\ watch' = "off" /\ due' = FALSE
         /\ got' = 0 /\ mem' = 0 /\ stop' = FALSE

StartupInit == /\ setup \in Setups /\ release = 1
               /\ file = 0 /\ stamp = 0 /\ torFile = 0 /\ data = 0 /\ sig = 0
               /\ served = 0 /\ expired = {}
               /\ torUp = FALSE
               /\ pc = "off" /\ running = 0 /\ known = 0
               /\ defaults = 0
               /\ attempt = 0 /\ node = NoNode /\ login = FALSE
               /\ watch = "off" /\ due = FALSE
               /\ got = 0 /\ mem = 0 /\ stop = FALSE

Goes(from, to) == pc = from /\ pc' = to
Program == <<setup, release>>

-----------------------------------------------------------------------------
(* The engines: resolveEngines and ensurePinned.                           *)

Launch == /\ Goes("off", "engines")
          /\ UNCHANGED <<Program, disk, world, engine, choice, advisory>>

\* The pair the daemon chose may be the one before; its manifest says which.
Chosen == /\ setup.ships = "chosen"
          /\ \E v \in {release, release - 1} \ {0} :
               running' = v /\ known' = v

\* The user's own build has no known version.
OwnBuild == /\ setup.ships # "chosen" /\ setup.own
            /\ running' \in Releases /\ known' = 0

Packaged == /\ setup.ships = "packaged" /\ ~setup.own
            /\ running' = release /\ known' = release

Bare == setup.ships = "bare" /\ ~setup.own

InstalledByStamp == file # 0 /\ stamp = release

\* installReason: the stamp names the pin and the hash of what is there.
Installed == file = release /\ stamp = release

UseInstalled == /\ Bare /\ Installed
                /\ running' = file /\ known' = release

resolveEngines ==
  /\ Goes("engines", "tor")
  /\ Chosen \/ OwnBuild \/ Packaged \/ UseInstalled
  /\ UNCHANGED <<Program, disk, world, choice, advisory>>

MustFetch == /\ Goes("engines", "fetch")
             /\ Bare /\ ~Installed
             /\ UNCHANGED <<Program, disk, world, engine, choice, advisory>>

\* Downloaded and verified; then the file is truncated ...
Fetched == /\ Goes("fetch", "write")
           /\ file' = Torn
           /\ UNCHANGED <<Program, stamp, torFile, data, sig, world, engine,
                          choice, advisory>>

\* ... and written, ...
Written == /\ Goes("write", "written")
           /\ file' = release
           /\ UNCHANGED <<Program, stamp, torFile, data, sig, world, engine,
                          choice, advisory>>

\* ... and so is its stamp, whose failure only costs a download.
StampBegins == /\ Goes("written", "stamp")
               /\ stamp' = 0
               /\ UNCHANGED <<Program, file, torFile, data, sig, world, engine,
                              choice, advisory>>

Stamped == /\ Goes("stamp", "tor")
           /\ stamp' \in {0, release}
           /\ running' = file /\ known' = release
           /\ UNCHANGED <<Program, file, torFile, data, sig, world, choice,
                          advisory>>

EngineStep == \/ Launch \/ resolveEngines \/ MustFetch \/ Fetched \/ Written
              \/ StampBegins \/ Stamped

-----------------------------------------------------------------------------
(* The node: chooseNode, ensureTor, resolveNode and SelectBest.            *)

nodoProfileApplies == setup.nodo /\ setup.mode = "local"
wantsAutomaticNode == setup.mode = "remote" /\ setup.remote = NoNode

\* What p2pool is pointed at, and the Nodo's RPC login only in its profile.
Follow(n) == /\ node' = n
             /\ login' = nodoProfileApplies
             /\ watch' = "load"

\* This machine's own: the Nodo's, the one of local mode, or one that
\* judgeLocal finds usable where nobody named another.
StayHome == /\ Goes("tor", "mining")
            /\ setup.mode = "local" \/ wantsAutomaticNode
            /\ Follow(Local)
            /\ UNCHANGED <<Program, disk, world, engine, defaults, attempt,
                           due, got, mem, stop>>

torNeeded == /\ setup.mode = "remote"
             /\ setup.remote \in {NoNode} \cup Onion

\* ensureTor, with nothing to do ...
TorThere == /\ Goes("tor", "select")
            /\ setup.mode = "remote" /\ (torNeeded => torUp)
            /\ UNCHANGED <<Program, disk, world, engine, choice, advisory>>

\* ... or a Tor to launch: one that came with the build, or the download of
\* an earlier start, whatever it is.  It may not come up in time, and then
\* the system's may.
TorLaunch ==
  /\ Goes("tor", "select")
  /\ torNeeded /\ ~torUp
  /\ setup.ships = "bare" => torFile # 0
  /\ torUp' \in BOOLEAN
  /\ UNCHANGED <<Program, disk, served, expired, engine, choice, advisory>>

TorFetch == /\ Goes("tor", "tor fetch")
            /\ torNeeded /\ ~torUp
            /\ setup.ships = "bare" /\ torFile = 0
            /\ UNCHANGED <<Program, disk, world, engine, choice, advisory>>

\* EnsureTor: verified, and then extracted file by file.
TorFetched == /\ Goes("tor fetch", "tor write")
              /\ torFile' = Torn
              /\ UNCHANGED <<Program, file, stamp, data, sig, world, engine,
                             choice, advisory>>

TorExtracted == /\ Goes("tor write", "tor")
                /\ torFile' = release
                /\ UNCHANGED <<Program, file, stamp, data, sig, world, engine,
                               choice, advisory>>

\* No Tor to be had: the system's service may still come up.
TorFails == /\ \/ Goes("tor fetch", "select")
               \/ Goes("tor write", "select")
            /\ torUp' \in BOOLEAN
            /\ UNCHANGED <<Program, disk, served, expired, engine, choice,
                           advisory>>

Kept == IF data = sig THEN data ELSE 0

\* applyAdvisoryNodes: an expired manifest, or one without nodes, changes
\* nothing.
ApplyNodes == /\ pc = "select" /\ attempt = 0
              /\ attempt' = 1
              /\ defaults' = IF Kept # 0 /\ Kept \notin expired
                                /\ Lists[Kept] # {}
                             THEN Kept ELSE defaults
              /\ UNCHANGED <<Program, disk, world, pc, engine, node, login,
                             advisory>>

Candidates == IF setup.remote = NoNode THEN Lists[defaults] ELSE {setup.remote}

\* SelectBest, of the candidates up now: the onions are skipped without Tor,
\* and preferred with it.
Winners(up) == LET reached == {n \in Candidates \cap up : n \in Onion => torUp}
                   onions == reached \cap Onion
               IN  IF onions # {} THEN onions ELSE reached

Selected == /\ Goes("select", "mining")
            /\ attempt > 0 /\ attempt' = 0
            /\ \E up \in SUBSET Nodes : \E n \in Winners(up) : Follow(n)
            /\ UNCHANGED <<Program, disk, world, engine, defaults, due, got,
                           mem, stop>>

SelectAgain == /\ pc = "select" /\ attempt \in 1..Attempts - 1
               /\ setup.remote # "bad"
               /\ attempt' = attempt + 1
               /\ UNCHANGED <<Program, disk, world, pc, engine, defaults, node,
                              login, advisory>>

\* Start gives up: a failed download or write, an address that will never
\* parse, or the last attempt.
GivesUp == /\ \/ Goes("fetch", "off")
              \/ Goes("write", "off")
              \/ /\ Goes("select", "off") /\ attempt > 0
                 /\ \/ setup.remote = "bad"
                    \/ attempt = Attempts
           /\ Fresh
           /\ UNCHANGED <<Program, disk, world>>

NodeStep == \/ StayHome \/ TorThere \/ TorLaunch \/ TorFetch \/ TorFetched
            \/ TorExtracted \/ TorFails \/ ApplyNodes \/ Selected
            \/ SelectAgain \/ GivesUp

-----------------------------------------------------------------------------
(* The advisory's watch: watchAdvisory, Fetch, Store and Evaluate.         *)

Watches(from, to) == watch = from /\ watch' = to

EvaluateForever(m, passed) == /\ m # 0
                              /\ known # 0
                              /\ \/ known < Requires[m]
                                 \/ passed /\ known < Fork[m]

\* Evaluate: a stop needs a manifest in date, a version that is known, and
\* for a fork's sake a height known to have passed it.
Evaluate(m, passed) == /\ m # 0 /\ m \notin expired
                       /\ known # 0
                       /\ \/ known < Requires[m]
                          \/ passed /\ known < Fork[m]
Evaluates(m) == \E passed \in BOOLEAN : stop' = Evaluate(m, passed)

\* What was kept, verified again.
LoadKept == /\ Watches("load", "wait")
            /\ mem' = Kept
            /\ due' = FALSE
            /\ UNCHANGED <<Program, disk, world, pc, engine, choice, got,
                           stop>>

\* A pass with nothing to fetch.
applyAdvisory == /\ watch = "wait" /\ ~due
                 /\ Evaluates(mem)
                 /\ UNCHANGED <<Program, disk, world, pc, engine, choice,
                                watch, due, got, mem>>

Due == /\ watch = "wait" /\ ~due
       /\ due' = TRUE
       /\ UNCHANGED <<Program, disk, world, pc, engine, choice, watch, got,
                      mem, stop>>

\* Fetch, never around Tor: the manifest, ...
Fetch == /\ Watches("wait", "signature")
         /\ due /\ torUp
         /\ got' = served
         /\ UNCHANGED <<Program, disk, world, pc, engine, choice, due, mem,
                        stop>>

FloorIsZero == 0

\* Verified's floor.
Floor == mem

\* ... and its signature, which may be that of the manifest published since.
Verifies == got # 0 /\ got = served /\ got >= Floor

Verified == /\ Watches("signature", "save")
            /\ Verifies
            /\ UNCHANGED <<Program, disk, world, pc, engine, choice, due, got,
                           mem, stop>>

\* Not fetched: tried again in an hour, with the manifest there is.
FetchEnds == /\ due' = FALSE /\ got' = 0
             /\ Evaluates(mem)
             /\ UNCHANGED <<Program, disk, world, pc, engine, choice, mem>>

Refused == Watches("signature", "wait") /\ ~Verifies /\ FetchEnds

FetchFails == /\ \/ Watches("wait", "wait") /\ due
                 \/ Watches("signature", "wait")
              /\ FetchEnds

\* Store.Save: each of the two files through a rename, ...
SaveData == /\ Watches("save", "saved")
            /\ data' = got
            /\ UNCHANGED <<Program, file, stamp, torFile, sig, world, pc,
                           engine, choice, due, got, mem, stop>>

SaveSignature == /\ Watches("saved", "take")
                 /\ sig' = got
                 /\ UNCHANGED <<Program, file, stamp, torFile, data, world, pc,
                                engine, choice, due, got, mem, stop>>

\* ... and a failure is only logged.
SaveFails == /\ Watches("save", "take") \/ Watches("saved", "take")
             /\ UNCHANGED <<Program, disk, world, pc, engine, choice, due, got,
                            mem, stop>>

Take == /\ Watches("take", "wait")
        /\ mem' = got /\ got' = 0 /\ due' = FALSE
        /\ Evaluates(got)
        /\ UNCHANGED <<Program, disk, world, pc, engine, choice>>

WatchStep == \/ LoadKept \/ Due \/ Refused \/ SaveData \/ SaveSignature
             \/ Take

-----------------------------------------------------------------------------
(* The rest of the world.                                                  *)

\* The process ends, at any step: quit, killed, or the power.
Ends == /\ pc # "off" /\ pc' = "off"
        /\ Fresh
        /\ UNCHANGED <<Program, disk, world>>

\* Another release, newer or older; a file damaged or removed meanwhile.
Replaced == /\ pc = "off"
            /\ release' \in Releases
            /\ file' \in {file, 0, IF file = 0 THEN 0 ELSE Torn}
            /\ UNCHANGED <<setup, stamp, torFile, data, sig, world, pc, engine,
                           choice, advisory>>

\* The source may serve an older manifest again.
Publishes == /\ served' \in Serials
             /\ UNCHANGED <<Program, disk, expired, torUp, pc, engine, choice,
                            advisory>>

Expires == /\ \E m \in Serials : expired' = expired \cup {m}
           /\ UNCHANGED <<Program, disk, served, torUp, pc, engine, choice,
                          advisory>>

TorChanges == /\ torUp' = ~torUp
              /\ UNCHANGED <<Program, disk, served, expired, pc, engine,
                             choice, advisory>>

StartupNext == \/ EngineStep \/ NodeStep \/ WatchStep \/ applyAdvisory \/ Fetch
               \/ Verified \/ SaveFails \/ FetchFails
               \/ Ends \/ Replaced \/ Publishes \/ Expires
               \/ TorChanges

\* A process that is let run goes on, and a fetch tried again and again, each
\* time possible, works in the end.
StartupFairness == /\ WF_startupVars(WatchStep) /\ WF_startupVars(applyAdvisory)
                   /\ SF_startupVars(Fetch) /\ SF_startupVars(Verified)
StartupSpec == StartupInit /\ [][StartupNext]_startupVars /\ StartupFairness

-----------------------------------------------------------------------------
(* Properties.                                                             *)

\* The version an engine is known to be is the one that runs, and whole:
\* after a download or a write cut short, a pin that moved either way, a file
\* that was damaged, a pair the daemon fell back to.
RunsWhatItSays == known # 0 => running = known

\* The login of a Nodo's node never reaches a node someone else may run.
LoginStaysHome == login => setup.nodo /\ node = Local

\* "Stops mining only when it knows" (Evaluate): never a build of the user's
\* own, and no engine the manifest in force has nothing against.
StopsOnlyOldEngines ==
  stop => /\ ~(setup.own /\ setup.ships # "chosen")
          /\ mem # 0 /\ (running < Requires[mem] \/ running < Fork[mem])

StartupInv == /\ StartupTypeOK
              /\ RunsWhatItSays /\ LoginStaysHome /\ StopsOnlyOldEngines

\* Once the source serves the newest manifest and Tor stays up, the process
\* ends up with it, and holds the miner exactly while that manifest is in date
\* and says the engine that runs is too old (its fork's version is no newer
\* than the one it asks for at once).
AdvisorySettles ==
  <>[](watch # "off" /\ torUp /\ served = MaxSerial)
    => <>[](/\ mem = MaxSerial
            /\ stop <=> /\ MaxSerial \notin expired
                        /\ known # 0 /\ running < Requires[MaxSerial])

\* "A lower one than already seen is refused" (Manifest.Serial): a process
\* that has taken a manifest never goes back to an older one.
NeverOlder == [][watch # "off" /\ watch' # "off" => mem' >= mem]_startupVars
=============================================================================

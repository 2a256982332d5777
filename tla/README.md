# Kind Miner: a TLA+ verification project

Kind Miner runs a Monero miner (xmrig) beside a p2pool, Tor and monerod of its
own, and keeps the miner out of the way of whoever uses the machine.  Most of
what can go wrong in it is a matter of order: a tick loop, windows, watches and
output readers share a handful of structs under two mutexes, start and stop
processes, and leave files behind for the next run.  The modules here model
that: state, guards, locks and the places where the code lets go of one.
Data is cut down to what the properties tell apart.

`PROJECT.json` lists the runs, the mutants (a plausible mistake for every
property that the property must find), the source lines every definition
stands for, the hazards and the theorems.

    tlc -workers 2 -config Scheduler.cfg MCScheduler.tla     # one run
    tlapm Scheduler_proofs.tla                               # one module's proofs

## 1. Inventory

Paths are under `src/`; `core`, `engine` and so on are in `src/internal`.
Status: **M** modelled, **p** partly, **–** not modelled.

| Component | State | Operations | Hard behaviour | What makes it correct |
|---|---|---|---|---|
| Miner engine, `engine/xmrig.go` (**p**: `XMRig`, `Miner`, `Controller`) | `cmd`, `paused`, `closed`, `duty`, a `dutyStop` channel per launch, layout and affinity | Start, Stop, Close, SetDuty, SetLayout, SetAffinity; a duty loop per launch sends SIGSTOP and SIGCONT | a loop may outlive its process and meet the next one; the flag `paused` must follow the process | one process at most, only that one is signalled, none after Close; it follows the duty |
| Scheduler, `scheduler/scheduler.go` (**M**: `Scheduler`) | override, pause deadline, hold, allowance, duty, memStopped | the tick loop; clicks from window and tray; SetHold; Stop | the tick decides on a copy and applies it after letting go of `s.mu`; a click may come in between; Shutdown may overtake a restart | a pause holds within a tick; nothing mines after Shutdown; with nothing against it the miner comes back |
| One tick's decision, `scheduler/{scheduler,layout,nodo}.go`, `kindness` (**M**: `Controller`) | allowance, layouts in force, cluster, settings | ceilings, targets, approach, minerFullShare, placeLayout, placeOnCores, UpdateRuntime | three notions of how many threads the miner has (settings, engine, process) | the miner never takes more than its allowance |
| Memory guard, `scheduler/memory.go` (**M**: `Controller`, `Scheduler`) | stopped, stallTicks, calmSince | step; stopOrRestartForMemory | the miner's own 2 GB feed back into the readings | stop and restart do not flap; ten quiet minutes really are quiet |
| The user's pause on disk, `core/snooze.go` (**M**: `Snooze`) | the pause, `snooze.json` and its `.tmp` | the hook's save, load at start, expiry in the tick | crash or failure between two system calls; two saves at once | the file is whole and mirrors the scheduler; a restart never mines early |
| Holds, `core/advisory.go` (**M**: `Holds`) | a reason per source | setHold from two watches | the scheduler is told after the unlock | neither watch's release clears the other's reason |
| Island check, `core/island.go` (**M**: `Holds`) | stall and grace clocks, its own average when it held | observe, once a minute | blind while statistics are stale or the user has paused; its own hold changes what it measures | an island ends held, the real sidechain released |
| Advisory, `core/advisory.go`, `advisory/` (**M**: `Startup`, `Holds`) | the kept manifest and its signature, the serial in force, the verdict | fetch, verify, store, load, evaluate; names default nodes | manifest and signature travel and are renamed one after the other | no older manifest replaces a newer one; it stops exactly the engines it is about |
| Engine rollout, `rollout/`, `cmd/kind-minerd/engines.go`, `packaging/deb` (**M**: `Rollout`) | the packaged and the previous pair, `engines.json` | maintainer scripts, choice, probation, verdict, mine() | upgrades, kills and reloads at every step of a probation | falls back only to a proven pair; a dud is set aside |
| Engines and autoinstall, `core/engines.go`, `autoinstall/` (**p**: `Startup`) | the binary, its stamp, the version noted | resolveEngines, EnsureBinaries, EnsureTor | an install cut short at any step; a release that moves the pin | the version noted is that of the whole binary that runs |
| Node selection, `core/core.go`, `nodes/{community,local}.go` (**p**: `Startup`, `Supervisor`) | the list in force, attempts | resolveNode, probe, choose | Tor comes and goes; the list is the advisory's | a Nodo's login stays with its own node |
| p2pool, `engine/p2pool.go`, `p2poolapi.go` (**p**: `Supervisor`, `Payouts`) | `cmd`, `ready`, `closed`, target; the figures last read | Start with its wait, Stop, Close, Reconnect, Retarget, the output reader, pollStats | restarts by a watch overlap Shutdown; old files in the statistics directory | down for good once closed; the wait ends with the process |
| Tor and monerod, `engine/{tor,monerod}.go` (**M**: `Supervisor`) | process, ready, closed | Start, Stop, Close | the hub's Tor starts in the background; monerod waits under its lock | none outlives the app |
| Supervisor, `core/{core,localnode,nodo,hub}.go` (**p**: `Supervisor`, `Scheduler`, `Startup`, `Payouts`) | what was started, the watches' channels, relay and Tor | Start, Shutdown, switchToLocal, watchNodo, watchHousehold | a quit during Start; failure of any step; two Shutdowns | what was launched is stopped; p2pool never sits on a relay that is gone |
| Relay, `nodes/{relay,zmtp}.go` (**M**: `Relay`) | connections tracked, closed | accept, dial, two handshakes, splice, Close | Close sweeps while dials and handshakes are under way | nothing left open; Close needs nobody's help |
| Hub, `hub/`, `core/hub.go` (**p**: `Household`, `Payouts`) | identity files, owner, config, workers | set-up, wallet change, stats, payouts | several devices at once; power cut between two writes; an answer that is lost | pays its owner; what a desktop was told stays true |
| Daemon, `cmd/kind-minerd` (**p**: `Household`, `Rollout`) | its config, the reload channel, `status.json` | awaitSetup, mine, reload, keepStatus | handlers and writers of one run outlast it | it runs the config on file and its status tells |
| Configuration, `config/` (**p**: `Household`, `Desktop`) | one file | load, validate, save | the save truncates in place | the next launch accepts what is written |
| Statistics, `stats/`, `core/ledger.go` (**p**: `Ledger`, `Payouts`) | ring, ledger, payouts, two files | Add, Snapshot, Rate, Record, Save, Load | clock set back, duplicates of a payout, two saves at once | rates are honest; nothing saved is lost or counted twice |
| GUI and tray, `gui/`; autostart, `autostart/`; single instance, `instance/` (**p**: `Desktop`, `Household`) | config in memory, screen, windows, tray items, login entry | launch, first run, clicks, settings form, refreshes | each tray item has a goroutine; no handler holds a lock | the window stays in reach; file, config, scheduler and displays end up agreeing |
| Machine monitors, low-priority launch (**–**) | none | readings; system calls | none | their values are the environment of `Controller` and `Scheduler` |

How they meet: the GUI or the daemon calls `Supervisor.Start` and `Shutdown`.
Start resolves the engines, launches monerod, Tor, relay, p2pool, xmrig in that
order and then the scheduler, which alone drives the miner from then on.  The
advisory and island watches reach it through `setHold`; the window and the tray
through `SetOverride`, `PauseUntil` and `UpdateRuntime`; the local-node and Nodo
watches restart p2pool under it.  A hub's API is called by the desktops of the
house.  Config, owner token, snooze file, ledger, payouts, `engines.json`, the
downloaded engine and the advisory carry state from one run to the next.

## 2. Modules

| Module | What it is | Its actions are |
|---|---|---|
| `Miner` | what the scheduler may rely on when it drives the engine | Start, Stop, Close, SetDuty; Hear and Obey of the throttle; Crash |
| `XMRig` | the engine as it is written; refines `Miner` | the calls, each under `x.mu`; a step of a duty loop is what it does between two waits or locks |
| `Scheduler` | EXTENDS `Miner`: the goroutines that share the scheduler | a step is what one goroutine does under one lock: TickBegin, TickLift, TickSnapshot, TickWork, TickLabel, TickSend, TickExit; SetOverride, UserLabel, UserSend; SetHold; Boot, ShutSignal, ShutStop, ShutClose |
| `Controller` | the arithmetic of a tick over readings, settings and the engine's layout | Sample (observe, guard), Act (placement, decision, duty), UpdateRuntime |
| `Snooze` | the pause, its hook and the file system below it | UserSets, TickChecks, TickLifts; Open, Write, Rename, Fail of a save; Boot, Crash |
| `Holds` | the island watch minute by minute, the advisory's verdict, and setHold under both | Minute, watchIslands (observe), applyAdvisory, each up to the unlock; Send (after it); the world's changes |
| `Rollout` | dpkg, the maintainer scripts, the daemon | Preinst, Unpack, Postinst, TryRestart, Abort; Boot, Started, StartFails, Look, Judge, Reload, Dies |
| `Startup` | from launch to mining, and the advisory | resolveEngines and the install file by file; StayHome to GivesUp of the node's choice; Fetch, Verified, SaveData, SaveSignature, Take; Ends, Replaced (by another release), Publishes, Expires, TorChanges |
| `Supervisor` | start-up, shutdown and restarts of the stack | Start's steps; P2PoolStart and its wait; ReadOutput; Shutdown's steps; the watch's steps; Quit, OwnerSaves |
| `Relay` | the connections of the Tor relay | Accept to Untrack of a connection, the dialling goroutine, CloseBegins, CloseReturns, HangsUp |
| `Household` | the headless hub from its first start, and the desktops that set it up | Boot to Loop of the daemon; Claim, Create, WalletLoads, WalletSaves and the rest of a request; AskSetUp, Apply, GivesUp of a desktop; Crash |
| `Desktop` | the graphical front end: each step is one read, write or call of a handler | Launch, Quit, the windows; clicks; the save's truncate, write and failure; the settings form's steps; Refreshes, Renders, Records of a display; Tick |
| `Ledger` | ring, ledger and the two savers of its file | Start, record, Passes, SetBack, SaveBegins, TmpWritten, Renamed, SaveFails, Stop, Ends |
| `Payouts` | payouts and figures from p2pool over the hub to a desktop | Prints, Reads and its save (BookWritten, BookRenamed, BookFails); NewFigures, WriteStats, readStats; watchHousehold; LoadPayouts, Serves, StartFails, HubEnds, DeskRestarts, Moves |
| `MC*` | instances for TLC; `MCRecords` runs `Ledger` and `Payouts`, which share no state, one per behaviour | |
| `Mining_proofs` (`XMRig`, `Controller`), `Scheduler_proofs`, `Pauses_proofs` (`Snooze`, `Holds`), `Engines_proofs` (`Rollout`, `Startup`), `Supervisor_proofs` (`Supervisor`, `Relay`), `Household_proofs`, `Desktop_proofs`, `Records_proofs` (`Ledger`, `Payouts`) | theorems | |

Mutexes make the granularity: what the code does under one acquisition of
`s.mu`, `x.mu`, `p.mu` or `r.mu` is one action, and where it lets go there is a
program counter.  Where there is no mutex (`Desktop`, the handlers of
`Household`) a step is one read, write or call.  A blocking wait is a position
with one action per case of its select.  Processes are named by the number of
their launch, so that "the process in `cmd`" and "the process this goroutine was
started for" can differ.

Composition: `Scheduler` uses the engine by its contract `Miner`, and
`ImplementsMiner` (`XMRig`) shows that the engine keeps it: `miner` maps to what
the operating system has of the managed process, `heard` to what its own loop
read last.  `Supervisor` sees the miner as a flag, for what is behind it is
`Scheduler`'s.  `Controller` and `Scheduler` are two views of a tick: one has
the interleavings and a coarse arithmetic, the other the arithmetic and no
interleavings.  `Holds` takes the advisory's verdict as a flag that turns;
`Startup` is what turns it.  `Household` takes a run's start as an outcome;
`Supervisor` is what goes on in it.

In the modules a definition that is used nowhere and stands directly before
another of the same shape is that definition with a plausible mistake
(`StartTwice` before `Start`).

## 3. Runs

The invariants named `…Kept`, `…Safe` and `…Inv` are conjunctions of named
parts, each with its comment in the module; the first part is the type
invariant.

| Run | Module, config | Question | Properties |
|---|---|---|---|
| engine | `MCXMRig`, `XMRig.cfg` | does the engine keep one process, its flag and its contract? | `EngineKept` (`NoOrphan`, `FrozenIffPaused`, `ClosedForGood`) `ReapedNotSignalled` `ImplementsMiner` |
| scheduler | `MCScheduler`, `Scheduler.cfg` | what may never happen, and what must, with failing launches and crashes? | `SchedulerSafe` (`DownForGood`, `MemoryGivenBack`, `PauseAppliedInOneTick`) `SnoozeEnds` `MinesWhenAllowed` `DisplayAgrees` |
| controller | `MCController`, `Controller.cfg` | does the miner keep to its allowance, and the guard not flap? | `ControllerSafe` (`NeverMoreThanAllowed`, `SmallWhilePresent`) `MemoryStopsHold` (`RestartAfterQuiet`, `NoFlap`) |
| snooze | `MCSnooze`, `Snooze.cfg` | is the saved pause right after every failure and crash? | `SnoozeSafe` (`SavedWhole`, `FileMirrors`) `NeverBackEarly` |
| holds | `MCHolds`, `Holds.cfg` | is an island held and a real sidechain not, with the advisory overtaking? | `HoldsInv` (`OwnPartSent`) `HoldSettles` `IslandSettles` |
| rollout | `MCRollout`, `Rollout.cfg` | which engines run, and do bad ones go? | `RolloutSafe` (`WayBackProven`, `NoneUnwatched`) `ProvenFirst` `DudSetAside` |
| startup | `MCStartup`, `Startup.cfg` | does the program know what it runs, and the advisory hold the right ones? | `StartupInv` (`RunsWhatItSays`, `LoginStaysHome`, `StopsOnlyOldEngines`) `AdvisorySettles` `NeverOlder` |
| supervisor | `MCSupervisor`, `Supervisor.cfg` | does anything outlive a shutdown, or sit on something gone? | `SupervisorSafe` (`TornDown`, `ClosedForGood`) `RelayUnderP2Pool` `WaitEndsWithProcess` `SettingsFollowed` `ShutdownReturns` |
| relay | `MCRelay`, `Relay.cfg` | does Close return by itself and leave nothing? | `RelayKept` (`NothingLeft`) `CloseDone` `HangUpCarried` |
| household | `MCHousehold`, `Household.cfg` | whom does a hub pay after races, crashes and lost answers? | `HouseInv` (`PairingStaysGood`) `PaysItsOwner` `StatusTells` `RunsWhatIsSaved` |
| desktop | `MCDesktop`, `Desktop.cfg` | do config, file, login entry, scheduler and displays agree? | `DesktopInv` (`NeverStranded`) `LaunchAccepts` `SettledAgree` `DisplaysSettle` |
| records | `MCRecords`, `Records.cfg` | is what was mined and paid told and kept right? | `LedgerSafe` (`RateHonest`, `HistoryIsLast`) `FileKeeps` `PayoutsKept` `HouseholdSettles` |

All of these hold.  Where the code does otherwise than it or its tests say, a
property leaves the case out by name, and section 5 tells how to see it.

### Bounds, and why they are enough

* `XMRig`: 3 launches, so a stale loop can meet a third process while a second
  is already stale.  The proofs need no bound.
* `Scheduler`: 2 launches (a start and the restart after a memory stop), launches
  that fail and a miner that ends by itself; one user, whose click can overtake
  the tick and be overtaken by it (the proofs cover any number of users); shares
  0..2 with ghost ceiling 1, so every duty class (none, part, full) is met from
  both sides.
* `Controller`: 4 cores with layouts of 1 and 3, low-power cluster of 2, thread
  counts 2 and 4: the layouts and counts differ pairwise from each other and
  from the machine.  Memory in quarters of the machine; two ticks for each of
  the guard's three delays, the least that can be interrupted.
* `Snooze`: one user beside the tick and the start-up, three instants, five
  inodes (two names, three descriptors, so Free is never empty).
* `Holds`: this machine counts 2 and the ratio is 2, so that its average can be
  half gone, and an island looks big at the half; a grace of 2 and a stall of 3
  minutes, so that each can be interrupted, and the one outlasts the other.
* `Rollout`: three releases, so that there can be a pair before the previous
  one; a probation of two looks, so one can come before the verdict; one kill or
  reload.
* `Startup`: two releases, so the pin can move both ways; two manifests, one to
  be served again after the other; three attempts; five ways of shipping and
  configuring the program, one for each branch of resolveEngines and of the
  node's choice.  Ends, replacements and publishing are not bounded.
* `Supervisor`: 2 launches of p2pool (first start and a restart) and 2 changes
  of the Nodo's settings, so the second can come during the restart for the
  first; all three configurations.
* `Relay`: one RPC and one ZMQ connection, each slot used again and again:
  connections meet only in `closed` and in Close's wait.
* `Household`: two desktops, one with two addresses to change between, 2
  crashes, so that what follows a crash can be cut short as well; any write may
  fail.
* `Desktop`: two presets, of which one waits for idle; two connections; a tray
  with a preset, the snooze and the settings; 2 events, so that everything that
  can be overtaken is; one run, from each kind of file.
* `Records`: half minutes 0..3, so that a minute can be begun, over, and gone
  back to; a ring of 2 under 3 samples; 2 saves, one step back of the clock and
  2 lives.  One hashrate: the code never branches on it.  Three heights of which
  2 are kept and 1 is answered by the API; 2 states of p2pool's figures; one end
  of the hub and one move or restart of the desktop.

`CHECK_DEADLOCK FALSE` in `Supervisor`, `Relay`, `Household`, `Desktop`,
`Records`: a stack that is down, a relay that is closed, a hub that was cut off
for the last time, a front end that was quit and a clock that has reached its
bound have nothing left to do.

### Fairness

Weak fairness of a goroutine's next step is the Go scheduler's: a runnable
goroutine runs.  Tickers fire.  Strong fairness is used in three places: a
select that finds two cases ready takes each of them sooner or later (`LoopExit`
in `XMRig`, `TickExit` in `Scheduler`); a write or a start that is tried again
and again works in the end (`Rollout`); a fetch tried every few hours does, and
finds manifest and signature of one publish (`Startup`).  Nothing the user, the
network, a peer, dpkg or the weather may do is ever assumed, except in the
premise of a property (`<>[]...`).  Timeouts: in `Supervisor` p2pool's is
counted on only while its process lives, so `WaitEndsWithProcess` does not hold
by the clock; in `Relay` they are counted on only while the relay is open, so
`CloseDone` does not either.

## 4. Proofs

TLAPS proves for all values of the constants what TLC checks on instances.  The
assumptions are those the modules name: counts, delays and memory are natural
numbers (most of them not zero), the ghost ceiling is within the preset's, the
forecast is a set of weathers with "calm" in it, core counts are those of a
layout (`ControllerAssumption`), `Setups` are among the profiles there are
(`SupervisorAssumption`), a user is neither the tick nor the start-up, a missing
or torn file is no ledger (`LedgerAssumption`), and the height of a payout is
not zero (`PayoutsAssumption`).
Where a theorem needs more it says so as a hypothesis (`~Faults`, `~Resizes`,
`~Reverts`, `~Overlap`): the run has the same value, and section 5 says what
the code does with the other.

`Mining_proofs`, about the engine and the arithmetic that drives it.  `XMRig`,
for any number of launches:
* the inductive invariant `EngineInv` (`EngineSafe`).  `NoOrphan` and
  `FrozenIffPaused` are not inductive alone: that Start cannot meet a live
  process of its number needs `FreshInv` (launches that have not happened have no
  process and no loop), that a stale loop cannot act on the new process needs
  `StaleLoopsTold` with the guard in signal, and the refinement needs `LoopInv`
  (where a loop stands says what it heard) and `ClosedInv` (closed means no
  process in hand, stronger than no process alive);
* `EngineClosesForGood`, `EngineOrphansNothing`, `EnginePausedFlag`, together
  `EngineStaysKept` (the run's `EngineKept`), and the action property
  `EngineSignalsNoReaped`;
* `EngineImplementsMiner`: initial states map to initial states of `Miner`, each
  step to a step or a stutter (the safety half of the property TLC checks).

`Controller`, for any machine (cores, clusters, ceilings, memory, margin,
footprint and the guard's three delays).  Three invariants, by what they need:
* `GuardInv` needs nothing: a miner stopped for memory does not run, the calm
  the guard counts is shorter than the peace the readings have kept, and at the
  restart the others had left room for the miner.  `MemoryStopsAreHeld` (the
  run's `MemoryStopsHold`: `RestartAfterQuiet` and `NoFlap`) follows, whatever
  fails and whatever the settings window changes;
* `LayoutInv` needs writes and affinity calls that do not fail (`~Faults`): the
  scheduler's layout, the engine's and the process's are one.  It gives
  `SmallWhilePresent` (`UserKeepsTheCores`) also where settings change;
* `ShareInv` needs a thread count that stays the launched one as well
  (`~Resizes`).  `NeverMoreThanAllowed` compares a duty with an allowance, and
  the duty was worked out for a number of threads: the invariant says that this
  is the number the process has, or the duty is zero until the next tick.
  `ControllerStaysSafe` (the run's `ControllerSafe`) is from both.

`Scheduler_proofs`, for any users, ceilings, forecast and number of launches:
* `TypeCorrect`, on the lemmas about decide and approach (`AllowedBounded`);
* `SafetyCorrect`, the inductive `SafetyInv`, which says for every position of
  the tick, the users and the supervisor what follows for duty, display, copy
  and engine.  `PauseAppliedInOneTick`, for instance, is about the end of a
  tick; to be carried there it needs the same fact for a tick half way, when
  the allowance is zero and not yet sent;
* `ShutdownIsFinal`, `MemoryIsGivenBack`, `PauseIsApplied`, together
  `SchedulerStaysSafe` (the run's `SchedulerSafe`), and `LaunchesAtZero` from it.

`Pauses_proofs`, about two components that share no state (`Snooze` therefore has
`SnoozeInit`, `SnoozeNext` and so on).  For any hashrate, ratio and delays,
`HoldsStayTheirOwn`, the holds run's `HoldsInv`, which is inductive as it stands.
One lemma is about setHold up to the unlock, whoever calls it: it changes the
caller's part alone, so what another source is about to pass on of its own part
stays right.  And for any users, times and inodes, where no two changes of the
pause overlap (`~Overlap`):
* `PauseStaysSaved` (the snooze run's `SnoozeSafe`).  `SavedWhole` is carried by
  `Beside`: what a save has open is the inode called `.tmp`, which is not the
  file and is empty until the whole pause is in it.  `FileMirrors` speaks of
  moments with no call under way; `OneCall` (each call saves the pause in force)
  carries it to the rename;
* `RestartKeepsThePause` (`NeverBackEarly`), from `Promise`: between two quiet
  moments the pause promised is over (the tick's call), is kept (the start's) or
  counts as unsaved (the user's), and time only ends pauses (`TimeOnlyEnds`).

`Engines_proofs`, about two as well.  `Rollout`, for any number of releases and
pairs, kills, reloads and looks:
* `WayBackInv` needs nothing: a daemon that may still write a verdict knows
  exactly what is on disk (`KnowsDisk`), and a pair named healthy passed here
  (`Remembered`).  Without the first, a daemon judging across a reload could
  write over another's verdict.  `RolloutStaysSafe` (the run's `RolloutSafe`)
  follows, also where a release goes back to an earlier pair;
* `ProvenInv` (`ProvenInvariant`) needs releases that ship later pairs
  (`~Reverts`): `engines.json` has one place for a rejected pair and one for a
  healthy one, and that this is enough rests on the order of the pairs.
  `InOrder` has it for what is installed at every step of the maintainer scripts
  (`Prior`: an upgrade half way has moved the pair before, or not yet),
  `LastWord` for the verdicts: one that is no longer on disk was outdone by a
  later pair's.  `ProvenPairGoesFirst` (`ProvenFirst`) is from them.

`Startup`, for any releases, manifests, requirements, nodes, lists and ways of
shipping: `StartInv` adds to the run's `StartupInv` what the process has behind
it at each step (`Stages`: past its download the file is this release's; a choice
among nodes is remote mode's; a known version is never that of a build of the
user's own) and what the watch has (`WatchStages`: it judges nothing before it
has loaded, and what it saves is no older than what is in force).  From it
`StartupStaysSafe` (`StartupInv`) and `NoOlderManifest` (`NeverOlder`).

`Supervisor_proofs`, about the stack and the relay it runs.  `Supervisor`, for
any number of launches of p2pool and changes of the
settings and any set of profiles (`StackInvariant`).  `StackInv` is
* `Order`: who can be where together.  Start, the watch, the closers and the
  node's launch share no lock for their whole length, so every other part leans
  on which positions exclude each other, and `Order` says it unless the quit came
  midway;
* `Pool`: the process in `cmd` is the only one alive and on the node last set,
  and a closed p2pool has none once the Stop that follows is over.  This part
  holds midway too, hence `ClosedForGood` without exception;
* `Down`, `HubHeld`, `TorHeld`, `RelayHeld`, unless the quit came midway: what
  a shutdown has behind it stays down, and what runs is held by the supervisor
  or by the thread that has taken it and not closed it.  `TornDown` speaks of the
  end of a shutdown; these carry it there from each position, past Start's
  teardown and the watch's restart, which close and launch too.
The lemmas in between say who moves what (`AllHands`, `PoolMoves`,
`LaunchMoves`), so that each part is argued over the few steps that touch it.
From them `SupervisorStaysSafe` (`SupervisorSafe`) and `RelayStaysUnderP2Pool`
(`RelayUnderP2Pool`).

`Relay`, for any number of connections of either kind:
* `RelaySafe`, the inductive `RelayInv`.  `NothingLeft` speaks of a relay that
  has returned from Close; it is carried there by what each position of a
  handler may hold (`SlotInv`: before its dial and after its last step,
  nothing), by the goroutine of forwardZMQ running only under a handler that
  waits for it (`DialerInv`), and by `CloseInv` (returned means no handler);
* `RelayTypes`, `RelayLeavesNothing`, together `RelayStaysKept` (the run's
  `RelayKept`).  That the two kinds of listener share no
  slot (`RelayAssumption`) is not needed for either.

`Household_proofs`, for any number of desktops, addresses and crashes, whichever
writes fail and however long a handler lasts (`HouseAssumption`: no desktop is
named like a state of the owner file, and no address is the empty one).  Three
invariants, each about another thing the run relies on:
* `ClaimInv`: who owns the hub.  That a served config pays its owner says
  nothing of a setup half done, or of a request already let in, and both change
  the config.  So it is carried by what each position of a request has put on
  disk (`OwnInv`: a setup that may still fail holds the lock and its own token
  is the one on file; a desktop owns once its setup can no longer fail), by
  `Good` (a config that mines for a household names its owner, and no setup is
  under way that could release it) and by whom the run's API admits (`RunInv`).
  Steps that neither claim nor release, most of them, are `Calm` and share one
  argument (`CalmKeeps`); `ClaimExcludes` is why a setup that fails may delete
  the owner;
* `IdentInv`: the identity is whole wherever the API is served, so a certificate
  a desktop pinned is never made anew;
* `WriterInv`: one status writer at a time.
From them `HouseStaysSafe` (the run's `HouseInv`), `HousePaysItsOwner`
(`PaysItsOwner`) and `HouseStatusTells` (`StatusTells`).  `Asked`, that a request
carries an address its user may type, is needed for the types as well.

`Desktop_proofs`, for any presets, tray items, forms and clicks, the handlers'
steps in any order.  Three invariants beside the types (`DesktopTypes`), which
together with `NeverStranded`, inductive on the types alone, give the run's
`DesktopInv` (`DesktopStaysInReach`):
* `PlacesInv`: who can be where.  A handler holds no lock, so what excludes
  another is only that one window has one form and the set-up is over before
  there is anything else to click;
* `WalletInv`, for `LaunchAccepts` (`DesktopLaunchAccepts`): every config a
  handler has in hand has a wallet, unless the tray saved one before it was
  asked for (`unasked`).  It needs a first file that a launch accepts (a missing
  or torn one will do), for what no handler has written yet nobody has checked;
* `AgreeInv`, for `SettledAgree` (`DesktopSettledAgree`).  That file, config,
  entry and scheduler agree says nothing of a save half way, so each is followed
  apart: `InHand` (what a handler holds is what the config has, or will have),
  `FileFollows`, `EntryFollows` and `SchedulerFollows` (what is written ahead of
  the config, or told after it), with `OneWriter` as long as no two changes
  overlapped.
Most steps store nothing (`Aside`) and keep all three by one lemma each; the
rest (`Stores`) are argued one by one.

`Records_proofs`, about two components that share no state, both of which
compute with folds over sequences: a ledger is loaded minute by minute, a rate
is a sum, a book is read payout by payout.  Induction enters once, as
`LeastNumber`: a set of numbers has a least one.  A fold is a table over the
subsets of its indices (`FoldTable`), so what it computes is got along 1..0,
1..1, 1..2 and so on from the first place where it would not (`StepByStep`,
`FoldKeeps`, `LoadFold`), and a sum is the same in any order (`SumsAnyOrder`).
`Ledger`, for any capacity, span, windows and hashrates: `LedgerInv` is
* `RingInv`: which sample of this life each place of the ring has, before and
  after it is full.  `HistoryIsLast` compares a snapshot with a history, and
  nothing in the ring says where it began;
* `Marked` and, in a life the clock was not set back in, `Sound` and `Rising`:
  minutes begin when a minute does and are in order, none to come.  Without the
  first, a sample could open a minute out of order, and a rate that stops at
  the first old minute would leave out a later one; Load establishes them whatever
  the lives before have left on file;
* `SavesInv`, until the clock is set back or two Saves meet: the file, its
  `.tmp`, a Save's bytes and the ledger form a chain in which each has what the
  one before has of the last day (`Covers`).  `FileKeeps` is about the two ends.
From it `LedgerIsSafe` (`LedgerSafe`) and `LedgerFileKeeps` (`FileKeeps`).

`Payouts`, for any heights and any number of payouts kept and shared:
`PayoutsInv` says that the list, the book, what is left of its writing and the
desktop's list are as Record makes them, and that the running hub has what is on
file, its next file included.  A payout that fell off a full list is the hard
case: `RecordKeeps` has that it stays outdone by enough newer ones.
`PayoutsAreKept` is the run's `PayoutsKept`.

So every invariant and every action property a run checks is the statement of a
theorem.  Only model-checked: the liveness properties and the fairness half of
`ImplementsMiner`, for fairness and ENABLED are beyond this prover.  The inductive
invariants were checked by TLC on the runs' instances before they were proved.

## 5. Known disagreements

What the code does and a property therefore leaves out, and how to see it.

Miner and scheduler:
* A restart after a memory stop that fails once is not tried again, for
  `memStopped` is cleared before `Start` is called (`memory.go:117`); the
  display says it mines.  `MinesWhenAllowed` without its conjunct
  `memStopped \/ ~NoMiner`, and with `SF_vars(TickWork /\ launches' # launches)`
  in the fairness and no crashes, is refuted.
* `UpdateRuntime` changes the scheduler's thread count under a miner that keeps
  its own (`scheduler.go:507`): lowering `max_threads` doubles the duty of a
  miner that has not shrunk.  `Controller.cfg` with `Resizes = TRUE`.
* `SetLayout` records the layout before a write that may fail (`xmrig.go:422`)
  while the scheduler keeps its own: a failed widening and the user's return
  look settled, and the next restart launches the large layout.
  `Controller.cfg` with `Faults = TRUE`.
* The guard counts an unknown pressure reading as calm (`memory.go:63-65`).
* A crashed xmrig or p2pool is not noticed by anything.
* The hook that saves a pause runs after the unlock, through one `.tmp` name:
  two overlapping changes can be saved in the other order or torn.  A click
  between `endExpiredSnooze`'s check and its setOverride is lifted at once
  (`scheduler.go:459`), against "PauseUntil pauses mining until the given time".
  `Snooze.cfg` with `Overlap = TRUE`.
* The idle countdown runs on presets that do not wait for idle
  (`scheduler.go:521-537`); the dashboard then offers to skip a wait there is
  not (`dashboard.go:235-238`).

Stack:
* `Monerod.Start` waits under the lock its output reader needs before it can
  signal (`monerod.go:69`, `:108`): the wait always lasts its five minutes.
  `Supervisor.cfg` with `SPECIFICATION NoClockSpec`, which gives the wait no
  timeout, and `PROPERTY SyncEndsWait`.
* The Nodo's settings are read at detectNodo and watched only once p2pool is up;
  a change in the minutes between is not noticed.
* A switch to the local node whose p2pool takes longer than its timeout is not
  tried again: `Node()` goes on saying Tor, and the relay and Tor stay.
* `p2pool.Ready` stays true after p2pool has died, and an older process's reader
  may set it for a newer one; `lastLine` is kept across launches.
* A quit while Start runs reads fields Start has yet to set.  On Linux the
  parent-death signal stops what is missed; elsewhere nothing does.  `TornDown`
  therefore leaves out a quit that came midway, `ClosedForGood` does not.
* The probation reads the scheduler's combined hold as the island's
  (`engines.go:133`, against `rollout.go:38`): a sound pair fails for an
  advisory.
* `engines.json` remembers one rejected pair.  A release that goes back to an
  earlier pair, failed here before a later one did, is put on probation again
  instead of being passed over (`rollout.go:234`).  `Rollout.cfg` with
  `Reverts = TRUE` refutes `ProvenFirst`.
* `heldOwn` is taken while the 15-minute average may still be rising, and is
  then less than the machine's hashrate.

Installing and the advisory:
* Whatever file lies at the destination is taken for Tor
  (`autoinstall.go:469`), one a kill left half written too; `RunsWhatItSays` is
  about the engines, whose stamp tells.  A bare build is taken to find no Tor
  on the PATH.
* `Store.Save` renames the manifest, then its signature (`fetch.go:115`): killed
  in between, the next start has neither, and no floor for serials.
  `NeverOlder` is about one process for that reason.

Household:
* `pushWallet` compares the wallet with the config of its run and not with the
  file (`setup.go:117`): with two changes before the restart, the second may be
  answered as done and not be saved.  `Household.cfg` with `INVARIANT
  AnsweredIsSaved`.
* The owner is claimed before the config is saved: a crash in between leaves a
  hub with an owner and no config, which refuses every set-up, and a lost answer
  leaves its token with nobody.  A hub that saved a new wallet while the
  desktop's own save fails pays an address the desktop does not show.
* Close gives a handler two seconds; one that takes longer goes on in the next
  run, whose reload it then misses.  `SlowNetwork = TRUE`.
* Payout lines printed while the program restarts p2pool are lost, a paired
  desktop learns at most the ten the hub answers with, and forgets at a restart
  those it had beyond them.
* The statistics files of an earlier p2pool are read as this one's
  (`p2poolapi.go:136`), and told as such until the new one has written its own.

Files and windows:
* `config.Save` truncates in place (`config.go:371`).  A crash leaves a file that
  loads as nothing, and a reader meets half of one.
* The settings form and the tray's Kindness may be in flight at once
  (`settings.go:434`, `app.go:331`): each writes the config it read, and config,
  file and scheduler stay different.  `SettledAgree` without `~overlapped`.
* The tray's Kindness during first-run set-up saves a config with no wallet,
  which the next launch refuses (`app.go:326`).  `LaunchAccepts` without
  `unasked`.
* After a failed save setKindness returns early (`app.go:328`): menus and
  scheduler keep the old preset and the config in memory the new one.  A login
  entry made before a save that fails stays (`settings.go:442`).
* A tray that goes away after `hasTray` was asked takes a hidden window with it.
* The ledger's Save writes one `.tmp`, "atomically" (`ledger.go:102`), from the
  timer and from the shutdown, which does not wait for the timer
  (`core.go:556`): the older, or a torn one, may be published.  `FileKeeps`
  without `~overlapped'`.
* After the clock was set back, minutes that are still to come are counted in
  every rate (`ledger.go:44`), and a minute can be there twice.  `RateHonest`
  without `~stepped`.

## 6. Not modelled, and why

Log lines, events, wording and layout of the displays; hashrate polling and the
chart's points; which cores a layout holds (`buildLayouts`; their number
matters); failing signals; loss of what was not yet on the disk in a power cut;
the instants in which dpkg has replaced some files of a pair; an unreadable
state file (treated as absent by the code); the window's Retry (one Start is
modelled: `TornDown` says what a second one starts from); the bytes of ZMTP,
JSON, torrc and command lines; readings of /proc, /sys and D-Bus (the
environment's choice in the models); the arithmetic of signatures, certificates
and addresses; the hub's beacon and the text of a pairing code; the migration of
old configs; the doctor, which only reads; the low-priority launch, whose
failure changes nothing; a second instance, which D-Bus turns away; build
scripts, CI and signing tools.

## 7. Plan

The modules are written; the order of what is left is by what a mistake would
cost.

1. `Supervisor` with a desktop in hub mode.
2. `Household` composed with `Rollout`: both run `mine()`, each with its half.
3. `buildLayouts` as a pure choice of cores, under `Controller`.

---------------------------- MODULE Mining_proofs ----------------------------
(***************************************************************************)
(* The miner and what it is given.                                         *)
(*                                                                         *)
(* XMRig: for any number of launches, the engine's types and safety        *)
(* properties, and that every step of the engine is a step of its          *)
(* contract, Miner.                                                        *)
(*                                                                         *)
(* Controller: what a tick of the scheduler promises, for a machine of any *)
(* size, any layouts, presets, margins and delays: the memory guard's      *)
(* stops and restarts, the layout while the user is there, and a duty      *)
(* worked out for the cores the miner really has.                          *)
(***************************************************************************)
EXTENDS XMRig, Controller, TLAPS

-----------------------------------------------------------------------------
(* The engine.                                                             *)

LEMMA LaunchesBound == MaxLaunches \in Nat \ {0}
  BY EngineAssumption DEF EngineAssumption

USE LaunchesBound DEF Launches, NoCmd, Off, Part, Full, Duties, Live

\* A launch that has not happened has no process and no loop.
FreshInv == /\ cmd <= launches
            /\ \A l \in Launches : l > launches => /\ proc[l] = "none"
                                                   /\ loop[l] = "none"
                                                   /\ heard[l] = Full

\* Where a duty loop stands says what it heard.
LoopInv == \A l \in Launches : /\ loop[l] = "suspend" => heard[l] # Full
                               /\ loop[l] = "resume" => heard[l] # Off
                               /\ loop[l] = "slice" => heard[l] = Part

\* closed is stronger than ClosedForGood: the engine holds nothing at all.
ClosedInv == closed => cmd = NoCmd

EngineInv == /\ EngineTypeOK
             /\ NoOrphan
             /\ FrozenIffPaused
             /\ StaleLoopsTold
             /\ FreshInv
             /\ LoopInv
             /\ ClosedInv

LEMMA EngineInitially == EngineInit => EngineInv
<1> SUFFICES ASSUME EngineInit PROVE EngineInv
  OBVIOUS
<1>1. paused \in BOOLEAN /\ closed \in BOOLEAN
  BY Zenon DEF EngineInit
<1>2. /\ proc \in [Launches -> ProcStates]
      /\ loop \in [Launches -> LoopStates]
      /\ heard \in [Launches -> Duties]
  BY DEF EngineInit, ProcStates, LoopStates
<1>3. EngineTypeOK
  BY <1>1, <1>2 DEF EngineInit, EngineTypeOK
<1>4. NoOrphan /\ FrozenIffPaused /\ StaleLoopsTold /\ ClosedInv
  BY DEF EngineInit, NoOrphan, FrozenIffPaused, StaleLoopsTold, ClosedInv
<1>5. FreshInv /\ LoopInv
  BY DEF EngineInit, FreshInv, LoopInv
<1> QED
  BY <1>3, <1>4, <1>5 DEF EngineInv

\* Types, one action at a time.
LEMMA EngineTypeStep == EngineInv /\ [EngineNext]_engineVars => EngineTypeOK'
<1> SUFFICES ASSUME EngineInv, [EngineNext]_engineVars PROVE EngineTypeOK'
  OBVIOUS
<1> USE DEF EngineInv, EngineTypeOK, ProcStates, LoopStates
<1>1. CASE start
  <2>1. paused' \in BOOLEAN /\ closed' \in BOOLEAN
    BY <1>1, Zenon DEF start
  <2>2. cmd' \in Launches /\ launches' \in 0..MaxLaunches
    BY <1>1 DEF start
  <2>3. proc' \in [Launches -> ProcStates] /\ loop' \in [Launches -> LoopStates]
    BY <1>1 DEF start
  <2> QED
    BY <1>1, <2>1, <2>2, <2>3 DEF start
<1>2. CASE Stop \/ Close
  <2>1. stop /\ (closed' = closed \/ closed' = TRUE)
    BY <1>2 DEF Stop, Close
  <2>2. CASE cmd = NoCmd
    BY <2>1, <2>2 DEF stop
  <2>3. CASE cmd # NoCmd
    <3>1. paused' = FALSE /\ quit' = quit \cup {cmd} /\ cmd \in Launches
      BY <2>1, <2>3 DEF stop
    <3>2. proc' \in [Launches -> ProcStates]
      BY <2>1, <2>3 DEF stop
    <3> QED
      BY <2>1, <3>1, <3>2 DEF stop
  <2> QED
    BY <2>2, <2>3
<1>4. CASE \E d \in Requests : SetDuty(d)
  BY <1>4 DEF SetDuty, Requests
<1>5. CASE Crash
  BY <1>5 DEF Crash
<1>6. ASSUME NEW l \in Launches, DutyLoop(l) PROVE EngineTypeOK'
  <2>1. CASE LoopRead(l)
    BY <2>1 DEF LoopRead, LoopGoes
  <2>2. CASE LoopResume(l)
    BY <2>2 DEF LoopResume, LoopGoes, AfterResume, unsuspend, signal
  <2>3. CASE LoopSuspend(l)
    BY <2>3 DEF LoopSuspend, LoopGoes, suspend, signal
  <2>4. CASE LoopWait(l)
    BY <2>4 DEF LoopWait, LoopGoes
  <2>5. CASE LoopExit(l)
    BY <2>5 DEF LoopExit, LoopGoes
  <2> QED
    BY <1>6, <2>1, <2>2, <2>3, <2>4, <2>5 DEF DutyLoop
<1>7. CASE UNCHANGED engineVars
  BY <1>7 DEF engineVars
<1> QED
  BY <1>1, <1>2, <1>4, <1>5, <1>6, <1>7 DEF EngineNext, EngineStep, Start

\* The rest of the invariant, one action at a time.
LEMMA EngineInvStep == EngineInv /\ [EngineNext]_engineVars => EngineInv'
<1> SUFFICES ASSUME EngineInv, [EngineNext]_engineVars
             PROVE  (/\ NoOrphan /\ FrozenIffPaused /\ StaleLoopsTold
                     /\ FreshInv /\ LoopInv /\ ClosedInv)'
  BY EngineTypeStep DEF EngineInv
<1> USE DEF EngineInv, EngineTypeOK, NoOrphan, FrozenIffPaused, StaleLoopsTold,
            FreshInv, LoopInv, ClosedInv
<1>1. CASE Start
  <2>1. CASE UNCHANGED engineVars
    BY <2>1 DEF engineVars
  <2>2. CASE start /\ ~closed /\ cmd = NoCmd
    BY <2>2 DEF start
  <2> QED
    BY <1>1, <2>1, <2>2 DEF Start
<1>2. CASE Stop
  BY <1>2 DEF Stop, stop
<1>3. CASE Close
  BY <1>3 DEF Close, stop
<1>4. CASE \E d \in Requests : SetDuty(d)
  BY <1>4 DEF SetDuty
<1>5. CASE Crash
  BY <1>5 DEF Crash
<1>6. ASSUME NEW l \in Launches, DutyLoop(l)
      PROVE (/\ NoOrphan /\ FrozenIffPaused /\ StaleLoopsTold
             /\ FreshInv /\ LoopInv /\ ClosedInv)'
  <2>1. CASE LoopRead(l)
    BY <2>1 DEF LoopRead, LoopGoes
  <2>2. CASE LoopResume(l)
    BY <2>2 DEF LoopResume, LoopGoes, AfterResume, unsuspend, signal
  <2>3. CASE LoopSuspend(l)
    BY <2>3 DEF LoopSuspend, LoopGoes, suspend, signal
  <2>4. CASE LoopWait(l)
    BY <2>4 DEF LoopWait, LoopGoes
  <2>5. CASE LoopExit(l)
    BY <2>5 DEF LoopExit, LoopGoes
  <2> QED
    BY <1>6, <2>1, <2>2, <2>3, <2>4, <2>5 DEF DutyLoop
<1>7. CASE UNCHANGED engineVars
  BY <1>7 DEF engineVars
<1> QED
  BY <1>1, <1>2, <1>3, <1>4, <1>5, <1>6, <1>7 DEF EngineNext, EngineStep

\* The invariant the engine's safety rests on: no orphan process, a flag that
\* tells the truth, and no duty loop that was not told to stop.
THEOREM EngineSafe == EngineSpec => []EngineInv
  BY EngineInitially, EngineInvStep, PTL DEF EngineSpec

\* No miner process outlives Close.
THEOREM EngineClosesForGood == EngineSpec => []ClosedForGood
<1>1. EngineInv => ClosedForGood
  BY DEF EngineInv, EngineTypeOK, NoOrphan, ClosedInv, ClosedForGood
<1> QED
  BY <1>1, EngineSafe, PTL

\* Every process that is not reaped is the one the engine holds.
THEOREM EngineOrphansNothing == EngineSpec => []NoOrphan
<1>1. EngineInv => NoOrphan
  BY DEF EngineInv
<1> QED
  BY <1>1, EngineSafe, PTL

\* The paused flag agrees with the operating system.
THEOREM EnginePausedFlag == EngineSpec => []FrozenIffPaused
<1>1. EngineInv => FrozenIffPaused
  BY DEF EngineInv
<1> QED
  BY <1>1, EngineSafe, PTL

\* The engine's invariant as its run checks it.
THEOREM EngineStaysKept == EngineSpec => []EngineKept
<1>1. EngineInv => EngineKept
  BY DEF EngineInv, EngineTypeOK, NoOrphan, ClosedInv, ClosedForGood,
         EngineKept
<1> QED
  BY <1>1, EngineSafe, PTL

\* No signal is sent to a process that was reaped.
THEOREM EngineSignalsNoReaped == EngineSpec => ReapedNotSignalled
<1>1. EngineInv /\ [EngineNext]_engineVars
        => [\A l \in Launches : proc[l] = "gone" => proc'[l] = "gone"]_engineVars
  <2> SUFFICES ASSUME EngineInv, EngineNext, NEW k \in Launches, proc[k] = "gone"
               PROVE  proc'[k] = "gone"
    OBVIOUS
  <2> USE DEF EngineInv, EngineTypeOK, NoOrphan, FreshInv
  <2>1. CASE Start \/ Stop \/ Close
    BY <2>1 DEF Start, start, Stop, Close, stop, engineVars
  <2>2. CASE (\E d \in Requests : SetDuty(d)) \/ Crash
    BY <2>2 DEF SetDuty, Crash
  <2>3. ASSUME NEW l \in Launches, DutyLoop(l) PROVE proc'[k] = "gone"
    BY <2>3 DEF DutyLoop, LoopRead, LoopResume, LoopSuspend, LoopWait, LoopExit,
                suspend, unsuspend, signal
  <2> QED
    BY <2>1, <2>2, <2>3 DEF EngineNext, EngineStep
<1> QED
  BY <1>1, EngineSafe, PTL DEF EngineSpec, ReapedNotSignalled
-----------------------------------------------------------------------------
(* The engine implements its contract.                                     *)

\* Every step of the engine's goroutines and callers is, seen through the
\* refinement mapping, a step of Miner or no step at all.
LEMMA EngineRefines ==
  EngineInv /\ EngineInv' /\ [EngineNext]_engineVars => [M!EngineNext]_M!engineVars
<1> SUFFICES ASSUME EngineInv, EngineInv', [EngineNext]_engineVars
             PROVE  M!EngineNext \/ UNCHANGED M!engineVars
  OBVIOUS
<1> USE DEF EngineInv, EngineTypeOK, NoOrphan, FrozenIffPaused, FreshInv, LoopInv,
            M!engineVars, M!EngineNext, M!EngineStep, M!Off, M!Part, M!Full,
            M!Duties, M!Live
<1>1. CASE Start
  <2>1. CASE UNCHANGED engineVars
    BY <2>1 DEF engineVars
  <2>2. CASE start /\ ~closed /\ cmd = NoCmd
    <3>1. M!Launch
      BY <2>2 DEF start, M!Launch
    <3> QED
      BY <3>1, <2>2 DEF M!Start
  <2> QED
    BY <1>1, <2>1, <2>2 DEF Start
<1>2. CASE Stop
  <2>1. M!Stop
    BY <1>2 DEF Stop, stop, M!Stop
  <2> QED
    BY <2>1
<1>3. CASE Close
  <2>1. M!Close
    BY <1>3 DEF Close, stop, M!Close
  <2> QED
    BY <2>1
<1>4. CASE \E d \in Requests : SetDuty(d)
  <2>1. M!SetDuty(duty') /\ duty' \in Duties
    BY <1>4 DEF SetDuty, Requests, M!SetDuty
  <2> QED
    BY <2>1
<1>5. CASE Crash
  <2>1. M!Crash
    BY <1>5 DEF Crash, M!Crash
  <2> QED
    BY <2>1
<1>6. ASSUME NEW l \in Launches, DutyLoop(l)
      PROVE  M!EngineNext \/ UNCHANGED M!engineVars
  <2>1. CASE LoopRead(l)
    <3>1. CASE l = cmd
      <4>1. M!Hear
        BY <2>1, <3>1 DEF LoopRead, LoopGoes, M!Hear
      <4> QED
        BY <4>1
    <3>2. CASE l # cmd
      BY <2>1, <3>2 DEF LoopRead, LoopGoes
    <3> QED
      BY <3>1, <3>2
  <2>2. CASE LoopResume(l)
    <3>1. CASE proc' = proc
      BY <2>2, <3>1 DEF LoopResume
    <3>2. CASE proc' # proc
      <4>1. /\ l = cmd
            /\ proc[l] = "frozen"
            /\ proc' = [proc EXCEPT ![l] = "run"]
            /\ heard[l] # Off
        BY <2>2, <3>2 DEF LoopResume, LoopGoes, unsuspend, signal
      <4>2. M!Obey
        BY <2>2, <4>1 DEF LoopResume, M!Obey
      <4> QED
        BY <4>2
    <3> QED
      BY <3>1, <3>2
  <2>3. CASE LoopSuspend(l)
    <3>1. CASE proc' = proc
      BY <2>3, <3>1 DEF LoopSuspend
    <3>2. CASE proc' # proc
      <4>1. /\ l = cmd
            /\ proc[l] = "run"
            /\ proc' = [proc EXCEPT ![l] = "frozen"]
            /\ heard[l] # Full
        BY <2>3, <3>2 DEF LoopSuspend, LoopGoes, suspend, signal
      <4>2. M!Obey
        BY <2>3, <4>1 DEF LoopSuspend, M!Obey
      <4> QED
        BY <4>2
    <3> QED
      BY <3>1, <3>2
  <2>4. CASE LoopWait(l) \/ LoopExit(l)
    BY <2>4 DEF LoopWait, LoopExit
  <2> QED
    BY <1>6, <2>1, <2>2, <2>3, <2>4 DEF DutyLoop
<1>7. CASE UNCHANGED engineVars
  BY <1>7 DEF engineVars
<1> QED
  BY <1>1, <1>2, <1>3, <1>4, <1>5, <1>6, <1>7 DEF EngineNext, EngineStep

\* The engine implements the safety part of module Miner, which is what the
\* scheduler's proofs use of it.
THEOREM EngineImplementsMiner ==
  EngineSpec => M!EngineInit /\ [][M!EngineNext]_M!engineVars
<1>1. EngineInit => M!EngineInit
  BY DEF EngineInit, M!EngineInit, M!Off
<1> QED
  BY <1>1, EngineRefines, EngineSafe, PTL DEF EngineSpec

HIDE LaunchesBound DEF Launches, NoCmd, Off, Part, Full, Duties, Live

-----------------------------------------------------------------------------
(* The controller: its inductive invariants.                               *)

\* The memory guard: a miner that is stopped is not running, the calm it has
\* counted is one that was, and the others had left room when it came back.
GuardInv == /\ guard.stopped => running = 0
            /\ guard.calm < peace
            /\ atRestart # Never => atRestart + Margin + Footprint <= Memory

\* The layouts, with no write that fails: scheduler, engine and process agree.
LayoutInv == profile = "layouts" =>
               /\ engineLayout = layoutNow
               /\ gated => layoutNow = "present"
               /\ running \in {0, Size(layoutNow)}

\* The share, with no write that fails and the settings as they were at the
\* start: what the duty was worked out for is what the process has, or the
\* duty is zero until the next tick has worked it out.
Threads == IF profile = "layouts" THEN Size(layoutNow) ELSE threads
ShareInv == /\ maxThreads = threads
            /\ running \in {0, Threads}
            /\ profile # "nodo" \/ Little = Cores => activeCores = 0
            /\ full = IF activeCores > 0 THEN Min2(activeCores, Threads) ELSE Threads
            /\ activeCores > 0 /\ running # 0 => confined = activeCores \/ allowed = 0
            /\ phase = "sample" /\ guard.stopped => allowed = 0

-----------------------------------------------------------------------------
(* The memory guard.                                                       *)

Guards == [stopped : BOOLEAN, stallTicks : 0..StallTicks, calm : Never..(Quiet - 1)]

LEMMA Numbers ==
  /\ Cores \in Nat \ {0} /\ Present \in 1..Cores /\ Idle \in 1..Cores /\ Little \in 1..Cores
  /\ WidenAfter \in Nat \ {0} /\ StallTicks \in Nat \ {0} /\ Quiet \in Nat \ {0}
  /\ Memory \in Nat /\ Margin \in Nat /\ Footprint \in Nat /\ GhostCeiling \in 1..Cores
  /\ Never = -1
  /\ \A l \in Layouts : Size(l) \in 1..Cores
  BY ControllerAssumption DEF ControllerAssumption, Never, Layouts, Size

LEMMA IsGuard ==
  ASSUME NEW b \in BOOLEAN, NEW n \in 0..StallTicks, NEW c \in Never..(Quiet - 1)
  PROVE  LET g == [stopped |-> b, stallTicks |-> n, calm |-> c]
         IN  g \in Guards /\ g.stopped = b /\ g.stallTicks = n /\ g.calm = c
<1>1. [stopped |-> b, stallTicks |-> n, calm |-> c] \in Guards
  BY Zenon DEF Guards
<1>2. /\ [stopped |-> b, stallTicks |-> n, calm |-> c].stopped = b
      /\ [stopped |-> b, stallTicks |-> n, calm |-> c].stallTicks = n
      /\ [stopped |-> b, stallTicks |-> n, calm |-> c].calm = c
  BY SMT
<1>3. QED
  BY <1>1, <1>2, Zenon

LEMMA Stalls ==
  ASSUME NEW n \in 0..StallTicks
  PROVE  Min2(n + 1, StallTicks) \in 0..StallTicks
  BY Numbers DEF Min2

\* While the miner runs: a stop is for want of memory or for stalls.
LEMMA RunningSteps ==
  ASSUME guard \in Guards, NEW psi, NEW known \in BOOLEAN, NEW o
  PROVE  LET g == stepIfRunning(psi, known, o)
         IN  /\ g \in Guards /\ g.calm = Never
             /\ g.stopped /\ g.stallTicks < StallTicks => known /\ available(o) < Margin
<1> DEFINE stalls == IF psi = "stalled" THEN Min2(guard.stallTicks + 1, StallTicks) ELSE 0
           short == (known /\ available(o) < Margin) \/ stalls >= StallTicks
<1>1. stalls \in 0..StallTicks
  BY Stalls, Numbers DEF Guards
<1>2. stepIfRunning(psi, known, o) = [stopped |-> short, stallTicks |-> stalls, calm |-> Never]
  BY DEF stepIfRunning
<1>3. Never \in Never..(Quiet - 1)
  BY Numbers
<1>4. short \in BOOLEAN
  OBVIOUS
<1> HIDE DEF stalls
<1>5. short /\ stalls < StallTicks => known /\ available(o) < Margin
  BY <1>1, Numbers
<1> HIDE DEF short
<1>6. LET g == [stopped |-> short, stallTicks |-> stalls, calm |-> Never]
      IN  g \in Guards /\ g.stopped = short /\ g.stallTicks = stalls /\ g.calm = Never
  BY <1>1, <1>3, <1>4, IsGuard, Zenon
<1>7. QED
  BY <1>2, <1>5, <1>6, Zenon

\* While it is stopped: calm is counted one by one, and the last reading of a
\* Quiet lets it back.
Calmly(psi, known, o) == psi \in {"unknown", "quiet"} /\ Roomy(known, o)

LEMMA StoppedSteps ==
  ASSUME guard \in Guards, NEW psi, NEW known \in BOOLEAN, NEW o
  PROVE  LET g == stepIfStopped(psi, known, o)
         IN  /\ g \in Guards
             /\ g.calm = Never \/ (Calmly(psi, known, o) /\ g.calm = guard.calm + 1)
             /\ ~g.stopped => Calmly(psi, known, o) /\ guard.calm + 1 = Quiet
<1> DEFINE calmly == Calmly(psi, known, o)
           since == IF calmly THEN guard.calm + 1 ELSE Never
           stalls == IF psi = "stalled" THEN Min2(guard.stallTicks + 1, StallTicks) ELSE 0
           counted == IF since >= Quiet THEN Never ELSE since
           waits == ~calmly \/ since < Quiet
<1>1. stalls \in 0..StallTicks
  BY Stalls, Numbers DEF Guards
<1>2. stepIfStopped(psi, known, o) = [stopped |-> waits, stallTicks |-> stalls, calm |-> counted]
  BY DEF stepIfStopped, Calmly
<1> HIDE DEF stalls, calmly
<1>3. guard.calm \in Never..(Quiet - 1)
  BY DEF Guards
<1>4. /\ counted \in Never..(Quiet - 1)
      /\ counted = Never \/ (calmly /\ counted = guard.calm + 1)
      /\ ~waits => calmly /\ guard.calm + 1 = Quiet
  BY <1>3, Numbers
<1> HIDE DEF since, counted
<1>5. waits \in BOOLEAN
  OBVIOUS
<1> HIDE DEF waits
<1>6. LET g == [stopped |-> waits, stallTicks |-> stalls, calm |-> counted]
      IN  g \in Guards /\ g.stopped = waits /\ g.stallTicks = stalls /\ g.calm = counted
  BY <1>1, <1>4, <1>5, IsGuard, Zenon
<1>7. QED
  BY <1>2, <1>4, <1>6, Zenon DEF calmly

\* Room, as the guard and as the history of its readings have it.
LEMMA RoomIsRoom ==
  ASSUME NEW o \in 0..Memory, running = 0
  PROVE  /\ available(o) = Memory - o
         /\ available(o) >= Margin + Footprint <=> o + Margin + Footprint <= Memory
  BY Numbers DEF available

LEMMA WantIsWant ==
  ASSUME NEW o \in 0..Memory, NEW m \in 0..Memory, m + Margin + Footprint <= Memory,
         available(o) < Margin
  PROVE  o > m
<1> DEFINE held == o + (IF running = 0 THEN 0 ELSE Footprint)
<1>1. held \in Nat /\ held <= o + Footprint
  BY Numbers
<1>2. available(o) = IF held > Memory THEN 0 ELSE Memory - held
  BY DEF available
<1> HIDE DEF held
<1>3. o + Footprint > Memory - Margin
  BY <1>1, <1>2, Numbers
<1>4. QED
  BY <1>3, Numbers

\* A launch gives the process as many threads as the layout or the settings say.
LEMMA LaunchIsFull ==
  ASSUME ControllerTypeOK
  PROVE  LaunchThreads(engineLayout) \in 1..Cores
  BY Numbers DEF ControllerTypeOK, LaunchThreads

LEMMA Readings ==
  ASSUME ControllerTypeOK
  PROVE  /\ guard \in Guards /\ peace \in 0..(Quiet + 1) /\ atRestart \in Never..Memory
         /\ running \in 0..Cores /\ confined \in 0..Cores
         /\ Min2(peace + 1, Quiet + 1) \in 0..(Quiet + 1) /\ Cores \in 0..Cores /\ 0 \in 0..Cores
  BY Numbers DEF ControllerTypeOK, Guards, Min2

\* A reading of the memory: what the guard makes of it, in every case.
LEMMA SampleKeeps ==
  ASSUME ControllerTypeOK, GuardInv, Sample
  PROVE  /\ ControllerTypeOK' /\ GuardInv'
         /\ guard.stopped /\ ~guard'.stopped => peace' > Quiet
         /\ ~guard.stopped /\ guard'.stopped /\ guard'.stallTicks < StallTicks
              => others' > atRestart
<1>1. PICK o \in 0..Memory, psi \in Pressures, known \in BOOLEAN :
        /\ others' = o
        /\ guard' = step(psi, known, o)
        /\ Turn(guard'.stopped)
        /\ atRestart' = IF guard.stopped /\ ~guard'.stopped
                        THEN IF known THEN o ELSE Never ELSE atRestart
        /\ peace' = IF psi \in {"unknown", "quiet"} /\ (known => o + Margin + Footprint <= Memory)
                    THEN Min2(peace + 1, Quiet + 1) ELSE 0
  BY DEF Sample
<1>2. /\ guard \in Guards /\ peace \in 0..(Quiet + 1) /\ atRestart \in Never..Memory
      /\ running \in 0..Cores /\ confined \in 0..Cores
      /\ Min2(peace + 1, Quiet + 1) \in 0..(Quiet + 1) /\ Cores \in 0..Cores /\ 0 \in 0..Cores
  BY Readings
<1>3. CASE guard.stopped
  <2>1. running = 0
    BY <1>3 DEF GuardInv
  <2>2. Calmly(psi, known, o) => /\ peace' = Min2(peace + 1, Quiet + 1)
                                 /\ known => o + Margin + Footprint <= Memory
    BY <1>1, <2>1, RoomIsRoom DEF Calmly, Roomy
  <2>3. /\ guard' \in Guards
        /\ guard'.calm = Never \/ (Calmly(psi, known, o) /\ guard'.calm = guard.calm + 1)
        /\ ~guard'.stopped => Calmly(psi, known, o) /\ guard.calm + 1 = Quiet
    BY <1>1, <1>2, <1>3, StoppedSteps DEF step
  <2>4. guard'.calm < peace'
    <3>1. peace' \in Nat
      BY <1>1, <1>2
    <3>2. guard.calm < peace /\ guard'.calm \in Never..(Quiet - 1) /\ guard.calm \in Int
      BY <1>2, <2>3, Numbers DEF GuardInv, Guards
    <3>3. QED
      BY <1>2, <2>2, <2>3, <3>1, <3>2, Numbers DEF Min2
  <2>5. ~guard'.stopped => peace' > Quiet
    BY <1>2, <2>2, <2>3, Numbers DEF GuardInv, Min2, Guards
  <2>6. /\ guard'.stopped => running' = 0
        /\ running' \in 0..Cores /\ confined' \in 0..Cores
    <3>1. LaunchThreads(engineLayout) \in 0..Cores
      BY LaunchIsFull, Numbers
    <3>2. CASE running' = running /\ confined' = confined
      BY <1>2, <2>1, <3>2
    <3>3. CASE ~guard'.stopped
      BY <1>1, <1>2, <1>3, <3>1, <3>3 DEF Turn
    <3>4. QED
      BY <1>1, <1>3, <3>2, <3>3 DEF Turn
  <2>7. /\ atRestart' \in Never..Memory
        /\ atRestart' # Never => atRestart' + Margin + Footprint <= Memory
    BY <1>1, <1>2, <1>3, <2>2, <2>3, Numbers DEF GuardInv
  <2>8. peace' \in 0..(Quiet + 1)
    BY <1>1, <1>2, Numbers
  <2>9. ControllerTypeOK'
    BY <1>1, <2>3, <2>6, <2>7, <2>8
       DEF Sample, ControllerTypeOK, Guards, settings, placing
  <2>10. QED
    BY <1>3, <2>4, <2>5, <2>6, <2>7, <2>9 DEF GuardInv
<1>4. CASE ~guard.stopped
  <2>1. /\ guard' \in Guards /\ guard'.calm = Never
        /\ guard'.stopped /\ guard'.stallTicks < StallTicks => known /\ available(o) < Margin
    BY <1>1, <1>2, <1>4, RunningSteps DEF step
  <2>2. peace' \in 0..(Quiet + 1) /\ guard'.calm < peace'
    BY <1>1, <1>2, <2>1, Numbers
  <2>3. /\ guard'.stopped => running' = 0
        /\ running' \in 0..Cores /\ confined' \in 0..Cores
    BY <1>1, <1>2, <1>4 DEF Turn
  <2>4. atRestart' = atRestart
    BY <1>1, <1>4
  <2>5. guard'.stopped /\ guard'.stallTicks < StallTicks => others' > atRestart
    <3>1. CASE atRestart = Never
      BY <1>1, <3>1, Numbers
    <3>2. CASE atRestart # Never
      <4>1. atRestart \in 0..Memory /\ atRestart + Margin + Footprint <= Memory
        BY <1>2, <3>2, Numbers DEF GuardInv
      <4>2. QED
        BY <1>1, <2>1, <4>1, WantIsWant
    <3>3. QED
      BY <3>1, <3>2
  <2>6. ControllerTypeOK'
    BY <1>1, <1>2, <2>1, <2>2, <2>3, <2>4
       DEF Sample, ControllerTypeOK, Guards, settings, placing
  <2>7. QED
    BY <1>4, <2>2, <2>3, <2>4, <2>5, <2>6 DEF GuardInv
<1>5. QED
  BY <1>3, <1>4

-----------------------------------------------------------------------------
(* The second half of a tick.                                              *)

LEMMA WideTypes ==
  ASSUME ControllerTypeOK, NEW pressured \in BOOLEAN, nextWide(pressured)
  PROVE  wide' \in BOOLEAN /\ calm' \in 0..WidenAfter
<1>1. calm \in 0..WidenAfter /\ wide \in BOOLEAN
  BY DEF ControllerTypeOK
<1>2. Min2(calm + 1, WidenAfter) \in 0..WidenAfter /\ 0 \in 0..WidenAfter
  BY <1>1, Numbers DEF Min2
<1>3. CASE pressured
  BY <1>2, <1>3 DEF nextWide
<1>4. CASE ~pressured
  <2>1. calm' \in 0..WidenAfter
    BY <1>2, <1>4 DEF nextWide
  <2>2. wide' \in BOOLEAN
    BY <1>4, Zenon DEF nextWide
  <2>3. QED
    BY <2>1, <2>2
<1>5. QED
  BY <1>3, <1>4

LEMMA PlaceTypes ==
  ASSUME ControllerTypeOK, NEW pressured \in BOOLEAN, Place(pressured)
  PROVE  /\ running' \in 0..Cores /\ (running = 0 => running' = 0)
         /\ {engineLayout', layoutNow'} \subseteq Layouts /\ failed' \in BOOLEAN
         /\ {confined', activeCores'} \subseteq 0..Cores
         /\ wide' \in BOOLEAN /\ calm' \in 0..WidenAfter
<1>1. /\ running \in 0..Cores /\ {engineLayout, layoutNow} \subseteq Layouts
      /\ failed \in BOOLEAN /\ {confined, activeCores} \subseteq 0..Cores
      /\ wide \in BOOLEAN /\ calm \in 0..WidenAfter
  BY DEF ControllerTypeOK
<1>2. Outcomes \subseteq BOOLEAN
  BY DEF Outcomes
<1>3. CASE placeLayout(gated') /\ UNCHANGED <<confined, activeCores, wide, calm>>
  <2>1. PICK want \in Layouts :
          \/ UNCHANGED <<layoutNow, engineLayout, running, failed>>
          \/ \E ok \in Outcomes :
               /\ engineLayout' = want
               /\ running' = IF running # 0 /\ ok THEN Size(want) ELSE running
               /\ layoutNow' = IF ok \/ running = 0 THEN want ELSE layoutNow
               /\ failed' = (~ok /\ running # 0)
    BY <1>3 DEF placeLayout, SetLayout, Layouts
  <2>2. Size(want) \in 0..Cores
    BY Numbers
  <2>3. running' \in 0..Cores /\ (running = 0 => running' = 0)
    BY <1>1, <2>1, <2>2
  <2>4. {engineLayout', layoutNow'} \subseteq Layouts
    BY <1>1, <2>1
  <2>5. failed' \in BOOLEAN
    BY <1>1, <2>1, Zenon
  <2>6. QED
    BY <1>1, <1>3, <2>3, <2>4, <2>5
<1>4. CASE placeOnCores(pressured) /\ UNCHANGED <<layoutNow, engineLayout, running>>
  <2>1. wide' \in BOOLEAN /\ calm' \in 0..WidenAfter
    BY <1>4, WideTypes DEF placeOnCores
  <2>2. activeCores' \in 0..Cores
    BY <1>4, Numbers DEF placeOnCores
  <2>3. confined' \in 0..Cores
    BY <1>1, <1>4, <2>2 DEF placeOnCores
  <2>4. failed' \in BOOLEAN
    BY <1>4, Zenon DEF placeOnCores
  <2>5. QED
    BY <1>1, <1>4, <2>1, <2>2, <2>3, <2>4
<1>5. CASE UNCHANGED <<confined, activeCores, wide, calm, layoutNow, engineLayout,
                       running, failed>>
  BY <1>1, <1>5
<1>6. QED
  BY <1>3, <1>4, <1>5 DEF Place

\* The allowance is some of the machine, and so is what it is measured against.
LEMMA AllowanceTypes ==
  ASSUME ControllerTypeOK, NEW other \in 0..Cores, NEW warm \in BOOLEAN,
         NEW t \in Targets(other, warm)
  PROVE  approach(t) \subseteq 0..Cores
<1>1. Ceilings[preset] \in 1..Cores
  BY ControllerAssumption DEF ControllerAssumption, ControllerTypeOK
<1>2. effectiveCeiling \in 1..Cores
  BY <1>1, Numbers DEF effectiveCeiling
<1>3. t \in 0..Cores
  BY <1>2, Numbers DEF Targets
<1>4. allowed \in 0..Cores
  BY DEF ControllerTypeOK
<1>5. QED
  BY <1>3, <1>4, Numbers DEF approach

LEMMA ActTypes ==
  ASSUME ControllerTypeOK, Act
  PROVE  ControllerTypeOK' /\ (running = 0 => running' = 0)
<1>1. /\ gated' \in BOOLEAN /\ phase' = "sample"
      /\ UNCHANGED <<settings, memory, threads>>
  BY DEF Act
<1>2. PICK pressured \in BOOLEAN : Place(pressured)
  BY DEF Act
<1>3. /\ running' \in 0..Cores /\ (running = 0 => running' = 0)
      /\ {engineLayout', layoutNow'} \subseteq Layouts /\ failed' \in BOOLEAN
      /\ {confined', activeCores'} \subseteq 0..Cores
      /\ wide' \in BOOLEAN /\ calm' \in 0..WidenAfter
  BY <1>2, PlaceTypes
<1>4. allowed' \in 0..Cores
  <2>1. PICK other \in 0..Cores, warm \in BOOLEAN, halt \in BOOLEAN :
          IF halt \/ guard.stopped
          THEN allowed' = 0
          ELSE \E t \in Targets(other, warm) : allowed' \in approach(t)
    BY DEF Act
  <2>2. QED
    BY <2>1, AllowanceTypes, Numbers
<1>5. full' \in 1..Cores
  <2>1. Size(layoutNow') \in 1..Cores /\ maxThreads \in 1..Cores
    BY <1>3, Numbers DEF ControllerTypeOK
  <2>2. maxThreads' = maxThreads
    BY <1>1 DEF settings
  <2>3. QED
    BY <1>3, <2>1, <2>2, Numbers DEF Act, minerFullShare, Min2
<1>6. QED
  BY <1>1, <1>3, <1>4, <1>5 DEF ControllerTypeOK, settings, memory

-----------------------------------------------------------------------------
(* Types and the memory guard, in every run.                               *)

LEMMA InitKnows == Init => ControllerTypeOK /\ GuardInv
<1> SUFFICES ASSUME Init PROVE ControllerTypeOK /\ GuardInv
  OBVIOUS
<1>1. threads \in 1..Cores
  BY ControllerAssumption DEF Init, ControllerAssumption
<1>2. running \in 1..Cores
  BY <1>1, Numbers DEF Init, LaunchThreads, Layouts
<1>3. guard \in Guards
  <2>1. Never \in Never..(Quiet - 1) /\ 0 \in 0..StallTicks
    BY Numbers
  <2>2. guard = [stopped |-> FALSE, stallTicks |-> 0, calm |-> Never]
    BY DEF Init
  <2>3. QED
    BY <2>1, <2>2, IsGuard
<1>4. /\ others \in 0..Memory /\ atRestart \in Never..Memory /\ peace \in 0..(Quiet + 1)
      /\ confined \in 0..Cores /\ activeCores \in 0..Cores /\ calm \in 0..WidenAfter
      /\ allowed \in 0..Cores /\ full \in 1..Cores /\ running \in 0..Cores
  BY <1>2, Numbers DEF Init
<1>5. ControllerTypeOK
  BY <1>1, <1>3, <1>4 DEF Init, ControllerTypeOK, Guards, Layouts
<1>6. GuardInv
  BY Numbers DEF Init, GuardInv
<1>7. QED
  BY <1>5, <1>6

LEMMA GuardKept ==
  ASSUME ControllerTypeOK, GuardInv, [Next]_vars
  PROVE  ControllerTypeOK' /\ GuardInv'
<1>1. CASE Sample
  BY <1>1, SampleKeeps
<1>2. CASE Act
  BY <1>2, ActTypes DEF GuardInv, Act, memory
<1>3. CASE UpdateRuntime
  <2>1. maxThreads' \in 1..Cores
    BY <1>3, ControllerAssumption DEF UpdateRuntime, ControllerAssumption, ControllerTypeOK
  <2>2. QED
    BY <1>3, <2>1 DEF UpdateRuntime, ControllerTypeOK, GuardInv, memory, engine, placing
<1>4. CASE UNCHANGED vars
  BY <1>4 DEF vars, settings, memory, engine, placing, ControllerTypeOK, GuardInv
<1>5. QED
  BY <1>1, <1>2, <1>3, <1>4 DEF Next

\* Types, and a guard that counts what was: for any machine, whatever fails and
\* whatever the settings window changes.
THEOREM GuardInvariant == Spec => [](ControllerTypeOK /\ GuardInv)
<1>1. Init => ControllerTypeOK /\ GuardInv
  BY InitKnows
<1>2. (ControllerTypeOK /\ GuardInv) /\ [Next]_vars => (ControllerTypeOK /\ GuardInv)'
  BY GuardKept
<1>3. QED
  BY <1>1, <1>2, PTL DEF Spec

\* The guard lets the miner back only after a Quiet with no reading against it,
\* and the memory the miner takes itself never makes the guard stop it again
\* (memory.go's step and available): for any memory, margin, footprint and
\* delays, whatever fails.
THEOREM MemoryStopsAreHeld == Spec => MemoryStopsHold
<1>1. ControllerTypeOK /\ GuardInv /\ [Next]_vars
        => [guard.stopped /\ ~guard'.stopped => peace' > Quiet]_vars
  <2> SUFFICES ASSUME ControllerTypeOK, GuardInv, [Next]_vars, guard.stopped, ~guard'.stopped
               PROVE  peace' > Quiet
    OBVIOUS
  <2>1. guard' # guard
    OBVIOUS
  <2>2. Sample
    BY <2>1 DEF Next, Act, UpdateRuntime, vars, memory
  <2>3. QED
    BY <2>2, SampleKeeps
<1>2. ControllerTypeOK /\ GuardInv /\ [Next]_vars
        => [~guard.stopped /\ guard'.stopped /\ guard'.stallTicks < StallTicks
              => others' > atRestart]_vars
  <2> SUFFICES ASSUME ControllerTypeOK, GuardInv, [Next]_vars, ~guard.stopped, guard'.stopped,
                      guard'.stallTicks < StallTicks
               PROVE  others' > atRestart
    OBVIOUS
  <2>1. guard' # guard
    OBVIOUS
  <2>2. Sample
    BY <2>1 DEF Next, Act, UpdateRuntime, vars, memory
  <2>3. QED
    BY <2>2, SampleKeeps
<1>3. QED
  BY <1>1, <1>2, GuardInvariant, PTL DEF Spec, MemoryStopsHold, RestartAfterQuiet, NoFlap

-----------------------------------------------------------------------------
(* Layouts, where no write fails.                                          *)

\* A stop and a launch leave no other number of threads than none or a launch's.
LEMMA SampledThreads ==
  ASSUME Sample
  PROVE  running' \in {running, 0, LaunchThreads(engineLayout)}
  BY DEF Sample, Turn

LEMMA LayoutKept ==
  ASSUME ~Faults, ControllerTypeOK, LayoutInv, [Next]_vars
  PROVE  LayoutInv'
<1> SUFFICES ASSUME profile' = "layouts"
             PROVE  /\ engineLayout' = layoutNow'
                    /\ gated' => layoutNow' = "present"
                    /\ running' \in {0, Size(layoutNow')}
  BY DEF LayoutInv, Size
<1>1. profile = "layouts"
  BY DEF Next, Sample, Act, UpdateRuntime, settings, vars
<1>2. /\ engineLayout = layoutNow
      /\ gated => layoutNow = "present"
      /\ running \in {0, Size(layoutNow)}
  BY <1>1 DEF LayoutInv
<1>3. CASE Sample
  BY <1>1, <1>2, <1>3, SampledThreads DEF Sample, placing, LaunchThreads
<1>4. CASE Act
  <2>1. placeLayout(gated')
    BY <1>1, <1>4 DEF Act, Place
  <2>2. Outcomes = {TRUE}
    BY DEF Outcomes
  <2>3. PICK want \in Layouts :
          /\ want = IF gated' THEN "present" ELSE "idle"
          /\ \/ want = layoutNow /\ UNCHANGED <<layoutNow, engineLayout, running>>
             \/ /\ engineLayout' = want /\ layoutNow' = want
                /\ running' = IF running # 0 THEN Size(want) ELSE running
    BY <2>1, <2>2 DEF placeLayout, SetLayout, Layouts
  <2>4. QED
    BY <1>2, <2>3
<1>5. CASE UpdateRuntime \/ UNCHANGED vars
  BY <1>2, <1>5 DEF UpdateRuntime, vars, engine, placing
<1>6. QED
  BY <1>3, <1>4, <1>5 DEF Next

LEMMA InitLayout == Init => LayoutInv
  BY DEF Init, LayoutInv, LaunchThreads

LEMMA LayoutInvariant ==
  ASSUME ~Faults
  PROVE  Spec => [](ControllerTypeOK /\ GuardInv /\ LayoutInv)
<1>1. Init => LayoutInv
  BY InitLayout
<1>2. ControllerTypeOK /\ LayoutInv /\ [Next]_vars => LayoutInv'
  BY LayoutKept
<1>3. QED
  BY <1>1, <1>2, GuardInvariant, PTL DEF Spec

\* While the user is there the miner is on the small layout, from the tick
\* after the user returned: through stops for memory, launches and changes of
\* the settings, where no write fails (a failed one leaves engine and scheduler
\* of two minds about the layout).
THEOREM UserKeepsTheCores ==
  ASSUME ~Faults
  PROVE  Spec => []SmallWhilePresent
<1>1. LayoutInv => SmallWhilePresent
  BY DEF LayoutInv, SmallWhilePresent, Size
<1>2. QED
  BY <1>1, LayoutInvariant, PTL

-----------------------------------------------------------------------------
(* The share.                                                              *)

LEMMA ShareKept ==
  ASSUME ~Faults, ~Resizes, ControllerTypeOK, LayoutInv, ShareInv, [Next]_vars
  PROVE  ShareInv'
<1>1. LayoutInv' /\ ControllerTypeOK
  BY LayoutKept
<1>2. CASE Sample
  <2>1. /\ UNCHANGED <<profile, maxThreads, threads, layoutNow, activeCores, full, allowed>>
        /\ phase = "sample" /\ phase' = "act"
    BY <1>2 DEF Sample, settings, placing
  <2>2. LaunchThreads(engineLayout) = Threads
    BY DEF LaunchThreads, Threads, LayoutInv
  <2>3. Threads' = Threads
    BY <2>1 DEF Threads, Size
  <2>4. running' \in {0, Threads}
    BY <1>2, <2>2, SampledThreads DEF ShareInv
  <2>5. allowed = 0 \/ running' = 0 \/ (running' = running /\ confined' = confined)
    BY <1>2, <2>1 DEF Sample, Turn, ShareInv
  <2>6. QED
    BY <2>1, <2>3, <2>4, <2>5 DEF ShareInv
<1>3. CASE Act
  <2>1. /\ UNCHANGED <<profile, maxThreads, threads, guard>>
        /\ full' = minerFullShare
        /\ guard.stopped => allowed' = 0
    BY <1>3 DEF Act, settings, memory
  <2>2. maxThreads = threads
    BY DEF ShareInv
  <2>3. full' = IF activeCores' > 0 THEN Min2(activeCores', Threads') ELSE Threads'
    BY <2>1, <2>2 DEF minerFullShare, Threads
  <2>4. PICK pressured \in BOOLEAN : Place(pressured)
    BY <1>3 DEF Act
  <2>5. CASE profile = "layouts"
    <3>1. activeCores' = 0
      BY <2>4, <2>5 DEF Place, ShareInv
    <3>2. running' \in {0, Threads'}
      BY <1>1, <2>1, <2>5 DEF LayoutInv, Threads
    <3>3. QED
      BY <2>1, <2>2, <2>3, <3>1, <3>2 DEF ShareInv
  <2>6. CASE /\ profile = "nodo" /\ Little < Cores /\ placeOnCores(pressured)
             /\ UNCHANGED <<layoutNow, engineLayout, running>>
    <3>1. running' = running /\ Threads' = Threads
      BY <2>1, <2>6 DEF Threads
    <3>2. running' # 0 => confined' = activeCores'
      BY <2>6, <3>1 DEF placeOnCores, Outcomes
    <3>3. QED
      BY <2>1, <2>2, <2>3, <2>6, <3>1, <3>2, Numbers DEF ShareInv
  <2>7. CASE /\ profile = "threads" \/ (profile = "nodo" /\ Little = Cores)
             /\ UNCHANGED <<confined, activeCores, layoutNow, engineLayout, running>>
    <3>1. running' = running /\ Threads' = Threads
      BY <2>1, <2>7 DEF Threads
    <3>2. activeCores' > 0 /\ running' # 0 => confined' = activeCores' \/ allowed' = 0
      BY <2>7, <3>1 DEF ShareInv
    <3>3. QED
      BY <2>1, <2>2, <2>3, <2>7, <3>1, <3>2 DEF ShareInv
  <2>8. QED
    BY <2>4, <2>5, <2>6, <2>7 DEF Place
<1>4. CASE UpdateRuntime
  <2>1. /\ maxThreads' = maxThreads
        /\ UNCHANGED <<profile, phase, guard, threads, running, layoutNow, activeCores, confined,
                       full, allowed>>
    BY <1>4 DEF UpdateRuntime, memory, engine, placing
  <2>2. QED
    BY <2>1 DEF ShareInv, Threads, Size
<1>5. CASE UNCHANGED vars
  BY <1>5 DEF vars, settings, memory, engine, placing, ShareInv, Threads, Size
<1>6. QED
  BY <1>2, <1>3, <1>4, <1>5 DEF Next

LEMMA ShareFits ==
  ASSUME ControllerTypeOK, ShareInv
  PROVE  NeverMoreThanAllowed
<1>1. /\ running \in 0..Cores /\ confined \in 0..Cores /\ activeCores \in 0..Cores
      /\ allowed \in 0..Cores /\ full \in 1..Cores
  BY DEF ControllerTypeOK
<1>2. Threads \in 1..Cores
  BY Numbers DEF Threads, ControllerTypeOK
<1>3. CASE Occupied <= full
  <2>1. Occupied \in Nat
    BY <1>1, Numbers DEF Occupied, Min2
  <2>2. allowed * Occupied <= allowed * full
    BY <1>1, <1>3, <2>1, Numbers, SMT
  <2>3. allowed >= full => Occupied <= allowed
    BY <1>1, <1>3, <2>1, Numbers
  <2>4. QED
    BY <2>2, <2>3 DEF NeverMoreThanAllowed
<1>4. CASE allowed = 0
  <2>1. ~(allowed >= full) /\ allowed * Occupied = 0 /\ allowed * full = 0
    BY <1>1, <1>4, Numbers DEF Occupied, Min2
  <2>2. QED
    BY <2>1 DEF NeverMoreThanAllowed
<1>5. Occupied <= full \/ allowed = 0
  BY <1>1, <1>2, Numbers DEF ShareInv, Occupied, Min2
<1>6. QED
  BY <1>3, <1>4, <1>5

\* What the controller run checks of every state, for any machine: types, a
\* duty worked out for the threads and cores the miner really has, and the
\* small layout while the user is there.  No write or affinity call fails, and
\* the settings' thread count stays the launched one.
THEOREM ControllerStaysSafe ==
  ASSUME ~Faults, ~Resizes
  PROVE  Spec => []ControllerSafe
<1>1. Init => ShareInv
  <2>1. ASSUME Init
        PROVE  /\ running = Threads /\ activeCores = 0 /\ full = Threads /\ allowed = 0
               /\ maxThreads = threads /\ ~(activeCores > 0)
    BY <2>1 DEF Init, LaunchThreads, Threads
  <2>2. QED
    BY <2>1 DEF ShareInv
<1>2. ControllerTypeOK /\ LayoutInv /\ ShareInv /\ [Next]_vars => ShareInv'
  BY ShareKept
<1>3. ControllerTypeOK /\ ShareInv => NeverMoreThanAllowed
  BY ShareFits
<1>4. ControllerTypeOK /\ LayoutInv /\ ShareInv => ControllerSafe
  BY <1>3 DEF ControllerSafe, LayoutInv, SmallWhilePresent, Size
<1>5. QED
  BY <1>1, <1>2, <1>4, LayoutInvariant, PTL DEF Spec
=============================================================================

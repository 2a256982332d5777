--------------------------- MODULE Scheduler_proofs --------------------------
(***************************************************************************)
(* For any number of users, any shares and any number of launches: the     *)
(* types, and the safety properties of module Scheduler.                   *)
(***************************************************************************)
EXTENDS Scheduler, TLAPS

\* The assumptions on the constants, as facts about each of them.
LEMMA Constants ==
  /\ MaxLaunches \in Nat \ {0} /\ LaunchFails \in BOOLEAN /\ Crashes \in BOOLEAN
  /\ FullShare \in Nat \ {0} /\ Ceiling \in Nat /\ GhostCeiling \in 1..Ceiling
  /\ "calm" \in Forecast /\ Forecast \subseteq Weathers
  BY EngineAssumption, ShareAssumption, ForecastAssumption
  DEF EngineAssumption, ShareAssumption, ForecastAssumption

USE Constants

\* A tick leaves the allowance between nothing and the preset's ceiling, and
\* at nothing when decide returned a hard stop (decide and approach).
LEMMA AllowedBounded ==
  ASSUME NEW s \in [override : Overrides, hold : BOOLEAN], NEW w \in Weathers,
         allowed \in Shares, NEW a \in NextAllowed(s, w)
  PROVE  a \in Shares /\ (HardStop(s, w) => a = 0)
<1>1. Target(s, w) \in Shares
  BY DEF Target, Shares, Weathers
<1>2. \A t \in Shares : approach(allowed, t) \subseteq Shares
  BY DEF approach, Shares
<1> QED
  BY <1>1, <1>2 DEF NextAllowed, Shares

\* The engine calls keep the engine's types.
LEMMA EngineTypes ==
  ASSUME EngineTypeOK
  PROVE  /\ Start => EngineTypeOK'
         /\ Stop => EngineTypeOK'
         /\ Close => EngineTypeOK'
         /\ \A d \in Duties : SetDuty(d) => EngineTypeOK'
         /\ EngineStep => EngineTypeOK'
         /\ UNCHANGED engineVars => EngineTypeOK'
<1> USE DEF EngineTypeOK, Duties, Off, Part, Full, Live
<1>1. Launch => EngineTypeOK'
  BY DEF Launch
<1>2. UNCHANGED engineVars => EngineTypeOK'
  BY DEF engineVars
<1>3. Start => EngineTypeOK'
  BY <1>1, <1>2 DEF Start
<1>4. Stop => EngineTypeOK'
  BY DEF Stop
<1>5. Close => EngineTypeOK'
  BY DEF Close
<1>6. \A d \in Duties : SetDuty(d) => EngineTypeOK'
  BY DEF SetDuty
<1>7. EngineStep => EngineTypeOK'
  BY DEF EngineStep, Hear, Obey, Crash
<1> QED
  BY <1>2, <1>3, <1>4, <1>5, <1>6, <1>7

LEMMA DutyForType == \A a \in Nat : dutyFor(a) \in Duties
  BY DEF dutyFor, Duties, Off, Part, Full

-----------------------------------------------------------------------------
(* Types.                                                                  *)

\* What every step does to the types: each variable stays in its range.
LEMMA TypeStep == SchedTypeOK /\ [Next]_vars => SchedTypeOK'
<1> SUFFICES ASSUME SchedTypeOK, [Next]_vars PROVE SchedTypeOK'
  OBVIOUS
<1> USE EngineTypes, DutyForType DEF SchedTypeOK
<1>1. CASE TickBegin
  BY <1>1 DEF TickBegin, TickGoes
<1>2. CASE TickLift
  BY <1>2 DEF TickLift, TickGoes, Overrides, Deadlines
<1>3. CASE TickSnapshot
  BY <1>3 DEF TickSnapshot, TickGoes
<1>4. CASE TickWork
  <2>1. EngineTypeOK' /\ memStopped' \in BOOLEAN
    BY <1>4 DEF TickWork, stopOrRestartForMemory
  <2>2. allowed' \in Shares
    BY <1>4, AllowedBounded DEF TickWork
  <2> QED
    BY <1>4, <2>1, <2>2 DEF TickWork, TickGoes
<1>5. CASE TickLabel
  BY <1>5 DEF TickLabel, TickGoes, Shares
<1>6. CASE TickSend
  <2>1. SetDuty(dutyFor(allowed)) /\ dutyFor(allowed) \in Duties
    BY <1>6 DEF TickSend, Shares
  <2> QED
    BY <1>6, <2>1 DEF TickSend, TickGoes
<1>7. CASE TickExit
  BY <1>7 DEF TickExit, TickGoes
<1>8. CASE \E u \in Users : UserStep(u)
  <2>1. PICK u \in Users : UserStep(u)
    BY <1>8
  <2>2. CASE \E o \in Overrides, until \in {"zero", "later"} : SetOverride(u, o, until)
    BY <2>2 DEF SetOverride, UserGoes, Deadlines
  <2>3. CASE UserLabel(u)
    BY <2>3 DEF UserLabel, UserGoes
  <2>4. CASE UserSend(u)
    <3>1. SetDuty(dutyFor(0)) /\ dutyFor(0) \in Duties
      BY <2>4 DEF UserSend
    <3> QED
      BY <2>4, <3>1 DEF UserSend, UserGoes
  <2> QED
    BY <2>1, <2>2, <2>3, <2>4 DEF UserStep
<1>9. CASE Boot
  BY <1>9 DEF Boot, SupGoes, Overrides, Deadlines
<1>10. CASE \E h \in BOOLEAN : SetHold(h)
  BY <1>10 DEF SetHold
<1>11. CASE ShutSignal \/ ShutStop \/ ShutClose
  BY <1>11 DEF ShutSignal, ShutStop, ShutClose, SupGoes
<1>12. CASE WeatherTurns
  BY <1>12 DEF WeatherTurns
<1>13. CASE TimePasses
  BY <1>13 DEF TimePasses, Deadlines
<1>14. CASE EngineStep /\ UNCHANGED schedVars
  BY <1>14 DEF schedVars
<1>15. CASE UNCHANGED vars
  BY <1>15 DEF vars, schedVars
<1> QED
  BY <1>1, <1>2, <1>3, <1>4, <1>5, <1>6, <1>7, <1>8, <1>9, <1>10, <1>11, <1>12,
     <1>13, <1>14, <1>15 DEF Next, TickStep, Shutdown

LEMMA InitTypes == Init => SchedTypeOK
<1>1. ASSUME Init PROVE SchedTypeOK
  <2>1. closed \in BOOLEAN /\ hold \in BOOLEAN /\ memStopped \in BOOLEAN
    BY <1>1, Zenon DEF Init, EngineInit
  <2>2. /\ launches \in 0..MaxLaunches
        /\ miner \in Live \cup {"none", "exited"}
        /\ duty \in Duties
        /\ heard \in Duties
    BY <1>1 DEF Init, EngineInit, Duties, Off, Part, Full, Live
  <2>3. user \in [Users -> {"idle", "label", "send"}]
    BY <1>1 DEF Init
  <2>4. seen \in [override : Overrides, hold : BOOLEAN]
    BY <1>1 DEF Init, Overrides
  <2>5. /\ override \in Overrides
        /\ pauseUntil \in Deadlines
        /\ allowed \in Shares
        /\ sduty \in Duties
        /\ weather \in Forecast
        /\ tick = "off"
        /\ sup = "boot"
    BY <1>1 DEF Init, Overrides, Deadlines, Shares, Duties, Off
  <2> QED
    BY <2>1, <2>2, <2>3, <2>4, <2>5 DEF SchedTypeOK, EngineTypeOK
<1> QED
  BY <1>1

\* Type correctness of the scheduler and of the engine contract it drives.
THEOREM TypeCorrect == Spec => []SchedTypeOK
  BY InitTypes, TypeStep, PTL DEF Spec

-----------------------------------------------------------------------------
(* Safety.  The inductive invariant says why the properties hold: who has  *)
(* zeroed what by the time the goroutine is where it is.                   *)

\* Close is the only thing that has happened to a closed engine, and it has
\* happened once Shutdown is done.
ShutInv == /\ closed => miner = "none"
           /\ sup = "down" => closed

\* Before the scheduler exists nobody has asked the engine for anything.
BootInv == /\ sup = "boot" => tick = "off"
           /\ tick = "off" => /\ ~memStopped
                              /\ duty = Off
                              /\ seen.override = "none"

\* The tick that stops the miner for memory also takes its allowance, so the
\* duty is zero from the end of that tick to the one that starts it again.
MemoryInv == memStopped => /\ miner = "none"
                           /\ allowed = 0
                           /\ tick \notin {"label", "send"} => duty = Off

\* A tick that saw the pause takes the allowance, then the displayed duty,
\* then the engine's, and nobody but a later tick gives any of them back.
PauseInv == seen.override = "pause" =>
              /\ tick \notin {"work"} => allowed = 0
              /\ tick \in {"idle", "lift", "snapshot", "stopped", "send"} => sduty = Off
              /\ tick \in {"idle", "lift", "snapshot", "stopped"} => duty = Off

SafetyInv == SchedTypeOK /\ ShutInv /\ BootInv /\ MemoryInv /\ PauseInv

LEMMA SafetyInit == Init => SafetyInv
<1> SUFFICES ASSUME Init PROVE SafetyInv
  OBVIOUS
<1>1. SchedTypeOK
  BY InitTypes
<1>2. ShutInv /\ BootInv /\ MemoryInv /\ PauseInv
  BY DEF Init, EngineInit, ShutInv, BootInv, MemoryInv, PauseInv
<1> QED
  BY <1>1, <1>2 DEF SafetyInv

\* Every step keeps the inductive invariant.
LEMMA SafetyStep == SafetyInv /\ [Next]_vars => SafetyInv'
<1> SUFFICES ASSUME SafetyInv, [Next]_vars
             PROVE  (ShutInv /\ BootInv /\ MemoryInv /\ PauseInv)'
  BY TypeStep DEF SafetyInv
<1> USE DEF SafetyInv, ShutInv, BootInv, MemoryInv, PauseInv, TickGoes, SupGoes
<1>0. SchedTypeOK /\ dutyFor(0) = Off
  BY DEF dutyFor
<1>1. CASE TickBegin
  BY <1>1 DEF TickBegin, engineVars
<1>2. CASE TickLift
  BY <1>2 DEF TickLift, engineVars
<1>3. CASE TickSnapshot
  BY <1>3 DEF TickSnapshot, engineVars
<1>4. CASE TickWork
  <2> USE <1>4 DEF TickWork
  <2>1. tick = "work" /\ tick' = "label" /\ duty' = duty /\ seen' = seen /\ sup' = sup
    BY DEF stopOrRestartForMemory, Stop, Start, Launch, engineVars
  <2>2. HardStop(seen, weather) => allowed' = 0
    BY <1>0, AllowedBounded DEF SchedTypeOK
  <2>3. (closed => miner = "none")' /\ closed' = closed
    BY DEF stopOrRestartForMemory, Stop, Start, Launch, engineVars
  <2>4. memStopped' => weather = "short" /\ miner' = "none"
    BY <1>0 DEF stopOrRestartForMemory, Stop, engineVars, SchedTypeOK
  <2> QED
    BY <2>1, <2>2, <2>3, <2>4 DEF HardStop
<1>5. CASE TickLabel
  BY <1>0, <1>5 DEF TickLabel, engineVars
<1>6. CASE TickSend
  BY <1>0, <1>6 DEF TickSend, SetDuty
<1>7. CASE TickExit
  BY <1>7 DEF TickExit, Stop
<1>8. CASE \E u \in Users : UserStep(u)
  <2>1. PICK u \in Users : UserStep(u)
    BY <1>8
  <2>2. CASE \E o \in Overrides, until \in {"zero", "later"} : SetOverride(u, o, until)
    BY <2>2 DEF SetOverride, engineVars
  <2>3. CASE UserLabel(u)
    BY <1>0, <2>3 DEF UserLabel, engineVars
  <2>4. CASE UserSend(u)
    BY <1>0, <2>4 DEF UserSend, SetDuty
  <2> QED
    BY <2>1, <2>2, <2>3, <2>4 DEF UserStep
<1>9. CASE Boot
  <2>1. closed' = closed /\ duty' = duty /\ (closed => miner = "none")'
    BY <1>9 DEF Boot, Start, Launch, engineVars
  <2>2. sup' # "boot" /\ sup' # "down" /\ tick' \in {"off", "idle"} /\ tick = "off"
    BY <1>9 DEF Boot
  <2>3. memStopped' = memStopped /\ seen' = seen
    BY <1>9 DEF Boot
  <2> QED
    BY <2>1, <2>2, <2>3
<1>10. CASE \E h \in BOOLEAN : SetHold(h)
  BY <1>10 DEF SetHold, engineVars
<1>11. CASE ShutSignal \/ ShutStop \/ ShutClose
  BY <1>11 DEF ShutSignal, ShutStop, ShutClose, Stop, Close, engineVars
<1>12. CASE WeatherTurns
  BY <1>12 DEF WeatherTurns, engineVars
<1>13. CASE TimePasses
  BY <1>13 DEF TimePasses, engineVars
<1>14. CASE EngineStep /\ UNCHANGED schedVars
  BY <1>14 DEF EngineStep, Hear, Obey, Crash, schedVars, Live
<1>15. CASE UNCHANGED vars
  BY <1>15 DEF vars, schedVars, engineVars
<1> QED
  BY <1>1, <1>2, <1>3, <1>4, <1>5, <1>6, <1>7, <1>8, <1>9, <1>10, <1>11, <1>12,
     <1>13, <1>14, <1>15 DEF Next, TickStep, Shutdown

THEOREM SafetyCorrect == Spec => []SafetyInv
  BY SafetyInit, SafetyStep, PTL DEF Spec

\* After Shutdown no miner lives: the memory restart that was under way finds
\* the engine closed.
THEOREM ShutdownIsFinal == Spec => []DownForGood
<1>1. SafetyInv => DownForGood
  BY DEF SafetyInv, ShutInv, DownForGood, NoMiner, Live
<1> QED
  BY <1>1, SafetyCorrect, PTL

\* No process holds memory while the miner is stopped for memory.
THEOREM MemoryIsGivenBack == Spec => []MemoryGivenBack
<1>1. SafetyInv => MemoryGivenBack
  BY DEF SafetyInv, MemoryInv, MemoryGivenBack, NoMiner, Live
<1> QED
  BY <1>1, SafetyCorrect, PTL

\* A pause that a tick has seen is in force in the engine and on the display
\* when that tick is over.
THEOREM PauseIsApplied == Spec => []PauseAppliedInOneTick
<1>1. SafetyInv => PauseAppliedInOneTick
  BY DEF SafetyInv, PauseInv, PauseAppliedInOneTick
<1> QED
  BY <1>1, SafetyCorrect, PTL

\* What the scheduler's run checks of every state.
THEOREM SchedulerStaysSafe == Spec => []SchedulerSafe
  BY TypeCorrect, ShutdownIsFinal, MemoryIsGivenBack, PauseIsApplied, PTL
     DEF SchedulerSafe

\* Every launch, the first and the one after a memory stop, is at duty zero.
THEOREM LaunchesAtZero == Spec => StartsSuspended
<1>1. SafetyInv /\ [Next]_vars => [launches' # launches => duty = Off]_vars
  <2> SUFFICES ASSUME SafetyInv, Next, launches' # launches PROVE duty = Off
    OBVIOUS
  <2>1. CASE TickWork
    BY <2>1 DEF TickWork, TickGoes, stopOrRestartForMemory, Stop, SafetyInv,
                MemoryInv, engineVars
  <2>2. CASE Boot
    BY <2>2 DEF Boot, SupGoes, SafetyInv, BootInv
  <2>3. ~(TickWork \/ Boot) => launches' = launches
    BY DEF Next, TickStep, TickBegin, TickLift, TickSnapshot, TickLabel, TickSend,
           TickExit, UserStep, SetOverride, UserLabel, UserSend, SetHold, Shutdown,
           ShutSignal, ShutStop, ShutClose, WeatherTurns, TimePasses, EngineStep,
           Hear, Obey, Crash, Stop, Close, SetDuty, engineVars
  <2> QED
    BY <2>1, <2>2, <2>3
<1> QED
  BY <1>1, SafetyCorrect, PTL DEF Spec, StartsSuspended
=============================================================================

------------------------------ MODULE Scheduler ------------------------------
(***************************************************************************)
(* The scheduler (internal/scheduler) driving the miner engine, with the   *)
(* goroutines that really share them: the tick loop, the users' clicks     *)
(* (window, tray), the supervisor's holds, its start-up and its shutdown.  *)
(* An action is what one goroutine does under one lock; a goroutine can be *)
(* overtaken wherever the code lets go of s.mu or x.mu.  The engine is     *)
(* taken by its contract, module Miner, which module XMRig implements.     *)
(*                                                                         *)
(* Readings of the machine (battery, temperature, other CPU, memory guard) *)
(* are one environment variable, the weather; the CPU allowance is counted *)
(* in units of the machine, of which the miner's threads can fill          *)
(* FullShare.  Events, history and wording are left out.                   *)
(***************************************************************************)
EXTENDS Miner

CONSTANTS Users,          \* goroutines that call SetOverride or PauseUntil
          FullShare,      \* minerFullShare: what the miner takes flat out
          Ceiling,        \* the preset's ceiling
          GhostCeiling,   \* the ceiling while the idle gate holds
          Forecast        \* the weathers of this instance

Weathers == {"calm",      \* nothing else wants the machine
             "present",   \* the user is there: the idle gate holds
             "busy",      \* other work takes all of it: a soft zero
             "halt",      \* battery, lock, game, node sync or heat: a hard zero
             "short"}     \* the memory guard says stop

ASSUME ShareAssumption == /\ FullShare \in Nat \ {0}
                          /\ Ceiling \in Nat
                          /\ GhostCeiling \in 1..Ceiling

ASSUME ForecastAssumption == "calm" \in Forecast /\ Forecast \subseteq Weathers

Shares == 0..Ceiling
Overrides == {"none", "pause", "mine"}
Deadlines == {"zero", "later", "past"}

VARIABLES
  override, pauseUntil,   \* s.override, s.pauseUntil
  hold,                   \* s.hold is not empty
  allowed, sduty,         \* s.allowed, s.duty
  memStopped,             \* s.memStopped
  weather,                \* what observe would find now
  tick,                   \* where the tick goroutine stands
  seen,                   \* its copies of s.override and s.hold
  user,                   \* user -> where its setOverride stands
  sup                     \* where the supervisor stands

schedVars == <<override, pauseUntil, hold, allowed, sduty, memStopped, weather,
               tick, seen, user, sup>>
vars == <<engineVars, schedVars>>

SchedTypeOK ==
  /\ EngineTypeOK
  /\ override \in Overrides
  /\ pauseUntil \in Deadlines
  /\ hold \in BOOLEAN
  /\ allowed \in Shares
  /\ sduty \in Duties
  /\ memStopped \in BOOLEAN
  /\ weather \in Forecast
  /\ tick \in {"off", "idle", "lift", "snapshot", "work", "label", "send", "stopped"}
  /\ seen \in [override : Overrides, hold : BOOLEAN]
  /\ user \in [Users -> {"idle", "label", "send"}]
  /\ sup \in {"boot", "up", "stopping", "closing", "down"}

Init == /\ EngineInit
        /\ override = "none"
        /\ pauseUntil = "zero"
        /\ hold = FALSE
        /\ allowed = 0
        /\ sduty = Off
        /\ memStopped = FALSE
        /\ weather \in Forecast \ {"short"}
        /\ tick = "off"
        /\ seen = [override |-> "none", hold |-> FALSE]
        /\ user = [u \in Users |-> "idle"]
        /\ sup = "boot"

-----------------------------------------------------------------------------
(* The pure half of a tick.                                                *)

\* decide(): is this a hard stop, and if not, what share to head for.
HardStop(s, w) == s.override = "pause" \/ w \in {"short", "halt"} \/ s.hold

Target(s, w) == CASE w = "busy" -> 0
                  [] w = "present" /\ s.override # "mine" -> GhostCeiling
                  [] OTHER -> Ceiling

approachMayStick(a, t) == IF t > a THEN a..t
                          ELSE IF t = 0 /\ a > 0 THEN 1..a
                          ELSE t..a

\* approach(): some way towards the target.  A rate below one never gets to
\* zero, and a rise is always felt.
approach(a, t) == IF t > a THEN a + 1 .. t
                  ELSE IF t = 0 /\ a > 0 THEN 1..a
                  ELSE t..a

AllowedWithoutPause(s, w) ==
  IF w \in {"short", "halt"} \/ s.hold THEN {0} ELSE approach(allowed, Target(s, w))

\* What a tick may set the allowance to.
NextAllowed(s, w) ==
  IF HardStop(s, w) THEN {0} ELSE approach(allowed, Target(s, w))

dutyFor(a) == IF a = 0 THEN Off ELSE IF a >= FullShare THEN Full ELSE Part

-----------------------------------------------------------------------------
(* The tick goroutine.                                                     *)

TickGoes(from, to) == tick = from /\ tick' = to

TickNeverLifts ==
  /\ TickGoes("idle", "snapshot")
  /\ UNCHANGED <<engineVars, override, pauseUntil, hold, allowed, sduty,
                 memStopped, weather, seen, user, sup>>

\* endExpiredSnooze, the check: what it saw is acted on after the unlock.
TickBegin ==
  /\ TickGoes("idle", IF override = "pause" /\ pauseUntil = "past"
                      THEN "lift" ELSE "snapshot")
  /\ UNCHANGED <<engineVars, override, pauseUntil, hold, allowed, sduty,
                 memStopped, weather, seen, user, sup>>

\* endExpiredSnooze, the setOverride it calls.
TickLift ==
  /\ TickGoes("lift", "snapshot")
  /\ override' = "none"
  /\ pauseUntil' = "zero"
  /\ UNCHANGED <<engineVars, hold, allowed, sduty, memStopped, weather, seen,
                 user, sup>>

TickSnapshot ==
  /\ TickGoes("snapshot", "work")
  /\ seen' = [override |-> override, hold |-> hold]
  /\ UNCHANGED <<engineVars, override, pauseUntil, hold, allowed, sduty,
                 memStopped, weather, user, sup>>

\* The restart is tried once: memStopped is FALSE whether Start works or not.
stopOrRestartForMemory(short) ==
  IF short /\ ~memStopped
  THEN memStopped' = TRUE /\ Stop
  ELSE IF memStopped /\ ~short
  THEN memStopped' = FALSE /\ Start
  ELSE UNCHANGED <<engineVars, memStopped>>

\* observe, stopOrRestartForMemory, decide, and the new allowance.
TickWork ==
  /\ TickGoes("work", "label")
  /\ stopOrRestartForMemory(weather = "short")
  /\ allowed' \in NextAllowed(seen, weather)
  /\ UNCHANGED <<override, pauseUntil, hold, sduty, weather, seen, user, sup>>

\* apply, what it does under s.mu.
TickLabel ==
  /\ TickGoes("label", "send")
  /\ sduty' = dutyFor(allowed)
  /\ UNCHANGED <<engineVars, override, pauseUntil, hold, allowed, memStopped,
                 weather, seen, user, sup>>

TickSendsOnlyWork ==
  /\ TickGoes("send", "idle")
  /\ IF allowed = 0 THEN UNCHANGED engineVars ELSE SetDuty(dutyFor(allowed))
  /\ UNCHANGED <<override, pauseUntil, hold, allowed, sduty, memStopped,
                 weather, seen, user, sup>>

\* apply, the call to the engine, with the duty computed before.
TickSend ==
  /\ TickGoes("send", "idle")
  /\ SetDuty(dutyFor(allowed))
  /\ UNCHANGED <<override, pauseUntil, hold, allowed, sduty, memStopped,
                 weather, seen, user, sup>>

\* The loop's select took stopCh.  With the ticker ready as well it may take
\* either, so TickBegin stays possible after stopCh is closed.
TickExit ==
  /\ sup \in {"stopping", "closing", "down"}
  /\ TickGoes("idle", "stopped")
  /\ Stop
  /\ UNCHANGED <<override, pauseUntil, hold, allowed, sduty, memStopped,
                 weather, seen, user, sup>>

TickStep == TickBegin \/ TickLift \/ TickSnapshot \/ TickWork \/ TickLabel
            \/ TickSend \/ TickExit

-----------------------------------------------------------------------------
(* A user's setOverride: the override under the lock, then, for a pause,   *)
(* apply(0).                                                               *)

UserGoes(u, from, to) == user[u] = from /\ user' = [user EXCEPT ![u] = to]

SetOverride(u, o, until) ==
  /\ tick # "off"
  /\ UserGoes(u, "idle", IF o = "pause" THEN "label" ELSE "idle")
  /\ override' = o
  /\ pauseUntil' = IF o = "pause" THEN until ELSE "zero"
  /\ UNCHANGED <<engineVars, hold, allowed, sduty, memStopped, weather, tick,
                 seen, sup>>

UserLabel(u) ==
  /\ UserGoes(u, "label", "send")
  /\ sduty' = dutyFor(0)
  /\ UNCHANGED <<engineVars, override, pauseUntil, hold, allowed, memStopped,
                 weather, tick, seen, sup>>

UserSend(u) ==
  /\ UserGoes(u, "send", "idle")
  /\ SetDuty(dutyFor(0))
  /\ UNCHANGED <<override, pauseUntil, hold, allowed, sduty, memStopped,
                 weather, tick, seen, sup>>

UserStep(u) == \/ \E o \in Overrides, until \in {"zero", "later"} :
                    SetOverride(u, o, until)
               \/ UserLabel(u)
               \/ UserSend(u)

-----------------------------------------------------------------------------
(* The supervisor.                                                         *)

SupGoes(from, to) == sup = from /\ sup' = to

\* startMiner, and startScheduler when the miner started.  A pause saved by
\* the last run is restored before the tick loop is running.
Boot ==
  /\ Start
  /\ IF miner' # "none"
     THEN /\ SupGoes("boot", "up")
          /\ tick' = "idle"
          /\ \/ UNCHANGED <<override, pauseUntil>>
             \/ override' = "pause" /\ pauseUntil' \in {"zero", "later"}
     ELSE SupGoes("boot", "closing") /\ UNCHANGED <<tick, override, pauseUntil>>
  /\ UNCHANGED <<hold, allowed, sduty, memStopped, weather, seen, user>>

SetHold(h) ==
  /\ tick # "off"
  /\ hold' = h
  /\ UNCHANGED <<engineVars, override, pauseUntil, allowed, sduty, memStopped,
                 weather, tick, seen, user, sup>>

\* Shutdown calls Scheduler.Stop, which closes stopCh ...
ShutSignal ==
  /\ SupGoes("up", "stopping")
  /\ UNCHANGED <<engineVars, override, pauseUntil, hold, allowed, sduty,
                 memStopped, weather, tick, seen, user>>

\* ... and stops the miner itself, ...
ShutStop ==
  /\ SupGoes("stopping", "closing")
  /\ Stop
  /\ UNCHANGED <<override, pauseUntil, hold, allowed, sduty, memStopped,
                 weather, tick, seen, user>>

\* ... and then closes the engine.
ShutClose ==
  /\ SupGoes("closing", "down")
  /\ Close
  /\ UNCHANGED <<override, pauseUntil, hold, allowed, sduty, memStopped,
                 weather, tick, seen, user>>

Shutdown == ShutSignal \/ ShutStop \/ ShutClose

-----------------------------------------------------------------------------
(* The environment.  The machine runs short of memory only while another   *)
(* launch is left within the bound MaxLaunches.                            *)

WeatherTurns ==
  /\ weather' \in {w \in Forecast : w = "short" => launches < MaxLaunches}
  /\ UNCHANGED <<engineVars, override, pauseUntil, hold, allowed, sduty,
                 memStopped, tick, seen, user, sup>>

TimePasses ==
  /\ pauseUntil = "later"
  /\ pauseUntil' = "past"
  /\ UNCHANGED <<engineVars, override, hold, allowed, sduty, memStopped,
                 weather, tick, seen, user, sup>>

Next == \/ TickStep
        \/ \E u \in Users : UserStep(u)
        \/ Boot
        \/ \E h \in BOOLEAN : SetHold(h)
        \/ Shutdown
        \/ WeatherTurns
        \/ TimePasses
        \/ EngineStep /\ UNCHANGED schedVars

\* The ticker keeps firing, a call once entered returns, a select that finds
\* two channels ready takes each sooner or later, and time passes.  Nobody is
\* obliged to click, to shut down or to turn the weather.
Fairness ==
  /\ WF_vars(TickStep)
  /\ SF_vars(TickExit)
  /\ \A u \in Users : WF_vars(UserLabel(u) \/ UserSend(u))
  /\ WF_vars(ShutStop \/ ShutClose)
  /\ WF_vars(TimePasses)
  /\ WF_vars(Hear /\ UNCHANGED schedVars)
  /\ WF_vars(Obey /\ UNCHANGED schedVars)

Spec == Init /\ [][Next]_vars /\ Fairness

-----------------------------------------------------------------------------
(* Properties.                                                             *)

NoMiner == miner \notin Live

\* Once Shutdown has returned no miner lives, and none comes back: not from
\* the tick that was under way and restarts the miner after a memory stop.
DownForGood == sup = "down" => NoMiner

\* While the scheduler counts the miner as stopped for memory there is no
\* process holding any: not suspended, and not started by anyone else.
MemoryGivenBack == memStopped => NoMiner

\* A miner is always launched at duty zero: the machine is never hit by a
\* full-speed miner between a launch and the tick that decides its share.
StartsSuspended == [][launches' # launches => duty = Off]_vars

\* A pause reaches the engine within one tick: between two ticks of which the
\* first saw the pause, neither the engine nor the display has any duty left,
\* however the clicks and that tick overlapped.
PauseAppliedInOneTick ==
  tick \in {"idle", "lift", "snapshot"} /\ seen.override = "pause"
    => duty = Off /\ sduty = Off

\* The scheduler and the miner it drives, between any two steps.
SchedulerSafe ==
  SchedTypeOK /\ DownForGood /\ MemoryGivenBack /\ PauseAppliedInOneTick

\* A snooze ends by itself: no pause stays in force past its deadline while
\* the scheduler is ticking.
SnoozeEnds == []<>(pauseUntil # "past" \/ sup \in {"stopping", "closing", "down"})

\* With no reason left against it, the miner runs and keeps running: it comes
\* back from a pause, a hold, a busy machine and a memory stop.  A miner that
\* ended by itself, or whose restart failed, is not started again.
MinesWhenAllowed ==
  (<>[](/\ override # "pause" /\ ~hold /\ weather = "calm" /\ sup = "up"
        /\ memStopped \/ ~NoMiner))
    => <>[](miner = "run")

\* What the dashboard shows is what the engine does: once the users have
\* stopped clicking, the two duties differ only inside an apply.
DisplayAgrees ==
  (<>[](sup = "up" /\ \A u \in Users : user[u] = "idle"))
    => <>[](tick # "send" => sduty = duty)

=============================================================================

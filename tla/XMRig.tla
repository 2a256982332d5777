-------------------------------- MODULE XMRig --------------------------------
(***************************************************************************)
(* The miner engine (internal/engine/xmrig.go): one managed xmrig process, *)
(* throttled by a duty loop that sends it SIGSTOP and SIGCONT.             *)
(*                                                                         *)
(* Start, Stop, Close and SetDuty each run under x.mu from beginning to    *)
(* end and are one step each.  Every launch starts a goroutine, the duty   *)
(* loop of that launch, that takes x.mu only to read the duty and to       *)
(* signal; it is the actor whose steps interleave with the calls.  A       *)
(* process is named by the number of its launch, so that "the process this *)
(* loop was started for" and "the process in x.cmd" can differ.            *)
(*                                                                         *)
(* A definition that stands directly before another of the same shape and  *)
(* is used nowhere (StartTwice before Start) is that definition with       *)
(* a plausible mistake; PROJECT.json lists which property finds it.        *)
(***************************************************************************)
EXTENDS Integers

CONSTANTS MaxLaunches,   \* bound: how many processes may be launched
          LaunchFails,   \* launch, writeConfig or resolve may fail
          Crashes        \* xmrig may end by itself

ASSUME EngineAssumption == /\ MaxLaunches \in Nat \ {0}
                           /\ LaunchFails \in BOOLEAN
                           /\ Crashes \in BOOLEAN

Launches == 1..MaxLaunches
NoCmd == 0               \* x.cmd == nil

\* The duty fraction, as far as the duty loop tells it apart: d <= 0, a
\* fraction in between, d >= 1.
Off  == 0
Part == 1
Full == 2
Duties == {Off, Part, Full}

VARIABLES
  cmd,        \* x.cmd: the launch whose process is managed, or NoCmd
  proc,       \* launch -> what the operating system has of that process
  launches,   \* how many launches there have been
  paused,     \* x.paused
  closed,     \* x.closed
  duty,       \* x.duty
  quit,       \* the launches whose dutyStop channel is closed
  loop,       \* launch -> where its duty loop stands
  heard       \* launch -> the duty its loop read last

engineVars == <<cmd, proc, launches, paused, closed, duty, quit, loop, heard>>

\* "exited": ended by itself and not reaped, for only stop() waits on it.
ProcStates == {"none", "run", "frozen", "exited", "gone"}
LoopStates == {"none", "read", "suspend", "resume", "slice", "rest", "done"}

EngineTypeOK == /\ cmd \in Launches \cup {NoCmd}
                /\ proc \in [Launches -> ProcStates]
                /\ launches \in 0..MaxLaunches
                /\ paused \in BOOLEAN
                /\ closed \in BOOLEAN
                /\ duty \in Duties
                /\ quit \in SUBSET Launches
                /\ loop \in [Launches -> LoopStates]
                /\ heard \in [Launches -> Duties]

EngineInit == /\ cmd = NoCmd
              /\ proc = [l \in Launches |-> "none"]
              /\ launches = 0
              /\ paused = FALSE
              /\ closed = FALSE
              /\ duty = Off
              /\ quit = {}
              /\ loop = [l \in Launches |-> "none"]
              /\ heard = [l \in Launches |-> Full]

-----------------------------------------------------------------------------
(* The calls.                                                              *)

\* start(): a new process, a new duty loop, and the flags of both.  The duty
\* is left as the last SetDuty set it.
start == /\ launches < MaxLaunches
         /\ LET l == launches + 1
            IN  /\ cmd' = l
                /\ proc' = [proc EXCEPT ![l] = "run"]
                /\ launches' = l
                /\ loop' = [loop EXCEPT ![l] = "read"]
         /\ paused' = FALSE
         /\ UNCHANGED <<closed, duty, quit, heard>>

StartTwice == IF closed
              THEN UNCHANGED engineVars
              ELSE start \/ (LaunchFails /\ UNCHANGED engineVars)

Start == IF closed \/ cmd # NoCmd
         THEN UNCHANGED engineVars
         ELSE start \/ (LaunchFails /\ UNCHANGED engineVars)

\* stop(): end the duty loop, kill the process, reap it.
stop == /\ cmd' = NoCmd
        /\ IF cmd = NoCmd
           THEN UNCHANGED <<proc, paused, quit>>
           ELSE /\ quit' = quit \cup {cmd}
                /\ proc' = [proc EXCEPT ![cmd] = "gone"]
                /\ paused' = FALSE
        /\ UNCHANGED <<launches, duty, loop, heard>>

Stop == stop /\ UNCHANGED closed

Close == stop /\ closed' = TRUE

\* A fraction below zero or above one is clamped.
Requests == Off - 1 .. Full + 1

SetDuty(d) == /\ duty' = IF d < Off THEN Off ELSE IF d > Full THEN Full ELSE d
              /\ UNCHANGED <<cmd, proc, launches, paused, closed, quit, loop, heard>>

-----------------------------------------------------------------------------
(* The duty loop of launch l.                                              *)

\* Signals go to this loop's own process, and only while x.cmd holds it.  A
\* signal to a process that exited and was not reaped may report either.
SignalAnyProcess(l, frozen) ==
  IF cmd = NoCmd \/ paused = frozen
  THEN UNCHANGED <<proc, paused>>
  ELSE /\ proc' = [proc EXCEPT ![l] = IF frozen THEN "frozen" ELSE "run"]
       /\ paused' = frozen

signal(l, frozen) ==
  IF cmd # l \/ paused = frozen
  THEN UNCHANGED <<proc, paused>>
  ELSE IF proc[l] = "exited"
       THEN paused' \in BOOLEAN /\ UNCHANGED proc
       ELSE /\ proc' = [proc EXCEPT ![l] = IF frozen THEN "frozen" ELSE "run"]
            /\ paused' = frozen

suspend(l) == signal(l, TRUE)
unsuspend(l) == signal(l, FALSE)

LoopGoes(l, from, to) == loop[l] = from /\ loop' = [loop EXCEPT ![l] = to]

LoopRead(l) ==
  /\ LoopGoes(l, "read", IF duty = Off THEN "suspend" ELSE "resume")
  /\ heard' = [heard EXCEPT ![l] = duty]
  /\ UNCHANGED <<cmd, proc, launches, paused, closed, duty, quit>>

AfterResume(l) == IF heard[l] = Full THEN "rest" ELSE "slice"

LoopForgetsResume(l) ==
  /\ LoopGoes(l, "resume", AfterResume(l))
  /\ UNCHANGED <<cmd, proc, launches, paused, closed, duty, quit, heard>>

LoopResume(l) ==
  /\ LoopGoes(l, "resume", AfterResume(l))
  /\ unsuspend(l)
  /\ UNCHANGED <<cmd, launches, closed, duty, quit, heard>>

LoopSuspend(l) ==
  /\ LoopGoes(l, "suspend", "rest")
  /\ suspend(l)
  /\ UNCHANGED <<cmd, launches, closed, duty, quit, heard>>

\* wait(): the timer fired.  It may even when dutyStop is closed as well,
\* for then the select takes either.
LoopWait(l) ==
  /\ LoopGoes(l, "slice", "suspend") \/ LoopGoes(l, "rest", "read")
  /\ UNCHANGED <<cmd, proc, launches, paused, closed, duty, quit, heard>>

\* wait(): dutyStop is closed.
LoopExit(l) ==
  /\ l \in quit
  /\ LoopGoes(l, "slice", "done") \/ LoopGoes(l, "rest", "done")
  /\ UNCHANGED <<cmd, proc, launches, paused, closed, duty, quit, heard>>

DutyLoop(l) == LoopRead(l) \/ LoopResume(l) \/ LoopSuspend(l) \/ LoopWait(l)
               \/ LoopExit(l)

\* xmrig ends by itself: nothing waits on it, so x.cmd still names it.
Crash == /\ Crashes
         /\ cmd # NoCmd
         /\ proc[cmd] \in {"run", "frozen"}
         /\ proc' = [proc EXCEPT ![cmd] = "exited"]
         /\ UNCHANGED <<cmd, launches, paused, closed, duty, quit, loop, heard>>

-----------------------------------------------------------------------------
EngineStep == Crash \/ \E l \in Launches : DutyLoop(l)

EngineNext == Start \/ Stop \/ Close \/ (\E d \in Requests : SetDuty(d))
              \/ EngineStep

\* A duty loop never blocks for longer than its timer, and a select that finds
\* two channels ready takes each of them sooner or later.
EngineFairness == \A l \in Launches : /\ WF_engineVars(DutyLoop(l))
                                      /\ SF_engineVars(LoopExit(l))

EngineSpec == EngineInit /\ [][EngineNext]_engineVars /\ EngineFairness

-----------------------------------------------------------------------------
(* Properties.                                                             *)

Live == {"run", "frozen"}

\* The process x.cmd names is the only one that is not reaped: no call leaves
\* a miner behind that nothing can stop.
NoOrphan == \A l \in Launches : proc[l] \in Live \cup {"exited"} <=> l = cmd

\* x.paused is what the operating system has: a live process is frozen
\* exactly when the flag says so, or the duty loop would skip the signal it
\* owes and leave the miner running flat out, or stopped for good.
FrozenIffPaused == cmd # NoCmd /\ proc[cmd] \in Live
                     => (paused <=> proc[cmd] = "frozen")

\* After Close no miner lives, whatever the scheduler's memory restart does.
ClosedForGood == closed => \A l \in Launches : proc[l] \notin Live

\* The engine at any moment, whoever calls it.
EngineKept == EngineTypeOK /\ NoOrphan /\ FrozenIffPaused /\ ClosedForGood

\* Every duty loop that is not the managed process's own has been told to
\* stop: there is never a second loop that keeps signalling.
StaleLoopsTold == \A l \in Launches :
                    loop[l] \notin {"none", "done"} /\ l # cmd => l \in quit

\* A reaped process is never signalled: its number may belong to someone else.
ReapedNotSignalled ==
  [][\A l \in Launches : proc[l] = "gone" => proc'[l] = "gone"]_engineVars

\* The engine keeps the promise of module Miner, its fairness included.
M == INSTANCE Miner
       WITH miner <- IF cmd = NoCmd THEN "none" ELSE proc[cmd],
            heard <- IF cmd = NoCmd THEN Off ELSE heard[cmd]
ImplementsMiner == M!EngineSpec
=============================================================================

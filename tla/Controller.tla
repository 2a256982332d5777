----------------------------- MODULE Controller -----------------------------
(***************************************************************************)
(* What one tick of the scheduler makes of its readings: the memory guard  *)
(* (memory.go), the miner's cores (layout.go, nodo.go) and the CPU         *)
(* allowance with the duty it becomes (scheduler.go), over the settings    *)
(* the window can change between ticks and the engine's side of a layout   *)
(* (SetLayout, SetAffinity, a launch).  Module Scheduler has the           *)
(* interleavings; here a tick has two steps, and readings have values.     *)
(*                                                                         *)
(* CPU is counted in cores, memory in units of this machine.  Not          *)
(* modelled: which cores a layout holds (their number matters), reasons    *)
(* shown to the user, and a miner that dies by itself.                     *)
(***************************************************************************)
EXTENDS Integers

CONSTANTS Cores,         \* logical CPUs
          Present, Idle, \* the sizes of the two layouts
          Little,        \* low-power cores of a Nodo
          ThreadCounts,  \* values of max_threads
          Ceilings,      \* preset -> its ceiling
          WaitingPresets, \* those with WaitsForIdle
          GhostCeiling,  \* kindness.Ghost's
          WidenAfter,    \* widenAfterTicks
          Memory, Margin, Footprint, \* the machine's, margin(), the miner's
          StallTicks,    \* memoryStallTicks
          Quiet,         \* memoryQuiet, in ticks
          Faults,        \* a write, an affinity call or a launch may fail
          Resizes        \* the settings window may change max_threads

Presets == DOMAIN Ceilings

ASSUME ControllerAssumption ==
  /\ Cores \in Nat \ {0}
  /\ {Present, Idle, Little} \cup ThreadCounts \subseteq 1..Cores
  /\ Present <= Idle
  /\ Ceilings \in [Presets -> 1..Cores]
  /\ WaitingPresets \subseteq Presets
  /\ GhostCeiling \in 1..Cores
  /\ {WidenAfter, StallTicks, Quiet} \subseteq Nat \ {0}
  /\ {Memory, Margin, Footprint} \subseteq Nat
  /\ {Faults, Resizes} \subseteq BOOLEAN

Profiles == {"layouts",   \* a topology that could be read
             "threads",   \* max_threads is set
             "nodo"}      \* mine_on_nodo
Layouts == {"present", "idle"}
Size(layout) == IF layout = "present" THEN Present ELSE Idle

Pressures == {"unknown", "quiet", "uneasy", "stalled"}  \* readings of PSI
Never == -1                                             \* the zero time

VARIABLES
  profile, preset, maxThreads,  \* the settings in force
  phase,        \* the tick: "sample" and then "act"
  guard,        \* memoryGuard; calm counts ticks since calmSince
  others,       \* memory other programs hold
  running,      \* threads of the miner's process, 0 when there is none
  threads,      \* x.threads
  engineLayout, \* x.layout
  layoutNow,    \* s.layoutNow
  confined,     \* cores the process may run on
  activeCores,  \* s.activeCores
  wide, calm,   \* nodoControl
  gated,        \* what idleGated said last
  allowed,      \* s.allowed
  full,         \* minerFullShare at the last apply: the duty is allowed/full
  failed,       \* history: a write or an affinity call of this tick failed
  atRestart,    \* history: others when the guard let the miner back
  peace         \* history: readings in a row with nothing against the miner

settings == <<profile, preset, maxThreads>>
memory == <<guard, others, atRestart, peace>>
engine == <<running, threads, engineLayout, confined>>
placing == <<layoutNow, activeCores, wide, calm, gated>>
vars == <<settings, phase, memory, engine, placing, allowed, full, failed>>

ControllerTypeOK ==
  /\ profile \in Profiles /\ preset \in Presets /\ maxThreads \in 1..Cores
  /\ phase \in {"sample", "act"}
  /\ guard \in [stopped : BOOLEAN, stallTicks : 0..StallTicks, calm : Never..(Quiet - 1)]
  /\ others \in 0..Memory /\ atRestart \in Never..Memory /\ peace \in 0..(Quiet + 1)
  /\ running \in 0..Cores /\ threads \in 1..Cores
  /\ {engineLayout, layoutNow} \subseteq Layouts
  /\ {confined, activeCores} \subseteq 0..Cores
  /\ wide \in BOOLEAN /\ calm \in 0..WidenAfter
  /\ gated \in BOOLEAN /\ failed \in BOOLEAN
  /\ allowed \in 0..Cores /\ full \in 1..Cores

-----------------------------------------------------------------------------
\* startMiner and New: the miner runs, on the present layout, at duty zero.
LaunchThreads(l) == IF profile = "layouts" THEN Size(l) ELSE threads

Init == /\ profile \in Profiles
        /\ preset \in Presets
        /\ threads \in IF profile = "nodo" THEN ThreadCounts \cup {Cores} ELSE ThreadCounts
        /\ maxThreads = threads
        /\ phase = "sample"
        /\ guard = [stopped |-> FALSE, stallTicks |-> 0, calm |-> Never]
        /\ others \in 0..Memory
        /\ engineLayout = "present"
        /\ layoutNow = "present"
        /\ running = LaunchThreads("present")
        /\ confined = Cores
        /\ activeCores = 0
        /\ wide = FALSE
        /\ calm = 0
        /\ gated = FALSE
        /\ allowed = 0
        /\ full = running
        /\ failed = FALSE
        /\ atRestart = Never
        /\ peace = 0

Outcomes == IF Faults THEN BOOLEAN ELSE {TRUE}

-----------------------------------------------------------------------------
(* The memory guard.                                                       *)

Min2(a, b) == IF a < b THEN a ELSE b

available(o) == LET held == o + (IF running = 0 THEN 0 ELSE Footprint)
                IN  IF held > Memory THEN 0 ELSE Memory - held

\* Is there room for the miner?  Unknown readings have nothing against it.
RoomyForAnything(known, o) == known => available(o) >= Margin
Roomy(known, o) == known => available(o) >= Margin + Footprint

stepIfRunning(psi, known, o) ==
  LET stalls == IF psi = "stalled" THEN Min2(guard.stallTicks + 1, StallTicks) ELSE 0
  IN  [stopped |-> (known /\ available(o) < Margin) \/ stalls >= StallTicks,
       stallTicks |-> stalls,
       calm |-> Never]

\* The first calm reading sets calmSince; another Quiet of them let the miner back.
stepIfStopped(psi, known, o) ==
  LET calmly == psi \in {"unknown", "quiet"} /\ Roomy(known, o)
      since == IF calmly THEN guard.calm + 1 ELSE Never
  IN  [stopped |-> ~calmly \/ since < Quiet,
       stallTicks |-> IF psi = "stalled" THEN Min2(guard.stallTicks + 1, StallTicks) ELSE 0,
       calm |-> IF since >= Quiet THEN Never ELSE since]

step(psi, known, o) == IF guard.stopped THEN stepIfStopped(psi, known, o)
                       ELSE stepIfRunning(psi, known, o)

\* stopOrRestartForMemory, once the guard has turned.  A launch writes the
\* config, with the engine's layout, for a process confined to nothing.
Turn(stopped) ==
  \/ /\ stopped = guard.stopped
     /\ UNCHANGED <<running, confined>>
  \/ /\ stopped /\ ~guard.stopped
     /\ running' = 0
     /\ UNCHANGED confined
  \/ /\ ~stopped /\ guard.stopped
     /\ \E ok \in Outcomes : running' = IF ok THEN LaunchThreads(engineLayout) ELSE 0
     /\ confined' = Cores

\* The first half of tick(): a reading of the memory, and what follows.
Sample ==
  /\ phase = "sample"
  /\ phase' = "act"
  /\ \E o \in 0..Memory, psi \in Pressures, known \in BOOLEAN :
       /\ others' = o
       /\ guard' = step(psi, known, o)
       /\ Turn(guard'.stopped)
       /\ atRestart' = IF guard.stopped /\ ~guard'.stopped
                       THEN IF known THEN o ELSE Never ELSE atRestart
       /\ peace' = IF psi \in {"unknown", "quiet"} /\ (known => o + Margin + Footprint <= Memory)
                   THEN Min2(peace + 1, Quiet + 1) ELSE 0
  /\ failed' = FALSE
  /\ UNCHANGED <<settings, threads, engineLayout, placing, allowed, full>>

-----------------------------------------------------------------------------
(* The miner's cores.                                                      *)

\* The engine records the layout first; a running miner gets it by a write.
SetLayout(want, ok) ==
  /\ engineLayout' = want
  /\ running' = IF running # 0 /\ ok THEN Size(want) ELSE running

placeLayout(g) ==
  LET want == IF g THEN "present" ELSE "idle"
  IN  IF want = layoutNow
      THEN UNCHANGED <<layoutNow, engineLayout, running, failed>>
      ELSE \E ok \in Outcomes :
             /\ SetLayout(want, ok)
             /\ layoutNow' = IF ok \/ running = 0 THEN want ELSE layoutNow
             /\ failed' = (~ok /\ running # 0)

nextWide(pressured) ==
  IF pressured THEN wide' = FALSE /\ calm' = 0
  ELSE /\ calm' = Min2(calm + 1, WidenAfter)
       /\ wide' = (wide \/ calm' = WidenAfter)

placeOnCoresOnChange(pressured) ==
  /\ nextWide(pressured)
  /\ activeCores' = IF wide' THEN Cores ELSE Little
  /\ \E ok \in Outcomes :
       /\ confined' = IF ok /\ running # 0 /\ activeCores' # activeCores
                      THEN activeCores' ELSE confined
       /\ failed' = (~ok /\ running # 0)

\* Affinity is set on every tick: a process just launched has none.
placeOnCores(pressured) ==
  /\ nextWide(pressured)
  /\ activeCores' = IF wide' THEN Cores ELSE Little
  /\ \E ok \in Outcomes :
       /\ confined' = IF ok /\ running # 0 THEN activeCores' ELSE confined
       /\ failed' = (~ok /\ running # 0)

Place(pressured) ==
  \/ /\ profile = "layouts"
     /\ placeLayout(gated')
     /\ UNCHANGED <<confined, activeCores, wide, calm>>
  \/ /\ profile = "nodo"
     /\ Little < Cores
     /\ placeOnCores(pressured)
     /\ UNCHANGED <<layoutNow, engineLayout, running>>
  \/ /\ profile = "threads" \/ (profile = "nodo" /\ Little = Cores)
     /\ UNCHANGED <<confined, activeCores, wide, calm, layoutNow, engineLayout,
                    running, failed>>

-----------------------------------------------------------------------------
(* The allowance and the duty.                                             *)

effectiveCeiling == IF gated' /\ GhostCeiling < Ceilings[preset]
                    THEN GhostCeiling ELSE Ceilings[preset]

\* decide: other work is left its share, and near the temperature limit a
\* part of the rest is given up.
Targets(other, warm) ==
  LET left == effectiveCeiling - other
  IN  IF left <= 0 THEN {0} ELSE IF warm THEN 1..left ELSE {left}

\* approach, in whole cores: a rate below one never gets to zero, and a rise
\* too small to count is none.
approach(t) == IF t > allowed THEN allowed..t
               ELSE IF t = 0 /\ allowed > 0 THEN 1..allowed ELSE t..allowed

minerFullShare ==
  LET n == IF profile = "layouts" THEN Size(layoutNow') ELSE maxThreads
  IN  IF activeCores' > 0 THEN Min2(activeCores', n) ELSE n

\* The second half of tick(), from placeLayout to apply.
Act ==
  /\ phase = "act"
  /\ phase' = "sample"
  /\ gated' \in IF preset \in WaitingPresets THEN BOOLEAN ELSE {FALSE}
  /\ \E pressured \in BOOLEAN : Place(pressured)
  /\ \E other \in 0..Cores, warm, halt \in BOOLEAN :
       IF halt \/ guard.stopped
       THEN allowed' = 0
       ELSE \E t \in Targets(other, warm) : allowed' \in approach(t)
  /\ full' = minerFullShare
  /\ UNCHANGED <<settings, memory, threads>>

-----------------------------------------------------------------------------
\* The settings window.  The launched miner is left as it is.
UpdateRuntime ==
  /\ phase = "sample"
  /\ preset' \in Presets
  /\ maxThreads' \in IF Resizes THEN ThreadCounts ELSE {maxThreads}
  /\ UNCHANGED <<profile, phase, memory, engine, placing, allowed, full, failed>>

Next == Sample \/ Act \/ UpdateRuntime

Spec == Init /\ [][Next]_vars

-----------------------------------------------------------------------------
(* Properties.                                                             *)

Occupied == Min2(running, confined)

\* The miner never takes more of the machine than its allowance: the duty was
\* worked out for the threads and cores it really has, through layout changes,
\* moves between clusters and restarts.  With duty = min(1, allowed/full),
\* this is duty * Occupied <= allowed.
NeverMoreThanAllowed ==
  IF allowed >= full THEN Occupied <= allowed ELSE allowed * Occupied <= allowed * full

\* While the user is here the miner runs on the small layout, from the next
\* tick on ("the user returning shrinks it on the next tick"), unless the
\* write that shrinks it failed just now.
SmallWhilePresent ==
  phase = "sample" /\ profile = "layouts" /\ gated /\ ~failed /\ running # 0
    => running = Present

\* The guard lets the miner back only after a Quiet without one reading
\* against it, whatever the readings were in between.
RestartAfterQuiet ==
  [][guard.stopped /\ ~guard'.stopped => peace' > Quiet]_vars

\* The miner's own memory never makes the guard stop it again: between a
\* restart and a stop for want of memory others have taken some more.
NoFlap ==
  [][~guard.stopped /\ guard'.stopped /\ guard'.stallTicks < StallTicks
       => others' > atRestart]_vars

\* What holds of every state, and of every stop for memory and the way back.
ControllerSafe == ControllerTypeOK /\ NeverMoreThanAllowed /\ SmallWhilePresent
MemoryStopsHold == RestartAfterQuiet /\ NoFlap
=============================================================================

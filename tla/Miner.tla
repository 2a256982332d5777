-------------------------------- MODULE Miner --------------------------------
(***************************************************************************)
(* What the scheduler may rely on when it drives the miner engine          *)
(* (internal/engine/xmrig.go), without the engine's goroutines: at most    *)
(* one miner process, launched at the duty last asked for, that follows    *)
(* the duty its throttle heard last; and none ever again after Close.      *)
(* Module XMRig is the engine as it is written and implements this one.    *)
(***************************************************************************)
EXTENDS Naturals

CONSTANTS MaxLaunches,   \* bound: how many processes may be launched
          LaunchFails,   \* Start may return an error
          Crashes        \* xmrig may end by itself

ASSUME EngineAssumption == /\ MaxLaunches \in Nat \ {0}
                           /\ LaunchFails \in BOOLEAN
                           /\ Crashes \in BOOLEAN

\* The duty fraction as far as the throttle tells it apart: zero or less, a
\* fraction in between, one or more.
Off  == 0
Part == 1
Full == 2
Duties == {Off, Part, Full}

VARIABLES miner,      \* "none", or what became of the process last launched
          launches,   \* how many launches there have been
          closed,     \* Close was called
          duty,       \* the duty last asked for
          heard       \* the duty the throttle of this process heard last

engineVars == <<miner, launches, closed, duty, heard>>

Live == {"run", "frozen"}

EngineTypeOK == /\ miner \in Live \cup {"none", "exited"}
                /\ launches \in 0..MaxLaunches
                /\ closed \in BOOLEAN
                /\ duty \in Duties
                /\ heard \in Duties

EngineInit == /\ miner = "none"
              /\ launches = 0
              /\ closed = FALSE
              /\ duty = Off
              /\ heard = Off

Launch == /\ launches < MaxLaunches
          /\ launches' = launches + 1
          /\ miner' = "run"
          /\ heard' = Full
          /\ UNCHANGED <<closed, duty>>

\* Starting a miner that is there, or one that is closed, changes nothing.
Start == IF closed \/ miner # "none"
         THEN UNCHANGED engineVars
         ELSE Launch \/ (LaunchFails /\ UNCHANGED engineVars)

Stop == /\ miner' = "none"
        /\ heard' = Off
        /\ UNCHANGED <<launches, closed, duty>>

Close == /\ miner' = "none"
         /\ heard' = Off
         /\ closed' = TRUE
         /\ UNCHANGED <<launches, duty>>

SetDuty(d) == /\ duty' = d
              /\ UNCHANGED <<miner, launches, closed, heard>>

\* The throttle hears the duty, and acts on what it heard.
Hear == /\ miner # "none"
        /\ heard' = duty
        /\ UNCHANGED <<miner, launches, closed, duty>>

Obey == /\ \/ miner = "run" /\ heard # Full /\ miner' = "frozen"
           \/ miner = "frozen" /\ heard # Off /\ miner' = "run"
        /\ UNCHANGED <<launches, closed, duty, heard>>

Crash == /\ Crashes
         /\ miner \in Live
         /\ miner' = "exited"
         /\ UNCHANGED <<launches, closed, duty, heard>>

EngineStep == Hear \/ Obey \/ Crash

EngineNext == Start \/ Stop \/ Close \/ (\E d \in Duties : SetDuty(d))
              \/ EngineStep

EngineFairness == WF_engineVars(Hear) /\ WF_engineVars(Obey)

EngineSpec == EngineInit /\ [][EngineNext]_engineVars /\ EngineFairness
=============================================================================

------------------------------- MODULE Rollout -------------------------------
(***************************************************************************)
(* Which engines a Nodo runs: the package's maintainer scripts             *)
(* (packaging/deb), which keep the pair an upgrade replaced; the daemon's  *)
(* choice between the two (internal/rollout, cmd/kind-minerd/engines.go);  *)
(* the probation a new pair has to pass, and what is remembered of it on   *)
(* disk; and mine(), which starts again when a pair failed.                *)
(*                                                                         *)
(* dpkg and the daemon interleave step by step.  A pair is a number, later *)
(* releases shipping later pairs unless Reverts.                           *)
(* Not modelled: a broken engines directory or state file (both are logged *)
(* and treated as absent), and the instants in which dpkg has replaced     *)
(* some files of a pair and not others.                                    *)
(***************************************************************************)
EXTENDS Integers

CONSTANTS MaxPair,      \* bound: the releases ship pairs 1..MaxPair
          Probation,    \* looks until a pair on probation is judged
          MaxTroubles,  \* bound: how often the daemon dies or is reloaded
          Reverts       \* a release may go back to an earlier pair

ASSUME RolloutAssumption == /\ MaxPair \in Nat \ {0}
                            /\ Probation \in Nat \ {0}
                            /\ MaxTroubles \in Nat
                            /\ Reverts \in BOOLEAN

Pairs == 1..MaxPair
None == 0

States == [healthy : Pairs \cup {None}, rejected : Pairs \cup {None}]

VARIABLES
  current, previous, upgrading,  \* engines, engines.previous, engines.upgrading
  dpkg,        \* where the maintainer scripts stand
  saved,       \* engines.json in the state directory
  mine,        \* where mine() stands
  eng,         \* what the last chooseEngines decided
  watching,    \* watchProbation is running
  check,       \* its rollout.Check
  dud,         \* the pairs that may fail to start and whose p2pool never syncs
  judged,      \* history: the last verdict on a pair that reached the disk
  troubles     \* how often the daemon was killed or reloaded

package == <<current, previous, upgrading, dpkg>>
daemon == <<mine, eng, watching, check>>
vars == <<package, saved, daemon, dud, judged, troubles>>

NewCheck == [looks |-> 0, synced |-> FALSE, allowed |-> FALSE,
             hashed |-> FALSE, held |-> "no"]
NoState == [healthy |-> None, rejected |-> None]

RolloutTypeOK ==
  /\ {current, previous, upgrading} \subseteq Pairs \cup {None}
  /\ dpkg \in {"idle", "prepared", "unpacked", "configured"}
  /\ saved \in States
  /\ mine \in {"down", "starting", "up", "failed"}
  /\ eng \in [use : Pairs \cup {None}, probation : BOOLEAN, canRollBack : BOOLEAN,
              current : Pairs \cup {None}, state : States]
  /\ watching \in BOOLEAN
  /\ check \in [looks : 0..Probation, synced : BOOLEAN, allowed : BOOLEAN,
                hashed : BOOLEAN, held : {"no", "island", "advisory"}]
  /\ dud \in SUBSET Pairs
  /\ judged \in [Pairs -> {"no", "passed", "failed"}]
  /\ troubles \in 0..MaxTroubles

Init == /\ current = 1
        /\ previous = None
        /\ upgrading = None
        /\ dpkg = "idle"
        /\ saved = NoState
        /\ mine = "down"
        /\ eng = [use |-> None, probation |-> FALSE, canRollBack |-> FALSE,
                  current |-> None, state |-> NoState]
        /\ watching = FALSE
        /\ check = NewCheck
        /\ dud \in SUBSET Pairs
        /\ judged = [p \in Pairs |-> "no"]
        /\ troubles = 0

-----------------------------------------------------------------------------
(* The package.                                                            *)

Dpkg(from, to) == /\ dpkg = from
                  /\ dpkg' = to
                  /\ UNCHANGED <<saved, dud, judged, troubles>>

\* preinst upgrade: a copy of the pair in use, replacing one left over.
Preinst == /\ Dpkg("idle", "prepared")
           /\ upgrading' = current
           /\ UNCHANGED <<current, previous, daemon>>

Unpack == /\ Dpkg("prepared", "unpacked")
          /\ current' \in {p \in Pairs : Reverts \/ p >= current}
          /\ UNCHANGED <<previous, upgrading, daemon>>

\* The upgrade is given up; the copy stays where it is.
Abort == /\ Dpkg("prepared", "idle")
         /\ UNCHANGED <<current, previous, upgrading, daemon>>

\* postinst configure: the pair this upgrade replaced becomes the way back,
\* unless it is the same pair.
Postinst == /\ Dpkg("unpacked", "configured")
            /\ upgrading' = None
            /\ previous' = IF upgrading = current THEN previous ELSE upgrading
            /\ UNCHANGED <<current, daemon>>

\* systemctl try-restart: a daemon that runs is stopped, to be booted again.
TryRestart == /\ Dpkg("configured", "idle")
              /\ mine' = "down"
              /\ watching' = FALSE
              /\ UNCHANGED <<current, previous, upgrading, eng, check>>

Package == Preinst \/ Unpack \/ Abort \/ Postinst \/ TryRestart

-----------------------------------------------------------------------------
(* Choosing.                                                               *)

CanRollBackToAny(cur, prev, st) == prev # None /\ prev # cur

CanRollBackTo(cur, prev, st) == prev # None /\ prev # cur /\ prev = st.healthy

ChooseJudgesWayBack(cur, prev, st) ==
  IF st.rejected = cur
  THEN [use |-> IF CanRollBackTo(cur, prev, st) THEN prev ELSE cur, probation |-> TRUE]
  ELSE [use |-> cur, probation |-> st.healthy # cur]

ChooseIgnoresRejection(cur, prev, st) ==
  [use |-> cur, probation |-> st.healthy # cur]

\* Choose: a rejected pair gives way to the previous one if that is known to
\* work, and a pair that is neither rejected nor healthy is on probation.
Choose(cur, prev, st) ==
  IF st.rejected = cur
  THEN [use |-> IF CanRollBackTo(cur, prev, st) THEN prev ELSE cur, probation |-> FALSE]
  ELSE [use |-> cur, probation |-> st.healthy # cur]

chooseEngines == LET c == Choose(current, previous, saved)
                 IN  [use |-> c.use, probation |-> c.probation,
                      canRollBack |-> CanRollBackTo(current, previous, saved),
                      current |-> current, state |-> saved]

-----------------------------------------------------------------------------
(* Verdicts.                                                               *)

\* WriteState renames a whole file into place, or fails and is logged.
WriteState(v) == \/ saved' = v.state /\ judged' = [judged EXCEPT ![v.pair] = v.verdict]
                 \/ UNCHANGED <<saved, judged>>

rejection == [pair |-> eng.current, verdict |-> "failed",
              state |-> [eng.state EXCEPT !.rejected = eng.current]]

acceptance == [pair |-> eng.current, verdict |-> "passed",
               state |-> [healthy |-> eng.current,
                          rejected |-> IF eng.state.rejected = eng.current
                                       THEN None ELSE eng.state.rejected]]

\* observe: one look at a running pair.  A dud's p2pool never syncs; of any
\* other pair anything may be seen, a hold of the miner by the advisory too.
Looks == [synced : IF eng.use \in dud THEN {FALSE} ELSE BOOLEAN,
          allowed : BOOLEAN, hashing : BOOLEAN,
          held : {"no", "island", "advisory"}]

Seen(o) == [looks |-> check.looks + 1,
            synced |-> check.synced \/ o.synced,
            allowed |-> check.allowed \/ o.allowed,
            hashed |-> check.hashed \/ o.hashing,
            held |-> o.held]

\* Observe, once Probation has passed.
Fails(c) == ~c.synced \/ c.held # "no" \/ (c.allowed /\ ~c.hashed)
Verdict(c) == IF Fails(c) THEN rejection ELSE acceptance

-----------------------------------------------------------------------------
(* The daemon.                                                             *)

Boot == /\ mine \in {"down", "failed"}
        /\ mine' = "starting"
        /\ eng' = chooseEngines
        /\ watching' = FALSE
        /\ UNCHANGED <<package, saved, check, dud, judged, troubles>>

Started == /\ mine = "starting"
           /\ mine' = "up"
           /\ watching' = eng.probation
           /\ check' = NewCheck
           /\ UNCHANGED <<package, saved, eng, dud, judged, troubles>>

\* Start returned an error, which need not be the engines' doing: a pair on
\* probation is rejected, and mine goes round again if there is a way back.
StartFails ==
  /\ mine = "starting"
  /\ IF eng.probation THEN WriteState(rejection) ELSE UNCHANGED <<saved, judged>>
  /\ mine' = IF eng.probation /\ eng.canRollBack THEN "failed" ELSE "down"
  /\ UNCHANGED <<package, eng, watching, check, dud, troubles>>

\* A look before Probation has passed decides nothing.
Look == /\ watching
        /\ check.looks + 1 < Probation
        /\ \E o \in Looks : check' = Seen(o)
        /\ UNCHANGED <<package, saved, mine, eng, watching, dud, judged, troubles>>


\* The first look after it does: watchProbation records the verdict and ends,
\* and mine() returns when the pair failed and there is a way back.
Judge == /\ watching
         /\ check.looks + 1 = Probation
         /\ \E o \in Looks :
              /\ check' = Seen(o)
              /\ WriteState(Verdict(Seen(o)))
              /\ mine' = IF Fails(Seen(o)) /\ eng.canRollBack THEN "failed" ELSE mine
         /\ watching' = FALSE
         /\ UNCHANGED <<package, eng, dud, troubles>>

Trouble == troubles < MaxTroubles /\ troubles' = troubles + 1

\* The owner changed the wallet: mine() returns and goes round again.  The
\* watcher writes the verdict it may have before that: the Shutdown on the way
\* takes seconds, a write does not.
Reload == /\ mine = "up"
          /\ Trouble
          /\ mine' = "failed"
          /\ watching' = FALSE
          /\ UNCHANGED <<package, saved, eng, check, dud, judged>>

\* The daemon is killed, or told to stop.
Dies == /\ mine # "down"
        /\ Trouble
        /\ mine' = "down"
        /\ watching' = FALSE
        /\ UNCHANGED <<package, saved, eng, check, dud, judged>>

Daemon == Boot \/ Started \/ StartFails \/ Look \/ Judge \/ Reload \/ Dies

Next == Package \/ Daemon

\* systemd starts the daemon again, Start returns, the ticker ticks.  A start
\* and a write that are tried again and again work in the end.
Fairness == /\ WF_vars(Boot)
            /\ WF_vars(StartFails)
            /\ SF_vars(Started)
            /\ WF_vars(Look)
            /\ WF_vars(Judge)
            /\ SF_vars((Judge \/ StartFails) /\ saved' # saved)

Spec == Init /\ [][Next]_vars /\ Fairness

-----------------------------------------------------------------------------
(* Properties.                                                             *)

Booting == mine # "starting" /\ mine' = "starting"

\* The daemon leaves the packaged pair only for one that passed its probation
\* on this machine, and whose pass is the last word on it.
WayBackProven == mine \in {"starting", "up"} /\ eng.use # eng.current
                   => judged[eng.use] = "passed"

\* No pair runs unjudged without being watched: one that is not on probation
\* has a verdict, whatever upgrades, kills and failed writes came before.
NoneUnwatched == mine = "starting" /\ ~eng.probation => judged[eng.use] # "no"

\* What holds of every state.
RolloutSafe == RolloutTypeOK /\ WayBackProven /\ NoneUnwatched

\* A pair whose failure was recorded is not started again while a pair that
\* passed here is on disk beside it ("a daemon killed mid-way still does not
\* run the failed pair on its next start"), outside an upgrade under way.
ProvenFirst ==
  [][Booting /\ dpkg = "idle" /\ judged[eng'.use] = "failed"
       => previous \in {None, current} \/ judged[previous] # "passed"]_vars

\* A pair that cannot sync is set aside for good once the package is left
\* alone, when the pair before it is known to work.
DudSetAside ==
  (<>[](dpkg = "idle" /\ current \in dud
          /\ previous \in Pairs \ dud /\ judged[previous] = "passed"))
    => <>[](eng.use = previous)
=============================================================================

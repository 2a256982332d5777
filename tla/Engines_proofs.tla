---------------------------- MODULE Engines_proofs ---------------------------
(***************************************************************************)
(* Which engines run.  What the choice between the two pairs of engines    *)
(* promises, for any number of releases, any length of the probation and   *)
(* any number of kills and reloads, with dpkg's scripts and the daemon's   *)
(* steps in any order and verdicts that are not written.  And what the     *)
(* program resolves at its start, with the node and the advisory that      *)
(* follow, for any releases, manifests and ways of shipping.  The two      *)
(* share no state.                                                         *)
(***************************************************************************)
EXTENDS Rollout, Startup, TLAPS

-----------------------------------------------------------------------------
(* The inductive invariants.                                               *)

\* What a daemon knows from its boot is what is on disk, as long as it may
\* still write a verdict.
KnowsDisk == /\ watching => mine = "up" /\ eng.probation
             /\ watching \/ mine = "starting" => eng.state = saved
             /\ mine \in {"starting", "up"} =>
                  /\ eng.current \in Pairs /\ eng.use \in Pairs
                  /\ eng.probation => eng.use = eng.current /\ eng.state.healthy # eng.current

\* What is on disk was judged, and the pair it names healthy passed.
Remembered == /\ saved.healthy # None => judged[saved.healthy] = "passed"
              /\ saved.rejected # None => judged[saved.rejected] # "no"

WayBackInv == /\ RolloutTypeOK /\ current \in Pairs /\ KnowsDisk /\ Remembered
              /\ WayBackProven /\ NoneUnwatched

\* Where later releases ship later pairs.  The pair before the last one that
\* was installed, whichever of the maintainer scripts has run.
Prior == IF dpkg = "unpacked" /\ upgrading # current THEN upgrading ELSE previous

InOrder == /\ previous < current /\ upgrading <= current
           /\ dpkg = "prepared" => upgrading = current
           /\ dpkg = "unpacked" => upgrading # None
           /\ eng.current <= Prior \/ eng.current = current
           /\ \A p \in Pairs : judged[p] # "no"
                => p <= eng.current /\ (p <= Prior \/ p = current)

\* The last pair that passed is the one on disk, and so is the last that
\* failed unless a later one passed.
LastWord == /\ \A p \in Pairs : judged[p] = "passed" => p <= saved.healthy
            /\ \A p \in Pairs : judged[p] = "failed"
                 => p <= saved.rejected \/ p < saved.healthy

ProvenInv == WayBackInv /\ InOrder /\ LastWord

-----------------------------------------------------------------------------
(* Choices and verdicts.                                                   *)

Verdicts == [Pairs -> {"no", "passed", "failed"}]
Engines == [use : Pairs \cup {None}, probation : BOOLEAN, canRollBack : BOOLEAN,
            current : Pairs \cup {None}, state : States]
Checks == [looks : 0..Probation, synced : BOOLEAN, allowed : BOOLEAN,
           hashed : BOOLEAN, held : {"no", "island", "advisory"}]

LEMMA Numbers == /\ MaxPair \in Nat \ {0} /\ Probation \in Nat \ {0} /\ MaxTroubles \in Nat
                 /\ None = 0 /\ None \notin Pairs /\ 1 \in Pairs
  BY RolloutAssumption DEF RolloutAssumption, Pairs, None

\* What the choice is: the packaged pair, or the way back where that is known
\* to work; and the packaged one is on probation unless something is known of it.
LEMMA Choices ==
  ASSUME WayBackInv
  PROVE  /\ chooseEngines \in Engines
         /\ chooseEngines.current = current /\ chooseEngines.state = saved
         /\ chooseEngines.use \in Pairs
         /\ chooseEngines.probation
              => chooseEngines.use = current /\ saved.healthy # current
         /\ chooseEngines.use # current => judged[chooseEngines.use] = "passed"
         /\ ~chooseEngines.probation => judged[chooseEngines.use] # "no"
         /\ chooseEngines.use = IF saved.rejected = current /\ CanRollBackTo(current, previous, saved)
                                THEN previous ELSE current
<1> DEFINE c == Choose(current, previous, saved)
           back == CanRollBackTo(current, previous, saved)
<1>1. /\ current \in Pairs /\ previous \in Pairs \cup {None} /\ saved \in States
  BY DEF WayBackInv, RolloutTypeOK
<1>2. back => previous \in Pairs /\ previous = saved.healthy /\ judged[previous] = "passed"
  BY <1>1 DEF CanRollBackTo, WayBackInv, Remembered
<1>3. back \in BOOLEAN
  BY DEF CanRollBackTo
<1> HIDE DEF back
<1>4. /\ c.use \in Pairs /\ c.probation \in BOOLEAN
      /\ c.probation => c.use = current /\ saved.healthy # current
      /\ c.use # current => judged[c.use] = "passed"
      /\ ~c.probation => judged[c.use] # "no"
      /\ c.use = IF saved.rejected = current /\ back THEN previous ELSE current
  <2>1. CASE saved.rejected = current
    <3>1. c = [use |-> IF back THEN previous ELSE current, probation |-> FALSE]
      BY <2>1 DEF Choose, back
    <3>2. judged[current] # "no"
      BY <1>1, <2>1, Numbers DEF WayBackInv, Remembered
    <3>3. QED
      BY <1>1, <1>2, <2>1, <3>1, <3>2
  <2>2. CASE saved.rejected # current
    <3> DEFINE new == saved.healthy # current
    <3>1. c = [use |-> current, probation |-> new]
      BY <2>2 DEF Choose
    <3>2. ~new => judged[current] # "no"
      BY <1>1, Numbers DEF WayBackInv, Remembered
    <3>3. new \in BOOLEAN /\ (new => saved.healthy # current)
      OBVIOUS
    <3> HIDE DEF new
    <3>4. c.use = current /\ c.probation = new
      BY <3>1, <3>3
    <3>5. QED
      BY <1>1, <2>2, <3>2, <3>3, <3>4
  <2>3. QED
    BY <2>1, <2>2
<1> HIDE DEF c
<1>5. chooseEngines = [use |-> c.use, probation |-> c.probation, canRollBack |-> back,
                       current |-> current, state |-> saved]
  BY DEF chooseEngines, c, back
<1>6. chooseEngines \in Engines
  BY <1>1, <1>3, <1>4, <1>5, Zenon DEF Engines
<1>7. /\ chooseEngines.use = c.use /\ chooseEngines.probation = c.probation
      /\ chooseEngines.current = current /\ chooseEngines.state = saved
  BY <1>5
<1>8. QED
  BY <1>4, <1>6, <1>7 DEF back

\* A verdict is on the pair of the boot, and what is written of it is what the
\* boot found with that verdict entered; or it is not written.
Watched == eng.probation /\ (watching \/ mine = "starting")

LEMMA VerdictWritten ==
  ASSUME WayBackInv, Watched, NEW v \in {rejection, acceptance}, WriteState(v)
  PROVE  \/ UNCHANGED <<saved, judged>>
         \/ /\ saved' \in States /\ judged' \in Verdicts /\ eng.current \in Pairs
            /\ \A p \in Pairs \ {eng.current} : judged'[p] = judged[p]
            /\ saved.healthy # eng.current
            /\ \/ /\ judged'[eng.current] = "failed"
                  /\ saved'.rejected = eng.current /\ saved'.healthy = saved.healthy
               \/ /\ judged'[eng.current] = "passed"
                  /\ saved'.healthy = eng.current
                  /\ saved'.rejected = IF saved.rejected = eng.current THEN None ELSE saved.rejected
<1>1. /\ eng.state = saved /\ saved \in States /\ judged \in Verdicts
      /\ eng.current \in Pairs /\ saved.healthy # eng.current
  BY DEF Watched, WayBackInv, KnowsDisk, RolloutTypeOK, Verdicts
<1>2. CASE v = rejection /\ saved' = v.state /\ judged' = [judged EXCEPT ![v.pair] = v.verdict]
  <2>1. /\ saved' = [saved EXCEPT !.rejected = eng.current]
        /\ judged' = [judged EXCEPT ![eng.current] = "failed"]
    BY <1>1, <1>2 DEF rejection
  <2>2. QED
    BY <1>1, <2>1 DEF States, Verdicts
<1>3. CASE v = acceptance /\ saved' = v.state /\ judged' = [judged EXCEPT ![v.pair] = v.verdict]
  <2>1. /\ saved' = [healthy |-> eng.current,
                     rejected |-> IF saved.rejected = eng.current THEN None ELSE saved.rejected]
        /\ judged' = [judged EXCEPT ![eng.current] = "passed"]
    BY <1>1, <1>3 DEF acceptance
  <2>2. QED
    BY <1>1, <2>1 DEF States, Verdicts
<1>4. QED
  BY <1>2, <1>3 DEF WriteState

LEMMA WrittenRemembered ==
  ASSUME WayBackInv, Watched, NEW v \in {rejection, acceptance}, WriteState(v)
  PROVE  /\ saved' \in States /\ judged' \in Verdicts /\ Remembered'
         /\ \A p \in Pairs : judged[p] # "no" => judged'[p] # "no"
<1>1. saved \in States /\ judged \in Verdicts /\ Remembered
  BY DEF WayBackInv, RolloutTypeOK, Verdicts
<1>2. saved.healthy \in Pairs \cup {None} /\ saved.rejected \in Pairs \cup {None}
  BY <1>1 DEF States
<1>3. CASE UNCHANGED <<saved, judged>>
  BY <1>1, <1>3 DEF Remembered
<1>4. CASE ~UNCHANGED <<saved, judged>>
  <2>1. /\ saved' \in States /\ judged' \in Verdicts /\ eng.current \in Pairs
        /\ \A p \in Pairs \ {eng.current} : judged'[p] = judged[p]
        /\ saved.healthy # eng.current
        /\ \/ /\ judged'[eng.current] = "failed"
              /\ saved'.rejected = eng.current /\ saved'.healthy = saved.healthy
           \/ /\ judged'[eng.current] = "passed"
              /\ saved'.healthy = eng.current
              /\ saved'.rejected = IF saved.rejected = eng.current THEN None ELSE saved.rejected
    BY <1>4, VerdictWritten
  <2>2. \A p \in Pairs : judged[p] # "no" => judged'[p] # "no"
    BY <2>1
  <2>3. Remembered'
    BY <1>1, <1>2, <2>1 DEF Remembered
  <2>4. QED
    BY <2>1, <2>2, <2>3
<1>5. QED
  BY <1>3, <1>4

-----------------------------------------------------------------------------
(* What is remembered, in every run.                                       *)

\* The package's scripts leave the daemon's side alone.
LEMMA PackageMoves ==
  ASSUME WayBackInv, Package
  PROVE  WayBackInv'
<1>1. /\ {current, previous, upgrading} \subseteq Pairs \cup {None} /\ current \in Pairs
  BY DEF WayBackInv, RolloutTypeOK
<1>2. /\ UNCHANGED <<saved, eng, check, dud, judged, troubles>>
      /\ \/ UNCHANGED <<mine, watching>>
         \/ mine' = "down" /\ watching' = FALSE
  BY DEF Package, Preinst, Unpack, Abort, Postinst, TryRestart, Dpkg, daemon
<1>3. /\ {current', previous', upgrading'} \subseteq Pairs \cup {None} /\ current' \in Pairs
      /\ dpkg' \in {"idle", "prepared", "unpacked", "configured"}
  BY <1>1 DEF Package, Preinst, Unpack, Abort, Postinst, TryRestart, Dpkg
<1>4. RolloutTypeOK'
  BY <1>2, <1>3 DEF WayBackInv, RolloutTypeOK
<1>5. KnowsDisk' /\ Remembered' /\ WayBackProven' /\ NoneUnwatched'
  BY <1>2 DEF WayBackInv, KnowsDisk, Remembered, WayBackProven, NoneUnwatched
<1>6. QED
  BY <1>3, <1>4, <1>5 DEF WayBackInv

\* A look's notes have the types of the first ones.
LEMMA SeenTypes ==
  ASSUME check \in Checks, check.looks + 1 <= Probation, NEW o \in Looks
  PROVE  Seen(o) \in Checks
<1>1. /\ check.looks + 1 \in 0..Probation /\ check.synced \in BOOLEAN
      /\ check.allowed \in BOOLEAN /\ check.hashed \in BOOLEAN
  BY Numbers DEF Checks
<1>2. /\ o.synced \in BOOLEAN /\ o.allowed \in BOOLEAN /\ o.hashing \in BOOLEAN
      /\ o.held \in {"no", "island", "advisory"}
  BY DEF Looks
<1>3. /\ (check.synced \/ o.synced) \in BOOLEAN /\ (check.allowed \/ o.allowed) \in BOOLEAN
      /\ (check.hashed \/ o.hashing) \in BOOLEAN
  OBVIOUS
<1>4. QED
  BY <1>1, <1>2, <1>3, Zenon DEF Seen, Checks

\* Who writes a verdict, and which.
LEMMA WhoWrites ==
  ASSUME WayBackInv, Daemon
  PROVE  \/ UNCHANGED <<saved, judged>>
         \/ /\ Watched /\ (StartFails \/ Judge)
            /\ UNCHANGED <<package, eng>>
            /\ \E v \in {rejection, acceptance} : WriteState(v)
<1>1. CASE Boot \/ Started \/ Look \/ Reload \/ Dies
  BY <1>1 DEF Boot, Started, Look, Reload, Dies
<1>2. CASE StartFails
  BY <1>2 DEF StartFails, Watched
<1>3. CASE Judge
  <2>1. Watched
    BY <1>3 DEF Judge, Watched, WayBackInv, KnowsDisk
  <2>2. PICK o \in Looks : WriteState(Verdict(Seen(o)))
    BY <1>3 DEF Judge
  <2>3. Verdict(Seen(o)) \in {rejection, acceptance}
    BY DEF Verdict
  <2>4. QED
    BY <1>3, <2>1, <2>2, <2>3 DEF Judge
<1>4. QED
  BY <1>1, <1>2, <1>3 DEF Daemon

LEMMA DaemonMoves ==
  ASSUME WayBackInv, Daemon
  PROVE  WayBackInv'
<1>1. UNCHANGED <<package, dud>>
  BY DEF Daemon, Boot, Started, StartFails, Look, Judge, Reload, Dies
<1>2. /\ saved' \in States /\ judged' \in Verdicts /\ Remembered'
      /\ \A p \in Pairs : judged[p] # "no" => judged'[p] # "no"
  <2>1. CASE UNCHANGED <<saved, judged>>
    BY <2>1 DEF WayBackInv, RolloutTypeOK, Verdicts, Remembered
  <2>2. CASE ~UNCHANGED <<saved, judged>>
    <3>1. Watched /\ \E v \in {rejection, acceptance} : WriteState(v)
      BY <2>2, WhoWrites
    <3>2. QED
      BY <3>1, WrittenRemembered
  <2>3. QED
    BY <2>1, <2>2
<1>3. eng \in Engines /\ check \in Checks /\ troubles \in 0..MaxTroubles
  BY DEF WayBackInv, RolloutTypeOK, Engines, Checks
<1>4. eng' \in Engines
  BY <1>3, Choices DEF Daemon, Boot, Started, StartFails, Look, Judge, Reload, Dies
<1>5. check' \in Checks
  <2>1. NewCheck \in Checks
    BY Numbers DEF NewCheck, Checks
  <2>2. CASE Started
    BY <2>1, <2>2 DEF Started
  <2>3. CASE Look
    <3>1. PICK o \in Looks : check' = Seen(o)
      BY <2>3 DEF Look
    <3>2. check.looks + 1 <= Probation
      BY <1>3, <2>3, Numbers DEF Look, Checks
    <3>3. QED
      BY <1>3, <3>1, <3>2, SeenTypes
  <2>4. CASE Judge
    <3>1. PICK o \in Looks : check' = Seen(o)
      BY <2>4 DEF Judge
    <3>2. check.looks + 1 <= Probation
      BY <1>3, <2>4, Numbers DEF Judge, Checks
    <3>3. QED
      BY <1>3, <3>1, <3>2, SeenTypes
  <2>5. CASE Boot \/ StartFails \/ Reload \/ Dies
    BY <1>3, <2>5 DEF Boot, StartFails, Reload, Dies
  <2>6. QED
    BY <2>2, <2>3, <2>4, <2>5 DEF Daemon
<1>6. mine' \in {"down", "starting", "up", "failed"} /\ watching' \in BOOLEAN
      /\ troubles' \in 0..MaxTroubles
  <2>1. mine \in {"down", "starting", "up", "failed"} /\ watching \in BOOLEAN
        /\ eng.probation \in BOOLEAN
    BY <1>3 DEF WayBackInv, RolloutTypeOK, Engines
  <2>2. mine' \in {"down", "starting", "up", "failed"}
    BY <2>1 DEF Daemon, Boot, Started, StartFails, Look, Judge, Reload, Dies
  <2>3. watching' \in BOOLEAN
    BY <2>1 DEF Daemon, Boot, Started, StartFails, Look, Judge, Reload, Dies
  <2>4. troubles' \in 0..MaxTroubles
    BY <1>3, Numbers DEF Daemon, Boot, Started, StartFails, Look, Judge, Reload, Dies, Trouble
  <2>5. QED
    BY <2>2, <2>3, <2>4
<1>7. RolloutTypeOK' /\ current' \in Pairs
  BY <1>1, <1>2, <1>4, <1>5, <1>6
     DEF WayBackInv, RolloutTypeOK, Engines, Checks, Verdicts, package
<1>8. KnowsDisk' /\ WayBackProven' /\ NoneUnwatched'
  <2>1. KnowsDisk /\ WayBackProven /\ NoneUnwatched
    BY DEF WayBackInv
  <2>2. CASE Boot
    <3>1. /\ mine' = "starting" /\ eng' = chooseEngines /\ ~watching'
          /\ UNCHANGED <<saved, judged>>
      BY <2>2 DEF Boot
    <3>2. current \in Pairs
      BY DEF WayBackInv
    <3>3. QED
      BY <3>1, <3>2, Choices DEF KnowsDisk, WayBackProven, NoneUnwatched
  <2>3. CASE Started
    <3>1. /\ mine = "starting" /\ mine' = "up" /\ watching' = eng.probation
          /\ UNCHANGED <<saved, judged, eng>>
      BY <2>3 DEF Started
    <3>2. QED
      BY <2>1, <3>1 DEF KnowsDisk, WayBackProven, NoneUnwatched
  <2>4. CASE StartFails
    <3>1. mine = "starting" /\ mine' \notin {"starting", "up"} /\ watching' = watching
      BY <2>4 DEF StartFails
    <3>2. ~watching
      BY <2>1, <3>1 DEF KnowsDisk
    <3>3. QED
      BY <3>1, <3>2 DEF KnowsDisk, WayBackProven, NoneUnwatched
  <2>5. CASE Look \/ Reload \/ Dies
    <3>1. /\ UNCHANGED <<saved, judged, eng>>
          /\ \/ UNCHANGED <<mine, watching>>
             \/ mine' \notin {"starting", "up"} /\ ~watching'
      BY <2>5 DEF Look, Reload, Dies
    <3>2. QED
      BY <2>1, <3>1 DEF KnowsDisk, WayBackProven, NoneUnwatched
  <2>6. CASE Judge
    <3>1. /\ watching /\ ~watching' /\ eng' = eng
          /\ mine' \in {mine, "failed"}
      BY <2>6 DEF Judge
    <3>2. mine = "up" /\ eng.probation /\ eng.use = eng.current
      BY <2>1, <3>1 DEF KnowsDisk
    <3>3. QED
      BY <2>1, <3>1, <3>2 DEF KnowsDisk, WayBackProven, NoneUnwatched
  <2>7. QED
    BY <2>2, <2>3, <2>4, <2>5, <2>6 DEF Daemon
<1>9. QED
  BY <1>2, <1>7, <1>8 DEF WayBackInv

LEMMA InitRemembers == Init => WayBackInv
<1> SUFFICES ASSUME Init PROVE WayBackInv
  OBVIOUS
<1>1. NoState \in States
  BY DEF NoState, States
<1>2. NewCheck \in Checks
  BY Numbers DEF NewCheck, Checks
<1>3. [use |-> None, probation |-> FALSE, canRollBack |-> FALSE,
       current |-> None, state |-> NoState] \in Engines
  BY <1>1 DEF Engines
<1>4. judged \in Verdicts /\ troubles \in 0..MaxTroubles
  BY Numbers DEF Init, Verdicts
<1>5. eng \in Engines /\ check \in Checks /\ saved \in States
  BY <1>1, <1>2, <1>3 DEF Init
<1>6. RolloutTypeOK
  BY <1>4, <1>5, Numbers DEF Init, RolloutTypeOK, Engines, Checks, Verdicts
<1>7. QED
  BY <1>6, Numbers
     DEF Init, WayBackInv, KnowsDisk, Remembered, WayBackProven, NoneUnwatched, NoState

\* What the rollout run checks of every state, for any number of releases and
\* of kills: types; the daemon leaves the packaged pair only for one that
\* passed here; and no pair runs unwatched that was not judged here
\* (rollout.go's Choose and Check, engines.go), also where releases go back to
\* earlier pairs.
THEOREM RolloutStaysSafe == Spec => []RolloutSafe
<1>1. Init => WayBackInv
  BY InitRemembers
<1>2. WayBackInv /\ [Next]_vars => WayBackInv'
  <2>1. WayBackInv /\ UNCHANGED vars => WayBackInv'
    BY DEF vars, package, daemon, WayBackInv, RolloutTypeOK, KnowsDisk, Remembered,
           WayBackProven, NoneUnwatched
  <2>2. QED
    BY <2>1, PackageMoves, DaemonMoves DEF Next
<1>3. WayBackInv => RolloutSafe
  BY DEF WayBackInv, RolloutSafe
<1>4. QED
  BY <1>1, <1>2, <1>3, PTL DEF Spec

-----------------------------------------------------------------------------
(* The last word, where later releases ship later pairs.                    *)

LEMMA PairNumbers ==
  ASSUME RolloutTypeOK
  PROVE  /\ Pairs \subseteq Nat \ {0}
         /\ {current, previous, upgrading, Prior, eng.current, saved.healthy, saved.rejected}
              \subseteq Nat
         /\ previous \in Pairs \cup {None} /\ saved.healthy \in Pairs \cup {None}
         /\ saved.rejected \in Pairs \cup {None}
<1>1. Pairs \subseteq Nat \ {0} /\ Pairs \cup {None} \subseteq Nat
  BY Numbers DEF Pairs
<1>2. /\ {current, previous, upgrading} \subseteq Pairs \cup {None}
      /\ saved \in States /\ eng.current \in Pairs \cup {None}
  BY DEF RolloutTypeOK
<1>3. saved.healthy \in Pairs \cup {None} /\ saved.rejected \in Pairs \cup {None}
  BY <1>2 DEF States
<1>4. QED
  BY <1>1, <1>2, <1>3 DEF Prior

LEMMA PackageInOrder ==
  ASSUME ~Reverts, ProvenInv, Package
  PROVE  InOrder' /\ LastWord'
<1>1. /\ UNCHANGED <<saved, eng, judged>>
  BY DEF Package, Preinst, Unpack, Abort, Postinst, TryRestart, Dpkg, daemon
<1>2. LastWord'
  BY <1>1 DEF ProvenInv, LastWord
<1>3. /\ RolloutTypeOK /\ current \in Pairs /\ InOrder
  BY DEF ProvenInv, WayBackInv
<1>4. /\ Pairs \subseteq Nat \ {0}
      /\ {current, previous, upgrading, Prior, eng.current} \subseteq Nat
  BY <1>3, PairNumbers
<1>5. current # 0 /\ None = 0 /\ previous < current /\ upgrading <= current
  BY <1>3, <1>4, Numbers DEF InOrder
<1> DEFINE OnDisk == /\ previous' < current' /\ upgrading' <= current'
                     /\ dpkg' = "prepared" => upgrading' = current'
                     /\ dpkg' = "unpacked" => upgrading' # None
                     /\ Prior <= Prior' \/ Prior = current'
                     /\ \A p \in Nat : p <= Prior \/ p = current => p <= Prior' \/ p = current'
<1>6. OnDisk
  <2>1. CASE Preinst
    <3>1. /\ dpkg = "idle" /\ dpkg' = "prepared" /\ upgrading' = current
          /\ current' = current /\ previous' = previous
      BY <2>1 DEF Preinst, Dpkg
    <3>2. Prior' = Prior
      BY <3>1 DEF Prior
    <3>3. QED
      BY <1>4, <1>5, <3>1, <3>2
  <2>2. CASE Unpack
    <3>1. /\ dpkg = "prepared" /\ dpkg' = "unpacked" /\ upgrading' = upgrading
          /\ current' \in Pairs /\ current' >= current /\ previous' = previous
      BY <2>2 DEF Unpack, Dpkg
    <3>2. upgrading = current /\ Prior = previous
      BY <1>3, <3>1 DEF InOrder, Prior
    <3>3. Prior' = IF current = current' THEN previous ELSE current
      BY <3>1, <3>2 DEF Prior
    <3>4. current' \in Nat
      BY <1>4, <3>1
    <3>5. QED
      BY <1>4, <1>5, <3>1, <3>2, <3>3, <3>4
  <2>3. CASE Abort
    <3>1. /\ dpkg = "prepared" /\ dpkg' = "idle" /\ upgrading' = upgrading
          /\ current' = current /\ previous' = previous
      BY <2>3 DEF Abort, Dpkg
    <3>2. Prior' = Prior
      BY <3>1 DEF Prior
    <3>3. QED
      BY <1>4, <1>5, <3>1, <3>2
  <2>4. CASE Postinst
    <3>1. /\ dpkg = "unpacked" /\ dpkg' = "configured" /\ upgrading' = None
          /\ current' = current /\ previous' = IF upgrading = current THEN previous ELSE upgrading
      BY <2>4 DEF Postinst, Dpkg
    <3>2. Prior' = Prior
      BY <3>1 DEF Prior
    <3>3. QED
      BY <1>4, <1>5, <3>1, <3>2
  <2>5. CASE TryRestart
    <3>1. /\ dpkg = "configured" /\ dpkg' = "idle" /\ upgrading' = upgrading
          /\ current' = current /\ previous' = previous
      BY <2>5 DEF TryRestart, Dpkg
    <3>2. Prior' = Prior
      BY <3>1 DEF Prior
    <3>3. QED
      BY <1>4, <1>5, <3>1, <3>2
  <2>6. QED
    BY <2>1, <2>2, <2>3, <2>4, <2>5 DEF Package
<1>7. eng.current <= Prior' \/ eng.current = current'
  BY <1>3, <1>4, <1>6 DEF InOrder
<1>8. \A p \in Pairs : judged[p] # "no" => p <= eng.current /\ (p <= Prior' \/ p = current')
  BY <1>3, <1>4, <1>6 DEF InOrder
<1>9. QED
  BY <1>1, <1>2, <1>6, <1>7, <1>8 DEF InOrder

\* A verdict is on a pair no earlier than any judged before it.
LEMMA WrittenInOrder ==
  ASSUME ProvenInv, Watched, UNCHANGED <<package, eng>>,
         NEW v \in {rejection, acceptance}, WriteState(v)
  PROVE  InOrder' /\ LastWord'
<1>1. WayBackInv /\ RolloutTypeOK /\ InOrder /\ LastWord
  BY DEF ProvenInv, WayBackInv
<1>2. CASE UNCHANGED <<saved, judged>>
  BY <1>1, <1>2 DEF InOrder, LastWord, Prior, package
<1>3. CASE ~UNCHANGED <<saved, judged>>
  <2>1. /\ eng.current \in Pairs
        /\ \A p \in Pairs \ {eng.current} : judged'[p] = judged[p]
        /\ \/ /\ judged'[eng.current] = "failed"
              /\ saved'.rejected = eng.current /\ saved'.healthy = saved.healthy
           \/ /\ judged'[eng.current] = "passed"
              /\ saved'.healthy = eng.current
    BY <1>1, <1>3, VerdictWritten
  <2>2. /\ Pairs \subseteq Nat \ {0}
        /\ {current, previous, upgrading, Prior, eng.current, saved.healthy, saved.rejected}
             \subseteq Nat
    BY <1>1, PairNumbers
  <2>3. Prior' = Prior /\ eng' = eng
        /\ UNCHANGED <<current, previous, upgrading, dpkg>>
    BY DEF Prior, package
  <2>4. InOrder'
    BY <1>1, <2>1, <2>2, <2>3 DEF InOrder
  <2>5. \A p \in Pairs \ {eng.current} : judged[p] # "no" => p < eng.current
    BY <1>1, <2>1, <2>2 DEF InOrder
  <2>6. LastWord'
    <3>1. CASE judged'[eng.current] = "failed"
      <4>1. saved'.rejected = eng.current /\ saved'.healthy = saved.healthy
        BY <2>1, <3>1
      <4>2. ASSUME NEW p \in Pairs, judged'[p] = "passed" PROVE p <= saved'.healthy
        BY <1>1, <2>1, <3>1, <4>1, <4>2 DEF LastWord
      <4>3. ASSUME NEW p \in Pairs, judged'[p] = "failed" PROVE p <= saved'.rejected
        BY <2>1, <2>2, <2>5, <4>1, <4>3
      <4>4. QED
        BY <4>2, <4>3 DEF LastWord
    <3>2. CASE judged'[eng.current] = "passed"
      <4>1. saved'.healthy = eng.current
        BY <2>1, <3>2
      <4>2. ASSUME NEW p \in Pairs, judged'[p] # "no" PROVE p <= saved'.healthy
        BY <2>1, <2>2, <2>5, <4>1, <4>2
      <4>3. ASSUME NEW p \in Pairs, judged'[p] = "failed" PROVE p < saved'.healthy
        BY <2>1, <2>2, <2>5, <3>2, <4>1, <4>3
      <4>4. QED
        BY <4>2, <4>3 DEF LastWord
    <3>3. QED
      BY <2>1, <3>1, <3>2
  <2>7. QED
    BY <2>4, <2>6
<1>4. QED
  BY <1>2, <1>3

LEMMA DaemonInOrder ==
  ASSUME ProvenInv, Daemon
  PROVE  InOrder' /\ LastWord'
<1>1. WayBackInv /\ RolloutTypeOK /\ InOrder /\ LastWord
  BY DEF ProvenInv, WayBackInv
<1>2. CASE UNCHANGED <<saved, judged>>
  <2>1. UNCHANGED package
    BY DEF Daemon, Boot, Started, StartFails, Look, Judge, Reload, Dies
  <2>2. LastWord'
    BY <1>1, <1>2 DEF LastWord
  <2>3. CASE eng' = eng
    BY <1>1, <1>2, <2>1, <2>2, <2>3 DEF InOrder, Prior, package
  <2>4. CASE Boot
    <3>1. eng'.current = current
      BY <1>1, <2>4, Choices DEF Boot
    <3>2. /\ Pairs \subseteq Nat \ {0}
          /\ {current, previous, upgrading, Prior, eng.current} \subseteq Nat
      BY <1>1, PairNumbers
    <3>3. Prior <= current
      BY <1>1, <3>2 DEF InOrder, Prior
    <3>4. \A p \in Pairs : judged[p] # "no" => p <= current
      BY <1>1, <3>2, <3>3 DEF InOrder
    <3>5. QED
      BY <1>1, <1>2, <2>1, <2>2, <3>1, <3>2, <3>4 DEF InOrder, Prior, package
  <2>5. QED
    BY <2>3, <2>4 DEF Daemon, Started, StartFails, Look, Judge, Reload, Dies
<1>3. CASE ~UNCHANGED <<saved, judged>>
  BY <1>1, <1>3, WhoWrites, WrittenInOrder
<1>4. QED
  BY <1>2, <1>3

LEMMA InitInOrder == Init => InOrder /\ LastWord
<1> SUFFICES ASSUME Init PROVE InOrder /\ LastWord
  OBVIOUS
<1>1. \A p \in Pairs : judged[p] = "no"
  BY DEF Init
<1>2. /\ current = 1 /\ previous = 0 /\ upgrading = 0 /\ dpkg = "idle" /\ eng.current = 0
  BY Numbers DEF Init
<1>3. Prior = 0
  BY <1>2 DEF Prior
<1>4. QED
  BY <1>1, <1>2, <1>3 DEF InOrder, LastWord

\* Where later releases ship later pairs, the verdicts on disk are the last ones
\* there were: a pair that passed is no later than the one named healthy, one
\* that failed is named rejected or is before it (rollout.go's WriteState).
THEOREM ProvenInvariant ==
  ASSUME ~Reverts
  PROVE  Spec => []ProvenInv
<1>1. Init => ProvenInv
  BY InitRemembers, InitInOrder DEF ProvenInv
<1>2. ProvenInv /\ [Next]_vars => ProvenInv'
  <2>1. ASSUME ProvenInv, UNCHANGED vars PROVE ProvenInv'
    <3>1. WayBackInv'
      BY <2>1 DEF vars, package, daemon, ProvenInv, WayBackInv, RolloutTypeOK, KnowsDisk,
                  Remembered, WayBackProven, NoneUnwatched
    <3>2. InOrder' /\ LastWord'
      BY <2>1 DEF vars, package, daemon, ProvenInv, InOrder, LastWord, Prior
    <3>3. QED
      BY <3>1, <3>2 DEF ProvenInv
  <2>2. ASSUME ProvenInv, Package PROVE ProvenInv'
    BY <2>2, PackageMoves, PackageInOrder DEF ProvenInv
  <2>3. ASSUME ProvenInv, Daemon PROVE ProvenInv'
    BY <2>3, DaemonMoves, DaemonInOrder DEF ProvenInv
  <2>4. QED
    BY <2>1, <2>2, <2>3 DEF Next
<1>3. QED
  BY <1>1, <1>2, PTL DEF Spec

\* A boot onto a pair that failed has no better one beside it.
LEMMA BootsProven ==
  ASSUME ProvenInv, Boot, dpkg = "idle", judged[eng'.use] = "failed",
         previous \notin {None, current}
  PROVE  judged[previous] # "passed"
<1> SUFFICES ASSUME judged[previous] = "passed" PROVE FALSE
  OBVIOUS
<1>1. /\ WayBackInv /\ RolloutTypeOK /\ InOrder /\ LastWord /\ Remembered /\ current \in Pairs
  BY DEF ProvenInv, WayBackInv
<1>2. /\ Pairs \subseteq Nat \ {0}
      /\ {current, previous, eng.current, saved.healthy, saved.rejected} \subseteq Nat
      /\ previous \in Pairs \cup {None} /\ saved.healthy \in Pairs \cup {None}
      /\ saved.rejected \in Pairs \cup {None}
  BY <1>1, PairNumbers
<1>3. previous \in Pairs /\ Prior = previous
  BY <1>2 DEF Prior
<1>4. eng'.use = IF saved.rejected = current /\ CanRollBackTo(current, previous, saved)
                 THEN previous ELSE current
  BY <1>1, Choices DEF Boot
<1>5. eng'.use = current /\ judged[current] = "failed"
  BY <1>4
\* The last pair that passed is the one before, and the one in use failed last.
<1>6. previous <= saved.healthy /\ saved.healthy \in Pairs
  BY <1>1, <1>2, <1>3, Numbers DEF LastWord
<1>7. judged[saved.healthy] = "passed"
  BY <1>1, <1>6, Numbers DEF Remembered
<1>8. saved.healthy <= previous
  BY <1>1, <1>3, <1>5, <1>6, <1>7 DEF InOrder
<1>9. saved.healthy = previous
  BY <1>2, <1>6, <1>8
<1>10. previous < current
  BY <1>1 DEF InOrder
<1>11. current <= saved.rejected
  BY <1>1, <1>2, <1>5, <1>9, <1>10 DEF LastWord
<1>12. saved.rejected \in Pairs /\ judged[saved.rejected] # "no"
  BY <1>1, <1>2, <1>11, Numbers DEF Remembered
<1>13. saved.rejected <= current
  BY <1>1, <1>2, <1>3, <1>10, <1>12 DEF InOrder
<1>14. saved.rejected = current
  BY <1>2, <1>11, <1>13
<1>15. CanRollBackTo(current, previous, saved)
  BY <1>9 DEF CanRollBackTo
<1>16. QED
  BY <1>4, <1>5, <1>14, <1>15

\* A pair whose failure was recorded is not started again while one that passed
\* here is on disk beside it (Choose's rollback), whatever kills, reloads and
\* failed writes came before: where later releases ship later pairs.
THEOREM ProvenPairGoesFirst ==
  ASSUME ~Reverts
  PROVE  Spec => ProvenFirst
<1>1. ProvenInv /\ [Next]_vars
        => [Booting /\ dpkg = "idle" /\ judged[eng'.use] = "failed"
              => previous \in {None, current} \/ judged[previous] # "passed"]_vars
  <2> SUFFICES ASSUME ProvenInv, [Next]_vars, Booting, dpkg = "idle",
                      judged[eng'.use] = "failed"
               PROVE  previous \in {None, current} \/ judged[previous] # "passed"
    OBVIOUS
  <2>1. Boot
    BY DEF Booting, Next, Package, Preinst, Unpack, Abort, Postinst, TryRestart, Daemon, Started,
           StartFails, Look, Judge, Reload, Dies, vars, daemon
  <2>2. QED
    BY <2>1, BootsProven
<1>2. QED
  BY <1>1, ProvenInvariant, PTL DEF Spec, ProvenFirst

-----------------------------------------------------------------------------
(* From the start to mining, and the advisory.                             *)

\* What the process has behind it at each step.
Stages ==
  /\ pc \in {"fetch", "write", "written", "stamp"} => Bare
  /\ pc \in {"written", "stamp"} => file = release
  /\ pc \in {"tor fetch", "tor write", "select"} => setup.mode = "remote"
  /\ known # 0 => ~(setup.own /\ setup.ships # "chosen")
  /\ watch = "off" <=> pc # "mining"

\* The watch judges nothing before it has loaded, and saves no manifest older
\* than the one in force.
WatchStages ==
  /\ watch \in {"off", "load"} => mem = 0 /\ ~stop
  /\ watch \in {"save", "saved", "take"} => got >= mem

StartInv == StartupInv /\ Stages /\ WatchStages

USE StartupAssumption DEF StartupAssumption

\* The types by the part of the state a step leaves alone.
DiskTypes == /\ file \in Files /\ stamp \in 0..MaxRelease /\ torFile \in Files
             /\ data \in 0..MaxSerial /\ sig \in 0..MaxSerial
WorldTypes == served \in 0..MaxSerial /\ expired \subseteq Serials /\ torUp \in BOOLEAN
EngineTypes == running \in Files /\ known \in 0..MaxRelease
ChoiceTypes == /\ defaults \in 0..MaxSerial
               /\ attempt \in 0..Attempts /\ node \in Nodes \cup {NoNode}
               /\ login \in BOOLEAN
AdvisoryTypes ==
  /\ watch \in {"off", "load", "wait", "signature", "save", "saved", "take"}
  /\ due \in BOOLEAN
  /\ got \in 0..MaxSerial /\ mem \in 0..MaxSerial /\ stop \in BOOLEAN
Steps == {"off", "engines", "fetch", "write", "written", "stamp", "tor",
          "tor fetch", "tor write", "select", "mining"}

LEMMA TypesByPart ==
  StartupTypeOK <=> /\ setup \in Setups /\ release \in Releases
                    /\ DiskTypes /\ WorldTypes /\ EngineTypes /\ ChoiceTypes /\ AdvisoryTypes
                    /\ pc \in Steps
BY DEF StartupTypeOK, DiskTypes, WorldTypes, EngineTypes, ChoiceTypes, AdvisoryTypes, Steps

LEMMA TypesByPartNext ==
  ASSUME setup' \in Setups, release' \in Releases, pc' \in Steps,
         DiskTypes', WorldTypes', EngineTypes', ChoiceTypes', AdvisoryTypes'
  PROVE  StartupTypeOK'
BY DEF StartupTypeOK, DiskTypes, WorldTypes, EngineTypes, ChoiceTypes, AdvisoryTypes, Steps

LEMMA PartsKept ==
  /\ DiskTypes /\ UNCHANGED disk => DiskTypes'
  /\ WorldTypes /\ UNCHANGED world => WorldTypes'
  /\ EngineTypes /\ UNCHANGED engine => EngineTypes'
  /\ ChoiceTypes /\ UNCHANGED choice => ChoiceTypes'
  /\ AdvisoryTypes /\ UNCHANGED advisory => AdvisoryTypes'
BY DEF DiskTypes, WorldTypes, EngineTypes, ChoiceTypes, AdvisoryTypes, disk, world, engine,
       choice, advisory

LEMMA StartNumbers ==
  /\ Releases \subseteq Files /\ 0 \in Files /\ Torn \in Files
  /\ Releases \subseteq 0..MaxRelease /\ 0 \in 0..MaxRelease /\ 0 \in 0..MaxSerial
  /\ 0 \in 0..Attempts /\ 1 \in 0..Attempts
BY DEF Releases, Files, Torn

-----------------------------------------------------------------------------
(* The engines.                                                            *)

\* A step towards mining, before any watch: what it must say of the engine.
LEMMA BeforeMining ==
  ASSUME StartInv, pc # "mining", pc' # "mining", UNCHANGED <<setup, release>>,
         UNCHANGED <<choice, advisory>>,
         pc' \in {"fetch", "write", "written", "stamp"} => Bare,
         pc' \in {"written", "stamp"} => file' = release,
         pc' \in {"tor fetch", "tor write", "select"} => setup.mode = "remote",
         known' # 0 => running' = known' /\ ~(setup.own /\ setup.ships # "chosen")
  PROVE  /\ Stages' /\ WatchStages'
         /\ RunsWhatItSays' /\ LoginStaysHome' /\ StopsOnlyOldEngines'
<1>1. watch' = "off" /\ mem' = 0 /\ ~stop'
  BY DEF StartInv, Stages, WatchStages, advisory
<1>2. Stages'
  BY <1>1 DEF Stages, Bare
<1>3. WatchStages'
  BY <1>1 DEF WatchStages
<1>4. RunsWhatItSays' /\ StopsOnlyOldEngines'
  BY <1>1 DEF RunsWhatItSays, StopsOnlyOldEngines
<1>5. LoginStaysHome'
  BY DEF StartInv, StartupInv, LoginStaysHome, choice
<1>6. QED
  BY <1>2, <1>3, <1>4, <1>5

LEMMA EngineKeeps ==
  ASSUME StartInv, EngineStep
  PROVE  StartInv'
<1>1. /\ setup \in Setups /\ release \in Releases
      /\ DiskTypes /\ WorldTypes /\ EngineTypes /\ ChoiceTypes /\ AdvisoryTypes
  BY TypesByPart DEF StartInv, StartupInv
<1>2. UNCHANGED <<setup, release>> /\ UNCHANGED <<world, choice, advisory>>
  BY DEF EngineStep, Launch, resolveEngines, MustFetch, Fetched, Written, StampBegins,
         Stamped, Program
<1>3. pc # "mining" /\ pc' # "mining" /\ pc' \in Steps
  BY DEF EngineStep, Launch, resolveEngines, MustFetch, Fetched, Written, StampBegins,
         Stamped, Goes, Steps
<1>4. /\ DiskTypes' /\ EngineTypes'
      /\ pc' \in {"fetch", "write", "written", "stamp"} => Bare
      /\ pc' \in {"written", "stamp"} => file' = release
      /\ pc' \notin {"tor fetch", "tor write", "select"}
      /\ known' # 0 => running' = known' /\ ~(setup.own /\ setup.ships # "chosen")
  <2>1. RunsWhatItSays /\ Stages
    BY DEF StartInv, StartupInv
  <2>2. CASE Launch \/ MustFetch
    BY <1>1, <2>1, <2>2, PartsKept
       DEF Launch, MustFetch, Goes, Stages, RunsWhatItSays, disk, engine
  <2>3. CASE resolveEngines
    <3>1. pc' = "tor" /\ UNCHANGED disk
      BY <2>3 DEF resolveEngines, Goes
    <3>2. CASE Chosen
      <4>1. PICK v \in {release, release - 1} \ {0} : running' = v /\ known' = v
        BY <3>2 DEF Chosen
      <4>2. v \in Releases
        BY <1>1, <4>1 DEF Releases
      <4>3. setup.ships = "chosen"
        BY <3>2 DEF Chosen
      <4>4. EngineTypes'
        BY <4>1, <4>2, StartNumbers DEF EngineTypes
      <4>5. QED
        BY <1>1, <3>1, <4>1, <4>3, <4>4, PartsKept
    <3>3. CASE OwnBuild
      BY <1>1, <3>1, <3>3, PartsKept, StartNumbers DEF OwnBuild, EngineTypes
    <3>4. CASE Packaged
      BY <1>1, <3>1, <3>4, PartsKept, StartNumbers DEF Packaged, EngineTypes
    <3>5. CASE UseInstalled
      BY <1>1, <3>1, <3>5, PartsKept, StartNumbers DEF UseInstalled, Bare, Installed, EngineTypes
    <3>6. QED
      BY <2>3, <3>2, <3>3, <3>4, <3>5 DEF resolveEngines
  <2>4. CASE Fetched
    BY <1>1, <2>1, <2>4, PartsKept, StartNumbers
       DEF Fetched, Goes, Stages, RunsWhatItSays, engine, DiskTypes
  <2>5. CASE Written
    BY <1>1, <2>1, <2>5, PartsKept, StartNumbers
       DEF Written, Goes, Stages, RunsWhatItSays, engine, DiskTypes
  <2>6. CASE StampBegins
    BY <1>1, <2>1, <2>6, PartsKept, StartNumbers
       DEF StampBegins, Goes, Stages, RunsWhatItSays, engine, DiskTypes
  <2>7. CASE Stamped
    BY <1>1, <2>1, <2>7, StartNumbers
       DEF Stamped, Goes, Stages, Bare, DiskTypes, EngineTypes
  <2>8. QED
    BY <2>2, <2>3, <2>4, <2>5, <2>6, <2>7 DEF EngineStep
<1>5. StartupTypeOK'
  BY <1>1, <1>2, <1>3, <1>4, PartsKept, TypesByPartNext
<1>6. QED
  BY <1>2, <1>3, <1>4, <1>5, BeforeMining DEF StartInv, StartupInv

-----------------------------------------------------------------------------
(* The node.                                                               *)

\* The steps that only prepare: they move towards a node, with the engine and
\* the engine's files as they were.
Prepares == TorThere \/ TorLaunch \/ TorFetch \/ TorFetched \/ TorExtracted \/ TorFails

LEMMA PreparesKeeps ==
  ASSUME StartInv, Prepares
  PROVE  StartInv'
<1>1. /\ setup \in Setups /\ release \in Releases
      /\ DiskTypes /\ WorldTypes /\ EngineTypes /\ ChoiceTypes /\ AdvisoryTypes
  BY TypesByPart DEF StartInv, StartupInv
<1>2. UNCHANGED <<setup, release>> /\ UNCHANGED <<engine, choice, advisory>>
  BY DEF Prepares, TorThere, TorLaunch, TorFetch, TorFetched, TorExtracted, TorFails, Program
<1>3. /\ pc \in {"tor", "tor fetch", "tor write"}
      /\ pc' \in {"tor", "tor fetch", "tor write", "select"}
  BY DEF Prepares, TorThere, TorLaunch, TorFetch, TorFetched, TorExtracted, TorFails, Goes
<1>4. setup.mode = "remote" \/ pc' = "tor"
  BY DEF StartInv, Stages, Prepares, TorThere, TorLaunch, TorFetch, TorFetched,
         TorExtracted, TorFails, Goes, torNeeded
<1>5. DiskTypes'
  <2>1. CASE TorThere \/ TorLaunch \/ TorFetch \/ TorFails
    BY <1>1, <2>1, PartsKept DEF TorThere, TorLaunch, TorFetch, TorFails
  <2>2. CASE TorFetched \/ TorExtracted
    BY <1>1, <2>2, StartNumbers DEF TorFetched, TorExtracted, DiskTypes
  <2>3. QED
    BY <2>1, <2>2 DEF Prepares
<1>6. WorldTypes'
  BY <1>1, PartsKept DEF Prepares, TorThere, TorLaunch, TorFetch, TorFetched, TorExtracted,
                         TorFails, WorldTypes, world
<1>7. StartupTypeOK'
  BY <1>1, <1>2, <1>3, <1>5, <1>6, PartsKept, TypesByPartNext DEF Steps
<1>8. known' # 0 => running' = known' /\ ~(setup.own /\ setup.ships # "chosen")
  BY <1>2 DEF StartInv, StartupInv, RunsWhatItSays, Stages, engine
<1>9. QED
  BY <1>2, <1>3, <1>4, <1>7, <1>8, BeforeMining DEF StartInv, StartupInv

LEMMA KeptSerial == ASSUME DiskTypes PROVE Kept \in 0..MaxSerial
BY DEF DiskTypes, Kept

\* The attempts of resolveNode.
LEMMA AttemptsKeep ==
  ASSUME StartInv, ApplyNodes \/ SelectAgain
  PROVE  StartInv'
<1>1. /\ setup \in Setups /\ release \in Releases
      /\ DiskTypes /\ WorldTypes /\ EngineTypes /\ ChoiceTypes /\ AdvisoryTypes
  BY TypesByPart DEF StartInv, StartupInv
<1>2. /\ UNCHANGED <<setup, release>> /\ UNCHANGED <<disk, world, engine, advisory>>
      /\ pc' = pc /\ pc = "select" /\ login' = login /\ node' = node
  BY DEF ApplyNodes, SelectAgain, Program
<1>3. ChoiceTypes'
  <2>1. CASE ApplyNodes
    BY <1>1, <1>2, <2>1, KeptSerial, StartNumbers DEF ApplyNodes, ChoiceTypes
  <2>2. CASE SelectAgain
    BY <1>1, <1>2, <2>2 DEF SelectAgain, ChoiceTypes
  <2>3. QED
    BY <2>1, <2>2
<1>4. StartupTypeOK'
  BY <1>1, <1>2, <1>3, PartsKept, TypesByPartNext DEF Steps
<1>5. Stages' /\ WatchStages'
  BY <1>2 DEF StartInv, Stages, WatchStages, Bare, disk, engine, advisory
<1>6. RunsWhatItSays' /\ LoginStaysHome' /\ StopsOnlyOldEngines'
  BY <1>2 DEF StartInv, StartupInv, RunsWhatItSays, LoginStaysHome, StopsOnlyOldEngines,
              engine, advisory
<1>7. QED
  BY <1>4, <1>5, <1>6 DEF StartInv, StartupInv

\* A node is followed: this machine's own, or a remote one without the login.
LEMMA FollowKeeps ==
  ASSUME StartInv, StayHome \/ Selected
  PROVE  StartInv'
<1>1. /\ setup \in Setups /\ release \in Releases
      /\ DiskTypes /\ WorldTypes /\ EngineTypes /\ ChoiceTypes /\ AdvisoryTypes
  BY TypesByPart DEF StartInv, StartupInv
<1>2. /\ UNCHANGED <<setup, release>> /\ UNCHANGED <<disk, world, engine>>
      /\ UNCHANGED <<defaults, due, got, mem, stop>>
      /\ pc \in {"tor", "select"} /\ pc' = "mining"
  BY DEF StayHome, Selected, Program, Goes
<1>3. PICK n \in Nodes : Follow(n) /\ (n = Local \/ setup.mode = "remote")
  <2>1. CASE StayHome
    BY <2>1 DEF StayHome
  <2>2. CASE Selected
    <3>1. PICK up \in SUBSET Nodes : \E n \in Winners(up) : Follow(n)
      BY <2>2 DEF Selected
    <3>2. Winners(up) \subseteq Nodes
      BY <3>1 DEF Winners
    <3>3. setup.mode = "remote"
      BY <2>2 DEF Selected, Goes, StartInv, Stages
    <3>4. QED
      BY <3>1, <3>2, <3>3
  <2>3. QED
    BY <2>1, <2>2
<1>4. attempt' = attempt \/ attempt' = 0
  BY DEF StayHome, Selected
<1>5. /\ node' = n /\ login' = nodoProfileApplies /\ watch' = "load"
      /\ login' \in BOOLEAN
      /\ login' => setup.nodo /\ setup.mode = "local"
  <2>1. setup.nodo \in BOOLEAN
    BY <1>1 DEF SetupType
  <2>2. QED
    BY <1>3, <2>1 DEF Follow, nodoProfileApplies
<1>6. StartupTypeOK'
  <2>1. ChoiceTypes'
    BY <1>1, <1>2, <1>4, <1>5, StartNumbers DEF ChoiceTypes
  <2>2. AdvisoryTypes'
    BY <1>1, <1>2, <1>5 DEF AdvisoryTypes
  <2>3. QED
    BY <1>1, <1>2, <2>1, <2>2, PartsKept, TypesByPartNext DEF Steps
<1>7. mem' = 0 /\ ~stop'
  BY <1>2 DEF StartInv, Stages, WatchStages
<1>8. Stages' /\ WatchStages'
  BY <1>2, <1>5, <1>7 DEF StartInv, Stages, WatchStages, Bare, disk, engine
<1>9. RunsWhatItSays' /\ StopsOnlyOldEngines'
  BY <1>2, <1>7 DEF StartInv, StartupInv, RunsWhatItSays, StopsOnlyOldEngines, engine
<1>10. LoginStaysHome'
  BY <1>2, <1>3, <1>5 DEF LoginStaysHome
<1>11. QED
  BY <1>6, <1>8, <1>9, <1>10 DEF StartInv, StartupInv

\* The process is over: nothing it knew is left.
LEMMA EndKeeps ==
  ASSUME StartInv, Ends \/ GivesUp
  PROVE  StartInv'
<1>1. /\ setup \in Setups /\ release \in Releases
      /\ DiskTypes /\ WorldTypes /\ EngineTypes /\ ChoiceTypes /\ AdvisoryTypes
  BY TypesByPart DEF StartInv, StartupInv
<1>2. UNCHANGED <<setup, release>> /\ UNCHANGED <<disk, world>> /\ pc' = "off" /\ Fresh
  BY DEF Ends, GivesUp, Program, Goes
<1>3. EngineTypes' /\ ChoiceTypes' /\ AdvisoryTypes'
  BY <1>2, StartNumbers DEF Fresh, EngineTypes, ChoiceTypes, AdvisoryTypes
<1>4. StartupTypeOK'
  BY <1>1, <1>2, <1>3, PartsKept, TypesByPartNext DEF Steps
<1>5. Stages' /\ WatchStages'
  BY <1>2 DEF Fresh, Stages, WatchStages
<1>6. RunsWhatItSays' /\ LoginStaysHome' /\ StopsOnlyOldEngines'
  BY <1>2 DEF Fresh, RunsWhatItSays, LoginStaysHome, StopsOnlyOldEngines
<1>7. QED
  BY <1>4, <1>5, <1>6 DEF StartInv, StartupInv

-----------------------------------------------------------------------------
(* The advisory.                                                           *)

\* Evaluate holds an engine of known version, which is the one that runs.
LEMMA EvaluateIsFair ==
  ASSUME StartInv, NEW m \in 0..MaxSerial, Evaluates(m)
  PROVE  /\ stop' \in BOOLEAN
         /\ stop' => /\ ~(setup.own /\ setup.ships # "chosen")
                     /\ m # 0 /\ (running < Requires[m] \/ running < Fork[m])
<1>1. PICK passed \in BOOLEAN : stop' = Evaluate(m, passed)
  BY DEF Evaluates
<1>2. Evaluate(m, passed) \in BOOLEAN
  BY DEF Evaluate
<1>3. ASSUME Evaluate(m, passed)
      PROVE  /\ ~(setup.own /\ setup.ships # "chosen")
             /\ m # 0 /\ (running < Requires[m] \/ running < Fork[m])
  <2>1. known # 0 /\ known = running
    BY <1>3 DEF Evaluate, StartInv, StartupInv, RunsWhatItSays
  <2>2. QED
    BY <1>3, <2>1 DEF Evaluate, StartInv, Stages
<1>4. QED
  BY <1>1, <1>2, <1>3

Advises == \/ LoadKept \/ applyAdvisory \/ Due \/ Fetch \/ Verified \/ Refused
           \/ FetchFails \/ SaveData \/ SaveSignature \/ SaveFails \/ Take

\* What is in hand, in force and judged after a step of the watch.
LEMMA WatchMoves ==
  ASSUME StartInv, Advises
  PROVE  /\ UNCHANGED <<setup, release, file, stamp, torFile, pc>>
         /\ UNCHANGED <<world, engine, choice>>
         /\ DiskTypes' /\ AdvisoryTypes' /\ WatchStages'
         /\ watch # "off" /\ watch' # "off"
         /\ mem' >= mem
         /\ stop' => /\ ~(setup.own /\ setup.ships # "chosen")
                     /\ mem' # 0 /\ (running < Requires[mem'] \/ running < Fork[mem'])
<1>1. DiskTypes /\ WorldTypes /\ AdvisoryTypes
  BY TypesByPart DEF StartInv, StartupInv
<1>2. WatchStages /\ StopsOnlyOldEngines
  BY DEF StartInv, StartupInv
<1> USE DEF Watches, Program
<1>3. CASE LoadKept
  <2>1. mem' \in 0..MaxSerial /\ mem = 0 /\ ~stop /\ stop' = stop /\ got' = got
        /\ watch = "load" /\ watch' = "wait" /\ due' = FALSE
    BY <1>1, <1>2, <1>3, KeptSerial DEF LoadKept, WatchStages
  <2>2. DiskTypes' /\ AdvisoryTypes'
    BY <1>1, <1>3, <2>1, PartsKept DEF LoadKept, AdvisoryTypes
  <2>3. UNCHANGED <<setup, release, disk, pc>> /\ UNCHANGED <<world, engine, choice>>
    BY <1>3 DEF LoadKept
  <2>4. QED
    BY <1>1, <2>1, <2>2, <2>3 DEF WatchStages, disk
<1>4. CASE applyAdvisory
  BY <1>1, <1>2, <1>4, EvaluateIsFair, PartsKept
     DEF applyAdvisory, AdvisoryTypes, WatchStages, disk
<1>5. CASE Refused \/ FetchFails
  <2>1. /\ Evaluates(mem) /\ due' = FALSE /\ got' = 0
        /\ UNCHANGED <<setup, release, pc, mem>> /\ UNCHANGED <<disk, world, engine, choice>>
        /\ watch \in {"signature", "wait"} /\ watch' = "wait"
    BY <1>5 DEF Refused, FetchFails, FetchEnds
  <2>2. mem \in 0..MaxSerial
    BY <1>1 DEF AdvisoryTypes
  <2>3. /\ stop' \in BOOLEAN
        /\ stop' => /\ ~(setup.own /\ setup.ships # "chosen")
                    /\ mem # 0 /\ (running < Requires[mem] \/ running < Fork[mem])
    BY <2>1, <2>2, EvaluateIsFair
  <2>4. DiskTypes' /\ AdvisoryTypes'
    BY <1>1, <2>1, <2>2, <2>3, PartsKept, StartNumbers DEF AdvisoryTypes
  <2>5. QED
    BY <2>1, <2>2, <2>3, <2>4 DEF WatchStages, disk
<1>6. CASE Take
  <2>1. /\ Evaluates(got) /\ mem' = got /\ got' = 0 /\ due' = FALSE
        /\ UNCHANGED <<setup, release, pc>> /\ UNCHANGED <<disk, world, engine, choice>>
        /\ watch = "take" /\ watch' = "wait"
    BY <1>6 DEF Take
  <2>2. QED
    BY <1>1, <1>2, <2>1, EvaluateIsFair, PartsKept, StartNumbers DEF AdvisoryTypes, WatchStages, disk
<1>7. CASE Due \/ Fetch \/ Verified
  <2>1. /\ UNCHANGED <<setup, release, pc, mem, stop>> /\ UNCHANGED <<disk, world, engine, choice>>
        /\ watch \in {"wait", "signature"} /\ watch' \in {"wait", "signature", "save"}
        /\ due' \in {due, TRUE} /\ got' \in {got, served}
        /\ watch' = "save" => got' >= mem'
    BY <1>7 DEF Due, Fetch, Verified, Verifies, Floor
  <2>2. DiskTypes' /\ AdvisoryTypes'
    BY <1>1, <2>1, PartsKept DEF AdvisoryTypes, WorldTypes
  <2>3. WatchStages' /\ mem' >= mem
    BY <1>1, <1>2, <2>1 DEF AdvisoryTypes, WatchStages
  <2>4. stop' => /\ ~(setup.own /\ setup.ships # "chosen")
                 /\ mem' # 0 /\ (running < Requires[mem'] \/ running < Fork[mem'])
    BY <1>2, <2>1 DEF StopsOnlyOldEngines
  <2>5. QED
    BY <2>1, <2>2, <2>3, <2>4 DEF disk
<1>8. CASE SaveData \/ SaveSignature \/ SaveFails
  <2>1. /\ UNCHANGED <<setup, release, file, stamp, torFile, pc, due, got, mem, stop>>
        /\ UNCHANGED <<world, engine, choice>>
        /\ watch \in {"save", "saved"} /\ watch' \in {"saved", "take"}
        /\ data' \in {data, got} /\ sig' \in {sig, got}
    BY <1>8 DEF SaveData, SaveSignature, SaveFails, disk
  <2>2. QED
    BY <1>1, <1>2, <2>1
       DEF DiskTypes, AdvisoryTypes, WatchStages, StopsOnlyOldEngines, engine
<1>9. QED
  BY <1>3, <1>4, <1>5, <1>6, <1>7, <1>8 DEF Advises

LEMMA WatchKeeps ==
  ASSUME StartInv, Advises
  PROVE  StartInv'
<1>1. /\ UNCHANGED <<setup, release, file, stamp, torFile, pc>>
      /\ UNCHANGED <<world, engine, choice>>
      /\ DiskTypes' /\ AdvisoryTypes' /\ WatchStages'
      /\ watch # "off" /\ watch' # "off"
      /\ stop' => /\ ~(setup.own /\ setup.ships # "chosen")
                  /\ mem' # 0 /\ (running < Requires[mem'] \/ running < Fork[mem'])
  BY WatchMoves
<1>2. /\ setup \in Setups /\ release \in Releases /\ pc \in Steps
      /\ WorldTypes /\ EngineTypes /\ ChoiceTypes
  BY TypesByPart DEF StartInv, StartupInv
<1>3. StartupTypeOK'
  BY <1>1, <1>2, PartsKept, TypesByPartNext
<1>4. Stages'
  BY <1>1 DEF StartInv, Stages, Bare, engine
<1>5. RunsWhatItSays' /\ LoginStaysHome'
  BY <1>1 DEF StartInv, StartupInv, RunsWhatItSays, LoginStaysHome, engine, choice
<1>6. StopsOnlyOldEngines'
  BY <1>1 DEF StopsOnlyOldEngines, engine
<1>7. QED
  BY <1>1, <1>3, <1>4, <1>5, <1>6 DEF StartInv, StartupInv

-----------------------------------------------------------------------------
(* The rest of the world.                                                  *)

Turns == Replaced \/ Publishes \/ Expires \/ TorChanges \/ UNCHANGED startupVars

LEMMA TurnsKeep ==
  ASSUME StartInv, Turns
  PROVE  StartInv'
<1>1. /\ setup \in Setups /\ release \in Releases /\ pc \in Steps
      /\ DiskTypes /\ WorldTypes /\ EngineTypes /\ ChoiceTypes /\ AdvisoryTypes
  BY TypesByPart DEF StartInv, StartupInv
<1>2. UNCHANGED <<setup, pc>> /\ UNCHANGED <<engine, choice, advisory>>
  BY DEF Turns, Replaced, Publishes, Expires, TorChanges, Program, startupVars
<1>3. /\ release' \in Releases /\ file' \in Files
      /\ pc # "off" => release' = release /\ file' = file
  <2>1. CASE Replaced
    BY <1>1, <2>1, StartNumbers DEF Replaced, DiskTypes
  <2>2. CASE Publishes \/ Expires \/ TorChanges \/ UNCHANGED startupVars
    BY <1>1, <2>2 DEF Publishes, Expires, TorChanges, Program, startupVars, disk, DiskTypes
  <2>3. QED
    BY <2>1, <2>2 DEF Turns
<1>4. DiskTypes'
  BY <1>1, <1>3 DEF DiskTypes, Turns, Replaced, Publishes, Expires, TorChanges, disk, startupVars
<1>5. WorldTypes'
  <2>1. CASE Replaced \/ UNCHANGED startupVars
    BY <1>1, <2>1, PartsKept DEF Replaced, startupVars
  <2>2. CASE Publishes
    BY <1>1, <2>2 DEF Publishes, WorldTypes, Serials
  <2>3. CASE Expires
    BY <1>1, <2>3 DEF Expires, WorldTypes
  <2>4. CASE TorChanges
    BY <1>1, <2>4 DEF TorChanges, WorldTypes
  <2>5. QED
    BY <2>1, <2>2, <2>3, <2>4 DEF Turns
<1>6. StartupTypeOK'
  BY <1>1, <1>2, <1>3, <1>4, <1>5, PartsKept, TypesByPartNext
<1>7. Stages' /\ WatchStages'
  BY <1>2, <1>3 DEF StartInv, Stages, WatchStages, Bare, engine, advisory
<1>8. RunsWhatItSays' /\ LoginStaysHome' /\ StopsOnlyOldEngines'
  BY <1>2 DEF StartInv, StartupInv, RunsWhatItSays, LoginStaysHome, StopsOnlyOldEngines,
              engine, choice, advisory
<1>9. QED
  BY <1>6, <1>7, <1>8 DEF StartInv, StartupInv

-----------------------------------------------------------------------------
(* The theorems.                                                           *)

LEMMA StartupStarts == StartupInit => StartInv
<1> SUFFICES ASSUME StartupInit PROVE StartInv
  OBVIOUS
<1>1. StartupTypeOK
  <2>1. 1 \in Releases
    BY DEF Releases
  <2>2. DiskTypes /\ WorldTypes /\ EngineTypes
    BY StartNumbers DEF StartupInit, DiskTypes, WorldTypes, EngineTypes
  <2>3. ChoiceTypes /\ AdvisoryTypes
    BY StartNumbers DEF StartupInit, ChoiceTypes, AdvisoryTypes
  <2>4. QED
    BY <2>1, <2>2, <2>3, TypesByPart DEF StartupInit, Steps
<1>2. Stages /\ WatchStages
  BY DEF StartupInit, Stages, WatchStages
<1>3. RunsWhatItSays /\ LoginStaysHome /\ StopsOnlyOldEngines
  BY DEF StartupInit, RunsWhatItSays, LoginStaysHome, StopsOnlyOldEngines
<1>4. QED
  BY <1>1, <1>2, <1>3 DEF StartInv, StartupInv

LEMMA StartupGoesOn == StartInv /\ [StartupNext]_startupVars => StartInv'
<1>1. ASSUME StartInv, StartupNext PROVE StartInv'
  <2>1. CASE EngineStep
    BY <1>1, <2>1, EngineKeeps
  <2>2. CASE NodeStep
    BY <1>1, <2>2, PreparesKeeps, AttemptsKeep, FollowKeeps, EndKeeps DEF NodeStep, Prepares
  <2>3. CASE WatchStep \/ applyAdvisory \/ Fetch \/ Verified \/ SaveFails \/ FetchFails
    BY <1>1, <2>3, WatchKeeps DEF WatchStep, Advises
  <2>4. CASE Ends
    BY <1>1, <2>4, EndKeeps
  <2>5. CASE Replaced \/ Publishes \/ Expires \/ TorChanges
    BY <1>1, <2>5, TurnsKeep DEF Turns
  <2>6. QED
    BY <1>1, <2>1, <2>2, <2>3, <2>4, <2>5 DEF StartupNext
<1>2. ASSUME StartInv, UNCHANGED startupVars PROVE StartInv'
  BY <1>2, TurnsKeep DEF Turns
<1>3. QED
  BY <1>1, <1>2

\* The version noted of an engine is that of the whole binary that runs, a
\* Nodo's login stays with its own node, and a stop is only for an engine that
\* the manifest in force is against (installReason, detectNodo, Evaluate):
\* for any releases, manifests, nodes and ways of shipping, wherever the
\* process ends.
THEOREM StartupStaysSafe == StartupSpec => []StartupInv
<1>1. StartInv => StartupInv
  BY DEF StartInv
<1>2. QED
  BY <1>1, StartupStarts, StartupGoesOn, PTL DEF StartupSpec

\* A process never goes back to an older manifest than one it has taken
\* (Verified's floor, Store.Load), whatever the source serves again.
THEOREM NoOlderManifest == StartupSpec => NeverOlder
<1>1. StartInv /\ [StartupNext]_startupVars
        => [watch # "off" /\ watch' # "off" => mem' >= mem]_startupVars
  <2> SUFFICES ASSUME StartInv, StartupNext, watch # "off", watch' # "off"
               PROVE  mem' >= mem
    OBVIOUS
  <2>1. mem \in 0..MaxSerial /\ pc = "mining"
    BY DEF StartInv, StartupInv, StartupTypeOK, Stages
  <2>2. CASE Advises
    BY <2>2, WatchMoves
  <2>3. CASE EngineStep \/ NodeStep
    <3>1. pc # "mining" \/ mem' = mem
      BY <2>3 DEF EngineStep, Launch, resolveEngines, MustFetch, Fetched, Written,
                  StampBegins, Stamped, NodeStep, StayHome, TorThere, TorLaunch, TorFetch,
                  TorFetched, TorExtracted, TorFails, ApplyNodes, Selected, SelectAgain,
                  GivesUp, Goes
    <3>2. QED
      BY <2>1, <3>1
  <2>4. CASE Ends \/ Replaced \/ Publishes \/ Expires \/ TorChanges
    BY <2>1, <2>4 DEF Ends, Fresh, Replaced, Publishes, Expires, TorChanges, advisory
  <2>5. QED
    BY <2>2, <2>3, <2>4 DEF StartupNext, WatchStep, Advises
<1>2. QED
  BY <1>1, StartupStarts, StartupGoesOn, PTL DEF StartupSpec, NeverOlder
=============================================================================

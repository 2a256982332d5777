-------------------------------- MODULE Holds --------------------------------
(***************************************************************************)
(* What may hold the miner (internal/core: island, advisory).  The island  *)
(* watch judges p2pool's statistics once a minute: a sidechain this        *)
(* machine mines alone pays nobody.  The advisory watch has its verdict.   *)
(* Each keeps its part of Supervisor.holds and passes the combined reason  *)
(* on; setHold combines under s.mu and calls the scheduler after the       *)
(* unlock, so that the two can overtake each other in between.             *)
(*                                                                         *)
(* A reason is the set of the sources that have one.  Ages count minutes   *)
(* and stop at the limit the code compares them with.  Hashrates are in    *)
(* steps of this machine's 15-minute average, Full when it mines.  The     *)
(* real sidechain is far bigger than this machine; on an island the pool   *)
(* is what this machine mines, with the odd block of another that strayed. *)
(***************************************************************************)
EXTENDS Naturals

CONSTANTS Full,        \* this machine's hashrate
          PoolRatio,   \* islandPoolRatio
          Grace,       \* islandGrace, in minutes
          StallAfter   \* islandStallAfter, in minutes

ASSUME HoldsAssumption == /\ {Full, Grace, StallAfter} \subseteq Nat \ {0}
                          /\ PoolRatio \in Nat \ {0, 1}

Sources == {"advisory", "island"}
Big == PoolRatio * Full      \* a pool bigger than the code asks for
NotHeld == Full + 1
NotFailing == Grace + 1

VARIABLES holds,     \* s.holds: the sources that hold the miner
          schedHold, \* what the scheduler was last told
          sending,   \* the sources about to call SetHold
          combined,  \* source -> the reason it is about to pass on
          advises,   \* the verdict of the advisory is to stop
          alone,     \* the sidechain is an island
          stats,     \* p2pool's statistics
          fresh,     \* they are less than two minutes old
          paused,    \* the user's pause
          due,       \* the watches that have yet to look, this minute
          still,     \* islandWatch.lastAdvance: minutes without a new block
          failing,   \* failingSince: minutes, or NotFailing
          heldOwn    \* heldOwn, or NotHeld

passing == <<holds, sending, combined>>
world == <<advises, alone, stats, fresh, paused>>
watch == <<still, failing, heldOwn>>
vars == <<passing, schedHold, world, due, watch>>

\* A sample: does it fail one of the checks that need nothing else (no peers,
\* not synced, a chain shorter than its window at the starting difficulty),
\* has the height moved since the last one judged, and the hashrates.
Samples == [wrong : BOOLEAN, moved : BOOLEAN, pool : {0, Full, Big},
            own : 0..Full]

HoldsTypeOK == /\ holds \subseteq Sources
               /\ schedHold \subseteq Sources
               /\ sending \subseteq Sources
               /\ combined \in [Sources -> SUBSET Sources]
               /\ advises \in BOOLEAN
               /\ alone \in BOOLEAN
               /\ stats \in Samples
               /\ fresh \in BOOLEAN
               /\ paused \in BOOLEAN
               /\ due \subseteq Sources
               /\ still \in 0..StallAfter
               /\ failing \in 0..NotFailing
               /\ heldOwn \in 0..NotHeld

Init == /\ holds = {} /\ schedHold = {} /\ sending = {}
        /\ combined = [s \in Sources |-> {}]
        /\ advises \in BOOLEAN
        /\ alone \in BOOLEAN
        /\ stats = [wrong |-> TRUE, moved |-> TRUE, pool |-> 0, own |-> 0]
        /\ fresh = FALSE
        /\ paused \in BOOLEAN
        /\ due = Sources
        /\ still = 0 /\ failing = NotFailing /\ heldOwn = NotHeld

-----------------------------------------------------------------------------
(* setHold.                                                                *)

\* s.holds with the source's own part set or deleted.
Updated(s, hold) == IF hold THEN holds \cup {s} ELSE holds \ {s}

CombinesBeforeUpdate(s, hold) ==
  /\ s \notin sending
  /\ holds' = Updated(s, hold)
  /\ combined' = [combined EXCEPT ![s] = holds]
  /\ sending' = sending \cup {s}
  /\ UNCHANGED schedHold

\* Up to the unlock ...
setHold(s, hold) == /\ s \notin sending
                    /\ holds' = Updated(s, hold)
                    /\ combined' = [combined EXCEPT ![s] = Updated(s, hold)]
                    /\ sending' = sending \cup {s}
                    /\ UNCHANGED schedHold

SendOwn(s) == /\ s \in sending
              /\ sending' = sending \ {s}
              /\ schedHold' = combined[s] \cap {s}
              /\ UNCHANGED <<holds, combined, world, due, watch>>

\* ... and after it.
Send(s) == /\ s \in sending
           /\ sending' = sending \ {s}
           /\ schedHold' = combined[s]
           /\ UNCHANGED <<holds, combined, world, due, watch>>

-----------------------------------------------------------------------------
(* The two watches, each with a ticker of a minute.  Both call setHold on  *)
(* every pass, whether what they found has changed or not.                 *)

\* applyAdvisory, with the verdict there is.
applyAdvisory == /\ "advisory" \in due /\ due' = due \ {"advisory"}
                 /\ setHold("advisory", advises)
                 /\ UNCHANGED <<world, watch>>

\* islandFault, against the hashrate the pool has to beat.
islandFault(age, own) ==
  \/ stats.wrong
  \/ age >= StallAfter
  \/ own > 0 /\ stats.pool > 0 /\ stats.pool < PoolRatio * own

\* islandWatch.observe, with the hashrate it compares the pool with.
judge(own) ==
  LET age == IF stats.moved THEN 0 ELSE still
      fault == islandFault(age, own)
      since == CASE ~fault -> NotFailing
                 [] failing = NotFailing -> 0
                 [] OTHER -> failing
  IN  /\ still' = age
      /\ failing' = since
      /\ heldOwn' = CASE ~fault -> NotHeld
                      [] heldOwn = NotHeld /\ since = Grace -> stats.own
                      [] OTHER -> heldOwn

observeOwnDecays == judge(stats.own)

\* While held, the hashrate from when the hold began.
observe == judge(IF heldOwn = NotHeld THEN stats.own ELSE heldOwn)

\* A pass of watchIslands, which judges nothing that is stale.
watchIslands == /\ "island" \in due /\ due' = due \ {"island"}
                /\ IF fresh
                   THEN observe /\ setHold("island", heldOwn' # NotHeld)
                   ELSE UNCHANGED <<passing, schedHold, watch>>
                /\ UNCHANGED world

-----------------------------------------------------------------------------
(* Time, p2pool and its sidechain.                                         *)

\* What p2pool says a minute later, of an island or of the real sidechain, of
\* a miner that mines or is stood down.  Its estimate of the pool changes with
\* the blocks, and is 0 only until it has a window of them.
Reports(island, mines) ==
  {r \in Samples :
     /\ ~fresh /\ stats.moved => r.moved
     /\ \/ r.pool = stats.pool
        \/ r.moved /\ r.pool = IF island THEN Full ELSE Big
     /\ IF mines THEN r.own \in {stats.own + 1, Full}
                 ELSE r.own \in {stats.own - 1, 0}}

Older(age, limit) == IF age < limit THEN age + 1 ELSE age

\* A pass of the advisory's watch may be waiting for a download.
Minute ==
  /\ "island" \notin due /\ due' = Sources
  /\ sending = {}
  /\ alone' \in BOOLEAN
  /\ advises' \in BOOLEAN
  /\ fresh' \in BOOLEAN
  /\ paused' \in BOOLEAN
  /\ stats' \in Reports(alone', schedHold = {} /\ ~paused')
  /\ still' = Older(still, StallAfter)
  /\ failing' = IF failing < Grace THEN failing + 1 ELSE failing
  /\ UNCHANGED <<passing, schedHold, heldOwn>>

Next == (\E s \in Sources : Send(s)) \/ applyAdvisory \/ watchIslands \/ Minute

\* Both watches' tickers keep firing, and a call once entered returns.
Fairness == /\ WF_vars(Minute)
            /\ WF_vars(watchIslands)
            /\ WF_vars(applyAdvisory)
            /\ \A s \in Sources : WF_vars(Send(s))
Spec == Init /\ [][Next]_vars /\ Fairness

-----------------------------------------------------------------------------
(* Properties.                                                             *)

\* A source passes on its own part as it stands, however late: only it sets
\* or releases that part.
OwnPartSent == \A s \in sending : s \in combined[s] <=> s \in holds
HoldsInv == HoldsTypeOK /\ OwnPartSent

\* "The island check and the advisory each own a part of it, so neither
\* releasing clears the other's" (setHold): whatever the calls did to each
\* other on the way, the scheduler ends with the reasons there are.
HoldSettles == \A want \in SUBSET Sources :
  <>[](holds = want) => <>[](schedHold = want)

\* A machine left alone with its pool ends up held and stays so, although its
\* own hashrate, which gave the island away, is gone once it is stood down
\* (heldOwn); and the real sidechain ends every hold of the island watch.
IslandSettles ==
  /\ <>[](/\ alone /\ fresh /\ ~paused /\ ~advises
          /\ ~stats.wrong /\ stats.pool = Full) => <>[](schedHold = {"island"})
  /\ <>[](/\ ~alone /\ fresh /\ stats.moved
          /\ ~stats.wrong /\ stats.pool = Big)
       => <>[]("island" \notin schedHold)
=============================================================================

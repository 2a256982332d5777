---------------------------- MODULE Pauses_proofs ----------------------------
(* What keeps the miner stood down, and for whom: the reasons the two       *)
(* watches pass on, for any hashrate and any delays; and the user's pause   *)
(* with its file, for any users and times.  The two share no state.         *)
EXTENDS Holds, Snooze, TLAPS

-----------------------------------------------------------------------------
(* The reasons of the two watches.                                          *)

USE HoldsAssumption DEF HoldsAssumption

\* The state the two calls of setHold share, apart from the island's clocks.
PassingOK == /\ holds \subseteq Sources
             /\ schedHold \subseteq Sources
             /\ sending \subseteq Sources
             /\ combined \in [Sources -> SUBSET Sources]

\* setHold up to the unlock, for either watch and either verdict.
LEMMA SetHoldKeepsParts ==
  ASSUME PassingOK, OwnPartSent, NEW s \in Sources, NEW hold \in BOOLEAN,
         setHold(s, hold)
  PROVE  PassingOK' /\ OwnPartSent'
<1>1. Updated(s, hold) \subseteq Sources
  BY DEF Updated, PassingOK
<1>2. PassingOK'
  BY <1>1 DEF setHold, PassingOK
<1>3. combined'[s] = holds'
  BY DEF setHold, PassingOK
<1>4. ASSUME NEW t \in sending', t # s
      PROVE  t \in combined'[t] <=> t \in holds'
  <2>1. t \in sending /\ t \in Sources
    BY <1>4 DEF setHold, PassingOK
  <2>2. combined'[t] = combined[t]
    BY <1>4, <2>1 DEF setHold, PassingOK
  <2>3. t \in holds' <=> t \in holds
    BY <1>4 DEF setHold, Updated
  <2>4. QED
    BY <2>1, <2>2, <2>3 DEF OwnPartSent
<1>5. OwnPartSent'
  BY <1>3, <1>4 DEF OwnPartSent
<1>6. QED
  BY <1>2, <1>5

\* Every hashrate and every age stays within what the code compares it with.
LEMMA ObserveTypes ==
  ASSUME HoldsTypeOK, observe
  PROVE  /\ still' \in 0..StallAfter
         /\ failing' \in 0..NotFailing
         /\ heldOwn' \in 0..NotHeld
<1>1. stats \in Samples
  BY DEF HoldsTypeOK
<1>2. stats.own \in 0..NotHeld
  BY <1>1 DEF Samples, NotHeld
<1>3. still' \in 0..StallAfter
  BY DEF observe, judge, HoldsTypeOK
<1>4. failing' \in 0..NotFailing
  BY DEF observe, judge, HoldsTypeOK, NotFailing
<1>5. heldOwn' \in 0..NotHeld
  BY <1>2 DEF observe, judge, HoldsTypeOK, NotHeld
<1>6. QED
  BY <1>3, <1>4, <1>5

LEMMA InitHolds == Init => HoldsInv
<1>1. ASSUME Init PROVE HoldsTypeOK
  <2>1. [wrong |-> TRUE, moved |-> TRUE, pool |-> 0, own |-> 0] \in Samples
    BY DEF Samples
  <2>2. NotFailing \in 0..NotFailing /\ NotHeld \in 0..NotHeld
    BY DEF NotFailing, NotHeld
  <2>3. stats \in Samples /\ failing \in 0..NotFailing /\ heldOwn \in 0..NotHeld
    BY <1>1, <2>1, <2>2 DEF Init
  <2>4. combined \in [Sources -> SUBSET Sources]
    BY <1>1 DEF Init
  <2>5. still \in 0..StallAfter
    BY <1>1 DEF Init
  <2>6. /\ holds \subseteq Sources /\ schedHold \subseteq Sources
        /\ sending \subseteq Sources /\ due \subseteq Sources
    BY <1>1 DEF Init
  <2>7. QED
    BY <1>1, <2>3, <2>4, <2>5, <2>6 DEF Init, HoldsTypeOK
<1>2. Init => OwnPartSent
  BY DEF Init, OwnPartSent
<1>3. QED
  BY <1>1, <1>2 DEF HoldsInv

LEMMA NextHolds == HoldsInv /\ [Next]_vars => HoldsInv'
<1> SUFFICES ASSUME HoldsTypeOK, OwnPartSent, [Next]_vars
             PROVE  HoldsTypeOK' /\ OwnPartSent'
  BY DEF HoldsInv
<1>1. PassingOK
  BY DEF HoldsTypeOK, PassingOK
<1>2. ASSUME NEW s \in Sources, Send(s)
      PROVE  HoldsTypeOK' /\ OwnPartSent'
  <2>1. combined[s] \subseteq Sources
    BY DEF HoldsTypeOK
  <2>2. HoldsTypeOK'
    BY <1>2, <2>1 DEF Send, HoldsTypeOK, world, watch
  <2>3. OwnPartSent'
    BY <1>2 DEF Send, OwnPartSent
  <2>4. QED
    BY <2>2, <2>3
<1>3. CASE applyAdvisory
  <2>1. advises \in BOOLEAN /\ "advisory" \in Sources
    BY DEF HoldsTypeOK, Sources
  <2>2. PassingOK' /\ OwnPartSent'
    BY <1>1, <1>3, <2>1, SetHoldKeepsParts DEF applyAdvisory
  <2>3. HoldsTypeOK'
    BY <1>3, <2>2 DEF applyAdvisory, HoldsTypeOK, PassingOK, world, watch
  <2>4. QED
    BY <2>2, <2>3
<1>4. CASE watchIslands
  <2>1. CASE fresh
    <3>1. observe /\ setHold("island", heldOwn' # NotHeld)
      BY <1>4, <2>1 DEF watchIslands
    <3>2. PassingOK' /\ OwnPartSent'
      <4>1. "island" \in Sources /\ (heldOwn' # NotHeld) \in BOOLEAN
        BY DEF Sources
      <4>2. QED
        BY <1>1, <3>1, <4>1, SetHoldKeepsParts
    <3>3. HoldsTypeOK'
      BY <1>4, <3>1, <3>2, ObserveTypes
         DEF watchIslands, HoldsTypeOK, PassingOK, world
    <3>4. QED
      BY <3>2, <3>3
  <2>2. CASE ~fresh
    <3>1. UNCHANGED <<passing, schedHold, watch, world>>
          /\ due' = due \ {"island"}
      BY <1>4, <2>2 DEF watchIslands
    <3>2. HoldsTypeOK'
      BY <3>1 DEF HoldsTypeOK, passing, watch, world
    <3>3. OwnPartSent'
      BY <3>1 DEF OwnPartSent, passing
    <3>4. QED
      BY <3>2, <3>3
  <2>3. QED
    BY <2>1, <2>2
<1>5. CASE Minute
  <2>1. stats' \in Samples
    BY <1>5 DEF Minute, Reports
  <2>2. still' \in 0..StallAfter /\ failing' \in 0..NotFailing
    BY <1>5 DEF Minute, Older, HoldsTypeOK, NotFailing
  <2>3. HoldsTypeOK'
    BY <1>5, <2>1, <2>2 DEF Minute, HoldsTypeOK, passing
  <2>4. OwnPartSent'
    BY <1>5 DEF Minute, OwnPartSent, passing
  <2>5. QED
    BY <2>3, <2>4
<1>6. CASE UNCHANGED vars
  <2>1. HoldsTypeOK'
    BY <1>6 DEF HoldsTypeOK, vars, passing, world, watch
  <2>2. OwnPartSent'
    BY <1>6 DEF OwnPartSent, vars, passing
  <2>3. QED
    BY <2>1, <2>2
<1>7. QED
  BY <1>2, <1>3, <1>4, <1>5, <1>6 DEF Next

\* Whatever the two watches do to each other inside setHold, each passes on
\* its own part as it stands ("neither releasing clears the other's").
THEOREM HoldsStayTheirOwn == Spec => []HoldsInv
<1>1. Init => HoldsInv
  BY InitHolds
<1>2. HoldsInv /\ [Next]_vars => HoldsInv'
  BY NextHolds
<1>3. QED
  BY <1>1, <1>2, PTL DEF Spec

-----------------------------------------------------------------------------
(* The user's pause and its file.                                          *)

\* A call at a time, each saving the pause it set.
OneCall ==
  /\ \A c \in Callers : pc[c] # "idle" => app = "up" /\ \A d \in Callers \ {c} : pc[d] = "idle"
  /\ \A c \in Callers : pc[c] = "lift" => c = "tick"
  /\ \A c \in Callers : pc[c] \in {"open", "write", "rename"} => val[c] = mem

\* The inode written to is the one called .tmp, never the file: it is empty
\* until the whole pause is in it.
Beside ==
  /\ tmp # None => tmp # file
  /\ \A c \in Callers : fd[c] = IF pc[c] = "write" THEN tmp ELSE None
  /\ \A c \in Callers : pc[c] = "write" => tmp # None /\ content[tmp] = Empty
  /\ \A c \in Callers : pc[c] = "rename" => tmp # None /\ content[tmp] = val[c]

\* What was in force when last nothing moved is what is in force now, or is
\* what the file has, or its time is over: the tick only lifts a pause that is
\* over, and the start sets again what it read.
Promise ==
  /\ Quiet => promised = mem
  /\ pc["tick"] # "idle" => InForce(promised) = NoPause
  /\ pc["main"] # "idle" => promised = mem /\ kept = mem
  /\ app = "down" /\ ~unsaved => InForce(promised) \in {InForce(kept), NoPause}

SnoozeInv == SnoozeSafe /\ OneCall /\ Beside /\ Promise

-----------------------------------------------------------------------------
(* The pause: what a step does to each part of the invariant.               *)

USE SnoozeAssumption

LEMMA SnoozeStarts == SnoozeInit => SnoozeInv
<1> SUFFICES ASSUME SnoozeInit PROVE SnoozeInv
  OBVIOUS
<1>1. SnoozeTypeOK
  <2>1. NoPause \in Pauses /\ 1 \in 1..MaxNow
    BY DEF Pauses, NoPause, SnoozeAssumption
  <2>2. pc \in [Callers -> {"idle", "lift", "open", "write", "rename"}]
    BY DEF SnoozeInit
  <2>3. val \in [Callers -> Pauses] /\ fd \in [Callers -> Inodes \cup {None}]
    BY <2>1 DEF SnoozeInit
  <2>4. content \in [Inodes -> Pauses \cup {Empty, Torn}]
    BY DEF SnoozeInit
  <2>5. QED
    BY <2>1, <2>2, <2>3, <2>4 DEF SnoozeInit, SnoozeTypeOK
<1>2. SavedWhole /\ FileMirrors
  BY DEF SnoozeInit, SavedWhole, FileMirrors, Quiet, Saved
<1>3. OneCall
  BY DEF SnoozeInit, OneCall
<1>4. Beside
  BY DEF SnoozeInit, Beside
<1>5. Promise
  BY DEF SnoozeInit, Promise, Quiet, Callers, InForce, snoozeOver, NoPause, Forever
<1>6. QED
  BY <1>1, <1>2, <1>3, <1>4, <1>5 DEF SnoozeInv, SnoozeSafe

\* Types and the files of a step that opens, writes or renames nothing.
LEMMA FilesRest ==
  ASSUME SnoozeInv, UNCHANGED <<fd, tmp, file, content, kept>>,
         \A c \in Callers : pc'[c] \in {"write", "rename"} => pc'[c] = pc[c] /\ val'[c] = val[c],
         \A c \in Callers : pc[c] = "write" => pc'[c] = "write"
  PROVE  SavedWhole' /\ Beside'
<1>1. SavedWhole'
  BY DEF SnoozeInv, SnoozeSafe, SavedWhole, Saved
<1>2. Beside'
  BY DEF SnoozeInv, Beside
<1>3. QED
  BY <1>1, <1>2

LEMMA UserSetsKeeps ==
  ASSUME ~Overlap, SnoozeInv, NEW u \in Users, NEW p \in Pauses, UserSets(u, p)
  PROVE  SnoozeInv'
<1>1. Quiet /\ u \in Callers /\ u \notin {"main", "tick"}
  BY DEF UserSets, MayCall, Callers, SnoozeAssumption
<1>2. pc'[u] = "open" /\ \A c \in Callers \ {u} : pc'[c] = pc[c]
  BY <1>1 DEF UserSets, CallerGoes, SnoozeInv, SnoozeSafe, SnoozeTypeOK
<1>3. SnoozeTypeOK'
  BY <1>1 DEF UserSets, CallerGoes, setOverride, fsVars, SnoozeInv, SnoozeSafe, SnoozeTypeOK
<1>4. SavedWhole' /\ Beside'
  <2>1. UNCHANGED <<fd, tmp, file, content, kept>>
    BY DEF UserSets, fsVars
  <2>2. QED
    BY <1>1, <1>2, <2>1, FilesRest DEF Quiet
<1>5. FileMirrors' /\ ~Quiet'
  BY <1>1, <1>2 DEF FileMirrors, Quiet
<1>6. OneCall'
  <2>1. app' = "up"
    BY DEF UserSets, MayCall
  <2>2. val'[u] = mem'
    BY <1>1 DEF UserSets, setOverride, SnoozeInv, SnoozeSafe, SnoozeTypeOK
  <2>3. QED
    BY <1>1, <1>2, <2>1, <2>2 DEF OneCall, Quiet
<1>7. Promise'
  BY <1>1, <1>2, <1>5 DEF Promise, Quiet, UserSets, Callers
<1>8. QED
  BY <1>3, <1>4, <1>5, <1>6, <1>7 DEF SnoozeInv, SnoozeSafe

LEMMA TickChecksKeeps ==
  ASSUME ~Overlap, SnoozeInv, TickChecks
  PROVE  SnoozeInv'
<1>1. Quiet /\ "tick" \in Callers /\ "main" \in Callers
  BY DEF TickChecks, MayCall, Callers
<1>2. pc'["tick"] = "lift" /\ \A c \in Callers \ {"tick"} : pc'[c] = pc[c]
  BY <1>1 DEF TickChecks, CallerGoes, SnoozeInv, SnoozeSafe, SnoozeTypeOK
<1>3. SnoozeTypeOK'
  BY <1>1 DEF TickChecks, CallerGoes, fsVars, SnoozeInv, SnoozeSafe, SnoozeTypeOK
<1>4. SavedWhole' /\ Beside'
  <2>1. UNCHANGED <<fd, tmp, file, content, kept>>
    BY DEF TickChecks, fsVars
  <2>2. QED
    BY <1>1, <1>2, <2>1, FilesRest DEF Quiet
<1>5. FileMirrors' /\ ~Quiet'
  BY <1>1, <1>2 DEF FileMirrors, Quiet
<1>6. OneCall'
  BY <1>1, <1>2 DEF OneCall, Quiet, TickChecks, MayCall
<1>7. Promise'
  <2>1. promised' = promised /\ promised = mem /\ snoozeOver(mem)
    BY <1>1 DEF SnoozeInv, Promise, TickChecks
  <2>2. InForce(promised)' = NoPause
    BY <2>1 DEF InForce, snoozeOver, TickChecks
  <2>3. QED
    BY <1>1, <1>2, <1>5, <2>2 DEF Promise, Quiet, TickChecks
<1>8. QED
  BY <1>3, <1>4, <1>5, <1>6, <1>7 DEF SnoozeInv, SnoozeSafe

LEMMA TickLiftsKeeps ==
  ASSUME SnoozeInv, TickLifts
  PROVE  SnoozeInv'
<1>1. "tick" \in Callers /\ "main" \in Callers /\ NoPause \in Pauses
  BY DEF Callers, Pauses, NoPause, SnoozeAssumption
<1>2. /\ pc["tick"] = "lift" /\ pc'["tick"] = "open" 
      /\ \A c \in Callers \ {"tick"} : pc'[c] = pc[c] /\ pc[c] = "idle"
  BY <1>1 DEF TickLifts, CallerGoes, SnoozeInv, SnoozeSafe, SnoozeTypeOK, OneCall
<1>3. SnoozeTypeOK'
  BY <1>1 DEF TickLifts, CallerGoes, setOverride, fsVars, SnoozeInv, SnoozeSafe, SnoozeTypeOK
<1>4. SavedWhole' /\ Beside'
  <2>1. UNCHANGED <<fd, tmp, file, content, kept>>
    BY DEF TickLifts, fsVars
  <2>2. QED
    BY <1>1, <1>2, <2>1, FilesRest
<1>5. FileMirrors' /\ ~Quiet'
  BY <1>1, <1>2 DEF FileMirrors, Quiet
<1>6. OneCall'
  <2>1. app' = "up"
    BY <1>1, <1>2 DEF TickLifts, SnoozeInv, OneCall
  <2>2. val'["tick"] = mem'
    BY <1>1 DEF TickLifts, setOverride, SnoozeInv, SnoozeSafe, SnoozeTypeOK
  <2>3. QED
    BY <1>1, <1>2, <2>1, <2>2 DEF OneCall
<1>7. Promise'
  <2>1. InForce(promised)' = NoPause /\ app' # "down"
    BY <1>1, <1>2 DEF SnoozeInv, Promise, OneCall, TickLifts, InForce, snoozeOver
  <2>2. QED
    BY <1>1, <1>2, <1>5, <2>1 DEF Promise, Quiet
<1>8. QED
  BY <1>3, <1>4, <1>5, <1>6, <1>7 DEF SnoozeInv, SnoozeSafe

\* A step of a save is the only one under way.
LEMMA Alone ==
  ASSUME SnoozeInv, NEW c \in Callers, NEW at \in {"open", "write", "rename"},
         NEW to \in {"idle", "write", "rename"}, CallerGoes(c, at, to)
  PROVE  /\ pc[c] = at /\ pc'[c] = to /\ val[c] = mem /\ app = "up"
         /\ \A d \in Callers \ {c} : pc[d] = "idle" /\ pc'[d] = "idle"
         /\ pc' \in [Callers -> {"idle", "lift", "open", "write", "rename"}]
BY DEF CallerGoes, SnoozeInv, SnoozeSafe, SnoozeTypeOK, OneCall

LEMMA OpenKeeps ==
  ASSUME SnoozeInv, NEW c \in Callers, Open(c)
  PROVE  SnoozeInv'
<1>1. /\ pc[c] = "open" /\ pc'[c] = "write" /\ val[c] = mem /\ app = "up"
      /\ \A d \in Callers \ {c} : pc[d] = "idle" /\ pc'[d] = "idle"
      /\ pc' \in [Callers -> {"idle", "lift", "open", "write", "rename"}]
  BY Alone DEF Open
<1>2. PICK i \in IF tmp = None THEN Free ELSE {tmp} :
        /\ tmp' = i
        /\ fd' = [fd EXCEPT ![c] = i]
        /\ content' = [content EXCEPT ![i] = Empty]
  BY DEF Open
<1>3. i \in Inodes /\ i # None /\ i # file
  BY <1>2 DEF Free, SnoozeInv, SnoozeSafe, SnoozeTypeOK, Beside, SnoozeAssumption
<1>4. UNCHANGED <<now, app, mem, val, file, kept, promised, unsaved>>
  BY DEF Open
<1>5. SnoozeTypeOK'
  BY <1>1, <1>2, <1>3, <1>4 DEF SnoozeInv, SnoozeSafe, SnoozeTypeOK
<1>6. SavedWhole'
  BY <1>2, <1>3, <1>4 DEF SavedWhole, Saved, SnoozeInv, SnoozeSafe, SnoozeTypeOK
<1>7. FileMirrors' /\ ~Quiet'
  BY <1>1 DEF FileMirrors, Quiet
<1>8. OneCall'
  BY <1>1, <1>4 DEF OneCall
<1>9. Beside'
  <2>1. fd'[c] = i /\ \A d \in Callers \ {c} : fd'[d] = None
    BY <1>1, <1>2 DEF SnoozeInv, Beside, SnoozeSafe, SnoozeTypeOK
  <2>2. content'[i] = Empty
    BY <1>2, <1>3 DEF SnoozeInv, SnoozeSafe, SnoozeTypeOK
  <2>3. QED
    BY <1>1, <1>2, <1>3, <1>4, <2>1, <2>2 DEF Beside
<1>10. Promise'
  BY <1>1, <1>4, <1>7 DEF Promise, SnoozeInv, InForce, snoozeOver, Callers
<1>11. QED
  BY <1>5, <1>6, <1>7, <1>8, <1>9, <1>10 DEF SnoozeInv, SnoozeSafe

LEMMA WriteKeeps ==
  ASSUME SnoozeInv, NEW c \in Callers, Write(c)
  PROVE  SnoozeInv'
<1>1. /\ pc[c] = "write" /\ pc'[c] = "rename" /\ val[c] = mem /\ app = "up"
      /\ \A d \in Callers \ {c} : pc[d] = "idle" /\ pc'[d] = "idle"
      /\ pc' \in [Callers -> {"idle", "lift", "open", "write", "rename"}]
  BY Alone DEF Write
<1>2. fd[c] = tmp /\ tmp # None /\ tmp # file /\ content[tmp] = Empty
  BY <1>1 DEF SnoozeInv, Beside
<1>3. content' = [content EXCEPT ![tmp] = val[c]]
  BY <1>2 DEF Write
<1>4. UNCHANGED <<now, app, mem, val, tmp, file, kept, promised, unsaved>>
  BY DEF Write
<1>5. tmp \in Inodes /\ fd' = [fd EXCEPT ![c] = None]
  BY <1>2 DEF SnoozeInv, SnoozeSafe, SnoozeTypeOK, Write
<1>6. SnoozeTypeOK'
  BY <1>1, <1>3, <1>4, <1>5 DEF SnoozeInv, SnoozeSafe, SnoozeTypeOK
<1>7. SavedWhole'
  BY <1>2, <1>3, <1>4, <1>5 DEF SavedWhole, Saved, SnoozeInv, SnoozeSafe, SnoozeTypeOK
<1>8. FileMirrors' /\ ~Quiet'
  BY <1>1 DEF FileMirrors, Quiet
<1>9. OneCall'
  BY <1>1, <1>4 DEF OneCall
<1>10. Beside'
  <2>1. \A d \in Callers : fd'[d] = None
    BY <1>1, <1>5 DEF SnoozeInv, Beside, SnoozeSafe, SnoozeTypeOK
  <2>2. content'[tmp] = val[c]
    BY <1>3, <1>5 DEF SnoozeInv, SnoozeSafe, SnoozeTypeOK
  <2>3. QED
    BY <1>1, <1>2, <1>4, <2>1, <2>2 DEF Beside
<1>11. Promise'
  BY <1>1, <1>4, <1>8 DEF Promise, SnoozeInv, InForce, snoozeOver, Callers
<1>12. QED
  BY <1>6, <1>7, <1>8, <1>9, <1>10, <1>11 DEF SnoozeInv, SnoozeSafe

\* The rename finds its file, whole, and makes it the pause that is kept.
LEMMA RenameKeeps ==
  ASSUME SnoozeInv, NEW c \in Callers, Rename(c)
  PROVE  SnoozeInv'
<1>1. /\ pc[c] = "rename" /\ pc'[c] = "idle" /\ val[c] = mem /\ app = "up"
      /\ \A d \in Callers \ {c} : pc[d] = "idle" /\ pc'[d] = "idle"
      /\ pc' \in [Callers -> {"idle", "lift", "open", "write", "rename"}]
  BY Alone DEF Rename
<1>2. tmp # None /\ content[tmp] = val[c]
  BY <1>1 DEF SnoozeInv, Beside
<1>3. file' = tmp /\ tmp' = None /\ kept' = mem /\ unsaved' = FALSE /\ promised' = mem
  BY <1>1, <1>2 DEF Rename, Settles
<1>4. UNCHANGED <<now, app, mem, val, fd, content>>
  BY DEF Rename
<1>5. SnoozeTypeOK'
  BY <1>1, <1>3, <1>4 DEF SnoozeInv, SnoozeSafe, SnoozeTypeOK
<1>6. SavedWhole'
  BY <1>1, <1>2, <1>3, <1>4
     DEF SavedWhole, Saved, SnoozeInv, SnoozeSafe, SnoozeTypeOK, Pauses, NoPause, Empty, Torn
<1>7. FileMirrors'
  BY <1>3, <1>4, <1>6 DEF FileMirrors, SavedWhole, loadSnooze, InForce, snoozeOver
<1>8. OneCall'
  BY <1>1 DEF OneCall
<1>9. Beside'
  BY <1>1, <1>3, <1>4 DEF SnoozeInv, Beside
<1>10. Promise'
  BY <1>1, <1>3, <1>4 DEF Promise, Callers
<1>11. QED
  BY <1>5, <1>6, <1>7, <1>8, <1>9, <1>10 DEF SnoozeInv, SnoozeSafe

LEMMA FailKeeps ==
  ASSUME SnoozeInv, NEW c \in Callers, Fail(c)
  PROVE  SnoozeInv'
<1>1. PICK at \in {"open", "write", "rename"} : CallerGoes(c, at, "idle")
  BY DEF Fail
<1>2. /\ pc[c] = at /\ pc'[c] = "idle" /\ val[c] = mem /\ app = "up"
      /\ \A d \in Callers \ {c} : pc[d] = "idle" /\ pc'[d] = "idle"
      /\ pc' \in [Callers -> {"idle", "lift", "open", "write", "rename"}]
  BY <1>1, Alone
<1>3. unsaved' = TRUE /\ promised' = mem /\ fd' = [fd EXCEPT ![c] = None]
  BY <1>2 DEF Fail, Settles
<1>4. UNCHANGED <<now, app, mem, val, tmp, file, content, kept>>
  BY DEF Fail
<1>5. SnoozeTypeOK'
  BY <1>2, <1>3, <1>4 DEF SnoozeInv, SnoozeSafe, SnoozeTypeOK
<1>6. SavedWhole' /\ FileMirrors'
  BY <1>3, <1>4 DEF SavedWhole, Saved, FileMirrors, SnoozeInv, SnoozeSafe
<1>7. OneCall'
  BY <1>2 DEF OneCall
<1>8. Beside'
  <2>1. \A d \in Callers : fd'[d] = None
    BY <1>2, <1>3 DEF SnoozeInv, Beside, SnoozeSafe, SnoozeTypeOK
  <2>2. QED
    BY <1>2, <1>4, <2>1 DEF SnoozeInv, Beside
<1>9. Promise'
  BY <1>2, <1>3, <1>4 DEF Promise, Callers
<1>10. QED
  BY <1>5, <1>6, <1>7, <1>8, <1>9 DEF SnoozeInv, SnoozeSafe

\* The start reads the pause back, and whatever it sets again is what is kept.
LEMMA BootKeeps ==
  ASSUME SnoozeInv, Boot
  PROVE  SnoozeInv'
<1>1. "tick" \in Callers /\ "main" \in Callers /\ NoPause \in Pauses
  BY DEF Callers, Pauses, NoPause, SnoozeAssumption
<1>2. app = "down" /\ app' = "up" /\ \A c \in Callers : pc[c] = "idle"
  BY DEF Boot, SnoozeInv, OneCall
<1>3. /\ mem' = InForce(kept) /\ promised' = mem' /\ unsaved' = FALSE
      /\ val' = [val EXCEPT !["main"] = mem']
      /\ pc' = [pc EXCEPT !["main"] = IF mem' = NoPause THEN "idle" ELSE "open"]
  BY DEF Boot, setOverride, loadSnooze, SnoozeInv, SnoozeSafe, SavedWhole
<1>4. UNCHANGED <<now, fd, tmp, file, content, kept>>
  BY DEF Boot, fsVars
<1>5. InForce(kept) \in {kept, NoPause} /\ InForce(kept) \in Pauses
  BY <1>1 DEF InForce, SnoozeInv, SnoozeSafe, SnoozeTypeOK
<1>6. pc'["main"] \in {"idle", "open"} /\ \A c \in Callers \ {"main"} : pc'[c] = "idle"
  BY <1>1, <1>2, <1>3 DEF SnoozeInv, SnoozeSafe, SnoozeTypeOK
<1>7. SnoozeTypeOK'
  BY <1>1, <1>2, <1>3, <1>4, <1>5 DEF SnoozeInv, SnoozeSafe, SnoozeTypeOK
<1>8. SavedWhole' /\ Beside'
  BY <1>2, <1>4, <1>6, FilesRest
<1>9. FileMirrors'
  <2>1. InForce(kept)' = InForce(kept)
    BY <1>4 DEF InForce, snoozeOver
  <2>2. InForce(mem)' = InForce(kept)
    BY <1>3, <1>4 DEF InForce, snoozeOver, NoPause, Forever
  <2>3. QED
    BY <1>8, <2>1, <2>2 DEF FileMirrors, loadSnooze, SavedWhole, InForce, snoozeOver
<1>10. OneCall'
  <2>1. val'["main"] = mem'
    BY <1>1, <1>3 DEF SnoozeInv, SnoozeSafe, SnoozeTypeOK
  <2>2. QED
    BY <1>1, <1>2, <1>6, <2>1 DEF OneCall
<1>11. Promise'
  <2>1. pc'["main"] # "idle" => mem' = kept
    BY <1>1, <1>2, <1>3, <1>5 DEF SnoozeInv, SnoozeSafe, SnoozeTypeOK
  <2>2. QED
    BY <1>1, <1>2, <1>3, <1>4, <1>6, <2>1 DEF Promise
<1>12. QED
  BY <1>7, <1>8, <1>9, <1>10, <1>11 DEF SnoozeInv, SnoozeSafe

\* Whoever is cut short: the user's call counts as not saved, the tick's lifts
\* a pause that is over, and the start's saves what is kept already.
LEMMA CrashKeeps ==
  ASSUME SnoozeInv, Crash
  PROVE  SnoozeInv'
<1>1. "tick" \in Callers /\ "main" \in Callers /\ NoPause \in Pauses
  BY DEF Callers, Pauses, NoPause, SnoozeAssumption
<1>2. app' = "down" /\ mem' = NoPause /\ \A c \in Callers : pc'[c] = "idle" /\ fd'[c] = None
  BY DEF Crash
<1>3. UNCHANGED <<now, tmp, file, content, kept, promised>>
  BY DEF Crash
<1>4. unsaved' = (unsaved \/ \E u \in Users : pc[u] # "idle")
  BY DEF Crash
<1>5. SnoozeTypeOK'
  BY <1>1, <1>3 DEF Crash, SnoozeInv, SnoozeSafe, SnoozeTypeOK
<1>6. SavedWhole' /\ FileMirrors'
  BY <1>2, <1>3 DEF SavedWhole, Saved, FileMirrors, Quiet, SnoozeInv, SnoozeSafe
<1>7. OneCall' /\ Beside'
  BY <1>2, <1>3 DEF OneCall, Beside, SnoozeInv
<1>8. Promise'
  <2>1. ASSUME ~unsaved' PROVE InForce(promised) \in {InForce(kept), NoPause}
    <3>1. ~unsaved /\ \A u \in Users : pc[u] = "idle"
      BY <1>4, <2>1
    <3>2. CASE Quiet
      BY <3>1, <3>2 DEF SnoozeInv, SnoozeSafe, FileMirrors, SavedWhole, loadSnooze, Promise
    <3>3. CASE ~Quiet
      <4>1. pc["tick"] # "idle" \/ pc["main"] # "idle"
        BY <3>1, <3>3 DEF Quiet, Crash, Callers
      <4>2. QED
        BY <4>1 DEF SnoozeInv, Promise
    <3>4. QED
      BY <3>2, <3>3
  <2>2. InForce(promised)' = InForce(promised) /\ InForce(kept)' = InForce(kept)
    BY <1>3 DEF InForce, snoozeOver
  <2>3. QED
    BY <1>1, <1>2, <2>1, <2>2 DEF Promise, Quiet
<1>9. QED
  BY <1>5, <1>6, <1>7, <1>8 DEF SnoozeInv, SnoozeSafe

\* A pause that is over stays over, and two that come to the same still do.
LEMMA TimeOnlyEnds ==
  ASSUME SnoozeTypeOK, TimePasses, NEW p \in Pauses, NEW q \in Pauses,
         p' = p, q' = q
  PROVE  /\ InForce(p) = NoPause => InForce(p)' = NoPause
         /\ InForce(p) = InForce(q) => InForce(p)' = InForce(q)'
BY DEF SnoozeTypeOK, TimePasses, InForce, snoozeOver, Pauses, NoPause, Forever, SnoozeAssumption

LEMMA TimeKeeps ==
  ASSUME SnoozeInv, TimePasses
  PROVE  SnoozeInv'
<1>1. UNCHANGED <<app, mem, pc, val, fd, tmp, file, content, kept, promised, unsaved>>
  BY DEF TimePasses, fsVars
<1>2. SnoozeTypeOK'
  BY <1>1 DEF SnoozeInv, SnoozeSafe, SnoozeTypeOK, TimePasses, SnoozeAssumption
<1>3. SavedWhole' /\ OneCall' /\ Beside'
  BY <1>1 DEF SnoozeInv, SnoozeSafe, SavedWhole, Saved, OneCall, Beside
<1>4. {mem, kept, promised} \subseteq Pauses /\ NoPause \in Pauses
  BY DEF SnoozeInv, SnoozeSafe, SnoozeTypeOK, Pauses, NoPause, SnoozeAssumption
<1>5. /\ InForce(promised) = NoPause => InForce(promised)' = NoPause
      /\ InForce(kept) = InForce(mem) => InForce(kept)' = InForce(mem)'
      /\ InForce(promised) = InForce(kept) => InForce(promised)' = InForce(kept)'
  BY <1>1, <1>4, TimeOnlyEnds DEF SnoozeInv, SnoozeSafe
<1>6. FileMirrors'
  BY <1>1, <1>3, <1>5
     DEF FileMirrors, SnoozeInv, SnoozeSafe, SavedWhole, loadSnooze, Quiet
<1>7. Promise'
  BY <1>1, <1>5 DEF Promise, SnoozeInv, Quiet
<1>8. QED
  BY <1>2, <1>3, <1>6, <1>7 DEF SnoozeInv, SnoozeSafe

LEMMA SnoozeStutters ==
  ASSUME SnoozeInv, UNCHANGED snoozeVars
  PROVE  SnoozeInv'
BY DEF snoozeVars, SnoozeInv, SnoozeSafe, SnoozeTypeOK, SavedWhole, Saved, FileMirrors,
       loadSnooze, Quiet, OneCall, Beside, Promise, InForce, snoozeOver

LEMMA SnoozeGoesOn ==
  ASSUME ~Overlap
  PROVE  SnoozeInv /\ [SnoozeNext]_snoozeVars => SnoozeInv'
<1>1. ASSUME SnoozeInv, SnoozeNext PROVE SnoozeInv'
  <2>1. CASE \E u \in Users, p \in Pauses : UserSets(u, p)
    BY <1>1, <2>1, UserSetsKeeps
  <2>2. CASE TickChecks \/ TickLifts
    BY <1>1, <2>2, TickChecksKeeps, TickLiftsKeeps
  <2>3. CASE \E c \in Callers : Save(c)
    BY <1>1, <2>3, OpenKeeps, WriteKeeps, RenameKeeps, FailKeeps DEF Save
  <2>4. CASE Boot \/ Crash \/ TimePasses
    BY <1>1, <2>4, BootKeeps, CrashKeeps, TimeKeeps
  <2>5. QED
    BY <1>1, <2>1, <2>2, <2>3, <2>4 DEF SnoozeNext
<1>2. QED
  BY <1>1, SnoozeStutters

\* The pause is on file, whole, after whatever failed or was cut short, and
\* says what the scheduler does unless the last save failed (saveSnooze, and
\* the hook of setOverride), for any users and times: where no two changes of
\* the pause overlap.
THEOREM PauseStaysSaved ==
  ASSUME ~Overlap
  PROVE  SnoozeSpec => []SnoozeSafe
<1>1. SnoozeInv => SnoozeSafe
  BY DEF SnoozeInv
<1>2. QED
  BY <1>1, SnoozeStarts, SnoozeGoesOn, PTL DEF SnoozeSpec

\* A restart does not bring the miner back before a pause is over
\* (keepPauseAcrossRestarts), unless its last change was not saved.
THEOREM RestartKeepsThePause ==
  ASSUME ~Overlap
  PROVE  SnoozeSpec => NeverBackEarly
<1>1. SnoozeInv /\ [SnoozeNext]_snoozeVars
        => [app = "down" /\ app' = "up" /\ mem' = NoPause
              => InForce(promised) = NoPause \/ unsaved]_snoozeVars
  <2> SUFFICES ASSUME SnoozeInv, SnoozeNext, app = "down", app' = "up", mem' = NoPause,
                      ~unsaved
               PROVE  InForce(promised) = NoPause
    OBVIOUS
  <2>1. Boot
    BY DEF SnoozeNext, UserSets, TickChecks, TickLifts, Save, Open, Write, Rename, Fail,
           Crash, TimePasses
  <2>2. InForce(kept) = NoPause
    BY <2>1 DEF Boot, setOverride, loadSnooze, SnoozeInv, SnoozeSafe, SavedWhole
  <2>3. QED
    BY <2>2 DEF SnoozeInv, Promise
<1>2. QED
  BY <1>1, SnoozeStarts, SnoozeGoesOn, PTL DEF SnoozeSpec, NeverBackEarly
=============================================================================

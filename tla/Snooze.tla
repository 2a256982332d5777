-------------------------------- MODULE Snooze -------------------------------
(***************************************************************************)
(* The user's pause and the file that keeps it across restarts:            *)
(* internal/core/snooze.go and the setOverride of the scheduler that calls *)
(* it.  setOverride changes the pause under s.mu and calls the hook after  *)
(* the unlock; the hook writes snooze.json.tmp and renames it over         *)
(* snooze.json.  The file system is modelled as far as two savers can meet *)
(* in it: names, inodes, and descriptors that outlive a rename.            *)
(*                                                                         *)
(* A crash is the end of the process at any step.  The files are then as   *)
(* the last system call left them: a power cut that loses what was not yet *)
(* written to the disk is not modelled.                                    *)
(***************************************************************************)
EXTENDS Integers, FiniteSets

CONSTANTS Users,       \* goroutines that call SetOverride and PauseUntil
          MaxNow,      \* bound: the last instant
          Inodes,      \* inodes the two names may use
          SaveFails,   \* a system call of saveSnooze may fail
          Overlap      \* two setOverride calls may be under way at once

Callers == Users \cup {"main", "tick"}
None == "none"          \* a name that is not there, a descriptor not open

ASSUME SnoozeAssumption == /\ MaxNow \in Nat \ {0}
                           /\ Users \cap {"main", "tick"} = {}
                           /\ IsFiniteSet(Users)
                           /\ IsFiniteSet(Inodes)
                           /\ Cardinality(Inodes) >= Cardinality(Users) + 4
                           /\ None \notin Inodes
                           /\ SaveFails \in BOOLEAN
                           /\ Overlap \in BOOLEAN

\* A pause is its deadline; Forever is the zero time, "until I resume".
NoPause == -1
Forever == 0
Pauses == NoPause..MaxNow

\* What else an inode may hold: nothing, or no JSON.
Empty == -2
Torn == -3

VARIABLES now,          \* the clock
          app,          \* the process: "down" or "up"
          mem,          \* the pause in force: s.override with s.pauseUntil
          pc,           \* caller -> where its setOverride stands
          val,          \* caller -> the pause it saves
          fd,           \* caller -> the inode it has open
          tmp, file,    \* the inodes the names snooze.json(.tmp) lead to
          content,      \* inode -> what is in it
          kept,         \* history: the pause saved last
          promised,     \* history: the pause in force when last nothing moved
          unsaved       \* history: the last change was not saved, or cut short

snoozeVars == <<now, app, mem, pc, val, fd, tmp, file, content, kept, promised, unsaved>>
fsVars == <<fd, tmp, file, content, kept>>

SnoozeTypeOK ==
  /\ now \in 1..MaxNow
  /\ app \in {"down", "up"}
  /\ mem \in Pauses
  /\ pc \in [Callers -> {"idle", "lift", "open", "write", "rename"}]
  /\ val \in [Callers -> Pauses]
  /\ fd \in [Callers -> Inodes \cup {None}]
  /\ {tmp, file} \subseteq Inodes \cup {None}
  /\ content \in [Inodes -> Pauses \cup {Empty, Torn}]
  /\ kept \in Pauses
  /\ promised \in Pauses
  /\ unsaved \in BOOLEAN

SnoozeInit == /\ now = 1
              /\ app = "down"
              /\ mem = NoPause
              /\ pc = [c \in Callers |-> "idle"]
              /\ val = [c \in Callers |-> NoPause]
              /\ fd = [c \in Callers |-> None]
              /\ tmp = None
              /\ file = None
              /\ content = [i \in Inodes |-> Empty]
              /\ kept = NoPause
              /\ promised = NoPause
              /\ unsaved = FALSE

-----------------------------------------------------------------------------
snoozeOver(p) == p > Forever /\ now >= p
InForce(p) == IF snoozeOver(p) THEN NoPause ELSE p

\* What the file says to a reader.  A missing or unreadable file is no pause.
Saved == IF file = None THEN NoPause
         ELSE IF content[file] \in {Empty, Torn} THEN NoPause ELSE content[file]

loadSnooze == InForce(Saved)

Quiet == app = "up" /\ \A c \in Callers : pc[c] = "idle"

\* keepPauseAcrossRestarts runs before the tick goroutine and before anyone
\* has a scheduler to call.
MayCall(c) == /\ app = "up"
              /\ pc[c] = "idle"
              /\ pc["main"] = "idle"
              /\ Overlap \/ Quiet

CallerGoes(c, from, to) == pc[c] = from /\ pc' = [pc EXCEPT ![c] = to]

-----------------------------------------------------------------------------
(* setOverride under the lock; what follows is the hook.                   *)

setOverride(c, p) == /\ mem' = p
                     /\ val' = [val EXCEPT ![c] = p]

SavesOnlyPauses(u, p) ==
  /\ MayCall(u)
  /\ CallerGoes(u, "idle", IF p = NoPause THEN "idle" ELSE "open")
  /\ p > Forever => p > now
  /\ setOverride(u, p)
  /\ UNCHANGED <<now, app, fsVars, promised, unsaved>>

UserSets(u, p) ==
  /\ MayCall(u)
  /\ CallerGoes(u, "idle", "open")
  /\ p > Forever => p > now
  /\ setOverride(u, p)
  /\ UNCHANGED <<now, app, fsVars, promised, unsaved>>

\* endExpiredSnooze: the check under the lock, and then, after the unlock,
\* the setOverride that lifts whatever pause there is by then.
TickChecks ==
  /\ MayCall("tick")
  /\ snoozeOver(mem)
  /\ CallerGoes("tick", "idle", "lift")
  /\ UNCHANGED <<now, app, mem, val, fsVars, promised, unsaved>>

TickLifts ==
  /\ CallerGoes("tick", "lift", "open")
  /\ setOverride("tick", NoPause)
  /\ UNCHANGED <<now, app, fsVars, promised, unsaved>>

-----------------------------------------------------------------------------
(* saveSnooze.  The last step of a call is also the end of a quiet-less    *)
(* spell when no other call is under way.                                  *)

Settles(c) == promised' = IF \A d \in Callers \ {c} : pc[d] = "idle" THEN mem ELSE promised

Free == {i \in Inodes : i \notin {tmp, file} /\ \A c \in Callers : fd[c] # i}

OpenInPlace(c) ==
  /\ CallerGoes(c, "open", "write")
  /\ \E i \in IF file = None THEN Free ELSE {file} :
       /\ file' = i
       /\ fd' = [fd EXCEPT ![c] = i]
       /\ content' = [content EXCEPT ![i] = Empty]
  /\ UNCHANGED <<now, app, mem, val, tmp, kept, promised, unsaved>>

\* os.WriteFile opens the name: it truncates the inode that is there.
Open(c) ==
  /\ CallerGoes(c, "open", "write")
  /\ \E i \in IF tmp = None THEN Free ELSE {tmp} :
       /\ tmp' = i
       /\ fd' = [fd EXCEPT ![c] = i]
       /\ content' = [content EXCEPT ![i] = Empty]
  /\ UNCHANGED <<now, app, mem, val, file, kept, promised, unsaved>>

\* It writes to the inode it opened, whatever that is called by now; over
\* another text of another length something of that text may remain.
Write(c) ==
  /\ CallerGoes(c, "write", "rename")
  /\ \E t \in IF content[fd[c]] \in {Empty, val[c]} THEN {val[c]} ELSE {val[c], Torn} :
       content' = [content EXCEPT ![fd[c]] = t]
  /\ fd' = [fd EXCEPT ![c] = None]
  /\ UNCHANGED <<now, app, mem, val, tmp, file, kept, promised, unsaved>>

\* With the name gone the rename fails, and that is logged.
Rename(c) ==
  /\ CallerGoes(c, "rename", "idle")
  /\ unsaved' = (tmp = None)
  /\ IF tmp = None
     THEN UNCHANGED <<tmp, file, kept>>
     ELSE file' = tmp /\ tmp' = None /\ kept' = val[c]
  /\ Settles(c)
  /\ UNCHANGED <<now, app, mem, val, fd, content>>

Fail(c) ==
  /\ SaveFails
  /\ \E at \in {"open", "write", "rename"} : CallerGoes(c, at, "idle")
  /\ fd' = [fd EXCEPT ![c] = None]
  /\ unsaved' = TRUE
  /\ Settles(c)
  /\ UNCHANGED <<now, app, mem, val, tmp, file, content, kept>>

Save(c) == Open(c) \/ Write(c) \/ Rename(c) \/ Fail(c)

-----------------------------------------------------------------------------
(* The process, and time.                                                  *)

\* keepPauseAcrossRestarts: a saved pause is set again, hook included.
Boot ==
  /\ app = "down"
  /\ app' = "up"
  /\ LET p == loadSnooze
     IN  /\ setOverride("main", p)
         /\ pc' = [pc EXCEPT !["main"] = IF p = NoPause THEN "idle" ELSE "open"]
         /\ promised' = p
  /\ unsaved' = FALSE
  /\ UNCHANGED <<now, fsVars>>

Crash ==
  /\ app = "up"
  /\ app' = "down"
  /\ mem' = NoPause
  /\ pc' = [c \in Callers |-> "idle"]
  /\ val' = [c \in Callers |-> NoPause]
  /\ fd' = [c \in Callers |-> None]
  /\ unsaved' = (unsaved \/ \E u \in Users : pc[u] # "idle")
  /\ UNCHANGED <<now, tmp, file, content, kept, promised>>

TimePasses ==
  /\ now < MaxNow
  /\ now' = now + 1
  /\ UNCHANGED <<app, mem, pc, val, fsVars, promised, unsaved>>

SnoozeNext == \/ \E u \in Users, p \in Pauses : UserSets(u, p)
              \/ TickChecks
              \/ TickLifts
              \/ \E c \in Callers : Save(c)
              \/ Boot
              \/ Crash
              \/ TimePasses

SnoozeSpec == SnoozeInit /\ [][SnoozeNext]_snoozeVars

-----------------------------------------------------------------------------
(* Properties.                                                             *)

\* Whatever is interrupted and whatever fails, the file holds, whole, the
\* pause that was saved last (saveSnooze writes beside and renames).
SavedWhole == Saved = kept

\* With no call under way the file says what the scheduler does, unless the
\* last save failed: "the file always mirrors what the scheduler is doing,
\* whichever path changed it".
FileMirrors == Quiet /\ ~unsaved => loadSnooze = InForce(mem)

\* What holds of every state.
SnoozeSafe == SnoozeTypeOK /\ SavedWhole /\ FileMirrors

\* "A reboot never brings the miner back early": a restart that finds no
\* pause follows a run whose pause was over or lifted, or whose last
\* change was not saved: the save failed or the end cut a user's call short.
NeverBackEarly ==
  [][app = "down" /\ app' = "up" /\ mem' = NoPause
       => InForce(promised) = NoPause \/ unsaved]_snoozeVars
=============================================================================

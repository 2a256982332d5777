------------------------------- MODULE Ledger -------------------------------
(***************************************************************************)
(* What the scheduler remembers of its ticks: the ring of recent samples   *)
(* the chart is drawn from (internal/stats), and the ledger of hashrate by *)
(* the minute behind the 30-minute and 24-hour rates, saved on a timer and *)
(* at shutdown, restored at the next start (internal/core).                *)
(*                                                                         *)
(* Time is the wall clock, which may be set back: it is counted in half    *)
(* minutes, so that a minute has begun before it is over.                  *)
(***************************************************************************)
EXTENDS Integers, Sequences, FiniteSets, SequencesExt, FiniteSetsExt

CONSTANTS Hashrates,   \* what a sample may say: none, while suspended
          Capacity,    \* the ring's
          LedgerSpan,  \* 24 hours
          Windows,     \* the windows rates are quoted for
          MaxClock, MaxSamples, MaxSaves, MaxSteps, MaxLives, \* bounds
          Absent,      \* no file
          Torn         \* a file that does not decode

Savers == {"timer", "shutdown"}
Samples == [at : Nat, rate : Nat]
Ledgers == Seq([at : Nat, sum : Nat, n : Nat])

ASSUME LedgerAssumption ==
  /\ Hashrates \subseteq Nat /\ Windows \subseteq Nat \ {0}
  /\ Capacity \in Nat \ {0} /\ LedgerSpan \in Nat
  /\ Absent \notin Ledgers /\ Torn \notin Ledgers /\ Absent # Torn
  /\ {MaxClock, MaxSamples, MaxSaves, MaxSteps, MaxLives} \subseteq Nat

VARIABLES
  clock,       \* the wall clock
  phase,       \* "off", "mining", "stopping" (the scheduler has stopped)
  buf, next, full,  \* Ring
  minutes,     \* Ledger.minutes
  file, tmp,   \* ledger.json and ledger.json.tmp
  save, data,  \* each Save: its next step, its bytes
  history,     \* every sample of this life
  stepped,     \* the clock was set back in this life
  overlapped,  \* two Saves met
  samples, saves, steps, lives  \* counts, bounded

ring == <<buf, next, full>>
disk == <<file, tmp>>
saving == <<save, data>>
bounds == <<samples, saves, steps, lives>>
ledgerVars == <<clock, phase, ring, minutes, disk, saving, history, stepped,
                overlapped, bounds>>

-----------------------------------------------------------------------------
(* Ring.                                                                   *)

Blank == [at |-> 0, rate |-> 0]
RingAdd(s) == /\ buf' = [buf EXCEPT ![next] = s]
              /\ next' = (next + 1) % Capacity
              /\ full' = (full \/ next' = 0)

Snapshot == LET upto(i, j) == [k \in 1..(j - i) |-> buf[i + k - 1]]
            IN  IF full THEN upto(next, Capacity) \o upto(0, next)
                ELSE upto(0, next)

\* The tail within window of the newest sample, and its mean as sum and count.
Since(ss, window) ==
  LET old == {i \in DOMAIN ss : ss[i].at < Last(ss).at - window}
  IN  IF ss = <<>> THEN <<>> ELSE SubSeq(ss, Max({0} \cup old) + 1, Len(ss))
Mean(ss, window) ==
  LET in == Since(ss, window)
  IN  [sum |-> FoldLeft(LAMBDA x, s : x + s.rate, 0, in), n |-> Len(in)]

-----------------------------------------------------------------------------
(* Ledger.                                                                 *)

MinuteOf(t) == t - (t % 2)

prune(ms, now) ==
  LET kept == {i \in DOMAIN ms : ms[i].at >= now - LedgerSpan}
  IN  IF kept = {} THEN <<>> ELSE SubSeq(ms, Min(kept), Len(ms))

LedgerAdd(ms, s) ==
  LET at == MinuteOf(s.at)
      last == Len(ms)
  IN  IF ms # <<>> /\ ms[last].at = at
      THEN [ms EXCEPT ![last].sum = @ + s.rate, ![last].n = @ + 1]
      ELSE prune(Append(ms, [at |-> at, sum |-> s.rate, n |-> 1]), s.at)

\* Rate walks back from the newest minute for as long as it is in the window,
\* and needs half the window covered; its mean is sum over n.
Rate(window) ==
  LET old == {i \in DOMAIN minutes : minutes[i].at < clock - window}
      in == SubSeq(minutes, Max({0} \cup old) + 1, Len(minutes))
  IN  [ok |-> in # <<>> /\ 4 * Len(in) >= window,
       sum |-> FoldLeft(LAMBDA x, m : x + m.sum, 0, in),
       n |-> FoldLeft(LAMBDA x, m : x + m.n, 0, in)]

LoadAsIs(f, now) == IF f \in {Absent, Torn} THEN <<>> ELSE prune(f, now)

\* Load keeps what is in order and not in the future; a file it cannot read
\* leaves the ledger empty.
Load(f, now) ==
  LET take(ms, m) == IF m.at > now \/ (ms # <<>> /\ m.at <= Last(ms).at)
                     THEN ms ELSE Append(ms, m)
  IN  IF f \in {Absent, Torn} THEN <<>>
      ELSE prune(FoldLeft(take, <<>>, f), now)

-----------------------------------------------------------------------------
LedgerTypeOK ==
  /\ clock \in 0..MaxClock /\ phase \in {"off", "mining", "stopping"}
  /\ buf \in [0..(Capacity - 1) -> Samples]
  /\ next \in 0..(Capacity - 1) /\ full \in BOOLEAN
  /\ minutes \in Ledgers
  /\ {file, tmp} \subseteq Ledgers \cup {Absent, Torn}
  /\ save \in [Savers -> {"idle", "write", "rename", "done"}]
  /\ data \in [Savers -> Ledgers]
  /\ history \in Seq(Samples)
  /\ stepped \in BOOLEAN /\ overlapped \in BOOLEAN
  /\ samples \in 0..MaxSamples /\ saves \in 0..MaxSaves
  /\ steps \in 0..MaxSteps /\ lives \in 0..MaxLives

NoSave == /\ save = [p \in Savers |-> "idle"]
          /\ data = [p \in Savers |-> <<>>]

LedgerInit == /\ clock = 0 /\ phase = "off"
              /\ buf = [i \in 0..(Capacity - 1) |-> Blank] /\ next = 0
              /\ full = FALSE /\ minutes = <<>>
              /\ file = Absent /\ tmp = Absent /\ NoSave
              /\ history = <<>> /\ stepped = FALSE /\ overlapped = FALSE
              /\ samples = 0 /\ saves = 0 /\ steps = 0 /\ lives = 0

\* startScheduler: an empty ring, the ledger restored.
Start ==
  /\ phase = "off" /\ lives < MaxLives /\ lives' = lives + 1
  /\ phase' = "mining"
  /\ minutes' = Load(file, clock)
  /\ UNCHANGED <<clock, ring, disk, saving, history, stepped, overlapped,
                 samples, saves, steps>>

\* record: a tick's sample, whatever its rate.
record ==
  /\ phase = "mining" /\ samples < MaxSamples /\ samples' = samples + 1
  /\ \E rate \in Hashrates :
       LET s == [at |-> clock, rate |-> rate]
       IN  /\ RingAdd(s)
           /\ minutes' = LedgerAdd(minutes, s)
           /\ history' = Append(history, s)
  /\ UNCHANGED <<clock, phase, disk, saving, stepped, overlapped, saves, steps,
                 lives>>

Passes == /\ clock < MaxClock /\ clock' = clock + 1
          /\ UNCHANGED <<phase, ring, minutes, disk, saving, history, stepped,
                         overlapped, bounds>>
SetBack == /\ steps < MaxSteps /\ steps' = steps + 1
           /\ clock' \in 0..(clock - 1)
           /\ stepped' = (phase # "off")
           /\ UNCHANGED <<phase, ring, minutes, disk, saving, history,
                          overlapped, samples, saves, lives>>

\* Shutdown stops the scheduler, tells the timer to end without waiting for
\* a Save it is in, and saves.
Stop == /\ phase = "mining" /\ phase' = "stopping"
        /\ UNCHANGED <<clock, ring, minutes, disk, saving, history, stepped,
                       overlapped, bounds>>

Goes(p, from, to) == save[p] = from /\ save' = [save EXCEPT ![p] = to]

\* Save makes its bytes under the lock ...
SaveBegins(p) ==
  /\ phase # "off" /\ (p = "shutdown" => phase = "stopping")
  /\ Goes(p, "idle", "write") /\ saves < MaxSaves /\ saves' = saves + 1
  /\ data' = [data EXCEPT ![p] = minutes]
  /\ overlapped' = (overlapped \/ \E q \in Savers \ {p} :
                                    save[q] \in {"write", "rename"})
  /\ UNCHANGED <<clock, phase, ring, minutes, disk, history, stepped, samples,
                 steps, lives>>

WrittenInPlace(p) ==
  /\ Goes(p, "write", "rename")
  /\ file' = Torn
  /\ data' = [data EXCEPT ![p] = <<>>]
  /\ UNCHANGED <<clock, phase, ring, minutes, tmp, history, stepped,
                 overlapped, bounds>>

\* ... writes them to path.tmp, cutting short what it finds there: what a
\* Save that was killed left, or another, still under way, has written ...
TmpWritten(p) ==
  /\ Goes(p, "write", "rename")
  /\ tmp' \in {data[p]} \cup IF overlapped THEN {Torn} ELSE {}
  /\ data' = [data EXCEPT ![p] = <<>>]
  /\ UNCHANGED <<clock, phase, ring, minutes, file, history, stepped,
                 overlapped, bounds>>

\* ... and renames it over the last one.  Another Save may have done so
\* already, or may yet write into the file it opened.
Renamed(p) ==
  /\ Goes(p, "rename", IF p = "timer" THEN "idle" ELSE "done")
  /\ IF tmp = Absent THEN UNCHANGED disk
     ELSE /\ file' \in {tmp} \cup IF overlapped THEN {Torn} ELSE {}
          /\ tmp' = Absent
  /\ UNCHANGED <<clock, phase, ring, minutes, data, history, stepped,
                 overlapped, bounds>>

\* The disk is full, or the directory gone: the error is logged.
SaveFails(p) ==
  /\ Goes(p, "write", IF p = "timer" THEN "idle" ELSE "done")
  /\ data' = [data EXCEPT ![p] = <<>>]
  /\ UNCHANGED <<clock, phase, ring, minutes, disk, history, stepped,
                 overlapped, bounds>>

\* The process exits, or is killed at any step of it.
Ends == /\ phase # "off" /\ phase' = "off"
        /\ buf' = [i \in 0..(Capacity - 1) |-> Blank] /\ next' = 0
        /\ full' = FALSE /\ minutes' = <<>>
        /\ history' = <<>> /\ stepped' = FALSE
        /\ save' = [p \in Savers |-> "idle"]
        /\ data' = [p \in Savers |-> <<>>]
        /\ UNCHANGED <<clock, disk, overlapped, bounds>>

LedgerNext == \/ Start \/ record \/ Passes \/ SetBack \/ Stop \/ Ends
              \/ \E p \in Savers : \/ SaveBegins(p) \/ TmpWritten(p)
                                   \/ Renamed(p) \/ SaveFails(p)

LedgerSpec == LedgerInit /\ [][LedgerNext]_ledgerVars

-----------------------------------------------------------------------------
\* In a life the clock was not set back in, a rate is the mean of all the
\* samples kept of distinct minutes of the window, none of them still to
\* come, and is quoted only with half of them: whatever the clock did to the
\* lives before, whose minutes may be on file in any order or ahead of it.
RateHonest ==
  phase # "off" /\ ~stepped =>
    \A w \in Windows :
      LET in == {i \in DOMAIN minutes : minutes[i].at \in (clock - w)..clock}
          r == Rate(w)
      IN  /\ r.n = FoldSet(LAMBDA i, x : x + minutes[i].n, 0, in)
          /\ r.sum = FoldSet(LAMBDA i, x : x + minutes[i].sum, 0, in)
          /\ r.ok => 4 * Cardinality({minutes[i].at : i \in in}) >= w

\* The chart shows the last samples of this life, oldest
\* first, and the mean it quotes is of those within its window.
HistoryIsLast ==
  phase # "off" =>
    LET from == Max({0, Len(history) - Capacity})
        kept == SubSeq(history, from + 1, Len(history))
    IN  /\ Snapshot = kept
        /\ ~stepped => \A w \in Windows :
             Mean(Snapshot, w).n =
               Cardinality({i \in DOMAIN kept :
                              kept[i].at >= Last(kept).at - w})

\* What holds of every state.
LedgerSafe == LedgerTypeOK /\ HistoryIsLast /\ RateHonest

\* Nothing saved is lost: until the clock is set back or two Saves meet, the
\* file never goes without a minute of the last day it held, or some of its
\* samples, however the program ends and starts again.
FileKeeps ==
  [][steps' = 0 /\ ~overlapped' /\ file # Absent =>
       /\ file \in Ledgers /\ file' \in Ledgers
       /\ \A i \in DOMAIN file : file[i].at >= clock - LedgerSpan =>
            \E j \in DOMAIN file' : /\ file'[j].at = file[i].at
                                    /\ file'[j].n >= file[i].n
                                    /\ file'[j].sum >= file[i].sum]_ledgerVars
=============================================================================

------------------------------ MODULE Payouts -------------------------------
(***************************************************************************)
(* What is known of the mining's results, from p2pool to the tray of a     *)
(* paired desktop: the payouts p2pool's log announces, recorded and saved  *)
(* by the hub (stats/payouts.go, core/ledger.go), the statistics it writes *)
(* to files (engine/p2poolapi.go), and the desktop that asks for both over *)
(* the LAN or the hub's onion (core/hub.go, hub/api.go).                   *)
(*                                                                         *)
(* A payout is the height of its block.  p2pool prints each more than      *)
(* once; its reader saves as it reads, and is done with one p2pool's last  *)
(* line long before the next p2pool prints a payout.  The file of payouts  *)
(* is called the book here, to tell it from the ledger's.                  *)
(***************************************************************************)
EXTENDS Naturals, Sequences, FiniteSets, SequencesExt, FiniteSetsExt,
        Functions

CONSTANTS Heights,     \* of the blocks that pay
          payoutsKept, \* 50
          Shared,      \* how many the hub's API answers with: 10
          Stats,       \* the statistics files
          Needed,      \* those without which nothing is read
          MaxLines, MaxTurns, MaxEnds, MaxMoves  \* bounds

VARIABLES
  hub,        \* "off", "starting", "failed", "serving"
  lines,      \* what p2pool has printed and nobody read
  list,       \* Payouts.list, newest first
  booking,    \* Save's next step
  book, bookTmp,  \* payouts.json and payouts.json.tmp
  turn, stats, cached, \* p2pool's figures; its files; what pollStats holds
  seen,       \* the desktop's own record
  house,      \* the figures of the last answer
  place,      \* where the desktop is
  ends, moves \* counts, bounded

records == <<list, booking, book, bookTmp>>
figures == <<turn, stats, cached>>
desktop == <<seen, house>>
limits == <<ends, moves>>
payoutsVars == <<hub, lines, records, figures, desktop, place, limits>>

ASSUME PayoutsAssumption ==
  /\ Heights \subseteq Nat \ {0}
  /\ payoutsKept \in Nat \ {0} /\ Shared \in Nat
  /\ Needed \subseteq Stats
  /\ MaxTurns \in Nat \ {0} /\ {MaxLines, MaxEnds, MaxMoves} \subseteq Nat

-----------------------------------------------------------------------------
Ordered(ps) == \A i, j \in DOMAIN ps : i < j => ps[i] > ps[j]

\* What sort.SliceStable makes of payouts with different heights.
newestFirst(hs) == CHOOSE ps \in [1..Cardinality(hs) -> hs] : Ordered(ps)

RecordAgain(ps, h) ==
  LET sorted == SortSeq(Append(ps, h), LAMBDA a, b : a > b)
  IN  SubSeq(sorted, 1, Min({payoutsKept, Len(sorted)}))

\* Record: once per block, by height, the newest payoutsKept.
Record(ps, h) ==
  IF h \in Range(ps) THEN ps
  ELSE LET sorted == newestFirst(Range(ps) \cup {h})
       IN  SubSeq(sorted, 1, Min({payoutsKept, Len(sorted)}))

Recent(n) == SubSeq(list, 1, Min({n, Len(list)}))

None == [f \in Stats |-> 0]
Known(fs) == \A f \in Needed : fs[f] # 0

\* At home the LAN answers; elsewhere the address is nobody's, or somebody
\* else's, whose certificate is refused, and the onion may answer instead.
Places == {"home", "tor", "offline"}
Reached == hub = "serving" /\ place # "offline"

-----------------------------------------------------------------------------
PayoutsTypeOK ==
  /\ hub \in {"off", "starting", "failed", "serving"}
  /\ lines \in Seq(Heights)
  /\ {list, seen} \subseteq Seq(Heights)
  /\ booking \in {"idle", "write", "rename"}
  /\ {book, bookTmp} \subseteq Seq(Heights)
  /\ turn \in 0..MaxTurns
  /\ {stats, cached, house} \subseteq [Stats -> 0..MaxTurns]
  /\ place \in Places
  /\ ends \in 0..MaxEnds /\ moves \in 0..MaxMoves

PayoutsInit == /\ hub = "off" /\ lines = <<>>
               /\ list = <<>> /\ booking = "idle"
               /\ book = <<>> /\ bookTmp = <<>>
               /\ turn = 1 /\ stats = None /\ cached = None
               /\ seen = <<>> /\ house = None
               /\ place = "home"
               /\ ends = 0 /\ moves = 0

\* Load replaces the record; a file that is not there leaves it.  In a new
\* process it is empty, after a failed start it is as it was.
LoadPayouts == /\ hub \in {"off", "failed"} /\ booking = "idle" /\ hub' = "starting"
               /\ list' = IF book = <<>> THEN list
                          ELSE FoldLeft(Record, <<>>, book)
               /\ UNCHANGED <<lines, booking, book, bookTmp, figures, desktop,
                              place, limits>>

Serves == /\ hub = "starting" /\ hub' = "serving"
          /\ UNCHANGED <<lines, records, figures, desktop, place,
                         limits>>

\* Start's failure stops p2pool: what it printed and was not read is lost.
StartFails == /\ hub = "starting" /\ hub' = "failed"
              /\ ends < MaxEnds /\ ends' = ends + 1
              /\ lines' = <<>>
              /\ UNCHANGED <<records, figures, desktop, place, moves>>

\* The process ends, at any step.
HubEnds == /\ hub # "off" /\ hub' = "off"
           /\ ends < MaxEnds /\ ends' = ends + 1
           /\ lines' = <<>> /\ list' = <<>>
           /\ booking' = "idle" /\ cached' = None
           /\ UNCHANGED <<book, bookTmp, turn, stats, desktop,
                          place, moves>>

Running == hub \in {"starting", "serving"}

\* p2pool prints a payout: from the pool's side, again from the sidechain's,
\* and after a restart.
Prints == \E h \in Heights :
  /\ Running /\ Len(lines) < MaxLines
  /\ lines' = Append(lines, h)
  /\ UNCHANGED <<hub, records, figures, desktop, place, limits>>

\* readOutput takes a line for a payout: recordPayout records it, and saves
\* if it was new.
Reads == /\ Running /\ lines # <<>> /\ booking = "idle"
         /\ lines' = Tail(lines)
         /\ list' = Record(list, Head(lines))
         /\ IF Head(lines) \in Range(list) THEN UNCHANGED booking
            ELSE booking' = "write"
         /\ UNCHANGED <<hub, book, bookTmp, figures, desktop,
                        place, limits>>

BookWritten == /\ booking = "write" /\ booking' = "rename" /\ bookTmp' = list
               /\ UNCHANGED <<hub, lines, list, book,
                              figures, desktop, place, limits>>

BookRenamed == /\ booking = "rename" /\ booking' = "idle"
               /\ book' = bookTmp /\ bookTmp' = <<>>
               /\ UNCHANGED <<hub, lines, list, figures, desktop, place,
                              limits>>

\* Logged, and tried again with the next payout.
BookFails == /\ booking # "idle" /\ booking' = "idle"
             /\ UNCHANGED <<hub, lines, list, book, bookTmp,
                            figures, desktop, place, limits>>

-----------------------------------------------------------------------------
\* p2pool has new figures, and writes each file anew, one at a time.
NewFigures == /\ Running /\ turn < MaxTurns /\ turn' = turn + 1
              /\ UNCHANGED <<hub, lines, records, stats, cached,
                             desktop, place, limits>>
WriteStats == \E f \in Stats :
  /\ Running /\ stats[f] # turn
  /\ stats' = [stats EXCEPT ![f] = turn]
  /\ UNCHANGED <<hub, lines, records, turn, cached, desktop, place,
                 limits>>

\* readStats: nothing is taken until the needed files are all there; files of
\* the p2pool before are taken for this one's.
readStats == /\ Running /\ Known(stats) /\ cached' = stats
             /\ UNCHANGED <<hub, lines, records, turn, stats, desktop,
                            place, limits>>

-----------------------------------------------------------------------------
\* The desktop's kind-miner ends and is started again: one that mines to a
\* hub saves no payouts of its own.
DeskRestarts == /\ moves < MaxMoves /\ moves' = moves + 1
                /\ seen' = <<>> /\ house' = None
                /\ UNCHANGED <<hub, lines, records, figures, place,
                               ends>>
Moves == /\ moves < MaxMoves /\ moves' = moves + 1
         /\ place' \in Places \ {place}
         /\ UNCHANGED <<hub, lines, records, figures, desktop, ends>>

watchOnce ==
  /\ Reached /\ house = None
  /\ house' = cached
  /\ seen' = FoldLeft(Record, seen, Recent(Shared))
  /\ UNCHANGED <<hub, lines, records, figures, place, limits>>

\* watchHousehold: the last answer's figures stay when the next fails.  An
\* answer with no statistics in it yet replaces them.
watchHousehold ==
  /\ Reached
  /\ house' = cached
  /\ seen' = FoldLeft(Record, seen, Recent(Shared))
  /\ UNCHANGED <<hub, lines, records, figures, place, limits>>

PayoutsNext == \/ LoadPayouts \/ Serves \/ StartFails \/ HubEnds
               \/ Prints \/ Reads \/ BookWritten \/ BookRenamed \/ BookFails
               \/ NewFigures \/ WriteStats \/ readStats
               \/ DeskRestarts \/ Moves \/ watchHousehold

\* p2pool writes, the hub reads its log and its files, and the desktop asks,
\* all for as long as they run; no start need come, and no place be left.
PayoutsFairness == /\ WF_payoutsVars(Reads) /\ WF_payoutsVars(BookWritten \/ BookRenamed)
                   /\ WF_payoutsVars(WriteStats) /\ WF_payoutsVars(readStats)
                   /\ WF_payoutsVars(watchHousehold)
PayoutsSpec == PayoutsInit /\ [][PayoutsNext]_payoutsVars /\ PayoutsFairness

-----------------------------------------------------------------------------
Keeps(ps, h) == \/ h \in Range(ps)
                \/ Cardinality({i \in DOMAIN ps : ps[i] > h}) >= payoutsKept

\* A payout once saved is listed and stays on file for as long as it is among
\* the newest payoutsKept, whatever the program went through since; and no
\* list, the desktop's included, has one twice or out of order.
Kept == /\ PayoutsTypeOK
        /\ \A ps \in {list, book, seen} :
             Ordered(ps) /\ Len(ps) <= payoutsKept
        /\ Running => \A h \in Range(book) : Keeps(list, h)
PayoutsKept ==
  [][Kept' /\ \A h \in Range(book) : Keeps(book, h)']_payoutsVars

\* When nothing ends or moves any more, a desktop that can reach its hub, on
\* the LAN or through Tor, comes to show the figures p2pool last wrote and
\* every payout the hub would report.
Agrees == /\ house = [f \in Stats |-> turn]
          /\ \A i \in DOMAIN Recent(Shared) : Keeps(seen, list[i])
HouseholdSettles == <>[](Reached => Agrees)
=============================================================================

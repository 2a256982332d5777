---------------------------- MODULE Desktop_proofs ----------------------------
(***************************************************************************)
(* The front end, for any number of presets, tray items and kinds of host, *)
(* any number of clicks and any forms, with the handlers' steps in any     *)
(* order: its types, a window that stays in reach, a config the next       *)
(* launch accepts, and what config, file, login entry and scheduler say of *)
(* each other between changes.                                             *)
(***************************************************************************)
EXTENDS Desktop, TLAPS

-----------------------------------------------------------------------------
(* The inductive invariants, besides types.                                *)

\* Once set up; before that nothing on file is due to agree with anything.
Working == {"starting", "created", "failed", "mining"}
Writes(t) == handler[t] \in Writing
Saves(t) == handler[t] \in {"save", "write"}

\* Who can be where: the settings window and the set-up are the window's, and
\* the set-up ends before there is anything to show.
Placed(t) ==
  /\ handler[t] # "idle" => Up
  /\ handler[t] \in {"push", "entry", "adopt", "update"}
       => t = "window" /\ job[t].flow = "form"
  /\ handler[t] = "register" => t = "window" /\ phase = "setup"
  /\ handler[t] = "preset" => job[t].flow = "kind"
  /\ Saves(t) /\ job[t].flow = "form" => t = "window"
  /\ Saves(t) /\ job[t].flow = "setup" => t = "window" /\ phase = "setup"
PlacesInv == \A t \in Threads : Placed(t)

\* A config without a wallet is in use only before the set-up has one, so it
\* can only be saved then.
WalletKnown(t) ==
  /\ handler[t] = "register" => Valid(cfg)
  /\ Saves(t) /\ job[t].flow = "setup" => Valid(cfg)
  /\ handler[t] \in {"push", "entry", "adopt", "update"} => Valid(job[t].next)
  /\ Saves(t) /\ job[t].flow = "form" => Valid(job[t].next)
  /\ handler[t] = "write" /\ ~Valid(job[t].next) => unasked
WalletInv == /\ phase \in Working => Valid(cfg)
             /\ \A t \in Threads : WalletKnown(t)
             /\ LaunchAccepts

\* While nothing went wrong one handler at most is changing the config.
OneWriter == \A t, u \in Threads : Writes(t) /\ Writes(u) => t = u

\* What it has in hand.
InHand(t) ==
  /\ handler[t] = "preset" => job[t].next.kind = cfg.kind
  /\ handler[t] = "write" /\ job[t].flow # "form" => job[t].next = cfg
  /\ handler[t] = "register" => file = cfg

\* Where the file is the config, although a handler is at it, and where it is
\* what will be: the file is written before the form is adopted ...
FileFollows ==
  /\ Settled \/ handler["window"] \in {"push", "entry", "update"} => file = cfg
  /\ handler["window"] = "adopt" => file = job["window"].next

\* ... and the login entry before either.
Entered(wish) == wish => entry \/ unregistered
EntryFollows ==
  IF handler["window"] = "adopt"
     \/ (Saves("window") /\ job["window"].flow = "form")
  THEN Entered(job["window"].next.startup) ELSE Entered(cfg.startup)

\* A change of the preset is told to the scheduler next.
SchedulerFollows ==
  /\ phase \in {"created", "mining"}
  /\ \A t \in Threads : handler[t] \notin {"preset", "update"}
  => sched.kind = cfg.kind

Agreed ==
  /\ OneWriter
  /\ \A t \in Threads : InHand(t)
  /\ phase \in Working => FileFollows /\ EntryFollows /\ SchedulerFollows
AgreeInv == ~overlapped /\ ~unsaved => Agreed

-----------------------------------------------------------------------------
(* Types.                                                                  *)

Schedulers == [state : {"full", "reduced", "paused"},
               reason : {"", "waiting", "manual", "hot", "held"},
               override : {"none", "mine", "pause"}, timed : BOOLEAN,
               kind : Levels]

ScreenTypes == /\ host \in Desktops
               /\ phase \in {"off", "setup", "starting", "created", "failed",
                             "mining", "refused"}
               /\ win \in {"shown", "hidden"} /\ prefs \in {"shown", "hidden"}
               /\ tuck \in BOOLEAN /\ form \in Configs
StoreTypes == /\ cfg \in Configs /\ file \in Configs \cup {Absent, Torn}
              /\ entry \in BOOLEAN
MinerTypes == /\ sched \in Schedulers
              /\ held \in BOOLEAN /\ world \in {"away", "present", "hot"}
HandlerTypes == handler \in [Threads -> Places]
JobTypes == job \in [Threads -> [flow : Flows, next : Configs]]
ViewTypes == view \in [Threads -> TrayViews \cup {None}]
MishapTypes == /\ unasked \in BOOLEAN /\ overlapped \in BOOLEAN
               /\ unsaved \in BOOLEAN /\ unregistered \in BOOLEAN
               /\ raced \in BOOLEAN
CountTypes == events \in 0..MaxEvents /\ runs \in 0..MaxRuns

LEMMA TypesByPart ==
  DesktopTypeOK <=> /\ ScreenTypes /\ StoreTypes /\ MinerTypes
                    /\ HandlerTypes /\ JobTypes /\ ViewTypes
                    /\ MishapTypes /\ CountTypes
  BY DEF DesktopTypeOK, ScreenTypes, StoreTypes, MinerTypes, HandlerTypes,
         JobTypes, ViewTypes, MishapTypes, CountTypes, Schedulers

LEMMA TypesByPartNext ==
  ASSUME ScreenTypes', StoreTypes', MinerTypes', HandlerTypes', JobTypes',
         ViewTypes', MishapTypes', CountTypes'
  PROVE  DesktopTypeOK'
  BY DEF DesktopTypeOK, ScreenTypes, StoreTypes, MinerTypes, HandlerTypes,
         JobTypes, ViewTypes, MishapTypes, CountTypes, Schedulers

\* What a step does not touch keeps its types.
LEMMA PartsKept ==
  ASSUME DesktopTypeOK
  PROVE  /\ UNCHANGED <<host, screen>> => ScreenTypes'
         /\ UNCHANGED store => StoreTypes'
         /\ UNCHANGED miner => MinerTypes'
         /\ UNCHANGED handler => HandlerTypes'
         /\ UNCHANGED job => JobTypes'
         /\ UNCHANGED view => ViewTypes'
         /\ UNCHANGED mishaps => MishapTypes'
         /\ UNCHANGED bounds => CountTypes'
  BY TypesByPart
     DEF screen, store, miner, mishaps, bounds, ScreenTypes, StoreTypes,
         MinerTypes, HandlerTypes, JobTypes, ViewTypes, MishapTypes, CountTypes

LEMMA Constants ==
  /\ Default \in Levels /\ Defaults \in Configs
  /\ Forms \subseteq Configs /\ Files \subseteq Configs \cup {Absent, Torn}
  /\ Absent \notin Configs /\ Torn \notin Configs
  /\ MaxEvents \in Nat /\ MaxRuns \in Nat
  /\ "window" \in Threads
<1>1. Defaults \in Configs
  BY DesktopAssumption DEF DesktopAssumption, Defaults, Configs
<1>2. QED
  BY <1>1, DesktopAssumption DEF DesktopAssumption, Configs, Threads

LEMMA ConfigFields ==
  ASSUME NEW c \in Configs
  PROVE  /\ c.kind \in Levels /\ c.startup \in BOOLEAN
         /\ \A l \in Levels : [c EXCEPT !.kind = l] \in Configs
  BY DEF Configs

LEMMA RestingTyped == Resting \in Schedulers /\ \A l \in Levels : [Resting EXCEPT !.kind = l] \in Schedulers
  BY Constants DEF Resting, Schedulers

LEMMA NoJobTyped == NoJob \in [flow : Flows, next : Configs]
  BY Constants DEF NoJob, Flows

Icons == {"warning", "full", "reduced", "paused"}
Lines == {"paused until", "standing by", "paused", "idle", "backing off",
          "mining now", "full speed soon"}
Labels == {"pause", "keep paused"}

LEMMA TrayRecord ==
  \A i \in Icons, s \in Lines, p \in BOOLEAN, l \in Labels, m \in BOOLEAN,
     k \in Levels :
    [icon |-> i, status |-> s, paused |-> p, pause |-> l, mineNow |-> m,
     kind |-> k] \in TrayViews
  BY DEF TrayViews, Icons, Lines, Labels

LEMMA TrayTyped ==
  ASSUME MinerTypes
  PROVE  Tray(View) \in TrayViews
<1> DEFINE v == View
           paused == v.override = "pause"
           mine == v.override = "mine"
           label == IF v.override # "pause" /\ v.state = "paused"
                    THEN "keep paused" ELSE "pause"
           line == IF Snoozed THEN "paused until" ELSE trayStatusLine(v)
<1>1. /\ v.state \in {"full", "reduced", "paused"} /\ v.kind \in Levels
  BY DEF MinerTypes, Schedulers, View
<1>2. /\ paused \in BOOLEAN /\ mine \in BOOLEAN
      /\ label \in {"pause", "keep paused"}
  OBVIOUS
<1>3. trayIcon(v) \in {"warning", "full", "reduced", "paused"}
  BY <1>1 DEF trayIcon
<1>4. line \in {"paused until", "standing by", "paused", "idle",
                "backing off", "mining now", "full speed soon"}
  BY DEF trayStatusLine
<1>5. Tray(v) = [icon |-> trayIcon(v), status |-> line, paused |-> paused,
                 pause |-> label, mineNow |-> mine, kind |-> v.kind]
  BY DEF Tray
<1> HIDE DEF v, paused, mine, label, line
<1>6. Tray(v) \in TrayViews
  <2> DEFINE icon == trayIcon(v)
             level == v.kind
  <2>1. icon \in {"warning", "full", "reduced", "paused"} /\ level \in Levels
    BY <1>1, <1>3
  <2>2. Tray(v) = [icon |-> icon, status |-> line, paused |-> paused,
                   pause |-> label, mineNow |-> mine, kind |-> level]
    BY <1>5
  <2> HIDE DEF icon, level
  <2>3. [icon |-> icon, status |-> line, paused |-> paused, pause |-> label,
         mineNow |-> mine, kind |-> level] \in TrayViews
    <3>1. icon \in Icons /\ line \in Lines /\ label \in Labels
      BY <1>2, <1>4, <2>1 DEF Icons, Lines, Labels
    <3>2. QED
      BY <1>2, <2>1, <3>1, TrayRecord, Zenon
  <2>4. QED
    BY <2>2, <2>3
<1>7. QED
  BY <1>6 DEF v

LEMMA TypesInitially == Init => DesktopTypeOK
<1> SUFFICES ASSUME Init PROVE DesktopTypeOK
  OBVIOUS
<1>1. ScreenTypes /\ StoreTypes /\ MinerTypes
  BY Constants, RestingTyped DEF Init, ScreenTypes, StoreTypes, MinerTypes
<1>2. HandlerTypes
  BY DEF Init, HandlerTypes, Places
<1>3. JobTypes
  BY NoJobTyped DEF Init, JobTypes
<1>4. ViewTypes
  BY DEF Init, ViewTypes
<1>5. MishapTypes
  BY Zenon DEF Init, MishapTypes
<1>6. CountTypes
  BY Constants DEF Init, CountTypes
<1>7. QED
  BY <1>1, <1>2, <1>3, <1>4, <1>5, <1>6, TypesByPart

\* A handler moves between places.
LEMMA GoesTyped ==
  ASSUME DesktopTypeOK, NEW t, NEW from, NEW to \in Places, Goes(t, from, to)
  PROVE  HandlerTypes'
  BY TypesByPart DEF HandlerTypes, Goes

LEMMA ClickTyped ==
  ASSUME DesktopTypeOK, NEW t, NEW to \in Places, Click(t, to)
  PROVE  /\ HandlerTypes' /\ events' \in 0..MaxEvents
         /\ UNCHANGED runs => CountTypes'
<1>1. HandlerTypes'
  BY GoesTyped DEF Click, Places
<1>2. events \in 0..MaxEvents /\ runs \in 0..MaxRuns
  BY TypesByPart DEF CountTypes
<1>3. QED
  BY <1>1, <1>2, Constants DEF Click, CountTypes

LEMMA EndsTyped ==
  ASSUME DesktopTypeOK, Ends
  PROVE  DesktopTypeOK'
<1>1. /\ ScreenTypes /\ StoreTypes /\ MishapTypes /\ CountTypes
  BY TypesByPart
<1>2. ScreenTypes' /\ MinerTypes'
  BY <1>1, Constants, RestingTyped DEF Ends, ScreenTypes, MinerTypes
<1>3. HandlerTypes'
  BY DEF Ends, HandlerTypes, Places
<1>4. JobTypes'
  BY NoJobTyped DEF Ends, JobTypes
<1>5. ViewTypes'
  BY DEF Ends, ViewTypes
<1>6. unsaved' \in BOOLEAN
  BY Zenon DEF Ends
<1>7. MishapTypes'
  BY <1>1, <1>6 DEF Ends, MishapTypes
<1>8. StoreTypes' /\ CountTypes'
  BY PartsKept DEF Ends, bounds, store
<1>9. QED
  BY <1>2, <1>3, <1>4, <1>5, <1>7, <1>8, TypesByPartNext

LEMMA EnsuresTyped ==
  ASSUME DesktopTypeOK, NEW c \in Configs, Ensures(c)
  PROVE  entry' \in BOOLEAN /\ unregistered' \in BOOLEAN
  BY TypesByPart, ConfigFields DEF Ensures, SetAutostart, StoreTypes

LEMMA LaunchTyped ==
  ASSUME DesktopTypeOK, Launch
  PROVE  DesktopTypeOK'
<1>1. /\ ScreenTypes /\ StoreTypes /\ MinerTypes /\ MishapTypes /\ CountTypes
  BY TypesByPart
<1>2. /\ cfg' \in Configs /\ file' \in Configs \cup {Absent, Torn}
      /\ entry' \in BOOLEAN /\ unregistered' \in BOOLEAN
      /\ sched' \in Schedulers /\ held' = held /\ win' \in {"shown", "hidden"}
      /\ phase' \in {"setup", "starting", "refused", "mining"}
  <2>1. CASE LaunchGraphical
    <3>1. \A c \in Configs : \A to : Starts(c, to) =>
            /\ cfg' = c /\ phase' = to /\ UNCHANGED <<file, sched, held>>
            /\ entry' \in BOOLEAN /\ unregistered' \in BOOLEAN
      BY EnsuresTyped DEF Starts
    <3>2. QED
      BY <1>1, <2>1, <3>1, Constants
         DEF LaunchGraphical, StoreTypes, MinerTypes, MishapTypes, store
  <2>2. CASE LaunchTerminal
    <3>1. win' \in {"shown", "hidden"} /\ phase' = "mining" /\ held' = held
      BY <2>2 DEF LaunchTerminal
    <3>2. CASE file \in Configs /\ cfg' = file /\ Ensures(file)
               /\ sched' = [Resting EXCEPT !.kind = file.kind]
               /\ UNCHANGED file
      BY <3>1, <3>2, ConfigFields, EnsuresTyped, RestingTyped
    <3>3. ASSUME NEW f \in Forms,
                 file' = [Defaults EXCEPT !.conn = f.conn],
                 cfg' = [Defaults EXCEPT !.conn = f.conn],
                 Ensures([Defaults EXCEPT !.conn = f.conn]),
                 sched' = [Resting EXCEPT
                             !.kind = [Defaults EXCEPT !.conn = f.conn].kind]
          PROVE  /\ cfg' \in Configs /\ file' \in Configs
                 /\ entry' \in BOOLEAN /\ unregistered' \in BOOLEAN
                 /\ sched' \in Schedulers
      <4>1. [Defaults EXCEPT !.conn = f.conn] \in Configs
        BY Constants DEF Configs
      <4>2. QED
        BY <3>3, <4>1, ConfigFields, EnsuresTyped, RestingTyped
    <3>4. QED
      BY <2>2, <3>1, <3>2, <3>3 DEF LaunchTerminal
  <2>3. QED
    BY <2>1, <2>2 DEF Launch
<1>3. ScreenTypes' /\ StoreTypes' /\ MinerTypes'
  BY <1>1, <1>2 DEF Launch, ScreenTypes, StoreTypes, MinerTypes
<1>4. MishapTypes'
  BY <1>1, <1>2, Zenon DEF Launch, MishapTypes
<1>7. CountTypes'
  BY <1>1, Constants DEF Launch, CountTypes
<1>5. HandlerTypes' /\ JobTypes' /\ ViewTypes'
  BY PartsKept DEF Launch
<1>8. QED
  BY <1>3, <1>4, <1>5, <1>7, TypesByPartNext

LEMMA TickTyped ==
  ASSUME DesktopTypeOK, Tick
  PROVE  DesktopTypeOK'
<1>1. ScreenTypes /\ MinerTypes
  BY TypesByPart
<1>2. PICK o \in {sched.override} \cup (IF Snoozed THEN {"none"} ELSE {}) :
        sched' = [sched EXCEPT !.state = Decides(o)[1],
                               !.reason = Decides(o)[2],
                               !.override = o,
                               !.timed = @ /\ o = "pause"]
  BY DEF Tick
<1>3. o \in {"none", "mine", "pause"}
  BY <1>1 DEF MinerTypes, Schedulers
<1>4. /\ Decides(o)[1] \in {"full", "reduced", "paused"}
      /\ Decides(o)[2] \in {"", "waiting", "manual", "hot", "held"}
  BY <1>1, <1>3 DEF MinerTypes, Decides
<1> DEFINE still == sched.timed /\ o = "pause"
           what == Decides(o)[1]
           why == Decides(o)[2]
<1>5. still \in BOOLEAN
  OBVIOUS
<1>6. sched' = [sched EXCEPT !.state = what, !.reason = why, !.override = o,
                             !.timed = still]
  BY <1>2
<1> HIDE DEF still, what, why
<1>7. what \in {"full", "reduced", "paused"}
      /\ why \in {"", "waiting", "manual", "hot", "held"}
  BY <1>4 DEF what, why
<1>8. sched' \in Schedulers
  BY <1>1, <1>3, <1>5, <1>6, <1>7 DEF MinerTypes, Schedulers
<1>9. MinerTypes'
  BY <1>1, <1>8 DEF Tick, MinerTypes
<1>10. QED
  BY <1>9, PartsKept, TypesByPartNext DEF Tick

LEMMA PlacesNamed ==
  {"idle", "none", "pause", "mine", "snooze", "preset", "push", "entry",
   "save", "write", "adopt", "update", "register", "look", "render",
   "record"} \subseteq Places
  BY DEF Places

\* The process and its windows.
LEMMA WindowsTyped ==
  ASSUME DesktopTypeOK,
         \/ Quit \/ CloseWindow \/ ShowWindow \/ StartCreates \/ StartEnds
         \/ StartFails \/ Retry \/ hideSettings \/ WorldChanges
  PROVE  DesktopTypeOK'
<1>1. ScreenTypes /\ StoreTypes /\ MinerTypes /\ CountTypes
  BY TypesByPart
<1>2. CASE Quit
  BY <1>2, EndsTyped DEF Quit
<1>3. CASE CloseWindow
  <2>1. CASE Ends
    BY <2>1, EndsTyped
  <2>2. CASE /\ win' = "hidden" /\ Click("window", "idle")
             /\ UNCHANGED <<host, phase, prefs, tuck, form, store, miner, job,
                            view, shown, mishaps, runs>>
    <3>1. HandlerTypes' /\ CountTypes'
      BY <2>2, PlacesNamed, ClickTyped
    <3>2. ScreenTypes'
      BY <1>1, <2>2 DEF ScreenTypes
    <3>3. QED
      BY <2>2, <3>1, <3>2, PartsKept, TypesByPartNext
  <2>3. QED
    BY <1>3, <2>1, <2>2 DEF CloseWindow
<1>4. CASE ShowWindow
  <2>1. CountTypes' /\ ScreenTypes'
    BY <1>1, <1>4, Constants DEF ShowWindow, CountTypes, ScreenTypes
  <2>2. QED
    BY <1>4, <2>1, PartsKept, TypesByPartNext DEF ShowWindow
<1>5. CASE StartCreates
  <2>1. ScreenTypes'
    BY <1>1, <1>5 DEF StartCreates, ScreenTypes
  <2>2. MinerTypes'
    BY <1>1, <1>5, ConfigFields, RestingTyped
       DEF StartCreates, MinerTypes, StoreTypes
  <2>3. QED
    BY <1>5, <2>1, <2>2, PartsKept, TypesByPartNext DEF StartCreates
<1>6. CASE StartEnds
  <2> DEFINE waits == tuck /\ ~host.tray
  <2>1. waits \in BOOLEAN /\ tuck' = waits
    BY <1>6 DEF StartEnds, tuckIntoTray
  <2> HIDE DEF waits
  <2>2. ScreenTypes'
    BY <1>1, <1>6, <2>1 DEF StartEnds, tuckIntoTray, ScreenTypes
  <2>3. QED
    BY <1>6, <2>2, PartsKept, TypesByPartNext DEF StartEnds
<1>7. CASE StartFails \/ Retry
  <2>1. ScreenTypes'
    BY <1>1, <1>7 DEF StartFails, Retry, ScreenTypes
  <2>2. QED
    BY <1>7, <2>1, PartsKept, TypesByPartNext DEF StartFails, Retry
<1>8. CASE hideSettings
  <2>1. ScreenTypes'
    BY <1>1, <1>8, Constants DEF hideSettings, ScreenTypes
  <2>2. QED
    BY <1>8, <2>1, PartsKept, TypesByPartNext DEF hideSettings
<1>9. CASE WorldChanges
  <2>1. CountTypes' /\ sched' \in Schedulers
        /\ world' \in {"away", "present", "hot"}
    BY <1>1, <1>9, Constants DEF WorldChanges, MinerTypes, CountTypes
  <2>2. held' \in BOOLEAN
    BY <1>1, <1>9, Zenon DEF WorldChanges, MinerTypes
  <2>3. MinerTypes'
    BY <2>1, <2>2 DEF MinerTypes
  <2>4. QED
    BY <1>9, <2>1, <2>3, PartsKept, TypesByPartNext DEF WorldChanges
<1>10. QED
  BY <1>2, <1>3, <1>4, <1>5, <1>6, <1>7, <1>8, <1>9

\* A note that is made of what went wrong is a Boolean.
LEMMA NotesTyped ==
  ASSUME DesktopTypeOK
  PROVE  /\ \A t \in Threads : Overlaps(t) => overlapped' \in BOOLEAN
         /\ Misses => overlapped' \in BOOLEAN
<1>1. MishapTypes
  BY TypesByPart
<1>2. QED
  BY <1>1, Zenon DEF Overlaps, Misses, MishapTypes

LEMMA JobGiven ==
  ASSUME DesktopTypeOK, NEW t, NEW flow \in Flows, NEW c \in Configs,
         job' = [job EXCEPT ![t] = [flow |-> flow, next |-> c]]
  PROVE  JobTypes'
<1>1. [flow |-> flow, next |-> c] \in [flow : Flows, next : Configs]
  OBVIOUS
<1>2. QED
  BY <1>1, TypesByPart DEF JobTypes

LEMMA JobDropped ==
  ASSUME DesktopTypeOK, NEW t, job' = [job EXCEPT ![t] = NoJob]
  PROVE  JobTypes'
  BY TypesByPart, NoJobTyped DEF JobTypes

\* Clicks.
LEMMA ClicksTyped ==
  ASSUME DesktopTypeOK, NEW t \in Threads,
         \/ Toggles(t) \/ OpenSettings(t)
         \/ \E l \in Levels : ClickKindness(t, l)
         \/ FinishSetup \/ \E f \in Forms : FormSaved(f)
  PROVE  DesktopTypeOK'
<1>1. ScreenTypes /\ StoreTypes /\ MinerTypes /\ MishapTypes
  BY TypesByPart
<1>2. CASE Toggles(t)
  <2>1. PICK to \in Places : Click(t, to)
    BY <1>2, PlacesNamed DEF Toggles
  <2>2. HandlerTypes' /\ CountTypes'
    BY <1>2, <2>1, ClickTyped DEF Toggles
  <2>3. QED
    BY <1>2, <2>2, PartsKept, TypesByPartNext DEF Toggles
<1>3. CASE OpenSettings(t)
  <2>1. HandlerTypes' /\ CountTypes'
    BY <1>3, PlacesNamed, ClickTyped DEF OpenSettings
  <2>2. ScreenTypes'
    BY <1>1, <1>3 DEF OpenSettings, ScreenTypes, StoreTypes
  <2>3. QED
    BY <1>3, <2>1, <2>2, PartsKept, TypesByPartNext DEF OpenSettings
<1>4. ASSUME NEW l \in Levels, ClickKindness(t, l)
      PROVE  DesktopTypeOK'
  <2>1. CASE cfg.kind = l
    <3>1. HandlerTypes' /\ CountTypes'
      BY <1>4, <2>1, PlacesNamed, ClickTyped DEF ClickKindness
    <3>2. StoreTypes' /\ MishapTypes' /\ JobTypes'
      BY <1>1, <1>4, <2>1, PartsKept
         DEF ClickKindness, StoreTypes, MishapTypes
    <3>3. QED
      BY <1>4, <3>1, <3>2, PartsKept, TypesByPartNext DEF ClickKindness
  <2>2. CASE cfg.kind # l
    <3>1. HandlerTypes' /\ CountTypes'
      BY <1>4, <2>2, PlacesNamed, ClickTyped DEF ClickKindness
    <3>2. cfg' \in Configs
      BY <1>1, <1>4, <2>2, ConfigFields DEF ClickKindness, StoreTypes
    <3>3. JobTypes'
      BY <1>4, <2>2, <3>2, JobGiven DEF ClickKindness, Flows
    <3>4. overlapped' \in BOOLEAN
      BY <1>4, <2>2, NotesTyped DEF ClickKindness
    <3>5. StoreTypes' /\ MishapTypes'
      BY <1>1, <1>4, <3>2, <3>4, Zenon
         DEF ClickKindness, StoreTypes, MishapTypes
    <3>6. QED
      BY <1>4, <3>1, <3>3, <3>5, PartsKept, TypesByPartNext
         DEF ClickKindness
  <2>3. QED
    BY <2>1, <2>2
<1>5. CASE FinishSetup
  <2>1. HandlerTypes' /\ CountTypes'
    BY <1>5, PlacesNamed, ClickTyped DEF FinishSetup
  <2>2. cfg' \in Configs
    BY <1>1, <1>5, Constants DEF FinishSetup, StoreTypes, Configs
  <2>3. JobTypes'
    BY <1>5, <2>2, JobGiven DEF FinishSetup, Flows
  <2>4. overlapped' \in BOOLEAN
    BY <1>5, NotesTyped, Constants DEF FinishSetup
  <2>5. StoreTypes' /\ MishapTypes'
    BY <1>1, <1>5, <2>2, <2>4, Zenon DEF FinishSetup, StoreTypes, MishapTypes
  <2>6. QED
    BY <1>5, <2>1, <2>3, <2>5, PartsKept, TypesByPartNext DEF FinishSetup
<1>6. ASSUME NEW f \in Forms, FormSaved(f)
      PROVE  DesktopTypeOK'
  <2>1. PICK to \in Places : Click("window", to)
    BY <1>6, PlacesNamed DEF FormSaved
  <2>2. HandlerTypes' /\ CountTypes'
    BY <1>6, <2>1, ClickTyped DEF FormSaved
  <2>3. JobTypes'
    BY <1>6, Constants, JobGiven, PartsKept DEF FormSaved, Flows
  <2>4. overlapped' \in BOOLEAN
    BY <1>1, <1>6, NotesTyped, Constants, Zenon DEF FormSaved, MishapTypes
  <2>5. MishapTypes'
    BY <1>1, <1>6, <2>4, Zenon DEF FormSaved, MishapTypes
  <2>6. QED
    BY <1>6, <2>2, <2>3, <2>5, PartsKept, TypesByPartNext DEF FormSaved
<1>7. QED
  BY <1>2, <1>3, <1>4, <1>5, <1>6

\* The handlers' steps.
LEMMA MinerHandled ==
  ASSUME DesktopTypeOK, NEW t \in Threads, SetOverride(t) \/ SetKindness(t)
  PROVE  DesktopTypeOK'
<1>1. MinerTypes /\ JobTypes /\ MishapTypes
  BY TypesByPart
<1>2. CASE SetOverride(t)
  <2>1. HandlerTypes'
    BY <1>2, PlacesNamed, GoesTyped DEF SetOverride
  <2> DEFINE snooze == handler[t] = "snooze"
  <2>2. snooze \in BOOLEAN
    OBVIOUS
  <2>3. \/ sched' = [sched EXCEPT !.override = "pause", !.timed = snooze,
                                  !.state = "paused", !.reason = "manual"]
        \/ /\ handler[t] \in {"none", "mine"}
           /\ sched' = [sched EXCEPT !.override = handler[t],
                                     !.timed = FALSE]
    BY <1>2 DEF SetOverride
  <2> HIDE DEF snooze
  <2>4. sched' \in Schedulers
    BY <1>1, <2>2, <2>3 DEF MinerTypes, Schedulers
  <2>5. MinerTypes'
    BY <1>1, <1>2, <2>4 DEF SetOverride, MinerTypes
  <2>6. QED
    BY <1>2, <2>1, <2>5, PartsKept, TypesByPartNext DEF SetOverride
<1>3. CASE SetKindness(t)
  <2>1. HandlerTypes'
    BY <1>3, PlacesNamed, GoesTyped DEF SetKindness
  <2>2. job[t].next.kind \in Levels
    BY <1>1, ConfigFields DEF JobTypes
  <2>3. sched' \in Schedulers
    BY <1>1, <1>3, <2>2 DEF SetKindness, MinerTypes, Schedulers
  <2>4. MinerTypes'
    BY <1>1, <1>3, <2>3 DEF SetKindness, MinerTypes
  <2>5. overlapped' \in BOOLEAN
    BY <1>3, NotesTyped DEF SetKindness
  <2>6. MishapTypes'
    BY <1>1, <1>3, <2>5, Zenon DEF SetKindness, MishapTypes
  <2>7. QED
    BY <1>3, <2>1, <2>4, <2>6, PartsKept, TypesByPartNext DEF SetKindness
<1>4. QED
  BY <1>2, <1>3

LEMMA SavedTyped ==
  ASSUME DesktopTypeOK, NEW t \in Threads
  PROVE  /\ Saved(t) \in Configs
         /\ job[t].next \in Configs /\ job[t].flow \in Flows
  BY TypesByPart DEF Saved, StoreTypes, JobTypes

LEMMA SavesTyped ==
  ASSUME DesktopTypeOK, NEW t \in Threads,
         SaveTruncates(t) \/ SaveWrites(t) \/ SaveFails(t)
  PROVE  DesktopTypeOK'
<1>1. ScreenTypes /\ StoreTypes /\ JobTypes /\ MishapTypes
  BY TypesByPart
<1>2. CASE SaveTruncates(t)
  <2>1. HandlerTypes'
    BY <1>2, PlacesNamed, GoesTyped DEF SaveTruncates
  <2>2. JobTypes'
    BY <1>1, <1>2, SavedTyped DEF SaveTruncates, JobTypes
  <2>3. unasked' \in BOOLEAN
    BY <1>1, <1>2, Zenon DEF SaveTruncates, MishapTypes
  <2>4. MishapTypes'
    BY <1>1, <1>2, <2>3, Zenon DEF SaveTruncates, MishapTypes
  <2>5. StoreTypes'
    BY <1>1, <1>2 DEF SaveTruncates, StoreTypes
  <2>6. QED
    BY <1>2, <2>1, <2>2, <2>4, <2>5, PartsKept, TypesByPartNext
       DEF SaveTruncates
<1>3. CASE SaveWrites(t)
  <2>1. AfterSave(job[t].flow) \in Places
    BY SavedTyped DEF AfterSave, Flows, Places
  <2>2. HandlerTypes'
    BY <1>3, <2>1, GoesTyped DEF SaveWrites
  <2>3. JobTypes'
    BY <1>3, JobDropped, PartsKept DEF SaveWrites
  <2>4. StoreTypes'
    BY <1>1, <1>3, SavedTyped DEF SaveWrites, StoreTypes
  <2>5. QED
    BY <1>3, <2>2, <2>3, <2>4, PartsKept, TypesByPartNext DEF SaveWrites
<1>4. CASE SaveFails(t)
  <2>1. HandlerTypes'
    BY <1>4, PlacesNamed, GoesTyped DEF SaveFails
  <2>2. ScreenTypes'
    BY <1>1, <1>4 DEF SaveFails, ScreenTypes
  <2>3. MishapTypes'
    BY <1>1, <1>4, Zenon DEF SaveFails, MishapTypes
  <2>4. QED
    BY <1>4, <2>1, <2>2, <2>3, PartsKept, TypesByPartNext DEF SaveFails
<1>5. QED
  BY <1>2, <1>3, <1>4

LEMMA FormTyped ==
  ASSUME DesktopTypeOK, FormHandled \/ Registers
  PROVE  DesktopTypeOK'
<1>1. ScreenTypes /\ StoreTypes /\ MinerTypes /\ MishapTypes
  BY TypesByPart
<1>2. job["window"].next \in Configs
  BY SavedTyped, Constants
<1>3. CASE FormPushed
  <2>1. HandlerTypes'
    BY <1>3, PlacesNamed, GoesTyped DEF FormPushed
  <2>2. QED
    BY <1>3, <2>1, PartsKept, TypesByPartNext DEF FormPushed
<1>4. CASE FormRegisters
  <2>1. HandlerTypes'
    BY <1>4, PlacesNamed, GoesTyped DEF FormRegisters
  <2>2. entry' \in BOOLEAN
    BY <1>1, <1>2, <1>4, ConfigFields
       DEF FormRegisters, SetAutostart, StoreTypes
  <2>3. StoreTypes'
    BY <1>1, <1>4, <2>2 DEF FormRegisters, StoreTypes
  <2>4. QED
    BY <1>4, <2>1, <2>3, PartsKept, TypesByPartNext DEF FormRegisters
<1>5. CASE FormAdopted
  <2>1. HandlerTypes'
    BY <1>5, PlacesNamed, GoesTyped DEF FormAdopted
  <2>2. StoreTypes'
    BY <1>1, <1>2, <1>5 DEF FormAdopted, StoreTypes
  <2>3. QED
    BY <1>5, <2>1, <2>2, PartsKept, TypesByPartNext DEF FormAdopted
<1>6. CASE FormUpdates
  <2>1. HandlerTypes'
    BY <1>6, PlacesNamed, GoesTyped DEF FormUpdates
  <2>2. MinerTypes'
    BY <1>1, <1>6, ConfigFields
       DEF FormUpdates, MinerTypes, StoreTypes, Schedulers
  <2>3. ScreenTypes'
    BY <1>1, <1>6, Constants DEF FormUpdates, ScreenTypes
  <2>4. JobTypes'
    BY <1>6, JobDropped DEF FormUpdates
  <2>5. overlapped' \in BOOLEAN
    BY <1>6, NotesTyped DEF FormUpdates
  <2>6. MishapTypes'
    BY <1>1, <1>6, <2>5, Zenon DEF FormUpdates, MishapTypes
  <2>7. QED
    BY <1>6, <2>1, <2>2, <2>3, <2>4, <2>6, PartsKept, TypesByPartNext
       DEF FormUpdates
<1>7. CASE Registers
  <2>1. HandlerTypes'
    BY <1>7, PlacesNamed, GoesTyped DEF Registers
  <2>2. entry' \in BOOLEAN /\ unregistered' \in BOOLEAN
    BY <1>1, <1>7, EnsuresTyped DEF Registers, StoreTypes
  <2>3. StoreTypes' /\ ScreenTypes'
    BY <1>1, <1>7, <2>2 DEF Registers, StoreTypes, ScreenTypes
  <2>4. MishapTypes'
    BY <1>1, <1>7, <2>2, Zenon DEF Registers, MishapTypes
  <2>5. QED
    BY <1>7, <2>1, <2>3, <2>4, PartsKept, TypesByPartNext DEF Registers
<1>8. QED
  BY <1>3, <1>4, <1>5, <1>6, <1>7 DEF FormHandled

LEMMA DisplaysTyped ==
  ASSUME DesktopTypeOK, NEW t \in Threads,
         Refreshes(t) \/ Renders(t) \/ Records(t)
  PROVE  DesktopTypeOK'
<1>1. ViewTypes /\ MishapTypes
  BY TypesByPart
<1>2. CASE Refreshes(t)
  <2>1. HandlerTypes'
    <3> DEFINE to == IF HasScheduler /\ host.tray THEN "render" ELSE "idle"
    <3>1. to \in Places /\ Goes(t, handler[t], to)
      BY <1>2, PlacesNamed DEF Refreshes
    <3> HIDE DEF to
    <3>2. QED
      BY <3>1, GoesTyped
  <2>2. Tray(View) \in TrayViews
    BY TypesByPart, TrayTyped
  <2>3. ViewTypes'
    BY <1>1, <1>2, <2>2 DEF Refreshes, ViewTypes
  <2>4. QED
    BY <1>2, <2>1, <2>3, PartsKept, TypesByPartNext DEF Refreshes
<1>3. CASE Renders(t)
  <2>1. HandlerTypes'
    BY <1>3, PlacesNamed, GoesTyped DEF Renders
  <2>2. MishapTypes'
    <3>1. raced' \in BOOLEAN
      BY <1>1, <1>3, Zenon DEF Renders, MishapTypes
    <3>2. QED
      BY <1>1, <1>3, <3>1, Zenon DEF Renders, MishapTypes
  <2>3. QED
    BY <1>3, <2>1, <2>2, PartsKept, TypesByPartNext DEF Renders
<1>4. CASE Records(t)
  <2>1. HandlerTypes'
    BY <1>4, PlacesNamed, GoesTyped DEF Records
  <2>2. ViewTypes'
    BY <1>1, <1>4 DEF Records, ViewTypes
  <2>3. QED
    BY <1>4, <2>1, <2>2, PartsKept, TypesByPartNext DEF Records
<1>5. QED
  BY <1>2, <1>3, <1>4

LEMMA TypesStep == DesktopTypeOK /\ [Next]_vars => DesktopTypeOK'
<1> SUFFICES ASSUME DesktopTypeOK, [Next]_vars PROVE DesktopTypeOK'
  OBVIOUS
<1>1. CASE UNCHANGED vars
  BY <1>1, PartsKept, TypesByPartNext DEF vars
<1>2. CASE Launch \/ Tick
  BY <1>2, LaunchTyped, TickTyped
<1>3. CASE \/ Quit \/ CloseWindow \/ ShowWindow \/ StartCreates \/ StartEnds
           \/ StartFails \/ Retry \/ hideSettings \/ WorldChanges
  BY <1>3, WindowsTyped
<1>4. ASSUME NEW t \in Threads,
             \/ Toggles(t) \/ OpenSettings(t)
             \/ \E l \in Levels : ClickKindness(t, l)
             \/ FinishSetup \/ \E f \in Forms : FormSaved(f)
      PROVE  DesktopTypeOK'
  BY <1>4, ClicksTyped
<1>5. CASE FormHandled \/ Registers
  BY <1>5, FormTyped
<1>6. ASSUME NEW t \in Threads, Handles(t)
      PROVE  DesktopTypeOK'
  BY <1>6, MinerHandled, SavesTyped, DisplaysTyped DEF Handles
<1>7. QED
  BY <1>1, <1>2, <1>3, <1>4, <1>5, <1>6, Constants DEF Next

\* The types hold throughout.
THEOREM DesktopTypes == Spec => []DesktopTypeOK
  BY TypesInitially, TypesStep, PTL DEF Spec

-----------------------------------------------------------------------------
(* What the steps do to what is stored.                                    *)

\* Most change nothing of it.
Aside ==
  /\ UNCHANGED <<phase, cfg, file, entry, job, unasked, overlapped, unsaved,
                 unregistered>>
  /\ sched'.kind = sched.kind
  /\ \A t \in Threads : \/ handler'[t] = handler[t]
                        \/ ~Writes(t) /\ ~Writes(t)' /\ Up

LEMMA WritingPlaces ==
  {"idle", "none", "pause", "mine", "snooze", "look", "render", "record"}
    \cap Writing = {}
  BY DEF Writing

LEMMA GoesAside ==
  ASSUME DesktopTypeOK, NEW t \in Threads, NEW from, NEW to, Goes(t, from, to),
         from \notin Writing, to \notin Writing, Up
  PROVE  \A u \in Threads : \/ handler'[u] = handler[u]
                            \/ ~Writes(u) /\ ~Writes(u)' /\ Up
  BY TypesByPart DEF Goes, HandlerTypes, Writes

LEMMA TicksAside ==
  ASSUME DesktopTypeOK, \/ Tick \/ WorldChanges \/ UNCHANGED vars
  PROVE  Aside
<1>1. sched \in Schedulers
  BY TypesByPart DEF MinerTypes
<1>2. CASE Tick
  <2>1. PICK o : sched' = [sched EXCEPT !.state = Decides(o)[1],
                                        !.reason = Decides(o)[2],
                                        !.override = o,
                                        !.timed = @ /\ o = "pause"]
    BY <1>2 DEF Tick
  <2>2. sched'.kind = sched.kind
    BY <1>1, <2>1 DEF Schedulers
  <2>3. QED
    BY <1>2, <2>2 DEF Tick, Aside, screen, store, mishaps
<1>3. CASE WorldChanges \/ UNCHANGED vars
  BY <1>3 DEF WorldChanges, vars, Aside, screen, store, miner, mishaps
<1>4. QED
  BY <1>2, <1>3

LEMMA WindowsAside ==
  ASSUME DesktopTypeOK, \/ (CloseWindow /\ ~Ends) \/ ShowWindow \/ hideSettings
  PROVE  Aside
<1>1. CASE CloseWindow /\ ~Ends
  <2>1. /\ Click("window", "idle")
        /\ UNCHANGED <<host, phase, prefs, tuck, form, store, miner, job,
                       view, shown, mishaps, runs>>
    BY <1>1 DEF CloseWindow
  <2>2. \A u \in Threads : \/ handler'[u] = handler[u]
                           \/ ~Writes(u) /\ ~Writes(u)' /\ Up
    BY <2>1, GoesAside, Constants, WritingPlaces DEF Click
  <2>3. QED
    BY <2>1, <2>2 DEF Aside, store, miner, mishaps
<1>2. CASE ShowWindow \/ hideSettings
  BY <1>2 DEF ShowWindow, hideSettings, Aside, store, miner, mishaps
<1>3. QED
  BY <1>1, <1>2

LEMMA ClicksAside ==
  ASSUME DesktopTypeOK, NEW t \in Threads,
         \/ Toggles(t) \/ OpenSettings(t)
         \/ \E l \in Levels : ClickKindness(t, l) /\ cfg.kind = l
         \/ \E f \in Forms : FormSaved(f) /\ ~Valid(f)
  PROVE  Aside
<1>1. ASSUME NEW u \in Threads, NEW to \in Places \ Writing, Click(u, to)
      PROVE  \A w \in Threads : \/ handler'[w] = handler[w]
                                \/ ~Writes(w) /\ ~Writes(w)' /\ Up
  BY <1>1, GoesAside, WritingPlaces DEF Click
<1>2. CASE Toggles(t)
  <2>1. PICK to \in Places \ Writing : Click(t, to)
    BY <1>2, PlacesNamed, WritingPlaces DEF Toggles
  <2>2. QED
    BY <1>1, <1>2, <2>1 DEF Toggles, Aside, screen, store, miner, mishaps
<1>3. CASE OpenSettings(t)
  <2>1. Click(t, "idle") /\ "idle" \in Places \ Writing
    BY <1>3, PlacesNamed, WritingPlaces DEF OpenSettings
  <2>2. QED
    BY <1>1, <1>3, <2>1 DEF OpenSettings, Aside, store, miner, mishaps
<1>4. CASE \E l \in Levels : ClickKindness(t, l) /\ cfg.kind = l
  <2>1. Click(t, "idle") /\ "idle" \in Places \ Writing
    BY <1>4, PlacesNamed, WritingPlaces DEF ClickKindness
  <2>2. QED
    BY <1>1, <1>4, <2>1 DEF ClickKindness, Aside, screen, miner
<1>5. CASE \E f \in Forms : FormSaved(f) /\ ~Valid(f)
  <2>1. Click("window", "idle") /\ "idle" \in Places \ Writing
    BY <1>5, PlacesNamed, WritingPlaces DEF FormSaved
  <2>2. QED
    BY <1>1, <1>5, <2>1, Constants DEF FormSaved, Aside, screen, store, miner
<1>6. QED
  BY <1>2, <1>3, <1>4, <1>5

LEMMA DisplaysAside ==
  ASSUME DesktopTypeOK, PlacesInv, NEW t \in Threads,
         SetOverride(t) \/ Refreshes(t) \/ Renders(t) \/ Records(t)
  PROVE  Aside
<1>1. sched \in Schedulers /\ HandlerTypes
  BY TypesByPart DEF MinerTypes
<1>2. CASE SetOverride(t)
  <2>1. handler[t] \notin Writing /\ Up
    BY <1>2, WritingPlaces DEF SetOverride, PlacesInv, Placed
  <2>2. \A u \in Threads : \/ handler'[u] = handler[u]
                           \/ ~Writes(u) /\ ~Writes(u)' /\ Up
    BY <1>2, <2>1, GoesAside, WritingPlaces DEF SetOverride
  <2>3. sched'.kind = sched.kind
    BY <1>1, <1>2 DEF SetOverride, Schedulers
  <2>4. QED
    BY <1>2, <2>2, <2>3 DEF SetOverride, Aside, screen, store, mishaps
<1>3. CASE Refreshes(t)
  <2> DEFINE to == IF HasScheduler /\ host.tray THEN "render" ELSE "idle"
  <2>1. Goes(t, handler[t], to) /\ to \notin Writing
    BY <1>3, WritingPlaces DEF Refreshes
  <2>2. handler[t] \notin Writing /\ Up
    BY <1>3, WritingPlaces
       DEF Refreshes, HasScheduler, Up, PlacesInv, Placed
  <2> HIDE DEF to
  <2>3. \A u \in Threads : \/ handler'[u] = handler[u]
                           \/ ~Writes(u) /\ ~Writes(u)' /\ Up
    BY <2>1, <2>2, GoesAside
  <2>4. QED
    BY <1>3, <2>3 DEF Refreshes, Aside, screen, store, miner, mishaps
<1>4. CASE Renders(t) \/ Records(t)
  <2>1. Up
    BY <1>4 DEF Renders, Records, Goes, PlacesInv, Placed
  <2>2. \A u \in Threads : \/ handler'[u] = handler[u]
                           \/ ~Writes(u) /\ ~Writes(u)' /\ Up
    BY <1>4, <2>1, GoesAside, WritingPlaces DEF Renders, Records
  <2>3. QED
    BY <1>4, <2>2 DEF Renders, Records, Aside, screen, store, miner, mishaps
<1>5. QED
  BY <1>2, <1>3, <1>4

-----------------------------------------------------------------------------
(* Where the handlers are.                                                 *)

LEMMA AsidePlaces ==
  ASSUME DesktopTypeOK, PlacesInv, Aside
  PROVE  PlacesInv'
  BY DEF PlacesInv, Placed, Aside, Writes, Writing, Saves, Up

LEMMA ProcessPlaces ==
  ASSUME DesktopTypeOK, PlacesInv,
         \/ Launch \/ Ends \/ StartCreates \/ StartEnds \/ StartFails \/ Retry
  PROVE  PlacesInv'
<1>1. CASE Launch
  <2>1. handler' = handler /\ job' = job
    BY <1>1 DEF Launch
  <2>2. \A t \in Threads : handler[t] = "idle"
    BY <1>1 DEF Launch, PlacesInv, Placed, Up
  <2>3. QED
    BY <2>1, <2>2 DEF PlacesInv, Placed, Saves
<1>2. CASE Ends
  BY <1>2 DEF Ends, PlacesInv, Placed, Saves
<1>3. CASE StartCreates \/ StartEnds \/ StartFails \/ Retry
  BY <1>3 DEF StartCreates, StartEnds, StartFails, Retry, PlacesInv, Placed,
              Saves, Up
<1>4. QED
  BY <1>1, <1>2, <1>3

LEMMA ChangesPlaces ==
  ASSUME DesktopTypeOK, PlacesInv, NEW t \in Threads,
         \/ \E l \in Levels : ClickKindness(t, l) /\ cfg.kind # l
         \/ SetKindness(t) \/ SaveTruncates(t) \/ SaveWrites(t) \/ SaveFails(t)
  PROVE  PlacesInv'
<1>1. HandlerTypes /\ JobTypes
  BY TypesByPart
<1>2. CASE \E l \in Levels : ClickKindness(t, l) /\ cfg.kind # l
  BY <1>1, <1>2 DEF ClickKindness, Click, Goes, screen, PlacesInv, Placed, Saves, Up,
                    HandlerTypes, JobTypes
<1>3. CASE SetKindness(t)
  BY <1>1, <1>3 DEF SetKindness, Goes, screen, PlacesInv, Placed, Saves, Up,
                    HandlerTypes, JobTypes
<1>4. CASE SaveTruncates(t)
  BY <1>1, <1>4 DEF SaveTruncates, Goes, screen, PlacesInv, Placed, Saves, Up,
                    HandlerTypes, JobTypes
<1>5. CASE SaveWrites(t)
  BY <1>1, <1>5, SavedTyped
     DEF SaveWrites, AfterSave, Flows, Goes, screen, PlacesInv, Placed, Saves, Up,
         HandlerTypes, JobTypes
<1>6. CASE SaveFails(t)
  BY <1>1, <1>6 DEF SaveFails, Goes, screen, PlacesInv, Placed, Saves, Up,
                    HandlerTypes, JobTypes
<1>7. QED
  BY <1>2, <1>3, <1>4, <1>5, <1>6

LEMMA WindowPlaces ==
  ASSUME DesktopTypeOK, PlacesInv,
         \/ FinishSetup \/ Registers \/ FormHandled
         \/ \E f \in Forms : FormSaved(f) /\ Valid(f)
  PROVE  PlacesInv'
<1>1. HandlerTypes /\ JobTypes
  BY TypesByPart
<1>2. CASE FinishSetup
  <2>1. /\ phase = "setup" /\ phase' = phase /\ Goes("window", "idle", "save")
        /\ \A t \in Threads \ {"window"} : job'[t] = job[t]
    BY <1>1, <1>2 DEF FinishSetup, Click, screen, JobTypes
  <2>2. job'["window"].flow = "setup"
    BY <1>1, <1>2, Constants DEF FinishSetup, JobTypes
  <2>3. QED
    BY <1>1, <2>1, <2>2, Constants
       DEF Goes, PlacesInv, Placed, Saves, Up, HandlerTypes
<1>3. CASE Registers
  BY <1>1, <1>3, Constants
     DEF Registers, Goes, screen, PlacesInv, Placed, Saves, Up, HandlerTypes,
         JobTypes
<1>4. CASE \E f \in Forms : FormSaved(f) /\ Valid(f)
  BY <1>1, <1>4, Constants
     DEF FormSaved, Click, Goes, screen, PlacesInv, Placed, Saves, Up, HandlerTypes,
         JobTypes
<1>5. CASE FormPushed \/ FormRegisters \/ FormAdopted
  BY <1>1, <1>5, Constants
     DEF FormPushed, FormRegisters, FormAdopted, Goes, screen, PlacesInv, Placed,
         Saves, Up, HandlerTypes
<1>6. CASE FormUpdates
  BY <1>1, <1>6, Constants
     DEF FormUpdates, Goes, screen, PlacesInv, Placed, Saves, Up, HandlerTypes,
         JobTypes
<1>7. QED
  BY <1>2, <1>3, <1>4, <1>5, <1>6 DEF FormHandled

LEMMA PlacesInitially == Init => PlacesInv
  BY DEF Init, PlacesInv, Placed, Saves

\* The others.
Stores ==
  \/ Launch \/ Ends \/ StartCreates \/ StartEnds \/ StartFails \/ Retry
  \/ FinishSetup \/ Registers \/ FormHandled
  \/ \E f \in Forms : FormSaved(f) /\ Valid(f)
  \/ \E t \in Threads :
       \/ \E l \in Levels : ClickKindness(t, l) /\ cfg.kind # l
       \/ SetKindness(t) \/ SaveTruncates(t) \/ SaveWrites(t) \/ SaveFails(t)

LEMMA StepsStoreOrNot ==
  ASSUME DesktopTypeOK, PlacesInv, [Next]_vars
  PROVE  Aside \/ Stores
<1>1. CASE \/ Tick \/ WorldChanges \/ UNCHANGED vars
  BY <1>1, TicksAside
<1>2. CASE \/ CloseWindow \/ ShowWindow \/ hideSettings \/ Quit
  BY <1>2, WindowsAside DEF Stores, Quit
<1>3. ASSUME NEW t \in Threads,
             \/ Toggles(t) \/ OpenSettings(t)
             \/ \E l \in Levels : ClickKindness(t, l)
      PROVE  Aside \/ Stores
  BY <1>3, ClicksAside DEF Stores
<1>4. CASE \E f \in Forms : FormSaved(f)
  BY <1>4, ClicksAside, Constants DEF Stores
<1>5. ASSUME NEW t \in Threads, Handles(t)
      PROVE  Aside \/ Stores
  BY <1>5, DisplaysAside DEF Handles, Stores
<1>6. CASE \/ Launch \/ StartCreates \/ StartEnds \/ StartFails \/ Retry
           \/ FinishSetup \/ Registers \/ FormHandled
  BY <1>6 DEF Stores
<1>7. QED
  BY <1>1, <1>2, <1>3, <1>4, <1>5, <1>6 DEF Next

LEMMA PlacesStep == DesktopTypeOK /\ PlacesInv /\ [Next]_vars => PlacesInv'
  BY StepsStoreOrNot, AsidePlaces, ProcessPlaces, ChangesPlaces, WindowPlaces
     DEF Stores

-----------------------------------------------------------------------------
(* What is saved is accepted by the next launch.                           *)

LEMMA AsideWallet ==
  ASSUME DesktopTypeOK, WalletInv, Aside
  PROVE  WalletInv'
  BY DEF WalletInv, WalletKnown, LaunchAccepts, Valid, Aside, Writes, Writing,
         Saves

LEMMA ProcessWallet ==
  ASSUME DesktopTypeOK, PlacesInv, WalletInv,
         \/ Launch \/ Ends \/ StartCreates \/ StartEnds \/ StartFails \/ Retry
  PROVE  WalletInv'
<1>1. CASE Launch
  <2>1. handler' = handler /\ \A t \in Threads : handler[t] = "idle"
    BY <1>1 DEF Launch, PlacesInv, Placed, Up
  <2>2. unasked' = unasked
    BY <1>1 DEF Launch
  <2>3. CASE LaunchGraphical
    <3>1. /\ file' = file
          /\ phase' \in {"setup", "refused"}
             \/ (cfg' = file /\ Valid(file))
      BY <2>3 DEF LaunchGraphical, Starts, store
    <3>2. QED
      BY <2>1, <2>2, <3>1
         DEF WalletInv, WalletKnown, LaunchAccepts, Valid, Saves, Working
  <2>4. CASE LaunchTerminal
    <3>1. cfg' = file' /\ Valid(cfg')
      BY <2>4, Constants DEF LaunchTerminal, Valid, Configs
    <3>2. QED
      BY <2>1, <2>2, <3>1
         DEF WalletInv, WalletKnown, LaunchAccepts, Valid, Saves
  <2>5. QED
    BY <1>1, <2>3, <2>4 DEF Launch
<1>2. CASE Ends
  BY <1>2 DEF Ends, store, WalletInv, WalletKnown, LaunchAccepts, Valid, Saves,
              Working
<1>3. CASE StartCreates \/ StartEnds \/ StartFails \/ Retry
  BY <1>3
     DEF StartCreates, StartEnds, StartFails, Retry, store, mishaps, WalletInv,
         WalletKnown, LaunchAccepts, Valid, Saves, Working
<1>4. QED
  BY <1>1, <1>2, <1>3

LEMMA ChangesWallet ==
  ASSUME DesktopTypeOK, PlacesInv, WalletInv, NEW t \in Threads,
         \/ \E l \in Levels : ClickKindness(t, l) /\ cfg.kind # l
         \/ SetKindness(t) \/ SaveTruncates(t) \/ SaveWrites(t) \/ SaveFails(t)
  PROVE  WalletInv'
<1>1. HandlerTypes /\ JobTypes /\ StoreTypes
  BY TypesByPart
<1> USE DEF WalletInv, WalletKnown, LaunchAccepts, Valid, Saves, HandlerTypes,
            Goes, screen
<1>2. CASE \E l \in Levels : ClickKindness(t, l) /\ cfg.kind # l
  <2>1. /\ cfg'.conn = cfg.conn /\ phase' = phase /\ Goes(t, "idle", "preset")
        /\ file' = file /\ unasked' = unasked
        /\ \A u \in Threads \ {t} : job'[u] = job[u]
    BY <1>1, <1>2 DEF ClickKindness, Click, StoreTypes, JobTypes, Configs
  <2>2. QED
    BY <1>1, <2>1
<1>3. CASE SetKindness(t)
  BY <1>1, <1>3 DEF SetKindness, store, PlacesInv, Placed
<1>4. CASE SaveTruncates(t)
  <2>1. ~Valid(Saved(t)) => unasked'
    BY <1>1, <1>4
       DEF SaveTruncates, Saved, PlacesInv, Placed, Up, Working, ScreenTypes,
           DesktopTypeOK
  <2>2. /\ Goes(t, "save", "write") /\ phase' = phase /\ cfg' = cfg
        /\ file' = Torn /\ (unasked => unasked')
        /\ \A u \in Threads \ {t} : job'[u] = job[u]
        /\ job'[t].next = Saved(t) /\ job'[t].flow = job[t].flow
    BY <1>1, <1>4 DEF SaveTruncates, JobTypes
  <2>3. job[t].flow = "form" => Saved(t) = job[t].next
    BY DEF Saved
  <2>4. QED
    BY <1>1, <2>1, <2>2, <2>3, Constants
<1>5. CASE SaveWrites(t)
  <2>1. /\ Goes(t, "write", AfterSave(job[t].flow))
        /\ phase' = phase /\ cfg' = cfg /\ unasked' = unasked
        /\ file' \in {job[t].next, Torn}
        /\ \A u \in Threads \ {t} : job'[u] = job[u]
        /\ job[t].flow = "form" => job' = job
    BY <1>1, <1>5 DEF SaveWrites, mishaps, JobTypes
  <2>2. /\ job[t].flow = "kind" => AfterSave(job[t].flow) = "look"
        /\ job[t].flow = "form" => AfterSave(job[t].flow) = "adopt"
        /\ job[t].flow = "setup" => AfterSave(job[t].flow) = "register"
        /\ job[t].flow \in {"kind", "form", "setup"}
    BY SavedTyped DEF AfterSave, Flows
  <2>3. QED
    BY <1>1, <2>1, <2>2, Constants
<1>6. CASE SaveFails(t)
  BY <1>1, <1>6 DEF SaveFails, store, Working
<1>7. QED
  BY <1>2, <1>3, <1>4, <1>5, <1>6

LEMMA WindowWallet ==
  ASSUME DesktopTypeOK, PlacesInv, WalletInv,
         \/ FinishSetup \/ Registers \/ FormHandled
         \/ \E f \in Forms : FormSaved(f) /\ Valid(f)
  PROVE  WalletInv'
<1>1. HandlerTypes /\ JobTypes /\ StoreTypes
  BY TypesByPart
<1> USE DEF WalletInv, WalletKnown, LaunchAccepts, Valid, Saves, HandlerTypes,
            Goes, screen
<1>2. CASE FinishSetup
  <2>1. /\ phase' = phase /\ Goes("window", "idle", "save")
        /\ file' = file /\ unasked' = unasked
        /\ \A u \in Threads \ {"window"} : job'[u] = job[u]
    BY <1>1, <1>2 DEF FinishSetup, Click, JobTypes
  <2>2. Valid(cfg') /\ job'["window"].flow = "setup"
    BY <1>1, <1>2, Constants DEF FinishSetup, StoreTypes, JobTypes, Configs
  <2>3. QED
    BY <1>1, <2>1, <2>2, Constants
<1>3. CASE Registers
  BY <1>1, <1>3, Constants DEF Registers
<1>4. CASE \E f \in Forms : FormSaved(f) /\ Valid(f)
  BY <1>1, <1>4, Constants DEF FormSaved, Click, store, JobTypes
<1>5. CASE FormPushed \/ FormRegisters
  BY <1>1, <1>5, Constants
     DEF FormPushed, FormRegisters, store, mishaps, PlacesInv, Placed
<1>6. CASE FormAdopted
  BY <1>1, <1>6, Constants DEF FormAdopted, mishaps, PlacesInv, Placed
<1>7. CASE FormUpdates
  BY <1>1, <1>7, Constants DEF FormUpdates, store, JobTypes
<1>8. QED
  BY <1>2, <1>3, <1>4, <1>5, <1>6, <1>7 DEF FormHandled

LEMMA WalletStep ==
  DesktopTypeOK /\ PlacesInv /\ WalletInv /\ [Next]_vars => WalletInv'
  BY StepsStoreOrNot, AsideWallet, ProcessWallet, ChangesWallet, WindowWallet
     DEF Stores

-----------------------------------------------------------------------------
(* Config, file, login entry and scheduler.                                *)

LEMMA AsideAgree ==
  ASSUME DesktopTypeOK, AgreeInv, Aside
  PROVE  AgreeInv'
<1> SUFFICES ASSUME ~overlapped, ~unsaved, Agreed
             PROVE  Agreed'
  BY DEF AgreeInv, Aside
<1>1. \A t \in Threads : \/ handler'[t] = handler[t]
                         \/ handler[t] \notin Writing /\ handler'[t] \notin Writing
  BY DEF Aside, Writes
<1>2. \A t \in Threads : \A p \in Writing : handler'[t] = p <=> handler[t] = p
  BY <1>1
<1>3. OneWriter' /\ \A t \in Threads : InHand(t)'
  BY <1>2 DEF Agreed, Aside, OneWriter, InHand, Writes, Writing
<1>4. (Settled <=> Settled')
  BY <1>1 DEF Settled
<1>5. FileFollows => FileFollows'
  BY <1>2, <1>4, Constants DEF FileFollows, Aside, Writing
<1>6. EntryFollows => EntryFollows'
  BY <1>2, Constants DEF EntryFollows, Entered, Saves, Aside, Writing
<1>7. SchedulerFollows => SchedulerFollows'
  BY <1>2 DEF SchedulerFollows, Aside, Writing
<1>8. QED
  BY <1>3, <1>5, <1>6, <1>7 DEF Agreed, Aside

\* When the program is started there is no handler, and the config is what is
\* on file unless nothing is.
LEMMA LaunchAgree ==
  ASSUME DesktopTypeOK, PlacesInv, Launch
  PROVE  AgreeInv'
<1>1. handler' = handler /\ \A t \in Threads : handler[t] = "idle"
  BY DEF Launch, PlacesInv, Placed, Up
<1>2. OneWriter' /\ \A t \in Threads : InHand(t)'
  BY <1>1 DEF OneWriter, InHand, Writes, Writing
<1>3. phase' \in Working => file' = cfg' /\ Ensures(cfg')
  <2>1. CASE LaunchGraphical
    BY <2>1 DEF LaunchGraphical, Starts, Working
  <2>2. CASE LaunchTerminal
    <3>1. ASSUME NEW c, file' = c, cfg' = c, Ensures(c)
          PROVE  file' = cfg' /\ Ensures(cfg')
      BY <3>1
    <3>2. QED
      BY <2>2, <3>1 DEF LaunchTerminal
  <2>3. QED
    BY <2>1, <2>2 DEF Launch
<1>4. phase' \in {"created", "mining"} => sched'.kind = cfg'.kind
  BY DEF Launch, LaunchGraphical, LaunchTerminal, Starts, Resting
<1>5. Ensures(cfg') => (cfg'.startup => entry' \/ unregistered')
  BY DEF Ensures, SetAutostart
<1>6. FileFollows' <=> file' = cfg'
  BY <1>1, Constants DEF FileFollows, Settled, Writing
<1>7. EntryFollows' <=> (cfg'.startup => entry' \/ unregistered')
  BY <1>1, Constants DEF EntryFollows, Entered, Saves
<1>8. QED
  BY <1>2, <1>3, <1>4, <1>5, <1>6, <1>7 DEF AgreeInv, Agreed, SchedulerFollows

LEMMA ProcessAgree ==
  ASSUME DesktopTypeOK, PlacesInv, AgreeInv,
         \/ Ends \/ StartCreates \/ StartEnds \/ StartFails \/ Retry
  PROVE  AgreeInv'
<1> SUFFICES ASSUME ~overlapped', ~unsaved'
             PROVE  Agreed'
  BY DEF AgreeInv
<1>1. CASE Ends
  <2>1. phase' \notin Working /\ \A t \in Threads : handler'[t] = "idle"
    BY <1>1 DEF Ends, Working
  <2>2. QED
    BY <2>1 DEF Agreed, OneWriter, InHand, Writes, Writing
<1>2. CASE StartCreates \/ StartEnds \/ StartFails \/ Retry
  <2>1. /\ UNCHANGED <<handler, job, cfg, file, entry, unregistered>>
        /\ phase \in Working /\ phase' \in Working /\ Agreed
    BY <1>2 DEF AgreeInv, StartCreates, StartEnds, StartFails, Retry, Working,
                store, mishaps
  <2>2. OneWriter' /\ \A t \in Threads : InHand(t)'
    BY <2>1 DEF Agreed, OneWriter, InHand, Writes
  <2>3. FileFollows' /\ EntryFollows'
    BY <2>1 DEF Agreed, FileFollows, Settled, EntryFollows, Entered, Saves
  <2>4. SchedulerFollows'
    <3>1. CASE StartCreates
      <4>1. sched'.kind = cfg'.kind
        BY <2>1, <3>1 DEF StartCreates, Resting
      <4>2. QED
        BY <4>1 DEF SchedulerFollows
    <3>2. CASE StartEnds
      BY <2>1, <3>2 DEF StartEnds, miner, Agreed, SchedulerFollows
    <3>3. CASE StartFails \/ Retry
      BY <3>3 DEF StartFails, Retry, SchedulerFollows
    <3>4. QED
      BY <1>2, <3>1, <3>2, <3>3
  <2>5. QED
    BY <2>2, <2>3, <2>4 DEF Agreed
<1>3. QED
  BY <1>1, <1>2

\* A handler that starts to change the config, alone.
LEMMA Alone ==
  ASSUME DesktopTypeOK, NEW t \in Threads, NEW to, Goes(t, "idle", to), Overlaps(t),
         ~overlapped'
  PROVE  ~overlapped /\ Settled /\ \A u \in Threads \ {t} : ~Writes(u)'
<1>1. /\ HandlerTypes /\ "idle" \notin Writing
  BY TypesByPart DEF Writing
<1>2. ~overlapped /\ \A u \in Threads \ {t} : handler[u] \notin Writing
  BY DEF Overlaps
<1>3. QED
  BY <1>1, <1>2 DEF Settled, Writes, Goes, HandlerTypes

\* A handler that is changing it, while nobody else is.
LEMMA Only ==
  ASSUME DesktopTypeOK, Agreed, NEW t \in Threads, Writes(t), NEW to,
         Goes(t, handler[t], to)
  PROVE  /\ \A u \in Threads \ {t} : ~Writes(u) /\ ~Writes(u)'
         /\ handler'[t] = to
  BY TypesByPart DEF Agreed, OneWriter, Writes, Goes, HandlerTypes

\* So what follows is about that one.
LEMMA OnlyAgrees ==
  ASSUME NEW t \in Threads, \A u \in Threads \ {t} : ~Writes(u)',
         InHand(t)',
         phase' \in Working => FileFollows' /\ EntryFollows' /\ SchedulerFollows'
  PROVE  Agreed'
<1>1. OneWriter'
  BY DEF OneWriter
<1>2. \A u \in Threads \ {t} : InHand(u)'
  BY DEF InHand, Writes, Writing
<1>3. QED
  BY <1>1, <1>2 DEF Agreed

LEMMA KindnessAgree ==
  ASSUME DesktopTypeOK, PlacesInv, AgreeInv, NEW t \in Threads,
         \/ \E l \in Levels : ClickKindness(t, l) /\ cfg.kind # l
         \/ SetKindness(t)
  PROVE  AgreeInv'
<1> SUFFICES ASSUME ~overlapped', ~unsaved'
             PROVE  Agreed'
  BY DEF AgreeInv
<1>0. HandlerTypes /\ JobTypes /\ StoreTypes /\ MinerTypes
  BY TypesByPart
<1>1. CASE \E l \in Levels : ClickKindness(t, l) /\ cfg.kind # l
  <2>1. /\ Goes(t, "idle", "preset") /\ Overlaps(t)
        /\ UNCHANGED <<phase, file, entry, unsaved, unregistered, sched>>
        /\ cfg'.startup = cfg.startup
        /\ job'[t].next = cfg' /\ \A u \in Threads \ {t} : job'[u] = job[u]
    BY <1>0, <1>1 DEF ClickKindness, Click, screen, miner, StoreTypes,
                      JobTypes, Configs
  <2>2. /\ ~overlapped /\ Settled /\ \A u \in Threads \ {t} : ~Writes(u)'
    BY <2>1, Alone
  <2>3. handler'[t] = "preset" /\ Agreed
    BY <1>0, <2>1, <2>2 DEF Goes, HandlerTypes, AgreeInv
  <2>4. InHand(t)'
    BY <2>1, <2>3 DEF InHand
  <2>5. ASSUME phase' \in Working
        PROVE  FileFollows' /\ EntryFollows' /\ SchedulerFollows'
    <3>1. handler'["window"] \notin {"push", "entry", "save", "write", "adopt", "update"}
      BY <2>2, <2>3, Constants DEF Writes, Writing
    <3>2. FileFollows'
      BY <2>3, <3>1 DEF FileFollows, Settled, Writing
    <3>3. handler["window"] \notin {"adopt", "save", "write"}
      BY <2>2, Constants DEF Settled, Writing
    <3>4. EntryFollows'
      BY <2>1, <2>3, <2>5, <3>1, <3>3
         DEF Agreed, EntryFollows, Entered, Saves
    <3>5. SchedulerFollows'
      BY <2>3 DEF SchedulerFollows
    <3>6. QED
      BY <3>2, <3>4, <3>5
  <2>6. QED
    BY <2>2, <2>4, <2>5, OnlyAgrees
<1>2. CASE SetKindness(t)
  <2>1. /\ Goes(t, "preset", "save") /\ Misses
        /\ UNCHANGED <<phase, cfg, file, entry, job, unsaved, unregistered>>
        /\ HasScheduler => sched'.kind = job[t].next.kind
    BY <1>0, <1>2 DEF SetKindness, screen, store, MinerTypes, Schedulers
  <2>2. Agreed /\ phase # "created"
    BY <2>1 DEF Misses, AgreeInv
  <2>3. Writes(t) /\ handler[t] = "preset" /\ job[t].next.kind = cfg.kind
    BY <2>1, <2>2 DEF Goes, Writes, Writing, Agreed, InHand
  <2>4. /\ \A u \in Threads \ {t} : ~Writes(u) /\ ~Writes(u)'
        /\ handler'[t] = "save"
    BY <2>1, <2>2, <2>3, Only
  <2>5. InHand(t)'
    BY <2>4 DEF InHand
  <2>6. job[t].flow = "kind"
    BY <2>3 DEF PlacesInv, Placed
  <2>7. ASSUME phase' \in Working
        PROVE  FileFollows' /\ EntryFollows' /\ SchedulerFollows'
    <3>1. t = "window" \/ (~Writes("window") /\ ~Writes("window")')
      BY <2>4, Constants
    <3>2. FileFollows'
      BY <2>4, <3>1 DEF FileFollows, Settled, Writes, Writing
    <3>3. EntryFollows'
      BY <2>1, <2>2, <2>3, <2>4, <2>6, <2>7, <3>1
         DEF Agreed, EntryFollows, Entered, Saves, Writes, Writing
    <3>4. SchedulerFollows'
      BY <2>1, <2>2, <2>3 DEF SchedulerFollows, HasScheduler
    <3>5. QED
      BY <3>2, <3>3, <3>4
  <2>8. QED
    BY <2>4, <2>5, <2>7, OnlyAgrees
<1>3. QED
  BY <1>1, <1>2

LEMMA SavesAgree ==
  ASSUME DesktopTypeOK, PlacesInv, AgreeInv, NEW t \in Threads,
         SaveTruncates(t) \/ SaveWrites(t) \/ SaveFails(t)
  PROVE  AgreeInv'
<1> SUFFICES ASSUME ~overlapped', ~unsaved'
             PROVE  Agreed'
  BY DEF AgreeInv
<1>1. HandlerTypes /\ JobTypes
  BY TypesByPart
<1>2. CASE SaveTruncates(t)
  <2>1. /\ Goes(t, "save", "write")
        /\ UNCHANGED <<phase, cfg, entry, overlapped, unsaved, unregistered,
                       sched>>
        /\ job'[t].next = Saved(t) /\ job'[t].flow = job[t].flow
    BY <1>1, <1>2 DEF SaveTruncates, screen, miner, JobTypes
  <2>2. Agreed /\ Writes(t) /\ handler[t] = "save"
    BY <2>1 DEF AgreeInv, Goes, Writes, Writing
  <2>3. /\ \A u \in Threads \ {t} : ~Writes(u) /\ ~Writes(u)'
        /\ handler'[t] = "write"
    BY <2>1, <2>2, Only
  <2>4. InHand(t)'
    BY <2>1, <2>3 DEF InHand, Saved
  <2>5. ASSUME phase' \in Working
        PROVE  FileFollows' /\ EntryFollows' /\ SchedulerFollows'
    <3>1. t = "window" \/ (~Writes("window") /\ ~Writes("window")')
      BY <2>3, Constants
    <3>2. FileFollows'
      BY <2>3, <3>1 DEF FileFollows, Settled, Writes, Writing
    <3>3. EntryFollows'
      BY <2>1, <2>2, <2>3, <2>5, <3>1
         DEF Agreed, EntryFollows, Entered, Saves, Saved, Writes, Writing
    <3>4. SchedulerFollows'
      BY <2>1, <2>2, <2>3, <2>5
         DEF Agreed, SchedulerFollows, Writes, Writing
    <3>5. QED
      BY <3>2, <3>3, <3>4
  <2>6. QED
    BY <2>3, <2>4, <2>5, OnlyAgrees
<1>3. CASE SaveWrites(t)
  <2>1. /\ Goes(t, "write", AfterSave(job[t].flow))
        /\ UNCHANGED <<phase, cfg, entry, overlapped, unsaved, unregistered,
                       sched>>
        /\ file' = job[t].next
        /\ job[t].flow = "form" => job' = job
    BY <1>1, <1>3 DEF SaveWrites, screen, miner, mishaps
  <2>2. Agreed /\ Writes(t) /\ handler[t] = "write"
    BY <2>1 DEF AgreeInv, Goes, Writes, Writing
  <2>3. /\ \A u \in Threads \ {t} : ~Writes(u) /\ ~Writes(u)'
        /\ handler'[t] = AfterSave(job[t].flow)
    BY <2>1, <2>2, Only
  <2>4. job[t].flow # "form" => job[t].next = cfg
    BY <2>2 DEF Agreed, InHand
  <2>5. \/ job[t].flow = "kind" /\ handler'[t] = "look"
        \/ job[t].flow = "form" /\ handler'[t] = "adopt" /\ t = "window"
        \/ /\ job[t].flow = "setup" /\ handler'[t] = "register"
           /\ t = "window" /\ phase = "setup"
    BY <2>2, <2>3, SavedTyped
       DEF AfterSave, Flows, PlacesInv, Placed, Saves
  <2>6. InHand(t)'
    BY <2>1, <2>4, <2>5 DEF InHand
  <2>7. ASSUME phase' \in Working
        PROVE  FileFollows' /\ EntryFollows' /\ SchedulerFollows'
    <3>1. t = "window" \/ (~Writes("window") /\ ~Writes("window")')
      BY <2>3, Constants
    <3>2. job[t].flow # "setup"
      BY <2>1, <2>5, <2>7 DEF Working
    <3>3. FileFollows'
      BY <2>1, <2>3, <2>4, <2>5, <3>1, <3>2
         DEF FileFollows, Settled, Writes, Writing
    <3>4. EntryFollows'
      BY <2>1, <2>2, <2>3, <2>5, <2>7, <3>1, <3>2
         DEF Agreed, EntryFollows, Entered, Saves, Writes, Writing
    <3>5. SchedulerFollows'
      BY <2>1, <2>2, <2>3, <2>5, <2>7
         DEF Agreed, SchedulerFollows, Writes, Writing
    <3>6. QED
      BY <3>3, <3>4, <3>5
  <2>8. QED
    BY <2>3, <2>6, <2>7, OnlyAgrees
<1>4. CASE SaveFails(t)
  BY <1>4 DEF SaveFails
<1>5. QED
  BY <1>2, <1>3, <1>4

\* The set-up, whose config and file agree before the phase is another.
LEMMA SetupAgree ==
  ASSUME DesktopTypeOK, PlacesInv, AgreeInv, FinishSetup \/ Registers
  PROVE  AgreeInv'
<1> SUFFICES ASSUME ~overlapped', ~unsaved'
             PROVE  Agreed'
  BY DEF AgreeInv
<1>1. HandlerTypes /\ JobTypes
  BY TypesByPart
<1>2. CASE FinishSetup
  <2>1. /\ Goes("window", "idle", "save") /\ Overlaps("window")
        /\ phase = "setup" /\ phase' = phase
    BY <1>2 DEF FinishSetup, Click, screen
  <2>2. \A u \in Threads \ {"window"} : ~Writes(u)'
    BY <2>1, Alone, Constants
  <2>3. handler'["window"] = "save"
    BY <1>1, <2>1, Constants DEF Goes, HandlerTypes
  <2>4. InHand("window")' /\ phase' \notin Working
    BY <2>1, <2>3 DEF InHand, Working
  <2>5. QED
    BY <2>2, <2>4, OnlyAgrees, Constants
<1>3. CASE Registers
  <2>1. /\ Goes("window", "register", "idle") /\ Ensures(cfg)
        /\ phase' = "starting"
        /\ UNCHANGED <<cfg, file, job, overlapped, unsaved>>
    BY <1>3 DEF Registers
  <2>2. Agreed /\ Writes("window") /\ handler["window"] = "register"
    BY <2>1 DEF AgreeInv, Goes, Writes, Writing
  <2>3. /\ \A u \in Threads \ {"window"} : ~Writes(u) /\ ~Writes(u)'
        /\ handler'["window"] = "idle"
    BY <2>1, <2>2, Only, Constants
  <2>4. file' = cfg'
    BY <2>1, <2>2, Constants DEF Agreed, InHand
  <2>5. Entered(cfg.startup)'
    BY <2>1 DEF Ensures, SetAutostart, Entered
  <2>6. InHand("window")'
    BY <2>3 DEF InHand
  <2>7. FileFollows' /\ EntryFollows' /\ SchedulerFollows'
    BY <2>1, <2>3, <2>4, <2>5
       DEF FileFollows, EntryFollows, SchedulerFollows, Entered, Saves
  <2>8. QED
    BY <2>3, <2>6, <2>7, OnlyAgrees, Constants
<1>4. QED
  BY <1>2, <1>3

\* The settings window's Save, step by step.
LEMMA FormBegins ==
  ASSUME DesktopTypeOK, PlacesInv, AgreeInv,
         NEW f \in Forms, FormSaved(f), Valid(f)
  PROVE  AgreeInv'
<1> SUFFICES ASSUME ~overlapped', ~unsaved'
             PROVE  Agreed'
  BY DEF AgreeInv
<1>1. HandlerTypes /\ JobTypes
  BY TypesByPart
<1>2. /\ Goes("window", "idle", "push") /\ Overlaps("window")
      /\ UNCHANGED <<phase, cfg, file, entry, unsaved, unregistered, sched>>
  BY DEF FormSaved, Click, screen, store, miner
<1>3. /\ ~overlapped /\ Settled
      /\ \A u \in Threads \ {"window"} : ~Writes(u)'
  BY <1>2, Alone, Constants
<1>4. Agreed /\ handler["window"] = "idle" /\ handler'["window"] = "push"
  BY <1>1, <1>2, <1>3, Constants DEF AgreeInv, Goes, HandlerTypes
<1>5. InHand("window")'
  BY <1>4 DEF InHand
<1>6. ASSUME phase' \in Working
      PROVE  FileFollows' /\ EntryFollows' /\ SchedulerFollows'
  <2>1. FileFollows'
    BY <1>2, <1>3, <1>4, <1>6 DEF Agreed, FileFollows
  <2>2. EntryFollows'
    BY <1>2, <1>4, <1>6 DEF Agreed, EntryFollows, Entered, Saves
  <2>3. SchedulerFollows'
    BY <1>2, <1>3, <1>4, <1>6
       DEF Agreed, SchedulerFollows, Settled, Writing
  <2>4. QED
    BY <2>1, <2>2, <2>3
<1>7. QED
  BY <1>3, <1>5, <1>6, OnlyAgrees, Constants

LEMMA FormAgree ==
  ASSUME DesktopTypeOK, PlacesInv, AgreeInv, FormHandled
  PROVE  AgreeInv'
<1> SUFFICES ASSUME ~overlapped', ~unsaved'
             PROVE  Agreed'
  BY DEF AgreeInv
<1>1. HandlerTypes /\ JobTypes /\ StoreTypes /\ MinerTypes
  BY TypesByPart
<1>2. ~overlapped /\ ~unsaved /\ Agreed
  <2>1. CASE FormPushed \/ FormRegisters \/ FormAdopted
    BY <2>1 DEF FormPushed, FormRegisters, FormAdopted, mishaps, AgreeInv
  <2>2. CASE FormUpdates
    BY <2>2 DEF FormUpdates, Misses, AgreeInv
  <2>3. QED
    BY <2>1, <2>2 DEF FormHandled
<1>3. CASE FormPushed
  <2>1. PICK to \in {"entry", "idle"} : Goes("window", "push", to)
    BY <1>3 DEF FormPushed
  <2>2. UNCHANGED <<phase, cfg, file, entry, job, sched, unregistered>>
    BY <1>3 DEF FormPushed, screen, store, miner, mishaps
  <2>3. Writes("window") /\ handler["window"] = "push"
    BY <2>1 DEF Goes, Writes, Writing
  <2>4. /\ \A u \in Threads \ {"window"} : ~Writes(u) /\ ~Writes(u)'
        /\ handler'["window"] = to
    BY <1>2, <2>1, <2>3, Only, Constants
  <2>5. InHand("window")'
    BY <2>4 DEF InHand
  <2>6. ASSUME phase' \in Working
        PROVE  FileFollows' /\ EntryFollows' /\ SchedulerFollows'
    BY <1>2, <2>2, <2>3, <2>4, <2>6
       DEF Agreed, FileFollows, EntryFollows, Entered, SchedulerFollows,
           Saves, Writes, Writing
  <2>7. QED
    BY <2>4, <2>5, <2>6, OnlyAgrees, Constants
<1>4. CASE FormRegisters
  <2> DEFINE on == job["window"].next.startup
  <2>1. PICK to \in {"save", "idle"} :
          /\ Goes("window", "entry", to)
          /\ \/ to = "save" /\ entry' = IF on # cfg.startup THEN on ELSE entry
             \/ to = "idle" /\ entry' = entry
    BY <1>4 DEF FormRegisters, SetAutostart
  <2>2. UNCHANGED <<phase, cfg, file, job, sched, unregistered>>
    BY <1>4 DEF FormRegisters, screen, miner, mishaps
  <2>3. Writes("window") /\ handler["window"] = "entry"
    BY <2>1 DEF Goes, Writes, Writing
  <2>4. /\ \A u \in Threads \ {"window"} : ~Writes(u) /\ ~Writes(u)'
        /\ handler'["window"] = to
    BY <1>2, <2>1, <2>3, Only, Constants
  <2>5. InHand("window")'
    BY <2>4 DEF InHand
  <2>6. job["window"].flow = "form"
    BY <2>3, Constants DEF PlacesInv, Placed
  <2>7. ASSUME phase' \in Working
        PROVE  FileFollows' /\ EntryFollows' /\ SchedulerFollows'
    <3>1. FileFollows'
      BY <1>2, <2>2, <2>3, <2>4, <2>7, Constants
         DEF Agreed, FileFollows, Settled, Writing
    <3>2. Entered(cfg.startup)
      BY <1>2, <2>2, <2>3, <2>7 DEF Agreed, EntryFollows, Saves
    <3>3. EntryFollows'
      <4>1. CASE to = "save"
        <5>1. handler'["window"] = "save" /\ job'["window"].flow = "form"
          BY <2>2, <2>4, <2>6, <4>1
        <5>2. on => entry' \/ unregistered'
          BY <2>1, <2>2, <3>2, <4>1 DEF Entered
        <5>3. QED
          BY <2>2, <5>1, <5>2 DEF EntryFollows, Entered, Saves
      <4>2. CASE to = "idle"
        BY <2>1, <2>2, <2>4, <3>2, <4>2 DEF EntryFollows, Entered, Saves
      <4>3. QED
        BY <4>1, <4>2
    <3>4. SchedulerFollows'
      BY <1>2, <2>2, <2>3, <2>4, <2>7
         DEF Agreed, SchedulerFollows, Writes, Writing
    <3>5. QED
      BY <3>1, <3>3, <3>4
  <2>8. QED
    BY <2>4, <2>5, <2>7, OnlyAgrees, Constants
<1>5. CASE FormAdopted
  <2>1. /\ Goes("window", "adopt", "update") /\ cfg' = job["window"].next
        /\ UNCHANGED <<phase, file, entry, job, sched, unregistered>>
    BY <1>5 DEF FormAdopted, screen, miner, mishaps
  <2>2. Writes("window") /\ handler["window"] = "adopt"
    BY <2>1 DEF Goes, Writes, Writing
  <2>3. /\ \A u \in Threads \ {"window"} : ~Writes(u) /\ ~Writes(u)'
        /\ handler'["window"] = "update"
    BY <1>2, <2>1, <2>2, Only, Constants
  <2>4. InHand("window")'
    BY <2>3 DEF InHand
  <2>5. ASSUME phase' \in Working
        PROVE  FileFollows' /\ EntryFollows' /\ SchedulerFollows'
    <3>1. FileFollows' /\ EntryFollows'
      BY <1>2, <2>1, <2>2, <2>3, <2>5
         DEF Agreed, FileFollows, EntryFollows, Entered, Saves
    <3>2. SchedulerFollows'
      BY <2>3, Constants DEF SchedulerFollows
    <3>3. QED
      BY <3>1, <3>2
  <2>6. QED
    BY <2>3, <2>4, <2>5, OnlyAgrees, Constants
<1>6. CASE FormUpdates
  <2>1. /\ Goes("window", "update", "look") /\ Misses
        /\ UNCHANGED <<phase, cfg, file, entry, unregistered>>
        /\ HasScheduler => sched'.kind = cfg.kind
    BY <1>1, <1>6 DEF FormUpdates, store, MinerTypes, Schedulers
  <2>2. phase # "created"
    BY <2>1 DEF Misses
  <2>3. Writes("window") /\ handler["window"] = "update"
    BY <2>1 DEF Goes, Writes, Writing
  <2>4. /\ \A u \in Threads \ {"window"} : ~Writes(u) /\ ~Writes(u)'
        /\ handler'["window"] = "look"
    BY <1>2, <2>1, <2>3, Only, Constants
  <2>5. InHand("window")'
    BY <2>4 DEF InHand
  <2>6. ASSUME phase' \in Working
        PROVE  FileFollows' /\ EntryFollows' /\ SchedulerFollows'
    <3>1. FileFollows' /\ EntryFollows'
      BY <1>2, <2>1, <2>3, <2>4, <2>6
         DEF Agreed, FileFollows, EntryFollows, Entered, Saves
    <3>2. SchedulerFollows'
      BY <2>1, <2>2 DEF SchedulerFollows, HasScheduler
    <3>3. QED
      BY <3>1, <3>2
  <2>7. QED
    BY <2>4, <2>5, <2>6, OnlyAgrees, Constants
<1>7. QED
  BY <1>3, <1>4, <1>5, <1>6 DEF FormHandled

LEMMA AgreeStep ==
  DesktopTypeOK /\ PlacesInv /\ AgreeInv /\ [Next]_vars => AgreeInv'
  BY StepsStoreOrNot, AsideAgree, LaunchAgree, ProcessAgree, KindnessAgree,
     SavesAgree, SetupAgree, FormBegins, FormAgree
     DEF Stores

LEMMA AgreeInitially == Init => AgreeInv
  BY Constants
     DEF Init, AgreeInv, Agreed, OneWriter, InHand, Writes, Writing, Working

-----------------------------------------------------------------------------
(* The window stays in reach.                                              *)

LEMMA StrandedStep ==
  PlacesInv /\ NeverStranded /\ [Next]_vars => NeverStranded'
<1> SUFFICES ASSUME PlacesInv, NeverStranded, [Next]_vars
             PROVE  NeverStranded'
  OBVIOUS
<1> USE DEF NeverStranded
<1>1. CASE Launch
  BY <1>1 DEF Launch, LaunchGraphical, LaunchTerminal
<1>2. CASE Quit \/ CloseWindow
  BY <1>2 DEF Quit, CloseWindow, Ends
<1>3. CASE \/ ShowWindow \/ StartCreates \/ StartEnds \/ StartFails \/ Retry
  BY <1>3 DEF ShowWindow, StartCreates, StartEnds, tuckIntoTray, StartFails,
              Retry
<1>4. CASE \/ Tick \/ WorldChanges \/ hideSettings \/ UNCHANGED vars
  BY <1>4 DEF Tick, WorldChanges, hideSettings, vars, screen
<1>5. ASSUME NEW t \in Threads,
             \/ Toggles(t) \/ OpenSettings(t)
             \/ \E l \in Levels : ClickKindness(t, l)
      PROVE  NeverStranded'
  BY <1>5 DEF Toggles, OpenSettings, ClickKindness, screen
<1>6. CASE FinishSetup \/ Registers \/ \E f \in Forms : FormSaved(f)
  <2>1. CASE Registers
    <3>1. handler["window"] = "register"
      BY <2>1 DEF Registers, Goes
    <3>2. Up
      BY <3>1, Constants DEF PlacesInv, Placed
    <3>3. QED
      BY <2>1, <3>2 DEF Registers, Up
  <2>2. QED
    BY <1>6, <2>1 DEF FinishSetup, FormSaved, screen
<1>7. CASE FormHandled
  BY <1>7 DEF FormHandled, FormPushed, FormRegisters, FormAdopted,
              FormUpdates, screen
<1>8. ASSUME NEW t \in Threads, Handles(t)
      PROVE  NeverStranded'
  <2>1. CASE SaveFails(t)
    <3>1. phase # "off"
      BY <2>1 DEF SaveFails, PlacesInv, Placed, Up
    <3>2. QED
      BY <2>1, <3>1 DEF SaveFails
  <2>2. CASE ~SaveFails(t)
    BY <1>8, <2>2
       DEF Handles, SetOverride, SetKindness, SaveTruncates, SaveWrites,
           Refreshes, Renders, Records, screen
  <2>3. QED
    BY <2>1, <2>2
<1>9. QED
  BY <1>1, <1>2, <1>3, <1>4, <1>5, <1>6, <1>7, <1>8 DEF Next

-----------------------------------------------------------------------------
(* The theorems.                                                           *)

LEMMA DesktopInvariant ==
  Spec => [](DesktopTypeOK /\ PlacesInv /\ AgreeInv /\ NeverStranded)
<1>1. Init => DesktopTypeOK /\ PlacesInv /\ AgreeInv /\ NeverStranded
  BY TypesInitially, PlacesInitially, AgreeInitially DEF Init, NeverStranded
<1>2. (DesktopTypeOK /\ PlacesInv /\ AgreeInv /\ NeverStranded) /\ [Next]_vars
        => (DesktopTypeOK /\ PlacesInv /\ AgreeInv /\ NeverStranded)'
  BY TypesStep, PlacesStep, AgreeStep, StrandedStep
<1>3. QED
  BY <1>1, <1>2, PTL DEF Spec

\* The program never runs with its window hidden and nothing to bring it back:
\* neither a tray nor a relaunch (newUIApp's close behaviour, tuckIntoTray,
\* RunTray), on any kind of host and whatever the handlers are at.
THEOREM DesktopStaysInReach == Spec => []DesktopInv
<1>1. DesktopTypeOK /\ NeverStranded => DesktopInv
  BY DEF DesktopInv
<1>2. QED
  BY <1>1, DesktopInvariant, PTL

\* Where what is on file at first would be accepted, if it is a config at all,
\* so is what any handler of the front end writes later, in any order and with
\* saves that overlap (settingsForm.read, onboarding.finish, setKindness);
\* except from the tray's Kindness menu before a wallet was asked for.
THEOREM DesktopLaunchAccepts ==
  ASSUME \A f \in Files : f \in Configs => Valid(f)
  PROVE  Spec => []LaunchAccepts
<1>1. Init => WalletInv
  BY DEF Init, WalletInv, WalletKnown, LaunchAccepts, Saves, Working
<1>2. (DesktopTypeOK /\ PlacesInv) /\ WalletInv /\ [Next]_vars => WalletInv'
  BY WalletStep
<1>3. WalletInv => LaunchAccepts
  BY DEF WalletInv
<1>4. QED
  BY <1>1, <1>2, <1>3, DesktopInvariant, PTL DEF Spec

\* Between changes that did not overlap and did not fail, file, config and
\* scheduler agree, and a stored wish to start at login has its entry, unless
\* the set-up was refused one (setKindness, apply, onboarding.finish, Start).
THEOREM DesktopSettledAgree == Spec => []SettledAgree
<1>1. PlacesInv /\ AgreeInv => SettledAgree
  <2> SUFFICES ASSUME AgreeInv, ~overlapped, ~unsaved, Settled,
                      phase \in {"starting", "failed", "mining"}
               PROVE  /\ file = cfg
                      /\ HasScheduler => sched.kind = cfg.kind
                      /\ cfg.startup => entry \/ unregistered
    BY DEF SettledAgree
  <2>1. FileFollows /\ EntryFollows /\ SchedulerFollows
    BY DEF AgreeInv, Agreed, Working
  <2>2. /\ handler["window"] \notin {"adopt", "save", "write"}
        /\ \A t \in Threads : handler[t] \notin {"preset", "update"}
    BY Constants DEF Settled, Writing
  <2>3. QED
    BY <2>1, <2>2
       DEF FileFollows, EntryFollows, Entered, Saves, SchedulerFollows,
           HasScheduler
<1>2. QED
  BY <1>1, DesktopInvariant, PTL
====

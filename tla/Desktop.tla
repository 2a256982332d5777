------------------------------ MODULE Desktop -------------------------------
(***************************************************************************)
(* The graphical front end (internal/gui): the dashboard, the tray, the    *)
(* settings window and first-run setup, over one config in memory, its     *)
(* file, the login entry and the running scheduler.                        *)
(*                                                                         *)
(* The window's clicks are handled one at a time on Fyne's thread; every   *)
(* tray item has a goroutine of its own, and a ticker refreshes both each  *)
(* second.  None of them holds a lock over a whole handler, so each step   *)
(* below is one read, one write or one call, and they interleave.  The     *)
(* getters a refresh calls one after the other are one step.               *)
(***************************************************************************)
EXTENDS Naturals

CONSTANTS Levels,     \* the kindness presets
          Default,    \* the one config.Defaults has
          Patient,    \* those that wait for idle (Full does not)
          Conns,      \* what needs a restart: wallet, mode, node, hub, chain
          Forms,      \* what the forms are left holding
          Files,      \* what may be on file at first
          Items,      \* the tray's items that are clicked
          Desktops,   \* the kinds of host checked
          MaxEvents, MaxRuns,  \* bounds
          Absent,     \* no config file
          Torn,       \* one cut short, or with the end of another Save
          None

ASSUME DesktopAssumption ==
  /\ Default \in Levels /\ Patient \subseteq Levels
  /\ None \notin Conns /\ Conns # {}
  /\ {Absent, Torn} \cap [kind : Levels, startup : BOOLEAN,
                          conn : Conns \cup {None}] = {}
  /\ Absent # Torn
  /\ Desktops \subseteq [tray : BOOLEAN, background : BOOLEAN,
                         terminal : BOOLEAN]
  /\ Forms \subseteq [kind : Levels, startup : BOOLEAN,
                      conn : Conns \cup {None}]
  /\ Files \subseteq Forms \cup {Absent, Torn}
  /\ Items \subseteq Levels \cup {"resume", "snooze", "mine", "settings"}
  /\ {MaxEvents, MaxRuns} \subseteq Nat

\* conn is None while there is no valid wallet: Validate refuses it.
Configs == [kind : Levels, startup : BOOLEAN, conn : Conns \cup {None}]
Defaults == [kind |-> Default, startup |-> FALSE, conn |-> None]
Valid(c) == c.conn # None

Threads == Items \cup {"window", "ticker"}

VARIABLES
  host,           \* has it a tray; does a relaunch reach it; which launch
  phase, win, prefs, tuck, \* the screen; the windows; tuckAfterStart
  form,           \* the config the settings window opened on
  cfg, file,      \* the supervisor's config; the config file
  entry,          \* the login entry
  sched, held, world, \* the scheduler; its hold; what it observes
  handler, job, view, \* each thread's place, config in hand and snapshot
  dash, items, last,  \* the dashboard; the tray's items; what they were
  unasked, overlapped, unsaved, unregistered, raced, \* what went wrong
  events, runs    \* clicks and changes of the world; launches

screen == <<phase, win, prefs, tuck, form>>
store == <<cfg, file, entry>>
miner == <<sched, held, world>>
shown == <<dash, items, last>>
mishaps == <<unasked, overlapped, unsaved, unregistered, raced>>
bounds == <<events, runs>>
vars == <<host, screen, store, miner, handler, job, view, shown, mishaps,
          bounds>>

-----------------------------------------------------------------------------
(* What is shown, from what the scheduler says.                            *)

\* The idle countdown: the gate may be on a preset that does not wait.
Waiting == sched.override = "none" /\ world = "present"

Snoozed == sched.override = "pause" /\ sched.timed

statusSummary(v) ==
  IF v.override = "pause" THEN "paused"
  ELSE IF held THEN "standing by, may need you"
  ELSE IF v.state = "paused" THEN "standing by"
  ELSE IF v.reason = "waiting" THEN "mining gently"
  ELSE IF v.state = "full" THEN "mining" ELSE "stepping aside"

pauseLabel(v) == IF v.override = "pause" THEN "resume"
                 ELSE IF v.state = "paused" THEN "keep paused" ELSE "pause"

skipWaitShown(v) == Waiting \/ v.override = "mine"

Dashboard(v) ==
  [status |-> IF Snoozed THEN "paused until" ELSE statusSummary(v),
   pause |-> pauseLabel(v), skip |-> skipWaitShown(v),
   mineNow |-> v.override = "mine", kind |-> v.kind]

trayStatusLine(v) ==
  IF v.override # "pause" /\ v.state = "paused" /\ v.reason # ""
  THEN "standing by"
  ELSE IF v.override = "pause" THEN "paused"
  ELSE IF v.state # "full" /\ (v.override = "mine"
                               \/ v.reason \notin {"waiting", ""})
  THEN "backing off"
  ELSE IF v.override = "mine" THEN "mining now"
  ELSE IF Waiting THEN "full speed soon" ELSE "idle"

trayIcon(v) == IF held THEN "warning" ELSE v.state

Tray(v) ==
  [icon |-> trayIcon(v),
   status |-> IF Snoozed THEN "paused until" ELSE trayStatusLine(v),
   paused |-> v.override = "pause",
   pause |-> IF v.override # "pause" /\ v.state = "paused"
             THEN "keep paused" ELSE "pause",
   mineNow |-> v.override = "mine", kind |-> v.kind]

-----------------------------------------------------------------------------
(* The process: launch, first-run setup, start-up, quitting.               *)

TrayViews == [icon : {"warning", "full", "reduced", "paused"},
              status : {"paused until", "standing by", "paused", "idle",
                        "backing off", "mining now", "full speed soon"},
              paused : BOOLEAN, pause : {"pause", "keep paused"},
              mineNow : BOOLEAN, kind : Levels]
View == [state |-> sched.state, reason |-> sched.reason,
         override |-> sched.override, kind |-> sched.kind]
Places == {"idle", "none", "pause", "mine", "snooze", "preset", "push",
           "entry", "save", "write", "adopt", "update", "register",
           "look", "render", "record"}
Flows == {"kind", "form", "setup"}

\* In these, a handler is between reading the config and leaving it written.
Writing == {"preset", "push", "entry", "save", "write", "adopt", "update",
            "register"}

DesktopTypeOK ==
  /\ host \in Desktops
  /\ phase \in {"off", "setup", "starting", "created", "failed", "mining",
                "refused"}
  /\ win \in {"shown", "hidden"} /\ prefs \in {"shown", "hidden"}
  /\ tuck \in BOOLEAN /\ form \in Configs
  /\ cfg \in Configs /\ file \in Configs \cup {Absent, Torn}
  /\ entry \in BOOLEAN
  /\ sched \in [state : {"full", "reduced", "paused"},
                reason : {"", "waiting", "manual", "hot", "held"},
                override : {"none", "mine", "pause"}, timed : BOOLEAN,
                kind : Levels]
  /\ held \in BOOLEAN /\ world \in {"away", "present", "hot"}
  /\ handler \in [Threads -> Places]
  /\ job \in [Threads -> [flow : Flows, next : Configs]]
  /\ view \in [Threads -> TrayViews \cup {None}]
  /\ {unasked, overlapped, unsaved, unregistered, raced} \subseteq BOOLEAN
  /\ events \in 0..MaxEvents /\ runs \in 0..MaxRuns

Resting == [state |-> "paused", reason |-> "", override |-> "none",
            timed |-> FALSE, kind |-> Default]
\* The dashboard of a scheduler that has just been made; the tray before it
\* was ever rendered.
FirstDash(k) == [status |-> "standing by", pause |-> "keep paused",
                 skip |-> FALSE, mineNow |-> FALSE, kind |-> k]
FirstItems(k) == [icon |-> "full", status |-> "idle", paused |-> FALSE,
                  pause |-> "pause", mineNow |-> FALSE, kind |-> k]
NoJob == [flow |-> "kind", next |-> Defaults]

Init == /\ host \in Desktops
        /\ phase = "off" /\ win = "hidden" /\ prefs = "hidden"
        /\ tuck = FALSE /\ form = Defaults
        /\ cfg = Defaults /\ file \in Files /\ entry = FALSE
        /\ sched = Resting /\ held = FALSE /\ world = "away"
        /\ handler = [t \in Threads |-> "idle"]
        /\ job = [t \in Threads |-> NoJob]
        /\ view = [t \in Threads |-> None]
        /\ dash = FirstDash(Default) /\ items = FirstItems(Default)
        /\ last = None
        /\ unasked = FALSE /\ overlapped = FALSE /\ unsaved = FALSE
        /\ unregistered = FALSE /\ raced = FALSE
        /\ events = 0 /\ runs = 0

Up == phase \notin {"off", "refused"}
HasScheduler == phase = "mining"
Idle(t) == handler[t] = "idle"

\* autostart.Enable and Disable: either may be asked for what is already so.
SetAutostart(on) == entry' = on

\* EnsureAutostart only adds an entry the config asks for.
Ensures(c) == \/ /\ SetAutostart(entry \/ c.startup)
                 /\ unregistered' = FALSE
              \/ /\ c.startup /\ ~entry /\ UNCHANGED entry
                 /\ unregistered' = TRUE

Starts(c, to) ==
  /\ cfg' = c /\ phase' = to
  /\ Ensures(c)
  /\ UNCHANGED <<file, sched, held>>

\* RunGraphical shows its window; a config file that does not load or does
\* not pass Validate gets the window that says to edit it.
LaunchGraphical ==
  /\ ~host.terminal
  /\ win' = "shown"
  /\ \/ file = Absent /\ Starts(Defaults, "setup")
     \/ /\ file \in Configs /\ Valid(file)
        /\ Starts(file, "starting")
     \/ /\ file = Torn \/ (file \in Configs /\ ~Valid(file))
        /\ phase' = "refused"
        /\ UNCHANGED <<store, sched, held, unregistered>>

\* From a terminal, the wizard asks first and mining starts before the tray.
LaunchTerminal ==
  /\ host.terminal
  /\ win' = IF host.tray THEN "hidden" ELSE "shown"
  /\ \/ \E f \in Forms : LET answered == [Defaults EXCEPT !.conn = f.conn] IN
        /\ file = Absent /\ Valid(f)
        /\ file' = answered /\ cfg' = answered
        /\ Ensures(answered)
        /\ phase' = "mining"
        /\ sched' = [Resting EXCEPT !.kind = answered.kind]
        /\ UNCHANGED held
     \/ /\ file \in Configs /\ Valid(file)
        /\ cfg' = file /\ Ensures(file)
        /\ phase' = "mining" /\ sched' = [Resting EXCEPT !.kind = file.kind]
        /\ UNCHANGED <<file, held>>

Launch == /\ phase = "off" /\ runs < MaxRuns /\ runs' = runs + 1
          /\ LaunchGraphical \/ LaunchTerminal
          /\ dash' = FirstDash(cfg'.kind) /\ items' = FirstItems(cfg'.kind)
          /\ last' = None
          /\ overlapped' = FALSE /\ unsaved' = FALSE /\ raced' = FALSE
          /\ UNCHANGED <<host, prefs, tuck, form, world, handler, job, view,
                         unasked, events>>

Goes(t, from, to) == /\ handler[t] = from
                     /\ handler' = [handler EXCEPT ![t] = to]
Click(t, to) == /\ Up /\ (t \in Items => host.tray)
                /\ events < MaxEvents /\ events' = events + 1
                /\ Goes(t, "idle", to)

\* Quit from the tray, from the window, by closing it where nothing would
\* bring it back, or by a signal: the process is gone, whatever it was doing.
Ends == /\ phase' = "off" /\ win' = "hidden" /\ prefs' = "hidden"
        /\ tuck' = FALSE
        /\ sched' = Resting /\ held' = FALSE
        /\ handler' = [t \in Threads |-> "idle"]
        /\ job' = [t \in Threads |-> NoJob]
        /\ view' = [t \in Threads |-> None]
        /\ unsaved' = (unsaved \/ \E t \in Threads : handler[t] \in Writing)
        /\ form' = Defaults
        /\ dash' = FirstDash(Default) /\ items' = FirstItems(Default)
        /\ last' = None /\ world' = "away"
        /\ UNCHANGED <<host, store, unasked, overlapped, unregistered, raced,
                       bounds>>
Quit == phase # "off" /\ Ends

CloseWindow ==
  /\ Up /\ win = "shown" /\ Idle("window")
  /\ IF host.tray \/ host.background
     THEN /\ win' = "hidden" /\ Click("window", "idle")
          /\ UNCHANGED <<host, phase, prefs, tuck, form, store, miner, job,
                         view, shown, mishaps, runs>>
     ELSE Ends

\* The tray's Open item, a click on its icon ...
Reachable == Up /\ host.tray
\* ... or a relaunch, which finds the name taken and asks its owner.
Activate == Up /\ host.background

ShowWindow == /\ Reachable \/ Activate
              /\ win = "hidden" /\ win' = "shown"
              /\ events < MaxEvents /\ events' = events + 1
              /\ UNCHANGED <<host, phase, prefs, tuck, form, store, miner,
                             handler, job, view, shown, mishaps, runs>>

\* Supervisor.Start: its last step makes a scheduler from the config, then
\* startScheduler makes it known.
StartCreates == /\ phase = "starting" /\ phase' = "created"
                /\ sched' = [Resting EXCEPT !.kind = cfg.kind]
                /\ UNCHANGED <<host, win, prefs, tuck, form, store, held,
                               world, handler, job, view, shown, mishaps,
                               bounds>>

TucksAnyway == tuck' = FALSE /\ win' = IF tuck THEN "hidden" ELSE win
tuckIntoTray == /\ tuck' = (tuck /\ ~host.tray)
                /\ win' = IF tuck /\ host.tray THEN "hidden" ELSE win

StartEnds == /\ phase = "created" /\ phase' = "mining"
             /\ dash' = Dashboard(View)
             /\ tuckIntoTray
             /\ UNCHANGED <<host, prefs, form, store, miner, handler, job,
                            view, items, last, mishaps, bounds>>

\* Torn down, and the window brought up to say why.
StartFails == /\ phase = "starting" /\ phase' = "failed"
              /\ win' = "shown"
              /\ UNCHANGED <<host, prefs, tuck, form, store, miner, handler,
                             job, view, shown, mishaps, bounds>>
Retry == /\ phase = "failed" /\ Idle("window") /\ phase' = "starting"
         /\ UNCHANGED <<host, win, prefs, tuck, form, store, miner, handler,
                        job, view, shown, mishaps, bounds>>

-----------------------------------------------------------------------------
(* The scheduler, as far as the front end shows it.                        *)

Decides(o) ==
  CASE o = "pause" -> <<"paused", "manual">>
    [] o # "pause" /\ held -> <<"paused", "held">>
    [] o # "pause" /\ ~held /\ world = "hot" -> <<"paused", "hot">>
    [] o = "none" /\ ~held /\ world = "present" /\ sched.kind \in Patient ->
         <<"reduced", "waiting">>
    [] OTHER -> <<"full", "">>

\* A tick; one that finds a snooze over lifts it first.
Tick == /\ HasScheduler
        /\ \E o \in {sched.override} \cup (IF Snoozed THEN {"none"} ELSE {}) :
             sched' = [sched EXCEPT !.state = Decides(o)[1],
                                    !.reason = Decides(o)[2],
                                    !.override = o,
                                    !.timed = @ /\ o = "pause"]
        /\ sched' # sched
        /\ UNCHANGED <<host, screen, store, held, world, handler, job, view,
                       shown, mishaps, bounds>>

\* The user comes or goes, the machine heats up, a check holds the miner.
WorldChanges == /\ HasScheduler /\ events < MaxEvents
                /\ events' = events + 1
                /\ \/ /\ world' \in {"away", "present", "hot"} \ {world}
                      /\ UNCHANGED held
                   \/ held' = ~held /\ UNCHANGED world
                /\ UNCHANGED <<host, screen, store, sched, handler, job, view,
                               shown, mishaps, runs>>

-----------------------------------------------------------------------------
(* The handlers.                                                           *)

\* onToggle and onMineNowToggle look at the override before they set it; in
\* the tray, Resume is the toggle and a pause is a snooze.
Toggles(t) ==
  /\ HasScheduler
  /\ \/ /\ t \in {"window", "resume"}
        /\ Click(t, IF sched.override = "pause" THEN "none" ELSE "pause")
     \/ /\ t \in {"window", "mine"}
        /\ Click(t, IF sched.override = "mine" THEN "none" ELSE "mine")
     \/ /\ t = "snooze" /\ Click(t, "snooze")
  /\ UNCHANGED <<host, screen, store, miner, job, view, shown, mishaps, runs>>

\* SetOverride and PauseUntil: a pause takes the miner down at once.
SetOverride(t) ==
  /\ handler[t] \in {"none", "pause", "mine", "snooze"}
  /\ Goes(t, handler[t], "look")
  /\ sched' = IF handler[t] \in {"pause", "snooze"}
              THEN [sched EXCEPT !.override = "pause",
                                 !.timed = handler[t] = "snooze",
                                 !.state = "paused", !.reason = "manual"]
              ELSE [sched EXCEPT !.override = handler[t], !.timed = FALSE]
  /\ UNCHANGED <<host, screen, store, held, world, job, view, shown, mishaps,
                 bounds>>

\* A handler starts to change the config while another has not finished, or
\* is done before a scheduler made from the config as it was is known.
Overlaps(t) == overlapped' =
  (overlapped \/ \E u \in Threads \ {t} : handler[u] \in Writing)
Misses == overlapped' = (overlapped \/ phase = "created")

\* setKindness, from the dashboard's radio or the tray's Kindness menu,
\* which is there from the first screen on.
ClickKindness(t, l) ==
  /\ t \in {l, "window"} /\ (t = "window" => HasScheduler)
  /\ IF cfg.kind = l
     THEN Click(t, "idle") /\ UNCHANGED <<cfg, job, overlapped>>
     ELSE /\ Click(t, "preset")
          /\ cfg' = [cfg EXCEPT !.kind = l]
          /\ job' = [job EXCEPT ![t] = [flow |-> "kind", next |-> cfg']]
          /\ Overlaps(t)
  /\ UNCHANGED <<host, screen, file, entry, miner, view, shown, unasked,
                 unsaved, unregistered, raced, runs>>

SetKindness(t) ==
  /\ Goes(t, "preset", "save")
  /\ sched' = IF HasScheduler
              THEN [sched EXCEPT !.kind = job[t].next.kind] ELSE sched
  /\ Misses
  /\ UNCHANGED <<host, screen, store, held, world, job, view, shown, unasked,
                 unsaved, unregistered, raced, bounds>>

\* config.Save: the bytes are made from the config as it is now (the form
\* saves its own copy), and the file is emptied ...
Saved(t) == IF job[t].flow = "form" THEN job[t].next ELSE cfg
SaveTruncates(t) ==
  /\ Goes(t, "save", "write")
  /\ job' = [job EXCEPT ![t].next = Saved(t)]
  /\ file' = Torn
  /\ unasked' = (unasked \/ (~Valid(Saved(t)) /\ phase = "setup"))
  /\ UNCHANGED <<host, screen, cfg, entry, miner, view, shown, overlapped,
                 unsaved, unregistered, raced, bounds>>

AfterSave(flow) == CASE flow = "kind" -> "look"
                     [] flow = "form" -> "adopt"
                     [] flow = "setup" -> "register"

\* ... then written in place, over what another Save may have written since.
SaveWrites(t) ==
  /\ Goes(t, "write", AfterSave(job[t].flow))
  /\ file' \in {job[t].next} \cup IF overlapped THEN {Torn} ELSE {}
  /\ job' = IF job[t].flow = "form" THEN job ELSE [job EXCEPT ![t] = NoJob]
  /\ UNCHANGED <<host, screen, cfg, entry, miner, view, shown, mishaps,
                 bounds>>

\* A full disk, at either step: the dialog says so.
SaveFails(t) ==
  /\ handler[t] \in {"save", "write"}
  /\ Goes(t, handler[t], IF job[t].flow = "kind" THEN "look" ELSE "idle")
  /\ unsaved' = TRUE
  /\ phase' = IF job[t].flow = "setup" THEN "failed" ELSE phase
  /\ UNCHANGED <<host, win, prefs, tuck, form, store, miner, job, view, shown,
                 unasked, overlapped, unregistered, raced, bounds>>

\* onboarding.finish: the answers go into the config, then to the file.
FinishSetup ==
  /\ phase = "setup" /\ Click("window", "save")
  /\ \E f \in Forms :
       /\ Valid(f)
       /\ cfg' = [cfg EXCEPT !.conn = f.conn, !.startup = f.startup]
  /\ job' = [job EXCEPT !["window"] = [flow |-> "setup", next |-> cfg']]
  /\ Overlaps("window")
  /\ UNCHANGED <<host, screen, file, entry, miner, view, shown, unasked,
                 unsaved, unregistered, raced, runs>>

Registers ==
  /\ Goes("window", "register", "idle")
  /\ Ensures(cfg)
  /\ tuck' = TRUE /\ phase' = "starting"
  /\ UNCHANGED <<host, win, prefs, form, cfg, file, miner, job, view, shown,
                 unasked, overlapped, unsaved, raced, bounds>>

\* showSettings builds the form from the config as it is then.
OpenSettings(t) ==
  /\ t \in {"window", "settings"} /\ (t = "window" => HasScheduler)
  /\ prefs = "hidden" /\ prefs' = "shown" /\ form' = cfg
  /\ Click(t, "idle")
  /\ UNCHANGED <<host, phase, win, tuck, store, miner, job, view, shown,
                 mishaps, runs>>

\* Hidden, never closed: Fyne quits with its last window that was shown.
hideSettings == /\ prefs = "shown" /\ Idle("window") /\ prefs' = "hidden"
                /\ form' = Defaults
                /\ UNCHANGED <<host, phase, win, tuck, store, miner, handler,
                               job, view, shown, mishaps, bounds>>

FormSavedUnread(f) ==
  /\ prefs = "shown" /\ Click("window", "push")
  /\ job' = [job EXCEPT !["window"] = [flow |-> "form", next |-> f]]
  /\ Overlaps("window")
  /\ UNCHANGED <<host, screen, store, miner, view, shown, unasked, unsaved,
                 unregistered, raced, runs>>

\* settingsForm.read: the form laid over the config, checked whole.
FormSaved(f) ==
  /\ prefs = "shown"
  /\ IF Valid(f)
     THEN /\ Click("window", "push")
          /\ job' = [job EXCEPT !["window"] = [flow |-> "form", next |-> f]]
          /\ Overlaps("window")
     ELSE Click("window", "idle") /\ UNCHANGED <<job, overlapped>>
  /\ UNCHANGED <<host, screen, store, miner, view, shown, unasked, unsaved,
                 unregistered, raced, runs>>

\* apply: the hub takes a new wallet or refuses it (Household) ...
FormPushed ==
  /\ \/ Goes("window", "push", "entry")
     \/ job["window"].next.conn # form.conn /\ Goes("window", "push", "idle")
  /\ UNCHANGED <<host, screen, store, miner, job, view, shown, mishaps,
                 bounds>>

\* ... the login entry follows the box, before the preference is stored ...
FormRegisters ==
  /\ LET on == job["window"].next.startup IN
       \/ /\ Goes("window", "entry", "save")
          /\ SetAutostart(IF on # cfg.startup THEN on ELSE entry)
       \/ /\ on # cfg.startup /\ Goes("window", "entry", "idle")
          /\ UNCHANGED entry
  /\ UNCHANGED <<host, screen, cfg, file, miner, job, view, shown, mishaps,
                 bounds>>

FormForgotten == /\ Goes("window", "adopt", "update")
                 /\ UNCHANGED <<host, screen, store, miner, job, view, shown,
                                mishaps, bounds>>

\* ... and only what was written becomes the config.
FormAdopted == /\ Goes("window", "adopt", "update")
               /\ cfg' = job["window"].next
               /\ UNCHANGED <<host, screen, file, entry, miner, job, view,
                              shown, mishaps, bounds>>

\* UpdateRuntime; the window stays to say so when a restart is needed.
needsRestart == cfg.conn # form.conn
FormUpdates == /\ Goes("window", "update", "look")
               /\ sched' = IF HasScheduler
                           THEN [sched EXCEPT !.kind = cfg.kind] ELSE sched
               /\ prefs' = IF needsRestart THEN prefs ELSE "hidden"
               /\ form' = IF needsRestart THEN form ELSE Defaults
               /\ job' = [job EXCEPT !["window"] = NoJob]
               /\ Misses
               /\ UNCHANGED <<host, phase, win, tuck, store, held, world, view,
                              shown, unasked, unsaved, unregistered, raced,
                              bounds>>

-----------------------------------------------------------------------------
(* The refreshes: each handler ends with one, and the ticker runs one a    *)
(* second.                                                                 *)

RefreshesOnClick(t) ==
  /\ handler[t] = "look"
  /\ Goes(t, "look", IF HasScheduler /\ host.tray THEN "render" ELSE "idle")
  /\ dash' = IF HasScheduler THEN Dashboard(View) ELSE dash
  /\ view' = [view EXCEPT ![t] = IF HasScheduler /\ host.tray THEN Tray(View)
                                 ELSE None]
  /\ UNCHANGED <<host, screen, store, miner, job, items, last, mishaps,
                 bounds>>

\* updateDashboard: the dashboard sets whatever it is given, and the tray's
\* view is computed; both may be old by the time the tray is rendered.
Refreshes(t) ==
  /\ handler[t] = IF t = "ticker" THEN "idle" ELSE "look"
  /\ t = "ticker" => HasScheduler
  /\ Goes(t, handler[t],
          IF HasScheduler /\ host.tray THEN "render" ELSE "idle")
  /\ dash' = IF HasScheduler THEN Dashboard(View) ELSE dash
  /\ view' = [view EXCEPT ![t] = IF HasScheduler /\ host.tray THEN Tray(View)
                                 ELSE None]
  /\ UNCHANGED <<host, screen, store, miner, job, items, last, mishaps,
                 bounds>>

\* systrayTray.render changes the items that differ from what it last
\* rendered, and notes what it rendered when it is done.
Renders(t) ==
  /\ Goes(t, "render", "record")
  /\ LET v == view[t]
     IN  items' = [f \in DOMAIN items |->
                     IF last # None /\ v[f] = last[f] THEN items[f] ELSE v[f]]
  /\ raced' = (raced \/ \E u \in Threads \ {t} : handler[u] = "record")
  /\ UNCHANGED <<host, screen, store, miner, job, view, dash, last, unasked,
                 overlapped, unsaved, unregistered, bounds>>
Records(t) == /\ Goes(t, "record", "idle")
              /\ last' = view[t]
              /\ view' = [view EXCEPT ![t] = None]
              /\ UNCHANGED <<host, screen, store, miner, job, dash, items,
                             mishaps, bounds>>

-----------------------------------------------------------------------------
Handles(t) ==
  \/ SetOverride(t) \/ SetKindness(t)
  \/ SaveTruncates(t) \/ SaveWrites(t) \/ SaveFails(t)
  \/ Refreshes(t) \/ Renders(t) \/ Records(t)
FormHandled == FormPushed \/ FormRegisters \/ FormAdopted \/ FormUpdates

Next == \/ Launch \/ Quit \/ CloseWindow \/ ShowWindow
        \/ StartCreates \/ StartEnds \/ StartFails \/ Retry
        \/ Tick \/ WorldChanges
        \/ \E t \in Threads : Toggles(t) \/ OpenSettings(t)
        \/ \E t \in Threads, l \in Levels : ClickKindness(t, l)
        \/ FinishSetup \/ Registers
        \/ hideSettings \/ \E f \in Forms : FormSaved(f)
        \/ FormHandled
        \/ \E t \in Threads : Handles(t)

\* Handlers run on, the ticker fires and the scheduler ticks; nobody has to
\* click, and no start has to succeed.
Fairness == /\ \A t \in Threads : WF_vars(Handles(t))
            /\ WF_vars(FormHandled \/ Registers)
            /\ WF_vars(Tick)
Spec == Init /\ [][Next]_vars /\ Fairness

-----------------------------------------------------------------------------
\* A hidden window can be brought back: by the tray, or by a relaunch.
NeverStranded ==
  phase # "off" /\ win = "hidden" => host.tray \/ host.background

\* Besides types: the window is never out of reach with the program running
\* (newUIApp's close behaviour, tuckIntoTray, RunTray).
DesktopInv == DesktopTypeOK /\ NeverStranded

\* The config the front end writes is one the next launch accepts: nothing a
\* rejected form held is saved by a later change made elsewhere.  The one way
\* round is the tray's Kindness menu before the wallet was ever asked for.
LaunchAccepts == file \in Configs /\ ~Valid(file) => unasked

\* Between changes, the file holds the config in memory, the scheduler runs
\* its preset, and a stored wish to start at login has its entry, unless a
\* save failed, the entry was refused at set-up, or two changes overlapped:
\* setKindness and the settings window's Save keep nobody out.
Settled == \A t \in Threads : handler[t] \notin Writing
SettledAgree ==
  /\ phase \in {"starting", "failed", "mining"}
  /\ Settled /\ ~overlapped /\ ~unsaved
  => /\ file = cfg
     /\ HasScheduler => sched.kind = cfg.kind
     /\ cfg.startup => entry \/ unregistered

\* Once nobody clicks and nothing changes, the dashboard says what the
\* scheduler does, and so does the tray unless two renders overlapped: a
\* snapshot taken before a click may be shown after it, but not for good.
Shown == /\ dash = Dashboard(View)
         /\ host.tray /\ ~raced => items = Tray(View)
DisplaysSettle == <>[](HasScheduler => Shown)
=============================================================================

------------------------------ MODULE Household ------------------------------
(***************************************************************************)
(* A headless hub and the desktops of the house: kind-minerd from its      *)
(* first start (cmd/kind-minerd: runDaemon, awaitSetup, mine, keepStatus), *)
(* its API (internal/hub: setup and wallet), its files (the config, the    *)
(* owner token, the certificate) and the settings windows that set it up   *)
(* and change its wallet (internal/gui: settings, findhub).                *)
(*                                                                         *)
(* A request handler is a goroutine of the hub with its steps on disk; it  *)
(* keeps the config and the reload channel of the run it was accepted in.  *)
(* A config is the wallet and hub.serve; a file just truncated loads as    *)
(* the defaults.  Addresses are taken as valid, TLS as working and the     *)
(* API's port as free.  A save takes less than the 8 seconds a desktop     *)
(* waits.                                                                  *)
(***************************************************************************)
EXTENDS Naturals

CONSTANTS Desktops,
          Own,              \* desktop -> the addresses its user may type
          NoWallet, NoOne,  \* no address; no desktop
          MaxCrashes,       \* how often the hub may lose power or be killed
          DiskFails,        \* may a write on the hub fail?
          SlowNetwork       \* may a handler outlast Close's two seconds?

Wallets == UNION {Own[d] : d \in Desktops}

ASSUME HouseAssumption == /\ DOMAIN Own = Desktops
                          /\ NoWallet \notin Wallets
                          /\ Desktops \cap {NoOne, "absent", "empty"} = {}
                          /\ MaxCrashes \in Nat
                          /\ {DiskFails, SlowNetwork} \subseteq BOOLEAN

Configs == [wallet : Wallets \cup {NoWallet}, serve : BOOLEAN]
Blank == [wallet |-> NoWallet, serve |-> FALSE]  \* an empty file, loaded

VARIABLES
  exists, file,    \* is there a config file, and what it loads as
  ownerFile,       \* "absent", "empty" or the desktop whose token it holds
  ident, cert,     \* identity files written (key, token, certificate); which
  dpc,             \* where the daemon stands
  cfg,             \* the config its run was given
  owner,           \* Server.owner
  got, reload,     \* a config, a restart waiting in their channels
  status,          \* the status file
  writer,          \* its writers: one on, one told to quit
  lock,            \* the setup holding Server.mu
  req,             \* desktop -> its request, on both sides
  desk, opened,    \* desktop -> its saved wallet; the one its form opened with
  token, pinned,   \* desktop -> its owner token; the certificate it pinned
  acked,           \* the wallet the hub last answered it would pay
  crashes

disk == <<exists, file, ownerFile>>
identity == <<ident, cert>>
daemon == <<dpc, cfg, owner, got, reload>>
reports == <<status, writer>>
form == <<desk, opened, token, pinned>>
requests == <<lock, req, acked>>
vars == <<disk, identity, daemon, reports, requests, form, crashes>>

NoRequest == [at |-> "idle", addr |-> NoWallet, mem |-> NoWallet,
              next |-> Blank, old |-> FALSE]

Requests == [at : {"idle", "setup", "claim", "claimed", "create", "created",
                   "set up", "wallet", "body", "loaded", "save", "saved",
                   "changed"},
             addr : Wallets \cup {NoWallet}, mem : Wallets \cup {NoWallet},
             next : Configs, old : BOOLEAN]

HouseTypeOK ==
  /\ exists \in BOOLEAN /\ file \in Configs
  /\ ownerFile \in Desktops \cup {"absent", "empty"}
  /\ ident \in 0..3 /\ cert \in 0..1
  /\ dpc \in {"off", "ensure", "waiting", "unwait", "start", "up", "mining",
              "drain", "close", "load"}
  /\ cfg \in Configs /\ got \in Configs
  /\ owner \in Desktops \cup {NoOne} /\ lock \in Desktops \cup {NoOne}
  /\ reload \in BOOLEAN
  /\ status \in {"none", "waiting", "mining"}
  /\ writer \subseteq {"on", "quit"}
  /\ req \in [Desktops -> Requests]
  /\ desk \in [Desktops -> Wallets] /\ \A d \in Desktops : desk[d] \in Own[d]
  /\ opened \in [Desktops -> Wallets \cup {NoWallet}]
  /\ token \in [Desktops -> {"none", "form", "saved"}]
  /\ pinned \in [Desktops -> 0..1]
  /\ acked \in Wallets \cup {NoWallet}
  /\ crashes \in 0..MaxCrashes

Init == /\ exists = FALSE /\ file = Blank /\ ownerFile = "absent"
        /\ ident = 0 /\ cert = 0
        /\ dpc = "off" /\ cfg = Blank /\ owner = NoOne
        /\ got = Blank /\ reload = FALSE
        /\ status = "none" /\ writer = {} /\ lock = NoOne
        /\ req = [d \in Desktops |-> NoRequest]
        /\ desk \in {f \in [Desktops -> Wallets] :
                       \A d \in Desktops : f[d] \in Own[d]}
        /\ opened = [d \in Desktops |-> NoWallet]
        /\ token = [d \in Desktops |-> "none"]
        /\ pinned = [d \in Desktops |-> 0]
        /\ acked = NoWallet /\ crashes = 0

-----------------------------------------------------------------------------
(* The daemon.                                                             *)

Goes(from, to) == dpc = from /\ dpc' = to

\* Config.Validate of a hub's config.
Valid(c) == c.wallet # NoWallet

\* Identity.Owner, as Load reads it: an empty file is no owner.
OwnerOnFile == IF ownerFile \in Desktops THEN ownerFile ELSE NoOne

\* The desktops with a request the daemon has accepted and not yet answered.
Handled == {d \in Desktops : req[d].at \in {"claim", "claimed", "create",
                                            "created", "body", "loaded",
                                            "save", "saved"}}

WholeNever == 0

\* What hub.Load finds: an identity without its certificate is none at all.
Whole == IF ident = 3 THEN 3 ELSE 0

\* runDaemon.  A config that does not validate ends it; systemd tries again.
Boot == /\ dpc = "off"
        /\ \/ ~exists /\ dpc' = "ensure" /\ cfg' = Blank
           \/ exists /\ Valid(file) /\ dpc' = "start" /\ cfg' = file
        /\ ident' = Whole
        /\ UNCHANGED <<disk, cert, owner, got, reload, reports, requests, form,
                       crashes>>

\* hub.Ensure: key and token before the certificate, each through a rename.
\* A certificate made anew is the other of two.
Ensure == /\ dpc \in {"ensure", "start"} /\ ident < 3
          /\ ident' = ident + 1
          /\ cert' = IF ident = 2 THEN 1 - cert ELSE cert
          /\ UNCHANGED <<disk, daemon, reports, requests, form, crashes>>

\* awaitSetup, from the first status to the open port.
AwaitSetup == /\ Goes("ensure", "waiting") /\ ident = 3
              /\ status' = "waiting" /\ writer' = writer \cup {"on"}
              /\ owner' = OwnerOnFile
              /\ UNCHANGED <<disk, identity, cfg, got, reload, requests, form,
                             crashes>>

\* Its select: a config, ...
SetupGot == /\ Goes("waiting", "unwait")
            /\ got # Blank
            /\ cfg' = got /\ got' = Blank
            /\ UNCHANGED <<disk, identity, owner, reload, reports, requests,
                           form, crashes>>

\* ... or a signal.
SetupLeft == /\ Goes("waiting", "unwait")
             /\ UNCHANGED <<disk, identity, cfg, owner, got, reload, reports,
                            requests, form, crashes>>

StopsWriter == /\ "on" \in writer
               /\ writer' = (writer \ {"on"}) \cup {"quit"}

\* Server.Close gives the handlers two seconds, and goes on without them.
HandlersGone == /\ SlowNetwork \/ Handled = {}
                /\ req' = [d \in Desktops |->
                             IF d \in Handled THEN [req[d] EXCEPT !.old = TRUE]
                             ELSE req[d]]

\* The deferred calls of awaitSetup: srv.Close, then the writer's stop, ...
SetupCloses == /\ dpc = "unwait" /\ HandlersGone
               /\ StopsWriter
               /\ UNCHANGED <<disk, identity, daemon, status, lock, acked,
                              form, crashes>>

WriterNotAwaited == "on" \notin writer

\* ... which returns only once the writer has.
WriterGone == writer = {}

SetupOver == /\ dpc = "unwait" /\ WriterGone
             /\ dpc' = IF Valid(cfg) THEN "start" ELSE "off"
             /\ got' = Blank
             /\ UNCHANGED <<disk, identity, cfg, owner, reload, reports,
                            requests, form, crashes>>

\* mine, up to the open port of startHubAPI; or its Start fails.
StartEnds == /\ dpc = "start" /\ ident = 3
             /\ dpc' \in {"up", "off"}
             /\ owner' = IF cfg.serve THEN OwnerOnFile ELSE NoOne
             /\ reload' = FALSE
             /\ UNCHANGED <<disk, identity, cfg, got, reports, requests, form,
                            crashes>>

\* ... and its first status.
MineReports == /\ Goes("up", "mining")
               /\ status' = "mining" /\ writer' = writer \cup {"on"}
               /\ UNCHANGED <<disk, identity, cfg, owner, got, reload,
                              requests, form, crashes>>

\* Its select: a changed wallet, ...
MineReloads == /\ Goes("mining", "drain")
               /\ reload /\ reload' = FALSE
               /\ StopsWriter
               /\ UNCHANGED <<disk, identity, cfg, owner, got, status,
                              requests, form, crashes>>

\* ... engines that failed their probation, or a signal.
MineEnds == /\ Goes("mining", "drain")
            /\ StopsWriter
            /\ UNCHANGED <<disk, identity, cfg, owner, got, reload, status,
                           requests, form, crashes>>

\* The deferred stop of the writer, and then Shutdown, which closes the API.
MineStops == /\ Goes("drain", "close") /\ WriterGone
             /\ UNCHANGED <<disk, identity, cfg, owner, got, reload, reports,
                            requests, form, crashes>>

MineCloses == /\ Goes("close", "load") /\ HandlersGone
              /\ UNCHANGED <<disk, identity, cfg, owner, got, reload, reports,
                             lock, acked, form, crashes>>

\* runDaemon's loop: the config is read again, or a signal ended it all.
Loop == /\ dpc = "load"
        /\ \/ Valid(file) /\ dpc' = "start" /\ cfg' = file
           \/ dpc' = "off" /\ UNCHANGED cfg
        /\ UNCHANGED <<disk, identity, owner, got, reload, reports, requests,
                       form, crashes>>

\* writeStatusEvery: told to quit, it removes the file and is done.
WriterQuits == /\ "quit" \in writer
               /\ writer' = writer \ {"quit"} /\ status' = "none"
               /\ UNCHANGED <<disk, identity, daemon, requests, form, crashes>>

\* ... and until then it writes what it is there to report.
WriterWrites == /\ "on" \in writer
                /\ status' = IF dpc \in {"waiting", "unwait"} THEN "waiting"
                             ELSE "mining"
                /\ UNCHANGED <<disk, identity, daemon, writer, requests, form,
                               crashes>>

DaemonStep == \/ Boot \/ Ensure \/ AwaitSetup \/ SetupGot \/ SetupCloses
              \/ SetupOver \/ StartEnds \/ MineReports \/ MineReloads
              \/ MineStops \/ MineCloses \/ Loop \/ WriterQuits

\* A crash takes the process with its handlers; systemd removes the status.
Crash == /\ dpc # "off" /\ crashes < MaxCrashes
         /\ crashes' = crashes + 1
         /\ dpc' = "off" /\ cfg' = Blank /\ owner' = NoOne
         /\ got' = Blank /\ reload' = FALSE
         /\ status' = "none" /\ writer' = {} /\ lock' = NoOne
         /\ req' = [d \in Desktops |-> IF d \in Handled THEN NoRequest
                                       ELSE req[d]]
         /\ UNCHANGED <<disk, identity, acked, form>>

-----------------------------------------------------------------------------
(* The API's handlers.                                                     *)

\* The hub's side of the request of d moves on.
Steps(d, from, to) == req[d].at = from /\ req' = [req EXCEPT ![d].at = to]
Refuse(d, from) == req[d].at = from /\ req' = [req EXCEPT ![d] = NoRequest]

SetupServed == dpc = "waiting" /\ lock = NoOne
WalletServed == dpc \in {"up", "mining", "drain"} /\ cfg.serve

\* setup, under s.mu, where it takes an address only from the first to ask:
\* Server.owner for this run, claimOwner's O_EXCL for every other.
Unclaimed == owner = NoOne /\ ownerFile = "absent"

RefusalReleases(d) == /\ Refuse(d, "setup")
                      /\ SetupServed /\ ~Unclaimed
                      /\ ownerFile' = "absent"
                      /\ UNCHANGED <<exists, file, identity, daemon, reports,
                                     lock, acked, form, crashes>>

\* 409: already set up.
SetupRefused(d) == /\ Refuse(d, "setup")
                   /\ \/ SetupServed /\ ~Unclaimed
                      \/ WalletServed
                   /\ UNCHANGED <<disk, identity, daemon, reports, lock, acked,
                                  form, crashes>>

\* claimOwner creates the file ...
Claim(d) == /\ Steps(d, "setup", "claim")
            /\ SetupServed /\ Unclaimed
            /\ lock' = d /\ ownerFile' = "empty"
            /\ UNCHANGED <<exists, file, identity, daemon, reports, acked,
                           form, crashes>>

\* ... and writes the token.
ClaimWritten(d) == /\ Steps(d, "claim", "claimed")
                   /\ ownerFile' = d
                   /\ UNCHANGED <<exists, file, identity, daemon, reports,
                                  lock, acked, form, crashes>>

\* Handlers.Setup: Config.Save truncates the file ...
Create(d) == /\ Steps(d, "claimed", "create")
             /\ exists' = TRUE /\ file' = Blank
             /\ UNCHANGED <<ownerFile, identity, daemon, reports, lock, acked,
                            form, crashes>>

\* ... and writes it, and the config goes to awaitSetup.
Created(d) == /\ Steps(d, "create", "created")
              /\ file' = [wallet |-> req[d].addr, serve |-> TRUE]
              /\ got' = file'
              /\ UNCHANGED <<exists, ownerFile, identity, dpc, cfg, owner,
                             reload, reports, lock, acked, form, crashes>>

\* A write that fails: releaseOwner, and the desktop may try again.
SetupFails(d) == /\ DiskFails
                 /\ \E from \in {"claim", "claimed", "create"} :
                      Refuse(d, from)
                 /\ ownerFile' = "absent" /\ lock' = NoOne
                 /\ UNCHANGED <<exists, file, identity, daemon, reports, acked,
                                form, crashes>>

SetupAnswers(d) == /\ Steps(d, "created", "set up")
                   /\ owner' = d /\ lock' = NoOne
                   /\ acked' = req[d].addr
                   /\ UNCHANGED <<disk, identity, dpc, cfg, got, reload,
                                  reports, form, crashes>>

AdmitsAnyone(d) == owner # NoOne

\* The bearer check of the wallet handler: a desktop whose token never arrived
\* is refused like any other.
Admits(d) == owner = d /\ token[d] # "none"

WalletAccepted(d) ==
  /\ WalletServed /\ Admits(d) /\ req[d].at = "wallet"
  /\ req' = [req EXCEPT ![d].at = "body", ![d].mem = cfg.wallet]
  /\ UNCHANGED <<disk, identity, daemon, reports, lock, acked, form, crashes>>

WalletRefused(d) ==
  /\ Refuse(d, "wallet")
  /\ dpc = "waiting" \/ (WalletServed /\ ~Admits(d))
  /\ UNCHANGED <<disk, identity, daemon, reports, lock, acked, form, crashes>>

\* pushWallet: nothing to do for the wallet this run has, ...
WalletAsIs(d) == /\ Steps(d, "body", "changed")
                 /\ req[d].addr = req[d].mem
                 /\ acked' = req[d].addr
                 /\ UNCHANGED <<disk, identity, daemon, reports, lock, form,
                                crashes>>

\* ... else the file is read, ...
WalletLoads(d) == /\ req[d].at = "body" /\ req[d].addr # req[d].mem
                  /\ req' = [req EXCEPT ![d].at = "loaded", ![d].next = file]
                  /\ UNCHANGED <<disk, identity, daemon, reports, lock, acked,
                                 form, crashes>>

\* ... truncated ...
WalletSaves(d) == /\ Steps(d, "loaded", "save")
                  /\ file' = Blank
                  /\ UNCHANGED <<exists, ownerFile, identity, daemon, reports,
                                 lock, acked, form, crashes>>

\* ... and written with the new wallet.
WalletSaved(d) == /\ Steps(d, "save", "saved")
                  /\ file' = [req[d].next EXCEPT !.wallet = req[d].addr]
                  /\ UNCHANGED <<exists, ownerFile, identity, daemon, reports,
                                 lock, acked, form, crashes>>

WalletFails(d) == /\ DiskFails
                  /\ \E from \in {"loaded", "save"} : Refuse(d, from)
                  /\ UNCHANGED <<disk, identity, daemon, reports, lock, acked,
                                 form, crashes>>

SignalsASleeper(d) == /\ Steps(d, "saved", "changed")
                      /\ reload' = (reload \/ dpc = "mining")
                      /\ acked' = req[d].addr
                      /\ UNCHANGED <<disk, identity, dpc, cfg, owner, got,
                                     reports, lock, form, crashes>>

\* The restart goes into the channel of the run that accepted the request.
WalletSignals(d) == /\ Steps(d, "saved", "changed")
                    /\ reload' = (reload \/ ~req[d].old)
                    /\ acked' = req[d].addr
                    /\ UNCHANGED <<disk, identity, dpc, cfg, owner, got,
                                   reports, lock, form, crashes>>

HandlerStep(d) == \/ SetupRefused(d) \/ Claim(d) \/ ClaimWritten(d)
                  \/ Create(d) \/ Created(d) \/ SetupAnswers(d)
                  \/ WalletAccepted(d) \/ WalletRefused(d)
                  \/ WalletAsIs(d) \/ WalletLoads(d)
                  \/ WalletSaves(d) \/ WalletSaved(d) \/ WalletSignals(d)
HandlerFails(d) == SetupFails(d) \/ WalletFails(d)

-----------------------------------------------------------------------------
(* The desktops.                                                           *)

NoForm == NoWallet
Ready(d) == opened[d] # NoForm /\ req[d].at = "idle"

Asks(d, what, w) ==
  req' = [req EXCEPT ![d] = [NoRequest EXCEPT !.at = what, !.addr = w]]

OpenForm(d) == /\ opened[d] = NoForm /\ req[d].at = "idle"
               /\ opened' = [opened EXCEPT ![d] = desk[d]]
               /\ UNCHANGED <<disk, identity, daemon, reports, requests, desk,
                              token, pinned, crashes>>

\* Cancel: a token the form alone had is gone.
CloseForm(d) ==
  /\ Ready(d)
  /\ opened' = [opened EXCEPT ![d] = NoForm]
  /\ token' = [token EXCEPT ![d] = IF @ = "form" THEN "none" ELSE @]
  /\ UNCHANGED <<disk, identity, daemon, reports, requests, desk, pinned,
                 crashes>>

\* confirmSetUp, with the address in the form.
AskSetUp(d, w) == /\ Ready(d) /\ Asks(d, "setup", w)
                  /\ UNCHANGED <<disk, identity, daemon, reports, lock, acked,
                                 form, crashes>>

\* The config is written; the form closes, or asks for a restart and stays.
Keeps(d, w) == /\ desk' = [desk EXCEPT ![d] = w]
               /\ token' = [token EXCEPT ![d] = IF @ = "form" THEN "saved"
                                                ELSE @]
               /\ opened' \in {opened, [opened EXCEPT ![d] = NoForm]}

\* apply: is there a wallet for the hub to take first?
Pushes(d, w) == token[d] # "none" /\ w # opened[d]

Apply(d, w) ==
  /\ Ready(d)
  /\ IF Pushes(d, w)
     THEN Asks(d, "wallet", w) /\ UNCHANGED <<desk, token, opened>>
     ELSE Keeps(d, w) /\ UNCHANGED req
  /\ UNCHANGED <<disk, identity, daemon, reports, lock, acked, pinned,
                 crashes>>

\* A device that only paired may call the API as well.
AskUnowned(d, w) == /\ token[d] = "none" /\ req[d].at = "idle"
                    /\ Asks(d, "wallet", w)
                    /\ UNCHANGED <<disk, identity, daemon, reports, lock,
                                   acked, form, crashes>>

\* pairedBySetUp.
SetUpArrives(d) ==
  /\ Refuse(d, "set up")
  /\ token' = [token EXCEPT ![d] = "form"]
  /\ pinned' = [pinned EXCEPT ![d] = cert]
  /\ UNCHANGED <<disk, identity, daemon, reports, lock, acked, desk, opened,
                 crashes>>

\* The rest of apply: the login entry, the config.
ChangeArrives(d) ==
  /\ Refuse(d, "changed")
  /\ Keeps(d, req[d].addr) \/ UNCHANGED <<desk, token, opened>>
  /\ UNCHANGED <<disk, identity, daemon, reports, lock, acked, pinned,
                 crashes>>

\* The answer is lost, or the desktop gives up before the hub has begun.
GivesUp(d) ==
  /\ \E at \in {"setup", "wallet", "body", "set up", "changed"} : Refuse(d, at)
  /\ UNCHANGED <<disk, identity, daemon, reports, lock, acked, form, crashes>>

DesktopStep(d) ==
  \/ OpenForm(d) \/ CloseForm(d)
  \/ \E w \in Own[d] : AskSetUp(d, w) \/ Apply(d, w) \/ AskUnowned(d, w)
  \/ SetUpArrives(d) \/ ChangeArrives(d) \/ GivesUp(d)

Next == \/ DaemonStep \/ SetupLeft \/ MineEnds \/ WriterWrites \/ Crash
        \/ \E d \in Desktops : HandlerStep(d) \/ HandlerFails(d)
                               \/ DesktopStep(d)

Fairness == WF_vars(DaemonStep) /\ \A d \in Desktops : WF_vars(HandlerStep(d))

Spec == Init /\ [][Next]_vars /\ Fairness

-----------------------------------------------------------------------------
(* Properties.                                                             *)

\* What a setup gave a desktop stays good: its owner token is the one on file
\* and its certificate the hub's, through restarts, lost races for the hub and
\* a hub killed half-way through somebody's setup.
PairingStaysGood == \A d \in Desktops :
  token[d] # "none" => ownerFile = d /\ ident = 3 /\ pinned[d] = cert

HouseInv == HouseTypeOK /\ PairingStaysGood

\* The hub pays only what its owner asked of it, whatever other devices sent
\* and whatever was half written when it went down.
PaysItsOwner == dpc \in {"up", "mining"} /\ cfg.serve
                  => \E d \in Desktops : /\ ownerFile = d
                                         /\ cfg.wallet \in Own[d]

\* "A daemon starting again ... must not have its new status deleted by the
\* last run's writer finishing late" (keepStatus).
StatusTells == /\ dpc = "waiting" => status = "waiting"
               /\ dpc = "mining" => status = "mining"

\* No restart is lost between a saved wallet and the run that should pay it:
\* once nobody asks for anything, every run has the config on file, unless a
\* save that failed has left none.
RunsWhatIsSaved ==
  (<>[](Handled = {} /\ Valid(file)))
    => <>[](dpc \in {"up", "mining"} => cfg = file)

\* "Saved first, so a daemon restarted for any reason comes back on it"
\* (pushWallet): what the hub last said it would pay is on file.  It is not,
\* when two changes meet one run: pushWallet looks at the run's config alone.
AnsweredIsSaved == Handled = {} /\ acked # NoWallet => file.wallet = acked
=============================================================================

-------------------------- MODULE Household_proofs ---------------------------
(***************************************************************************)
(* What a household hub never does, for any number of desktops, addresses  *)
(* and crashes, whichever writes fail and however long a handler lasts.    *)
(***************************************************************************)
EXTENDS Household, TLAPS

LEMMA HouseFacts ==
  /\ MaxCrashes \in Nat
  /\ NoWallet \notin Wallets
  /\ Desktops \cap {NoOne, "absent", "empty"} = {}
  /\ \A d \in Desktops : \A w \in Own[d] : w \in Wallets
  BY HouseAssumption DEF HouseAssumption, Wallets

-----------------------------------------------------------------------------
(* Types.                                                                  *)

\* A desktop asks for an address its user may type.
Asked == \A d \in Desktops : req[d].at # "idle" => req[d].addr \in Own[d]

LEMMA ConfigTypes ==
  /\ Blank \in Configs /\ NoRequest \in Requests
  /\ \A c \in Configs, w \in Wallets \cup {NoWallet} :
       /\ [c EXCEPT !.wallet = w] \in Configs
       /\ [wallet |-> w, serve |-> TRUE] \in Configs
  BY DEF Configs, Blank, NoRequest, Requests

Ats == {"idle", "setup", "claim", "claimed", "create", "created", "set up",
        "wallet", "body", "loaded", "save", "saved", "changed"}

\* A request that moves on, one that is answered, and one that is sent.
LEMMA RequestTypes ==
  ASSUME HouseTypeOK, NEW d \in Desktops
  PROVE  /\ \A at \in Ats :
              [req EXCEPT ![d].at = at] \in [Desktops -> Requests]
         /\ [req EXCEPT ![d] = NoRequest] \in [Desktops -> Requests]
         /\ \A at \in Ats, w \in Wallets :
              [req EXCEPT ![d] = [NoRequest EXCEPT !.at = at, !.addr = w]]
                \in [Desktops -> Requests]
<1>1. req \in [Desktops -> Requests] /\ req[d] \in Requests
  BY DEF HouseTypeOK
<1>2. \A at \in Ats : [req[d] EXCEPT !.at = at] \in Requests
  BY <1>1 DEF Requests, Ats
<1>3. \A at \in Ats : [req EXCEPT ![d].at = at] \in [Desktops -> Requests]
  BY <1>1, <1>2
<1>4. \A at \in Ats, w \in Wallets :
        [NoRequest EXCEPT !.at = at, !.addr = w] \in Requests
  BY ConfigTypes DEF Requests, NoRequest, Ats
<1>5. [req EXCEPT ![d] = NoRequest] \in [Desktops -> Requests]
  BY <1>1, ConfigTypes
<1>6. QED
  BY <1>1, <1>3, <1>4, <1>5

\* Steps of the daemon keep the requests, or mark them as an older run's.
LEMMA DaemonTypes ==
  ASSUME HouseTypeOK,
         DaemonStep \/ SetupLeft \/ MineEnds \/ WriterWrites \/ Crash
  PROVE  HouseTypeOK'
<1> USE DEF HouseTypeOK
<1>1. ASSUME HandlersGone PROVE req' \in [Desktops -> Requests]
  <2>1. \A r \in Requests : [r EXCEPT !.old = TRUE] \in Requests
    BY DEF Requests
  <2>2. QED
    BY <1>1, <2>1 DEF HandlersGone
<1> USE DEF disk, identity, daemon, reports, requests, form, Goes
<1>2. CASE Boot
  BY <1>2, ConfigTypes DEF Boot, Whole
<1>3. CASE Ensure
  BY <1>3 DEF Ensure
<1>4. CASE AwaitSetup
  BY <1>4 DEF AwaitSetup, OwnerOnFile
<1>5. CASE SetupGot \/ SetupLeft
  BY <1>5, ConfigTypes DEF SetupGot, SetupLeft
<1>6. CASE SetupCloses
  BY <1>1, <1>6 DEF SetupCloses, StopsWriter
<1>7. CASE SetupOver
  BY <1>7, ConfigTypes DEF SetupOver
<1>8. CASE StartEnds
  BY <1>8 DEF StartEnds, OwnerOnFile
<1>9. CASE MineReports
  BY <1>9 DEF MineReports
<1>10. CASE MineReloads \/ MineEnds
  BY <1>10 DEF MineReloads, MineEnds, StopsWriter
<1>11. CASE MineStops
  BY <1>11 DEF MineStops
<1>12. CASE MineCloses
  BY <1>1, <1>12 DEF MineCloses
<1>13. CASE Loop
  BY <1>13 DEF Loop
<1>14. CASE WriterQuits
  BY <1>14 DEF WriterQuits
<1>15. CASE WriterWrites
  BY <1>15 DEF WriterWrites
<1>16. CASE Crash
  <2>1. req' \in [Desktops -> Requests]
    BY <1>16, ConfigTypes DEF Crash
  <2>2. crashes' \in 0..MaxCrashes
    BY <1>16, HouseFacts DEF Crash
  <2>3. QED
    BY <1>16, <2>1, <2>2, ConfigTypes DEF Crash
<1> HIDE DEF HouseTypeOK
<1>17. QED
  BY <1>2, <1>3, <1>4, <1>5, <1>6, <1>7, <1>8, <1>9, <1>10, <1>11, <1>12,
     <1>13, <1>14, <1>15, <1>16 DEF DaemonStep

LEMMA HandlerTypes ==
  ASSUME HouseTypeOK, NEW d \in Desktops, HandlerStep(d) \/ HandlerFails(d)
  PROVE  HouseTypeOK'
<1>1. \A to \in Ats : \A from : Steps(d, from, to)
                              => req' \in [Desktops -> Requests]
  <2>1. \A at \in Ats : [req EXCEPT ![d].at = at] \in [Desktops -> Requests]
    BY RequestTypes, Zenon
  <2>2. QED
    BY <2>1, Zenon DEF Steps
<1>2. \A from : Refuse(d, from) => req' \in [Desktops -> Requests]
  BY RequestTypes DEF Refuse
<1>3. req[d] \in Requests /\ req[d].addr \in Wallets \cup {NoWallet}
      /\ req[d].next \in Configs
  BY DEF HouseTypeOK, Requests
<1> USE DEF HouseTypeOK, disk, identity, daemon, reports, requests, form, Ats
<1>4. CASE SetupRefused(d) \/ WalletRefused(d)
  BY <1>2, <1>4 DEF SetupRefused, WalletRefused
<1>5. CASE Claim(d) \/ ClaimWritten(d)
  BY <1>1, <1>5 DEF Claim, ClaimWritten
<1>6. CASE Create(d)
  BY <1>1, <1>6, ConfigTypes DEF Create
<1>7. CASE Created(d)
  <2>1. [wallet |-> req[d].addr, serve |-> TRUE] \in Configs
    BY <1>3, ConfigTypes
  <2>2. QED
    BY <1>1, <1>7, <2>1 DEF Created
<1>8. CASE SetupAnswers(d)
  BY <1>1, <1>3, <1>8 DEF SetupAnswers
<1>9. CASE WalletAccepted(d)
  <2>1. cfg.wallet \in Wallets \cup {NoWallet}
    BY DEF Configs
  <2>2. [req[d] EXCEPT !.at = "body", !.mem = cfg.wallet] \in Requests
    BY <1>3, <2>1 DEF Requests
  <2>3. req' = [req EXCEPT ![d] = [req[d] EXCEPT !.at = "body",
                                                 !.mem = cfg.wallet]]
    BY <1>3, <1>9 DEF WalletAccepted, Requests
  <2>4. req' \in [Desktops -> Requests]
    BY <2>2, <2>3
  <2>5. QED
    BY <1>9, <2>4 DEF WalletAccepted
<1>10. CASE WalletAsIs(d) \/ WalletSignals(d)
  BY <1>1, <1>3, <1>10 DEF WalletAsIs, WalletSignals
<1>11. CASE WalletLoads(d)
  <2>1. [req[d] EXCEPT !.at = "loaded", !.next = file] \in Requests
    BY <1>3 DEF Requests
  <2>2. req' = [req EXCEPT ![d] = [req[d] EXCEPT !.at = "loaded",
                                                 !.next = file]]
    BY <1>3, <1>11 DEF WalletLoads, Requests
  <2>3. req' \in [Desktops -> Requests]
    BY <2>1, <2>2
  <2>4. QED
    BY <1>11, <2>3 DEF WalletLoads
<1>12. CASE WalletSaves(d)
  BY <1>1, <1>12, ConfigTypes DEF WalletSaves
<1>13. CASE WalletSaved(d)
  <2>1. [req[d].next EXCEPT !.wallet = req[d].addr] \in Configs
    BY <1>3, ConfigTypes
  <2>2. QED
    BY <1>1, <1>13, <2>1 DEF WalletSaved
<1>14. CASE SetupFails(d) \/ WalletFails(d)
  BY <1>2, <1>14 DEF SetupFails, WalletFails
<1> HIDE DEF HouseTypeOK
<1>15. QED
  BY <1>4, <1>5, <1>6, <1>7, <1>8, <1>9, <1>10, <1>11, <1>12, <1>13, <1>14
     DEF HandlerStep, HandlerFails

LEMMA DesktopTypes ==
  ASSUME HouseTypeOK, Asked, NEW d \in Desktops, DesktopStep(d)
  PROVE  HouseTypeOK'
<1>1. \A w \in Own[d] : \A at \in Ats : Asks(d, at, w)
                                      => req' \in [Desktops -> Requests]
  <2>1. \A at \in Ats, w \in Wallets :
          [req EXCEPT ![d] = [NoRequest EXCEPT !.at = at, !.addr = w]]
            \in [Desktops -> Requests]
    BY RequestTypes, Zenon
  <2>2. \A w \in Own[d] : w \in Wallets
    BY DEF Wallets
  <2>3. ASSUME NEW w \in Own[d], NEW at \in Ats, Asks(d, at, w)
        PROVE  req' \in [Desktops -> Requests]
    BY <2>1, <2>2, <2>3 DEF Asks
  <2>4. QED
    BY <2>3
<1>2. \A from : Refuse(d, from) => req' \in [Desktops -> Requests]
  BY RequestTypes DEF Refuse
<1> USE DEF HouseTypeOK, disk, identity, daemon, reports, requests, form
<1>3. CASE OpenForm(d)
  BY <1>3 DEF OpenForm
<1>4. CASE CloseForm(d)
  BY <1>4 DEF CloseForm, Ready, NoForm
<1>5. ASSUME NEW w \in Own[d], Keeps(d, w)
      PROVE  /\ desk' \in [Desktops -> Wallets]
             /\ \A e \in Desktops : desk'[e] \in Own[e]
             /\ token' \in [Desktops -> {"none", "form", "saved"}]
             /\ opened' \in [Desktops -> Wallets \cup {NoWallet}]
  BY <1>5, HouseFacts DEF Keeps, NoForm
<1>6. ASSUME NEW w \in Own[d], AskSetUp(d, w) \/ AskUnowned(d, w)
      PROVE  HouseTypeOK'
  BY <1>1, <1>6 DEF AskSetUp, AskUnowned, Ats
<1>7. ASSUME NEW w \in Own[d], Apply(d, w)
      PROVE  HouseTypeOK'
  <2>1. CASE Pushes(d, w)
    BY <1>1, <1>7, <2>1 DEF Apply, Ats
  <2>2. CASE ~Pushes(d, w)
    BY <1>5, <1>7, <2>2 DEF Apply
  <2>3. QED
    BY <2>1, <2>2
<1>8. CASE SetUpArrives(d)
  BY <1>2, <1>8 DEF SetUpArrives
<1>9. CASE ChangeArrives(d)
  <2>1. req[d].addr \in Own[d]
    BY <1>9 DEF ChangeArrives, Refuse, Asked
  <2>2. CASE Keeps(d, req[d].addr)
    BY <1>2, <1>5, <1>9, <2>1, <2>2 DEF ChangeArrives
  <2>3. CASE UNCHANGED <<desk, token, opened>>
    BY <1>2, <1>9, <2>3 DEF ChangeArrives
  <2>4. QED
    BY <1>9, <2>2, <2>3 DEF ChangeArrives
<1>10. CASE GivesUp(d)
  BY <1>2, <1>10 DEF GivesUp
<1> HIDE DEF HouseTypeOK
<1>11. QED
  BY <1>3, <1>4, <1>6, <1>7, <1>8, <1>9, <1>10 DEF DesktopStep

LEMMA AskedKept ==
  ASSUME HouseTypeOK, Asked, [Next]_vars
  PROVE  Asked'
<1>1. req \in [Desktops -> Requests]
  BY DEF HouseTypeOK
<1>2. ASSUME UNCHANGED req PROVE Asked'
  BY <1>2 DEF Asked
<1>3. ASSUME NEW d \in Desktops, NEW to, req[d].at # "idle",
             req' = [req EXCEPT ![d].at = to]
      PROVE  Asked'
  BY <1>1, <1>3 DEF Asked, Requests
<1>4. ASSUME NEW d \in Desktops, req' = [req EXCEPT ![d] = NoRequest]
      PROVE  Asked'
  BY <1>1, <1>4 DEF Asked, NoRequest
<1>5. ASSUME HandlersGone PROVE Asked'
  BY <1>1, <1>5 DEF Asked, HandlersGone, Requests
<1>6. CASE DaemonStep
  BY <1>2, <1>5, <1>6
     DEF DaemonStep, Boot, Ensure, AwaitSetup, SetupGot, SetupCloses,
         SetupOver, StartEnds, MineReports, MineReloads, MineStops,
         MineCloses, Loop, WriterQuits, requests
<1>7. CASE SetupLeft \/ MineEnds \/ WriterWrites
  BY <1>2, <1>7 DEF SetupLeft, MineEnds, WriterWrites, requests
<1>8. CASE Crash
  BY <1>1, <1>8 DEF Crash, Asked, NoRequest
<1>9. ASSUME NEW d \in Desktops, HandlerStep(d) PROVE Asked'
  <2>1. CASE SetupRefused(d) \/ WalletRefused(d)
    BY <1>4, <2>1 DEF SetupRefused, WalletRefused, Refuse
  <2>2. CASE WalletAccepted(d)
    BY <1>1, <2>2 DEF WalletAccepted, Asked, Requests
  <2>3. CASE WalletLoads(d)
    BY <1>1, <2>3 DEF WalletLoads, Asked, Requests
  <2>4. CASE \/ Claim(d) \/ ClaimWritten(d) \/ Create(d) \/ Created(d)
             \/ SetupAnswers(d)
    BY <1>3, <2>4
       DEF Claim, ClaimWritten, Create, Created, SetupAnswers, Steps
  <2>5. CASE \/ WalletAsIs(d) \/ WalletSaves(d) \/ WalletSaved(d)
             \/ WalletSignals(d)
    BY <1>3, <2>5 DEF WalletAsIs, WalletSaves, WalletSaved, WalletSignals, Steps
  <2>6. QED
    BY <1>9, <2>1, <2>2, <2>3, <2>4, <2>5 DEF HandlerStep
<1>10. ASSUME NEW d \in Desktops, HandlerFails(d) PROVE Asked'
  BY <1>4, <1>10 DEF HandlerFails, SetupFails, WalletFails, Refuse
<1>11. ASSUME NEW d \in Desktops, DesktopStep(d) PROVE Asked'
  <2>1. ASSUME NEW w \in Own[d], NEW at, Asks(d, at, w) PROVE Asked'
    BY <1>1, <2>1 DEF Asked, Asks, NoRequest
  <2>2. ASSUME NEW w \in Own[d], AskSetUp(d, w) \/ AskUnowned(d, w)
                                 \/ Apply(d, w)
        PROVE  Asked'
    BY <1>2, <2>1, <2>2 DEF AskSetUp, AskUnowned, Apply
  <2>3. CASE OpenForm(d) \/ CloseForm(d)
    BY <1>2, <2>3 DEF OpenForm, CloseForm, requests
  <2>4. CASE SetUpArrives(d) \/ ChangeArrives(d) \/ GivesUp(d)
    BY <1>4, <2>4 DEF SetUpArrives, ChangeArrives, GivesUp, Refuse
  <2>5. QED
    BY <1>11, <2>2, <2>3, <2>4 DEF DesktopStep
<1>12. CASE UNCHANGED vars
  BY <1>2, <1>12 DEF vars, requests
<1>13. QED
  BY <1>6, <1>7, <1>8, <1>9, <1>10, <1>11, <1>12 DEF Next

-----------------------------------------------------------------------------
(* Who owns the hub.                                                       *)

\* A setup that has claimed the hub, and may still fail.
Claiming(d) == req[d].at \in {"claim", "claimed", "create"}
NoClaim == \A d \in Desktops : ~Claiming(d)

\* What makes d the owner for good: its token, or a request that only the
\* owner's gets so far.
Owns(d) == \/ token[d] # "none"
           \/ req[d].at \in {"created", "set up", "body", "loaded", "save"}

\* A config that is mined for a household has its owner's wallet, and no
\* setup is under way that could still release that owner.
Good(c) == Valid(c) /\ c.serve =>
             NoClaim /\ \E d \in Desktops : ownerFile = d /\ c.wallet \in Own[d]

OwnInv(d) == /\ Claiming(d) \/ req[d].at = "created" => lock = d
             /\ req[d].at = "claim" => ownerFile = "empty"
             /\ req[d].at \in {"claimed", "create"} => ownerFile = d
             /\ Owns(d) => ownerFile = d /\ NoClaim

\* The run in hand: its config is valid, and its API admits the owner only.
RunInv == /\ dpc \in {"start", "up", "mining", "drain"} => Valid(cfg)
          /\ dpc \in {"up", "mining", "drain"} /\ cfg.serve /\ owner # NoOne
               => ownerFile = owner

ClaimInv == /\ \A d \in Desktops : OwnInv(d)
            /\ Good(file) /\ Good(got) /\ Good(cfg)
            /\ RunInv

\* Steps that neither claim the hub nor release it.
Special == {"claim", "claimed", "create", "created", "set up",
            "body", "loaded", "save"}
Calm == /\ UNCHANGED <<ownerFile, lock>>
        /\ \A d \in Desktops :
             /\ \/ req'[d].at = req[d].at
                \/ req'[d].at \notin Special
                \/ {req[d].at, req'[d].at} \subseteq {"body", "loaded", "save"}
             /\ token'[d] # "none" => Owns(d)

LEMMA CalmKeepsOwner ==
  ASSUME ClaimInv, Calm
  PROVE  /\ \A d \in Desktops : OwnInv(d)'
         /\ NoClaim => NoClaim'
         /\ \A c \in Configs : Good(c) =>
              (Valid(c) /\ c.serve =>
                 NoClaim' /\ \E d \in Desktops : ownerFile' = d
                                               /\ c.wallet \in Own[d])
<1>1. \A d \in Desktops : Claiming(d)' => Claiming(d)
  BY DEF Calm, Claiming, Special
<1>2. NoClaim => NoClaim'
  BY <1>1 DEF NoClaim
<1>3. \A d \in Desktops : Owns(d)' => Owns(d)
  BY DEF Calm, Owns, Special
<1>4. ASSUME NEW d \in Desktops PROVE OwnInv(d)'
  <2>1. OwnInv(d)
    BY DEF ClaimInv
  <2>2. req'[d].at \in {"claim", "claimed", "create", "created"}
          => req'[d].at = req[d].at
    BY DEF Calm, Special
  <2>3. QED
    BY <1>2, <1>3, <2>1, <2>2 DEF OwnInv, Claiming, Calm
<1>5. QED
  BY <1>2, <1>4 DEF Good, Calm

\* Nothing is claimed, or else no config names an owner and nobody owns.
LEMMA ClaimExcludes ==
  ASSUME ClaimInv, NEW d \in Desktops, Claiming(d)
  PROVE  /\ \A e \in Desktops : ~Owns(e) /\ (Claiming(e) => e = d)
         /\ \A c \in {file, got, cfg} : ~(Valid(c) /\ c.serve)
<1>1. ~NoClaim
  BY DEF NoClaim
<1>2. \A e \in Desktops : ~Owns(e) /\ (Claiming(e) => e = d)
  BY <1>1 DEF ClaimInv, OwnInv
<1>3. QED
  BY <1>1, <1>2 DEF ClaimInv, Good

\* In a run that serves there is an owner, and no setup.
LEMMA ServesOwner ==
  ASSUME ClaimInv, dpc \in {"start", "up", "mining", "drain"}, cfg.serve
  PROVE  NoClaim /\ ownerFile \in Desktops
  BY DEF ClaimInv, RunInv, Good

\* Calm steps that only hand the configs on.
LEMMA CalmKeeps ==
  ASSUME HouseTypeOK, ClaimInv, Calm,
         file' \in {file, Blank}, got' \in {got, Blank},
         cfg' \in {cfg, file, got, Blank}, RunInv'
  PROVE  ClaimInv'
<1>1. /\ \A d \in Desktops : OwnInv(d)'
      /\ \A c \in Configs : Good(c) =>
           (Valid(c) /\ c.serve =>
              NoClaim' /\ \E d \in Desktops : ownerFile' = d
                                            /\ c.wallet \in Own[d])
  BY CalmKeepsOwner, Zenon
<1>2. {file, got, cfg, Blank} \subseteq Configs
  BY ConfigTypes DEF HouseTypeOK
<1>3. Good(file) /\ Good(got) /\ Good(cfg) /\ Good(Blank)
  BY DEF ClaimInv, Good, Valid, Blank
<1>4. Good(file)'
  BY <1>1, <1>2, <1>3 DEF Good, Valid
<1>5. Good(got)'
  BY <1>1, <1>2, <1>3 DEF Good, Valid
<1>6. Good(cfg)'
  BY <1>1, <1>2, <1>3 DEF Good, Valid
<1>7. QED
  BY <1>1, <1>4, <1>5, <1>6 DEF ClaimInv

\* A request that moves on, or ends, as calm steps let it.
LEMMA CalmMoves ==
  ASSUME HouseTypeOK, UNCHANGED <<ownerFile, lock, token>>,
         NEW d \in Desktops, NEW r,
         req' = [req EXCEPT ![d] = r],
         r.at \notin Special
           \/ {req[d].at, r.at} \subseteq {"body", "loaded", "save"}
  PROVE  Calm
<1>1. req \in [Desktops -> Requests]
  BY DEF HouseTypeOK
<1>2. req'[d] = r /\ \A e \in Desktops \ {d} : req'[e] = req[e]
  BY <1>1
<1>3. QED
  BY <1>2 DEF Calm, Owns

\* The daemon only hands an owner's config from file to run.
LEMMA DaemonKeepsOwner ==
  ASSUME HouseTypeOK, ClaimInv,
         DaemonStep \/ SetupLeft \/ MineEnds \/ WriterWrites
  PROVE  ClaimInv'
<1> USE DEF disk, identity, daemon, reports, requests, form, Goes
<1>1. RunInv /\ ~Valid(Blank)
  BY DEF ClaimInv, Valid, Blank
<1>2. ASSUME UNCHANGED <<ownerFile, lock, req, token, file, got>>,
             cfg' \in {cfg, file, got, Blank}, RunInv'
      PROVE  ClaimInv'
  <2>1. Calm
    BY <1>2 DEF Calm, Owns
  <2>2. QED
    BY <1>2, <2>1, CalmKeeps
<1>3. CASE Boot
  BY <1>1, <1>2, <1>3 DEF Boot, RunInv
<1>4. CASE Ensure \/ WriterQuits \/ WriterWrites
  BY <1>1, <1>2, <1>4 DEF Ensure, WriterQuits, WriterWrites, RunInv
<1>5. CASE AwaitSetup
  BY <1>1, <1>2, <1>5 DEF AwaitSetup, RunInv
<1>6. CASE SetupGot
  <2>1. Calm
    BY <1>6 DEF SetupGot, Calm, Owns
  <2>2. RunInv'
    BY <1>6 DEF SetupGot, RunInv
  <2>3. QED
    BY <1>6, <2>1, <2>2, CalmKeeps DEF SetupGot
<1>7. CASE SetupLeft
  BY <1>2, <1>7 DEF SetupLeft, RunInv
<1>8. ASSUME HandlersGone, UNCHANGED <<disk, cfg, got, lock, token>>, RunInv'
      PROVE  ClaimInv'
  <2>1. Calm
    <3>1. \A e \in Desktops : req'[e].at = req[e].at
      BY <1>8 DEF HandlersGone, Requests, HouseTypeOK
    <3>2. QED
      BY <1>8, <3>1 DEF Calm, Owns
  <2>2. QED
    BY <1>8, <2>1, CalmKeeps
<1>9. CASE SetupCloses
  BY <1>1, <1>8, <1>9 DEF SetupCloses, RunInv
<1>10. CASE MineCloses
  BY <1>8, <1>10 DEF MineCloses, RunInv
<1>11. CASE SetupOver
  <2>1. Calm
    BY <1>11 DEF SetupOver, Calm, Owns
  <2>2. RunInv'
    BY <1>11 DEF SetupOver, RunInv, Valid
  <2>3. QED
    BY <1>11, <2>1, <2>2, CalmKeeps DEF SetupOver
<1>12. CASE StartEnds
  <2>1. RunInv'
    BY <1>1, <1>12 DEF StartEnds, RunInv, Valid, OwnerOnFile
  <2>2. QED
    BY <1>2, <1>12, <2>1 DEF StartEnds
<1>13. CASE MineReports \/ MineReloads \/ MineEnds \/ MineStops
  BY <1>1, <1>2, <1>13
     DEF MineReports, MineReloads, MineEnds, MineStops, RunInv, Valid
<1>14. CASE Loop
  <2>1. RunInv'
    BY <1>14 DEF Loop, RunInv, Valid
  <2>2. QED
    BY <1>2, <1>14, <2>1 DEF Loop
<1>15. QED
  BY <1>3, <1>4, <1>5, <1>6, <1>7, <1>9, <1>10, <1>11, <1>12, <1>13, <1>14
     DEF DaemonStep

\* A handler that waits its turn, is refused or only reads.
LEMMA HandlerKeepsCalm ==
  ASSUME HouseTypeOK, ClaimInv, NEW d \in Desktops,
         \/ SetupRefused(d) \/ WalletRefused(d) \/ WalletAsIs(d)
         \/ WalletLoads(d) \/ WalletSaves(d) \/ WalletSignals(d)
         \/ WalletFails(d)
  PROVE  ClaimInv'
<1> USE DEF disk, identity, daemon, reports, requests, form
<1>1. req[d] \in Requests
  BY DEF HouseTypeOK
<1>2. RunInv /\ UNCHANGED <<dpc, cfg, owner, ownerFile>> => RunInv'
  BY DEF RunInv, Valid
<1>3. RunInv
  BY DEF ClaimInv
<1>4. ASSUME Calm, UNCHANGED <<dpc, cfg, owner, ownerFile, got>>,
             file' \in {file, Blank}
      PROVE  ClaimInv'
  BY <1>2, <1>3, <1>4, CalmKeeps
<1>5. ASSUME NEW from, Refuse(d, from), UNCHANGED <<ownerFile, lock, token>>
      PROVE  Calm
  <2>1. NoRequest.at \notin Special
    BY DEF NoRequest, Special
  <2>2. QED
    BY <1>5, <2>1, CalmMoves DEF Refuse
<1>6. ASSUME NEW from, NEW to, Steps(d, from, to),
             UNCHANGED <<ownerFile, lock, token>>,
             to \notin Special
               \/ {from, to} \subseteq {"body", "loaded", "save"}
      PROVE  Calm
  <2>1. req' = [req EXCEPT ![d] = [req[d] EXCEPT !.at = to]]
    BY <1>6 DEF Steps
  <2>2. [req[d] EXCEPT !.at = to].at = to /\ req[d].at = from
    BY <1>1, <1>6 DEF Steps, Requests
  <2>3. QED
    BY <1>6, <2>1, <2>2, CalmMoves
<1>7. CASE SetupRefused(d) \/ WalletRefused(d)
  BY <1>4, <1>5, <1>7 DEF SetupRefused, WalletRefused
<1>8. CASE WalletFails(d)
  BY <1>4, <1>5, <1>8 DEF WalletFails
<1>9. CASE WalletAsIs(d)
  BY <1>4, <1>6, <1>9 DEF WalletAsIs, Special
<1>10. CASE WalletLoads(d)
  <2>1. req' = [req EXCEPT ![d] = [req[d] EXCEPT !.at = "loaded",
                                                 !.next = file]]
    BY <1>10 DEF WalletLoads
  <2>2. [req[d] EXCEPT !.at = "loaded", !.next = file].at = "loaded"
    BY <1>1 DEF Requests
  <2>3. Calm
    BY <1>10, <2>1, <2>2, CalmMoves DEF WalletLoads
  <2>4. QED
    BY <1>4, <1>10, <2>3 DEF WalletLoads
<1>11. CASE WalletSaves(d)
  BY <1>4, <1>6, <1>11 DEF WalletSaves
<1>12. CASE WalletSignals(d)
  BY <1>4, <1>6, <1>12 DEF WalletSignals, Special
<1>13. QED
  BY <1>7, <1>8, <1>9, <1>10, <1>11, <1>12

\* A setup claims the hub only where nobody owns it, and gives it back only
\* before anybody does.
LEMMA SetupKeepsOwner ==
  ASSUME HouseTypeOK, ClaimInv, Asked, NEW d \in Desktops,
         \/ Claim(d) \/ ClaimWritten(d) \/ Create(d) \/ Created(d)
         \/ SetupFails(d) \/ SetupAnswers(d)
  PROVE  ClaimInv'
<1> USE DEF disk, identity, daemon, reports, requests, form
<1>1. req \in [Desktops -> Requests]
  BY DEF HouseTypeOK
<1>2. \A e \in Desktops : e # "empty" /\ e # "absent" /\ e # NoOne
  BY HouseFacts
<1>3. \A e \in Desktops : req'[e] = req[e] \/ e = d
  BY <1>1
     DEF Claim, ClaimWritten, Create, Created, SetupFails, SetupAnswers,
         Steps, Refuse
<1>4. UNCHANGED token
  BY DEF Claim, ClaimWritten, Create, Created, SetupFails, SetupAnswers
<1>5. ASSUME NEW from, NEW to, Steps(d, from, to)
      PROVE  req[d].at = from /\ req'[d].at = to /\ req'[d].addr = req[d].addr
  BY <1>1, <1>5 DEF Steps, Requests
<1>6. CASE Claim(d)
  <2>1. req[d].at = "setup" /\ req'[d].at = "claim"
    BY <1>5, <1>6 DEF Claim
  <2>2. ownerFile = "absent" /\ lock = NoOne /\ dpc = "waiting"
    BY <1>6 DEF Claim, SetupServed, Unclaimed
  <2>3. \A e \in Desktops : ~Owns(e) /\ ~Claiming(e) /\ req[e].at # "created"
    BY <1>2, <2>2 DEF ClaimInv, OwnInv
  <2>4. \A c \in {file, got, cfg} : ~(Valid(c) /\ c.serve)
    BY <1>2, <2>2 DEF ClaimInv, Good
  <2>5. \A e \in Desktops : OwnInv(e)'
    BY <1>3, <1>4, <1>6, <2>1, <2>3 DEF Claim, OwnInv, Owns, Claiming
  <2>6. UNCHANGED <<file, got, cfg, dpc>>
    BY <1>6 DEF Claim
  <2>7. Good(file)' /\ Good(got)' /\ Good(cfg)' /\ RunInv'
    BY <2>2, <2>4, <2>6 DEF Good, Valid, RunInv
  <2>8. QED
    BY <2>5, <2>7 DEF ClaimInv
<1>7. ASSUME Claiming(d), UNCHANGED <<got, cfg, dpc>>, file' \in {file, Blank}
      PROVE  Good(file)' /\ Good(got)' /\ Good(cfg)' /\ RunInv'
  <2>1. \A c \in {file, got, cfg, Blank} : ~(Valid(c) /\ c.serve)
    BY <1>7, ClaimExcludes DEF Blank, Valid
  <2>2. RunInv
    BY DEF ClaimInv
  <2>3. QED
    BY <1>7, <2>1, <2>2 DEF Good, Valid, RunInv
<1>8. CASE ClaimWritten(d)
  <2>1. req[d].at = "claim" /\ req'[d].at = "claimed"
    BY <1>5, <1>8 DEF ClaimWritten
  <2>2. lock = d /\ \A e \in Desktops : ~Owns(e) /\ (Claiming(e) => e = d)
    BY <2>1, ClaimExcludes DEF ClaimInv, OwnInv, Claiming
  <2>3. \A e \in Desktops : OwnInv(e)'
    BY <1>3, <1>4, <1>8, <2>1, <2>2 DEF ClaimWritten, OwnInv, Owns, Claiming
  <2>4. QED
    BY <1>7, <1>8, <2>1, <2>3 DEF ClaimWritten, Claiming, ClaimInv
<1>9. CASE Create(d)
  <2>1. req[d].at = "claimed" /\ req'[d].at = "create"
    BY <1>5, <1>9 DEF Create
  <2>2. /\ lock = d /\ ownerFile = d
        /\ \A e \in Desktops : ~Owns(e) /\ (Claiming(e) => e = d)
    BY <2>1, ClaimExcludes DEF ClaimInv, OwnInv, Claiming
  <2>3. \A e \in Desktops : OwnInv(e)'
    BY <1>3, <1>4, <1>9, <2>1, <2>2 DEF Create, OwnInv, Owns, Claiming
  <2>4. QED
    BY <1>7, <1>9, <2>1, <2>3 DEF Create, Claiming, ClaimInv
<1>10. CASE SetupFails(d)
  <2>1. Claiming(d) /\ req'[d].at = "idle"
    BY <1>1, <1>10 DEF SetupFails, Refuse, Claiming, NoRequest
  <2>2. \A e \in Desktops : ~Owns(e) /\ (Claiming(e) => e = d)
    BY <2>1, ClaimExcludes
  <2>3. \A e \in Desktops : OwnInv(e)'
    BY <1>3, <1>4, <2>1, <2>2 DEF OwnInv, Owns, Claiming
  <2>4. QED
    BY <1>7, <1>10, <2>1, <2>3 DEF SetupFails, ClaimInv
<1>11. CASE Created(d)
  <2>1. /\ req[d].at = "create" /\ req'[d].at = "created"
        /\ req[d].addr \in Own[d]
    BY <1>5, <1>11 DEF Created, Asked
  <2>2. /\ lock = d /\ ownerFile = d
        /\ \A e \in Desktops : ~Owns(e) /\ (Claiming(e) => e = d)
        /\ ~(Valid(cfg) /\ cfg.serve)
    BY <2>1, ClaimExcludes DEF ClaimInv, OwnInv, Claiming
  <2>3. NoClaim' /\ UNCHANGED <<lock, ownerFile, cfg, dpc, owner>>
    BY <1>3, <1>11, <2>1, <2>2 DEF Created, NoClaim, Claiming
  <2>4. \A e \in Desktops : OwnInv(e)'
    BY <1>3, <1>4, <2>1, <2>2, <2>3 DEF OwnInv, Owns, Claiming
  <2>5. file'.wallet = req[d].addr /\ got' = file'
    BY <1>11 DEF Created
  <2>6. Good(file)' /\ Good(got)'
    BY <2>1, <2>2, <2>3, <2>5 DEF Good
  <2>7. Good(cfg)' /\ RunInv'
    BY <2>2, <2>3 DEF Good, Valid, RunInv, ClaimInv
  <2>8. QED
    BY <2>4, <2>6, <2>7 DEF ClaimInv
<1>12. CASE SetupAnswers(d)
  <2>1. req[d].at = "created" /\ req'[d].at = "set up"
    BY <1>5, <1>12 DEF SetupAnswers
  <2>2. NoClaim /\ ownerFile = d /\ lock = d
    BY <2>1 DEF ClaimInv, OwnInv, Owns
  <2>3. NoClaim' /\ UNCHANGED <<file, got, cfg, dpc, ownerFile>> /\ owner' = d
    BY <1>3, <1>12, <2>1, <2>2 DEF SetupAnswers, NoClaim, Claiming
  <2>4. \A e \in Desktops : req[e].at = "created" => e = d
    BY <2>2 DEF ClaimInv, OwnInv
  <2>5. ASSUME NEW e \in Desktops PROVE OwnInv(e)'
    <3>1. Owns(e)' => Owns(e)
      BY <1>3, <1>4, <2>1 DEF Owns
    <3>2. ~Claiming(e)' /\ req'[e].at # "created"
      BY <1>3, <2>1, <2>3, <2>4 DEF NoClaim
    <3>3. QED
      BY <2>3, <3>1, <3>2 DEF OwnInv, Claiming, ClaimInv
  <2>6. Good(file)' /\ Good(got)' /\ Good(cfg)'
    BY <2>3 DEF Good, Valid, ClaimInv
  <2>7. RunInv'
    BY <2>2, <2>3 DEF RunInv, Valid, ClaimInv
  <2>8. QED
    BY <2>5, <2>6, <2>7 DEF ClaimInv
<1>13. QED
  BY <1>6, <1>8, <1>9, <1>10, <1>11, <1>12

\* Only the owner's request gets to the config, with an address of its own.
LEMMA WalletKeepsOwner ==
  ASSUME HouseTypeOK, ClaimInv, Asked, NEW d \in Desktops,
         WalletAccepted(d) \/ WalletSaved(d)
  PROVE  ClaimInv'
<1> USE DEF disk, identity, daemon, reports, requests, form
<1>1. req[d] \in Requests /\ req \in [Desktops -> Requests]
  BY DEF HouseTypeOK
<1>2. CASE WalletAccepted(d)
  <2>1. /\ req[d].at = "wallet" /\ req'[d].at = "body"
        /\ \A e \in Desktops \ {d} : req'[e] = req[e]
    BY <1>1, <1>2 DEF WalletAccepted, Requests
  <2>2. NoClaim /\ ownerFile = d
    BY <1>2, HouseFacts, ServesOwner
       DEF WalletAccepted, WalletServed, Admits, ClaimInv, RunInv
  <2>3. NoClaim' /\ UNCHANGED <<lock, token, ownerFile, file, got, cfg, dpc,
                                owner>>
    BY <1>2, <2>1, <2>2 DEF WalletAccepted, NoClaim, Claiming
  <2>4. ASSUME NEW e \in Desktops PROVE OwnInv(e)'
    BY <2>1, <2>2, <2>3 DEF OwnInv, Owns, Claiming, NoClaim, ClaimInv
  <2>5. Good(file)' /\ Good(got)' /\ Good(cfg)' /\ RunInv'
    BY <2>3 DEF Good, Valid, RunInv, ClaimInv
  <2>6. QED
    BY <2>4, <2>5 DEF ClaimInv
<1>3. CASE WalletSaved(d)
  <2>1. /\ req[d].at = "save" /\ req[d].addr \in Own[d]
        /\ req' = [req EXCEPT ![d] = [req[d] EXCEPT !.at = "saved"]]
        /\ UNCHANGED <<ownerFile, lock, token>>
    BY <1>3 DEF WalletSaved, Steps, Asked
  <2>2. NoClaim /\ ownerFile = d
    BY <2>1 DEF ClaimInv, OwnInv, Owns
  <2>3. Calm
    BY <1>1, <2>1, CalmMoves DEF Requests, Special
  <2>4. /\ \A e \in Desktops : OwnInv(e)'
        /\ NoClaim'
    BY <2>2, <2>3, CalmKeepsOwner
  <2>5. file'.wallet = req[d].addr
    BY <1>1, <1>3 DEF WalletSaved, Requests, Configs
  <2>6. Good(file)'
    BY <2>1, <2>2, <2>4, <2>5 DEF Good
  <2>7. UNCHANGED <<got, cfg, dpc, owner>>
    BY <1>3 DEF WalletSaved
  <2>8. Good(got)' /\ Good(cfg)' /\ RunInv'
    BY <2>1, <2>4, <2>7 DEF Good, Valid, RunInv, ClaimInv
  <2>9. QED
    BY <2>4, <2>6, <2>8 DEF ClaimInv
<1>4. QED
  BY <1>2, <1>3

LEMMA DesktopKeepsOwner ==
  ASSUME HouseTypeOK, ClaimInv, NEW d \in Desktops, DesktopStep(d)
  PROVE  ClaimInv'
<1> USE DEF disk, identity, daemon, reports, requests, form
<1>1. /\ req \in [Desktops -> Requests]
      /\ token \in [Desktops -> {"none", "form", "saved"}]
  BY DEF HouseTypeOK
<1>2. /\ UNCHANGED <<disk, daemon, lock>>
      /\ \/ UNCHANGED req
         \/ req' = [req EXCEPT ![d] = NoRequest]
         \/ \E at \in {"setup", "wallet"}, w \in Own[d] : Asks(d, at, w)
      /\ \A e \in Desktops : token'[e] # "none" => Owns(e)
  <2>1. CASE OpenForm(d) \/ CloseForm(d)
    BY <1>1, <2>1 DEF OpenForm, CloseForm, Owns
  <2>2. ASSUME NEW w \in Own[d], AskSetUp(d, w) \/ AskUnowned(d, w)
        PROVE  <1>2!1 /\ <1>2!2 /\ <1>2!3
    BY <2>2 DEF AskSetUp, AskUnowned, Owns
  <2>3. ASSUME NEW w \in Own[d], Apply(d, w)
        PROVE  <1>2!1 /\ <1>2!2 /\ <1>2!3
    BY <1>1, <2>3 DEF Apply, Keeps, Owns
  <2>4. CASE SetUpArrives(d)
    BY <1>1, <2>4 DEF SetUpArrives, Refuse, Owns
  <2>5. CASE ChangeArrives(d)
    BY <1>1, <2>5 DEF ChangeArrives, Keeps, Refuse, Owns
  <2>6. CASE GivesUp(d)
    BY <2>6 DEF GivesUp, Refuse, Owns
  <2>7. QED
    BY <2>1, <2>2, <2>3, <2>4, <2>5, <2>6 DEF DesktopStep
<1>3. \A e \in Desktops :
        req'[e].at = req[e].at \/ req'[e].at \in {"idle", "setup", "wallet"}
  <2>1. NoRequest.at = "idle"
    BY DEF NoRequest
  <2>2. ASSUME NEW at \in {"setup", "wallet"}, NEW w \in Own[d], Asks(d, at, w)
        PROVE  \A e \in Desktops : req'[e] = req[e] \/ req'[e].at = at
    BY <1>1, <2>2 DEF Asks, NoRequest
  <2>3. ASSUME req' = [req EXCEPT ![d] = NoRequest]
        PROVE  \A e \in Desktops : req'[e] = req[e] \/ req'[e].at = "idle"
    BY <1>1, <2>1, <2>3
  <2>4. QED
    BY <1>2, <2>2, <2>3
<1>4. Calm
  BY <1>2, <1>3 DEF Calm, Special
<1>5. RunInv'
  BY <1>2 DEF RunInv, Valid, ClaimInv
<1>6. QED
  BY <1>2, <1>4, <1>5, CalmKeeps

\* A hub that went down has no handler left, and reads its config anew.
LEMMA CrashKeepsOwner ==
  ASSUME HouseTypeOK, ClaimInv, Crash
  PROVE  ClaimInv'
<1> USE DEF disk, identity, form
<1>1. \A d \in Desktops : /\ req'[d].at = req[d].at \/ req'[d].at = "idle"
                          /\ d \in Handled => req'[d].at = "idle"
  BY DEF Crash, HouseTypeOK, NoRequest
<1>2. NoClaim' /\ \A d \in Desktops : req'[d].at # "created"
  BY <1>1 DEF NoClaim, Claiming, Handled
<1>3. UNCHANGED <<ownerFile, file, token>> /\ cfg' = Blank /\ got' = Blank
      /\ dpc' = "off"
  BY DEF Crash
<1>4. ASSUME NEW d \in Desktops PROVE OwnInv(d)'
  <2>1. Owns(d)' => Owns(d)
    BY <1>1, <1>3 DEF Owns
  <2>2. QED
    BY <1>2, <1>3, <2>1 DEF OwnInv, Claiming, NoClaim, ClaimInv
<1>5. Good(file)' /\ Good(cfg)' /\ Good(got)' /\ RunInv'
  BY <1>2, <1>3 DEF Good, Valid, Blank, RunInv, ClaimInv
<1>6. QED
  BY <1>4, <1>5 DEF ClaimInv

LEMMA OwnerKept ==
  ASSUME HouseTypeOK, ClaimInv, Asked, [Next]_vars
  PROVE  ClaimInv'
<1>1. ASSUME NEW d \in Desktops, HandlerStep(d) \/ HandlerFails(d)
      PROVE  ClaimInv'
  BY <1>1, HandlerKeepsCalm, SetupKeepsOwner, WalletKeepsOwner
     DEF HandlerStep, HandlerFails
<1>2. CASE UNCHANGED vars
  BY <1>2
     DEF vars, disk, daemon, requests, form, ClaimInv, OwnInv, Owns, NoClaim,
         Claiming, Good, Valid, RunInv
<1>3. QED
  BY <1>1, <1>2, DaemonKeepsOwner, CrashKeepsOwner, DesktopKeepsOwner DEF Next

-----------------------------------------------------------------------------
(* Whose hub it is, and what its status says.                              *)

\* The identity is whole wherever the API is served, and stays whole; only an
\* identity without its certificate is made anew.
IdentInv ==
  /\ dpc \in {"waiting", "up", "mining", "drain"} => ident = 3
  /\ \A d \in Desktops : /\ Claiming(d) \/ Owns(d) => ident = 3
                         /\ token[d] # "none" => pinned[d] = cert

LEMMA IdentKept ==
  ASSUME HouseTypeOK, IdentInv, [Next]_vars
  PROVE  IdentInv'
<1> USE DEF disk, identity, daemon, reports, requests, form, Goes
<1>1. /\ req \in [Desktops -> Requests] /\ ident \in 0..3
      /\ pinned \in [Desktops -> 0..1]
      /\ token \in [Desktops -> {"none", "form", "saved"}]
  BY DEF HouseTypeOK
<1>2. NoRequest.at = "idle"
  BY DEF NoRequest
<1> DEFINE Served == {"waiting", "up", "mining", "drain"}
           Later(d) == \/ req'[d].at = req[d].at
                       \/ req'[d].at \notin Special
                       \/ req[d].at \in Special
                       \/ dpc \in Served
           Pinned(d) == token'[d] # "none" =>
                          \/ token[d] # "none" /\ pinned'[d] = pinned[d]
                          \/ req[d].at = "set up" /\ pinned'[d] = cert
<1>3. ASSUME UNCHANGED identity, dpc' = dpc \/ dpc' \notin Served \/ ident = 3,
             \A d \in Desktops : Later(d) /\ Pinned(d)
      PROVE  IdentInv'
  <2>1. ASSUME NEW d \in Desktops, (Claiming(d) \/ Owns(d))'
        PROVE  ident' = 3
    BY <1>3, <2>1 DEF IdentInv, Claiming, Owns, Special
  <2>2. ASSUME NEW d \in Desktops, token'[d] # "none"
        PROVE  pinned'[d] = cert'
    BY <1>3, <2>2 DEF IdentInv
  <2>3. QED
    BY <1>3, <2>1, <2>2 DEF IdentInv
<1>4. UNCHANGED <<token, pinned>> => \A d \in Desktops : Pinned(d)
  OBVIOUS
<1>5. UNCHANGED req => \A d \in Desktops : Later(d)
  OBVIOUS
<1>6. ASSUME NEW d \in Desktops, req' = [req EXCEPT ![d] = NoRequest]
      PROVE  \A e \in Desktops : Later(e)
  BY <1>1, <1>2, <1>6 DEF Special
<1>7. CASE Boot \/ Ensure
  <2>1. /\ UNCHANGED <<req, token, pinned>>
        /\ dpc' \notin Served
        /\ UNCHANGED cert \/ ident < 3
        /\ ident = 3 => ident' = 3
    BY <1>1, <1>7 DEF Boot, Ensure, Whole
  <2>2. \A d \in Desktops : /\ Claiming(d)' = Claiming(d) /\ Owns(d)' = Owns(d)
                            /\ token'[d] = token[d] /\ pinned'[d] = pinned[d]
    BY <2>1 DEF Claiming, Owns
  <2>3. \A d \in Desktops : token[d] # "none" => Owns(d)
    BY DEF Owns
  <2>4. QED
    BY <1>1, <2>1, <2>2, <2>3 DEF IdentInv
<1>8. ASSUME HandlersGone PROVE \A d \in Desktops : Later(d)
  BY <1>1, <1>8 DEF HandlersGone, Requests
<1>9. CASE SetupCloses \/ MineCloses
  BY <1>3, <1>4, <1>8, <1>9 DEF SetupCloses, MineCloses
<1>10. CASE AwaitSetup \/ StartEnds
  BY <1>3, <1>4, <1>5, <1>10 DEF AwaitSetup, StartEnds
<1>11. CASE SetupGot \/ SetupLeft \/ SetupOver \/ Loop
  BY <1>3, <1>4, <1>5, <1>11 DEF SetupGot, SetupLeft, SetupOver, Loop
<1>12. CASE MineReports \/ MineReloads \/ MineEnds \/ MineStops
  <2>1. ident = 3 \/ dpc' \notin Served
    BY <1>12 DEF MineReports, MineReloads, MineEnds, MineStops, IdentInv
  <2>2. QED
    BY <1>3, <1>4, <1>5, <1>12, <2>1
       DEF MineReports, MineReloads, MineEnds, MineStops
<1>13. CASE WriterQuits \/ WriterWrites
  BY <1>3, <1>4, <1>5, <1>13 DEF WriterQuits, WriterWrites
<1>14. CASE Crash
  <2>1. \A d \in Desktops : req'[d].at = req[d].at \/ req'[d].at = "idle"
    BY <1>1, <1>2, <1>14 DEF Crash
  <2>2. QED
    BY <1>3, <1>4, <1>14, <2>1 DEF Crash, Special
<1>15. ASSUME NEW d \in Desktops, HandlerStep(d) \/ HandlerFails(d)
       PROVE  IdentInv'
  <2>1. UNCHANGED <<identity, dpc, token, pinned>>
    BY <1>15
       DEF HandlerStep, HandlerFails, SetupRefused, Claim, ClaimWritten,
           Create, Created, SetupAnswers, WalletAccepted, WalletRefused,
           WalletAsIs, WalletLoads, WalletSaves, WalletSaved, WalletSignals,
           SetupFails, WalletFails
  <2>2. ASSUME NEW from, NEW to, Steps(d, from, to),
               from \in Special \/ to \notin Special \/ dpc \in Served
        PROVE  \A e \in Desktops : Later(e)
    BY <1>1, <2>2 DEF Steps, Requests
  <2>3. ASSUME NEW from, Refuse(d, from) PROVE \A e \in Desktops : Later(e)
    BY <1>6, <2>3 DEF Refuse
  <2>4. ASSUME \/ Claim(d) \/ ClaimWritten(d) \/ Create(d) \/ Created(d)
               \/ SetupAnswers(d)
        PROVE  \A e \in Desktops : Later(e)
    BY <2>2, <2>4
       DEF Claim, ClaimWritten, Create, Created, SetupAnswers, SetupServed,
           Special
  <2>5. ASSUME WalletAccepted(d) PROVE \A e \in Desktops : Later(e)
    BY <1>1, <2>5 DEF WalletAccepted, WalletServed, Requests
  <2>6. ASSUME WalletLoads(d) PROVE \A e \in Desktops : Later(e)
    BY <1>1, <2>6 DEF WalletLoads, Requests, Special
  <2>7. ASSUME \/ WalletAsIs(d) \/ WalletSaves(d) \/ WalletSaved(d)
               \/ WalletSignals(d)
        PROVE  \A e \in Desktops : Later(e)
    BY <2>2, <2>7
       DEF WalletAsIs, WalletSaves, WalletSaved, WalletSignals, Special
  <2>8. ASSUME \/ SetupRefused(d) \/ WalletRefused(d) \/ SetupFails(d)
               \/ WalletFails(d)
        PROVE  \A e \in Desktops : Later(e)
    BY <2>3, <2>8 DEF SetupRefused, WalletRefused, SetupFails, WalletFails
  <2>9. \A e \in Desktops : Later(e)
    BY <1>15, <2>4, <2>5, <2>6, <2>7, <2>8 DEF HandlerStep, HandlerFails
  <2>10. QED
    BY <1>3, <1>4, <2>1, <2>9
<1>16. ASSUME NEW d \in Desktops, DesktopStep(d) PROVE IdentInv'
  <2>1. ASSUME NEW w \in Own[d], NEW at \in {"setup", "wallet"}, Asks(d, at, w)
        PROVE  \A e \in Desktops : Later(e)
    BY <1>1, <2>1 DEF Asks, NoRequest, Special
  <2>2. CASE OpenForm(d) \/ CloseForm(d)
    BY <1>1, <1>3, <1>5, <2>2 DEF OpenForm, CloseForm
  <2>3. ASSUME NEW w, Keeps(d, w), UNCHANGED pinned
        PROVE  \A e \in Desktops : Pinned(e)
    BY <1>1, <2>3 DEF Keeps
  <2>4. ASSUME NEW w \in Own[d],
               AskSetUp(d, w) \/ AskUnowned(d, w) \/ Apply(d, w)
        PROVE  IdentInv'
    <3>1. \A e \in Desktops : Later(e)
      BY <1>5, <2>1, <2>4 DEF AskSetUp, AskUnowned, Apply
    <3>2. \A e \in Desktops : Pinned(e)
      BY <1>4, <2>3, <2>4 DEF AskSetUp, AskUnowned, Apply
    <3>3. UNCHANGED <<identity, dpc>>
      BY <2>4 DEF AskSetUp, AskUnowned, Apply
    <3>4. QED
      BY <1>3, <3>1, <3>2, <3>3
  <2>5. CASE SetUpArrives(d)
    <3>1. \A e \in Desktops : Later(e) /\ Pinned(e)
      BY <1>1, <1>6, <2>5 DEF SetUpArrives, Refuse
    <3>2. QED
      BY <1>3, <2>5, <3>1 DEF SetUpArrives
  <2>6. CASE ChangeArrives(d)
    <3>1. \A e \in Desktops : Later(e) /\ Pinned(e)
      BY <1>4, <1>6, <2>3, <2>6 DEF ChangeArrives, Refuse
    <3>2. QED
      BY <1>3, <2>6, <3>1 DEF ChangeArrives
  <2>7. CASE GivesUp(d)
    BY <1>3, <1>4, <1>6, <2>7 DEF GivesUp, Refuse
  <2>8. QED
    BY <1>16, <2>2, <2>4, <2>5, <2>6, <2>7 DEF DesktopStep
<1>17. CASE UNCHANGED vars
  BY <1>3, <1>4, <1>5, <1>17 DEF vars
<1>18. QED
  BY <1>7, <1>9, <1>10, <1>11, <1>12, <1>13, <1>14, <1>15, <1>16, <1>17
     DEF Next, DaemonStep

\* One writer of the status at a time: the next starts once the last is gone.
WriterInv ==
  /\ dpc \in {"off", "ensure", "start", "up", "close", "load"} => writer = {}
  /\ dpc = "waiting" => writer = {"on"} /\ status = "waiting"
  /\ dpc = "mining" => writer = {"on"} /\ status = "mining"

LEMMA WriterKept ==
  ASSUME WriterInv, [Next]_vars
  PROVE  WriterInv'
<1> USE DEF WriterInv, daemon, reports, Goes
<1>1. ASSUME NEW d \in Desktops,
             HandlerStep(d) \/ HandlerFails(d) \/ DesktopStep(d)
      PROVE  UNCHANGED <<dpc, reports>>
  <2>1. CASE HandlerStep(d) \/ HandlerFails(d)
    BY <2>1
       DEF HandlerStep, HandlerFails, SetupRefused, Claim, ClaimWritten,
           Create, Created, SetupAnswers, WalletAccepted, WalletRefused,
           WalletAsIs, WalletLoads, WalletSaves, WalletSaved, WalletSignals,
           SetupFails, WalletFails
  <2>2. CASE DesktopStep(d)
    BY <2>2
       DEF DesktopStep, OpenForm, CloseForm, AskSetUp, AskUnowned, Apply,
           SetUpArrives, ChangeArrives, GivesUp
  <2>3. QED
    BY <1>1, <2>1, <2>2
<1>2. UNCHANGED <<dpc, reports>> => WriterInv'
  OBVIOUS
<1>3. CASE Boot \/ Ensure \/ AwaitSetup
  BY <1>3 DEF Boot, Ensure, AwaitSetup
<1>4. CASE SetupGot \/ SetupLeft \/ SetupCloses \/ SetupOver
  BY <1>4 DEF SetupGot, SetupLeft, SetupCloses, StopsWriter, SetupOver,
              WriterGone
<1>5. CASE StartEnds \/ MineReports \/ MineReloads \/ MineEnds
  BY <1>5 DEF StartEnds, MineReports, MineReloads, MineEnds, StopsWriter
<1>6. CASE MineStops \/ MineCloses \/ Loop \/ Crash
  BY <1>6 DEF MineStops, WriterGone, MineCloses, Loop, Crash
<1>7. CASE WriterQuits \/ WriterWrites
  BY <1>7 DEF WriterQuits, WriterWrites
<1>8. CASE UNCHANGED vars
  BY <1>2, <1>8 DEF vars
<1>9. QED
  BY <1>1, <1>2, <1>3, <1>4, <1>5, <1>6, <1>7, <1>8 DEF Next, DaemonStep

-----------------------------------------------------------------------------
(* The theorems.                                                           *)

Inductive == HouseTypeOK /\ Asked /\ ClaimInv /\ IdentInv /\ WriterInv

LEMMA HouseStarts == Init => Inductive
<1> SUFFICES ASSUME Init PROVE Inductive
  OBVIOUS
<1>1. HouseTypeOK
  <2>1. req \in [Desktops -> Requests]
    BY ConfigTypes DEF Init
  <2>2. desk \in [Desktops -> Wallets] /\ \A d \in Desktops : desk[d] \in Own[d]
    BY DEF Init
  <2>3. /\ opened \in [Desktops -> Wallets \cup {NoWallet}]
        /\ token \in [Desktops -> {"none", "form", "saved"}]
        /\ pinned \in [Desktops -> 0..1]
        /\ crashes \in 0..MaxCrashes
    BY HouseFacts DEF Init
  <2>4. /\ exists \in BOOLEAN /\ file \in Configs
        /\ ownerFile \in Desktops \cup {"absent", "empty"}
        /\ cfg \in Configs /\ got \in Configs /\ reload \in BOOLEAN
        /\ owner \in Desktops \cup {NoOne} /\ lock \in Desktops \cup {NoOne}
        /\ status \in {"none", "waiting", "mining"}
    BY ConfigTypes DEF Init
  <2>5. /\ ident \in 0..3 /\ cert \in 0..1 /\ writer \subseteq {"on", "quit"}
        /\ dpc \in {"off", "ensure", "waiting", "unwait", "start", "up",
                    "mining", "drain", "close", "load"}
        /\ acked \in Wallets \cup {NoWallet}
    BY DEF Init
  <2>6. QED
    BY <2>1, <2>2, <2>3, <2>4, <2>5 DEF HouseTypeOK
<1>2. NoRequest.at = "idle" /\ ~Valid(Blank)
  BY DEF NoRequest, Valid, Blank
<1>3. \A d \in Desktops : req[d].at = "idle" /\ token[d] = "none"
  BY <1>2 DEF Init
<1>4. ClaimInv
  BY <1>2, <1>3
     DEF Init, ClaimInv, OwnInv, Owns, Claiming, Good, RunInv
<1>5. Asked /\ IdentInv /\ WriterInv
  BY <1>3 DEF Init, Asked, IdentInv, Claiming, Owns, WriterInv
<1>6. QED
  BY <1>1, <1>4, <1>5 DEF Inductive

LEMMA HouseGoesOn == Inductive /\ [Next]_vars => Inductive'
<1> SUFFICES ASSUME Inductive, [Next]_vars PROVE Inductive'
  OBVIOUS
<1> USE DEF Inductive
<1>1. HouseTypeOK'
  <2>1. CASE UNCHANGED vars
    BY <2>1
       DEF HouseTypeOK, vars, disk, identity, daemon, reports, requests, form
  <2>2. QED
    BY <2>1, DaemonTypes, HandlerTypes, DesktopTypes DEF Next
<1>2. QED
  BY <1>1, AskedKept, OwnerKept, IdentKept, WriterKept

LEMMA Always == Spec => []Inductive
  BY HouseStarts, HouseGoesOn, PTL DEF Spec

\* What a setup gave a desktop stays good (hub.setup, hub.Ensure): the owner
\* token it holds is the one on file and the certificate it pinned the hub's,
\* through lost races, failed writes, restarts and a setup cut short.
THEOREM HouseStaysSafe == Spec => []HouseInv
<1>1. Inductive => HouseInv
  BY DEF Inductive, HouseInv, PairingStaysGood, ClaimInv, OwnInv, Owns,
         IdentInv
<1>2. QED
  BY <1>1, Always, PTL

\* A hub that serves a household mines to an address of its owner (mine,
\* pushWallet), whichever other devices asked and whatever was half written.
THEOREM HousePaysItsOwner == Spec => []PaysItsOwner
<1>1. Inductive => PaysItsOwner
  BY DEF Inductive, PaysItsOwner, ClaimInv, RunInv, Good
<1>2. QED
  BY <1>1, Always, PTL

\* The status file says what the daemon does (keepStatus): no writer of an
\* earlier run is left to remove or overwrite it.
THEOREM HouseStatusTells == Spec => []StatusTells
<1>1. Inductive => StatusTells
  BY DEF Inductive, StatusTells, WriterInv
<1>2. QED
  BY <1>1, Always, PTL
=============================================================================

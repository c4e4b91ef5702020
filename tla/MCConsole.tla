------------------------------ MODULE MCConsole ------------------------------
(***************************************************************************)
(* What stands between the operator and the control plane, and what it     *)
(* steers from there, checked side by side: a behaviour is one of the part *)
(* that was chosen for it, and leaves the others at rest.  The account     *)
(* comes twice: with one operation at a time and processes that are killed *)
(* ("account"), and with failed sign-ins that overlap ("lockout").         *)
(***************************************************************************)
EXTENDS AuthStore, SignIn, LiveView, PageHooks, DirectoryAccounts,
        VmFleet, Installation, Gateway, SecuritySettings

VARIABLE part

MostAsleep == 5

Overlapping == INSTANCE AuthStore
  WITH MaxAsleep <- MostAsleep, MaxTokens <- 1, MaxPassword <- 1,
       Overlap <- TRUE, Ops <- {"setup", "wrong"}, Crashes <- FALSE

pageVars == <<signVars, liveVars, pollVars, terminalVars, simulatorVars>>
hostVars == <<accountVars, fleetVars, installVars, gatewayVars, settingsVars>>
consoleVars == <<part, vars, pageVars, hostVars>>

Parts == {"account", "lockout", "signin", "live", "poll", "terminals",
          "directory", "fleet", "installation", "gateway", "settings", "simulator"}

\* A part that is not the one chosen begins in one state only.
MCInit ==
  /\ part \in Parts
  /\ Init
  /\ SignInInit /\ (part = "signin" \/ (url = "/" /\ account = "used"))
  /\ LiveInit /\ SimulatorInit /\ PollInit /\ TerminalsInit
  /\ AccountsInit /\ FleetInit /\ InstallationInit
  /\ GatewayInit /\ SettingsInit

AuthStep(p, A) == part = p /\ A /\ UNCHANGED <<part, pageVars, hostVars>>

SignInStep(A) ==
  part = "signin" /\ A /\ UNCHANGED <<part, vars, liveVars, pollVars, terminalVars, simulatorVars, hostVars>>
LiveStep(A) ==
  part = "live" /\ A /\ UNCHANGED <<part, vars, signVars, pollVars, terminalVars, simulatorVars, hostVars>>
PollStep(A) ==
  part = "poll" /\ A /\ UNCHANGED <<part, vars, signVars, liveVars, terminalVars, simulatorVars, hostVars>>
TerminalStep(A) ==
  part = "terminals" /\ A /\ UNCHANGED <<part, vars, signVars, liveVars, pollVars, simulatorVars, hostVars>>

SimulatorStep(A) ==
  part = "simulator" /\ A /\ UNCHANGED <<part, vars, signVars, liveVars, pollVars, terminalVars, hostVars>>

PagesRest == UNCHANGED <<part, vars, pageVars>>

AccountStep(A) ==
  part = "directory" /\ A /\ PagesRest /\ UNCHANGED <<fleetVars, installVars, gatewayVars, settingsVars>>
FleetStep(A) ==
  part = "fleet" /\ A /\ PagesRest /\ UNCHANGED <<accountVars, installVars, gatewayVars, settingsVars>>
InstallationStep(A) ==
  part = "installation" /\ A /\ PagesRest /\ UNCHANGED <<accountVars, fleetVars, gatewayVars, settingsVars>>
GatewayStep(A) ==
  part = "gateway" /\ A /\ PagesRest /\ UNCHANGED <<accountVars, fleetVars, installVars, settingsVars>>
SettingsStep(A) ==
  part = "settings" /\ A /\ PagesRest /\ UNCHANGED <<accountVars, fleetVars, installVars, gatewayVars>>

MCNext ==
  \/ AuthStep("account", Next)
  \/ AuthStep("lockout", Overlapping!Next)
  \/ SignInStep(SignInNext)
  \/ LiveStep(LiveNext)
  \/ SimulatorStep(SimulatorNext)
  \/ PollStep(PollNext)
  \/ TerminalStep(TerminalsNext)
  \/ AccountStep(AccountsNext)
  \/ FleetStep(FleetNext)
  \/ InstallationStep(InstallationNext)
  \/ GatewayStep(GatewayNext)
  \/ SettingsStep(SettingsNext)

\* Someone sets the account up and keeps guessing; a sleep ends and a save is
\* made; the gate is answered or is not; the server hears of a connection that
\* ended; an SSH connection has a timer; helpers and watchdogs make progress, time
\* passes and the heartbeat's timer fires.
MCFairness ==
  /\ WF_vars(AuthStep("lockout", Overlapping!SetupAuth))
  /\ WF_vars(AuthStep("lockout", Overlapping!LoginWrong))
  /\ WF_vars(AuthStep("lockout", Overlapping!LoginFails))
  /\ \A p \in Process : WF_vars(AuthStep("lockout", Overlapping!Save(p)))
  /\ WF_signVars(SignInStep(Gate))
  /\ \A c \in Conns : WF_liveVars(LiveStep(Cleanup(c)))
  /\ \A s \in Sockets : WF_terminalVars(TerminalStep(SocketCloses(s)))
  /\ \A r \in Refreshing : WF_fleetVars(FleetStep(SshTimer(r)))
  /\ \A h \in Helpers : WF_gatewayVars(GatewayStep(Helper(h) \/ Result(h)))
  /\ \A w \in Dog : WF_gatewayVars(GatewayStep(Wake(w) \/ DogReverts(w)))
  /\ WF_gatewayVars(GatewayStep(\E h \in Helpers : Beat(h)))
  /\ WF_gatewayVars(GatewayStep(GatewayTick))

MCSpec == MCInit /\ [][MCNext]_consoleVars /\ MCFairness

-----------------------------------------------------------------------------
(* Properties.                                                             *)

\* With one operation at a time, auth.json is what the reported operations make of
\* it: the sessions handed out and not ended, the password last set, and an account
\* that MaxFails failures in a row have locked.
AccountExact ==
  part = "account" => SessionsExact /\ LockoutThreshold /\ PasswordInForce

\* A lockout is not undone by sign-ins that failed around it.
LockoutSticks == [][part = "lockout" => (Locked => Locked')]_consoleVars

\* Wrong passwords that keep coming lock the account, however they overlap; the
\* gate's redirects end at a page; nothing of a page that was left, of a terminal
\* that was closed or of a machine that does not answer stays behind; a gateway
\* whose heartbeat stops is reverted.
ConsoleSettles ==
  /\ part = "lockout" ~> Locked
  /\ part = "signin" => PageShown
  /\ ListenersGo /\ ShellsEnd /\ RefreshOfVmEnds /\ DeadMan

\* What a page shows is what it asked for, behind the gate, once and in order; a
\* terminal and the shell behind it are both there or both gone.
PagesKept == GateHolds /\ LiveKept /\ SimulatorKept /\ ShownIsAsked /\ TerminalKept

\* What was replaced or removed does not come back: an older state on a page, a
\* machine that was removed.
NothingComesBack == NeverOlder /\ RemovedStays

\* Accounts of the domain are as they were asked for, the passwords of the machines
\* can be read, and the settings of threat intelligence are on file as they are shown.
SecretsKept == AddedAsAsked /\ SecretsReadable /\ SettingsStored
=============================================================================

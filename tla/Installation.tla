---------------------------- MODULE Installation ----------------------------
(***************************************************************************)
(* The installer and the admin command on the host: scripts run by root    *)
(* that stop the control plane, move its data about, write its unit files  *)
(* and start it again, and that may break off after any step               *)
(* (deploy/install-nexrelm.sh, nexrelm-cli.sh, install-gateway.sh,         *)
(* setup-dns.sh).  One script runs at a time.                              *)
(***************************************************************************)
EXTENDS Naturals, Sequences, FiniteSets

CONSTANTS
  Places, Home, NoPlace,   \* data directories; ~/.nexrelm
  NoDir,
  MaxData, MaxScripts      \* sets of data that come into being, scripts that are begun

ASSUME InstallationAssumption ==
  /\ Home \in Places /\ NoPlace \notin Places
  /\ MaxData \in Nat /\ NoDir \notin 0 .. MaxData /\ MaxScripts \in Nat

VARIABLES
  dir,       \* what is in each directory: no directory, nothing (0), or data
  service,   \* the directory of the control plane that runs
  host,      \* the files of root, and what systemd has read of them
  keep,      \* data set aside (backups of reset and restore), data purged and not
             \* restored, the last backup
  admin,     \* data with an account
  made,      \* how many sets of data there have been
  script,    \* the script that runs: its steps to come, its argument
  past       \* history: the data in use, the last script that ended, how many have begun,
             \* and whether one broke off or did other than it should ("rerun", "wrong")

installVars == <<dir, service, host, keep, admin, made, script, past>>

Nobody == [steps |-> << >>, name |-> "none", to |-> NoPlace]
NoBackup == [data |-> 0, name |-> NoPlace]

InstallationInit ==
  /\ dir = [p \in Places |-> NoDir] /\ service = NoPlace
  /\ host = [cli |-> FALSE, unit |-> "none", pinned |-> NoPlace, env |-> Home,
             gateway |-> "none"]
  /\ keep = [aside |-> {}, purged |-> {}, backup |-> NoBackup]
  /\ admin = {}
  /\ made = 0 /\ script = Nobody
  /\ past = [wanted |-> 0, ended |-> "none", count |-> 0, went |-> "well"]

Data(p) == dir[p] \notin {NoDir, 0}
Running == service # NoPlace
Idle == script.steps = << >>

\* The directory that the unit and its drop-in name.
Target == IF host.pinned = NoPlace THEN Home ELSE host.pinned

\* A program that finds no data in its directory makes its own.
Filled(p) ==
  IF Data(p) THEN UNCHANGED <<dir, made>>
  ELSE /\ made < MaxData /\ made' = made + 1
       /\ dir' = [dir EXCEPT ![p] = made + 1]

\* The data in use: what a program finds or makes when there was none, or it was purged.
Wanted(d) == IF past.wanted \in keep.purged \union {0} THEN d ELSE past.wanted

-----------------------------------------------------------------------------
(* The scripts.                                                            *)

Begin(name, to, steps) ==
  /\ Idle /\ past.count < MaxScripts
  /\ script' = [steps |-> steps, name |-> name, to |-> to]
  /\ past' = [past EXCEPT !.ended = "none", !.count = @ + 1]
  /\ UNCHANGED <<dir, service, host, keep, admin, made>>

Install == Begin("install", Home, <<"files", "pin", "reload", "start", "setup">>)

\* A bug to be caught: the data moves, and the service is not told.
MoveStepsUntold == <<"stop", "move", "reload", "start">>
MoveSteps == <<"stop", "move", "pin", "reload", "start">>

MoveData(p) == host.cli /\ p # host.env /\ Begin("move", p, MoveSteps)

Reset == host.cli /\ Begin("reset", NoPlace, <<"stop", "setAside", "fresh", "start">>)

Restore ==
  /\ host.cli /\ keep.backup # NoBackup
  /\ Begin("restore", NoPlace, <<"stop", "setAside", "extract", "start">>)

\* A bug to be caught: the directory is looked up once the drop-in is gone.
UninstallStepsLate(purge) ==
  <<"stop", "units", "ungateway", "resolve", "uncli">> \o (IF purge THEN <<"delete">> ELSE << >>)

UninstallSteps(purge) ==
  <<"resolve", "stop", "units", "ungateway", "uncli">> \o (IF purge THEN <<"delete">> ELSE << >>)

Uninstall(purge) ==
  host.cli /\ Begin(IF purge THEN "purge" ELSE "uninstall", NoPlace, UninstallSteps(purge))

AtStep(step) == ~Idle /\ Head(script.steps) = step

Then == script' = [script EXCEPT !.steps = Tail(@)]

\* What has ended once this step is done.
Ended == IF Len(script.steps) = 1 THEN script.name ELSE past.ended

-----------------------------------------------------------------------------
(* Their steps.                                                            *)

\* Files that are written: the command, the unit, the drop-in, and what systemd
\* reads of them.  The installer pins ~/.nexrelm wherever the data is by now.
StepFiles ==
  /\ \/ AtStep("files") /\ host' = [host EXCEPT !.cli = TRUE, !.unit = "good"]
     \/ AtStep("pin") /\ host' = [host EXCEPT !.pinned = script.to]
     \/ AtStep("reload") /\ host' = [host EXCEPT !.env = Target]
     \/ AtStep("uncli") /\ host' = [host EXCEPT !.cli = FALSE]
  /\ Then
  /\ past' = [past EXCEPT !.ended = Ended,
                          !.went = IF /\ AtStep("pin") /\ script.name = "install" /\ @ = "well"
                                      /\ Wanted(dir[Home]) # dir[Home]
                                   THEN "rerun" ELSE @]
  /\ UNCHANGED <<dir, service, keep, admin, made>>

\* systemctl stop, start and restart; `disable --now` of the uninstaller.
StepStop ==
  /\ AtStep("stop") /\ Then /\ service' = NoPlace
  /\ UNCHANGED <<dir, host, keep, admin, made, past>>

StepStart ==
  /\ AtStep("start") /\ host.unit = "good"
  /\ Filled(host.env) /\ service' = host.env /\ Then
  /\ past' = [past EXCEPT !.wanted = Wanted(dir'[host.env]), !.ended = Ended]
  /\ UNCHANGED <<host, keep, admin>>

\* A unit that names no user fails to start: a running service was stopped for it.
StepStartFails ==
  /\ AtStep("start") /\ host.unit # "good"
  /\ service' = NoPlace /\ script' = Nobody
  /\ UNCHANGED <<dir, host, keep, admin, made, past>>

\* `nexrelm setup`, in the directory systemd names; an account that is there stays.
StepSetup ==
  /\ AtStep("setup") /\ Then
  /\ Filled(host.env) /\ admin' = admin \union {dir'[host.env]}
  /\ past' = [past EXCEPT !.ended = Ended]
  /\ UNCHANGED <<service, host, keep>>

\* mv into a directory that exists puts the data under it, where nobody looks.
StepMove ==
  /\ AtStep("move") /\ Then
  /\ LET old == host.env new == script.to
     IN  CASE dir[old] = NoDir ->
                /\ dir' = [dir EXCEPT ![new] = IF @ = NoDir THEN 0 ELSE @]
                /\ UNCHANGED <<keep, past>>
           [] dir[old] # NoDir /\ dir[new] = NoDir ->
                /\ dir' = [dir EXCEPT ![new] = dir[old], ![old] = NoDir]
                /\ UNCHANGED <<keep, past>>
           [] OTHER ->
                /\ dir' = [dir EXCEPT ![old] = NoDir]
                /\ keep' = [keep EXCEPT !.aside = @ \union ({dir[old]} \ {0})]
                /\ past' = [past EXCEPT !.went = "wrong"]
  /\ UNCHANGED <<service, host, admin, made>>

\* reset and restore rename the directory.
StepSetAside ==
  /\ AtStep("setAside") /\ Then
  /\ keep' = [keep EXCEPT !.aside = @ \union ({dir[host.env]} \ {0, NoDir})]
  /\ dir' = [dir EXCEPT ![host.env] = NoDir]
  /\ past' = IF script.name = "reset" THEN [past EXCEPT !.wanted = 0] ELSE past
  /\ UNCHANGED <<service, host, admin, made>>

StepFresh ==
  /\ AtStep("fresh") /\ Then
  /\ dir' = [dir EXCEPT ![host.env] = 0]
  /\ UNCHANGED <<service, host, keep, admin, made, past>>

\* The archive names the directory it was taken of; under another name it is
\* unpacked beside the one in use.
StepExtract ==
  /\ AtStep("extract") /\ Then
  /\ IF keep.backup.name = host.env
     THEN /\ dir' = [dir EXCEPT ![host.env] = keep.backup.data]
          /\ past' = [past EXCEPT !.wanted = keep.backup.data]
          /\ keep' = [keep EXCEPT !.purged = @ \ {keep.backup.data}]
     ELSE past' = [past EXCEPT !.went = "wrong"] /\ UNCHANGED <<dir, keep>>
  /\ UNCHANGED <<service, host, admin, made>>

\* The steps of the uninstaller of their own.
StepResolve ==
  /\ AtStep("resolve")
  /\ script' = [script EXCEPT !.steps = Tail(@), !.to = host.env]
  /\ UNCHANGED <<dir, service, host, keep, admin, made, past>>

StepUnits ==
  /\ AtStep("units") /\ Then
  /\ host' = [host EXCEPT !.unit = "none", !.pinned = NoPlace, !.env = Home]
  /\ UNCHANGED <<dir, service, keep, admin, made, past>>

StepUngateway ==
  /\ AtStep("ungateway") /\ Then
  /\ host' = [host EXCEPT !.gateway = "none"]
  /\ UNCHANGED <<dir, service, keep, admin, made, past>>

StepDelete ==
  /\ AtStep("delete") /\ Then
  /\ keep' = [keep EXCEPT !.purged = @ \union ({dir[script.to]} \ {0, NoDir})]
  /\ dir' = [dir EXCEPT ![script.to] = NoDir]
  /\ past' = [past EXCEPT !.ended = Ended]
  /\ UNCHANGED <<service, host, admin, made>>

ScriptStep ==
  \/ StepFiles \/ StepStop \/ StepStart \/ StepStartFails \/ StepSetup
  \/ StepMove \/ StepSetAside \/ StepFresh \/ StepExtract
  \/ StepResolve \/ StepUnits \/ StepUngateway \/ StepDelete

\* A step fails, or the operator interrupts it: `set -e` ends the script there.
BreaksOff ==
  /\ ~Idle
  /\ script' = Nobody
  /\ past' = [past EXCEPT !.went = "wrong"]
  /\ UNCHANGED <<dir, service, host, keep, admin, made>>

-----------------------------------------------------------------------------
(* The rest of the host.                                                   *)

\* systemd reads the files anew and starts what is enabled.
Reboot ==
  /\ past.count < MaxScripts
  /\ script' = Nobody
  /\ LET before == [past EXCEPT !.ended = "none", !.count = @ + 1, !.went = IF Idle THEN @ ELSE "wrong"]
     IN  /\ host' = [host EXCEPT !.env = Target, !.gateway = IF @ = "on" THEN "off" ELSE @]
         /\ IF host.unit = "good"
            THEN /\ Filled(Target) /\ service' = Target
                 /\ past' = [before EXCEPT !.wanted = Wanted(dir'[Target])]
            ELSE /\ service' = NoPlace /\ past' = before
                 /\ UNCHANGED <<dir, made>>
  /\ UNCHANGED <<keep, admin>>

\* `nexrelm backup`.
Backup ==
  /\ Idle /\ host.cli /\ Data(host.env)
  /\ keep' = [keep EXCEPT !.backup = [data |-> dir[host.env], name |-> host.env]]
  /\ UNCHANGED <<dir, service, host, admin, made, script, past>>

\* install-gateway.sh, with and without --remove.
InstallGateway(remove) ==
  /\ Idle
  /\ host' = [host EXCEPT !.gateway = IF remove THEN "none" ELSE "off"]
  /\ past' = [past EXCEPT !.ended = "none"]
  /\ UNCHANGED <<dir, service, keep, admin, made, script>>

\* The control plane may enable the gateway as long as it runs, and the watchdog
\* reverts it when it does not (module Gateway).
GatewaySwitches ==
  /\ \/ Running /\ host.gateway = "off" /\ host' = [host EXCEPT !.gateway = "on"]
     \/ ~Running /\ host.gateway = "on" /\ host' = [host EXCEPT !.gateway = "off"]
  /\ UNCHANGED <<dir, service, keep, admin, made, script, past>>

\* setup-dns.sh copies the unit with its placeholders for user and group, and unless it
\* breaks off there systemd reads the files; enabled and started, such a unit fails, and
\* a service that runs goes on.
SetupDns ==
  /\ Idle /\ past.count < MaxScripts
  /\ \E env \in {host.env, Target} : host' = [host EXCEPT !.unit = "raw", !.env = env]
  /\ past' = [past EXCEPT !.ended = "none", !.count = @ + 1]
  /\ UNCHANGED <<dir, service, keep, admin, made, script>>

InstallationNext ==
  \/ Install \/ Reset \/ Restore
  \/ \E p \in Places : MoveData(p)
  \/ \E purge \in BOOLEAN : Uninstall(purge) \/ InstallGateway(purge)
  \/ ScriptStep \/ BreaksOff \/ Reboot \/ Backup \/ GatewaySwitches \/ SetupDns

InstallationSpec == InstallationInit /\ [][InstallationNext]_installVars

-----------------------------------------------------------------------------
(* Properties.                                                             *)

\* Data is never lost, however scripts break off: it is in a directory, set aside,
\* or was purged on request.
NothingLost ==
  \A d \in 1 .. made : d \in keep.aside \union keep.purged \/ \E p \in Places : dir[p] = d

\* The control plane works on the data it worked on before, moved or restored,
\* unless a script broke off or went wrong in one of the ways of the README.
ServesItsData == Running /\ past.went = "well" => dir[service] = past.wanted

\* What uninstall leaves: no service, no routing, no helper with rights of root;
\* and with --purge the data that was in use is gone, wherever it was.
NothingLeft ==
  past.ended \in {"uninstall", "purge"} =>
    /\ ~Running /\ host.gateway = "none"
    /\ past.ended = "purge" /\ past.went = "well" => \A p \in Places : Data(p) => dir[p] # past.wanted

InstallationKept == NothingLost /\ ServesItsData /\ NothingLeft

\* "Re-running is safe (... account creation is skipped if it exists)"
\* (install-nexrelm.sh:13-14): as long as scripts end and do what they should, a
\* re-run of the installer leaves the one account that there is.
RerunIsSafe ==
  past.went # "wrong" => Cardinality(admin \ (keep.aside \union keep.purged)) <= 1
=============================================================================

---------------------------- MODULE NetworkSetup ----------------------------
(***************************************************************************)
(* How this host is put to work on a network: the switches of the DHCP     *)
(* server that several places have, and the wizard of the first start.     *)
(***************************************************************************)
EXTENDS Naturals, FiniteSets, Functions

(***************************************************************************)
(* The DHCP server is switched on and off, and told to hand this host out  *)
(* as DNS server, from five places: the network page, its hand-off, the    *)
(* wizard of the first start, and the bar and the form of the DHCP page    *)
(* (web, gateway/Gateway.tsx, onboarding/OnboardingWizard.tsx,             *)
(* dhcp/StatusBar.tsx, dhcp/Settings.tsx).  Each sends what it makes of    *)
(* the state it has loaded; dhcp/index.ts, security/network.ts and         *)
(* setDhcpHandoff of security/gateway.ts carry it out.  A socket is bound  *)
(* and closed before anything else runs.                                   *)
(***************************************************************************)

CONSTANT MaxPressed   \* commands under way at once: a bound on the behaviours

VARIABLES
  dhcpSettings,   \* on file: the server is enabled; it hands this host out as DNS
  handoff,        \* on file, in gateway.json: the hand-off is on
  served,         \* the settings the server runs with; Stopped
  portTaken,      \* another program has UDP port 67
  seen,           \* what each place shows
  pressed,        \* the command of each place that has one under way
  overruled       \* the form was saved since the hand-off was last switched

switchVars == <<dhcpSettings, handoff, served, portTaken, seen, pressed, overruled>>

Switches == {"mode", "wizard", "bar"}
Places == Switches \union {"form", "handoff"}

Stopped == [enabled |-> FALSE, own |-> FALSE]

\* defaultSettings.
SwitchesInit ==
  /\ dhcpSettings = [enabled |-> FALSE, own |-> TRUE]
  /\ handoff = FALSE
  /\ served = Stopped
  /\ portTaken = FALSE
  /\ seen = [k \in Places |-> IF k = "form" THEN dhcpSettings ELSE FALSE]
  /\ pressed = << >>
  /\ overruled = FALSE

\* networkPosture tells whether the server runs; the bar goes by what is on file.
StateFor(k) ==
  CASE k = "form" -> dhcpSettings
    [] k = "handoff" -> handoff
    [] k = "bar" -> dhcpSettings.enabled
    [] OTHER -> served # Stopped

-----------------------------------------------------------------------------
(* The pages.                                                              *)

\* By the poll, and after a command; the form when its tab is opened, not again.
Refresh(k) ==
  /\ seen' = [seen EXCEPT ![k] = StateFor(k)]
  /\ UNCHANGED <<dhcpSettings, handoff, served, portTaken, pressed, overruled>>

\* The form has no field for the first of the two.
EditOwnDns(own) ==
  /\ seen' = [seen EXCEPT !["form"] = [enabled |-> seen["form"].enabled, own |-> own]]
  /\ UNCHANGED <<dhcpSettings, handoff, served, portTaken, pressed, overruled>>

\* The wizard only ever starts the server, and has no button when it runs.  The form
\* sends all it has.
Press(k) ==
  /\ k \notin DOMAIN pressed /\ Cardinality(DOMAIN pressed) < MaxPressed
  /\ k = "wizard" => ~seen[k]
  /\ pressed' = [j \in DOMAIN pressed \union {k} |->
       IF j # k THEN pressed[j] ELSE IF k = "form" THEN seen[k] ELSE ~seen[k]]
  /\ UNCHANGED <<dhcpSettings, handoff, served, portTaken, seen, overruled>>

-----------------------------------------------------------------------------
(* The control plane.                                                      *)

\* saveServerSettings: the patch over what is on file.
Patched(k, asked) ==
  CASE k = "form" -> asked
    [] k = "handoff" -> [enabled |-> asked \/ dhcpSettings.enabled, own |-> asked]
    [] OTHER -> [enabled |-> asked, own |-> dhcpSettings.own]

\* A bug to be caught: a server that is to run, and does, is left alone.
ServedUnlessRunning(after) ==
  IF ~after.enabled \/ (served = Stopped /\ portTaken) THEN Stopped
  ELSE IF served # Stopped THEN served ELSE after

\* start is a stop and a bind, which may fail.
Served(after) == IF after.enabled /\ ~portTaken THEN after ELSE Stopped

\* applyDhcpSettings, after setDhcpServer or setDhcpHandoff; the place is free again.
CommandArrives(k) ==
  /\ k \in DOMAIN pressed
  /\ dhcpSettings' = Patched(k, pressed[k])
  /\ served' = Served(dhcpSettings')
  /\ handoff' = IF k = "handoff" THEN pressed[k] ELSE handoff
  /\ overruled' = (k = "form" \/ (overruled /\ k # "handoff"))
  /\ pressed' = Restrict(pressed, DOMAIN pressed \ {k})
  /\ UNCHANGED <<portTaken, seen>>

\* Another program takes the port, or leaves it.
PortChanges ==
  /\ served = Stopped
  /\ portTaken' = ~portTaken
  /\ UNCHANGED <<dhcpSettings, handoff, served, seen, pressed, overruled>>

\* startDhcp: what is on file decides.
SwitchesRestart ==
  /\ served' = Served(dhcpSettings)
  /\ pressed' = << >>
  /\ UNCHANGED <<dhcpSettings, handoff, portTaken, seen, overruled>>

SwitchesNext ==
  \/ \E k \in Places : Refresh(k) \/ Press(k) \/ CommandArrives(k)
  \/ \E own \in BOOLEAN : EditOwnDns(own)
  \/ PortChanges \/ SwitchesRestart

SwitchesSpec == SwitchesInit /\ [][SwitchesNext]_switchVars

-----------------------------------------------------------------------------
(* Properties.                                                             *)

\* Whichever places the commands come from, and though several are made from one old
\* state: the server answers with the settings on file, or not at all; and the hand-off
\* that the network page shows is in those settings, unless the form, which sends the
\* settings it was opened with, was saved since.
ServedAsOnFile ==
  /\ served # Stopped => served = dhcpSettings
  /\ handoff => dhcpSettings.own \/ overruled

-----------------------------------------------------------------------------
(***************************************************************************)
(* The wizard that puts this host on the path of a network, and the check  *)
(* at its end that traffic is seen (core/onboarding.ts, onboarding/        *)
(* OnboardingWizard.tsx).  It goes by the state it polls, has one command  *)
(* under way at a time, and is not alone: other pages switch the capture   *)
(* and the gateway too, tcpdump ends by itself.  (The switches of the DHCP   *)
(* server that other pages have are those above.)                          *)
(***************************************************************************)

CONSTANTS
  ManyPackets,   \* more than so many are a sign of traffic (50)
  MaxPresses, MaxHappenings   \* bounds on the behaviours

ASSUME OnboardingAssumption == {ManyPackets, MaxPresses, MaxHappenings} \subseteq Nat

VARIABLES
  net,       \* what the control plane has and finds
  capture,   \* tcpdump: it runs, it may be allowed to, and the packets it has counted
  wizard,    \* the page
  call,      \* its command: what, and how far
  sample,    \* the last check, and what happened on the wire meanwhile
  altered,   \* the modes that have changed otherwise since the wizard's last command
  presses, happenings   \* commands, and what others do

wizardVars == <<net, capture, wizard, call, sample, altered, presses, happenings>>

STEPS == <<"Detect", "Capabilities", "Integration", "Capture", "Verify">>

NoCall == [what |-> "none", at |-> "page"]
NoData == [known |-> FALSE]
NoVerdict == [known |-> FALSE]
NoSample == [before |-> 0, resolving |-> FALSE, many |-> FALSE, gateway |-> FALSE, heard |-> FALSE, anew |-> FALSE]

WizardInit ==
  /\ net \in [dhcp : {FALSE}, serving : {FALSE}, gateway : {FALSE},
              helper : {"refused", "works"}, clients : {0}]
  /\ capture = [on |-> FALSE, caps |-> TRUE, packets |-> 0]
  /\ wizard = [step |-> 1, mode |-> "none", data |-> NoData, note |-> "none", verdict |-> NoVerdict]
  /\ call = NoCall /\ sample = NoSample /\ altered = {} /\ presses = 0 /\ happenings = 0

\* networkPosture's sign that the capture sees the network.
Many == capture.on /\ capture.packets > ManyPackets

\* onboardingState.
OnboardingState ==
  [known |-> TRUE, dhcp |-> net.serving, gateway |-> net.gateway, helper |-> net.helper,
   on |-> capture.on, caps |-> capture.caps,
   flowing |-> net.clients > 1 \/ Many \/ net.gateway]

-----------------------------------------------------------------------------
(* The page.                                                               *)

StatePolled ==
  /\ wizard' = [wizard EXCEPT !.data = OnboardingState]
  /\ UNCHANGED <<net, capture, call, sample, altered, presses, happenings>>

\* next and back, which no command under way holds up.
GoTo(step) ==
  /\ step \in DOMAIN STEPS /\ step \in {wizard.step + 1, wizard.step - 1}
  /\ wizard' = [wizard EXCEPT !.step = step]
  /\ UNCHANGED <<net, capture, call, sample, altered, presses, happenings>>

ChooseMode(mode) ==
  /\ wizard.data.known /\ STEPS[wizard.step] = "Integration"
  /\ wizard' = [wizard EXCEPT !.mode = mode]
  /\ UNCHANGED <<net, capture, call, sample, altered, presses, happenings>>

\* StepIntegration: each way of integration has its button, for what is not there yet.
IntegrationButtons ==
  (IF wizard.mode = "dns" /\ ~wizard.data.dhcp THEN {"dhcp"} ELSE {})
    \union (IF wizard.mode = "gateway" /\ wizard.data.helper = "works" /\ ~wizard.data.gateway
            THEN {"lan"} ELSE {})

\* StepCapture: one button, for the other of the two states that is shown.
CaptureButtons ==
  IF wizard.data.on THEN {"stop"} ELSE IF wizard.data.caps THEN {"start"} ELSE {}

Buttons ==
  CASE STEPS[wizard.step] = "Integration" -> IntegrationButtons
    [] STEPS[wizard.step] = "Capture" -> CaptureButtons
    [] STEPS[wizard.step] = "Verify" -> {"verify"}
    [] OTHER -> {}

\* act clears the note, runVerify the verdict.
PressWizard(what) ==
  /\ wizard.data.known /\ call = NoCall /\ what \in Buttons
  /\ presses < MaxPresses /\ presses' = presses + 1
  /\ call' = [what |-> what, at |-> "sent"]
  /\ wizard' = IF what = "verify" THEN [wizard EXCEPT !.verdict = NoVerdict]
               ELSE [wizard EXCEPT !.note = "none"]
  /\ UNCHANGED <<net, capture, sample, altered, happenings>>

\* The answer.
CallAnswered ==
  /\ call.at \in {"done", "failed"}
  /\ wizard' =
       IF call.what = "verify"
       THEN [wizard EXCEPT !.verdict = IF call.at = "done" THEN call.verdict ELSE NoVerdict]
       ELSE [wizard EXCEPT !.note = IF call.at = "done" THEN call.what ELSE "failed"]
  /\ call' = NoCall
  /\ UNCHANGED <<net, capture, sample, altered, presses, happenings>>

\* The control plane cannot be reached, or is not any more.
CallFails ==
  /\ call.at \in {"sent", "done"}
  /\ call' = [what |-> call.what, at |-> "failed"]
  /\ UNCHANGED <<net, capture, wizard, sample, altered, presses, happenings>>

-----------------------------------------------------------------------------
(* The control plane.                                                      *)

Carried(what, mode) ==
  /\ call = [what |-> what, at |-> "sent"]
  /\ call' = [what |-> what, at |-> "done"]
  /\ altered' = altered \ {mode}
  /\ UNCHANGED <<wizard, presses, happenings>>

\* setDhcpServer: the answer does not tell whether the port could be bound.
DhcpTurnedOn ==
  /\ Carried("dhcp", "dhcp")
  /\ \E bound \in BOOLEAN : net' = [net EXCEPT !.dhcp = TRUE, !.serving = bound]
  /\ UNCHANGED <<capture, sample>>

\* enableLanGateway, which CallFails stands for when the helper fails.
GatewayTurnedOn ==
  /\ Carried("lan", "gateway")
  /\ net' = [net EXCEPT !.gateway = TRUE]
  /\ UNCHANGED <<capture, sample>>

\* startSniffer: the packets are counted anew, unless it runs.
Started(c) == IF c.on THEN c ELSE [c EXCEPT !.on = TRUE, !.packets = 0]

\* What a change of the capture means for a check that is under way.
Sampling == call.what = "verify" /\ call.at \in {"counted", "read"}
Noticed == IF Sampling THEN [sample EXCEPT !.anew = TRUE] ELSE sample

CaptureSwitched ==
  \/ /\ Carried("start", "capture") /\ capture' = Started(capture)
     /\ UNCHANGED <<net, sample>>
  \/ /\ Carried("stop", "capture") /\ capture' = [capture EXCEPT !.on = FALSE]
     /\ UNCHANGED <<net, sample>>

\* verifyTraffic: the packets so far, then the posture, then a wait.
SampleBegins ==
  /\ call = [what |-> "verify", at |-> "sent"]
  /\ call' = [what |-> "verify", at |-> "counted"]
  /\ sample' = [NoSample EXCEPT !.before = capture.packets]
  /\ UNCHANGED <<net, capture, wizard, altered, presses, happenings>>

PostureTaken ==
  /\ call.at = "counted"
  /\ call' = [what |-> "verify", at |-> "read"]
  /\ sample' = [sample EXCEPT !.resolving = net.clients > 1, !.many = Many, !.gateway = net.gateway]
  /\ UNCHANGED <<net, capture, wizard, altered, presses, happenings>>

\* A bug to be caught: a count that has begun anew is taken for packets.
GainedEitherWay(before, after) == IF after > before THEN after - before ELSE before - after

\* packetsDelta: never below 0.
Gained(before, after) == IF after > before THEN after - before ELSE 0

SampleEnds ==
  /\ call.at = "read"
  /\ LET delta == Gained(sample.before, capture.packets)
         flowing == sample.resolving \/ delta > 0 \/ sample.many \/ sample.gateway
     IN  call' = [what |-> "verify", at |-> "done",
                  verdict |-> [known |-> TRUE, flowing |-> flowing, delta |-> delta]]
  /\ UNCHANGED <<net, capture, wizard, sample, altered, presses, happenings>>

-----------------------------------------------------------------------------
(* What others do, and commands of the wizard that are carried out though  *)
(* it has given up on them.                                                *)

Happens ==
  /\ happenings < MaxHappenings /\ happenings' = happenings + 1
  /\ UNCHANGED <<wizard, call, presses>>

\* No more are told apart than it takes to be many.
PacketHeard ==
  /\ capture.on /\ capture.packets <= ManyPackets
  /\ capture' = [capture EXCEPT !.packets = @ + 1]
  /\ sample' = IF Sampling THEN [sample EXCEPT !.heard = TRUE] ELSE sample
  /\ UNCHANGED <<net, wizard, call, altered, presses, happenings>>

\* Another page switches the capture, or off and on again, or tcpdump ends.
CaptureAltered ==
  /\ Happens
  /\ LET stopped == [capture EXCEPT !.on = FALSE]
     IN  capture' \in {Started(capture), stopped, Started(stopped)} /\ capture' # capture
  /\ sample' = Noticed
  /\ altered' = altered \union {"capture"}
  /\ UNCHANGED net

ClientResolves ==
  /\ Happens /\ net.clients < 2
  /\ net' = [net EXCEPT !.clients = @ + 1]
  /\ UNCHANGED <<capture, sample, altered>>

\* Another page, or the watchdog.
GatewayAltered ==
  /\ Happens
  /\ net' = [net EXCEPT !.gateway = ~@ /\ net.helper = "works"] /\ net' # net
  /\ altered' = altered \union {"gateway"}
  /\ UNCHANGED <<capture, sample>>

WizardNext ==
  \/ StatePolled \/ CallAnswered \/ CallFails
  \/ \E step \in DOMAIN STEPS : GoTo(step)
  \/ \E mode \in {"dns", "gateway"} : ChooseMode(mode)
  \/ \E what \in {"dhcp", "lan", "start", "stop", "verify"} : PressWizard(what)
  \/ DhcpTurnedOn \/ GatewayTurnedOn \/ CaptureSwitched
  \/ SampleBegins \/ PostureTaken \/ SampleEnds
  \/ PacketHeard \/ CaptureAltered \/ ClientResolves \/ GatewayAltered

WizardSpec == WizardInit /\ [][WizardNext]_wizardVars

-----------------------------------------------------------------------------
(* Properties.                                                             *)

\* The verdict of the check: traffic that it tells of was there, on the wire while it
\* waited or in one of the other three signs; and it tells of what came over the wire,
\* unless the capture was switched meanwhile.
VerdictRight ==
  wizard.verdict.known =>
    /\ wizard.verdict.delta > 0 => sample.heard
    /\ wizard.verdict.flowing =>
         sample.heard \/ sample.many \/ sample.gateway \/ sample.resolving
    /\ sample.heard /\ ~sample.anew => wizard.verdict.flowing

\* What the wizard says it has switched is so, as long as no one else has switched it
\* since, though each command was made from an older state; of the DHCP server it is
\* so on file.
NotesRight ==
  /\ wizard.note = "dhcp" => net.dhcp
  /\ wizard.note = "lan" /\ "gateway" \notin altered => net.gateway
  /\ wizard.note = "start" /\ "capture" \notin altered => capture.on
  /\ wizard.note = "stop" /\ "capture" \notin altered => ~capture.on

WizardHonest == VerdictRight /\ NotesRight

=============================================================================

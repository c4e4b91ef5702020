------------------------------ MODULE MCServices ------------------------------
(***************************************************************************)
(* The services that answer the network, their log, and the pages that     *)
(* steer them, checked side by side: a behaviour is one of the part that   *)
(* was chosen for it, and leaves the others at rest.                       *)
(***************************************************************************)
EXTENDS MCDnsFilter, ResolverRecords, PageForms, NetworkSetup, DhcpReplies

VARIABLE part

Address(n) == <<10, 0, 255, n>>
OwnAddress == Address(2)
WholeNet == <<255, 255, 255, 0>>

\* Routers, DNS servers, a file name, node types that need more than a byte, and
\* values left empty.
SomeOptions ==
  {<< >>,
   (3 :> <<Address(1)>>) @@ (6 :> <<Address(9)>>) @@ (66 :> <<110, 0, 255>>),
   (3 :> << >>) @@ (6 :> <<Address(8), Address(6)>>) @@ (46 :> <<300>>)}
SomeDnsLists == {<< >>, <<Address(53), Address(54)>>}

logsVars == <<clientVars, listVars, logVars>>
pagesVars == <<formVars, userVars, switchVars, wizardVars>>
dhcpVars == <<replyVars, probeVars>>
serviceVars == <<part, vars, logsVars, pagesVars, dhcpVars>>

Parts == {"answers", "clients", "log", "forms", "lists", "users",
          "switches", "wizard", "replies", "probes"}

MCInit ==
  /\ part \in Parts
  /\ Init /\ ClientsInit /\ LogInit
  /\ FormsInit /\ ListsInit /\ UsersInit /\ SwitchesInit
  /\ WizardInit /\ (part = "wizard" \/ net.helper = "works")
  /\ RepliesInit /\ ProbesInit /\ (part = "probes" \/ up = {})

AnswersStep(A) == part = "answers" /\ A /\ UNCHANGED <<part, logsVars, pagesVars, dhcpVars>>
ClientsStep(A) ==
  part = "clients" /\ A /\ UNCHANGED <<part, vars, listVars, logVars, pagesVars, dhcpVars>>
ListsStep(A) ==
  part = "lists" /\ A /\ UNCHANGED <<part, vars, clientVars, logVars, pagesVars, dhcpVars>>
LogStep(A) ==
  part = "log" /\ A /\ UNCHANGED <<part, vars, clientVars, listVars, pagesVars, dhcpVars>>

ServicesRest == UNCHANGED <<part, vars, logsVars, dhcpVars>>

FormsStep(A) ==
  part = "forms" /\ A /\ ServicesRest /\ UNCHANGED <<userVars, switchVars, wizardVars>>
UsersStep(A) ==
  part = "users" /\ A /\ ServicesRest /\ UNCHANGED <<formVars, switchVars, wizardVars>>
SwitchesStep(A) ==
  part = "switches" /\ A /\ ServicesRest /\ UNCHANGED <<formVars, userVars, wizardVars>>
WizardStep(A) ==
  part = "wizard" /\ A /\ ServicesRest /\ UNCHANGED <<formVars, userVars, switchVars>>

DhcpRest == UNCHANGED <<part, vars, logsVars, pagesVars>>

RepliesStep(A) == part = "replies" /\ A /\ DhcpRest /\ UNCHANGED probeVars
ProbesStep(A) == part = "probes" /\ A /\ DhcpRest /\ UNCHANGED replyVars

MCNext ==
  \/ AnswersStep(Next)
  \/ ClientsStep(ClientsNext)
  \/ LogStep(LogNext)
  \/ FormsStep(FormsNext)
  \/ ListsStep(ListsNext)
  \/ UsersStep(UsersNext)
  \/ SwitchesStep(SwitchesNext)
  \/ WizardStep(WizardNext)
  \/ RepliesStep(RepliesNext)
  \/ ProbesStep(ProbesNext)

MCSpec == MCInit /\ [][MCNext]_serviceVars

-----------------------------------------------------------------------------
(* Properties.                                                             *)

\* What is asked of several pages, from what each has loaded, is what is on file and
\* in force: for how long things are kept, where a list stands, who a user is, how
\* the DHCP server runs, and what the wizard has found.
PagesAgree == FormsKept /\ MovesWork /\ NothingMixedUp /\ ServedAsOnFile /\ WizardHonest

\* A client is in the groups chosen for it; the log is bounded, and its chart agrees
\* with its total; what the pages ask for is in force; and a DHCP client is told what
\* is configured for it.
ServicesKept ==
  /\ AssignedAsMeant
  /\ ChartAgrees /\ NothingTooOld /\ LogBounded
  /\ PagesAgree
  /\ ToldAsMeant
=============================================================================

----------------------------- MODULE MCResponse -----------------------------
(***************************************************************************)
(* From a detection to the rule that blocks it, each part on its own in a  *)
(* behaviour: the detectors, the feed of events, the answer to threats     *)
(* with the rules an operator adds, taken from OperatorRules, and the map  *)
(* of the network on the first page.                                       *)
(***************************************************************************)
EXTENDS Response, MCDetectors, EventFeed, NetworkMap

CONSTANTS s1, z1, web, Home, Away   \* two domains

VARIABLE part

defenceVars == <<part, vars, detectVars, eventVars, mapVars>>

\* An allowance of one service for a zone, and an outbound rule.
OperatorRules ==
  {[on |-> TRUE, dir |-> "inbound", action |-> "allow", source |-> z1, services |-> {web}],
   [on |-> TRUE, dir |-> "outbound", action |-> "deny", source |-> AnySource,
    services |-> Services]}

RuleNames == Permutations(Rules)

SomeComputers ==
  (Home :> {[name |-> "dc1", part |-> "dc", enabled |-> TRUE],
            [name |-> "dc2", part |-> "dc", enabled |-> TRUE],
            [name |-> "files", part |-> "server", enabled |-> FALSE],
            [name |-> "desk", part |-> "workstation", enabled |-> TRUE]})
  @@ (Away :> {})

\* Names, addresses, and which have the look of a server; the name "desk" twice.
Device(name, ip, serverish) ==
  [name |-> name, ip |-> ip, real |-> TRUE, serverish |-> serverish]
SomeSightings ==
  {Device("dc1", 3, TRUE), Device("desk", 5, TRUE), Device("desk", 6, FALSE),
   Device("", 7, FALSE)}

SomeMachines == {[name |-> "vm1", ip |-> 5], [name |-> "vm2", ip |-> 5]}

OneSeedZone == [z \in {z1} |-> {s1}]

MCInit ==
  /\ part \in {"detect", "events", "respond", "map"}
  /\ ResponseInit /\ EventsInit /\ MapInit
  /\ DetectInit /\ (part = "detect" \/ (asks = Quiet /\ wire = Still))

MCNext ==
  \/ part = "respond" /\ ResponseNext(OperatorRules) /\ UNCHANGED <<part, detectVars, eventVars, mapVars>>
  \/ part = "detect" /\ DetectNext /\ UNCHANGED <<part, vars, eventVars, mapVars>>
  \/ part = "events" /\ EventsNext /\ UNCHANGED <<part, vars, detectVars, mapVars>>
  \/ part = "map" /\ MapNext /\ UNCHANGED <<part, vars, detectVars, eventVars>>

MCSpec == MCInit /\ [][MCNext]_defenceVars

\* A detection that is sharper at a higher sensitivity, and not silenced but where
\* the host is trusted with scanning, is reported at its severity while it lasts; and
\* the map has every device once, in a tree.
AlertsKept == DetectionKept /\ WorstIsTold /\ MapSound
=============================================================================

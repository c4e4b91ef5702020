--------------------------- MODULE PolicyFirewall ---------------------------
(***************************************************************************)
(* The policy firewall, security/firewall.ts: rules with an order number,  *)
(* zones, the file that holds both, the verdict (evaluate) and the script  *)
(* that is written for the operating system (exportNft).  Order numbers    *)
(* are counted in tens.  A rule's protocol and port are the services it is *)
(* for: the script writes them, evaluate does not look at them.  Both pass *)
(* over a rule's destination; it and the hit counters are left out.        *)
(***************************************************************************)
EXTENDS Integers, FiniteSets

CONSTANTS
  Rules,          \* names of rules (randomUUID)
  Sources,        \* addresses
  Zones,          \* names of zones
  SeedZones,      \* the zones of seed(), with their addresses
  AnySource,      \* "any"
  Services,       \* what a packet may be for: a protocol, and a port of tcp or udp
  ByHand,         \* bound: the numbers a PATCH gives
  MaxOrder        \* bound: order numbers stay below it

ASSUME FirewallAssumption ==
  /\ AnySource \notin Sources \union Zones /\ Sources \intersect Zones = {}
  /\ DOMAIN SeedZones \subseteq Zones
  /\ \A z \in DOMAIN SeedZones : SeedZones[z] \subseteq Sources
  /\ Services # {} /\ MaxOrder \in Nat /\ ByHand \subseteq 1 .. MaxOrder

VARIABLES
  acl,      \* the rules, by name
  zones,    \* the addresses of each zone there is
  edited,     \* history: addresses a rule of which was changed or deleted
  renumbered  \* history: the order number of a rule was changed by hand

firewallVars == <<acl, zones, edited, renumbered>>

Matchers == Sources \union Zones \union {AnySource}
Actions == {"allow", "deny", "drop"}
Directions == {"inbound", "outbound"}

\* A rule that names no protocol is for every service, whatever its port.
ForServices == (SUBSET Services) \ {{}}

RuleInput == [on : BOOLEAN, dir : Directions, action : Actions, source : Matchers,
              services : ForServices]
Rule == [order : 1 .. MaxOrder, on : BOOLEAN, dir : Directions,
         action : Actions, source : Matchers, services : ForServices]

WithNumber(n, input) ==
  [order |-> n, on |-> input.on, dir |-> input.dir, action |-> input.action,
   source |-> input.source, services |-> input.services]

-----------------------------------------------------------------------------
Present == DOMAIN acl
Orders == {acl[r].order : r \in Present}

\* Bugs to be caught: the number of rules gives the number of the next one; a
\* new rule goes to the top.
NextOrderByCount == 1 + Cardinality(Present)
NextOrderOnTop == IF Orders = {} THEN MaxOrder
                  ELSE (CHOOSE n \in Orders : \A m \in Orders : n <= m) - 1

\* One past the highest number there is.
NextOrder == IF Orders = {} THEN 1
             ELSE 1 + CHOOSE n \in Orders : \A m \in Orders : m <= n

First(R) == CHOOSE r \in R : \A q \in R : acl[r].order <= acl[q].order

SourceMatches(source, s) ==
  \/ source = AnySource
  \/ source = s
  \/ source \in DOMAIN zones /\ s \in zones[source]

\* evaluate: the first rule that is switched on and matches.
Matching(s, dir) ==
  {r \in Present : acl[r].on /\ acl[r].dir = dir /\ SourceMatches(acl[r].source, s)}

Verdict(s, dir) ==
  IF Matching(s, dir) = {} THEN "allow" ELSE acl[First(Matching(s, dir))].action

\* The "ip saddr" part of a rule's line; a zone that is unknown or has no
\* addresses gives 0.0.0.0/0, for which no such part is written.
Exported(source, s) ==
  \/ source = AnySource
  \/ source = s
  \/ source \in Zones /\ (source \in DOMAIN zones => s \in zones[source] \/ zones[source] = {})

\* What the script does to a packet for service v: it tells the services apart.
ExportedVerdict(s, dir, v) ==
  LET R == {r \in Present : /\ acl[r].on /\ acl[r].dir = dir
                            /\ Exported(acl[r].source, s) /\ v \in acl[r].services}
  IN  IF R = {} THEN "allow" ELSE acl[First(R)].action

-----------------------------------------------------------------------------
FirewallInit ==
  /\ acl = << >>
  /\ zones = SeedZones
  /\ edited = {} /\ renumbered = FALSE

\* Each change is made in memory and then written, persist.  A write that fails
\* leaves an emptied file, until the next one, and the change in memory.
RuleAdd(r, input) ==
  /\ r \notin Present
  /\ NextOrder <= MaxOrder
  /\ acl' = [q \in Present \union {r} |->
               IF q = r THEN WithNumber(NextOrder, input) ELSE acl[q]]
  /\ UNCHANGED <<zones, edited, renumbered>>

\* What a PATCH with some of these fields, or with the switch, makes of a rule.
Patched(rule, inputs) ==
  LET old == [on |-> rule.on, dir |-> rule.dir, action |-> rule.action,
              source |-> rule.source, services |-> rule.services]
  IN  inputs \union {old, [old EXCEPT !.on = ~@]}

\* A PATCH changes what it names, the number too; the page's switch names `on` only.
RuleUpdate(r, n, input) ==
  /\ r \in Present
  /\ acl' = [acl EXCEPT ![r] = WithNumber(n, input)]
  /\ edited' = edited \union ({acl[r].source} \intersect Sources)
  /\ renumbered' = (renumbered \/ n # acl[r].order)
  /\ UNCHANGED zones

RuleDelete(r) ==
  /\ r \in Present
  /\ acl' = [q \in Present \ {r} |-> acl[q]]
  /\ edited' = edited \union ({acl[r].source} \intersect Sources)
  /\ UNCHANGED <<zones, renumbered>>

\* The neighbour of r on the way up or down, if r is not the last one there: the nearest,
\* or any one of the nearest where numbers given by hand are the same.
Beyond(r, dir) ==
  {q \in Present : dir * acl[q].order > dir * acl[r].order}

NextTo(r, dir) ==
  {q \in Present \ {r} : /\ dir * acl[q].order >= dir * acl[r].order
                         /\ \A p \in Beyond(r, dir) : dir * acl[q].order <= dir * acl[p].order}

\* A bug to be caught: the rule changes places with the one at the end.
RuleReorderToEnd(r, dir) ==
  /\ r \in Present /\ Beyond(r, dir) # {}
  /\ LET q == CHOOSE q \in Beyond(r, dir) :
                \A p \in Beyond(r, dir) : dir * acl[p].order <= dir * acl[q].order
     IN  acl' = [acl EXCEPT ![r].order = acl[q].order, ![q].order = acl[r].order]
  /\ UNCHANGED <<zones, edited, renumbered>>

RuleReorder(r, dir) ==
  /\ r \in Present
  /\ \E q \in NextTo(r, dir) :
       acl' = [acl EXCEPT ![r].order = acl[q].order, ![q].order = acl[r].order]
  /\ UNCHANGED <<zones, edited, renumbered>>

ZoneAdd(z, addresses) ==
  /\ z \notin DOMAIN zones
  /\ \A r \in Present : acl[r].source # z      \* names are never used again
  /\ zones' = [y \in DOMAIN zones \union {z} |-> IF y = z THEN addresses ELSE zones[y]]
  /\ UNCHANGED <<acl, edited, renumbered>>

ZoneDelete(z) ==
  /\ z \in DOMAIN zones
  /\ zones' = [y \in DOMAIN zones \ {z} |-> zones[y]]
  /\ UNCHANGED <<acl, edited, renumbered>>

\* The next start reads the file, and seeds anew what does not parse: the last
\* write may have failed, or have been cut short by the end of the process.
FirewallRestart ==
  /\ edited' = {}
  /\ \/ UNCHANGED <<acl, zones, renumbered>>
     \/ acl' = << >> /\ zones' = SeedZones /\ renumbered' = FALSE

FirewallOperator(inputs) ==
  \/ \E r \in Rules :
       \/ \E input \in inputs : RuleAdd(r, input)
       \/ /\ r \in Present
          /\ \E n \in ByHand \union {acl[r].order}, input \in Patched(acl[r], inputs) : RuleUpdate(r, n, input)
       \/ RuleDelete(r)
       \/ \E dir \in {-1, 1} : RuleReorder(r, dir)
  \/ \E z \in Zones :
       \/ \E addresses \in SUBSET Sources : ZoneAdd(z, addresses)
       \/ ZoneDelete(z)
=============================================================================

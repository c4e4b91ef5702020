---------------------------- MODULE Response_proofs ----------------------------
(***************************************************************************)
(* What is proved of the detectors and their feed, of the policy firewall  *)
(* and what is answered to threats, and of the map of the network, for any *)
(* traffic, rules, zones, sources, devices and inputs of an operator.      *)
(***************************************************************************)
EXTENDS MCResponse, WellFoundedInduction, FiniteSetTheorems, SequenceTheorems, TLAPS

-----------------------------------------------------------------------------
(* Order numbers.                                                          *)

Precedes == {p \in Nat \X Nat : p[1] < p[2]}

LEMMA PrecedesWF == IsWellFoundedOn(Precedes, Nat)
BY NatLessThanWellFounded DEF OpToRel, Precedes

LEMMA NatMin ==
  ASSUME NEW T \in SUBSET Nat, T # {}
  PROVE  \E x \in T : \A y \in T : x <= y
<1>1. PICK x \in T : \A y \in T : ~(<<y, x>> \in Precedes)
  BY PrecedesWF, WFMin
<1>2. ASSUME NEW y \in T PROVE ~(y < x)
  <2>1. <<y, x>> \in Nat \X Nat
    OBVIOUS
  <2> QED BY <1>1, <2>1 DEF Precedes
<1> QED BY <1>2

\* Of numbers up to a bound one is the highest.
LEMMA NatMax ==
  ASSUME NEW b \in Nat, NEW T \in SUBSET (1 .. b), T # {}
  PROVE  \E x \in T : \A y \in T : y <= x
<1> DEFINE U == {b - y : y \in T}
<1>1. U \in SUBSET Nat /\ U # {}
  <2>1. \A y \in T : b - y \in Nat
    OBVIOUS
  <2> QED BY <2>1
<1> HIDE DEF U
<1>2. PICK u \in U : \A v \in U : u <= v
  BY <1>1, NatMin
<1>3. PICK x \in T : u = b - x
  BY DEF U
<1>4. ASSUME NEW y \in T PROVE y <= x
  <2>1. b - y \in U
    BY DEF U
  <2>2. b - x <= b - y /\ x \in 1 .. b /\ y \in 1 .. b
    BY <1>2, <1>3, <2>1
  <2> QED BY <2>2
<1> QED BY <1>4

\* A new rule comes after all there are.
LEMMA NextOrderIs ==
  ASSUME ResponseTypeOK
  PROVE  /\ NextOrder \in Nat \ {0}
         /\ \A r \in Present : acl[r].order < NextOrder
<1>1. Orders \in SUBSET (1 .. MaxOrder) /\ \A r \in Present : acl[r].order \in Orders
  BY DEF Orders, Present, ResponseTypeOK, Rule
<1>2. CASE Orders = {}
  BY <1>1, <1>2 DEF NextOrder
<1>3. CASE Orders # {}
  <2>1. \E x \in Orders : \A y \in Orders : y <= x
    <3>1. PICK T \in SUBSET (1 .. MaxOrder) : T = Orders
      BY <1>1
    <3> QED BY <1>3, <3>1, NatMax, FirewallAssumption
  <2> DEFINE top == CHOOSE n \in Orders : \A m \in Orders : m <= n
  <2>2. top \in Orders /\ \A m \in Orders : m <= top
    BY <2>1
  <2>3. NextOrder = 1 + top
    BY <1>3 DEF NextOrder
  <2> HIDE DEF top
  <2>4. top \in Nat /\ \A r \in Present : acl[r].order \in Nat /\ acl[r].order <= top
    <3>1. \A x \in Orders : x \in Nat
      BY <1>1, FirewallAssumption
    <3>2. \A r \in Present : acl[r].order \in Orders
      BY <1>1
    <3> QED BY <2>2, <3>1, <3>2
  <2> QED BY <2>3, <2>4
<1> QED BY <1>2, <1>3

\* Of some rules one is the first.
LEMMA FirstIs ==
  ASSUME ResponseTypeOK, NEW R \in SUBSET Present, R # {}
  PROVE  First(R) \in R /\ \A q \in R : acl[First(R)].order <= acl[q].order
<1> DEFINE T == {acl[r].order : r \in R}
<1>1. T \in SUBSET Nat /\ T # {}
  BY FirewallAssumption DEF Present, ResponseTypeOK, Rule
<1> HIDE DEF T
<1>2. PICK x \in T : \A y \in T : x <= y
  BY <1>1, NatMin
<1>3. \E r \in R : \A q \in R : acl[r].order <= acl[q].order
  BY <1>2 DEF T
<1> QED BY <1>3 DEF First

\* Where no numbers are the same, the neighbour of a rule is the nearest beyond it.
LEMMA NeighbourIs ==
  ASSUME ResponseTypeOK, NumbersDiffer, NEW r \in Rules, NEW dir \in {-1, 1}, r \in Present,
         NEW n \in NextTo(r, dir)
  PROVE  /\ n \in Present /\ n # r /\ n \in Beyond(r, dir)
         /\ \A p \in Beyond(r, dir) : dir * acl[n].order <= dir * acl[p].order
<1>1. /\ n \in Present /\ n # r /\ dir * acl[n].order >= dir * acl[r].order
      /\ \A p \in Beyond(r, dir) : dir * acl[n].order <= dir * acl[p].order
  BY DEF NextTo
<1>2. acl[n].order \in Int /\ acl[r].order \in Int
  BY <1>1, FirewallAssumption DEF ResponseTypeOK, Present, Rule
<1>3. \A x \in Int : IF dir = 1 THEN dir * x = x ELSE dir * x = -x
  BY Z3
<1>4. acl[n].order # acl[r].order
  BY <1>1 DEF NumbersDiffer, Present
<1>5. dir * acl[n].order > dir * acl[r].order
  BY <1>1, <1>2, <1>3, <1>4
<1> QED BY <1>1, <1>5 DEF Beyond

-----------------------------------------------------------------------------
(* The inductive invariant.                                                *)

\* zones and acl are functions, no two rules have the same number but by hand, what is listed as
\* blocked is blocked and what was handled is done.
ResponseInv ==
  /\ ResponseTypeOK
  /\ OrdersDistinct /\ BlocksStand /\ HandledStays

LEMMA InitResponse == ResponseInit => ResponseInv
<1> SUFFICES ASSUME ResponseInit PROVE ResponseInv
  OBVIOUS
<1>1. DOMAIN acl = {}
  BY DEF ResponseInit, FirewallInit
<1>2. ResponseTypeOK
  BY <1>1, FirewallAssumption DEF ResponseInit, FirewallInit, ResponseTypeOK
<1> QED BY <1>1, <1>2 DEF ResponseInit, ResponseInv, OrdersDistinct, NumbersDiffer, BlocksStand, HandledStays

\* The rules of ResponseTypeOK.
RulesOK(f) == DOMAIN f \subseteq Rules /\ \A r \in DOMAIN f : f[r] \in Rule

\* What an input with a number makes is a rule.
LEMMA WithNumberIs ==
  ASSUME NEW n \in 1 .. MaxOrder, NEW input \in RuleInput
  PROVE  LET v == WithNumber(n, input)
         IN  /\ v \in Rule /\ v.order = n /\ v.on = input.on /\ v.dir = input.dir
             /\ v.action = input.action /\ v.source = input.source
             /\ v.services = input.services
BY DEF WithNumber, Rule, RuleInput

\* A rule is added at the end, and the others stay as they are.
LEMMA AddIs ==
  ASSUME ResponseTypeOK, NEW r \in Rules, NEW input \in RuleInput, RuleAdd(r, input)
  PROVE  /\ RulesOK(acl') /\ DOMAIN acl' = Present \union {r} /\ r \notin Present
         /\ \A q \in Present : acl'[q] = acl[q] /\ acl[q].order < acl'[r].order
         /\ acl'[r].on = input.on /\ acl'[r].dir = input.dir /\ acl'[r].action = input.action
         /\ acl'[r].source = input.source /\ acl'[r].services = input.services
         /\ NumbersDiffer => NumbersDiffer'
         /\ UNCHANGED <<zones, edited, renumbered>>
<1> DEFINE new == WithNumber(NextOrder, input)
<1>1. NextOrder \in 1 .. MaxOrder /\ \A q \in Present : acl[q].order < NextOrder
  BY NextOrderIs, FirewallAssumption DEF RuleAdd
<1>2. /\ new \in Rule /\ new.order = NextOrder /\ new.on = input.on /\ new.dir = input.dir
      /\ new.action = input.action /\ new.source = input.source /\ new.services = input.services
  BY <1>1, WithNumberIs
<1>3. /\ acl' = [q \in Present \union {r} |-> IF q = r THEN new ELSE acl[q]]
      /\ r \notin Present /\ UNCHANGED <<zones, edited, renumbered>>
  BY DEF RuleAdd
<1> HIDE DEF new
<1>4. /\ DOMAIN acl' = Present \union {r} /\ acl'[r] = new /\ \A q \in Present : acl'[q] = acl[q]
  BY <1>3
<1>5. RulesOK(acl')
  BY <1>2, <1>4 DEF RulesOK, Present, ResponseTypeOK
<1>6. \A q \in Present : acl[q].order \in Nat
  BY FirewallAssumption DEF ResponseTypeOK, Present, Rule
<1>7. NumbersDiffer => NumbersDiffer'
  BY <1>1, <1>2, <1>4, <1>6 DEF NumbersDiffer, Present
<1> QED BY <1>1, <1>2, <1>3, <1>4, <1>5, <1>7

\* The blocks that stood before a rule was added stand, and so does the new one.
LEMMA AddStands ==
  ASSUME ResponseTypeOK, NEW r \in Rules, NEW input \in RuleInput, RuleAdd(r, input)
  PROVE  /\ \A s \in Sources : Standing(s) => Standing(s)'
         /\ \A s \in Sources : input = Block(s) => Standing(s)'
<1>1. ASSUME NEW s \in Sources, Standing(s) PROVE Standing(s)'
  <2>1. PICK q \in DOMAIN acl : /\ acl[q].on /\ acl[q].dir = "inbound"
                                /\ acl[q].action = "drop" /\ acl[q].source = s
                                /\ acl[q].services = Services
    BY <1>1 DEF Standing
  <2>2. q \in DOMAIN acl' /\ acl'[q] = acl[q]
    BY <2>1, AddIs DEF Present
  <2> QED BY <2>1, <2>2 DEF Standing
<1>2. ASSUME NEW s \in Sources, input = Block(s) PROVE Standing(s)'
  <2>1. r \in DOMAIN acl' /\ acl'[r].on /\ acl'[r].dir = "inbound"
        /\ acl'[r].action = "drop" /\ acl'[r].source = s /\ acl'[r].services = Services
    BY <1>2, AddIs DEF Block
  <2> QED BY <2>1 DEF Standing
<1> QED BY <1>1, <1>2

LEMMA BlockIsInput == \A s \in Sources : Block(s) \in RuleInput
BY FirewallAssumption DEF Block, RuleInput, Directions, Actions, Matchers, ForServices

-----------------------------------------------------------------------------
(* The operator.                                                           *)

\* A rule with another number is a rule.
LEMMA Renumbered ==
  ASSUME NEW x \in Rule, NEW k \in 1 .. MaxOrder
  PROVE  LET v == [x EXCEPT !.order = k]
         IN  /\ v \in Rule /\ v.order = k /\ v.on = x.on /\ v.dir = x.dir
             /\ v.action = x.action /\ v.source = x.source /\ v.services = x.services
BY DEF Rule

\* A patch is an input.
LEMMA PatchIsInput ==
  ASSUME NEW x \in Rule, NEW input \in Patched(x, RuleInput)
  PROVE  input \in RuleInput
<1> DEFINE old == [on |-> x.on, dir |-> x.dir, action |-> x.action,
                   source |-> x.source, services |-> x.services]
<1>1. old \in RuleInput /\ [old EXCEPT !.on = ~@] \in RuleInput
  BY DEF Rule, RuleInput
<1> QED BY <1>1 DEF Patched

\* What is done to the rules by hand keeps their order and, but for what is edited,
\* the blocks.
LEMMA OperatorStep ==
  ASSUME ResponseInv, FirewallOperator(RuleInput)
  PROVE  /\ RulesOK(acl') /\ OrdersDistinct' /\ renumbered' \in BOOLEAN
         /\ edited \subseteq edited' /\ edited' \subseteq Sources
         /\ DOMAIN zones' \subseteq Zones /\ \A z \in DOMAIN zones' : zones'[z] \subseteq Sources
         /\ \A s \in Sources : Standing(s) => Standing(s)' \/ s \in edited'
<1> USE DEF ResponseInv
<1>1. ASSUME NEW r \in Rules, NEW input \in RuleInput, RuleAdd(r, input)
      PROVE  /\ RulesOK(acl') /\ OrdersDistinct' /\ UNCHANGED <<zones, edited, renumbered>>
             /\ \A s \in Sources : Standing(s) => Standing(s)'
  BY <1>1, AddIs, AddStands DEF OrdersDistinct
<1>2. ASSUME NEW r \in Rules, r \in Present, NEW n \in 1 .. MaxOrder, NEW input \in RuleInput,
             RuleUpdate(r, n, input)
      PROVE  /\ RulesOK(acl') /\ OrdersDistinct' /\ renumbered' \in BOOLEAN /\ UNCHANGED zones
             /\ edited \subseteq edited' /\ edited' \subseteq Sources
             /\ \A s \in Sources : Standing(s) => Standing(s)' \/ s \in edited'
  <2> DEFINE new == WithNumber(n, input)
  <2>1. /\ acl' = [acl EXCEPT ![r] = new] /\ UNCHANGED zones
        /\ edited' = edited \union ({acl[r].source} \intersect Sources)
        /\ renumbered' = (renumbered \/ n # acl[r].order)
    BY <1>2 DEF RuleUpdate
  <2>2. new \in Rule /\ new.order = n
    BY WithNumberIs
  <2> HIDE DEF new
  <2>3. /\ DOMAIN acl' = DOMAIN acl /\ acl'[r] = new
        /\ \A q \in DOMAIN acl : q # r => acl'[q] = acl[q]
    BY <1>2, <2>1 DEF Present
  <2>4. RulesOK(acl') /\ OrdersDistinct'
    <3>1. RulesOK(acl')
      BY <2>1, <2>2, <2>3 DEF RulesOK, ResponseTypeOK
    <3>2. CASE renumbered'
      BY <3>1, <3>2 DEF OrdersDistinct
    <3>3. CASE ~renumbered'
      <4>1. ~renumbered /\ new.order = acl[r].order
        BY <2>1, <2>2, <3>3
      <4> QED BY <1>2, <2>3, <3>1, <4>1 DEF OrdersDistinct, NumbersDiffer, Present
    <3> QED BY <3>2, <3>3
  <2>5. \A s \in Sources : Standing(s) => Standing(s)' \/ s \in edited'
    BY <2>1, <2>3 DEF Standing
  <2> QED BY <2>1, <2>4, <2>5 DEF ResponseTypeOK
<1>3. ASSUME NEW r \in Rules, RuleDelete(r)
      PROVE  /\ RulesOK(acl') /\ OrdersDistinct' /\ UNCHANGED <<zones, renumbered>>
             /\ edited \subseteq edited' /\ edited' \subseteq Sources
             /\ \A s \in Sources : Standing(s) => Standing(s)' \/ s \in edited'
  <2>1. /\ r \in Present /\ acl' = [q \in Present \ {r} |-> acl[q]]
        /\ UNCHANGED <<zones, renumbered>>
        /\ edited' = edited \union ({acl[r].source} \intersect Sources)
    BY <1>3 DEF RuleDelete
  <2>2. DOMAIN acl' = DOMAIN acl \ {r} /\ \A q \in DOMAIN acl' : acl'[q] = acl[q]
    BY <2>1 DEF Present
  <2>3. RulesOK(acl') /\ OrdersDistinct'
    BY <2>1, <2>2 DEF RulesOK, OrdersDistinct, NumbersDiffer, ResponseTypeOK
  <2>4. \A s \in Sources : Standing(s) => Standing(s)' \/ s \in edited'
    BY <2>1, <2>2 DEF Standing
  <2> QED BY <2>1, <2>3, <2>4 DEF ResponseTypeOK
<1>4. ASSUME NEW r \in Rules, NEW dir \in {-1, 1}, RuleReorder(r, dir)
      PROVE  /\ RulesOK(acl') /\ OrdersDistinct' /\ UNCHANGED <<zones, edited, renumbered>>
             /\ \A s \in Sources : Standing(s) => Standing(s)'
  <2>1. /\ r \in Present /\ UNCHANGED <<zones, edited, renumbered>>
        /\ \E q \in NextTo(r, dir) :
             acl' = [acl EXCEPT ![r].order = acl[q].order, ![q].order = acl[r].order]
    BY <1>4 DEF RuleReorder
  <2>a. PICK n \in NextTo(r, dir) :
          acl' = [acl EXCEPT ![r].order = acl[n].order, ![n].order = acl[r].order]
    BY <2>1
  <2>2. n \in Present /\ n # r
    BY DEF NextTo
  <2>3. /\ DOMAIN acl' = DOMAIN acl
        /\ \A q \in DOMAIN acl :
             /\ acl'[q] \in Rule /\ acl'[q].on = acl[q].on /\ acl'[q].dir = acl[q].dir
             /\ acl'[q].action = acl[q].action /\ acl'[q].source = acl[q].source
             /\ acl'[q].services = acl[q].services
             /\ acl'[q].order = IF q = r THEN acl[n].order ELSE IF q = n THEN acl[r].order ELSE acl[q].order
    <3>1. \A q \in Present : acl[q] \in Rule
      BY DEF ResponseTypeOK, Present
    <3>2. acl[n].order \in 1 .. MaxOrder /\ acl[r].order \in 1 .. MaxOrder
      BY <2>1, <2>2, <3>1 DEF Rule
    <3> DEFINE vr == [acl[r] EXCEPT !.order = acl[n].order]
               vn == [acl[n] EXCEPT !.order = acl[r].order]
    <3>3. /\ vr \in Rule /\ vr.order = acl[n].order /\ vr.on = acl[r].on /\ vr.dir = acl[r].dir
          /\ vr.action = acl[r].action /\ vr.source = acl[r].source /\ vr.services = acl[r].services
      BY <2>1, <3>1, <3>2, Renumbered
    <3>4. /\ vn \in Rule /\ vn.order = acl[r].order /\ vn.on = acl[n].on /\ vn.dir = acl[n].dir
          /\ vn.action = acl[n].action /\ vn.source = acl[n].source /\ vn.services = acl[n].services
      BY <2>2, <3>1, <3>2, Renumbered
    <3>5. acl' = [acl EXCEPT ![r] = vr, ![n] = vn]
      BY <2>a, <2>1, <2>2 DEF Present
    <3> HIDE DEF vr, vn
    <3>6. /\ DOMAIN acl' = DOMAIN acl /\ acl'[r] = vr /\ acl'[n] = vn
          /\ \A q \in DOMAIN acl : q # r /\ q # n => acl'[q] = acl[q]
      BY <2>1, <2>2, <3>5 DEF Present
    <3> QED BY <2>2, <3>1, <3>3, <3>4, <3>6 DEF Present
  <2>4. RulesOK(acl') /\ OrdersDistinct'
    BY <2>1, <2>2, <2>3 DEF RulesOK, OrdersDistinct, NumbersDiffer, ResponseTypeOK, Present
  <2>5. \A s \in Sources : Standing(s) => Standing(s)'
    BY <2>3 DEF Standing
  <2> QED BY <2>1, <2>4, <2>5
<1>5. ASSUME NEW z \in Zones, NEW addresses \in SUBSET Sources, ZoneAdd(z, addresses)
      PROVE  /\ UNCHANGED <<acl, edited, renumbered>> /\ DOMAIN zones' \subseteq Zones
             /\ \A y \in DOMAIN zones' : zones'[y] \subseteq Sources
  BY <1>5 DEF ZoneAdd, ResponseTypeOK
<1>6. ASSUME NEW z \in Zones, ZoneDelete(z)
      PROVE  /\ UNCHANGED <<acl, edited, renumbered>> /\ DOMAIN zones' \subseteq Zones
             /\ \A y \in DOMAIN zones' : zones'[y] \subseteq Sources
  BY <1>6 DEF ZoneDelete, ResponseTypeOK
<1>7. RulesOK(acl) /\ edited \subseteq Sources /\ renumbered \in BOOLEAN
  BY DEF RulesOK, ResponseTypeOK
<1>8. UNCHANGED <<acl, edited, renumbered>> =>
        RulesOK(acl') /\ OrdersDistinct' /\ \A s \in Sources : Standing(s) => Standing(s)'
  BY <1>7 DEF OrdersDistinct, NumbersDiffer, Standing
<1>9. UNCHANGED zones => DOMAIN zones' \subseteq Zones /\ \A z \in DOMAIN zones' : zones'[z] \subseteq Sources
  BY DEF ResponseTypeOK
<1>10. ASSUME NEW r \in Rules, r \in Present, NEW n \in ByHand \union {acl[r].order},
              NEW input \in Patched(acl[r], RuleInput)
       PROVE  n \in 1 .. MaxOrder /\ input \in RuleInput
  <2>1. acl[r] \in Rule
    BY <1>10 DEF ResponseTypeOK, Present
  <2> QED BY <2>1, PatchIsInput, FirewallAssumption DEF Rule
<1> QED BY <1>1, <1>2, <1>3, <1>4, <1>5, <1>6, <1>7, <1>8, <1>9, <1>10 DEF FirewallOperator

-----------------------------------------------------------------------------
(* Every step.                                                             *)

\* What a detection or a remediation does to the rules: nothing, or a block is added.
Blocking(s) == \E r \in Rules : RuleAdd(r, Block(s))

LEMMA BlockingIs ==
  ASSUME ResponseInv, NEW s \in Sources, Blocking(s)
  PROVE  /\ RulesOK(acl') /\ OrdersDistinct' /\ UNCHANGED <<zones, edited, renumbered>> /\ Standing(s)'
         /\ \A x \in Sources : Standing(x) => Standing(x)'
<1>1. PICK r \in Rules : RuleAdd(r, Block(s))
  BY DEF Blocking
<1>2. PICK input \in RuleInput : input = Block(s)
  BY BlockIsInput
<1> QED BY <1>1, <1>2, AddIs, AddStands DEF ResponseInv, OrdersDistinct

LEMMA DetectKeeps ==
  ASSUME ResponseInv, NEW s \in Sources, Detect(s)
  PROVE  ResponseInv'
<1> USE DEF ResponseInv
<1>1. PICK blockable, offender \in BOOLEAN : MaybeRespond(s, blockable) /\ RecordThreat(s, offender)
  BY DEF Detect
<1>2. UNCHANGED <<responding, dismissed, applied>>
  BY DEF Detect
<1>3. pending' \subseteq Sources /\ pending' \intersect (dismissed \union applied) = {}
  BY <1>1 DEF RecordThreat, HandledStays, ResponseTypeOK
<1>4. CASE Blocking(s) /\ blocked' = blocked \union {s}
  BY <1>2, <1>3, <1>4, BlockingIs DEF ResponseTypeOK, RulesOK, BlocksStand, HandledStays
<1>5. CASE UNCHANGED <<firewallVars, blocked>>
  BY <1>2, <1>3, <1>5 DEF firewallVars, ResponseTypeOK, OrdersDistinct, NumbersDiffer, BlocksStand,
       HandledStays, Standing
<1> QED BY <1>1, <1>4, <1>5 DEF MaybeRespond, Blocking

LEMMA ApplyKeeps ==
  ASSUME ResponseInv, NEW s \in Sources, Apply(s)
  PROVE  ResponseInv'
<1> USE DEF ResponseInv
<1>1. Blocking(s) /\ UNCHANGED <<responding, blocked, dismissed>> /\ s \notin dismissed
  BY DEF Apply, Offered, Blocking
<1>2. \/ UNCHANGED <<applied, pending>>
      \/ applied' = applied \union {s} /\ pending' = pending \ {s}
  BY DEF Apply
<1> QED BY <1>1, <1>2, BlockingIs DEF ResponseTypeOK, RulesOK, BlocksStand, HandledStays

LEMMA ResponseStays == ResponseInv /\ [ResponseNext(RuleInput)]_vars => ResponseInv'
<1> SUFFICES ASSUME ResponseInv, [ResponseNext(RuleInput)]_vars PROVE ResponseInv'
  OBVIOUS
<1> USE DEF ResponseInv
<1>1. CASE UNCHANGED firewallVars
           /\ blocked' \union applied' \subseteq blocked \union applied
           /\ pending' \intersect (dismissed' \union applied') = {}
           /\ responding' \in BOOLEAN /\ pending' \subseteq Sources /\ dismissed' \subseteq Sources
  BY <1>1 DEF firewallVars, ResponseTypeOK, OrdersDistinct, NumbersDiffer, BlocksStand,
       HandledStays, Standing
<1>2. CASE FirewallOperator(RuleInput) /\ UNCHANGED responseVars
  BY <1>2, OperatorStep DEF responseVars, ResponseTypeOK, RulesOK, BlocksStand, HandledStays
<1>3. ASSUME NEW s \in Sources, Expires(s) PROVE ResponseInv'
  BY <1>1, <1>3 DEF Expires, ResponseTypeOK, HandledStays
<1>4. ASSUME NEW s \in Sources, Dismiss(s) PROVE ResponseInv'
  BY <1>1, <1>4 DEF Dismiss, ResponseTypeOK, HandledStays
<1>5. CASE SetActiveResponse
  BY <1>1, <1>5 DEF SetActiveResponse, ResponseTypeOK, HandledStays
<1>6. CASE Killed
  <2>1. /\ edited' = {} /\ responding' = FALSE /\ blocked' = {} /\ pending' = {}
        /\ dismissed' = {} /\ applied' = {}
        /\ UNCHANGED <<acl, zones, renumbered>>
             \/ (acl' = << >> /\ zones' = SeedZones /\ renumbered' = FALSE)
    BY <1>6 DEF Killed, FirewallRestart
  <2>2. ResponseTypeOK' /\ OrdersDistinct'
    <3>1. CASE UNCHANGED <<acl, zones, renumbered>>
      BY <2>1, <3>1 DEF ResponseTypeOK, OrdersDistinct, NumbersDiffer
    <3>2. CASE acl' = << >> /\ zones' = SeedZones /\ renumbered' = FALSE
      <4>1. DOMAIN acl' = {}
        BY <3>2
      <4> QED BY <2>1, <3>2, <4>1, FirewallAssumption DEF ResponseTypeOK, OrdersDistinct, NumbersDiffer
    <3> QED BY <2>1, <3>1, <3>2
  <2> QED BY <2>1, <2>2 DEF BlocksStand, HandledStays
<1>7. CASE UNCHANGED vars
  BY <1>1, <1>7 DEF vars, responseVars, ResponseTypeOK, HandledStays
<1> QED BY <1>2, <1>3, <1>4, <1>5, <1>6, <1>7, DetectKeeps, ApplyKeeps DEF ResponseNext, ApplyMany

-----------------------------------------------------------------------------
(* The theorems.                                                           *)

\* The rules have one order, whatever rules are added, moved, edited and deleted, until a number
\* is given by hand; and the script that is exported does to a packet what evaluate says of its
\* source, where the rule that evaluate goes by is for such packets.
THEOREM PolicyIsOrdered == ResponseSpec => []PolicyOrdered
<1>1. ResponseTypeOK => ExportAgrees
  <2> SUFFICES ASSUME ResponseTypeOK, NumbersDiffer,
                      \A r \in DOMAIN acl : acl[r].source \in Zones =>
                        acl[r].source \in DOMAIN zones /\ zones[acl[r].source] # {},
                      NEW s \in Sources, NEW dir \in Directions, NEW v \in Services,
                      Matching(s, dir) # {} => v \in acl[First(Matching(s, dir))].services
               PROVE  ExportedVerdict(s, dir, v) = Verdict(s, dir)
    BY DEF ExportAgrees
  <2> DEFINE E == {r \in Present : /\ acl[r].on /\ acl[r].dir = dir
                                   /\ Exported(acl[r].source, s) /\ v \in acl[r].services}
  <2>1. \A r \in Present : Exported(acl[r].source, s) <=> SourceMatches(acl[r].source, s)
    BY FirewallAssumption DEF Present, ResponseTypeOK, Rule, Exported, SourceMatches, Matchers
  <2>2. E = {r \in Matching(s, dir) : v \in acl[r].services}
    BY <2>1 DEF Matching
  <2>3. ExportedVerdict(s, dir, v) = IF E = {} THEN "allow" ELSE acl[First(E)].action
    BY DEF ExportedVerdict
  <2>4. PICK M \in SUBSET Present : M = Matching(s, dir)
    BY DEF Matching
  <2> HIDE DEF E
  <2>5. CASE M = {}
    BY <2>2, <2>3, <2>4, <2>5 DEF Verdict
  <2>6. CASE M # {}
    <3>1. First(M) \in M /\ \A q \in M : acl[First(M)].order <= acl[q].order
      BY <2>6, FirstIs
    <3>2. E \in SUBSET Present /\ First(M) \in E /\ E \subseteq M
      BY <2>2, <2>4, <2>6, <3>1
    <3>3. First(E) \in E /\ \A q \in E : acl[First(E)].order <= acl[q].order
      BY <3>2, FirstIs
    <3>4. acl[First(E)].order \in Int /\ acl[First(M)].order \in Int
      BY <3>2, <3>3, FirewallAssumption DEF ResponseTypeOK, Present, Rule
    <3>5. acl[First(E)].order = acl[First(M)].order
      BY <3>1, <3>2, <3>3, <3>4
    <3>6. First(E) = First(M)
      BY <3>2, <3>3, <3>5 DEF NumbersDiffer, Present
    <3> QED BY <2>3, <2>4, <2>6, <3>2, <3>6 DEF Verdict
  <2> QED BY <2>5, <2>6
<1>2. ResponseInv => PolicyOrdered
  BY <1>1 DEF ResponseInv, PolicyOrdered
<1> QED BY <1>2, InitResponse, ResponseStays, PTL DEF ResponseSpec

\* A source that is shown as blocked is blocked unless the operator edited its rules, and
\* what was applied or dismissed is not pending, through failed writes and restarts.
THEOREM ThreatsAreHandled == ResponseSpec => []ThreatsHandled
<1>1. ResponseInv => ThreatsHandled
  BY DEF ResponseInv, ThreatsHandled
<1> QED BY <1>1, InitResponse, ResponseStays, PTL DEF ResponseSpec

\* When a rule is added at the end, what decided before decides now.
LEMMA AddDecides ==
  ASSUME ResponseInv, NumbersDiffer, NEW r \in Rules, NEW input \in RuleInput, RuleAdd(r, input),
         NEW s \in Sources, NEW dir \in Directions, Matching(s, dir) # {}
  PROVE  Verdict(s, dir)' = Verdict(s, dir)
<1>1. PICK M \in SUBSET Present : M = Matching(s, dir)
  BY DEF Matching
<1>2. PICK f \in M : f = First(M) /\ \A q \in M : acl[f].order <= acl[q].order
  BY <1>1, FirstIs DEF ResponseInv
<1>3. Verdict(s, dir) = acl[f].action
  BY <1>1, <1>2 DEF Verdict
<1> DEFINE N == Matching(s, dir)'
<1>4. N \subseteq M \union {r} /\ M \subseteq N /\ N \subseteq DOMAIN acl'
  <2>1. /\ DOMAIN acl' = Present \union {r} /\ UNCHANGED zones
        /\ \A q \in Present : acl'[q] = acl[q]
    BY AddIs DEF ResponseInv
  <2>2. N \subseteq DOMAIN acl'
    BY DEF Matching, Present
  <2>3. \A q \in Present : q \in N <=> q \in M
    BY <1>1, <2>1 DEF Matching, SourceMatches, Present
  <2> QED BY <2>1, <2>2, <2>3
<1>5. /\ \A q \in M : acl'[q].order = acl[q].order /\ acl[q].order < acl'[r].order
      /\ acl'[f].action = acl[f].action
      /\ \A q \in DOMAIN acl' : acl'[q].order \in Nat
  <2>1. \A q \in M : acl'[q] = acl[q] /\ acl[q].order < acl'[r].order
    BY AddIs DEF ResponseInv
  <2>2. \A q \in DOMAIN acl' : acl'[q] \in Rule
    BY AddIs DEF ResponseInv, RulesOK
  <2> QED BY <2>1, <2>2, FirewallAssumption DEF Rule
<1> HIDE DEF N
<1>6. f \in N /\ \A q \in N : acl'[f].order <= acl'[q].order
  BY <1>1, <1>2, <1>4, <1>5
<1>7. ASSUME NEW g \in N, \A q \in N : acl'[g].order <= acl'[q].order
      PROVE  g = f
  <2>1. acl'[g].order = acl'[f].order
    BY <1>4, <1>5, <1>6, <1>7
  <2> QED BY <1>4, <1>6, <2>1, AddIs DEF ResponseInv, NumbersDiffer
<1>8. (CHOOSE g \in N : \A q \in N : acl'[g].order <= acl'[q].order) = f
  BY <1>6, <1>7
<1>9. Verdict(s, dir)' = acl'[f].action
  BY <1>6, <1>8 DEF Verdict, First, N
<1> QED BY <1>3, <1>5, <1>9

\* A rule that is added decides only where no rule decided before.
THEOREM AddedIsLast == ResponseSpec => AddedDecidesTheRest
<1> DEFINE Decided == NumbersDiffer /\ DOMAIN acl \subseteq DOMAIN acl' /\ DOMAIN acl # DOMAIN acl' =>
                        \A s \in Sources, dir \in Directions :
                          Matching(s, dir) # {} => Verdict(s, dir)' = Verdict(s, dir)
<1>1. ResponseInv /\ [ResponseNext(RuleInput)]_vars => Decided
  <2> SUFFICES ASSUME ResponseInv, [ResponseNext(RuleInput)]_vars, NumbersDiffer,
                      DOMAIN acl \subseteq DOMAIN acl', DOMAIN acl # DOMAIN acl'
               PROVE  \E r \in Rules, input \in RuleInput : RuleAdd(r, input)
    BY AddDecides
  <2>1. CASE FirewallOperator(RuleInput)
    BY <2>1 DEF FirewallOperator, RuleUpdate, RuleDelete, RuleReorder, ZoneAdd, ZoneDelete, Present
  <2>2. ASSUME NEW s \in Sources, Blocking(s)
        PROVE  \E r \in Rules, input \in RuleInput : RuleAdd(r, input)
    BY <2>2, BlockIsInput DEF Blocking
  <2>3. CASE Killed
    <3>1. acl' = << >> \/ acl' = acl
      BY <2>3, Zenon DEF Killed, FirewallRestart
    <3>2. DOMAIN << >> = {}
      OBVIOUS
    <3> QED BY <3>1, <3>2
  <2>4. acl' # acl
    OBVIOUS
  <2>5. ASSUME NEW s \in Sources, Detect(s) \/ Expires(s) \/ Apply(s) \/ ApplyMany(s) \/ Dismiss(s)
        PROVE  Blocking(s)
    <3>1. ~Expires(s) /\ ~Dismiss(s)
      BY <2>4 DEF Expires, Dismiss, firewallVars
    <3>2. Apply(s) \/ ApplyMany(s) => Blocking(s)
      BY DEF Apply, ApplyMany, Blocking
    <3>3. ASSUME NEW b \in BOOLEAN, MaybeRespond(s, b) PROVE Blocking(s)
      BY <2>4, <3>3 DEF MaybeRespond, Blocking, firewallVars
    <3>4. Detect(s) => Blocking(s)
      BY <3>3 DEF Detect
    <3> QED BY <2>5, <3>1, <3>2, <3>4
  <2>6. ~SetActiveResponse /\ ~UNCHANGED vars
    BY <2>4 DEF SetActiveResponse, vars, firewallVars
  <2> QED BY <2>1, <2>2, <2>3, <2>5, <2>6 DEF ResponseNext
<1>2. ResponseSpec => [][Decided]_vars
  BY <1>1, InitResponse, ResponseStays, PTL DEF ResponseSpec
<1> QED BY <1>2 DEF AddedDecidesTheRest

-----------------------------------------------------------------------------
(* The rules are a list.                                                   *)

\* The rules of f in the order of their numbers.
InOrder(s, m, f) ==
  /\ m \in Nat /\ s \in [1 .. m -> DOMAIN f]
  /\ \A r \in DOMAIN f : \E n \in 1 .. m : s[n] = r
  /\ \A i, j \in 1 .. m : i < j => f[s[i]].order < f[s[j]].order

Numbered(f) == \A r \in DOMAIN f : f[r].order \in Nat

Before(f, r) == {q \in DOMAIN f : f[q].order < f[r].order}
NthOf(f, n) == CHOOSE r \in DOMAIN f : Cardinality(Before(f, r)) = n - 1
Text(f, r) == <<r, f[r].on, f[r].dir, f[r].action, f[r].source, f[r].services>>

LEMMA OrderOnto ==
  ASSUME NEW s, NEW m, NEW f, InOrder(s, m, f), Numbered(f), NEW i \in 1 .. m, NEW j \in 1 .. m
  PROVE  /\ i < j <=> f[s[i]].order < f[s[j]].order
         /\ s[i] = s[j] => i = j
<1>1. /\ m \in Nat /\ f[s[i]].order \in Nat /\ f[s[j]].order \in Nat
      /\ i < j => f[s[i]].order < f[s[j]].order
      /\ j < i => f[s[j]].order < f[s[i]].order
  BY DEF InOrder, Numbered
<1> QED BY <1>1

\* The n-th rule has n - 1 before it.
LEMMA PrefixCounts ==
  ASSUME NEW s, NEW m, NEW f, InOrder(s, m, f), Numbered(f), NEW n \in 1 .. m + 1
  PROVE  Cardinality({s[i] : i \in 1 .. n - 1}) = n - 1
<1> DEFINE T == {s[i] : i \in 1 .. n - 1}
           g == [i \in 1 .. n - 1 |-> s[i]]
<1>1. m \in Nat /\ n - 1 \in Nat /\ \A i \in 1 .. n - 1 : i \in 1 .. m
  BY DEF InOrder
<1>2. IsFiniteSet(1 .. n - 1) /\ Cardinality(1 .. n - 1) = n - 1
  BY <1>1, FS_Interval
<1>3. g \in Bijection(1 .. n - 1, T)
  <2>1. g \in [1 .. n - 1 -> T] /\ \A t \in T : \E i \in 1 .. n - 1 : g[i] = t
    OBVIOUS
  <2>2. \A i, j \in 1 .. n - 1 : g[i] = g[j] => i = j
    BY <1>1, OrderOnto
  <2> QED BY <2>1, <2>2 DEF Bijection, Injection, Surjection, IsInjective
<1>4. ExistsBijection(1 .. n - 1, T)
  BY <1>3 DEF ExistsBijection
<1> HIDE DEF T
<1>5. Cardinality(T) = n - 1
  BY <1>2, <1>4, FS_Bijection
<1> QED BY <1>5 DEF T

\* So the order alone tells which rule is the n-th.
LEMMA InOrderIs ==
  ASSUME NEW s, NEW m, NEW f, InOrder(s, m, f), Numbered(f)
  PROVE  Cardinality(DOMAIN f) = m /\ \A n \in 1 .. m : NthOf(f, n) = s[n]
<1>1. m \in Nat /\ m + 1 \in 1 .. m + 1 /\ (m + 1) - 1 = m
  BY DEF InOrder
<1>2. DOMAIN f = {s[i] : i \in 1 .. m}
  BY DEF InOrder
<1>3. Cardinality({s[i] : i \in 1 .. (m + 1) - 1}) = (m + 1) - 1
  BY <1>1, PrefixCounts
<1>4. Cardinality(DOMAIN f) = m
  BY <1>1, <1>2, <1>3
<1>5. ASSUME NEW n \in 1 .. m PROVE Cardinality(Before(f, s[n])) = n - 1
  <2>1. Before(f, s[n]) = {s[i] : i \in 1 .. n - 1}
    <3>1. ASSUME NEW q \in Before(f, s[n]) PROVE q \in {s[i] : i \in 1 .. n - 1}
      <4>1. PICK k \in 1 .. m : s[k] = q
        BY DEF Before, InOrder
      <4>2. k < n
        BY <4>1, OrderOnto DEF Before
      <4>3. k \in 1 .. n - 1
        BY <1>1, <4>2
      <4> QED BY <4>1, <4>3
    <3>2. ASSUME NEW i \in 1 .. n - 1 PROVE s[i] \in Before(f, s[n])
      <4>1. i \in 1 .. m /\ i < n
        BY <1>1
      <4>2. s[i] \in DOMAIN f
        BY <4>1 DEF InOrder
      <4>3. f[s[i]].order < f[s[n]].order
        BY <4>1, OrderOnto
      <4> QED BY <4>2, <4>3 DEF Before
    <3> QED BY <3>1, <3>2
  <2>2. n \in 1 .. m + 1
    BY <1>1
  <2> QED BY <2>1, <2>2, PrefixCounts
<1>6. ASSUME NEW n \in 1 .. m PROVE NthOf(f, n) = s[n]
  <2>1. s[n] \in DOMAIN f /\ Cardinality(Before(f, s[n])) = n - 1
    BY <1>5 DEF InOrder
  <2>2. ASSUME NEW r \in DOMAIN f, Cardinality(Before(f, r)) = n - 1 PROVE r = s[n]
    <3>1. PICK k \in 1 .. m : s[k] = r
      BY DEF InOrder
    <3>2. Cardinality(Before(f, s[k])) = k - 1
      BY <1>5
    <3>3. k = n
      BY <2>2, <3>1, <3>2
    <3> QED BY <3>1, <3>3
  <2> QED BY <2>1, <2>2 DEF NthOf
<1> QED BY <1>4, <1>6

\* The list that f stands for.
Lines == Rules \X BOOLEAN \X Directions \X Actions \X Matchers \X ForServices
ListOf(f) == [n \in 1 .. Cardinality(DOMAIN f) |-> Text(f, NthOf(f, n))]
ReadsAs(l, s, m, f) == l \in Seq(Lines) /\ Len(l) = m /\ \A n \in 1 .. m : l[n] = Text(f, s[n])

LEMMA ListIs ==
  ASSUME NEW s, NEW m, NEW f, InOrder(s, m, f), RulesOK(f)
  PROVE  ReadsAs(ListOf(f), s, m, f) /\ Numbered(f)
<1>1. Numbered(f)
  BY FirewallAssumption DEF Numbered, RulesOK, Rule
<1>2. Cardinality(DOMAIN f) = m /\ \A n \in 1 .. m : NthOf(f, n) = s[n]
  BY <1>1, InOrderIs
<1>3. m \in Nat /\ \A n \in 1 .. m : s[n] \in DOMAIN f
  BY DEF InOrder
<1>4. \A r \in DOMAIN f : Text(f, r) \in Lines
  BY DEF RulesOK, Rule, Text, Lines
<1> DEFINE l == [n \in 1 .. m |-> Text(f, s[n])]
<1>5. l \in Seq(Lines) /\ Len(l) = m
  BY <1>3, <1>4
<1>6. ListOf(f) = l
  BY <1>2 DEF ListOf
<1> QED BY <1>1, <1>5, <1>6 DEF ReadsAs

\* A rule with the highest number goes to the end.
LEMMA AddedLast ==
  ASSUME NEW f, NEW g, RulesOK(f), RulesOK(g), NEW s, NEW m, InOrder(s, m, f), NEW r,
         r \notin DOMAIN f, DOMAIN g = DOMAIN f \union {r},
         \A q \in DOMAIN f : g[q] = f[q] /\ f[q].order < g[r].order
  PROVE  /\ \E t : InOrder(t, m + 1, g)
         /\ List!AppendOne(ListOf(f), ListOf(g))
<1> DEFINE t == [n \in 1 .. m + 1 |-> IF n = m + 1 THEN r ELSE s[n]]
<1>1. m \in Nat /\ m + 1 \in Nat /\ \A n \in 1 .. m : n \in 1 .. m + 1 /\ n # m + 1 /\ s[n] \in DOMAIN f
  BY DEF InOrder
<1>2. t[m + 1] = r /\ \A n \in 1 .. m : t[n] = s[n]
  BY <1>1
<1>3. t \in [1 .. m + 1 -> DOMAIN g]
  BY <1>1
<1> HIDE DEF t
<1>4. \A q \in DOMAIN g : \E n \in 1 .. m + 1 : t[n] = q
  BY <1>1, <1>2 DEF InOrder
<1>5. ASSUME NEW i \in 1 .. m + 1, NEW j \in 1 .. m + 1, i < j
      PROVE  g[t[i]].order < g[t[j]].order
  <2>1. i \in 1 .. m
    BY <1>1, <1>5
  <2>2. CASE j = m + 1
    BY <1>1, <1>2, <2>1, <2>2
  <2>3. CASE j # m + 1
    <3>1. j \in 1 .. m
      BY <1>1, <2>3
    <3>2. f[s[i]].order < f[s[j]].order
      BY <1>5, <2>1, <3>1 DEF InOrder
    <3>3. t[i] = s[i] /\ t[j] = s[j] /\ g[s[i]] = f[s[i]] /\ g[s[j]] = f[s[j]]
      BY <1>1, <1>2, <2>1, <3>1
    <3> QED BY <3>2, <3>3
  <2> QED BY <2>2, <2>3
<1>6. InOrder(t, m + 1, g)
  BY <1>1, <1>3, <1>4, <1>5 DEF InOrder
<1>7. PICK old, new : /\ old = ListOf(f) /\ new = ListOf(g)
                      /\ ReadsAs(old, s, m, f) /\ ReadsAs(new, t, m + 1, g)
  BY <1>6, ListIs
<1>8. ASSUME NEW n \in 1 .. m PROVE old[n] = new[n]
  <2>1. n \in 1 .. m + 1 /\ s[n] \in DOMAIN f /\ t[n] = s[n]
    BY <1>1, <1>2
  <2>2. old[n] = Text(f, s[n]) /\ new[n] = Text(g, s[n])
    BY <1>7, <2>1 DEF ReadsAs
  <2>3. g[s[n]] = f[s[n]]
    BY <2>1
  <2> QED BY <2>2, <2>3 DEF Text
<1>9. old = SubSeq(new, 1, m)
  <2>1. old \in Seq(Lines) /\ new \in Seq(Lines) /\ Len(old) = m /\ Len(new) = m + 1
    BY <1>7 DEF ReadsAs
  <2>2. /\ SubSeq(new, 1, m) \in Seq(Lines) /\ Len(SubSeq(new, 1, m)) = m
        /\ \A n \in 1 .. m : SubSeq(new, 1, m)[n] = new[n]
    BY <1>1, <2>1
  <2> QED BY <1>8, <2>1, <2>2, SeqEqual
<1>10. /\ Len(new) = Len(old) + 1 /\ new[Len(new)] \in Lines /\ Len(old) = m
  BY <1>1, <1>7 DEF ReadsAs
<1>11. List!AppendOne(old, new)
  BY <1>9, <1>10 DEF List!AppendOne, Lines
<1> QED BY <1>6, <1>7, <1>11

\* A rule that is edited stays where it is.
LEMMA EditedInPlace ==
  ASSUME NEW f, NEW g, RulesOK(f), RulesOK(g), NEW s, NEW m, InOrder(s, m, f), NEW r \in DOMAIN f,
         DOMAIN g = DOMAIN f, \A q \in DOMAIN f : g[q].order = f[q].order /\ (q # r => g[q] = f[q])
  PROVE  /\ InOrder(s, m, g)
         /\ List!EditOne(ListOf(f), ListOf(g))
<1>1. InOrder(s, m, g)
  <2>1. \A n \in 1 .. m : s[n] \in DOMAIN f
    BY DEF InOrder
  <2> QED BY <2>1 DEF InOrder
<1>2. PICK old, new : /\ old = ListOf(f) /\ new = ListOf(g)
                      /\ ReadsAs(old, s, m, f) /\ ReadsAs(new, s, m, g)
  BY <1>1, ListIs
<1>3. PICK k \in 1 .. m : s[k] = r
  BY DEF InOrder
<1>4. ASSUME NEW n \in 1 .. m, n # k PROVE new[n] = old[n]
  <2>1. Numbered(f)
    BY ListIs
  <2>2. s[n] # r
    BY <1>3, <1>4, <2>1, OrderOnto
  <2>3. s[n] \in DOMAIN f
    BY DEF InOrder
  <2>4. g[s[n]] = f[s[n]]
    BY <2>2, <2>3
  <2>5. old[n] = Text(f, s[n]) /\ new[n] = Text(g, s[n])
    BY <1>2 DEF ReadsAs
  <2> QED BY <2>4, <2>5 DEF Text
<1>5. old \in Seq(Lines) /\ new \in Seq(Lines) /\ Len(old) = m /\ Len(new) = m /\ m \in Nat
  BY <1>2 DEF ReadsAs, InOrder
<1>6. k \in DOMAIN old /\ new[k] \in Lines
  BY <1>5
<1>7. new = [old EXCEPT ![k] = new[k]]
  BY <1>4, <1>5, <1>6, ExceptSeq, SeqEqual
<1>8. List!EditOne(old, new)
  BY <1>5, <1>6, <1>7 DEF List!EditOne, Lines
<1> QED BY <1>1, <1>2, <1>8

\* A rule that is deleted leaves no gap.
LEMMA DeletedCloses ==
  ASSUME NEW f, NEW g, RulesOK(f), RulesOK(g), NEW s, NEW m, InOrder(s, m, f), NEW r \in DOMAIN f,
         DOMAIN g = DOMAIN f \ {r}, \A q \in DOMAIN g : g[q] = f[q]
  PROVE  /\ \E t : InOrder(t, m - 1, g)
         /\ List!DeleteOne(ListOf(f), ListOf(g))
<1>1. PICK k \in 1 .. m : s[k] = r
  BY DEF InOrder
<1> DEFINE t == [n \in 1 .. m - 1 |-> IF n < k THEN s[n] ELSE s[n + 1]]
           at(n) == IF n < k THEN n ELSE n + 1
<1>2. m \in Nat /\ m - 1 \in Nat /\ \A n \in 1 .. m - 1 : at(n) \in 1 .. m /\ at(n) # k /\ t[n] = s[at(n)]
  BY DEF InOrder
<1>3. \A i, j \in 1 .. m - 1 : i < j => at(i) < at(j)
  BY <1>2
<1>4. \A n \in 1 .. m : n # k => \E i \in 1 .. m - 1 : at(i) = n
  <2> SUFFICES ASSUME NEW n \in 1 .. m, n # k PROVE \E i \in 1 .. m - 1 : at(i) = n
    OBVIOUS
  <2>1. CASE n < k
    <3>1. n \in 1 .. m - 1 /\ at(n) = n
      BY <1>2, <2>1
    <3> QED BY <3>1
  <2>2. CASE ~(n < k)
    <3>1. n - 1 \in 1 .. m - 1 /\ at(n - 1) = n
      BY <1>2, <2>2
    <3> QED BY <3>1
  <2> QED BY <2>1, <2>2
<1>5. \A n \in 1 .. m : s[n] \in DOMAIN f /\ (n # k => s[n] \in DOMAIN g)
  <2> SUFFICES ASSUME NEW n \in 1 .. m PROVE s[n] \in DOMAIN f /\ (n # k => s[n] \in DOMAIN g)
    OBVIOUS
  <2>1. Numbered(f)
    BY ListIs
  <2>2. n # k => s[n] # r
    BY <1>1, <2>1, OrderOnto
  <2>3. s[n] \in DOMAIN f
    BY DEF InOrder
  <2> QED BY <2>2, <2>3
<1>6. t \in [1 .. m - 1 -> DOMAIN g]
  <2>1. \A n \in 1 .. m - 1 : t[n] \in DOMAIN g
    BY <1>2, <1>5
  <2> QED BY <2>1
<1> HIDE DEF t, at
<1>7. \A q \in DOMAIN g : \E n \in 1 .. m - 1 : t[n] = q
  <2> SUFFICES ASSUME NEW q \in DOMAIN g PROVE \E n \in 1 .. m - 1 : t[n] = q
    OBVIOUS
  <2>1. PICK n \in 1 .. m : s[n] = q
    BY DEF InOrder
  <2>2. n # k
    BY <1>1, <2>1
  <2> QED BY <1>2, <1>4, <2>1, <2>2
<1>8. ASSUME NEW i \in 1 .. m - 1, NEW j \in 1 .. m - 1, i < j
      PROVE  g[t[i]].order < g[t[j]].order
  <2>1. f[s[at(i)]].order < f[s[at(j)]].order
    BY <1>2, <1>3, <1>8 DEF InOrder
  <2>2. g[t[i]] = f[s[at(i)]] /\ g[t[j]] = f[s[at(j)]]
    BY <1>2, <1>5
  <2> QED BY <2>1, <2>2
<1>9. InOrder(t, m - 1, g)
  BY <1>2, <1>6, <1>7, <1>8 DEF InOrder
<1>10. PICK old, new : /\ old = ListOf(f) /\ new = ListOf(g)
                       /\ ReadsAs(old, s, m, f) /\ ReadsAs(new, t, m - 1, g)
  BY <1>9, ListIs
<1>11. ASSUME NEW n \in 1 .. m - 1 PROVE new[n] = old[at(n)]
  <2>1. at(n) \in 1 .. m /\ t[n] = s[at(n)] /\ s[at(n)] \in DOMAIN g
    BY <1>2, <1>5
  <2>2. g[s[at(n)]] = f[s[at(n)]]
    BY <2>1
  <2>3. new[n] = Text(g, t[n]) /\ old[at(n)] = Text(f, s[at(n)])
    BY <1>10, <2>1 DEF ReadsAs
  <2> QED BY <2>1, <2>2, <2>3 DEF Text
<1>12. old \in Seq(Lines) /\ new \in Seq(Lines) /\ Len(old) = m /\ Len(new) = m - 1
  BY <1>10 DEF ReadsAs
<1>13. new = SubSeq(old, 1, k - 1) \o SubSeq(old, k + 1, Len(old))
  <2> DEFINE a == SubSeq(old, 1, k - 1)
             b == SubSeq(old, k + 1, m)
  <2>1. a \in Seq(Lines) /\ Len(a) = k - 1 /\ \A n \in 1 .. k - 1 : a[n] = old[n]
    BY <1>2, <1>12
  <2>2. b \in Seq(Lines) /\ Len(b) = m - k /\ \A n \in 1 .. m - k : b[n] = old[k + n]
    BY <1>2, <1>12
  <2> HIDE DEF a, b
  <2>3. /\ a \o b \in Seq(Lines) /\ Len(a \o b) = m - 1
        /\ \A n \in 1 .. m - 1 : (a \o b)[n] = IF n < k THEN old[n] ELSE old[n + 1]
    <3>1. /\ a \o b \in Seq(Lines) /\ Len(a \o b) = Len(a) + Len(b)
          /\ \A n \in 1 .. Len(a) + Len(b) : (a \o b)[n] = IF n <= Len(a) THEN a[n] ELSE b[n - Len(a)]
      <4>1. a \in Seq(Lines) /\ b \in Seq(Lines)
        BY <2>1, <2>2
      <4> QED BY <4>1, ConcatProperties
    <3>2. Len(a) + Len(b) = m - 1
      BY <1>2, <2>1, <2>2
    <3>3. ASSUME NEW n \in 1 .. m - 1 PROVE (a \o b)[n] = IF n < k THEN old[n] ELSE old[n + 1]
      <4>1. CASE n < k
        <5>1. n \in 1 .. k - 1 /\ n <= Len(a)
          BY <1>2, <2>1, <4>1
        <5> QED BY <2>1, <3>1, <3>2, <4>1, <5>1
      <4>2. CASE ~(n < k)
        <5>1. ~(n <= Len(a)) /\ n - Len(a) \in 1 .. m - k /\ k + (n - Len(a)) = n + 1
          BY <1>2, <2>1, <4>2
        <5> QED BY <2>2, <3>1, <3>2, <4>2, <5>1
      <4> QED BY <4>1, <4>2
    <3> QED BY <3>1, <3>2, <3>3
  <2>4. \A n \in 1 .. m - 1 : new[n] = (a \o b)[n]
    BY <1>11, <2>3 DEF at
  <2>5. new = a \o b
    BY <1>12, <2>3, <2>4, SeqEqual
  <2> QED BY <1>12, <2>5 DEF a, b
<1>14. k \in DOMAIN old
  BY <1>2, <1>12
<1>15. List!DeleteOne(old, new)
  BY <1>13, <1>14 DEF List!DeleteOne
<1> QED BY <1>9, <1>10, <1>15

\* Nothing stands between a and b, and a is above.
Adjacent(f, a, b) ==
  /\ a \in DOMAIN f /\ b \in DOMAIN f /\ f[a].order < f[b].order
  /\ \A q \in DOMAIN f : f[q].order <= f[a].order \/ f[b].order <= f[q].order

\* a and b change their numbers.
Swapped(f, g, a, b) ==
  /\ DOMAIN g = DOMAIN f
  /\ \A q \in DOMAIN f :
       /\ Text(g, q) = Text(f, q)
       /\ g[q].order = IF q = a THEN f[b].order ELSE IF q = b THEN f[a].order ELSE f[q].order

\* Two neighbours that change their numbers change their places.
LEMMA MovedPast ==
  ASSUME NEW f, NEW g, RulesOK(f), RulesOK(g), NEW s, NEW m, InOrder(s, m, f), NEW a, NEW b,
         Adjacent(f, a, b), Swapped(f, g, a, b)
  PROVE  /\ \E t : InOrder(t, m, g)
         /\ List!MoveOne(ListOf(f), ListOf(g))
<1>1. Numbered(f) /\ m \in Nat /\ \A n \in 1 .. m : s[n] \in DOMAIN f
  BY ListIs DEF InOrder
<1>2. /\ a \in DOMAIN f /\ b \in DOMAIN f /\ f[a].order < f[b].order
      /\ f[a].order \in Nat /\ f[b].order \in Nat
  BY <1>1 DEF Adjacent, Numbered
<1>3. PICK i \in 1 .. m, j \in 1 .. m : s[i] = a /\ s[j] = b
  BY <1>2 DEF InOrder
<1>4. i + 1 = j
  <2>1. i < j
    BY <1>1, <1>2, <1>3, OrderOnto
  <2>2. ASSUME i + 1 # j PROVE FALSE
    <3>1. i + 1 \in 1 .. m /\ i < i + 1 /\ i + 1 < j
      BY <1>1, <2>1, <2>2
    <3>2. f[s[i]].order < f[s[i + 1]].order /\ f[s[i + 1]].order < f[s[j]].order
      BY <3>1 DEF InOrder
    <3>3. s[i + 1] \in DOMAIN f /\ f[s[i + 1]].order \in Nat
      BY <1>1, <3>1 DEF Numbered
    <3> QED BY <1>2, <1>3, <3>2, <3>3 DEF Adjacent
  <2> QED BY <2>2
<1> DEFINE t == [n \in 1 .. m |-> IF n = i THEN b ELSE IF n = j THEN a ELSE s[n]]
<1>5. /\ i # j /\ t[i] = b /\ t[j] = a
      /\ \A n \in 1 .. m : n # i /\ n # j => t[n] = s[n]
  BY <1>1, <1>4
<1>6. DOMAIN g = DOMAIN f
  BY DEF Swapped
<1>7. t \in [1 .. m -> DOMAIN g]
  BY <1>1, <1>2, <1>6
<1> HIDE DEF t
<1>8. \A q \in DOMAIN g : \E n \in 1 .. m : t[n] = q
  <2> SUFFICES ASSUME NEW q \in DOMAIN g PROVE \E n \in 1 .. m : t[n] = q
    OBVIOUS
  <2>1. PICK n \in 1 .. m : s[n] = q
    BY <1>6 DEF InOrder
  <2>2. CASE n = i
    BY <1>3, <1>5, <2>1, <2>2
  <2>3. CASE n = j
    BY <1>3, <1>5, <2>1, <2>3
  <2> QED BY <1>5, <2>1, <2>2, <2>3
<1>9. ASSUME NEW n \in 1 .. m, n # i, n # j PROVE s[n] # a /\ s[n] # b
  BY <1>1, <1>3, <1>9, OrderOnto
<1>10. a # b
  BY <1>2
<1>11. ASSUME NEW n \in 1 .. m PROVE g[t[n]].order = f[s[n]].order
  <2>1. CASE n = i
    BY <1>2, <1>3, <1>5, <1>10, <2>1 DEF Swapped
  <2>2. CASE n = j
    BY <1>2, <1>3, <1>5, <1>10, <2>2 DEF Swapped
  <2>3. CASE n # i /\ n # j
    <3>1. t[n] = s[n] /\ s[n] \in DOMAIN f /\ s[n] # a /\ s[n] # b
      BY <1>1, <1>5, <1>9, <2>3
    <3> QED BY <3>1 DEF Swapped
  <2> QED BY <2>1, <2>2, <2>3
<1>12. InOrder(t, m, g)
  <2>1. \A x, y \in 1 .. m : x < y => g[t[x]].order < g[t[y]].order
    BY <1>11 DEF InOrder
  <2> QED BY <1>1, <1>7, <1>8, <2>1 DEF InOrder
<1>13. PICK old, new : /\ old = ListOf(f) /\ new = ListOf(g)
                       /\ ReadsAs(old, s, m, f) /\ ReadsAs(new, t, m, g)
  BY <1>12, ListIs
<1>14. old \in Seq(Lines) /\ new \in Seq(Lines) /\ Len(old) = m /\ Len(new) = m
  BY <1>13 DEF ReadsAs
<1>15. \A q \in DOMAIN f : Text(g, q) = Text(f, q)
  BY DEF Swapped
<1>16. ASSUME NEW n \in 1 .. m
       PROVE  new[n] = IF n = i THEN old[j] ELSE IF n = j THEN old[i] ELSE old[n]
  <2>1. new[n] = Text(g, t[n]) /\ t[n] \in DOMAIN f
    BY <1>6, <1>7, <1>13 DEF ReadsAs
  <2>2. new[n] = Text(f, t[n])
    BY <1>15, <2>1
  <2>3. old[n] = Text(f, s[n]) /\ old[i] = Text(f, a) /\ old[j] = Text(f, b)
    BY <1>3, <1>13 DEF ReadsAs
  <2> QED BY <1>5, <2>2, <2>3
<1>17. new = [old EXCEPT ![j] = old[j - 1], ![j - 1] = old[j]]
  <2>1. j - 1 = i
    BY <1>1, <1>4
  <2> DEFINE e == [old EXCEPT ![j] = old[i], ![i] = old[j]]
  <2>2. e \in Seq(Lines) /\ Len(e) = m
    BY <1>14
  <2>3. \A n \in 1 .. m : e[n] = IF n = i THEN old[j] ELSE IF n = j THEN old[i] ELSE old[n]
    BY <1>5, <1>14
  <2> HIDE DEF e
  <2>4. new = e
    BY <1>14, <1>16, <2>2, <2>3, SeqEqual
  <2> QED BY <2>1, <2>4 DEF e
<1>18. j \in DOMAIN old \ {1}
  BY <1>1, <1>4, <1>14
<1>19. List!MoveOne(old, new)
  BY <1>17, <1>18 DEF List!MoveOne
<1> QED BY <1>12, <1>13, <1>19

\* No rules are the empty list.
LEMMA NoRules ==
  ASSUME NEW f, DOMAIN f = {}
  PROVE  InOrder(<< >>, 0, f) /\ ListOf(f) = << >>
<1>1. RulesOK(f)
  BY DEF RulesOK
<1>2. InOrder(<< >>, 0, f)
  <2>1. << >> \in [1 .. 0 -> DOMAIN f]
    OBVIOUS
  <2> QED BY <2>1 DEF InOrder
<1>3. ReadsAs(ListOf(f), << >>, 0, f)
  BY <1>1, <1>2, ListIs
<1>4. ListOf(f) \in Seq(Lines) /\ Len(ListOf(f)) = 0
  BY <1>3 DEF ReadsAs
<1> QED BY <1>2, <1>4, EmptySeq, SeqEqual

-----------------------------------------------------------------------------
\* What a step may do to the rules.
Added(f, g, r) ==
  /\ r \notin DOMAIN f /\ DOMAIN g = DOMAIN f \union {r}
  /\ \A q \in DOMAIN f : g[q] = f[q] /\ f[q].order < g[r].order

Edited(f, g, r) ==
  /\ r \in DOMAIN f /\ DOMAIN g = DOMAIN f
  /\ \A q \in DOMAIN f : g[q].order = f[q].order /\ (q # r => g[q] = f[q])

Deleted(f, g, r) ==
  r \in DOMAIN f /\ DOMAIN g = DOMAIN f \ {r} /\ \A q \in DOMAIN g : g[q] = f[q]

RuleStep(f, g) ==
  \/ g = f
  \/ g = << >>
  \/ \E r : Added(f, g, r) \/ Edited(f, g, r) \/ Deleted(f, g, r)
  \/ \E a, b : Adjacent(f, a, b) /\ Swapped(f, g, a, b)

\* A rule that is moved changes its number with the nearest one.
LEMMA ReorderSwaps ==
  ASSUME ResponseTypeOK, NumbersDiffer, NEW r \in Rules, NEW dir \in {-1, 1}, RuleReorder(r, dir)
  PROVE  \E a, b : Adjacent(acl, a, b) /\ Swapped(acl, acl', a, b)
<1>1. r \in Present
  BY DEF RuleReorder
<1>a. PICK n \in NextTo(r, dir) :
        acl' = [acl EXCEPT ![r].order = acl[n].order, ![n].order = acl[r].order]
  BY DEF RuleReorder
<1>2. /\ n \in Present /\ n # r /\ n \in Beyond(r, dir)
      /\ \A p \in Beyond(r, dir) : dir * acl[n].order <= dir * acl[p].order
  BY <1>1, NeighbourIs
<1>3. acl' = [acl EXCEPT ![r].order = acl[n].order, ![n].order = acl[r].order]
  BY <1>a
<1>4. \A q \in Present : acl[q] \in Rule /\ acl[q].order \in Int
  BY FirewallAssumption DEF ResponseTypeOK, Present, Rule
<1>5. \A x \in Int : IF dir = 1 THEN dir * x = x ELSE dir * x = -x
  BY Z3
<1>6. dir * acl[n].order > dir * acl[r].order
  BY <1>2 DEF Beyond
<1>7. ASSUME NEW q \in Present, dir * acl[q].order > dir * acl[r].order
      PROVE  dir * acl[n].order <= dir * acl[q].order
  BY <1>2, <1>7 DEF Beyond
<1>8. IF dir = 1 THEN Adjacent(acl, r, n) ELSE Adjacent(acl, n, r)
  <2>1. CASE dir = 1
    <3>1. acl[r].order < acl[n].order
      BY <1>1, <1>2, <1>4, <1>5, <1>6, <2>1
    <3>2. ASSUME NEW q \in Present PROVE acl[q].order <= acl[r].order \/ acl[n].order <= acl[q].order
      BY <1>1, <1>2, <1>4, <1>5, <1>7, <2>1
    <3> QED BY <1>1, <1>2, <2>1, <3>1, <3>2 DEF Adjacent, Present
  <2>2. CASE dir # 1
    <3>1. acl[n].order < acl[r].order
      BY <1>1, <1>2, <1>4, <1>5, <1>6, <2>2
    <3>2. ASSUME NEW q \in Present PROVE acl[q].order <= acl[n].order \/ acl[r].order <= acl[q].order
      BY <1>1, <1>2, <1>4, <1>5, <1>7, <2>2
    <3> QED BY <1>1, <1>2, <2>2, <3>1, <3>2 DEF Adjacent, Present
  <2> QED BY <2>1, <2>2
<1>9. Swapped(acl, acl', r, n) /\ Swapped(acl, acl', n, r)
  <2> DEFINE vr == [acl[r] EXCEPT !.order = acl[n].order]
             vn == [acl[n] EXCEPT !.order = acl[r].order]
  <2>1. acl[n].order \in 1 .. MaxOrder /\ acl[r].order \in 1 .. MaxOrder
    BY <1>1, <1>2, <1>4 DEF Rule
  <2>2. /\ vr.order = acl[n].order /\ vr.on = acl[r].on /\ vr.dir = acl[r].dir
        /\ vr.action = acl[r].action /\ vr.source = acl[r].source /\ vr.services = acl[r].services
    BY <1>1, <1>4, <2>1, Renumbered
  <2>3. /\ vn.order = acl[r].order /\ vn.on = acl[n].on /\ vn.dir = acl[n].dir
        /\ vn.action = acl[n].action /\ vn.source = acl[n].source /\ vn.services = acl[n].services
    BY <1>2, <1>4, <2>1, Renumbered
  <2>4. acl' = [acl EXCEPT ![r] = vr, ![n] = vn]
    BY <1>1, <1>2, <1>3 DEF Present
  <2> HIDE DEF vr, vn
  <2>5. /\ DOMAIN acl' = DOMAIN acl /\ acl'[r] = vr /\ acl'[n] = vn
        /\ \A q \in DOMAIN acl : q # r /\ q # n => acl'[q] = acl[q]
    BY <1>1, <1>2, <2>4 DEF Present
  <2>6. \A q \in DOMAIN acl : Text(acl', q) = Text(acl, q)
    BY <2>2, <2>3, <2>5 DEF Text
  <2>7. \A q \in DOMAIN acl :
          acl'[q].order = IF q = r THEN acl[n].order ELSE IF q = n THEN acl[r].order ELSE acl[q].order
    BY <2>2, <2>3, <2>5
  <2> QED BY <1>2, <2>5, <2>6, <2>7 DEF Swapped
<1> QED BY <1>8, <1>9

LEMMA OperatorKeepsRules ==
  ASSUME ResponseInv, ~renumbered, ~renumbered', FirewallOperator(RuleInput)
  PROVE  RuleStep(acl, acl')
<1>1. ResponseTypeOK /\ NumbersDiffer
  BY DEF ResponseInv, OrdersDistinct
<1>2. ASSUME NEW r \in Rules, NEW input \in RuleInput, RuleAdd(r, input) PROVE Added(acl, acl', r)
  BY <1>1, <1>2, AddIs DEF Added, Present
<1>3. ASSUME NEW r \in Rules, NEW n, NEW input, RuleUpdate(r, n, input)
      PROVE  Edited(acl, acl', r)
  <2> DEFINE new == WithNumber(n, input)
  <2>1. r \in DOMAIN acl /\ acl' = [acl EXCEPT ![r] = new] /\ n = acl[r].order
    BY <1>3 DEF RuleUpdate, Present
  <2>2. new.order = acl[r].order
    BY <2>1 DEF WithNumber
  <2> HIDE DEF new
  <2>3. /\ DOMAIN acl' = DOMAIN acl /\ acl'[r] = new
        /\ \A q \in DOMAIN acl : q # r => acl'[q] = acl[q]
    BY <2>1
  <2> QED BY <2>1, <2>2, <2>3 DEF Edited
<1>4. ASSUME NEW r \in Rules, RuleDelete(r) PROVE Deleted(acl, acl', r)
  BY <1>4 DEF RuleDelete, Deleted, Present
<1>5. ASSUME NEW r \in Rules, NEW dir \in {-1, 1}, RuleReorder(r, dir)
      PROVE  \E a, b : Adjacent(acl, a, b) /\ Swapped(acl, acl', a, b)
  BY <1>1, <1>5, ReorderSwaps
<1>6. ASSUME NEW z \in Zones, (\E addresses \in SUBSET Sources : ZoneAdd(z, addresses)) \/ ZoneDelete(z)
      PROVE  acl' = acl
  BY <1>6 DEF ZoneAdd, ZoneDelete
<1> QED BY <1>2, <1>3, <1>4, <1>5, <1>6 DEF FirewallOperator, RuleStep

LEMMA EveryRuleStep ==
  ASSUME ResponseInv, ~renumbered, ~renumbered', [ResponseNext(RuleInput)]_vars
  PROVE  RuleStep(acl, acl')
<1>1. CASE FirewallOperator(RuleInput)
  BY <1>1, OperatorKeepsRules
<1>2. ASSUME NEW s \in Sources, Blocking(s) PROVE RuleStep(acl, acl')
  <2>1. PICK r \in Rules : RuleAdd(r, Block(s))
    BY <1>2 DEF Blocking
  <2>2. PICK input \in RuleInput : input = Block(s)
    BY BlockIsInput
  <2>3. Added(acl, acl', r)
    BY <2>1, <2>2, AddIs DEF ResponseInv, Added, Present
  <2> QED BY <2>3 DEF RuleStep
<1>3. CASE Killed
  BY <1>3 DEF Killed, FirewallRestart, RuleStep
<1>4. CASE acl' = acl
  BY <1>4 DEF RuleStep
<1> QED
  BY <1>1, <1>2, <1>3, <1>4 DEF ResponseNext, Detect, MaybeRespond, Apply, ApplyMany, Blocking, Expires,
     Dismiss, SetActiveResponse, vars, firewallVars

\* Each of these is a step of the list.
Listed(f) == \E m, s : InOrder(s, m, f)

LEMMA ListStep ==
  ASSUME NEW f, NEW g, RulesOK(f), RulesOK(g), Listed(f), RuleStep(f, g)
  PROVE  /\ Listed(g)
         /\ ListOf(g) = ListOf(f) \/ List!Step(ListOf(f), ListOf(g))
<1>1. PICK m, s : InOrder(s, m, f)
  BY DEF Listed
<1>2. CASE g = f
  BY <1>2
<1>3. CASE g = << >>
  <2>1. DOMAIN g = {}
    BY <1>3
  <2>2. InOrder(<< >>, 0, g) /\ ListOf(g) = << >>
    BY <2>1, NoRules
  <2> QED BY <2>2 DEF Listed, List!Step
<1>4. ASSUME NEW r, Added(f, g, r) PROVE Listed(g) /\ List!Step(ListOf(f), ListOf(g))
  <2>1. (\E t : InOrder(t, m + 1, g)) /\ List!AppendOne(ListOf(f), ListOf(g))
    BY <1>1, <1>4, AddedLast DEF Added
  <2> QED BY <2>1 DEF Listed, List!Step
<1>5. ASSUME NEW r, Edited(f, g, r) PROVE Listed(g) /\ List!Step(ListOf(f), ListOf(g))
  <2>1. InOrder(s, m, g) /\ List!EditOne(ListOf(f), ListOf(g))
    BY <1>1, <1>5, EditedInPlace DEF Edited
  <2> QED BY <2>1 DEF Listed, List!Step
<1>6. ASSUME NEW r, Deleted(f, g, r) PROVE Listed(g) /\ List!Step(ListOf(f), ListOf(g))
  <2>1. (\E t : InOrder(t, m - 1, g)) /\ List!DeleteOne(ListOf(f), ListOf(g))
    BY <1>1, <1>6, DeletedCloses DEF Deleted
  <2> QED BY <2>1 DEF Listed, List!Step
<1>7. ASSUME NEW a, NEW b, Adjacent(f, a, b), Swapped(f, g, a, b)
      PROVE  Listed(g) /\ List!Step(ListOf(f), ListOf(g))
  <2>1. (\E t : InOrder(t, m, g)) /\ List!MoveOne(ListOf(f), ListOf(g))
    BY <1>1, <1>7, MovedPast
  <2> QED BY <2>1 DEF Listed, List!Step
<1> QED BY <1>2, <1>3, <1>4, <1>5, <1>6, <1>7 DEF RuleStep

\* The numbers are given by hand in a PATCH, and by hand no more when the rules are lost.
LEMMA HandIs ==
  ASSUME [ResponseNext(RuleInput)]_vars, renumbered, ~renumbered'
  PROVE  acl' = << >>
<1>1. ~FirewallOperator(RuleInput)
  BY DEF FirewallOperator, RuleAdd, RuleUpdate, RuleDelete, RuleReorder, ZoneAdd, ZoneDelete
<1>2. ASSUME NEW s \in Sources PROVE ~Blocking(s)
  BY DEF Blocking, RuleAdd
<1>3. ASSUME NEW s \in Sources, Detect(s) \/ Expires(s) \/ Apply(s) \/ ApplyMany(s) \/ Dismiss(s)
      PROVE  FALSE
  BY <1>2, <1>3 DEF Detect, MaybeRespond, Apply, ApplyMany, Blocking, Expires, Dismiss, firewallVars
<1>4. ~SetActiveResponse /\ ~UNCHANGED vars
  BY DEF SetActiveResponse, vars, firewallVars
<1>5. Killed => acl' = << >>
  BY DEF Killed, FirewallRestart
<1> QED BY <1>1, <1>3, <1>4, <1>5 DEF ResponseNext

\* Read by their numbers, the rules are a list: a new one goes to the end, a move passes one
\* neighbour, and no other place changes, until a number is given by hand.
THEOREM RulesAreAList == ResponseSpec => IsRuleList
<1> DEFINE ListInv == ResponseInv /\ (~renumbered => Listed(acl))
           view == IF renumbered THEN << >>
                   ELSE [n \in 1 .. Cardinality(DOMAIN acl) |-> NameAndText(Nth(n))]
<1>1. ResponseInit => ListInv /\ List!ListInit
  <2> SUFFICES ASSUME ResponseInit PROVE ListInv /\ List!ListInit
    OBVIOUS
  <2>1. DOMAIN acl = {} /\ ~renumbered
    BY DEF ResponseInit, FirewallInit
  <2>2. Listed(acl) /\ ListOf(acl) = << >>
    BY <2>1, NoRules DEF Listed
  <2>3. view = ListOf(acl)
    BY <2>1 DEF ListOf, NthOf, Before, Text, Nth, NameAndText
  <2> QED BY <2>2, <2>3, InitResponse DEF List!ListInit
<1>2. ListInv /\ [ResponseNext(RuleInput)]_vars => ListInv' /\ [List!ListNext]_view
  <2> SUFFICES ASSUME ListInv, [ResponseNext(RuleInput)]_vars
               PROVE  ListInv' /\ [List!ListNext]_view
    OBVIOUS
  <2>1. ResponseInv'
    BY ResponseStays
  <2>2. RulesOK(acl) /\ RulesOK(acl')
    BY <2>1 DEF ResponseInv, ResponseTypeOK, RulesOK
  <2>3. /\ ~renumbered => view = ListOf(acl)
        /\ ~renumbered' => view' = ListOf(acl')
    BY DEF ListOf, NthOf, Before, Text, Nth, NameAndText
  <2>4. /\ renumbered => view = << >>
        /\ renumbered' => view' = << >>
    OBVIOUS
  <2>5. Listed(acl') => Listed(acl)'
    BY DEF Listed, InOrder
  <2>6. view' = view \/ List!Step(view, view') => [List!ListNext]_view
    BY DEF List!ListNext
  <2> HIDE DEF view
  <2>7. CASE renumbered'
    <3>1. List!Step(view, view')
      BY <2>4, <2>7 DEF List!Step
    <3> QED BY <2>1, <2>6, <2>7, <3>1
  <2>8. CASE ~renumbered' /\ ~renumbered
    <3>1. RuleStep(acl, acl')
      BY <2>8, EveryRuleStep
    <3>2. Listed(acl') /\ (ListOf(acl') = ListOf(acl) \/ List!Step(ListOf(acl), ListOf(acl')))
      BY <2>2, <2>8, <3>1, ListStep
    <3> QED BY <2>1, <2>3, <2>5, <2>6, <2>8, <3>2
  <2>9. CASE ~renumbered' /\ renumbered
    <3>1. acl' = << >>
      BY <2>9, HandIs
    <3>2. DOMAIN acl' = {}
      BY <3>1
    <3>3. InOrder(<< >>, 0, acl') /\ ListOf(acl') = << >>
      BY <3>2, NoRules
    <3>4. Listed(acl') /\ view' = view
      BY <2>3, <2>4, <2>9, <3>3 DEF Listed
    <3> QED BY <2>1, <2>5, <2>6, <3>4
  <2> QED BY <2>7, <2>8, <2>9
<1> QED BY <1>1, <1>2, PTL DEF ResponseSpec, IsRuleList, List!ListSpec

-----------------------------------------------------------------------------
(* The feed of detections.                                                 *)

\* Since a detection began either its key was reported, as severely, or the last report
\* is older than that and still within the cooldown.
TellsWell(d) ==
  /\ lasting[d] \in 0 .. Long /\ untold[d] \in 1 .. Long
  /\ lasting[d] > 0 => \/ untold[d] <= lastEmit[d[1]]
                       \/ lastEmit[d[1]] > lasting[d]

FeedInv ==
  /\ lastEmit \in [Keys -> 1 .. Cool + 1]
  /\ DOMAIN lasting = Detections /\ DOMAIN untold = Detections
  /\ \A d \in Detections : TellsWell(d)

LEMMA DetectionIs == \A d \in Detections : d[1] \in Keys /\ d[2] \in {1, 2} /\ d = <<d[1], d[2]>>
BY DEF Detections, Keys, Levels

\* Of what is found of a key that is due, the worst is reported.
LEMMA WorstIsReported ==
  ASSUME NEW now \in SUBSET Detections, NEW due, NEW d \in now, d[1] \in due
  PROVE  \E e \in Reported(now, due) : e[1] = d[1] /\ e[2] >= d[2]
<1>1. \A e \in now : e[2] \in {1, 2}
  BY DetectionIs
<1>2. CASE \E e \in now : e[1] = d[1] /\ e[2] = 2
  <2>1. PICK e \in now : e[1] = d[1] /\ e[2] = 2
    BY <1>2
  <2>2. e \in Reported(now, due) /\ e[2] >= d[2]
    BY <1>1, <2>1 DEF Reported
  <2> QED BY <2>1, <2>2
<1>3. CASE ~\E e \in now : e[1] = d[1] /\ e[2] = 2
  <2>1. \A e \in now : e[1] = d[1] => e[2] = 1
    BY <1>1, <1>3
  <2>2. d \in Reported(now, due) /\ d[2] >= d[2]
    BY <2>1 DEF Reported
  <2> QED BY <2>2
<1> QED BY <1>2, <1>3

\* One run of the runner.
LEMMA RunKeeps ==
  ASSUME FeedInv, NEW traffic \in SUBSET (DetectKeys \X Levels), NEW early \in BOOLEAN,
         Run(traffic, early)
  PROVE  FeedInv'
<1> DEFINE now == IF MonitoringActive THEN Detected(traffic) ELSE {}
           due == Due(early)
           out == Reported(now, due)
           told == {e[1] : e \in out}
<1>1. now \in SUBSET Detections
  BY DEF Detected, Detections
<1>2. /\ lastEmit' = [k \in Keys |-> IF k \in told THEN 1 ELSE OneMore(lastEmit[k], Cool + 1)]
      /\ lasting' = [d \in Detections |-> IF d \in now THEN OneMore(lasting[d], Long) ELSE 0]
      /\ untold' = [d \in Detections |->
           IF \E e \in out : e[1] = d[1] /\ e[2] >= d[2] THEN 1 ELSE OneMore(untold[d], Long)]
  BY DEF Run
<1>3. \A d \in now : d[1] \in due => \E e \in out : e[1] = d[1] /\ e[2] >= d[2]
  <2> HIDE DEF now, due
  <2> QED BY <1>1, WorstIsReported
<1>4. \A e \in out : e \in now /\ \A d \in now : d[1] = e[1] => d[2] <= e[2]
  <2> HIDE DEF now, due
  <2> QED BY DEF Reported
<1>5. \A k \in Keys : k \notin due => lastEmit[k] <= Cool
  BY FeedAssumption DEF Due, FeedInv
<1> HIDE DEF now, due, out
<1>6. Cool \in Nat \ {0} /\ Long = Cool + 2
  BY FeedAssumption DEF Long
<1>7. lastEmit' \in [Keys -> 1 .. Cool + 1]
  BY <1>2, <1>6 DEF FeedInv, OneMore
<1>8. ASSUME NEW d \in Detections PROVE TellsWell(d)'
  <2>1. /\ d[1] \in Keys /\ lastEmit[d[1]] \in 1 .. Cool + 1
        /\ lasting[d] \in 0 .. Long /\ untold[d] \in 1 .. Long
        /\ lasting[d] > 0 => untold[d] <= lastEmit[d[1]] \/ lastEmit[d[1]] > lasting[d]
    BY DetectionIs DEF FeedInv, TellsWell
  <2>2. /\ lasting'[d] = IF d \in now THEN OneMore(lasting[d], Long) ELSE 0
        /\ untold'[d] = IF \E e \in out : e[1] = d[1] /\ e[2] >= d[2] THEN 1 ELSE OneMore(untold[d], Long)
        /\ lastEmit'[d[1]] = IF d[1] \in told THEN 1 ELSE OneMore(lastEmit[d[1]], Cool + 1)
    BY <1>2, <2>1
  <2>3. lasting'[d] \in 0 .. Long /\ untold'[d] \in 1 .. Long
    BY <1>6, <2>1, <2>2 DEF OneMore
  <2>4. CASE d \notin now
    BY <2>2, <2>3, <2>4 DEF TellsWell
  <2>5. CASE d \in now /\ d[1] \in told
    <3>1. PICK e \in out : e[1] = d[1]
      BY <2>5
    <3>2. e[2] >= d[2]
      BY <1>1, <1>4, <2>5, <3>1, DetectionIs
    <3>3. untold'[d] = 1 /\ lastEmit'[d[1]] = 1
      BY <2>2, <2>5, <3>1, <3>2
    <3> QED BY <2>3, <3>3 DEF TellsWell
  <2>6. CASE d \in now /\ d[1] \notin told
    <3>1. ~\E e \in out : e[1] = d[1] /\ e[2] >= d[2]
      BY <2>6
    <3>2. d[1] \notin due
      BY <1>3, <2>6, <3>1
    <3>3. lastEmit[d[1]] <= Cool
      BY <1>5, <2>1, <3>2
    <3>4. lastEmit'[d[1]] = lastEmit[d[1]] + 1
      BY <1>6, <2>1, <2>2, <2>6, <3>3 DEF OneMore
    <3>5. /\ lasting'[d] = OneMore(lasting[d], Long)
          /\ untold'[d] = OneMore(untold[d], Long)
      BY <2>2, <2>6, <3>1
    <3>6. untold'[d] <= lastEmit'[d[1]] \/ lastEmit'[d[1]] > lasting'[d]
      BY <1>6, <2>1, <3>3, <3>4, <3>5 DEF OneMore
    <3> QED BY <2>3, <3>6 DEF TellsWell
  <2> QED BY <2>4, <2>5, <2>6
<1> QED BY <1>2, <1>7, <1>8 DEF FeedInv

LEMMA LongIs == Cool \in Nat \ {0} /\ Long = Cool + 2
BY FeedAssumption DEF Long

LEMMA FeedFirst == EventsInit => FeedInv
BY LongIs, DetectionIs DEF EventsInit, FeedInv, TellsWell

LEMMA FeedStays == FeedInv /\ [EventsNext]_eventVars => FeedInv'
<1> SUFFICES ASSUME FeedInv, [EventsNext]_eventVars PROVE FeedInv'
  OBVIOUS
<1>1. ASSUME NEW traffic \in SUBSET (DetectKeys \X Levels), NEW early \in BOOLEAN, Tick(traffic, early)
      PROVE  FeedInv'
  BY <1>1, RunKeeps DEF Tick
<1>2. CASE EventsRestart
  BY LongIs, <1>2, DetectionIs DEF EventsRestart, FeedInv, TellsWell
<1>3. CASE UNCHANGED <<lastEmit, historyOfEvents>>
  BY <1>3 DEF historyOfEvents, FeedInv, TellsWell
<1> QED
  BY <1>1, <1>2, <1>3 DEF EventsNext, SetPause, SetHeuristics, SyncBegins, SyncEnds, SampleArp,
     eventVars, feedOfEvents

LEMMA FeedTells == FeedInv => WorstIsTold
<1> SUFFICES ASSUME FeedInv, NEW d \in Detections, lasting[d] = Long PROVE untold[d] < Long
  BY DEF WorstIsTold
<1>1. d[1] \in Keys /\ lastEmit[d[1]] \in 1 .. Cool + 1
  BY DetectionIs DEF FeedInv
<1> QED BY LongIs, <1>1 DEF FeedInv, TellsWell

\* What lasts longer than a cooldown is in the feed at its severity, for any keys, traffic,
\* cooldown, pauses and changes of address.
THEOREM WorstIsAlwaysTold == EventsSpec => []WorstIsTold
BY FeedFirst, FeedStays, FeedTells, PTL DEF EventsSpec

-----------------------------------------------------------------------------
(* The detectors.                                                          *)

\* The higher the sensitivity, the lower each threshold.
LEMMA ThresholdFalls ==
  ASSUME NEW base \in Nat, NEW r \in Sensitivities, NEW s \in Sensitivities, Rank(r) < Rank(s)
  PROVE  /\ Factor(s) <= Factor(r) /\ Factor(s) \in Nat /\ Factor(r) \in Nat
         /\ Threshold(base, s) <= Threshold(base, r)
         /\ Threshold(base, s) \in Int /\ Threshold(base, r) \in Int
<1>1. /\ Factor(s) \in {18, 10, 6} /\ Factor(r) \in {18, 10, 6} /\ Factor(s) <= Factor(r)
  BY DEF Sensitivities, Rank, Factor
<1>2. PICK u \in Int, v \in Int : u = base * Factor(s) + 5 /\ v = base * Factor(r) + 5 /\ u <= v
  BY <1>1
<1>3. u \div 10 \in Int /\ v \div 10 \in Int /\ u \div 10 <= v \div 10
  BY <1>2
<1>4. /\ Threshold(base, s) = IF u \div 10 < 1 THEN 1 ELSE u \div 10
      /\ Threshold(base, r) = IF v \div 10 < 1 THEN 1 ELSE v \div 10
  BY <1>2 DEF Threshold
<1> QED BY <1>1, <1>3, <1>4

LEMMA PassesMore ==
  ASSUME NEW of \in DOMAIN Scaled, NEW count \in Int,
         NEW r \in Sensitivities, NEW s \in Sensitivities, Rank(r) < Rank(s)
  PROVE  Passed(of, count, r) \subseteq Passed(of, count, s)
<1>1. \A u \in Scaled[of] : u.over \in Nat
  BY DEF Scaled, Tier
<1>2. \A u \in Scaled[of] : count > Threshold(u.over, r) => count > Threshold(u.over, s)
  <2> SUFFICES ASSUME NEW u \in Scaled[of], count > Threshold(u.over, r)
               PROVE  count > Threshold(u.over, s)
    OBVIOUS
  <2>1. PICK b \in Nat : b = u.over
    BY <1>1
  <2>2. Threshold(b, s) <= Threshold(b, r) /\ Threshold(b, s) \in Int /\ Threshold(b, r) \in Int
    BY ThresholdFalls
  <2> QED BY <2>1, <2>2
<1> QED BY <1>2 DEF Passed

LEMMA FasterMore ==
  ASSUME NEW rows \in Int, NEW rate \in {8, 25, 80, 250},
         NEW r \in Sensitivities, NEW s \in Sensitivities, Rank(r) < Rank(s), FasterThan(rows, rate, r)
  PROVE  FasterThan(rows, rate, s)
<1>1. /\ Factor(s) \in {18, 10, 6} /\ Factor(r) \in {18, 10, 6} /\ Factor(s) <= Factor(r)
  BY DEF Sensitivities, Rank, Factor
<1>2. rate * Window \in {960, 3000, 9600, 30000}
  BY DEF Window
<1>3. PICK k \in {960, 3000, 9600, 30000} : k = rate * Window
  BY <1>2
<1>4. PICK x \in {18, 10, 6}, y \in {18, 10, 6} : x = Factor(s) /\ y = Factor(r) /\ x <= y
  BY <1>1
<1>5. k * x <= k * y /\ k * x \in Int /\ k * y \in Int
  BY <1>4
<1>6. 10 * rows > k * y
  BY <1>3, <1>4 DEF FasterThan
<1>7. 10 * rows > k * x
  BY <1>5, <1>6
<1> QED BY <1>3, <1>4, <1>7 DEF FasterThan

LEMMA FoundMore ==
  ASSUME NEW id, NEW A, NEW B, A \subseteq B
  PROVE  Found(id, A) \subseteq Found(id, B)
BY DEF Found

LEMMA IfMore ==
  ASSUME NEW p \in BOOLEAN, NEW q \in BOOLEAN, p => q, NEW sev
  PROVE  If(p, sev) \subseteq If(q, sev)
BY DEF If

LEMMA FasterIsTrueOrFalse ==
  \A rows \in Int, rate \in {8, 25, 80, 250}, s \in Sensitivities : FasterThan(rows, rate, s) \in BOOLEAN
BY DEF FasterThan

\* What is found at one sensitivity is found at a higher one.
LEMMA ClientMore ==
  ASSUME NEW a \in AskedOfResolver,
         NEW r \in Sensitivities, NEW s \in Sensitivities, Rank(r) < Rank(s)
  PROVE  ClientAlerts(a, r) \subseteq ClientAlerts(a, s)
<1> DEFINE n == OwnRows(a)
           nx == IF a.nx < n THEN a.nx ELSE n
           uniq == IF a.uniq < n THEN a.uniq ELSE n
           suspicious == IF a.suspicious < uniq THEN a.suspicious ELSE uniq
           long == IF a.long < n THEN a.long ELSE n
           txt == IF a.txt < n THEN a.txt ELSE n
           flood(x) == If(FasterThan(n, 8, x) /\ n > Threshold(100, x), "high")
                  \union If(FasterThan(n, 25, x) /\ n > Threshold(100, x), "critical")
           nxs(x) == IF 10 * nx > 3 * n THEN Passed("nxdomain", nx, x) ELSE {}
           dga(x) == IF a.random THEN Passed("generated", uniq, x) ELSE {}
<1>1. n \in Int /\ nx \in Int /\ uniq \in Int
  BY DEF AskedOfResolver, OwnRows, LogLimit
<1>2. ClientAlerts(a, r) =
        Found("query_flood", flood(r)) \union Found("nxdomain_flood", nxs(r))
        \union Found("dns_recon", Passed("domains", uniq, r)) \union Found("dga", dga(r))
        \union Found("data_exfil", If(long > 3 \/ (txt > 25 /\ uniq < 12), "high"))
        \union Found("anomaly", If(n > 3 * Window /\ n <= 8 * Window, "info"))
        \union Found("suspicious_domain", If(suspicious > 5, "medium") \union If(suspicious > 20, "high"))
  BY DEF ClientAlerts
<1>3. ClientAlerts(a, s) =
        Found("query_flood", flood(s)) \union Found("nxdomain_flood", nxs(s))
        \union Found("dns_recon", Passed("domains", uniq, s)) \union Found("dga", dga(s))
        \union Found("data_exfil", If(long > 3 \/ (txt > 25 /\ uniq < 12), "high"))
        \union Found("anomaly", If(n > 3 * Window /\ n <= 8 * Window, "info"))
        \union Found("suspicious_domain", If(suspicious > 5, "medium") \union If(suspicious > 20, "high"))
  BY DEF ClientAlerts
<1>4. flood(r) \subseteq flood(s)
  <2>1. /\ FasterThan(n, 8, r) => FasterThan(n, 8, s)
        /\ FasterThan(n, 25, r) => FasterThan(n, 25, s)
    <3> HIDE DEF n
    <3> QED BY <1>1, FasterMore
  <2>2. n > Threshold(100, r) => n > Threshold(100, s)
    <3> HIDE DEF n
    <3>1. Threshold(100, s) <= Threshold(100, r) /\ Threshold(100, s) \in Int /\ Threshold(100, r) \in Int
      BY ThresholdFalls
    <3> QED BY <1>1, <3>1
  <2> HIDE DEF n
  <2> QED BY <2>1, <2>2 DEF If
<1>5. nxs(r) \subseteq nxs(s) /\ dga(r) \subseteq dga(s)
      /\ Passed("domains", uniq, r) \subseteq Passed("domains", uniq, s)
  <2> HIDE DEF n, nx, uniq
  <2>1. "nxdomain" \in DOMAIN Scaled /\ "generated" \in DOMAIN Scaled /\ "domains" \in DOMAIN Scaled
    BY DEF Scaled
  <2>2. /\ Passed("nxdomain", nx, r) \subseteq Passed("nxdomain", nx, s)
        /\ Passed("generated", uniq, r) \subseteq Passed("generated", uniq, s)
        /\ Passed("domains", uniq, r) \subseteq Passed("domains", uniq, s)
    BY <1>1, <2>1, PassesMore
  <2> QED BY <2>2
<1> HIDE DEF n, nx, uniq, suspicious, long, txt, flood, nxs, dga
<1>6. /\ Found("query_flood", flood(r)) \subseteq Found("query_flood", flood(s))
      /\ Found("nxdomain_flood", nxs(r)) \subseteq Found("nxdomain_flood", nxs(s))
      /\ Found("dns_recon", Passed("domains", uniq, r)) \subseteq Found("dns_recon", Passed("domains", uniq, s))
      /\ Found("dga", dga(r)) \subseteq Found("dga", dga(s))
  BY <1>4, <1>5, FoundMore
<1> QED BY <1>2, <1>3, <1>6

LEMMA TotalMore ==
  ASSUME NEW a \in AskedOfResolver,
         NEW r \in Sensitivities, NEW s \in Sensitivities, Rank(r) < Rank(s)
  PROVE  TotalAlerts(a, r) \subseteq TotalAlerts(a, s)
<1>1. PICK n \in Int : n = AllRows(a)
  BY DEF AskedOfResolver, AllRows, LogLimit
<1>2. /\ FasterThan(n, 80, r) => FasterThan(n, 80, s)
      /\ FasterThan(n, 250, r) => FasterThan(n, 250, s)
  BY <1>1, FasterMore
<1>3. If(FasterThan(n, 80, r), "high") \union If(FasterThan(n, 250, r), "critical")
      \subseteq If(FasterThan(n, 80, s), "high") \union If(FasterThan(n, 250, s), "critical")
  BY <1>2 DEF If
<1> QED BY <1>1, <1>3, FoundMore DEF TotalAlerts

LEMMA PatternMore ==
  ASSUME NEW a \in AskedOfResolver,
         NEW r \in Sensitivities, NEW s \in Sensitivities, Rank(r) < Rank(s)
  PROVE  PatternAlerts(a, r) \subseteq PatternAlerts(a, s)
<1>1. PICK x \in {18, 10, 6}, y \in {18, 10, 6} : x = Factor(s) /\ y = Factor(r) /\ x <= y
  BY DEF Sensitivities, Rank, Factor
<1>2. a.jitter \in Nat
  BY DEF AskedOfResolver
<1>3. 4 * 10 * a.jitter < 100 * (20 - y) => 4 * 10 * a.jitter < 100 * (20 - x)
  BY <1>1, <1>2
<1>4. (IF a.times >= 6 /\ a.gap \in 2 .. 900 /\ 4 * 10 * a.jitter < 100 * (20 - y)
         THEN {IF a.jitter < 12 THEN "high" ELSE "medium"} ELSE {})
      \subseteq
      (IF a.times >= 6 /\ a.gap \in 2 .. 900 /\ 4 * 10 * a.jitter < 100 * (20 - x)
         THEN {IF a.jitter < 12 THEN "high" ELSE "medium"} ELSE {})
  BY <1>3
<1> DEFINE Regular(f) == IF a.times >= 6 /\ a.gap \in 2 .. 900 /\ 4 * 10 * a.jitter < 100 * (20 - f)
                         THEN {IF a.jitter < 12 THEN "high" ELSE "medium"} ELSE {}
<1>5. Found("beacon", Regular(y)) \subseteq Found("beacon", Regular(x))
  BY <1>4, FoundMore
<1>6. PICK A : A = Found("baseline", If(a.sigma >= 3, "medium") \union If(a.sigma > 6, "high"))
  OBVIOUS
<1>7. PatternAlerts(a, r) = A \union Found("beacon", Regular(y))
  BY <1>1, <1>6 DEF PatternAlerts
<1>8. PatternAlerts(a, s) = A \union Found("beacon", Regular(x))
  BY <1>1, <1>6 DEF PatternAlerts
<1> HIDE DEF Regular
<1> QED BY <1>5, <1>7, <1>8

LEMMA FlowMore ==
  ASSUME NEW w \in SeenOnWire,
         NEW r \in Sensitivities, NEW s \in Sensitivities, Rank(r) < Rank(s)
  PROVE  FlowAlerts(w, r) \subseteq FlowAlerts(w, s)
<1> DEFINE scan(x) == Passed("odd", w.odd, x) \union Passed("ports", w.ports, x) \union Passed("fan", w.fan, x)
           exfil(x) == If(w.upload > Threshold(20, x) /\ w.share > 25, "medium")
                       \union If(w.upload > Threshold(20, x) /\ w.share > 50, "high")
<1>1. w.odd \in Int /\ w.ports \in Int /\ w.fan \in Int /\ w.peers \in Int /\ w.upload \in Int
  BY DEF SeenOnWire
<1>2. {"odd", "ports", "fan", "peers"} \subseteq DOMAIN Scaled
  BY DEF Scaled
<1>3. /\ Passed("odd", w.odd, r) \subseteq Passed("odd", w.odd, s)
      /\ Passed("ports", w.ports, r) \subseteq Passed("ports", w.ports, s)
      /\ Passed("fan", w.fan, r) \subseteq Passed("fan", w.fan, s)
      /\ Passed("peers", w.peers, r) \subseteq Passed("peers", w.peers, s)
  BY <1>1, <1>2, PassesMore
<1>4. Threshold(20, s) <= Threshold(20, r) /\ Threshold(20, s) \in Int /\ Threshold(20, r) \in Int
  BY ThresholdFalls
<1>5. w.upload > Threshold(20, r) => w.upload > Threshold(20, s)
  BY <1>1, <1>4
<1>6. scan(r) \subseteq scan(s) /\ exfil(r) \subseteq exfil(s)
  BY <1>3, <1>5 DEF If
<1>7. /\ FlowAlerts(w, r) = Found("port_scan", scan(r)) \union Found("lateral_movement", Passed("peers", w.peers, r))
           \union Found("malware_domain", If(w.backdoor, "high")) \union Found("data_exfil", exfil(r))
      /\ FlowAlerts(w, s) = Found("port_scan", scan(s)) \union Found("lateral_movement", Passed("peers", w.peers, s))
           \union Found("malware_domain", If(w.backdoor, "high")) \union Found("data_exfil", exfil(s))
  BY DEF FlowAlerts
<1> HIDE DEF scan, exfil
<1>8. /\ Found("port_scan", scan(r)) \subseteq Found("port_scan", scan(s))
      /\ Found("lateral_movement", Passed("peers", w.peers, r)) \subseteq Found("lateral_movement", Passed("peers", w.peers, s))
      /\ Found("data_exfil", exfil(r)) \subseteq Found("data_exfil", exfil(s))
  BY <1>3, <1>6, FoundMore
<1> QED BY <1>7, <1>8

LEMMA PushedMore ==
  ASSUME NEW a \in AskedOfResolver, NEW w \in SeenOnWire, NEW t \in BOOLEAN,
         NEW r \in Sensitivities, NEW s \in Sensitivities, Rank(r) < Rank(s)
  PROVE  Pushed(a, w, r, t) \subseteq Pushed(a, w, s, t)
BY ClientMore, TotalMore, PatternMore, FlowMore DEF Pushed

LEMMA PassedAreSeverities ==
  ASSUME NEW of \in DOMAIN Scaled, NEW count, NEW s
  PROVE  Passed(of, count, s) \subseteq Severities
<1>1. \A u \in Scaled[of] : u.sev \in Severities
  BY DEF Scaled, Tier, Severities
<1> QED BY <1>1 DEF Passed

\* Of these kinds, with one of these severities.
Among(alerts, ids) == \A x \in alerts : x.id \in ids /\ x.sev \in Severities /\ x = [id |-> x.id, sev |-> x.sev]

LEMMA FoundAmong ==
  ASSUME NEW id, NEW S, S \subseteq Severities
  PROVE  Among(Found(id, S), {id})
BY DEF Among, Found

LEMMA IfSevere ==
  \A p, sev : sev \in Severities => If(p, sev) \subseteq Severities
BY DEF If

ClientKinds == {"query_flood", "nxdomain_flood", "dns_recon", "dga", "data_exfil", "anomaly", "suspicious_domain"}
FlowKinds == {"port_scan", "lateral_movement", "malware_domain", "data_exfil"}
OtherKinds == {"ddos", "baseline", "beacon", "malware_domain", "fwblocked"}
LinkKinds == {"arpspoof", "macspoof", "roguedhcp", "roguedhcp-probe", "llmnr", "adrelay"}

LEMMA ClientAmong ==
  ASSUME NEW a, NEW s
  PROVE  Among(ClientAlerts(a, s), ClientKinds)
<1> DEFINE n == OwnRows(a)
           nx == IF a.nx < n THEN a.nx ELSE n
           uniq == IF a.uniq < n THEN a.uniq ELSE n
           suspicious == IF a.suspicious < uniq THEN a.suspicious ELSE uniq
           long == IF a.long < n THEN a.long ELSE n
           txt == IF a.txt < n THEN a.txt ELSE n
           A == If(FasterThan(n, 8, s) /\ n > Threshold(100, s), "high")
                  \union If(FasterThan(n, 25, s) /\ n > Threshold(100, s), "critical")
           B == IF 10 * nx > 3 * n THEN Passed("nxdomain", nx, s) ELSE {}
           C == Passed("domains", uniq, s)
           D == IF a.random THEN Passed("generated", uniq, s) ELSE {}
           E == If(long > 3 \/ (txt > 25 /\ uniq < 12), "high")
           F == If(n > 3 * Window /\ n <= 8 * Window, "info")
           G == If(suspicious > 5, "medium") \union If(suspicious > 20, "high")
<1>1. ClientAlerts(a, s) =
        Found("query_flood", A) \union Found("nxdomain_flood", B) \union Found("dns_recon", C)
        \union Found("dga", D) \union Found("data_exfil", E) \union Found("anomaly", F)
        \union Found("suspicious_domain", G)
  BY DEF ClientAlerts
<1>2. /\ A \subseteq Severities /\ E \subseteq Severities
      /\ F \subseteq Severities /\ G \subseteq Severities
  BY DEF If, Severities
<1>3. B \subseteq Severities /\ C \subseteq Severities /\ D \subseteq Severities
  <2> HIDE DEF nx, uniq, n
  <2>1. {"nxdomain", "generated", "domains"} \subseteq DOMAIN Scaled
    BY DEF Scaled
  <2> QED BY <2>1, PassedAreSeverities
<1> HIDE DEF A, B, C, D, E, F, G
<1>4. /\ Among(Found("query_flood", A), {"query_flood"}) /\ Among(Found("nxdomain_flood", B), {"nxdomain_flood"})
      /\ Among(Found("dns_recon", C), {"dns_recon"}) /\ Among(Found("dga", D), {"dga"})
      /\ Among(Found("data_exfil", E), {"data_exfil"}) /\ Among(Found("anomaly", F), {"anomaly"})
      /\ Among(Found("suspicious_domain", G), {"suspicious_domain"})
  BY <1>2, <1>3, FoundAmong
<1> QED BY <1>1, <1>4 DEF Among, ClientKinds

LEMMA FlowAmong ==
  ASSUME NEW w, NEW s
  PROVE  Among(FlowAlerts(w, s), FlowKinds)
<1> DEFINE A == Passed("odd", w.odd, s) \union Passed("ports", w.ports, s) \union Passed("fan", w.fan, s)
           B == Passed("peers", w.peers, s)
           C == If(w.backdoor, "high")
           D == If(w.upload > Threshold(20, s) /\ w.share > 25, "medium")
                \union If(w.upload > Threshold(20, s) /\ w.share > 50, "high")
<1>1. FlowAlerts(w, s) =
        Found("port_scan", A) \union Found("lateral_movement", B)
        \union Found("malware_domain", C) \union Found("data_exfil", D)
  BY DEF FlowAlerts
<1>2. C \subseteq Severities /\ D \subseteq Severities
  BY DEF If, Severities
<1>3. A \subseteq Severities /\ B \subseteq Severities
  <2>1. {"odd", "ports", "fan", "peers"} \subseteq DOMAIN Scaled
    BY DEF Scaled
  <2> QED BY <2>1, PassedAreSeverities
<1> HIDE DEF A, B, C, D
<1>4. /\ Among(Found("port_scan", A), {"port_scan"}) /\ Among(Found("lateral_movement", B), {"lateral_movement"})
      /\ Among(Found("malware_domain", C), {"malware_domain"}) /\ Among(Found("data_exfil", D), {"data_exfil"})
  BY <1>2, <1>3, FoundAmong
<1> QED BY <1>1, <1>4 DEF Among, FlowKinds

LEMMA OthersAmong ==
  ASSUME NEW a, NEW w, NEW s, NEW t
  PROVE  /\ Among(TotalAlerts(a, s), {"ddos"}) /\ Among(PatternAlerts(a, s), {"baseline", "beacon"})
         /\ Among(BadNames(a), {"malware_domain"}) /\ Among(Denied(a, w), {"fwblocked"})
         /\ Among(KnownBad(w, t), {"malware_domain"}) /\ Among(LinkAlerts(w), LinkKinds)
<1>1. Among(TotalAlerts(a, s), {"ddos"})
  BY DEF TotalAlerts, Among, Found, If, Severities
<1>2. Among(PatternAlerts(a, s), {"baseline", "beacon"})
  <2> DEFINE A == If(a.sigma >= 3, "medium") \union If(a.sigma > 6, "high")
             B == IF a.times >= 6 /\ a.gap \in 2 .. 900 /\ 4 * 10 * a.jitter < 100 * (20 - Factor(s))
                    THEN {IF a.jitter < 12 THEN "high" ELSE "medium"} ELSE {}
  <2>1. A \subseteq Severities /\ B \subseteq Severities
    BY DEF If, Severities
  <2>2. PatternAlerts(a, s) = Found("baseline", A) \union Found("beacon", B)
    BY DEF PatternAlerts
  <2> HIDE DEF A, B
  <2>3. Among(Found("baseline", A), {"baseline"}) /\ Among(Found("beacon", B), {"beacon"})
    BY <2>1, FoundAmong
  <2> QED BY <2>2, <2>3 DEF Among
<1>3. Among(BadNames(a), {"malware_domain"})
  BY DEF BadNames, Among, Found, If, Severities
<1>4. Among(Denied(a, w), {"fwblocked"})
  BY DEF Denied, Among, Found, If, Severities
<1>5. Among(KnownBad(w, t), {"malware_domain"})
  BY DEF KnownBad, Among, Found, If, Severities
<1>6. Among(LinkAlerts(w), LinkKinds)
  <2> DEFINE A == If(w.macs > 1, IF w.gateway THEN "critical" ELSE "high")
             B == If(w.addresses > 3, "medium") \union If(w.addresses > 8, "high")
             C == If(w.dhcp > 1, "critical")
             P == If(w.probed > 1, "critical")
             D == If(w.victims >= 3 /\ w.answers >= 3, "high")
                  \union If(w.victims > 8 /\ w.answers >= 3, "critical")
             E == If(w.answers >= 2 /\ w.relays, "critical")
  <2>1. /\ A \subseteq Severities /\ B \subseteq Severities /\ C \subseteq Severities
        /\ P \subseteq Severities /\ D \subseteq Severities /\ E \subseteq Severities
    BY DEF If, Severities
  <2>2. LinkAlerts(w) = Found("arpspoof", A) \union Found("macspoof", B) \union Found("roguedhcp", C)
          \union Found("roguedhcp-probe", P) \union Found("llmnr", D) \union Found("adrelay", E)
    BY DEF LinkAlerts
  <2> HIDE DEF A, B, C, P, D, E
  <2>3. /\ Among(Found("roguedhcp-probe", P), {"roguedhcp-probe"})
        /\ Among(Found("arpspoof", A), {"arpspoof"}) /\ Among(Found("macspoof", B), {"macspoof"})
        /\ Among(Found("roguedhcp", C), {"roguedhcp"}) /\ Among(Found("llmnr", D), {"llmnr"})
        /\ Among(Found("adrelay", E), {"adrelay"})
    BY <2>1, FoundAmong
  <2> QED BY <2>2, <2>3 DEF Among, LinkKinds
<1> QED BY <1>1, <1>2, <1>3, <1>4, <1>5, <1>6

\* All that is pushed, and what is pushed of a host that is trusted.
Kinds == ClientKinds \union FlowKinds \union OtherKinds \union LinkKinds

LEMMA PushedAmong ==
  ASSUME NEW a, NEW w, NEW s, NEW t \in BOOLEAN
  PROVE  /\ Among(Pushed(a, w, s, t), Kinds)
         /\ Among(Pushed(a, w, s, TRUE), Kinds \ {"port_scan", "lateral_movement"})
         /\ \A x \in Pushed(a, w, s, FALSE) : x.id \notin FlowKinds => x \in Pushed(a, w, s, t)
         /\ Pushed(a, w, s, t) \subseteq Pushed(a, w, s, FALSE)
<1> DEFINE rest == ClientAlerts(a, s) \union TotalAlerts(a, s) \union PatternAlerts(a, s)
                   \union BadNames(a) \union Denied(a, w) \union KnownBad(w, t) \union LinkAlerts(w)
<1>1. Among(rest, Kinds \ {"port_scan", "lateral_movement"})
  <2>1. /\ Among(ClientAlerts(a, s), ClientKinds) /\ Among(TotalAlerts(a, s), {"ddos"})
        /\ Among(PatternAlerts(a, s), {"baseline", "beacon"}) /\ Among(BadNames(a), {"malware_domain"})
        /\ Among(Denied(a, w), {"fwblocked"}) /\ Among(KnownBad(w, t), {"malware_domain"})
        /\ Among(LinkAlerts(w), LinkKinds)
    BY ClientAmong, OthersAmong
  <2>2. /\ ClientKinds \subseteq Kinds \ {"port_scan", "lateral_movement"}
        /\ LinkKinds \subseteq Kinds \ {"port_scan", "lateral_movement"}
        /\ {"ddos", "baseline", "beacon", "malware_domain", "fwblocked"}
             \subseteq Kinds \ {"port_scan", "lateral_movement"}
    BY DEF Kinds, ClientKinds, LinkKinds, OtherKinds
  <2> QED BY <2>1, <2>2 DEF Among
<1>2. Among(FlowAlerts(w, s), FlowKinds) /\ FlowKinds \subseteq Kinds
  BY FlowAmong DEF Kinds
<1>3. /\ Pushed(a, w, s, TRUE) = rest /\ Pushed(a, w, s, FALSE) = rest \union FlowAlerts(w, s)
      /\ Pushed(a, w, s, t) \in {rest, rest \union FlowAlerts(w, s)}
  BY DEF Pushed, KnownBad
<1> HIDE DEF rest
<1> QED BY <1>1, <1>2, <1>3 DEF Among

\* Of the alerts with one id there is a worst one, and only one.
LEMMA OrderIs ==
  \A p, q \in Severities : /\ Order(p) \in Nat
                           /\ Order("critical") <= Order(p)
                           /\ Order(p) = Order(q) => p = q
BY DEF Order, Severities

LEMMA WorstIs ==
  ASSUME NEW P, NEW ids, Among(P, ids), NEW x \in P
  PROVE  \E y \in Worst(P) : y.id = x.id /\ AtLeast(y.sev, x.sev)
<1> DEFINE T == {Order(y.sev) : y \in {z \in P : z.id = x.id}}
<1>1. T \in SUBSET Nat /\ T # {}
  BY OrderIs DEF Among
<1>2. PICK o \in T : \A p \in T : o <= p
  <2> HIDE DEF T
  <2> QED BY <1>1, NatMin
<1>3. PICK y \in P : y.id = x.id /\ o = Order(y.sev)
  OBVIOUS
<1>4. \A z \in P : z.id = x.id => Order(y.sev) <= Order(z.sev)
  BY <1>2, <1>3
<1> QED BY <1>3, <1>4 DEF Worst, AtLeast

LEMMA WorstIsOne ==
  ASSUME NEW P, NEW ids, Among(P, ids), NEW x \in Worst(P), NEW y \in Worst(P), x.id = y.id
  PROVE  x = y
<1>1. /\ Order(x.sev) <= Order(y.sev) /\ Order(y.sev) <= Order(x.sev)
      /\ x.sev \in Severities /\ y.sev \in Severities
      /\ x = [id |-> x.id, sev |-> x.sev] /\ y = [id |-> y.id, sev |-> y.sev]
  BY DEF Worst, AtLeast, Among
<1>2. x.sev = y.sev
  BY <1>1, OrderIs
<1> QED BY <1>1, <1>2

DetectInv == /\ asks \in AskedOfResolver /\ wire \in SeenOnWire
             /\ sensitivity \in Sensitivities /\ trusted \in BOOLEAN

LEMMA DetectFirst == DetectInit => DetectInv
BY TrafficAssumption DEF DetectInit, Sensitivities, DetectInv

LEMMA DetectStays == DetectInv /\ [DetectNext]_detectVars => DetectInv'
BY DEF DetectNext, SetTuning, SetEngine, detectVars, DetectInv

LEMMA SharpTells == DetectInv => SharpIsSafe
<1> SUFFICES ASSUME DetectInv PROVE SharpIsSafe
  OBVIOUS
<1> DEFINE P(s) == Pushed(asks, wire, s, trusted)
<1>1. \A s \in Sensitivities : Among(P(s), Kinds)
  BY PushedAmong DEF DetectInv
<1>2. \A r, s \in Sensitivities : Rank(r) < Rank(s) => P(r) \subseteq P(s)
  BY PushedMore DEF DetectInv
<1> HIDE DEF P
<1>3. ASSUME NEW r \in Sensitivities, NEW s \in Sensitivities, Rank(r) < Rank(s), NEW x \in Worst(P(r))
      PROVE  \E y \in Worst(P(s)) : y.id = x.id /\ AtLeast(y.sev, x.sev)
  <2>1. x \in P(s)
    BY <1>2, <1>3 DEF Worst
  <2>2. PICK S : S = P(s)
    OBVIOUS
  <2>3. Among(S, Kinds) /\ x \in S
    BY <1>1, <2>1, <2>2
  <2> QED BY <2>2, <2>3, WorstIs
<1>4. ASSUME NEW s \in Sensitivities, NEW x \in Worst(P(s)), NEW y \in Worst(P(s)), x.id = y.id
      PROVE  x = y
  <2>1. PICK S : S = P(s)
    OBVIOUS
  <2> QED BY <1>1, <1>4, <2>1, WorstIsOne
<1> QED BY <1>3, <1>4 DEF SharpIsSafe, P

LEMMA TrustTells == DetectInv => TrustSparesScansOnly
<1> SUFFICES ASSUME DetectInv, engineOn
             PROVE  /\ wire.bad => [id |-> "malware_domain", sev |-> "critical"] \in DetectThreats
                    /\ trusted => \A x \in DetectThreats : x.id \notin {"port_scan", "lateral_movement"}
                    /\ \A x \in Worst(Pushed(asks, wire, sensitivity, FALSE)) :
                         x.id \notin {"port_scan", "lateral_movement", "malware_domain", "data_exfil"}
                           => x \in DetectThreats
  BY DEF TrustSparesScansOnly
<1>1. PICK P, Q : P = Pushed(asks, wire, sensitivity, trusted) /\ Q = Pushed(asks, wire, sensitivity, FALSE)
  OBVIOUS
<1>2. DetectThreats = Worst(P)
  BY <1>1 DEF DetectThreats
<1>3. /\ Among(P, Kinds) /\ (trusted => Among(P, Kinds \ {"port_scan", "lateral_movement"}))
      /\ P \subseteq Q /\ \A x \in Q : x.id \notin FlowKinds => x \in P
  BY <1>1, PushedAmong DEF DetectInv
<1>4. ASSUME wire.bad PROVE [id |-> "malware_domain", sev |-> "critical"] \in Worst(P)
  <2> DEFINE x == [id |-> "malware_domain", sev |-> "critical"]
  <2>1. x \in P
    BY <1>1, <1>4 DEF Pushed, KnownBad, Found, If
  <2>2. \A y \in P : AtLeast(x.sev, y.sev)
    BY <1>3, OrderIs DEF AtLeast, Among
  <2> QED BY <2>1, <2>2 DEF Worst
<1>5. trusted => \A x \in Worst(P) : x.id \notin {"port_scan", "lateral_movement"}
  BY <1>3 DEF Worst, Among
<1>6. ASSUME NEW x \in Worst(Q), x.id \notin FlowKinds PROVE x \in Worst(P)
  BY <1>3, <1>6 DEF Worst
<1> QED BY <1>1, <1>2, <1>4, <1>5, <1>6 DEF FlowKinds

LEMMA DetectTells == DetectInv => DetectionKept
BY SharpTells, TrustTells DEF DetectionKept

\* A higher sensitivity finds no less and nothing milder, trust spares a host what is counted
\* of its flows and nothing else, for any traffic.
THEOREM DetectionIsKept == DetectSpec => []DetectionKept
BY DetectFirst, DetectStays, DetectTells, PTL DEF DetectSpec

-----------------------------------------------------------------------------
(* The map of the network.                                                 *)

\* A domain's computers have names of their own; there are finitely many.
Distinct(computers) ==
  /\ IsFiniteSet(computers)
  /\ \A c \in computers : c.part \in Servers \union {"workstation"}
  /\ \A c, e \in computers : c.name = e.name => c = e

\* The inventory has one row an address.
RowsOK == /\ DOMAIN seenDevices \subseteq Sightings /\ IsFiniteSet(DOMAIN seenDevices)
          /\ \A s, t \in DOMAIN seenDevices : s.ip = t.ip => s = t

\* An answer that is kept is no younger than a switch of the session that it missed.
CacheOK ==
  \/ adCache = NoAnswers
  \/ /\ Distinct(adCache.snap.computers)
     /\ adCache.age \in 0 .. KeptFor
     /\ adCache.snap.domain # session => sinceSwitch <= adCache.age

\* The map that is shown was built from what there is.
BuiltFrom(snap, failed) ==
  /\ Distinct(snap.computers)
  /\ map = BuildTopology(snap, failed)
  /\ ~failed /\ snap.domain # session => sinceSwitch < KeptFor

MapInv ==
  /\ session \in Domains \union {NoDomain}
  /\ DOMAIN joined = Domains /\ \A d \in Domains : Distinct(joined[d])
  /\ RowsOK /\ CacheOK /\ sinceSwitch \in 0 .. KeptFor /\ IsFiniteSet(managed)
  /\ map = NoMap \/ \E snap, failed : BuiltFrom(snap, failed)

-----------------------------------------------------------------------------
\* What a map that was built says.
LEMMA BuiltIs ==
  ASSUME NEW snap, NEW failed, map = BuildTopology(snap, failed)
  PROVE  /\ map.nodes = {Gateway, Nexrelm} \union DirectoryNodes(snap) \union DeviceNodes(snap)
              \union MachineNodes(snap)
              \union DirectoryClusters(snap)
              \union Cluster("lan-endpoints", Endpoints(snap))
         /\ map.tail = Endpoints(snap) /\ map.snap = snap /\ map.domain = snap.domain
         /\ map.failed = failed
BY DEF BuildTopology

\* A sighting with a name of its own is the one of that name.
LEMMA ByHostIs ==
  ASSUME RowsOK, NEW s \in DOMAIN seenDevices, \A t \in DOMAIN seenDevices : t.name = s.name => t = s
  PROVE  ByHost(s.name) = {s}
<1>1. {x \in DOMAIN seenDevices : x.name = s.name} = {s}
  OBVIOUS
<1>2. s.ip <= s.ip
  BY MapAssumption DEF RowsOK
<1> QED BY <1>1, <1>2 DEF ByHost

LEMMA ByHostNamed ==
  ASSUME NEW name, NEW s \in ByHost(name)
  PROVE  s \in DOMAIN seenDevices /\ s.name = name
BY DEF ByHost

LEMMA NodeIs ==
  \A kind, name, ip : LET n == Node(kind, name, ip)
                      IN  n.kind = kind /\ n.id = <<kind, name>> /\ n.ip = ip
BY DEF Node

\* The node of a server that is at the address of a sighting has its name.
LEMMA DirectoryIs ==
  ASSUME RowsOK, NEW snap, NEW n \in DirectoryNodes(snap), NEW s \in DOMAIN seenDevices, n.ip = s.ip
  PROVE  \E c \in snap.computers : c.part \in Servers /\ c.name = s.name
<1>1. PICK c \in snap.computers : c.part \in Servers /\ n = Node(c.part, c.name, IpOf(c))
  BY DEF DirectoryNodes
<1>2. IpOf(c) = s.ip /\ s.ip # NoIp
  BY <1>1, NodeIs, MapAssumption DEF RowsOK
<1>3. PICK x \in ByHost(c.name) : x.ip = s.ip
  BY <1>2 DEF IpOf
<1>4. x \in DOMAIN seenDevices /\ x.name = c.name
  BY ByHostNamed
<1> QED BY <1>1, <1>3, <1>4 DEF RowsOK

\* What is left of the inventory is what no computer has the name of.
LEMMA RestIs ==
  ASSUME RowsOK, NEW snap, NEW s \in DOMAIN seenDevices,
         s.real, s.ip \notin {GatewayIp, OwnIp}, s.name # Nameless,
         \A t \in DOMAIN seenDevices : t.name = s.name => t = s
  PROVE  s \in Rest(snap) <=> ~\E c \in snap.computers : c.name = s.name
<1>1. ASSUME NEW c \in snap.computers, c.name = s.name PROVE s \notin Rest(snap)
  <2>1. s \in ByHost(c.name)
    BY <1>1, ByHostIs
  <2>2. s.name \in Consumed(snap)
    BY <2>1 DEF Consumed, Matches
  <2> QED BY <2>2 DEF Rest
<1>2. ASSUME ~\E c \in snap.computers : c.name = s.name PROVE s \in Rest(snap)
  <2>1. s.name \notin Consumed(snap)
    <3>1. ASSUME NEW x \in Matches(snap) PROVE x.name # s.name
      <4>1. PICK c \in snap.computers : x \in ByHost(c.name)
        BY DEF Matches
      <4> QED BY <1>2, <4>1, ByHostNamed
    <3> QED BY <3>1 DEF Consumed
  <2>2. \A n \in DirectoryNodes(snap) : n.ip # s.ip
    BY <1>2, DirectoryIs
  <2> QED BY <2>1, <2>2 DEF Rest
<1> QED BY <1>1, <1>2

\* The server of a sighting's name is at its address.
LEMMA ServerIsThere ==
  ASSUME RowsOK, NEW snap, NEW s \in DOMAIN seenDevices,
         \A t \in DOMAIN seenDevices : t.name = s.name => t = s,
         NEW c \in snap.computers, c.part \in Servers, c.name = s.name
  PROVE  \E n \in DirectoryNodes(snap) : n.kind = c.part /\ n.ip = s.ip
<1>1. ByHost(c.name) = {s}
  BY ByHostIs
<1>2. IpOf(c) = s.ip
  BY <1>1 DEF IpOf
<1>3. Node(c.part, c.name, IpOf(c)) \in DirectoryNodes(snap)
  BY DEF DirectoryNodes
<1> QED BY <1>2, <1>3, NodeIs

LEMMA BuiltKinds ==
  ASSUME NEW snap
  PROVE  /\ Gateway.kind = "gateway" /\ Gateway.ip = GatewayIp
         /\ Nexrelm.kind = "server" /\ Nexrelm.ip = OwnIp
         /\ \A n \in DirectoryNodes(snap) : n.kind \in Servers
         /\ \A n \in DeviceNodes(snap) :
              /\ n.kind = "device"
              /\ \E s \in Rest(snap) : s.serverish /\ n.ip = s.ip /\ n = Node("device", s, s.ip)
         /\ \A n \in MachineNodes(snap) : n.kind = "vm"
         /\ \A id, members : \A n \in Cluster(id, members) : n.kind = "cluster" /\ n.ip = NoIp
         /\ \A n \in DirectoryClusters(snap) : n.kind = "cluster" /\ n.ip = NoIp
<1>1. /\ Gateway.kind = "gateway" /\ Gateway.ip = GatewayIp
      /\ Nexrelm.kind = "server" /\ Nexrelm.ip = OwnIp
  BY NodeIs DEF Gateway, Nexrelm
<1>2. \A n \in DirectoryNodes(snap) : n.kind \in Servers
  BY NodeIs DEF DirectoryNodes
<1>3. \A n \in DeviceNodes(snap) :
        /\ n.kind = "device"
        /\ \E s \in Rest(snap) : s.serverish /\ n.ip = s.ip /\ n = Node("device", s, s.ip)
  BY NodeIs DEF DeviceNodes
<1>4. \A n \in MachineNodes(snap) : n.kind = "vm"
  BY NodeIs DEF MachineNodes
<1>5. \A id, members : \A n \in Cluster(id, members) : n.kind = "cluster" /\ n.ip = NoIp
  BY NodeIs DEF Cluster
<1> QED BY <1>1, <1>2, <1>3, <1>4, <1>5 DEF DirectoryClusters

LEMMA EachOnce ==
  ASSUME RowsOK, NEW snap, NEW failed, BuiltFrom(snap, failed)
  PROVE  DevicesOnce
<1> SUFFICES ASSUME NEW s \in DOMAIN seenDevices,
                    s.real, s.ip \notin {GatewayIp, OwnIp}, s.name # Nameless,
                    \A t \in DOMAIN seenDevices : t.name = s.name => t = s
             PROVE  CountedOnce(s)
  BY DEF DevicesOnce
<1> DEFINE asNode == \E n \in map.nodes : n.kind \in {"device", "dc", "server"} /\ n.ip = s.ip
           asWorkstation == \E c \in Workstations(map.snap) : c.name = s.name
           asEndpoint == s \in map.tail
           named == \E c \in snap.computers : c.name = s.name
<1>1. /\ map.nodes = {Gateway, Nexrelm} \union DirectoryNodes(snap) \union DeviceNodes(snap)
              \union MachineNodes(snap)
              \union DirectoryClusters(snap)
              \union Cluster("lan-endpoints", Endpoints(snap))
      /\ map.tail = Endpoints(snap) /\ map.snap = snap
  BY BuiltIs DEF BuiltFrom
<1>2. s \in Rest(snap) <=> ~named
  BY RestIs
<1>3. asWorkstation <=> \E c \in snap.computers : c.part = "workstation" /\ c.name = s.name
  BY <1>1 DEF Workstations
<1>4. asEndpoint <=> ~named /\ ~s.serverish
  BY <1>1, <1>2 DEF Endpoints
<1>5. asNode <=> \/ \E c \in snap.computers : c.part \in Servers /\ c.name = s.name
                 \/ ~named /\ s.serverish
  <2>1. ASSUME NEW c \in snap.computers, c.part \in Servers, c.name = s.name PROVE asNode
    <3>1. PICK n \in DirectoryNodes(snap) : n.kind = c.part /\ n.ip = s.ip
      BY <2>1, ServerIsThere
    <3> QED BY <1>1, <2>1, <3>1 DEF Servers
  <2>2. ASSUME ~named, s.serverish PROVE asNode
    <3>1. Node("device", s, s.ip) \in DeviceNodes(snap)
      BY <1>2, <2>2 DEF DeviceNodes
    <3> QED BY <1>1, <3>1, NodeIs
  <2>3. ASSUME NEW n \in map.nodes, n.kind \in {"device", "dc", "server"}, n.ip = s.ip
        PROVE  \/ \E c \in snap.computers : c.part \in Servers /\ c.name = s.name
               \/ ~named /\ s.serverish
    <3>1. n \in DirectoryNodes(snap) \/ n \in DeviceNodes(snap)
      BY <1>1, <2>3, BuiltKinds
    <3>2. CASE n \in DirectoryNodes(snap)
      BY <2>3, <3>2, DirectoryIs
    <3>3. CASE n \in DeviceNodes(snap)
      <4>1. PICK t \in Rest(snap) : t.serverish /\ n.ip = t.ip
        BY <3>3, BuiltKinds
      <4>2. t = s
        BY <2>3, <4>1 DEF RowsOK, Rest
      <4> QED BY <1>2, <4>1, <4>2
    <3> QED BY <3>1, <3>2, <3>3
  <2> QED BY <2>1, <2>2, <2>3
<1>6. \A c, e \in snap.computers :
        /\ c.name = s.name /\ e.name = s.name => c = e
        /\ c.part \in Servers \/ c.part = "workstation"
        /\ ~(c.part \in Servers /\ c.part = "workstation")
  BY DEF BuiltFrom, Distinct, Servers
<1> DEFINE hows == {how \in {"node", "workstation", "endpoint"} :
                     CASE how = "node" -> asNode
                       [] how = "workstation" -> asWorkstation
                       [] OTHER -> asEndpoint}
<1> HIDE DEF asNode, asWorkstation, asEndpoint
<1>7. \/ asNode /\ ~asWorkstation /\ ~asEndpoint
      \/ ~asNode /\ asWorkstation /\ ~asEndpoint
      \/ ~asNode /\ ~asWorkstation /\ asEndpoint
  <2>1. CASE ~named
    BY <1>3, <1>4, <1>5, <2>1
  <2>2. CASE named
    BY <1>3, <1>4, <1>5, <1>6, <2>2
  <2> QED BY <2>1, <2>2
<1>8. hows = {"node"} \/ hows = {"workstation"} \/ hows = {"endpoint"}
  <2>1. /\ "node" \in hows <=> asNode
        /\ "workstation" \in hows <=> asWorkstation
        /\ "endpoint" \in hows <=> asEndpoint
        /\ hows \subseteq {"node", "workstation", "endpoint"}
    OBVIOUS
  <2> HIDE DEF hows
  <2> QED BY <1>7, <2>1
<1>9. Cardinality(hows) = 1
  <2> HIDE DEF hows
  <2> QED BY <1>8, FS_Singleton
<1> QED BY <1>9 DEF CountedOnce, asNode, asWorkstation, asEndpoint

LEMMA EachAlone ==
  ASSUME RowsOK, NEW snap, NEW failed, BuiltFrom(snap, failed)
  PROVE  OneAtAnAddress
<1> SUFFICES ASSUME NEW n \in map.nodes, NEW m \in map.nodes,
                    n.kind \in {"device", "vm"}, n.ip = m.ip, n.ip # NoIp
             PROVE  n = m
  BY DEF OneAtAnAddress
<1> DEFINE shown == {x.ip : x \in {Gateway, Nexrelm} \union DirectoryNodes(snap) \union DeviceNodes(snap)}
<1>1. map.nodes = {Gateway, Nexrelm} \union DirectoryNodes(snap) \union DeviceNodes(snap)
              \union MachineNodes(snap)
              \union DirectoryClusters(snap)
              \union Cluster("lan-endpoints", Endpoints(snap))
  BY BuiltIs DEF BuiltFrom
<1>2. \A x \in MachineNodes(snap) : x.ip # NoIp => x.ip \notin shown /\ x = Node("vm", FirstAt(x.ip), x.ip)
  BY NodeIs DEF MachineNodes
<1>3. /\ n \in DeviceNodes(snap) \/ n \in MachineNodes(snap)
      /\ \/ m \in {Gateway, Nexrelm} \union DirectoryNodes(snap) \union DeviceNodes(snap)
         \/ m \in MachineNodes(snap)
  BY <1>1, BuiltKinds DEF Servers
<1>4. CASE n \in MachineNodes(snap) /\ m \in MachineNodes(snap)
  <2>1. n = Node("vm", FirstAt(n.ip), n.ip) /\ m = Node("vm", FirstAt(m.ip), m.ip)
    BY <1>2, <1>4
  <2> QED BY <2>1
<1>5. CASE n \in MachineNodes(snap) /\ m \notin MachineNodes(snap)
  BY <1>2, <1>3, <1>5
<1>6. CASE n \in DeviceNodes(snap) /\ m \in MachineNodes(snap)
  BY <1>2, <1>6
<1>7. CASE n \in DeviceNodes(snap) /\ m \notin MachineNodes(snap)
  <2>1. PICK s \in Rest(snap) : n.ip = s.ip /\ n = Node("device", s, s.ip)
    BY <1>7, BuiltKinds
  <2>2. s \in DOMAIN seenDevices /\ s.ip \notin {GatewayIp, OwnIp} \union {x.ip : x \in DirectoryNodes(snap)}
    BY DEF Rest
  <2>3. m \in DeviceNodes(snap)
    <3>1. m \in {Gateway, Nexrelm} => m.ip \in {GatewayIp, OwnIp}
      BY NodeIs DEF Gateway, Nexrelm
    <3>2. m \notin {Gateway, Nexrelm} \union DirectoryNodes(snap)
      BY <2>1, <2>2, <3>1
    <3> QED BY <1>3, <1>7, <3>2
  <2>4. PICK t \in Rest(snap) : m.ip = t.ip /\ m = Node("device", t, t.ip)
    BY <2>3, BuiltKinds
  <2>5. s = t
    BY <2>1, <2>2, <2>4 DEF RowsOK, Rest
  <2> QED BY <2>1, <2>4, <2>5
<1> QED BY <1>3, <1>4, <1>5, <1>6, <1>7

-----------------------------------------------------------------------------
(* The tree that is drawn.                                                 *)

LEMMA LinkIs == \A from, to : LET l == Link(from, to) IN l.source = from /\ l.target = to
BY DEF Link

\* The nodes a domain's controller may hold, and those that hang from the gateway.
Held(snap) == {m \in DirectoryNodes(snap) : m.kind = "server"}
              \union DirectoryClusters(snap)
Hung(snap) == DeviceNodes(snap) \union MachineNodes(snap)
              \union Cluster("lan-endpoints", Endpoints(snap))

LEMMA KindOfId ==
  ASSUME NEW snap
  PROVE  /\ Gateway.id[1] = "gateway" /\ Nexrelm.id[1] = "server"
         /\ \A n \in DirectoryNodes(snap) : n.id[1] = n.kind /\ n.kind \in Servers
         /\ \A n \in Held(snap) : n.id[1] \in {"server", "cluster"}
         /\ \A n \in Hung(snap) : n.id[1] \in {"device", "vm", "cluster"}
<1>1. Gateway.id[1] = "gateway" /\ Nexrelm.id[1] = "server"
  BY NodeIs DEF Gateway, Nexrelm
<1>2. \A n \in DirectoryNodes(snap) : n.id[1] = n.kind /\ n.kind \in Servers
  <2>1. ASSUME NEW n \in DirectoryNodes(snap) PROVE n.id[1] = n.kind /\ n.kind \in Servers
    <3>1. PICK c \in snap.computers : c.part \in Servers /\ n = Node(c.part, c.name, IpOf(c))
      BY DEF DirectoryNodes
    <3> QED BY <3>1, NodeIs
  <2> QED BY <2>1
<1>3. \A id, members : \A n \in Cluster(id, members) : n.id[1] = "cluster"
  BY NodeIs DEF Cluster
<1>4. \A n \in DeviceNodes(snap) : n.id[1] = "device"
  BY NodeIs DEF DeviceNodes
<1>5. \A n \in MachineNodes(snap) : n.id[1] = "vm"
  BY NodeIs DEF MachineNodes
<1>6. \A n \in Held(snap) : n.id[1] \in {"server", "cluster"}
  BY <1>2, <1>3 DEF Held, DirectoryClusters
<1>7. \A n \in Hung(snap) : n.id[1] \in {"device", "vm", "cluster"}
  BY <1>3, <1>4, <1>5 DEF Hung
<1> QED BY <1>1, <1>2, <1>6, <1>7

LEMMA AnchorIs ==
  ASSUME NEW snap
  PROVE  \/ Anchor(snap) = Gateway.id
         \/ /\ Anchor(snap)[1] = "dc"
            /\ \E n \in DirectoryNodes(snap) : n.id = Anchor(snap)
<1> DEFINE dcs == {n.id : n \in {m \in DirectoryNodes(snap) : m.kind = "dc"}}
<1>1. CASE dcs = {}
  BY <1>1 DEF Anchor
<1>2. CASE dcs # {}
  <2>1. PICK d \in dcs : Anchor(snap) = d
    BY <1>2 DEF Anchor
  <2>2. PICK n \in DirectoryNodes(snap) : n.kind = "dc" /\ n.id = d
    BY <2>1
  <2> QED BY <2>1, <2>2, KindOfId
<1> QED BY <1>1, <1>2

\* A link joins a node to the gateway, or what is held to the controller that holds it.
LEMMA LinksAre ==
  ASSUME NEW snap
  PROVE  /\ Link(Nexrelm.id, Gateway.id) \in Links(snap)
         /\ Anchor(snap) # Gateway.id => Link(Anchor(snap), Gateway.id) \in Links(snap)
         /\ \A l \in Links(snap) :
              \/ l.source = Nexrelm.id /\ l.target = Gateway.id
              \/ l.source = Anchor(snap) /\ l.target = Gateway.id /\ Anchor(snap) # Gateway.id
              \/ \E n \in Held(snap) : l.source = n.id /\ l.target = Anchor(snap)
              \/ \E n \in Hung(snap) : l.source = n.id /\ l.target = Gateway.id
<1> DEFINE dc == Anchor(snap)
<1>1. Links(snap) = {Link(Nexrelm.id, Gateway.id)}
      \union (IF dc = Gateway.id THEN {} ELSE {Link(dc, Gateway.id)})
      \union {Link(n.id, dc) : n \in {m \in DirectoryNodes(snap) : m.kind = "server"}}
      \union {Link(n.id, dc) : n \in DirectoryClusters(snap)}
      \union {Link(n.id, Gateway.id) : n \in Hung(snap)}
  BY DEF Links, Hung
<1> HIDE DEF dc
<1>2. ASSUME NEW l \in Links(snap)
      PROVE  \/ l.source = Nexrelm.id /\ l.target = Gateway.id
             \/ l.source = dc /\ l.target = Gateway.id /\ dc # Gateway.id
             \/ \E n \in Held(snap) : l.source = n.id /\ l.target = dc
             \/ \E n \in Hung(snap) : l.source = n.id /\ l.target = Gateway.id
  <2>1. CASE l = Link(Nexrelm.id, Gateway.id)
    BY <2>1, LinkIs
  <2>2. CASE dc # Gateway.id /\ l = Link(dc, Gateway.id)
    BY <2>2, LinkIs
  <2>3. CASE l \in {Link(n.id, dc) : n \in Held(snap)}
    <3>1. PICK n \in Held(snap) : l = Link(n.id, dc)
      BY <2>3
    <3> QED BY <3>1, LinkIs
  <2>4. CASE l \in {Link(n.id, Gateway.id) : n \in Hung(snap)}
    <3>1. PICK n \in Hung(snap) : l = Link(n.id, Gateway.id)
      BY <2>4
    <3> QED BY <3>1, LinkIs
  <2> QED BY <1>1, <2>1, <2>2, <2>3, <2>4 DEF Held
<1> QED BY <1>1, <1>2 DEF dc

\* Two rings around the gateway: what it is linked to, and what one of these holds.
TwoRings(gw, a, near, far) ==
  /\ gw \in Ids /\ near \subseteq Ids /\ far \subseteq Ids /\ near # {}
  /\ gw \notin near \union far /\ near \cap far = {}
  /\ a # gw => a \in near
  /\ a = gw => far = {}
  /\ Neighbours(gw) = near
  /\ far \subseteq Neighbours(a)
  /\ Neighbours(a) \subseteq {gw} \union near \union far
  /\ \A u \in Ids : u # gw /\ u # a => Neighbours(u) \subseteq {gw, a}

LEMMA LinksJoinNodes ==
  ASSUME NEW snap, NEW failed, map = BuildTopology(snap, failed)
  PROVE  /\ map.links = Links(snap)
         /\ Gateway.id \in Ids /\ Nexrelm.id \in Ids /\ Anchor(snap) \in Ids
         /\ \A n \in Held(snap) \union Hung(snap) : n.id \in Ids
         /\ \A l \in map.links : l.source \in Ids /\ l.target \in Ids
<1>1. map.links = Links(snap)
  BY DEF BuildTopology
<1>2. \A n \in {Gateway, Nexrelm} \union DirectoryNodes(snap) \union Held(snap) \union Hung(snap) : n \in map.nodes
  BY BuiltIs DEF Held, Hung
<1>3. \A n \in map.nodes : n.id \in Ids
  BY DEF Ids
<1>4. Anchor(snap) \in Ids
  BY <1>2, <1>3, AnchorIs
<1>5. \A n \in Held(snap) \union Hung(snap) : n.id \in Ids
  BY <1>2, <1>3
<1>6. Gateway.id \in Ids /\ Nexrelm.id \in Ids
  BY <1>2, <1>3
<1>7. ASSUME NEW l \in Links(snap) PROVE l.source \in Ids /\ l.target \in Ids
  BY <1>4, <1>5, <1>6, LinksAre
<1> QED BY <1>1, <1>4, <1>5, <1>6, <1>7

\* The map has two rings.
LEMMA RingsAre ==
  ASSUME NEW snap, NEW failed, map = BuildTopology(snap, failed)
  PROVE  \E a, near, far : TwoRings(Gateway.id, a, near, far)
<1> DEFINE gw == Gateway.id
           a == Anchor(snap)
           near == {l.source : l \in {k \in map.links : k.target = gw}}
           far == {l.source : l \in {k \in map.links : k.target = a}} \ near
<1>1. /\ map.links = Links(snap) /\ gw \in Ids /\ a \in Ids
      /\ \A l \in map.links : l.source \in Ids /\ l.target \in Ids
  BY LinksJoinNodes
<1>2. /\ gw[1] = "gateway" /\ Nexrelm.id[1] = "server"
      /\ a = gw \/ a[1] = "dc"
      /\ \A n \in Held(snap) : n.id[1] \in {"server", "cluster"}
      /\ \A n \in Hung(snap) : n.id[1] \in {"device", "vm", "cluster"}
  BY KindOfId, AnchorIs
<1> HIDE DEF gw, a
<1>3. ASSUME NEW l \in map.links
      PROVE  /\ l.target = gw \/ l.target = a
             /\ l.source # gw
             /\ l.target = a /\ a # gw => l.source # a
  <2>1. \/ l.source = Nexrelm.id /\ l.target = gw
        \/ l.source = a /\ l.target = gw /\ a # gw
        \/ \E n \in Held(snap) : l.source = n.id /\ l.target = a
        \/ \E n \in Hung(snap) : l.source = n.id /\ l.target = gw
    BY <1>1, LinksAre DEF gw, a
  <2> QED BY <1>2, <2>1
<1>4. \A u : Neighbours(u) = {l.target : l \in {k \in map.links : k.source = u}}
                             \union {l.source : l \in {k \in map.links : k.target = u}}
  BY DEF Neighbours
<1>5. near \subseteq Ids /\ far \subseteq Ids /\ gw \notin near \union far /\ near \cap far = {}
  BY <1>1, <1>3
<1>6. near # {} /\ (a # gw => a \in near) /\ (a = gw => far = {})
  <2>1. Nexrelm.id \in near
    <3>1. Link(Nexrelm.id, gw) \in map.links
      BY <1>1, LinksAre DEF gw
    <3> QED BY <3>1, LinkIs
  <2>2. ASSUME a # gw PROVE a \in near
    <3>1. Link(a, gw) \in map.links
      BY <1>1, <2>2, LinksAre DEF gw, a
    <3> QED BY <3>1, LinkIs
  <2> QED BY <2>1, <2>2
<1>7. Neighbours(gw) = near
  BY <1>3, <1>4
<1>8. far \subseteq Neighbours(a) /\ Neighbours(a) \subseteq {gw} \union near \union far
  <2>1. far \subseteq Neighbours(a)
    BY <1>4
  <2>2. CASE a = gw
    BY <1>7, <2>2
  <2>3. CASE a # gw
    <3>1. ASSUME NEW v \in Neighbours(a) PROVE v \in {gw} \union near \union far
      <4>1. \E l \in map.links : \/ l.source = a /\ l.target = v
                                 \/ l.target = a /\ l.source = v
        BY <1>4
      <4>2. PICK l \in map.links : \/ l.source = a /\ l.target = v
                                   \/ l.target = a /\ l.source = v
        BY <4>1
      <4>3. CASE l.source = a /\ l.target = v
        BY <1>3, <2>3, <4>3
      <4>4. CASE l.target = a /\ l.source = v
        BY <4>4
      <4> QED BY <4>2, <4>3, <4>4
    <3> QED BY <2>1, <3>1
  <2> QED BY <2>1, <2>2, <2>3
<1>9. \A u \in Ids : u # gw /\ u # a => Neighbours(u) \subseteq {gw, a}
  <2>1. ASSUME NEW u \in Ids, u # gw, u # a, NEW v \in Neighbours(u) PROVE v \in {gw, a}
    <3>1. \E l \in map.links : \/ l.source = u /\ l.target = v
                               \/ l.target = u /\ l.source = v
      BY <1>4
    <3>2. PICK l \in map.links : \/ l.source = u /\ l.target = v
                                 \/ l.target = u /\ l.source = v
      BY <3>1
    <3> QED BY <1>3, <2>1, <3>2
  <2> QED BY <2>1
<1> HIDE DEF near, far
<1>10. TwoRings(gw, a, near, far)
  BY <1>1, <1>5, <1>6, <1>7, <1>8, <1>9 DEF TwoRings
<1> QED BY <1>10 DEF gw

\* What can be reached: the gateway, then the first ring, then both.
LEMMA ReachedIs ==
  ASSUME NEW a, NEW near, NEW far, TwoRings(Gateway.id, a, near, far)
  PROVE  Reached = [d \in 0 .. Rings + 1 |-> CASE d = 0 -> {Gateway.id}
                                               [] d = 1 -> {Gateway.id} \union near
                                               [] OTHER -> {Gateway.id} \union near \union far]
<1> DEFINE gw == Gateway.id
           Wider(S) == S \union UNION {Neighbours(u) : u \in S}
           Over(f) == [d \in 0 .. Rings + 1 |-> IF d = 0 THEN {gw} ELSE Wider(f[d - 1])]
           all == {gw} \union near \union far
           g == [d \in 0 .. Rings + 1 |-> CASE d = 0 -> {gw}
                                            [] d = 1 -> {gw} \union near
                                            [] OTHER -> all]
<1>1. Reached = CHOOSE f : f = Over(f)
  BY DEF Reached
<1>2. Wider({gw}) = {gw} \union near
  BY DEF TwoRings
<1>3. Wider({gw} \union near) = all
  <2>1. all \subseteq Wider({gw} \union near)
    <3>1. CASE a = gw
      BY <3>1 DEF TwoRings
    <3>2. CASE a # gw
      <4>1. a \in {gw} \union near /\ far \subseteq Neighbours(a)
        BY <3>2 DEF TwoRings
      <4> QED BY <4>1
    <3> QED BY <3>1, <3>2
  <2>2. ASSUME NEW u \in {gw} \union near PROVE Neighbours(u) \subseteq all
    BY DEF TwoRings
  <2> QED BY <2>1, <2>2
<1>4. Wider(all) = all
  <2>1. ASSUME NEW u \in all PROVE Neighbours(u) \subseteq all
    BY DEF TwoRings
  <2> QED BY <2>1
<1> HIDE DEF Wider, all, gw
<1>5. ASSUME NEW f, f = Over(f) PROVE f = g
  <2>1. \A d \in 0 .. 4 : f[d] = IF d = 0 THEN {gw} ELSE Wider(f[d - 1])
    BY <1>5 DEF Rings
  <2>2. f[0] = {gw}
    BY <2>1
  <2>3. f[1] = {gw} \union near
    BY <1>2, <2>1, <2>2
  <2>4. f[2] = all
    BY <1>3, <2>1, <2>3
  <2>5. f[3] = all
    BY <1>4, <2>1, <2>4
  <2>6. f[4] = all
    BY <1>4, <2>1, <2>5
  <2>7. \A d \in 0 .. 4 : f[d] = g[d]
    <3>1. \A d \in 0 .. 4 : d = 0 \/ d = 1 \/ d = 2 \/ d = 3 \/ d = 4
      OBVIOUS
    <3>2. g[0] = {gw} /\ g[1] = {gw} \union near /\ g[2] = all /\ g[3] = all /\ g[4] = all
      BY DEF Rings
    <3> HIDE DEF g
    <3> QED BY <2>2, <2>3, <2>4, <2>5, <2>6, <3>1, <3>2
  <2>8. f = [d \in 0 .. 4 |-> f[d]] /\ g = [d \in 0 .. 4 |-> g[d]]
    BY <1>5 DEF Rings
  <2> HIDE DEF g
  <2> QED BY <2>7, <2>8
<1>6. g = Over(g)
  <2>1. \A d \in 0 .. 4 : g[d] = IF d = 0 THEN {gw} ELSE Wider(g[d - 1])
    <3>1. \A d \in 0 .. 4 : d = 0 \/ d = 1 \/ d = 2 \/ d = 3 \/ d = 4
      OBVIOUS
    <3>2. g[0] = {gw} /\ g[1] = {gw} \union near /\ g[2] = all /\ g[3] = all /\ g[4] = all
      BY DEF Rings
    <3>3. 1 - 1 = 0 /\ 2 - 1 = 1 /\ 3 - 1 = 2 /\ 4 - 1 = 3
      OBVIOUS
    <3>4. g[1] = Wider(g[0]) /\ g[2] = Wider(g[1]) /\ g[3] = Wider(g[2]) /\ g[4] = Wider(g[3])
      BY <1>2, <1>3, <1>4, <3>2
    <3> HIDE DEF g
    <3> QED BY <3>1, <3>2, <3>3, <3>4
  <2>2. g = [d \in 0 .. 4 |-> g[d]]
    BY DEF Rings
  <2>3. Over(g) = [d \in 0 .. 4 |-> IF d = 0 THEN {gw} ELSE Wider(g[d - 1])]
    BY DEF Rings
  <2> HIDE DEF g, Over
  <2> QED BY <2>1, <2>2, <2>3
<1> HIDE DEF g, Over
<1>7. Reached = g
  BY <1>1, <1>5, <1>6
<1> QED BY <1>7 DEF g, all, gw

\* How far from the gateway the nodes of the rings are.
LEMMA DepthsAre ==
  ASSUME NEW a, NEW near, NEW far, TwoRings(Gateway.id, a, near, far)
  PROVE  /\ DOMAIN Depths = {Gateway.id} \union near \union far
         /\ Depths[Gateway.id] = 0
         /\ \A v \in near : Depths[v] = 1
         /\ \A v \in far : Depths[v] = 2
<1> DEFINE gw == Gateway.id
           all == {gw} \union near \union far
<1>1. /\ Reached[0] = {gw} /\ Reached[1] = {gw} \union near
      /\ Reached[2] = all /\ Reached[3] = all /\ Reached[4] = all
  BY ReachedIs DEF Rings
<1>2. Depths = [v \in all |-> CHOOSE d \in 0 .. 4 : v \in Reached[d] /\ (d = 0 \/ v \notin Reached[d - 1])]
  BY <1>1 DEF Depths, Rings
<1>3. gw \notin near /\ gw \notin far /\ \A v \in near : v \notin far
  BY DEF TwoRings
<1>4. ASSUME NEW v \in all, NEW n \in 0 .. 2, v \in Reached[n], n = 0 \/ v \notin Reached[n - 1]
      PROVE  Depths[v] = n
  <2>1. \A d \in 0 .. 4 : v \in Reached[d] /\ (d = 0 \/ v \notin Reached[d - 1]) => d = n
    <3>1. \A d \in 0 .. 4 : d = 0 \/ d = 1 \/ d = 2 \/ d = 3 \/ d = 4
      OBVIOUS
    <3>2. 1 - 1 = 0 /\ 2 - 1 = 1 /\ 3 - 1 = 2 /\ 4 - 1 = 3
      OBVIOUS
    <3>3. n = 0 \/ n = 1 \/ n = 2
      OBVIOUS
    <3> HIDE DEF gw
    <3> QED BY <1>1, <1>4, <3>1, <3>2, <3>3
  <2>2. n \in 0 .. 4
    OBVIOUS
  <2>3. Depths[v] = CHOOSE d \in 0 .. 4 : v \in Reached[d] /\ (d = 0 \/ v \notin Reached[d - 1])
    BY <1>2
  <2> QED BY <1>4, <2>1, <2>2, <2>3
<1>5. Depths[gw] = 0
  BY <1>1, <1>4
<1>6. ASSUME NEW v \in near PROVE Depths[v] = 1
  <2>1. v \in Reached[1] /\ v \notin Reached[1 - 1]
    BY <1>1, <1>3
  <2> QED BY <1>4, <2>1
<1>7. ASSUME NEW v \in far PROVE Depths[v] = 2
  <2>1. v \in Reached[2] /\ v \notin Reached[2 - 1]
    BY <1>1, <1>3
  <2> QED BY <1>4, <2>1
<1> QED BY <1>2, <1>5, <1>6, <1>7

\* A node that is not on the rings hangs from the gateway with the first.
LEMMA ChildrenAre ==
  ASSUME NEW a, NEW near, NEW far, TwoRings(Gateway.id, a, near, far)
  PROVE  /\ Children(Depths, Gateway.id) = Ids \ ({Gateway.id} \union far)
         /\ a # Gateway.id => Children(Depths, a) = far
         /\ \A u \in Ids : u # Gateway.id /\ u # a => Children(Depths, u) = {}
<1> DEFINE gw == Gateway.id
           all == {gw} \union near \union far
<1>1. PICK depth : depth = Depths
  OBVIOUS
<1>2. /\ DOMAIN depth = all /\ depth[gw] = 0
      /\ \A v \in near : depth[v] = 1
      /\ \A v \in far : depth[v] = 2
  BY <1>1, DepthsAre
<1>3. /\ gw \in Ids /\ near \subseteq Ids /\ far \subseteq Ids
      /\ gw \notin near \union far /\ near \cap far = {}
      /\ (a # gw => a \in near) /\ (a = gw => far = {})
      /\ Neighbours(gw) = near /\ far \subseteq Neighbours(a)
      /\ Neighbours(a) \subseteq {gw} \union near \union far
      /\ \A u \in Ids : u # gw /\ u # a => Neighbours(u) \subseteq {gw, a}
  BY DEF TwoRings
<1>4. \A u : Children(depth, u) = {v \in Neighbours(u) : u \in DOMAIN depth /\ depth[v] = depth[u] + 1}
                                  \union (IF u = gw THEN Ids \ DOMAIN depth ELSE {})
  BY DEF Children
<1> HIDE DEF gw
<1>5. Children(depth, gw) = Ids \ ({gw} \union far)
  <2>1. Children(depth, gw) = near \union (Ids \ all)
    BY <1>2, <1>3, <1>4
  <2> QED BY <1>3, <2>1
<1>6. ASSUME a # gw PROVE Children(depth, a) = far
  <2>1. Children(depth, a) = {v \in Neighbours(a) : depth[v] = 2}
    BY <1>2, <1>3, <1>4, <1>6
  <2> QED BY <1>2, <1>3, <2>1
<1>7. ASSUME NEW u \in Ids, u # gw, u # a PROVE Children(depth, u) = {}
  <2>1. Children(depth, u) = {v \in Neighbours(u) : u \in all /\ depth[v] = depth[u] + 1}
    BY <1>2, <1>4, <1>7
  <2>2. \A v \in Neighbours(u) : v = gw \/ v = a
    BY <1>3, <1>7
  <2>3. u \in all => depth[u] \in {1, 2}
    BY <1>2, <1>7
  <2>4. depth[gw] = 0 /\ (a # gw => depth[a] = 1)
    BY <1>2, <1>3
  <2> QED BY <2>1, <2>2, <2>3, <2>4
<1> QED BY <1>1, <1>5, <1>6, <1>7 DEF gw

\* What a function takes a finite set to is finite.
LEMMA ValuesFinite ==
  ASSUME NEW S, NEW f, DOMAIN f = S, IsFiniteSet(S)
  PROVE  IsFiniteSet({f[x] : x \in S})
<1> DEFINE T == {f[x] : x \in S}
           g == [x \in S |-> f[x]]
<1>1. g \in [S -> T] /\ \A t \in T : \E x \in S : g[x] = t
  OBVIOUS
<1>2. g \in Surjection(S, T)
  BY <1>1 DEF Surjection
<1> HIDE DEF T, g
<1>3. IsFiniteSet(T)
  BY <1>2, FS_Surjection
<1> QED BY <1>3 DEF T

\* A map has finitely many nodes.
LEMMA NodesFinite ==
  ASSUME NEW snap, NEW failed, map = BuildTopology(snap, failed),
         IsFiniteSet(snap.computers), IsFiniteSet(DOMAIN seenDevices), IsFiniteSet(managed)
  PROVE  IsFiniteSet(map.nodes) /\ IsFiniteSet(Ids)
<1>1. IsFiniteSet(DirectoryNodes(snap))
  <2> DEFINE S == {d \in snap.computers : d.part \in Servers}
             f == [c \in S |-> Node(c.part, c.name, IpOf(c))]
  <2>1. IsFiniteSet(S) /\ DOMAIN f = S
    BY FS_Subset
  <2>2. DirectoryNodes(snap) = {f[x] : x \in S}
    BY DEF DirectoryNodes
  <2> HIDE DEF S, f
  <2> QED BY <2>1, <2>2, ValuesFinite
<1>2. IsFiniteSet(DeviceNodes(snap))
  <2> DEFINE S == {r \in Rest(snap) : r.serverish}
             f == [s \in S |-> Node("device", s, s.ip)]
  <2>1. S \subseteq DOMAIN seenDevices
    BY DEF Rest
  <2>2. IsFiniteSet(S) /\ DOMAIN f = S
    BY <2>1, FS_Subset
  <2>3. DeviceNodes(snap) = {f[x] : x \in S}
    BY DEF DeviceNodes
  <2> HIDE DEF S, f
  <2> QED BY <2>2, <2>3, ValuesFinite
<1>3. IsFiniteSet(MachineNodes(snap))
  <2>1. PICK S \in SUBSET managed : MachineNodes(snap) = {Node("vm", m, m.ip) : m \in S}
    BY DEF MachineNodes
  <2> DEFINE f == [m \in S |-> Node("vm", m, m.ip)]
  <2>2. IsFiniteSet(S) /\ DOMAIN f = S
    BY FS_Subset
  <2>3. MachineNodes(snap) = {f[x] : x \in S}
    BY <2>1
  <2> HIDE DEF f
  <2> QED BY <2>2, <2>3, ValuesFinite
<1>4. \A id, members : IsFiniteSet(Cluster(id, members))
  BY FS_EmptySet, FS_Singleton DEF Cluster
<1>c. IsFiniteSet(DirectoryClusters(snap))
  <2>1. PICK U, W : U = Cluster("ad-users", Users(snap)) /\ W = Cluster("ad-workstations", Workstations(snap))
    OBVIOUS
  <2>2. IsFiniteSet(U) /\ IsFiniteSet(W) /\ DirectoryClusters(snap) = U \union W
    BY <1>4, <2>1 DEF DirectoryClusters
  <2> QED BY <2>2, FS_Union
<1>5. IsFiniteSet({Gateway, Nexrelm})
  <2>1. {Gateway, Nexrelm} = {Gateway} \union {Nexrelm}
    OBVIOUS
  <2>2. IsFiniteSet({Gateway}) /\ IsFiniteSet({Nexrelm})
    BY FS_Singleton
  <2>3. IsFiniteSet({Gateway} \union {Nexrelm})
    BY <2>2, FS_Union
  <2> QED BY <2>1, <2>3
<1>6. PICK A, B, C, D, E, F :
        /\ A = {Gateway, Nexrelm} /\ B = DirectoryNodes(snap) /\ C = DeviceNodes(snap)
        /\ D = MachineNodes(snap) /\ E = DirectoryClusters(snap)
        /\ F = Cluster("lan-endpoints", Endpoints(snap))
  OBVIOUS
<1>7. map.nodes = A \union B \union C \union D \union E \union F
  BY <1>6, BuiltIs
<1>8. IsFiniteSet(A \union B) /\ IsFiniteSet(C) /\ IsFiniteSet(D) /\ IsFiniteSet(E) /\ IsFiniteSet(F)
  BY <1>1, <1>2, <1>3, <1>4, <1>c, <1>5, <1>6, FS_Union
<1>9. IsFiniteSet(A \union B \union C)
  BY <1>8, FS_Union
<1>10. IsFiniteSet(A \union B \union C \union D)
  BY <1>8, <1>9, FS_Union
<1>11. IsFiniteSet(A \union B \union C \union D \union E)
  BY <1>8, <1>10, FS_Union
<1>12. IsFiniteSet(map.nodes)
  <2>1. IsFiniteSet(A \union B \union C \union D \union E \union F)
    BY <1>8, <1>11, FS_Union
  <2> QED BY <1>7, <2>1
<1>13. IsFiniteSet(Ids)
  <2> DEFINE f == [n \in map.nodes |-> n.id]
  <2>1. Ids = {f[x] : x \in map.nodes} /\ DOMAIN f = map.nodes
    BY DEF Ids
  <2> HIDE DEF f
  <2> QED BY <1>12, <2>1, ValuesFinite
<1> QED BY <1>12, <1>13

LEMMA TwoSteps ==
  ASSUME NEW x, NEW y
  PROVE  <<x>> \o <<y>> = <<x, y>>
<1>1. <<x>> \in Seq({x, y}) /\ <<y>> \in Seq({x, y}) /\ <<x, y>> \in Seq({x, y})
  OBVIOUS
<1>2. Len(<<x>> \o <<y>>) = 2 /\ (<<x>> \o <<y>>)[1] = x /\ (<<x>> \o <<y>>)[2] = y
  BY <1>1, ConcatProperties
<1>3. <<x>> \o <<y>> \in Seq({x, y})
  BY <1>1, ConcatProperties
<1>4. \A i \in 1 .. 2 : (<<x>> \o <<y>>)[i] = <<x, y>>[i]
  BY <1>2
<1> QED BY <1>1, <1>2, <1>3, <1>4, SeqEqual

LEMMA ThreeSteps ==
  ASSUME NEW x, NEW y, NEW z
  PROVE  <<x>> \o <<y, z>> = <<x, y, z>>
<1>1. <<x>> \in Seq({x, y, z}) /\ <<y, z>> \in Seq({x, y, z}) /\ <<x, y, z>> \in Seq({x, y, z})
  OBVIOUS
<1>2. /\ Len(<<x>> \o <<y, z>>) = 3 /\ (<<x>> \o <<y, z>>)[1] = x
      /\ (<<x>> \o <<y, z>>)[2] = y /\ (<<x>> \o <<y, z>>)[3] = z
  BY <1>1, ConcatProperties
<1>3. <<x>> \o <<y, z>> \in Seq({x, y, z})
  BY <1>1, ConcatProperties
<1>4. \A i \in 1 .. 3 : (<<x>> \o <<y, z>>)[i] = <<x, y, z>>[i]
  BY <1>2
<1> QED BY <1>1, <1>2, <1>3, <1>4, SeqEqual

\* The ways down: to what hangs from the gateway and holds nothing, and to what is held.
LEMMA WaysAre ==
  ASSUME NEW depth, NEW gw \in Ids, NEW a \in Ids, NEW top \in SUBSET Ids, NEW far \in SUBSET Ids,
         Children(depth, gw) = top, top # {}, gw \notin top, gw \notin far,
         a # gw => Children(depth, a) = far /\ a \notin far,
         a = gw => far = {},
         \A u \in Ids : u # gw /\ u # a => Children(depth, u) = {}
  PROVE  WaysDown(depth)[gw] = {<<gw, v>> : v \in {w \in top : Children(depth, w) = {}}}
                               \union {<<gw, a, v>> : v \in IF a \in top THEN far ELSE {}}
<1> DEFINE Below(w) == [u \in Ids |->
              IF Children(depth, u) = {} THEN {<<u>>}
              ELSE UNION {{<<u>> \o way : way \in w[v]} : v \in Children(depth, u)}]
           Over(f) == [k \in 0 .. Rings |-> [u \in Ids |->
              IF k = 0 \/ Children(depth, u) = {} THEN {<<u>>}
              ELSE UNION {{<<u>> \o way : way \in f[k - 1][v]} : v \in Children(depth, u)}]]
           w0 == [u \in Ids |-> {<<u>>}]
           w1 == Below(w0)
           w2 == Below(w1)
           w3 == Below(w2)
           g == [k \in 0 .. Rings |-> IF k = 0 THEN w0 ELSE IF k = 1 THEN w1 ELSE IF k = 2 THEN w2 ELSE w3]
           Ways == CHOOSE f : f = Over(f)
<1>1. WaysDown(depth) = Ways[3]
  BY DEF WaysDown, Rings
<1>2. \A k \in 0 .. 3 : k = 0 \/ k = 1 \/ k = 2 \/ k = 3
  OBVIOUS
<1>3. \A f : Over(f) = [k \in 0 .. 3 |-> IF k = 0 THEN w0 ELSE Below(f[k - 1])]
  <2> SUFFICES ASSUME NEW f PROVE Over(f) = [k \in 0 .. 3 |-> IF k = 0 THEN w0 ELSE Below(f[k - 1])]
    OBVIOUS
  <2>1. ASSUME NEW k \in 0 .. 3, k # 0
        PROVE  [u \in Ids |->
                  IF k = 0 \/ Children(depth, u) = {} THEN {<<u>>}
                  ELSE UNION {{<<u>> \o way : way \in f[k - 1][v]} : v \in Children(depth, u)}]
                 = Below(f[k - 1])
    BY <2>1
  <2> QED BY <2>1 DEF Rings
<1> HIDE DEF Below, w0, Over
<1>4. g = Over(g)
  <2>1. /\ g[0] = w0 /\ g[1] = Below(g[0]) /\ g[2] = Below(g[1]) /\ g[3] = Below(g[2])
    BY DEF Rings
  <2>2. g = [k \in 0 .. 3 |-> g[k]]
    BY DEF Rings
  <2>3. \A k \in 0 .. 3 : g[k] = IF k = 0 THEN w0 ELSE Below(g[k - 1])
    <3>1. 1 - 1 = 0 /\ 2 - 1 = 1 /\ 3 - 1 = 2
      OBVIOUS
    <3> HIDE DEF g
    <3> QED BY <1>2, <2>1, <3>1
  <2> HIDE DEF g
  <2> QED BY <1>3, <2>2, <2>3
<1>5. Ways = Over(Ways)
  BY <1>4
<1>6. /\ Ways[3] = Below(Ways[2]) /\ Ways[2] = Below(Ways[1])
      /\ Ways[1] = Below(Ways[0]) /\ Ways[0] = w0
  <2> HIDE DEF Ways
  <2>1. \A k \in 0 .. 3 : Ways[k] = IF k = 0 THEN w0 ELSE Below(Ways[k - 1])
    BY <1>3, <1>5
  <2>2. 1 - 1 = 0 /\ 2 - 1 = 1 /\ 3 - 1 = 2
    OBVIOUS
  <2> QED BY <2>1, <2>2
<1>7. PICK x0, x1, x2, x3 :
        /\ x0 = Ways[0] /\ x1 = Ways[1] /\ x2 = Ways[2] /\ x3 = Ways[3]
  OBVIOUS
<1>8. /\ x3 = Below(x2) /\ x2 = Below(x1) /\ x1 = Below(x0) /\ x0 = w0
  BY <1>6, <1>7
<1> HIDE DEF Ways, g
<1>9. ASSUME NEW u \in Ids, Children(depth, u) = {}
      PROVE  x1[u] = {<<u>>} /\ x2[u] = {<<u>>}
  BY <1>8, <1>9 DEF Below
<1>10. \A v \in far : Children(depth, v) = {}
  OBVIOUS
<1>11. ASSUME a # gw, far # {} PROVE x2[a] = {<<a, v>> : v \in far}
  <2>1. x2[a] = UNION {{<<a>> \o way : way \in x1[v]} : v \in far}
    BY <1>8, <1>11 DEF Below
  <2>2. \A v \in far : x1[v] = {<<v>>}
    BY <1>9, <1>10
  <2>3. ASSUME NEW v \in far PROVE {<<a>> \o way : way \in x1[v]} = {<<a, v>>}
    <3>1. <<a>> \o <<v>> = <<a, v>>
      BY TwoSteps
    <3>2. {<<a>> \o way : way \in {<<v>>}} = {<<a>> \o <<v>>}
      OBVIOUS
    <3>3. {<<a>> \o way : way \in x1[v]} = {<<a>> \o way : way \in {<<v>>}}
      BY <2>2
    <3> QED BY <3>1, <3>2, <3>3, Zenon
  <2> DEFINE f == [v \in far |-> {<<a>> \o way : way \in x1[v]}]
  <2>4. \A v \in far : f[v] = {<<a, v>>}
    BY <2>3
  <2>5. x2[a] = UNION {f[v] : v \in far}
    BY <2>1
  <2> HIDE DEF f
  <2> QED BY <2>4, <2>5
<1>12. x3[gw] = UNION {{<<gw>> \o way : way \in x2[v]} : v \in top}
  BY <1>8 DEF Below
<1>13. ASSUME NEW v \in top, Children(depth, v) = {}
       PROVE  {<<gw>> \o way : way \in x2[v]} = {<<gw, v>>}
  <2>1. <<gw>> \o <<v>> = <<gw, v>>
    BY TwoSteps
  <2>2. {<<gw>> \o way : way \in {<<v>>}} = {<<gw>> \o <<v>>}
    OBVIOUS
  <2> QED BY <1>9, <1>13, <2>1, <2>2
<1>14. ASSUME a \in top, far # {}
       PROVE  {<<gw>> \o way : way \in x2[a]} = {<<gw, a, v>> : v \in far}
  <2>1. \A v \in far : <<gw>> \o <<a, v>> = <<gw, a, v>>
    BY ThreeSteps
  <2>2. {<<gw>> \o way : way \in {<<a, v>> : v \in far}} = {<<gw>> \o <<a, v>> : v \in far}
    OBVIOUS
  <2> QED BY <1>11, <1>14, <2>1, <2>2
<1>15. ASSUME NEW v \in top, Children(depth, v) # {} PROVE v = a /\ a # gw /\ far # {}
  BY <1>15
<1>16. x3[gw] \subseteq {<<gw, v>> : v \in {w \in top : Children(depth, w) = {}}}
                         \union {<<gw, a, v>> : v \in IF a \in top THEN far ELSE {}}
  <2>1. ASSUME NEW v \in top
        PROVE  {<<gw>> \o way : way \in x2[v]}
                 \subseteq {<<gw, y>> : y \in {w \in top : Children(depth, w) = {}}}
                           \union {<<gw, a, y>> : y \in IF a \in top THEN far ELSE {}}
    <3>1. CASE Children(depth, v) = {}
      BY <1>13, <3>1
    <3>2. CASE Children(depth, v) # {}
      BY <1>14, <1>15, <3>2
    <3> QED BY <3>1, <3>2
  <2> QED BY <1>12, <2>1
<1>17. ASSUME NEW v \in top, Children(depth, v) = {} PROVE <<gw, v>> \in x3[gw]
  <2>1. <<gw, v>> \in {<<gw>> \o way : way \in x2[v]}
    BY <1>13, <1>17
  <2> QED BY <1>12, <2>1
<1>18. ASSUME a \in top, NEW v \in far PROVE <<gw, a, v>> \in x3[gw]
  BY <1>12, <1>14, <1>18
<1>19. x3[gw] = {<<gw, v>> : v \in {w \in top : Children(depth, w) = {}}}
                \union {<<gw, a, v>> : v \in IF a \in top THEN far ELSE {}}
  BY <1>16, <1>17, <1>18
<1> QED BY <1>1, <1>7, <1>19

\* The map can be drawn as a tree.
LEMMA CanBeDrawn ==
  ASSUME NEW snap, NEW failed, map = BuildTopology(snap, failed), IsFiniteSet(Ids)
  PROVE  Drawable
<1> DEFINE gw == Gateway.id
<1>1. PICK a, near, far : TwoRings(gw, a, near, far)
  BY RingsAre
<1>2. PICK depth : depth = Depths
  OBVIOUS
<1> DEFINE top == Ids \ ({gw} \union far)
<1>3. /\ Children(depth, gw) = top
      /\ a # gw => Children(depth, a) = far
      /\ \A u \in Ids : u # gw /\ u # a => Children(depth, u) = {}
  BY <1>1, <1>2, ChildrenAre
<1>4. /\ gw \in Ids /\ near \subseteq Ids /\ far \subseteq Ids /\ near # {}
      /\ gw \notin near \union far /\ near \cap far = {}
      /\ (a # gw => a \in near) /\ (a = gw => far = {})
  BY <1>1 DEF TwoRings
<1> HIDE DEF gw
<1>5. /\ a \in Ids /\ top \in SUBSET Ids /\ top # {} /\ gw \notin top /\ gw \notin far /\ a \notin far
      /\ near \subseteq top
  BY <1>4
<1>6. \A l \in map.links : l.source \in Ids /\ l.target \in Ids
  BY LinksJoinNodes
<1> HIDE DEF top
<1>7. ASSUME NEW v \in Ids \ {gw} PROVE Cardinality({u \in Ids : v \in Children(depth, u)}) = 1
  <2>1. v \in top <=> v \notin far
    BY DEF top
  <2>2. CASE v \in far
    <3>1. a # gw
      BY <1>4, <2>2
    <3>2. {u \in Ids : v \in Children(depth, u)} = {a}
      BY <1>3, <1>5, <2>1, <2>2, <3>1
    <3> QED BY <3>2, FS_Singleton
  <2>3. CASE v \notin far
    <3>1. {u \in Ids : v \in Children(depth, u)} = {gw}
      BY <1>3, <1>4, <2>1, <2>3
    <3> QED BY <3>1, FS_Singleton
  <2> QED BY <2>2, <2>3
<1> DEFINE leaves == {v \in Ids : Children(depth, v) = {}}
           ways == WaysDown(depth)[gw]
<1>8. ways = {<<gw, v>> : v \in {w \in top : Children(depth, w) = {}}}
             \union {<<gw, a, v>> : v \in IF a \in top THEN far ELSE {}}
  BY <1>3, <1>4, <1>5, WaysAre
<1>9. Cardinality(ways) = Cardinality(leaves)
  <2>1. IsFiniteSet(leaves)
    BY FS_Subset
  <2>2. \A v \in leaves : v \in far \/ (v \in top /\ v \notin far)
    <3>1. \A v \in Ids : v = gw \/ v \in top \/ v \in far
      BY DEF top
    <3>2. gw \notin leaves
      BY <1>3, <1>5
    <3> QED BY <3>1, <3>2
  <2>3. far \subseteq leaves /\ (far # {} => a \in top)
    <3>1. \A v \in far : v \in Ids /\ v # gw /\ v # a
      BY <1>4, <1>5
    <3>2. far # {} => a \in top
      BY <1>4, <1>5
    <3> QED BY <1>3, <3>1, <3>2
  <2> DEFINE Way == [v \in leaves |-> IF v \in far THEN <<gw, a, v>> ELSE <<gw, v>>]
  <2>4. \A v \in leaves : Way[v] \in ways
    BY <1>8, <2>2, <2>3
  <2>5. \A v, w \in leaves : Way[v] = Way[w] => v = w
    <3>1. ASSUME NEW v \in leaves, NEW w \in leaves, Way[v] = Way[w] PROVE v = w
      <4>1. CASE v \in far /\ w \in far
        BY <3>1, <4>1
      <4>2. CASE v \notin far /\ w \notin far
        BY <3>1, <4>2
      <4>3. CASE v \in far /\ w \notin far
        <5>1. Len(<<gw, a, v>>) = 3 /\ Len(<<gw, w>>) = 2
          OBVIOUS
        <5> QED BY <3>1, <4>3, <5>1
      <4>4. CASE v \notin far /\ w \in far
        <5>1. Len(<<gw, a, w>>) = 3 /\ Len(<<gw, v>>) = 2
          OBVIOUS
        <5> QED BY <3>1, <4>4, <5>1
      <4> QED BY <4>1, <4>2, <4>3, <4>4
    <3> QED BY <3>1
  <2>6. \A p \in ways : \E v \in leaves : Way[v] = p
    <3>1. ASSUME NEW v \in top, Children(depth, v) = {} PROVE v \in leaves /\ Way[v] = <<gw, v>>
      BY <1>5, <3>1 DEF top
    <3>2. ASSUME NEW v \in far PROVE v \in leaves /\ Way[v] = <<gw, a, v>>
      BY <2>3
    <3> HIDE DEF Way, leaves, ways
    <3> QED BY <1>8, <3>1, <3>2
  <2>7. Way \in Bijection(leaves, ways)
    <3>1. Way \in [leaves -> ways]
      BY <2>4
    <3> HIDE DEF Way, leaves, ways
    <3> QED BY <2>5, <2>6, <3>1 DEF Bijection, Injection, Surjection, IsInjective
  <2> HIDE DEF Way, leaves, ways
  <2>8. ExistsBijection(leaves, ways)
    BY <2>7 DEF ExistsBijection
  <2> QED BY <2>1, <2>8, FS_Bijection
<1>10. Leaves(depth, gw) = Cardinality(leaves)
  BY <1>9 DEF Leaves
<1> QED BY <1>2, <1>6, <1>7, <1>10 DEF Drawable, gw

-----------------------------------------------------------------------------
\* A map that was built is the one that would be built now, if nothing changed.
LEMMA BuildSame ==
  ASSUME UNCHANGED <<seenDevices, managed>>, NEW snap, NEW failed
  PROVE  BuildTopology(snap, failed)' = BuildTopology(snap, failed)
<1>1. \A name : ByHost(name)' = ByHost(name)
  BY DEF ByHost
<1>2. \A c : IpOf(c)' = IpOf(c) /\ IsOnline(c)' = IsOnline(c)
  <2> SUFFICES ASSUME NEW c PROVE IpOf(c)' = IpOf(c) /\ IsOnline(c)' = IsOnline(c)
    OBVIOUS
  <2>1. PICK S : S = ByHost(c.name) /\ S = ByHost(c.name)'
    BY <1>1
  <2>2. /\ IpOf(c) = IF S = {} THEN NoIp ELSE (CHOOSE s \in S : TRUE).ip
        /\ IsOnline(c) = IF S = {} THEN c.enabled ELSE seenDevices[CHOOSE s \in S : TRUE]
    BY <2>1 DEF IpOf, IsOnline
  <2>3. /\ IpOf(c)' = IF S = {} THEN NoIp ELSE (CHOOSE s \in S : TRUE).ip
        /\ IsOnline(c)' = IF S = {} THEN c.enabled ELSE seenDevices'[CHOOSE s \in S : TRUE]
    BY <2>1 DEF IpOf, IsOnline
  <2> QED BY <2>2, <2>3
<1>3. DirectoryNodes(snap)' = DirectoryNodes(snap) /\ Matches(snap)' = Matches(snap)
  BY <1>1, <1>2 DEF DirectoryNodes, Matches
<1>4. Rest(snap)' = Rest(snap)
  BY <1>3 DEF Rest, Consumed
<1>5. DeviceNodes(snap)' = DeviceNodes(snap) /\ Endpoints(snap)' = Endpoints(snap)
  BY <1>4 DEF DeviceNodes, Endpoints
<1>6. MachineNodes(snap)' = MachineNodes(snap)
  BY <1>3, <1>5 DEF MachineNodes, FirstAt
<1>7. Anchor(snap)' = Anchor(snap)
  BY <1>3 DEF Anchor
<1>8. Links(snap)' = Links(snap)
  BY <1>3, <1>5, <1>6, <1>7 DEF Links
<1> QED BY <1>2, <1>3, <1>5, <1>6, <1>8 DEF BuildTopology

LEMMA BuildKeeps ==
  ASSUME MapInv, NEW fails \in BOOLEAN, Build(fails)
  PROVE  MapInv'
<1> USE DEF MapInv
<1>1. UNCHANGED <<session, joined, seenDevices, managed, sinceSwitch>>
  BY DEF Build
<1>2. KeptFor \in Nat
  BY MapAssumption
<1>3. PICK snap, failed :
        /\ map' = BuildTopology(snap, failed)
        /\ Distinct(snap.computers)
        /\ ~failed /\ snap.domain # session => sinceSwitch < KeptFor
        /\ CacheOK'
  <2>1. CASE session = NoDomain
    <3>1. map' = BuildTopology(Outside, FALSE) /\ UNCHANGED adCache
      BY <2>1 DEF Build
    <3>2. Distinct(Outside.computers) /\ Outside.domain = session
      BY <2>1, FS_EmptySet DEF Outside, Distinct
    <3>3. CacheOK'
      BY <1>1, <3>1 DEF CacheOK
    <3> QED BY <3>1, <3>2, <3>3
  <2>2. CASE session # NoDomain /\ Fresh
    <3>1. map' = BuildTopology(adCache.snap, FALSE) /\ UNCHANGED adCache
      BY <2>2 DEF Build
    <3>2. /\ Distinct(adCache.snap.computers)
          /\ adCache.snap.domain # session => sinceSwitch < KeptFor
      BY <1>2, <2>2 DEF Fresh, CacheOK
    <3>3. CacheOK'
      BY <1>1, <3>1 DEF CacheOK
    <3> QED BY <3>1, <3>2, <3>3
  <2>3. CASE session # NoDomain /\ ~Fresh /\ fails
    <3>1. map' = BuildTopology(Kept, TRUE) /\ UNCHANGED adCache
      BY <2>3 DEF Build
    <3>2. Distinct(Kept.computers)
      BY FS_EmptySet DEF Kept, Outside, Distinct, CacheOK
    <3>3. CacheOK'
      BY <1>1, <3>1 DEF CacheOK
    <3> QED BY <3>1, <3>2, <3>3
  <2>4. CASE session # NoDomain /\ ~Fresh /\ ~fails
    <3>1. map' = BuildTopology(Asked, FALSE) /\ adCache' = [snap |-> Asked, age |-> 0]
      BY <2>4 DEF Build
    <3>2. Distinct(Asked.computers) /\ Asked.domain = session
      BY <2>4 DEF Asked
    <3>3. CacheOK'
      BY <1>1, <1>2, <3>1, <3>2 DEF CacheOK
    <3> QED BY <3>1, <3>2, <3>3
  <2> QED BY <2>1, <2>2, <2>3, <2>4
<1>4. BuiltFrom(snap, failed)'
  BY <1>1, <1>3, BuildSame DEF BuiltFrom
<1> QED BY <1>1, <1>3, <1>4 DEF RowsOK

LEMMA ChangeKeeps ==
  ASSUME MapInv, MapNext, \A fails \in BOOLEAN : ~Build(fails)
  PROVE  MapInv'
<1> USE DEF MapInv
<1>1. KeptFor \in Nat
  BY MapAssumption
<1>2. map' = NoMap
  BY DEF MapNext, DomainChosen, Joins, Seen, Manages, MapTick, Changed
<1>3. ASSUME NEW d \in Domains \union {NoDomain}, DomainChosen(d) PROVE MapInv'
  <2>1. session' = d /\ sinceSwitch' = 0 /\ UNCHANGED <<joined, seenDevices, managed, adCache>>
    BY <1>3 DEF DomainChosen
  <2>2. CacheOK'
    BY <1>1, <2>1 DEF CacheOK
  <2> QED BY <1>1, <1>2, <2>1, <2>2 DEF RowsOK
<1>4. ASSUME NEW d \in Domains, NEW c \in Computers[d], Joins(d, c) PROVE MapInv'
  <2> DEFINE new == {k \in joined[d] : k.name # c.name} \union (IF c \in joined[d] THEN {} ELSE {c})
  <2>1. joined' = [joined EXCEPT ![d] = new] /\ UNCHANGED <<session, seenDevices, managed, adCache, sinceSwitch>>
    BY <1>4 DEF Joins
  <2>2. c.part \in Servers \union {"workstation"}
    BY MapAssumption
  <2>3. Distinct(new)
    <3>1. IsFiniteSet(joined[d])
      BY DEF Distinct
    <3>2. new \subseteq joined[d] \union {c}
      OBVIOUS
    <3>3. IsFiniteSet(joined[d] \union {c})
      BY <3>1, FS_Singleton, FS_Union
    <3>4. IsFiniteSet(new)
      BY <3>2, <3>3, FS_Subset
    <3> QED BY <2>2, <3>4 DEF Distinct
  <2> HIDE DEF new
  <2>4. CacheOK' /\ RowsOK'
    BY <2>1 DEF CacheOK, RowsOK
  <2> QED BY <1>2, <2>1, <2>3, <2>4
<1>5. ASSUME NEW s \in Sightings, NEW online \in BOOLEAN, Seen(s, online) PROVE MapInv'
  <2> DEFINE others == {t \in DOMAIN seenDevices : t.ip # s.ip}
  <2>1. /\ seenDevices' = [t \in {s} \union others |-> IF t = s THEN online ELSE seenDevices[t]]
        /\ UNCHANGED <<session, joined, managed, adCache, sinceSwitch>>
    BY <1>5 DEF Seen
  <2>2. DOMAIN seenDevices' = {s} \union others
    BY <2>1
  <2>3. RowsOK'
    <3>1. others \subseteq DOMAIN seenDevices /\ IsFiniteSet(DOMAIN seenDevices)
      BY DEF RowsOK
    <3>2. IsFiniteSet(others) /\ IsFiniteSet({s})
      BY <3>1, FS_Subset, FS_Singleton
    <3>3. IsFiniteSet({s} \union others)
      BY <3>2, FS_Union
    <3> QED BY <2>2, <3>3 DEF RowsOK
  <2>4. CacheOK'
    BY <2>1 DEF CacheOK
  <2> QED BY <1>2, <2>1, <2>3, <2>4
<1>6. ASSUME NEW m \in Machines, Manages(m) PROVE MapInv'
  <2>1. UNCHANGED <<session, joined, seenDevices, adCache, sinceSwitch>>
    BY <1>6 DEF Manages
  <2>2. managed' = managed \ {m} \/ managed' = managed \union {m}
    BY <1>6 DEF Manages
  <2>3. IsFiniteSet(managed')
    BY <2>2, FS_Subset, FS_Singleton, FS_Union
  <2> QED BY <1>2, <2>1, <2>3 DEF CacheOK, RowsOK
<1>7. CASE MapTick
  <2>1. /\ adCache' = (IF adCache = NoAnswers \/ adCache.age = KeptFor THEN adCache
                       ELSE [adCache EXCEPT !.age = @ + 1])
        /\ sinceSwitch' = (IF sinceSwitch = KeptFor THEN sinceSwitch ELSE sinceSwitch + 1)
        /\ UNCHANGED <<session, joined, seenDevices, managed>>
    BY <1>7 DEF MapTick
  <2>2. sinceSwitch' \in 0 .. KeptFor
    BY <1>1, <2>1
  <2>3. CacheOK'
    <3>1. CASE adCache = NoAnswers
      BY <2>1, <3>1 DEF CacheOK
    <3>2. CASE adCache # NoAnswers
      BY <1>1, <2>1, <3>2 DEF CacheOK
    <3> QED BY <3>1, <3>2
  <2> QED BY <1>2, <2>1, <2>2, <2>3 DEF RowsOK
<1> QED BY <1>3, <1>4, <1>5, <1>6, <1>7 DEF MapNext

LEMMA MapFirst == MapInit => MapInv
<1> SUFFICES ASSUME MapInit PROVE MapInv
  OBVIOUS
<1>1. DOMAIN seenDevices = {} /\ managed = {} /\ \A d \in Domains : joined[d] = {}
  BY DEF MapInit
<1>2. RowsOK /\ IsFiniteSet(managed) /\ \A d \in Domains : Distinct(joined[d])
  BY <1>1, FS_EmptySet DEF RowsOK, Distinct
<1> QED BY <1>2, MapAssumption DEF MapInit, MapInv, CacheOK

LEMMA MapStays == MapInv /\ [MapNext]_mapVars => MapInv'
<1> SUFFICES ASSUME MapInv, [MapNext]_mapVars PROVE MapInv'
  OBVIOUS
<1>1. CASE MapNext
  BY <1>1, BuildKeeps, ChangeKeeps
<1>2. CASE UNCHANGED mapVars
  <2>1. UNCHANGED <<session, joined, seenDevices, managed, adCache, sinceSwitch, map>>
    BY <1>2 DEF mapVars
  <2>2. \A snap, failed : BuiltFrom(snap, failed) => BuiltFrom(snap, failed)'
    BY <2>1, BuildSame DEF BuiltFrom
  <2>3. RowsOK' /\ CacheOK'
    BY <2>1 DEF MapInv, RowsOK, CacheOK
  <2> QED BY <2>1, <2>2, <2>3 DEF MapInv
<1> QED BY <1>1, <1>2

LEMMA MapTells == MapInv => MapSound
<1> SUFFICES ASSUME MapInv, map # NoMap PROVE DevicesOnce /\ OneAtAnAddress /\ DomainIsOurs /\ Drawable
  BY DEF MapSound, MapPlaced
<1>1. PICK snap, failed : BuiltFrom(snap, failed)
  BY DEF MapInv
<1>2. DevicesOnce /\ OneAtAnAddress
  BY <1>1, EachOnce, EachAlone DEF MapInv
<1>3. map.domain = snap.domain /\ map.failed = failed
  BY <1>1, BuiltIs DEF BuiltFrom
<1>4. DomainIsOurs
  BY <1>1, <1>3 DEF DomainIsOurs, BuiltFrom
<1>5. map = BuildTopology(snap, failed) /\ IsFiniteSet(snap.computers)
  BY <1>1 DEF BuiltFrom, Distinct
<1>6. IsFiniteSet(Ids)
  BY <1>5, NodesFinite DEF MapInv, RowsOK
<1>7. Drawable
  BY <1>5, <1>6, CanBeDrawn
<1> QED BY <1>2, <1>4, <1>7

\* Every device with a name of its own is on the map once, no device or machine is at the
\* address of another node, the domain shown is the one signed in to but for the time that
\* answers are kept, and the map can be drawn as a tree, for any inventory, directory and
\* machines.
THEOREM DevicesArePlaced == MapSpec => []MapSound
BY MapFirst, MapStays, MapTells, PTL DEF MapSpec

-----------------------------------------------------------------------------
(* The parts together.                                                     *)

DefenceInv == DetectInv /\ FeedInv /\ MapInv

\* A detection is told at its severity and no milder at a higher sensitivity, and the map of
\* the network has every device once, in a tree: of the parts together, for any traffic, keys,
\* inventory, directory and machines.
THEOREM AlertsAreKept == MCSpec => []AlertsKept
<1>1. MCInit => DefenceInv
  BY DetectFirst, FeedFirst, MapFirst DEF MCInit, DefenceInv
<1>2. DefenceInv /\ [MCNext]_defenceVars => DefenceInv'
  <2> SUFFICES ASSUME DefenceInv, [MCNext]_defenceVars PROVE DefenceInv'
    OBVIOUS
  <2>1. /\ [DetectNext]_detectVars
        /\ [EventsNext]_eventVars
        /\ [MapNext]_mapVars
    BY DEF MCNext, defenceVars
  <2> QED BY <2>1, DetectStays, FeedStays, MapStays DEF DefenceInv
<1>3. DefenceInv => AlertsKept
  BY DetectTells, FeedTells, MapTells DEF DefenceInv, AlertsKept
<1> QED BY <1>1, <1>2, <1>3, PTL DEF MCSpec
=============================================================================

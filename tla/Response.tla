------------------------------ MODULE Response ------------------------------
(***************************************************************************)
(* What is done about a detection: active response (security/response.ts), *)
(* the remediation page (security/remediation.ts) and the firewall both    *)
(* write their blocks into, PolicyFirewall.  Only the firewall's rules are *)
(* in a file; what has been blocked, applied and dismissed is in memory.   *)
(* A detection is a source with the severity and kind that matter here:    *)
(* whether its source is an offender (OFFENDER_KINDS) and whether the      *)
(* policy would block it (severity, kind).                                 *)
(***************************************************************************)
EXTENDS PolicyFirewall

VARIABLES
  responding,   \* active response is switched on
  blocked,      \* response.ts: the sources it has blocked
  pending,      \* threats kept on the remediation page, by source
  dismissed,
  applied

responseVars == <<responding, blocked, pending, dismissed, applied>>
vars == <<firewallVars, responseVars>>

ResponseInit ==
  /\ FirewallInit
  /\ responding = FALSE
  /\ blocked = {} /\ pending = {}
  /\ dismissed = {} /\ applied = {}

\* A block names no port.
Block(s) ==
  [on |-> TRUE, dir |-> "inbound", action |-> "drop", source |-> s, services |-> Services]

-----------------------------------------------------------------------------
\* maybeRespond: where the policy says so, a source is blocked that has not been.
MaybeRespond(s, blockable) ==
  \/ /\ responding /\ blockable /\ s \notin blocked
     /\ \E r \in Rules : RuleAdd(r, Block(s))
     /\ blocked' = blocked \union {s}
  \/ /\ ~(responding /\ blockable /\ s \notin blocked)
     /\ UNCHANGED <<firewallVars, blocked>>

\* A bug to be caught: only what is pending already is not recorded again.
RecordThreatAnew(s, offender) ==
  pending' = IF offender THEN pending \union {s} ELSE pending

RecordThreat(s, offender) ==
  pending' = IF offender /\ s \notin dismissed \union applied
             THEN pending \union {s} ELSE pending

\* The event runner acts on a detection of the last two minutes, of any source at
\* any time, if monitoring is not paused.  If the write fails in ruleAdd, the
\* exception ends the process: see Killed.
Detect(s) ==
  /\ \E blockable, offender \in BOOLEAN :
       MaybeRespond(s, blockable) /\ RecordThreat(s, offender)
  /\ UNCHANGED <<responding, dismissed, applied>>

Expires(s) ==
  /\ s \in pending
  /\ pending' = pending \ {s}
  /\ UNCHANGED <<firewallVars, responding, blocked, dismissed, applied>>

\* deriveItems: any source may be pending or detected at this moment; one that was
\* dismissed is left out, one that was applied is not.
Offered(s) == s \notin dismissed

\* applyRemediation of an item that is offered; one applied before is applied again.
\* If the write of the rule fails, the rule is in memory and the item is as it was.
Apply(s) ==
  /\ Offered(s)
  /\ \E r \in Rules : RuleAdd(r, Block(s))
  /\ \/ UNCHANGED <<applied, pending>>
     \/ applied' = applied \union {s} /\ pending' = pending \ {s}
  /\ UNCHANGED <<responding, blocked, dismissed>>

\* applyMany goes by what is shown as applied.
ApplyMany(s) == s \notin applied /\ Apply(s)

Dismiss(s) ==
  /\ dismissed' = dismissed \union {s}
  /\ pending' = pending \ {s}
  /\ UNCHANGED <<firewallVars, responding, blocked, applied>>

SetActiveResponse ==
  /\ responding' \in BOOLEAN
  /\ UNCHANGED <<firewallVars, blocked, pending, dismissed, applied>>

\* The process ends, by the operator's hand or by the exception of a write that
\* failed in the event runner, and starts again.
Killed ==
  /\ FirewallRestart
  /\ responding' = FALSE
  /\ blocked' = {} /\ pending' = {}
  /\ dismissed' = {} /\ applied' = {}

ResponseNext(inputs) ==
  \/ FirewallOperator(inputs) /\ UNCHANGED responseVars
  \/ \E s \in Sources : Detect(s) \/ Expires(s) \/ Apply(s) \/ ApplyMany(s) \/ Dismiss(s)
  \/ SetActiveResponse
  \/ Killed

ResponseSpec == ResponseInit /\ [][ResponseNext(RuleInput)]_vars

-----------------------------------------------------------------------------
ResponseTypeOK ==
  /\ DOMAIN acl \subseteq Rules
  /\ \A r \in DOMAIN acl : acl[r] \in Rule
  /\ DOMAIN zones \subseteq Zones
  /\ \A z \in DOMAIN zones : zones[z] \subseteq Sources
  /\ edited \subseteq Sources /\ renumbered \in BOOLEAN
  /\ responding \in BOOLEAN
  /\ blocked \subseteq Sources /\ pending \subseteq Sources
  /\ dismissed \subseteq Sources /\ applied \subseteq Sources

NumbersDiffer == \A q, r \in DOMAIN acl : acl[q].order = acl[r].order => q = r

\* No two rules have the same number, after any adding, deleting and moving, unless a
\* PATCH gave one: with two of a number neither the first match nor a move is defined
\* by the numbers.
OrdersDistinct == ~renumbered => NumbersDiffer

Standing(s) == \E r \in DOMAIN acl : /\ acl[r].on
                                    /\ acl[r].dir = "inbound"
                                    /\ acl[r].action = "drop"
                                    /\ acl[r].source = s
                                    /\ acl[r].services = Services

\* A source that one of the two pages lists as blocked has its rule, unless the
\* operator took a rule of it away; also when writes fail, and after a restart.
BlocksStand == \A s \in blocked \union applied : Standing(s) \/ s \in edited

\* What was applied or dismissed does not come back to the page as pending when
\* the threat is detected again.
HandledStays == pending \intersect (dismissed \union applied) = {}

\* A rule that is added, by the operator, a detection or a remediation, decides
\* only about the sources that no rule decided about: it opens and closes
\* nothing that was ruled on before.
AddedDecidesTheRest ==
  [][NumbersDiffer /\ DOMAIN acl \subseteq DOMAIN acl' /\ DOMAIN acl # DOMAIN acl'
       => \A s \in Sources, dir \in Directions :
            Matching(s, dir) # {} => Verdict(s, dir)' = Verdict(s, dir)]_vars

\* What the script does to a packet is what evaluate says of its source, if each zone that
\* a rule names is there and has addresses, and if the rule that evaluate goes by is for
\* such packets: of ports and protocols evaluate knows nothing, so with a rule for one
\* port it speaks for all of them, where the script goes on to the next rule.
ExportAgrees ==
  NumbersDiffer /\ (\A r \in DOMAIN acl : acl[r].source \in Zones =>
                  acl[r].source \in DOMAIN zones /\ zones[acl[r].source] # {})
  => \A s \in Sources, dir \in Directions, v \in Services :
       LET R == Matching(s, dir)
       IN  (R # {} => v \in acl[First(R)].services)
             => ExportedVerdict(s, dir, v) = Verdict(s, dir)

\* Together: the rules have one order, and the script follows it.
PolicyOrdered == OrdersDistinct /\ ExportAgrees

\* Together: what is shown as blocked is blocked, and what was handled is done.
ThreatsHandled == BlocksStand /\ HandledStays

-----------------------------------------------------------------------------
(* The numbered rules are a RuleList.                                      *)

\* The rule that has n - 1 others before it.
Nth(n) == CHOOSE r \in DOMAIN acl :
            Cardinality({q \in DOMAIN acl : acl[q].order < acl[r].order}) = n - 1

NameAndText(r) ==
  <<r, acl[r].on, acl[r].dir, acl[r].action, acl[r].source, acl[r].services>>

\* Once a PATCH has changed a number the places are what it made of them, and the list is
\* given up, until the file is lost.
List == INSTANCE RuleList
  WITH Items <- Rules \X BOOLEAN \X Directions \X Actions \X Matchers \X ForServices,
       list <- IF renumbered THEN << >>
               ELSE [n \in 1 .. Cardinality(DOMAIN acl) |-> NameAndText(Nth(n))]

\* The rules, read by their numbers, are a list in which a new one goes to the
\* end, a move passes one neighbour, and nothing else changes a place, as long as no
\* PATCH changes a number.
IsRuleList == List!ListSpec
=============================================================================

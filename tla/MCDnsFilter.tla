---------------------------- MODULE MCDnsFilter ----------------------------
(* Instances of DnsFilter for TLC.  A decision is about one name, so one   *)
(* name that lists cover is enough, beside a local one.  What only the     *)
(* decision reads is left idle where the rebuilds are the matter (there    *)
(* the name is a local one), and the other way round.                      *)
EXTENDS DnsFilter, TLC

CONSTANTS site, host

Manual(type, prio, groups, enabled) ==
  [type |-> type, prio |-> prio, groups |-> groups, enabled |-> enabled, names |-> {site}]
List(type, prio, groups, enabled, http) ==
  [type |-> type, prio |-> prio, groups |-> groups, enabled |-> enabled, http |-> http]

BuiltIn == List("block", 1, {0}, TRUE, FALSE)
Public == List("block", 1, {0}, TRUE, TRUE)
SomeContent == {{}, {site}}

\* For the rebuilds: a manual entry, and lists that are switched off and on.
OneManualRow == {Manual("block", 2, {0}, TRUE)}
SwitchedRows == {BuiltIn, Public, List("block", 1, {0}, FALSE, TRUE)}

\* For the answers: every order of precedence, within a group and across two.
SomeManualRows ==
  {Manual("allow", 2, {1}, TRUE), Manual("block", 2, {}, TRUE), Manual("block", 2, {}, FALSE)}
SomeAdlistRows == {BuiltIn, Public, List("block", 2, {1}, TRUE, TRUE), List("allow", 1, {0}, TRUE, TRUE)}

\* Where the rebuilds are the matter nobody asks for a name, so that no action
\* of Resolve is ever enabled: it is left out.  A download ends: it is cut off
\* after 25 seconds.
RebuildNext == ListEdit \/ (\E w \in Worker : Gravity(w)) \/ Manage
RebuildSpec ==
  /\ Init /\ [][RebuildNext]_vars
  /\ \A w \in Worker : WF_vars(\E a \in AdlistId : FetchOk(w, a) \/ FetchFails(w, a))
=============================================================================

------------------------------ MODULE RuleList ------------------------------
(***************************************************************************)
(* What the firewall page promises of its policy: a list of rules, read    *)
(* from the top.  A new rule goes to the end, a rule is moved one place at *)
(* a time past its neighbour, edited or deleted where it is; nothing else  *)
(* changes the places of the others.                                       *)
(***************************************************************************)
EXTENDS Naturals, Sequences

CONSTANT Items      \* a rule with its name

VARIABLE list

ListInit == list = << >>

\* The steps, from one list to the next.
AppendOne(old, new) ==
  /\ Len(new) = Len(old) + 1
  /\ new[Len(new)] \in Items
  /\ old = SubSeq(new, 1, Len(old))

DeleteOne(old, new) ==
  \E n \in DOMAIN old : new = SubSeq(old, 1, n - 1) \o SubSeq(old, n + 1, Len(old))

EditOne(old, new) ==
  /\ Len(new) = Len(old)
  /\ \E n \in DOMAIN old : new[n] \in Items /\ new = [old EXCEPT ![n] = new[n]]

MoveOne(old, new) ==
  \E n \in DOMAIN old \ {1} : new = [old EXCEPT ![n] = old[n - 1], ![n - 1] = old[n]]

Step(old, new) ==
  \/ AppendOne(old, new)
  \/ DeleteOne(old, new)
  \/ EditOne(old, new)
  \/ MoveOne(old, new)
  \/ new = << >>

\* (The two lists are named so that TLC evaluates them once.)
ListNext == \E old \in {list}, new \in {list'} : Step(old, new)

ListSpec == ListInit /\ [][ListNext]_list
=============================================================================

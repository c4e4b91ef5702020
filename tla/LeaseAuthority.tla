--------------------------- MODULE LeaseAuthority ---------------------------
(***************************************************************************)
(* What a DHCP server promises about addresses, and nothing else: an       *)
(* address is granted to one client, and passes to another client only     *)
(* after the first one's grant has ended.  DhcpLeases implements it.       *)
(***************************************************************************)
CONSTANTS Client,   \* the clients that ask for addresses
          Addr,     \* the addresses that can be granted
          Nobody    \* the owner of an address that is not granted

VARIABLE owner      \* owner[a]: the client address a is granted to

AuthorityTypeOK == owner \in [Addr -> Client \cup {Nobody}]

AuthorityInit == owner = [a \in Addr |-> Nobody]

\* An ACK: the address goes to c, which held it already or found it free.
Grant(c, a) ==
  /\ owner[a] \in {c, Nobody}
  /\ owner' = [owner EXCEPT ![a] = c]

\* Grants that end: released, declined, abandoned or run out.
End(S) == owner' = [a \in Addr |-> IF a \in S THEN Nobody ELSE owner[a]]

AuthorityNext ==
  \/ \E c \in Client, a \in Addr : Grant(c, a)
  \/ \E S \in SUBSET Addr : End(S)

AuthoritySpec == AuthorityInit /\ [][AuthorityNext]_owner
=============================================================================

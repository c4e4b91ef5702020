---------------------------- MODULE MCDhcpLeases ----------------------------
EXTENDS DhcpLeases, TLC
CONSTANTS c1, c2, c3
Clients2 == {c1, c2}
Clients3 == {c1, c2, c3}
Symmetric == Permutations(Client)
NoReservations == {}
\* c1 has address 3 reserved; c2 has it in another scope.
Reserved3 == {[mac |-> c1, ip |-> 3, here |-> TRUE],
              [mac |-> c2, ip |-> 3, here |-> FALSE]}
\* c2 has an address reserved in another scope only.
ReservedElsewhere == {[mac |-> c2, ip |-> 3, here |-> FALSE]}
=============================================================================

----------------------------- MODULE DhcpLeases -----------------------------
(***************************************************************************)
(* The DHCP server of apps/control-plane/src/dhcp: the lease table         *)
(* (db.ts), the allocator (allocator.ts) and the message handler           *)
(* (server.ts), with the clients it answers and the operator who edits its *)
(* tables through routes/dhcp.ts.                                          *)
(*                                                                         *)
(* The handler runs to completion on one thread, so one message is one     *)
(* step.  A DISCOVER or a REQUEST may come from any client, for any        *)
(* address, at any moment, which covers every loss, delay, repetition and  *)
(* reordering of those messages.  RELEASE, DECLINE and a REQUEST to        *)
(* another server are given an explicit network (net): the client gives    *)
(* its address up when it sends them, the server learns it later.          *)
(*                                                                         *)
(* Time is relative: a row and a promise hold the lease time left, and     *)
(* Tick takes one unit from each, so no clock has to be bounded.           *)
(***************************************************************************)
EXTENDS Integers, FiniteSets

CONSTANTS
  Client,            \* MAC addresses
  Addr,              \* addresses, as ipToInt gives them
  RangeStart,        \* first address of the scope's range
  RangeEnd,          \* last address of the scope's range
  LeaseTime,         \* leaseSeconds, in ticks
  NoRow,             \* "no such row"
  Prompt,            \* TRUE: a give-up message arrives once, in order and
                     \*       before the next tick
  InitReboot,        \* TRUE: clients also REQUEST addresses not offered them
  Edits,             \* the kinds of edits the operator makes
  MaxReservations,   \* bound: the operator adds no reservation beyond it
  MaxPending,        \* bound: give-up messages on their way at once
  InitReservations,  \* the reservations the server starts with
  InitExcluded       \* the excluded addresses it starts with

NoAddr == 0          \* 0.0.0.0

EditKinds == {"reserve", "exclude", "delete", "filter", "scope"}

Reservation == [mac : Client, ip : Addr, here : BOOLEAN]

ASSUME AddrAssumption == Addr \subseteq Nat \ {NoAddr}
ASSUME RangeAssumption == RangeStart \in Nat /\ RangeEnd \in Nat
ASSUME LeaseTimeAssumption == LeaseTime \in Nat \ {0}
ASSUME SwitchAssumption == /\ Prompt \in BOOLEAN
                           /\ InitReboot \in BOOLEAN
                           /\ Edits \subseteq EditKinds
ASSUME InitExcludedAssumption == InitExcluded \subseteq Addr
\* The operator starts from a table that reserves an address for one MAC.
ASSUME InitReservationsAssumption ==
  /\ InitReservations \subseteq Reservation
  /\ \A r, s \in InitReservations : r.here /\ s.here /\ r.ip = s.ip => r.mac = s.mac

RowState == {"offered", "active", "released", "declined"}
Row == [mac : Client, state : RowState, ttl : 0..LeaseTime]
ASSUME NoRowAssumption == NoRow \notin Row /\ NoRow \notin Reservation

GiveUp == [kind : {"release", "decline", "other"}, mac : Client, ip : Addr \cup {NoAddr}]

VARIABLES
  lease,         \* dhcp_leases, keyed by its UNIQUE column ip
  reservations,  \* dhcp_reservations; here: of this scope
  excluded,      \* the addresses in some row of dhcp_exclusions
  admitted,      \* the MACs the allow/deny filters let through
  scopeOn,       \* whether the scope is active
  held,          \* held[c][a]: lease time left of the ACKs sent to c for a
  net,           \* give-up messages on their way to the server
  touched        \* addresses whose rows the operator took away or reserved

vars == <<lease, reservations, excluded, admitted, scopeOn, held, net, touched>>

TypeOK ==
  /\ lease \in [Addr -> Row \cup {NoRow}]
  /\ reservations \subseteq Reservation
  /\ excluded \subseteq Addr
  /\ admitted \subseteq Client
  /\ scopeOn \in BOOLEAN
  /\ held \in [Client -> [Addr -> 0..LeaseTime]]
  /\ net \subseteq GiveUp
  /\ touched \subseteq Addr

Init ==
  /\ lease = [a \in Addr |-> NoRow]
  /\ reservations = InitReservations
  /\ excluded = InitExcluded
  /\ admitted = Client
  /\ scopeOn = TRUE
  /\ held = [c \in Client |-> [a \in Addr |-> 0]]
  /\ net = {}
  /\ touched = {}

-----------------------------------------------------------------------------
(* Queries.  SELECT without ORDER BY: any matching row can come first, so  *)
(* the lookups by MAC give the set of possible answers.                    *)

InRange(a) == RangeStart <= a /\ a <= RangeEnd

IsRow(a) == lease[a] # NoRow

ReservationByMac(c) ==
  LET rows == {r \in reservations : r.mac = c}
  IN  IF rows = {} THEN {NoRow} ELSE rows

LeaseByMac(c) ==
  LET rows == {a \in Addr : IsRow(a) /\ lease[a].mac = c}
  IN  IF rows = {} THEN {NoAddr} ELSE rows

ReservedHere(a) == \E r \in reservations : r.here /\ r.ip = a

\* A bug to be caught: the lease runs one tick too long.
UpsertTooLong(a, c, state) ==
  [lease EXCEPT ![a] = [mac |-> c, state |-> state, ttl |-> LeaseTime + 1]]

Upsert(a, c, state) ==
  [lease EXCEPT ![a] = [mac |-> c, state |-> state, ttl |-> LeaseTime]]

SetState(a, state) ==
  IF a \in Addr /\ IsRow(a) THEN [lease EXCEPT ![a].state = state] ELSE lease

-----------------------------------------------------------------------------
(* The allocator.                                                          *)

\* Bugs to be caught: an offered row protects nobody; the table of leases or
\* of reservations is not looked at.
LiveUnlessOffered(a) ==
  IsRow(a) /\ lease[a].ttl > 0 /\ lease[a].state \notin {"released", "offered"}

\* A row that keeps its address from other clients.
Live(a) == IsRow(a) /\ lease[a].ttl > 0 /\ lease[a].state # "released"

FreeIgnoringLeases(c, a) == a \notin excluded /\ ~ReservedHere(a)
FreeIgnoringReservations(c, a) == a \notin excluded /\ (Live(a) => lease[a].mac = c)

Free(c, a) ==
  /\ a \notin excluded
  /\ ~ReservedHere(a)
  /\ Live(a) => lease[a].mac = c

FreeInRange(c) == {a \in Addr : InRange(a) /\ Free(c, a)}

\* The addresses allocate may return; none when the pool is exhausted.
Allocate(c, req) ==
  {a \in Addr : \E res \in ReservationByMac(c), old \in LeaseByMac(c) :
     IF res # NoRow /\ res.here THEN a = res.ip
     ELSE IF old # NoAddr /\ InRange(old) /\ old \notin excluded THEN a = old
     ELSE IF req \in FreeInRange(c) THEN a = req
     ELSE a \in FreeInRange(c) /\ \A b \in FreeInRange(c) : a <= b}

\* Bugs to be caught: canAssign forgets the reservations of others, the
\* leases of others, or that the client's own lease is no obstacle.
CanAssignIgnoringReservations(c, a, res) ==
  InRange(a) /\ a \notin excluded /\ (Live(a) => lease[a].mac = c)
CanAssignIgnoringLeases(c, a, res) ==
  IF res # NoRow /\ res.here THEN res.ip = a
  ELSE InRange(a) /\ a \notin excluded /\ ~ReservedHere(a)
CanAssignFreshOnly(c, a, res) ==
  IF res # NoRow /\ res.here THEN res.ip = a
  ELSE InRange(a) /\ a \notin excluded /\ ~ReservedHere(a) /\ ~Live(a)

CanAssign(c, a, res) ==
  IF res # NoRow /\ res.here THEN res.ip = a
  ELSE /\ InRange(a)
       /\ a \notin excluded
       /\ ~ReservedHere(a)
       /\ Live(a) => lease[a].mac = c

-----------------------------------------------------------------------------
(* The message handler.                                                    *)

\* handle() drops a message the filters refuse or no scope covers.
Serving(c) == c \in admitted /\ scopeOn

\* A prompt network delivers a client's messages in the order it sent them.
NothingPending(c) == \A m \in net : m.mac # c
InOrder(c) == Prompt => NothingPending(c)

Discover(c, req) ==
  /\ Serving(c) /\ InOrder(c)
  /\ \E a \in Allocate(c, req) : lease' = Upsert(a, c, "offered")
  /\ UNCHANGED <<reservations, excluded, admitted, scopeOn, held, net, touched>>

\* The client has an offer or a lease for a; with InitReboot it may also
\* remember a from elsewhere.
MayRequest(c, a) ==
  \/ InitReboot
  \/ /\ IsRow(a) /\ lease[a].mac = c /\ lease[a].ttl > 0
     /\ lease[a].state \in {"offered", "active"}

\* The ACK.  Every other REQUEST is answered with a NAK and changes nothing.
Request(c, a) ==
  /\ Serving(c) /\ InOrder(c) /\ MayRequest(c, a)
  /\ \E res \in ReservationByMac(c) : CanAssign(c, a, res)
  /\ lease' = Upsert(a, c, "active")
  /\ held' = [held EXCEPT ![c][a] = LeaseTime]
  /\ UNCHANGED <<reservations, excluded, admitted, scopeOn, net, touched>>

-----------------------------------------------------------------------------
(* Give-up messages: sent by a client that stops using what it held.       *)

Send(kind, c, a) == /\ Cardinality(net) < MaxPending
                    /\ net' = net \cup {[kind |-> kind, mac |-> c, ip |-> a]}

SendRelease(c, a) ==
  /\ held[c][a] > 0 /\ InOrder(c)
  /\ \E kind \in {"release", "decline"} : Send(kind, c, a)
  /\ held' = [held EXCEPT ![c][a] = 0]
  /\ UNCHANGED <<lease, reservations, excluded, admitted, scopeOn, touched>>

\* The client takes another server's offer: it uses none of our addresses.
ChooseOther(c) ==
  /\ InOrder(c)
  /\ Send("other", c, NoAddr)
  /\ held' = [held EXCEPT ![c] = [a \in Addr |-> 0]]
  /\ UNCHANGED <<lease, reservations, excluded, admitted, scopeOn, touched>>

\* A network that is not prompt may deliver the message again.
Taken(m) == IF Prompt THEN net' = net \ {m} ELSE net' \in {net, net \ {m}}

ServeRelease(m) ==
  /\ m.kind = "release"
  /\ lease' = IF Serving(m.mac) THEN SetState(m.ip, "released") ELSE lease

ServeDecline(m) ==
  /\ m.kind = "decline"
  /\ lease' = IF Serving(m.mac) THEN SetState(m.ip, "declined") ELSE lease

\* A REQUEST that names another server: our offer to that client is deleted.
ServeOther(m) ==
  /\ m.kind = "other"
  /\ \E old \in LeaseByMac(m.mac) :
       lease' = IF Serving(m.mac) /\ old # NoAddr /\ lease[old].state = "offered"
                THEN [lease EXCEPT ![old] = NoRow] ELSE lease

Serve(m) ==
  /\ ServeRelease(m) \/ ServeDecline(m) \/ ServeOther(m)
  /\ Taken(m)
  /\ UNCHANGED <<reservations, excluded, admitted, scopeOn, held, touched>>

Lose(m) ==
  /\ net' = net \ {m}
  /\ UNCHANGED <<lease, reservations, excluded, admitted, scopeOn, held, touched>>

-----------------------------------------------------------------------------
(* Time and maintenance.                                                   *)

Less(n) == IF n > 0 THEN n - 1 ELSE 0

Tick ==
  /\ Prompt => net = {}
  /\ lease' = [a \in Addr |-> IF IsRow(a) THEN [lease[a] EXCEPT !.ttl = Less(@)] ELSE NoRow]
  /\ held' = [c \in Client |-> [a \in Addr |-> Less(held[c][a])]]
  /\ UNCHANGED <<reservations, excluded, admitted, scopeOn, net, touched>>

\* A bug to be caught: the expiry is not compared with the cutoff.
PrunableAtOnce(a) == IsRow(a) /\ lease[a].state # "active"

\* pruneLeasesByAge: of the rows that ran out, those older than the cutoff.
Prunable(a) == IsRow(a) /\ lease[a].state # "active" /\ lease[a].ttl = 0

Prune(S) ==
  /\ S # {} /\ \A a \in S : Prunable(a)
  /\ lease' = [a \in Addr |-> IF a \in S THEN NoRow ELSE lease[a]]
  /\ UNCHANGED <<reservations, excluded, admitted, scopeOn, held, net, touched>>

-----------------------------------------------------------------------------
(* The operator, through routes/dhcp.ts.                                   *)

ReservationAdd(r) ==
  /\ "reserve" \in Edits /\ Cardinality(reservations) < MaxReservations
  /\ reservations' = reservations \cup {r}
  /\ touched' = IF r.here THEN touched \cup {r.ip} ELSE touched
  /\ UNCHANGED <<lease, excluded, admitted, scopeOn, held, net>>

ReservationDelete(r) ==
  /\ "reserve" \in Edits /\ r \in reservations
  /\ reservations' = reservations \ {r}
  /\ UNCHANGED <<lease, excluded, admitted, scopeOn, held, net, touched>>

\* Exclusion ranges are added and deleted: S is what they cover afterwards.
ExclusionEdit(S) ==
  /\ "exclude" \in Edits
  /\ excluded' = S
  /\ UNCHANGED <<lease, reservations, admitted, scopeOn, held, net, touched>>

LeaseDelete(a) ==
  /\ "delete" \in Edits
  /\ lease' = [lease EXCEPT ![a] = NoRow]
  /\ touched' = touched \cup {a}
  /\ UNCHANGED <<reservations, excluded, admitted, scopeOn, held, net>>

FilterEdit(S) ==
  /\ "filter" \in Edits
  /\ admitted' = S
  /\ UNCHANGED <<lease, reservations, excluded, scopeOn, held, net, touched>>

\* The scope is suspended, resumed or, after its deletion, added anew.
ScopeUpdate ==
  /\ "scope" \in Edits
  /\ scopeOn' = ~scopeOn
  /\ UNCHANGED <<lease, reservations, excluded, admitted, held, net, touched>>

\* The scope goes with its exclusions, reservations and leases.
ScopeDelete ==
  /\ "scope" \in Edits
  /\ lease' = [a \in Addr |-> NoRow]
  /\ reservations' = {r \in reservations : ~r.here}
  /\ excluded' = {}
  /\ scopeOn' = FALSE
  /\ touched' = Addr
  /\ UNCHANGED <<admitted, held, net>>

-----------------------------------------------------------------------------
ClientStep(c) ==
  \/ \E req \in Addr \cup {NoAddr} : Discover(c, req)
  \/ \E a \in Addr : Request(c, a) \/ SendRelease(c, a)
  \/ ChooseOther(c)

NetworkStep == \E m \in net : Serve(m) \/ Lose(m)

OperatorStep ==
  \/ \E r \in Reservation : ReservationAdd(r) \/ ReservationDelete(r)
  \/ \E S \in SUBSET Addr : ExclusionEdit(S)
  \/ \E a \in Addr : LeaseDelete(a)
  \/ \E S \in SUBSET Client : FilterEdit(S)
  \/ ScopeUpdate
  \/ ScopeDelete

Next ==
  \/ \E c \in Client : ClientStep(c)
  \/ NetworkStep
  \/ Tick
  \/ \E S \in SUBSET Addr : Prune(S)
  \/ OperatorStep

Spec == Init /\ [][Next]_vars

-----------------------------------------------------------------------------
(* Properties.                                                             *)

\* No address is promised to two clients at once, unless the operator took
\* its row away or reserved it while it was in use.
Exclusive ==
  \A a \in Addr \ touched : \A c, d \in Client :
    held[c][a] > 0 /\ held[d][a] > 0 => c = d

\* What makes it so: the table still knows every promise that runs, at least
\* as long as the client does, in a state that keeps other clients off.
PromiseCovered ==
  \A a \in Addr \ touched : \A c \in Client :
    held[c][a] > 0 =>
      /\ IsRow(a)
      /\ lease[a].mac = c
      /\ lease[a].state \in {"active", "offered"}
      /\ lease[a].ttl >= held[c][a]

\* A row and a reservation of the same address name the same client.
RowMatchesReservation ==
  \A a \in Addr \ touched : \A r \in reservations :
    r.here /\ r.ip = a /\ IsRow(a) => lease[a].mac = r.mac

\* An address is reserved for one client.
ReservedOnce ==
  \A r, s \in reservations :
    r.here /\ s.here /\ r.ip = s.ip /\ r.ip \notin touched => r.mac = s.mac

\* On its way to the server, a give-up message of c is about a row that is
\* still c's, and c uses no address it gave up.
PendingIsCurrent ==
  \A m \in net :
    /\ m.kind # "other" /\ m.ip \notin touched =>
         /\ m.ip \in Addr
         /\ held[m.mac][m.ip] = 0
         /\ IsRow(m.ip)
         /\ lease[m.ip].mac = m.mac
         /\ lease[m.ip].ttl > 0
         /\ lease[m.ip].state \in {"active", "offered"}
    /\ m.kind = "other" => \A a \in Addr : held[m.mac][a] = 0

OneMessage == \A m, n \in net : m.mac = n.mac => m = n

\* The inductive invariant behind Exclusive, on a prompt network.
IInv == /\ TypeOK
        /\ PromiseCovered
        /\ RowMatchesReservation
        /\ ReservedOnce
        /\ PendingIsCurrent
        /\ OneMessage

\* Whatever the network does: a row that keeps its address from others goes
\* to another client only if the address is reserved for that client.
NoRowTaken ==
  \A a \in Addr :
    Live(a) /\ lease'[a] # NoRow /\ lease'[a].mac # lease[a].mac =>
      \E r \in reservations : r.here /\ r.ip = a /\ r.mac = lease'[a].mac

NoTakeover == [][NoRowTaken]_vars

\* allocate and canAssign agree: an offer that has not run out is one the
\* client can have by asking for it (while the operator edits nothing).
OfferStands ==
  \A a \in Addr :
    IsRow(a) /\ lease[a].state = "offered" /\ lease[a].ttl > 0 =>
      \A res \in ReservationByMac(lease[a].mac) : CanAssign(lease[a].mac, a, res)

\* A client that keeps asking gets an address, as long as there are as many
\* addresses as clients and clients ask only for what they were offered.
Retry(c) == \E req \in Addr \cup {NoAddr} : Discover(c, req)
TakeOffer(c) == \E a \in Addr : Request(c, a)
Arrive(c) == \E m \in net : m.mac = c /\ (Serve(m) \/ Lose(m))

LiveSpec == /\ Spec
            /\ \A c \in Client : /\ SF_vars(Retry(c))
                                 /\ SF_vars(TakeOffer(c))
                                 /\ WF_vars(Arrive(c))

Served == \A c \in Client :
  (\A a \in Addr : held[c][a] = 0) ~> (\E a \in Addr : held[c][a] > 0)

\* Refinement: the owner of an address is the client it is promised to.
Nobody == NoRow
Owner == [a \in Addr |->
            IF \E c \in Client : held[c][a] > 0
            THEN CHOOSE c \in Client : held[c][a] > 0 ELSE Nobody]
Authority == INSTANCE LeaseAuthority WITH owner <- Owner
ImplementsAuthority == Authority!AuthoritySpec
=============================================================================

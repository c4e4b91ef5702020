-------------------------- MODULE DhcpLeases_proofs --------------------------
(***************************************************************************)
(* Proofs about DhcpLeases, for any number of clients and addresses, any   *)
(* range, lease time and set of operator edits.                            *)
(***************************************************************************)
EXTENDS DhcpLeases, TLAPS

-----------------------------------------------------------------------------
(* The table operators.                                                    *)

\* leaseUpsert and leaseSetState keep the table a table of rows.
LEMMA UpsertType ==
  ASSUME TypeOK, NEW a \in Addr, NEW c \in Client, NEW st \in RowState
  PROVE  /\ Upsert(a, c, st) \in [Addr -> Row \cup {NoRow}]
         /\ Upsert(a, c, st)[a] = [mac |-> c, state |-> st, ttl |-> LeaseTime]
         /\ \A b \in Addr \ {a} : Upsert(a, c, st)[b] = lease[b]
  BY LeaseTimeAssumption DEF TypeOK, Upsert, Row

LEMMA SetStateType ==
  ASSUME TypeOK, NEW a, NEW st \in RowState
  PROVE  /\ SetState(a, st) \in [Addr -> Row \cup {NoRow}]
         /\ \A b \in Addr : b # a => SetState(a, st)[b] = lease[b]
         /\ \A b \in Addr : IsRow(b) => /\ SetState(a, st)[b] # NoRow
                                        /\ SetState(a, st)[b].mac = lease[b].mac
                                        /\ SetState(a, st)[b].ttl = lease[b].ttl
         /\ \A b \in Addr : ~IsRow(b) => SetState(a, st)[b] = NoRow
  <1>1. CASE a \in Addr /\ IsRow(a)
    <2>1. lease[a] \in Row
      BY <1>1 DEF TypeOK, IsRow
    <2>2. [lease[a] EXCEPT !.state = st] \in Row
      BY <2>1 DEF Row
    <2>3. SetState(a, st) = [lease EXCEPT ![a] = [lease[a] EXCEPT !.state = st]]
      BY <1>1 DEF SetState
    <2>4. [lease[a] EXCEPT !.state = st] # NoRow
      BY <2>2, NoRowAssumption
    <2> QED
      BY <1>1, <2>1, <2>2, <2>3, <2>4 DEF TypeOK, Row, IsRow
  <1>2. CASE ~(a \in Addr /\ IsRow(a))
    BY <1>2 DEF SetState, TypeOK, IsRow
  <1> QED
    BY <1>1, <1>2

-----------------------------------------------------------------------------
(* The allocator.                                                          *)

\* What allocate returns is reserved for the client, in a row of the client,
\* or free for it.
LEMMA AllocateSound ==
  ASSUME TypeOK, NEW c \in Client, NEW req, NEW a \in Allocate(c, req)
  PROVE  /\ a \in Addr
         /\ \/ \E r \in reservations : r.mac = c /\ r.here /\ r.ip = a
            \/ IsRow(a) /\ lease[a].mac = c
            \/ Free(c, a)
  <1>1. PICK res \in ReservationByMac(c), old \in LeaseByMac(c) :
          IF res # NoRow /\ res.here THEN a = res.ip
          ELSE IF old # NoAddr /\ InRange(old) /\ old \notin excluded THEN a = old
          ELSE IF req \in FreeInRange(c) THEN a = req
          ELSE a \in FreeInRange(c)
    BY DEF Allocate
  <1>2. res # NoRow => res \in reservations /\ res.mac = c
    BY DEF ReservationByMac
  <1>3. old # NoAddr => old \in Addr /\ IsRow(old) /\ lease[old].mac = c
    BY DEF LeaseByMac
  <1> QED
    BY <1>1, <1>2, <1>3 DEF Allocate, FreeInRange

\* What canAssign accepts is reserved for the client, or reserved for nobody
\* and in no live row of another client.
LEMMA CanAssignSound ==
  ASSUME NEW c \in Client, NEW a \in Addr, NEW res \in ReservationByMac(c),
         CanAssign(c, a, res)
  PROVE  \/ \E r \in reservations : r.mac = c /\ r.here /\ r.ip = a
         \/ Free(c, a)
  BY DEF ReservationByMac, CanAssign, Free

-----------------------------------------------------------------------------
(* Type correctness.                                                       *)

LEMMA InitType == Init => TypeOK
  BY LeaseTimeAssumption, InitReservationsAssumption, InitExcludedAssumption
     DEF Init, TypeOK

LEMMA NextType == TypeOK /\ [Next]_vars => TypeOK'
  <1> SUFFICES ASSUME TypeOK, [Next]_vars PROVE TypeOK'
    OBVIOUS
  <1> USE LeaseTimeAssumption
  <1>1. ASSUME NEW c \in Client, NEW req, Discover(c, req) PROVE TypeOK'
    <2>1. PICK a \in Allocate(c, req) : lease' = Upsert(a, c, "offered")
      BY <1>1 DEF Discover
    <2> QED
      BY <1>1, <2>1, AllocateSound, UpsertType DEF Discover, TypeOK, RowState
  <1>2. ASSUME NEW c \in Client, NEW a \in Addr, Request(c, a) PROVE TypeOK'
    <2>1. lease' \in [Addr -> Row \cup {NoRow}]
      BY <1>2, UpsertType DEF Request, RowState
    <2>2. held' \in [Client -> [Addr -> 0..LeaseTime]]
      BY <1>2 DEF Request, TypeOK
    <2> QED
      BY <1>2, <2>1, <2>2 DEF Request, TypeOK
  <1>3. ASSUME NEW c \in Client, NEW a \in Addr, SendRelease(c, a) PROVE TypeOK'
    BY <1>3 DEF SendRelease, Send, TypeOK, GiveUp
  <1>4. ASSUME NEW c \in Client, ChooseOther(c) PROVE TypeOK'
    BY <1>4 DEF ChooseOther, Send, TypeOK, GiveUp
  <1>5. ASSUME NEW m \in net, Serve(m) PROVE TypeOK'
    <2>1. net' \subseteq GiveUp
      BY <1>5 DEF Serve, Taken, TypeOK
    <2>2. lease' \in [Addr -> Row \cup {NoRow}]
      <3>1. CASE ServeRelease(m)
        BY <3>1, SetStateType DEF ServeRelease, TypeOK, RowState
      <3>2. CASE ServeDecline(m)
        BY <3>2, SetStateType DEF ServeDecline, TypeOK, RowState
      <3>3. CASE ServeOther(m)
        BY <3>3 DEF ServeOther, TypeOK
      <3> QED
        BY <1>5, <3>1, <3>2, <3>3 DEF Serve
    <2> QED
      BY <1>5, <2>1, <2>2 DEF Serve, TypeOK
  <1>6. ASSUME NEW m \in net, Lose(m) PROVE TypeOK'
    BY <1>6 DEF Lose, TypeOK
  <1>7. ASSUME Tick PROVE TypeOK'
    <2>1. \A n \in 0..LeaseTime : Less(n) \in 0..LeaseTime
      BY DEF Less
    <2>2. lease' \in [Addr -> Row \cup {NoRow}]
      BY <1>7, <2>1 DEF Tick, TypeOK, Row, IsRow
    <2>3. held' \in [Client -> [Addr -> 0..LeaseTime]]
      BY <1>7, <2>1 DEF Tick, TypeOK
    <2> QED
      BY <1>7, <2>2, <2>3 DEF Tick, TypeOK
  <1>8. ASSUME NEW S \in SUBSET Addr, Prune(S) PROVE TypeOK'
    BY <1>8 DEF Prune, TypeOK
  <1>9. ASSUME OperatorStep PROVE TypeOK'
    <2>1. ASSUME NEW r \in Reservation, ReservationAdd(r) PROVE TypeOK'
      BY <2>1 DEF ReservationAdd, TypeOK, Reservation
    <2>2. ASSUME NEW r \in Reservation, ReservationDelete(r) PROVE TypeOK'
      BY <2>2 DEF ReservationDelete, TypeOK
    <2>3. ASSUME NEW S \in SUBSET Addr, ExclusionEdit(S) PROVE TypeOK'
      BY <2>3 DEF ExclusionEdit, TypeOK
    <2>4. ASSUME NEW a \in Addr, LeaseDelete(a) PROVE TypeOK'
      BY <2>4 DEF LeaseDelete, TypeOK
    <2>5. ASSUME NEW S \in SUBSET Client, FilterEdit(S) PROVE TypeOK'
      BY <2>5 DEF FilterEdit, TypeOK
    <2>6. ASSUME ScopeUpdate \/ ScopeDelete PROVE TypeOK'
      BY <2>6 DEF ScopeUpdate, ScopeDelete, TypeOK
    <2> QED
      BY <1>9, <2>1, <2>2, <2>3, <2>4, <2>5, <2>6 DEF OperatorStep
  <1>10. ASSUME UNCHANGED vars PROVE TypeOK'
    BY <1>10 DEF vars, TypeOK
  <1> QED
    BY <1>1, <1>2, <1>3, <1>4, <1>5, <1>6, <1>7, <1>8, <1>9, <1>10
       DEF Next, ClientStep, NetworkStep

\* The table, the promises and the messages always have their types.
THEOREM TypeCorrect == Spec => []TypeOK
  BY InitType, NextType, PTL DEF Spec

-----------------------------------------------------------------------------
(* Exclusiveness.                                                          *)

\* The grounds on which the server writes c's name into the row of a.
Grounds(c, a) ==
  \/ \E r \in reservations : r.mac = c /\ r.here /\ r.ip = a
  \/ IsRow(a) /\ lease[a].mac = c
  \/ Free(c, a)

\* Whoever has grounds for an address that is in a live row owns that row.
LEMMA OnlyOwner ==
  ASSUME RowMatchesReservation, NEW c \in Client, NEW a \in Addr \ touched,
         Grounds(c, a), Live(a)
  PROVE  lease[a].mac = c
  BY DEF RowMatchesReservation, Grounds, Free, Live

\* What both DISCOVER and REQUEST do to the table keeps the invariant.
LEMMA WriteRow ==
  ASSUME IInv, NEW c \in Client, NEW a \in Addr, Grounds(c, a), NothingPending(c),
         NEW st \in {"offered", "active"}, lease' = Upsert(a, c, st),
         \/ held' = held
         \/ held' = [held EXCEPT ![c][a] = LeaseTime],
         UNCHANGED <<reservations, touched, net>>
  PROVE  /\ PromiseCovered' /\ RowMatchesReservation' /\ ReservedOnce'
         /\ PendingIsCurrent' /\ OneMessage'
  <1> USE DEF IInv
  <1>1. /\ lease'[a] = [mac |-> c, state |-> st, ttl |-> LeaseTime]
        /\ \A b \in Addr \ {a} : lease'[b] = lease[b]
    <2>1. st \in RowState /\ a \in Addr /\ TypeOK
      BY DEF RowState
    <2> HIDE DEF IInv
    <2> QED
      BY <2>1, UpsertType
  <1>2. lease'[a] # NoRow
    BY <1>1, NoRowAssumption, LeaseTimeAssumption DEF Row, RowState
  <1>3. \A d \in Client, b \in Addr : d # c \/ b # a => held'[d][b] = held[d][b]
    BY DEF TypeOK
  <1>4. \A d \in Client, b \in Addr : held[d][b] \in 0..LeaseTime /\ held'[d][b] \in 0..LeaseTime
    BY LeaseTimeAssumption DEF TypeOK
  <1>5. PromiseCovered'
    <2> SUFFICES ASSUME NEW b \in Addr \ touched, NEW d \in Client, held'[d][b] > 0
                 PROVE  /\ lease'[b] # NoRow
                        /\ lease'[b].mac = d
                        /\ lease'[b].state \in {"active", "offered"}
                        /\ lease'[b].ttl >= held'[d][b]
      BY DEF PromiseCovered, IsRow
    <2>1. CASE b # a
      BY <2>1, <1>1, <1>3 DEF PromiseCovered, IsRow
    <2>2. CASE b = a /\ d # c
      <3>1. held[d][a] > 0
        BY <2>2, <1>3
      <3>2. Live(a) /\ lease[a].mac = d
        <4>1. IsRow(a) /\ lease[a] \in Row
          BY <3>1, <2>2 DEF PromiseCovered, TypeOK, IsRow
        <4>2. lease[a].ttl \in Int /\ held[d][a] \in Int
          BY <4>1, <1>4, LeaseTimeAssumption DEF Row
        <4> QED
          BY <3>1, <2>2, <4>1, <4>2 DEF PromiseCovered, Live
      <3> QED
        BY <3>2, <2>2, OnlyOwner
    <2>3. CASE b = a /\ d = c
      BY <2>3, <1>1, <1>2, <1>4
    <2> QED
      BY <2>1, <2>2, <2>3
  <1>6. RowMatchesReservation'
    <2> SUFFICES ASSUME NEW b \in Addr \ touched, NEW r \in reservations,
                        r.here, r.ip = b, lease'[b] # NoRow
                 PROVE  lease'[b].mac = r.mac
      BY DEF RowMatchesReservation, IsRow
    <2>1. CASE b # a
      BY <2>1, <1>1 DEF RowMatchesReservation, IsRow
    <2>2. CASE b = a
      BY <2>2, <1>1 DEF RowMatchesReservation, ReservedOnce, Grounds, Free, ReservedHere
    <2> QED
      BY <2>1, <2>2
  <1>7. PendingIsCurrent'
    <2> SUFFICES ASSUME NEW m \in net
                 PROVE  /\ m.kind # "other" /\ m.ip \notin touched =>
                             /\ m.ip \in Addr
                             /\ held'[m.mac][m.ip] = 0
                             /\ lease'[m.ip] # NoRow
                             /\ lease'[m.ip].mac = m.mac
                             /\ lease'[m.ip].ttl > 0
                             /\ lease'[m.ip].state \in {"active", "offered"}
                        /\ m.kind = "other" => \A b \in Addr : held'[m.mac][b] = 0
      BY DEF PendingIsCurrent, IsRow
    <2>1. m.mac \in Client /\ m.mac # c
      BY DEF TypeOK, GiveUp, NothingPending
    <2>2. ASSUME m.kind # "other", m.ip \notin touched PROVE m.ip # a
      BY <2>1, <2>2, OnlyOwner DEF PendingIsCurrent, Live
    <2> QED
      BY <2>1, <2>2, <1>1, <1>3 DEF PendingIsCurrent, IsRow
  <1>8. ReservedOnce' /\ OneMessage'
    BY DEF ReservedOnce, OneMessage
  <1> QED
    BY <1>5, <1>6, <1>7, <1>8
LEMMA InitInvariant == Init => IInv
  <1> SUFFICES ASSUME Init PROVE IInv
    OBVIOUS
  <1>1. TypeOK
    BY InitType
  <1>2. PromiseCovered /\ RowMatchesReservation
    BY DEF Init, PromiseCovered, RowMatchesReservation, IsRow
  <1>3. ReservedOnce /\ PendingIsCurrent /\ OneMessage
    BY InitReservationsAssumption DEF Init, ReservedOnce, PendingIsCurrent, OneMessage
  <1> QED
    BY <1>1, <1>2, <1>3 DEF IInv

Untyped == /\ PromiseCovered /\ RowMatchesReservation /\ ReservedOnce
           /\ PendingIsCurrent /\ OneMessage

LEMMA DiscoverKeeps ==
  ASSUME Prompt, IInv, NEW c \in Client, NEW req, Discover(c, req)
  PROVE  Untyped'
  <1>1. PICK a \in Allocate(c, req) : lease' = Upsert(a, c, "offered")
    BY DEF Discover
  <1>2. a \in Addr /\ Grounds(c, a)
    BY AllocateSound DEF IInv, Grounds
  <1>3. NothingPending(c)
    BY DEF Discover, InOrder
  <1> QED
    BY <1>1, <1>2, <1>3, WriteRow DEF Discover, Untyped

LEMMA RequestKeeps ==
  ASSUME Prompt, IInv, NEW c \in Client, NEW a \in Addr, Request(c, a)
  PROVE  Untyped'
  <1>1. Grounds(c, a)
    BY CanAssignSound DEF Request, Grounds
  <1>2. NothingPending(c)
    BY DEF Request, InOrder
  <1> QED
    BY <1>1, <1>2, WriteRow DEF Request, Untyped

LEMMA SendKeeps ==
  ASSUME Prompt, IInv, NEW c \in Client,
         ChooseOther(c) \/ \E a \in Addr : SendRelease(c, a)
  PROVE  Untyped'
  <1> USE DEF IInv
  <1>1. NothingPending(c)
    BY DEF ChooseOther, SendRelease, InOrder
  <1>2. UNCHANGED <<lease, reservations, touched>>
    BY DEF ChooseOther, SendRelease
  <1>3. ReservedOnce' /\ RowMatchesReservation'
    BY <1>2 DEF ReservedOnce, RowMatchesReservation, IsRow
  <1>4. CASE ChooseOther(c)
    <2>1. /\ \A d \in Client \ {c} : held'[d] = held[d]
          /\ \A a \in Addr : held'[c][a] = 0
      BY <1>4 DEF ChooseOther, TypeOK
    <2>2. PICK m : m.mac = c /\ m.kind = "other" /\ net' = net \cup {m}
      BY <1>4 DEF ChooseOther, Send
    <2>3. PromiseCovered'
      BY <1>2, <2>1 DEF PromiseCovered, IsRow
    <2>4. OneMessage'
      BY <1>1, <2>2 DEF OneMessage, NothingPending
    <2>5. \A n \in net : n.mac \in Client \ {c}
      BY <1>1 DEF NothingPending, TypeOK, GiveUp
    <2>6. PendingIsCurrent'
      BY <1>2, <2>1, <2>2, <2>5 DEF PendingIsCurrent, IsRow
    <2> QED
      BY <1>3, <2>3, <2>4, <2>6 DEF Untyped
  <1>5. ASSUME NEW a \in Addr, SendRelease(c, a) PROVE Untyped'
    <2>1. /\ \A d \in Client, b \in Addr : d # c \/ b # a => held'[d][b] = held[d][b]
          /\ held'[c][a] = 0
      BY <1>5 DEF SendRelease, TypeOK
    <2>2. PICK m : /\ m.mac = c /\ m.ip = a /\ m.kind # "other"
                   /\ net' = net \cup {m}
      BY <1>5 DEF SendRelease, Send
    <2>3. PromiseCovered'
      BY <1>2, <2>1 DEF PromiseCovered, IsRow
    <2>4. OneMessage'
      BY <1>1, <2>2 DEF OneMessage, NothingPending
    <2>5. \A n \in net : n.mac \in Client \ {c}
      BY <1>1 DEF NothingPending, TypeOK, GiveUp
    <2>6. a \notin touched => /\ IsRow(a) /\ lease[a].mac = c /\ lease[a].ttl > 0
                             /\ lease[a].state \in {"active", "offered"}
      <3> SUFFICES ASSUME a \notin touched
                   PROVE  /\ IsRow(a) /\ lease[a].mac = c /\ lease[a].ttl > 0
                          /\ lease[a].state \in {"active", "offered"}
        OBVIOUS
      <3>1. /\ IsRow(a) /\ lease[a].mac = c /\ lease[a].ttl >= held[c][a]
            /\ lease[a].state \in {"active", "offered"}
        BY <1>5 DEF SendRelease, PromiseCovered
      <3>2. lease[a].ttl \in Int /\ held[c][a] \in Int /\ held[c][a] > 0
        BY <1>5, <3>1, LeaseTimeAssumption DEF SendRelease, TypeOK, Row, IsRow
      <3> QED
        BY <3>1, <3>2
    <2>7. PendingIsCurrent'
      <3> SUFFICES ASSUME NEW n \in net'
                   PROVE  /\ n.kind # "other" /\ n.ip \notin touched =>
                               /\ n.ip \in Addr
                               /\ held'[n.mac][n.ip] = 0
                               /\ IsRow(n.ip)
                               /\ lease[n.ip].mac = n.mac
                               /\ lease[n.ip].ttl > 0
                               /\ lease[n.ip].state \in {"active", "offered"}
                          /\ n.kind = "other" => \A b \in Addr : held'[n.mac][b] = 0
        BY <1>2 DEF PendingIsCurrent, IsRow
      <3>1. CASE n = m
        BY <3>1, <2>1, <2>2, <2>6
      <3>2. CASE n \in net
        BY <3>2, <2>1, <2>5 DEF PendingIsCurrent
      <3> QED
        BY <3>1, <3>2, <2>2
    <2> QED
      BY <1>3, <2>3, <2>4, <2>7 DEF Untyped
  <1> QED
    BY <1>4, <1>5
\* Serving one give-up message changes at most one row, the sender's own.
LEMMA ServeKeeps ==
  ASSUME Prompt, IInv, NEW m \in net, Serve(m)
  PROVE  Untyped'
  <1> USE DEF IInv
  <1>1. UNCHANGED <<reservations, held, touched>> /\ net' = net \ {m}
    BY DEF Serve, Taken
  <1>2. m.mac \in Client /\ m.kind \in {"release", "decline", "other"}
    BY DEF TypeOK, GiveUp
  <1>3. OneMessage' /\ ReservedOnce'
    BY <1>1 DEF OneMessage, ReservedOnce
  <1>4. \A n \in net \ {m} : n.mac # m.mac
    BY DEF OneMessage
  <1>5. CASE lease' = lease
    BY <1>5, <1>1, <1>3
       DEF Untyped, PromiseCovered, RowMatchesReservation, PendingIsCurrent, IsRow
  <1>6. ASSUME NEW st \in RowState, m.kind # "other", lease' = SetState(m.ip, st)
        PROVE  Untyped'
    <2>1. /\ \A b \in Addr : b # m.ip => lease'[b] = lease[b]
          /\ \A b \in Addr : IsRow(b) => /\ lease'[b] # NoRow
                                         /\ lease'[b].mac = lease[b].mac
          /\ \A b \in Addr : ~IsRow(b) => lease'[b] = NoRow
      BY <1>6, SetStateType
    <2>2. PromiseCovered'
      BY <1>1, <1>2, <1>6, <2>1 DEF PromiseCovered, PendingIsCurrent, IsRow
    <2>3. RowMatchesReservation'
      BY <1>1, <2>1 DEF RowMatchesReservation, IsRow
    <2>4. PendingIsCurrent'
      BY <1>1, <1>4, <1>6, <2>1 DEF PendingIsCurrent, IsRow
    <2> QED
      BY <1>3, <2>2, <2>3, <2>4 DEF Untyped
  <1>7. ASSUME NEW old \in Addr, IsRow(old), lease[old].mac = m.mac, m.kind = "other",
               lease' = [lease EXCEPT ![old] = NoRow]
        PROVE  Untyped'
    <2>1. lease'[old] = NoRow /\ \A b \in Addr \ {old} : lease'[b] = lease[b]
      BY <1>7 DEF TypeOK
    <2>2. PromiseCovered'
      BY <1>1, <1>2, <1>7, <2>1 DEF PromiseCovered, PendingIsCurrent, IsRow
    <2>3. RowMatchesReservation'
      BY <1>1, <2>1 DEF RowMatchesReservation, IsRow
    <2>4. PendingIsCurrent'
      BY <1>1, <1>4, <1>7, <2>1 DEF PendingIsCurrent, IsRow
    <2> QED
      BY <1>3, <2>2, <2>3, <2>4 DEF Untyped
  <1>8. CASE ServeRelease(m)
    BY <1>8, <1>5, <1>6 DEF ServeRelease, RowState
  <1>9. CASE ServeDecline(m)
    BY <1>9, <1>5, <1>6 DEF ServeDecline, RowState
  <1>10. CASE ServeOther(m)
    BY <1>10, <1>5, <1>7 DEF ServeOther, LeaseByMac
  <1> QED
    BY <1>8, <1>9, <1>10 DEF Serve

\* Time takes as much from a row as from the promise it covers.
LEMMA TickKeeps ==
  ASSUME Prompt, IInv, Tick
  PROVE  Untyped'
  <1> USE DEF IInv
  <1>1. net' = {} /\ UNCHANGED <<reservations, touched>>
    BY DEF Tick
  <1>2. \A a \in Addr :
          /\ ~IsRow(a) => lease'[a] = NoRow
          /\ IsRow(a) => /\ lease'[a] # NoRow
                         /\ lease'[a].mac = lease[a].mac
                         /\ lease'[a].state = lease[a].state
                         /\ lease'[a].ttl = Less(lease[a].ttl)
    <2> SUFFICES ASSUME NEW a \in Addr
                 PROVE  /\ ~IsRow(a) => lease'[a] = NoRow
                        /\ IsRow(a) => /\ lease'[a] # NoRow
                                       /\ lease'[a].mac = lease[a].mac
                                       /\ lease'[a].state = lease[a].state
                                       /\ lease'[a].ttl = Less(lease[a].ttl)
      OBVIOUS
    <2>1. ~IsRow(a) => lease'[a] = NoRow
      BY DEF Tick, IsRow
    <2>2. ASSUME IsRow(a)
          PROVE  /\ lease'[a] \in Row
                 /\ lease'[a].mac = lease[a].mac
                 /\ lease'[a].state = lease[a].state
                 /\ lease'[a].ttl = Less(lease[a].ttl)
      <3>1. lease[a] \in Row
        BY <2>2 DEF TypeOK, IsRow
      <3>2. lease'[a] = [lease[a] EXCEPT !.ttl = Less(lease[a].ttl)]
        BY <2>2 DEF Tick
      <3> QED
        BY <3>1, <3>2, LeaseTimeAssumption DEF Row, Less
    <2> QED
      BY <2>1, <2>2, NoRowAssumption
  <1>3. \A c \in Client, a \in Addr : held'[c][a] = Less(held[c][a])
    BY DEF Tick
  <1>4. PromiseCovered'
    <2> SUFFICES ASSUME NEW a \in Addr \ touched, NEW c \in Client, held'[c][a] > 0
                 PROVE  /\ lease'[a] # NoRow
                        /\ lease'[a].mac = c
                        /\ lease'[a].state \in {"active", "offered"}
                        /\ lease'[a].ttl >= held'[c][a]
      BY <1>1 DEF PromiseCovered, IsRow
    <2>1. held[c][a] \in Int /\ held'[c][a] = Less(held[c][a])
      BY <1>3, LeaseTimeAssumption DEF TypeOK
    <2>2. held[c][a] > 0
      BY <2>1 DEF Less
    <2>3. /\ IsRow(a) /\ lease[a].mac = c /\ lease[a].ttl >= held[c][a]
          /\ lease[a].state \in {"active", "offered"}
      BY <2>2 DEF PromiseCovered
    <2>4. lease[a].ttl \in Int
      BY <2>3, LeaseTimeAssumption DEF TypeOK, Row, IsRow
    <2> QED
      BY <1>2, <2>1, <2>3, <2>4 DEF Less
  <1>5. RowMatchesReservation'
    BY <1>1, <1>2 DEF RowMatchesReservation, IsRow
  <1>6. ReservedOnce' /\ PendingIsCurrent' /\ OneMessage'
    BY <1>1 DEF ReservedOnce, PendingIsCurrent, OneMessage
  <1> QED
    BY <1>4, <1>5, <1>6 DEF Untyped

\* Rows that vanish protect no promise and no address that is still tracked.
LEMMA RowsVanish ==
  ASSUME IInv, NEW S \in SUBSET Addr,
         lease' = [a \in Addr |-> IF a \in S THEN NoRow ELSE lease[a]],
         touched \subseteq touched', reservations' \subseteq reservations,
         UNCHANGED <<held, net>>,
         \A a \in S \ touched' : IsRow(a) => lease[a].ttl = 0
  PROVE  Untyped'
  <1> USE DEF IInv
  <1>1. PromiseCovered'
    <2> SUFFICES ASSUME NEW a \in Addr \ touched', NEW c \in Client, held[c][a] > 0
                 PROVE  a \notin S
      BY DEF PromiseCovered, IsRow
    <2>1. IsRow(a) /\ lease[a].ttl >= held[c][a]
      BY DEF PromiseCovered
    <2>2. lease[a].ttl \in Int /\ held[c][a] \in Int
      BY <2>1, LeaseTimeAssumption DEF TypeOK, Row, IsRow
    <2> QED
      BY <2>1, <2>2
  <1>2. PendingIsCurrent'
    BY DEF PendingIsCurrent, IsRow
  <1>3. RowMatchesReservation' /\ ReservedOnce' /\ OneMessage'
    BY DEF RowMatchesReservation, ReservedOnce, OneMessage, IsRow
  <1> QED
    BY <1>1, <1>2, <1>3 DEF Untyped

LEMMA OperatorKeeps ==
  ASSUME IInv, OperatorStep
  PROVE  Untyped'
  <1> USE DEF IInv
  <1>1. ASSUME NEW r \in Reservation, ReservationAdd(r) PROVE Untyped'
    <2>1. /\ \A s \in reservations', a \in Addr \ touched' :
                s.here /\ s.ip = a => s \in reservations /\ a \notin touched
          /\ \A s \in reservations' : s.here /\ s.ip \notin touched' =>
                s \in reservations /\ s.ip \notin touched
      BY <1>1 DEF ReservationAdd
    <2>2. touched \subseteq touched' /\ UNCHANGED <<lease, held, net>>
      BY <1>1 DEF ReservationAdd
    <2>3. PromiseCovered' /\ PendingIsCurrent' /\ OneMessage'
      BY <2>2 DEF PromiseCovered, PendingIsCurrent, OneMessage, IsRow
    <2>4. RowMatchesReservation'
      BY <2>1, <2>2 DEF RowMatchesReservation, IsRow
    <2>5. ReservedOnce'
      BY <2>1, <2>2 DEF ReservedOnce
    <2> QED
      BY <2>3, <2>4, <2>5 DEF Untyped
  <1>2. ASSUME NEW a \in Addr, LeaseDelete(a) PROVE Untyped'
    <2>1. lease' = [b \in Addr |-> IF b \in {a} THEN NoRow ELSE lease[b]]
      BY <1>2 DEF LeaseDelete, TypeOK
    <2> QED
      BY <1>2, <2>1, RowsVanish DEF LeaseDelete
  <1>3. ASSUME ScopeDelete PROVE Untyped'
    <2>1. lease' = [b \in Addr |-> IF b \in Addr THEN NoRow ELSE lease[b]]
      BY <1>3 DEF ScopeDelete
    <2> QED
      BY <1>3, <2>1, RowsVanish DEF ScopeDelete, TypeOK
  <1>4. ASSUME UNCHANGED <<lease, held, net, touched>>, reservations' \subseteq reservations
        PROVE  Untyped'
    BY <1>4 DEF Untyped, PromiseCovered, RowMatchesReservation, ReservedOnce,
                PendingIsCurrent, OneMessage, IsRow
  <1> QED
    BY <1>1, <1>2, <1>3, <1>4
       DEF OperatorStep, ReservationDelete, ExclusionEdit, FilterEdit, ScopeUpdate

LEMMA NextInvariant == Prompt /\ IInv /\ [Next]_vars => IInv'
  <1> SUFFICES ASSUME Prompt, IInv, [Next]_vars PROVE IInv'
    OBVIOUS
  <1>1. TypeOK'
    BY NextType DEF IInv
  <1>2. Untyped'
    <2>1. ASSUME NEW c \in Client, ClientStep(c) PROVE Untyped'
      BY <2>1, DiscoverKeeps, RequestKeeps, SendKeeps DEF ClientStep
    <2>2. ASSUME NEW m \in net, Lose(m) PROVE Untyped'
      BY <2>2 DEF Lose, IInv, Untyped, PromiseCovered, RowMatchesReservation,
                  ReservedOnce, PendingIsCurrent, OneMessage, IsRow
    <2>3. ASSUME NEW S \in SUBSET Addr, Prune(S) PROVE Untyped'
      BY <2>3, RowsVanish DEF Prune, Prunable
    <2>4. ASSUME UNCHANGED vars PROVE Untyped'
      BY <2>4 DEF vars, IInv, Untyped, PromiseCovered, RowMatchesReservation,
                  ReservedOnce, PendingIsCurrent, OneMessage, IsRow
    <2> QED
      BY <2>1, <2>2, <2>3, <2>4, ServeKeeps, TickKeeps, OperatorKeeps
         DEF Next, NetworkStep
  <1> QED
    BY <1>1, <1>2 DEF IInv, Untyped

LEMMA InvariantExclusive == IInv => Exclusive
  BY DEF IInv, PromiseCovered, Exclusive

\* On a prompt network the table knows every promise that runs, for at least as
\* long, rows and reservations agree, and what is on its way is still true.
THEOREM PromisesAreKnown ==
  ASSUME Prompt
  PROVE  Spec => []IInv
  <1>1. Init => IInv
    BY InitInvariant
  <1>2. IInv /\ [Next]_vars => IInv'
    BY NextInvariant
  <1> QED
    BY <1>1, <1>2, PTL DEF Spec

\* On a prompt network no address the operator left alone is promised to two
\* clients at once.
THEOREM NeverTwoHolders ==
  ASSUME Prompt
  PROVE  Spec => []Exclusive
  <1>1. Spec => []IInv
    BY PromisesAreKnown
  <1>2. IInv => Exclusive
    BY InvariantExclusive
  <1> QED
    BY <1>1, <1>2, PTL

-----------------------------------------------------------------------------
(* Refinement: with edits that take no row away, the server is a lease     *)
(* authority.  Exclusive before and after a step tells who owns an address *)
(* without the CHOOSE of Owner.                                            *)

\* Edits that neither take rows away nor reserve addresses.
LeavesRows == Edits \subseteq {"exclude", "filter"}

LEMMA NothingTouched ==
  ASSUME LeavesRows
  PROVE  /\ Init => touched = {}
         /\ touched = {} /\ [Next]_vars => touched' = {}
  <1>1. Init => touched = {}
    BY DEF Init
  <1>2. ASSUME touched = {}, [Next]_vars PROVE touched' = {}
    BY <1>2 DEF LeavesRows, Next, vars, ClientStep, Discover, Request, SendRelease, ChooseOther,
                NetworkStep, Serve, Lose, Tick, Prune, OperatorStep, ReservationAdd,
                ReservationDelete, ExclusionEdit, LeaseDelete, FilterEdit, ScopeUpdate, ScopeDelete
  <1> QED BY <1>1, <1>2

Authoritative == IInv /\ touched = {}

\* The owner of an address is the one client that has a promise for it.
OwnersTold ==
  /\ \A a \in Addr : \A c \in Client : held[c][a] > 0 => Owner[a] = c
  /\ \A a \in Addr : (\A c \in Client : ~(held[c][a] > 0)) => Owner[a] = Nobody
  /\ Owner = [a \in Addr |-> Owner[a]]

LEMMA OwnerIs == Authoritative => OwnersTold
  <1> SUFFICES ASSUME Authoritative PROVE OwnersTold
    OBVIOUS
  <1>1. \A a \in Addr : \A c, d \in Client : held[c][a] > 0 /\ held[d][a] > 0 => c = d
    BY InvariantExclusive DEF Authoritative, Exclusive
  <1>2. ASSUME NEW a \in Addr, NEW c \in Client, held[c][a] > 0 PROVE Owner[a] = c
    <2>1. (CHOOSE d \in Client : held[d][a] > 0) \in Client
          /\ held[CHOOSE d \in Client : held[d][a] > 0][a] > 0
      BY <1>2
    <2> QED BY <1>1, <1>2, <2>1 DEF Owner
  <1>3. ASSUME NEW a \in Addr, \A c \in Client : ~(held[c][a] > 0) PROVE Owner[a] = Nobody
    BY <1>3 DEF Owner
  <1>4. Owner = [a \in Addr |-> Owner[a]]
    BY DEF Owner
  <1> QED BY <1>2, <1>3, <1>4 DEF OwnersTold

\* A promise that is made is a Grant.
LEMMA PromiseGrants ==
  ASSUME Authoritative, Authoritative', NEW c \in Client, NEW a \in Addr,
         held' = [held EXCEPT ![c][a] = LeaseTime]
  PROVE  Authority!Grant(c, a)
  <1>1. /\ held'[c][a] > 0
        /\ \A d \in Client, b \in Addr : d # c \/ b # a => held'[d][b] = held[d][b]
    BY LeaseTimeAssumption DEF Authoritative, IInv, TypeOK
  <1>2. /\ \A b \in Addr : \A d \in Client : held[d][b] > 0 => Owner[b] = d
        /\ \A b \in Addr : (\A d \in Client : ~(held[d][b] > 0)) => Owner[b] = Nobody
        /\ Owner = [b \in Addr |-> Owner[b]]
    BY OwnerIs DEF OwnersTold
  <1>3. /\ \A b \in Addr : \A d \in Client : held'[d][b] > 0 => Owner'[b] = d
        /\ \A b \in Addr : (\A d \in Client : ~(held'[d][b] > 0)) => Owner'[b] = Nobody
        /\ Owner' = [b \in Addr |-> Owner'[b]]
    <2>1. OwnersTold'
      BY OwnerIs, PTL
    <2> QED BY <2>1 DEF OwnersTold, Nobody
  <1>4. Owner'[a] = c
    BY <1>1, <1>3
  <1>5. ASSUME NEW b \in Addr, b # a PROVE Owner'[b] = Owner[b]
    BY <1>1, <1>2, <1>3, <1>5
  <1>6. Owner[a] \in {c, Nobody}
    <2>1. ASSUME NEW d \in Client, held[d][a] > 0, d # c PROVE FALSE
      BY <1>1, <1>3, <1>4, <2>1
    <2> QED BY <1>2, <2>1
  <1>7. Owner' = [Owner EXCEPT ![a] = c]
    BY <1>2, <1>3, <1>4, <1>5
  <1> QED BY <1>6, <1>7 DEF Authority!Grant

\* Promises that run out or are given up are an End.
LEMMA PromisesEnd ==
  ASSUME Authoritative, Authoritative',
         \A d \in Client, b \in Addr : held'[d][b] > 0 => held[d][b] > 0
  PROVE  \E S \in SUBSET Addr : Authority!End(S)
  <1> DEFINE S == {b \in Addr : \A d \in Client : ~(held'[d][b] > 0)}
  <1>2. /\ \A b \in Addr : \A d \in Client : held[d][b] > 0 => Owner[b] = d
        /\ \A b \in Addr : (\A d \in Client : ~(held[d][b] > 0)) => Owner[b] = Nobody
    BY OwnerIs DEF OwnersTold
  <1>3. /\ \A b \in Addr : \A d \in Client : held'[d][b] > 0 => Owner'[b] = d
        /\ \A b \in Addr : (\A d \in Client : ~(held'[d][b] > 0)) => Owner'[b] = Nobody
        /\ Owner' = [b \in Addr |-> Owner'[b]]
    <2>1. OwnersTold'
      BY OwnerIs, PTL
    <2> QED BY <2>1 DEF OwnersTold, Nobody
  <1>4. ASSUME NEW b \in Addr PROVE Owner'[b] = IF b \in S THEN Nobody ELSE Owner[b]
    BY <1>2, <1>3
  <1>5. Owner' = [b \in Addr |-> IF b \in S THEN Nobody ELSE Owner[b]]
    BY <1>3, <1>4
  <1> QED BY <1>5 DEF Authority!End

LEMMA PromiseStep ==
  ASSUME TypeOK, [Next]_vars
  PROVE  \/ \E c \in Client, a \in Addr : held' = [held EXCEPT ![c][a] = LeaseTime]
         \/ \A d \in Client, b \in Addr : held'[d][b] > 0 => held[d][b] > 0
  <1>1. ASSUME NEW c \in Client, ClientStep(c)
        PROVE  \/ \E a \in Addr : held' = [held EXCEPT ![c][a] = LeaseTime]
               \/ \A d \in Client, b \in Addr : held'[d][b] > 0 => held[d][b] > 0
    <2>1. CASE \E req \in Addr \cup {NoAddr} : Discover(c, req)
      BY <2>1 DEF Discover
    <2>2. CASE \E a \in Addr : Request(c, a)
      BY <2>2 DEF Request
    <2>3. CASE \E a \in Addr : SendRelease(c, a)
      BY <2>3 DEF SendRelease, TypeOK
    <2>4. CASE ChooseOther(c)
      BY <2>4 DEF ChooseOther, TypeOK
    <2> QED BY <1>1, <2>1, <2>2, <2>3, <2>4 DEF ClientStep
  <1>2. CASE Tick
    <2>1. \A d \in Client, b \in Addr : held'[d][b] = Less(held[d][b]) /\ held[d][b] \in Nat
      BY <1>2, LeaseTimeAssumption DEF Tick, TypeOK
    <2>2. \A n \in Nat : Less(n) > 0 => n > 0
      BY DEF Less
    <2> QED BY <2>1, <2>2
  <1>3. CASE held' = held
    BY <1>3
  <1> QED
    BY <1>1, <1>2, <1>3 DEF Next, vars, NetworkStep, Serve, Lose, Prune, OperatorStep, ReservationAdd,
       ReservationDelete, ExclusionEdit, LeaseDelete, FilterEdit, ScopeUpdate, ScopeDelete

\* On a prompt network, as long as the operator takes no row away and reserves no
\* address, the server is a lease authority: an address is granted to one client, and
\* to another only after the first one's grant has ended.
THEOREM ServerIsAuthority ==
  ASSUME Prompt, LeavesRows
  PROVE  Spec => ImplementsAuthority
  <1>1. Init => Authoritative /\ Authority!AuthorityInit
    <2> SUFFICES ASSUME Init PROVE Authoritative /\ Authority!AuthorityInit
      OBVIOUS
    <2>1. Authoritative
      BY InitInvariant, NothingTouched DEF Authoritative
    <2>2. \A a \in Addr : \A c \in Client : ~(held[c][a] > 0)
      BY DEF Init
    <2>3. Owner = [a \in Addr |-> Nobody]
      BY <2>2 DEF Owner
    <2> QED BY <2>1, <2>3 DEF Authority!AuthorityInit
  <1>2. Authoritative /\ [Next]_vars => Authoritative'
    BY NextInvariant, NothingTouched DEF Authoritative
  <1>3. Authoritative /\ Authoritative' /\ [Next]_vars => [Authority!AuthorityNext]_Owner
    BY PromiseStep, PromiseGrants, PromisesEnd DEF Authoritative, IInv, Authority!AuthorityNext
  <1> QED
    BY <1>1, <1>2, <1>3, PTL DEF Spec, ImplementsAuthority, Authority!AuthoritySpec

-----------------------------------------------------------------------------
(* allocate and canAssign agree.                                           *)

\* The tables of reservations, exclusions and rows are the handler's alone, and a
\* client has one reservation at most: with two, which of them a query by MAC finds
\* is left to the database.
NoTableEdits == Edits \subseteq {"filter"}
OneReservationEach == \A r, s \in reservations : r.mac = s.mac => r = s
OneEachAtFirst == \A r, s \in InitReservations : r.mac = s.mac => r = s

\* canAssign but for the row itself, which is the client's.
Assignable(c, a) ==
  \A res \in ReservationByMac(c) :
    IF res # NoRow /\ res.here THEN res.ip = a
    ELSE InRange(a) /\ a \notin excluded /\ ~ReservedHere(a)

OffersAssignable ==
  \A a \in Addr : IsRow(a) /\ lease[a].state = "offered" /\ lease[a].ttl > 0
                    => Assignable(lease[a].mac, a)

OffersInv == Authoritative /\ OneReservationEach /\ OffersAssignable

LEMMA AllocateAssignable ==
  ASSUME Authoritative, OneReservationEach, NEW c \in Client, NEW req, NEW a \in Allocate(c, req)
  PROVE  Assignable(c, a)
  <1>1. PICK res \in ReservationByMac(c), old \in LeaseByMac(c) :
          IF res # NoRow /\ res.here THEN a = res.ip
          ELSE IF old # NoAddr /\ InRange(old) /\ old \notin excluded THEN a = old
          ELSE IF req \in FreeInRange(c) THEN a = req
          ELSE a \in FreeInRange(c)
    BY DEF Allocate
  <1>2. \A s \in ReservationByMac(c) : s = res
    BY DEF OneReservationEach, ReservationByMac
  <1>3. CASE res # NoRow /\ res.here
    BY <1>1, <1>2, <1>3 DEF Assignable
  <1>4. CASE ~(res # NoRow /\ res.here) /\ a \in FreeInRange(c)
    BY <1>2, <1>4 DEF Assignable, FreeInRange, Free
  <1>5. CASE ~(res # NoRow /\ res.here) /\ old # NoAddr /\ InRange(old) /\ old \notin excluded /\ a = old
    <2>1. old \in Addr /\ IsRow(old) /\ lease[old].mac = c
      BY <1>5 DEF LeaseByMac
    <2>2. ASSUME NEW r \in reservations, r.here, r.ip = old PROVE FALSE
      <3>1. r.mac = c
        BY <2>1, <2>2 DEF Authoritative, IInv, RowMatchesReservation
      <3>2. r \in ReservationByMac(c) /\ r # NoRow
        BY <3>1, NoRowAssumption DEF ReservationByMac, Authoritative, IInv, TypeOK
      <3> QED BY <1>2, <1>5, <2>2, <3>2
    <2> QED BY <1>2, <1>5, <2>2 DEF Assignable, ReservedHere
  <1> QED BY <1>1, <1>3, <1>4, <1>5

\* A row that is on offer was written by allocate just now, or was on offer before.
LEMMA OfferedBefore ==
  ASSUME TypeOK, NoTableEdits, [Next]_vars, NEW a \in Addr,
         IsRow(a)', lease'[a].state = "offered", lease'[a].ttl > 0
  PROVE  \/ \E c \in Client, req \in Addr \cup {NoAddr} : lease'[a].mac = c /\ a \in Allocate(c, req)
         \/ IsRow(a) /\ lease[a].state = "offered" /\ lease[a].ttl > 0 /\ lease'[a].mac = lease[a].mac
  <1> DEFINE Was == /\ IsRow(a) /\ lease[a].state = "offered" /\ lease[a].ttl > 0
                    /\ lease'[a].mac = lease[a].mac
  <1>1. ASSUME NEW c \in Client, NEW req \in Addr \cup {NoAddr}, Discover(c, req)
        PROVE  (lease'[a].mac = c /\ a \in Allocate(c, req)) \/ Was
    <2>1. PICK b \in Allocate(c, req) : lease' = Upsert(b, c, "offered")
      BY <1>1 DEF Discover
    <2>2. b \in Addr
      BY DEF Allocate
    <2>3. /\ lease'[b] = [mac |-> c, state |-> "offered", ttl |-> LeaseTime]
          /\ \A d \in Addr \ {b} : lease'[d] = lease[d]
      BY <2>1, <2>2, UpsertType, ZenonT(40) DEF RowState
    <2>4. CASE a = b
      BY <2>3, <2>4
    <2>5. CASE a # b
      BY <2>3, <2>5 DEF IsRow
    <2> QED BY <2>4, <2>5
  <1>2. ASSUME NEW c \in Client, NEW b \in Addr, Request(c, b) PROVE Was
    <2>1. lease' = Upsert(b, c, "active")
      BY <1>2 DEF Request
    <2>2. /\ lease'[b] = [mac |-> c, state |-> "active", ttl |-> LeaseTime]
          /\ \A d \in Addr \ {b} : lease'[d] = lease[d]
      <3>1. "active" \in RowState
        BY DEF RowState
      <3> QED BY <2>1, <3>1, UpsertType
    <2>3. CASE a = b
      BY <2>2, <2>3
    <2>4. CASE a # b
      BY <2>2, <2>4 DEF IsRow
    <2> QED BY <2>3, <2>4
  <1>3. ASSUME NEW m \in net, ServeRelease(m) \/ ServeDecline(m) PROVE Was
    <2>1. lease' = lease \/ \E st \in {"released", "declined"} : lease' = SetState(m.ip, st)
      BY <1>3 DEF ServeRelease, ServeDecline
    <2>2. ASSUME NEW st \in {"released", "declined"}, lease' = SetState(m.ip, st) PROVE Was
      <3>1. st \in RowState
        BY DEF RowState
      <3>2. m.ip # a \/ ~IsRow(a)
        <4>1. ASSUME m.ip = a, IsRow(a) PROVE lease'[a].state = st
          <5>1. lease' = [lease EXCEPT ![a].state = st]
            BY <2>2, <4>1 DEF SetState
          <5>2. lease[a] \in Row /\ lease'[a] = [lease[a] EXCEPT !.state = st]
            BY <4>1, <5>1 DEF TypeOK, IsRow
          <5> QED BY <5>2 DEF Row
        <4> QED BY <4>1
      <3> QED BY <2>2, <3>1, <3>2, SetStateType DEF IsRow
    <2> QED BY <2>1, <2>2 DEF IsRow
  <1>4. ASSUME NEW m \in net, ServeOther(m) PROVE Was
    BY <1>4 DEF ServeOther, IsRow, TypeOK
  <1>5. ASSUME Tick PROVE Was
    <2>1. IsRow(a) /\ lease'[a] = [lease[a] EXCEPT !.ttl = Less(lease[a].ttl)]
      BY <1>5 DEF Tick, IsRow
    <2>2. lease[a] \in Row
      BY <2>1 DEF TypeOK, IsRow
    <2>3. lease'[a].mac = lease[a].mac /\ lease'[a].state = lease[a].state /\ lease'[a].ttl = Less(lease[a].ttl)
      BY <2>1, <2>2 DEF Row
    <2>4. lease[a].ttl > 0
      BY <2>2, <2>3, LeaseTimeAssumption DEF Row, Less
    <2> QED BY <2>1, <2>3, <2>4
  <1>6. ASSUME \E S \in SUBSET Addr : Prune(S) PROVE Was
    BY <1>6 DEF Prune, IsRow
  <1>7. ASSUME lease' = lease PROVE Was
    BY <1>7 DEF IsRow
  <1>8. CASE \E c \in Client : ClientStep(c)
    BY <1>8, <1>1, <1>2, <1>7 DEF ClientStep, SendRelease, ChooseOther
  <1>9. CASE NetworkStep
    BY <1>9, <1>3, <1>4, <1>7 DEF NetworkStep, Serve, Lose
  <1>10. CASE OperatorStep
    BY <1>10, <1>7 DEF NoTableEdits, OperatorStep, ReservationAdd, ReservationDelete,
                       ExclusionEdit, LeaseDelete, FilterEdit, ScopeUpdate, ScopeDelete
  <1> QED
    BY <1>5, <1>6, <1>7, <1>8, <1>9, <1>10 DEF Next, vars

LEMMA TablesStay ==
  ASSUME NoTableEdits, [Next]_vars
  PROVE  UNCHANGED <<reservations, excluded>>
  BY DEF NoTableEdits, Next, vars, ClientStep, Discover, Request, SendRelease, ChooseOther,
         NetworkStep, Serve, Lose, Tick, Prune, OperatorStep, ReservationAdd, ReservationDelete,
         ExclusionEdit, LeaseDelete, FilterEdit, ScopeUpdate, ScopeDelete

\* On a prompt network, and while the operator edits no table and has given no client
\* two reservations: what allocate offers, canAssign grants, as long as the offer runs.
THEOREM OffersAreGranted ==
  ASSUME Prompt, NoTableEdits, OneEachAtFirst
  PROVE  Spec => []OfferStands
  <1>0. LeavesRows
    BY DEF LeavesRows, NoTableEdits
  <1>1. Init => OffersInv
    <2> SUFFICES ASSUME Init PROVE OffersInv
      OBVIOUS
    <2>1. Authoritative
      BY <1>0, InitInvariant, NothingTouched DEF Authoritative
    <2> QED BY <2>1 DEF OffersInv, Init, OneReservationEach, OneEachAtFirst, OffersAssignable, IsRow
  <1>2. OffersInv /\ [Next]_vars => OffersInv'
    <2> SUFFICES ASSUME OffersInv, [Next]_vars PROVE OffersInv'
      OBVIOUS
    <2>1. Authoritative /\ OneReservationEach /\ TypeOK
      BY DEF OffersInv, Authoritative, IInv
    <2>2. Authoritative'
      BY <1>0, <2>1, NextInvariant, NothingTouched DEF Authoritative
    <2>3. UNCHANGED <<reservations, excluded>>
      BY TablesStay
    <2>4. \A c \in Client, a \in Addr : Assignable(c, a) => Assignable(c, a)'
      BY <2>3 DEF Assignable, ReservationByMac, ReservedHere
    <2>5. OffersAssignable'
      <3> SUFFICES ASSUME NEW a \in Addr, IsRow(a)', lease'[a].state = "offered", lease'[a].ttl > 0
                   PROVE  Assignable(lease[a].mac, a)'
        BY DEF OffersAssignable
      <3>1. CASE \E c \in Client, req \in Addr \cup {NoAddr} : lease'[a].mac = c /\ a \in Allocate(c, req)
        BY <2>1, <2>4, <3>1, AllocateAssignable
      <3>2. CASE IsRow(a) /\ lease[a].state = "offered" /\ lease[a].ttl > 0 /\ lease'[a].mac = lease[a].mac
        <4>1. lease[a].mac \in Client
          BY <2>1, <3>2 DEF TypeOK, IsRow, Row
        <4>2. Assignable(lease[a].mac, a)
          BY <3>2 DEF OffersInv, OffersAssignable
        <4> QED BY <2>4, <3>2, <4>1, <4>2
      <3> QED BY <2>1, <3>1, <3>2, OfferedBefore
    <2> QED BY <2>1, <2>2, <2>3, <2>5 DEF OffersInv, OneReservationEach
  <1>3. OffersInv => OfferStands
    BY DEF OffersInv, OffersAssignable, Assignable, OfferStands, CanAssign
  <1> QED
    BY <1>1, <1>2, <1>3, PTL DEF Spec

-----------------------------------------------------------------------------
(* No live row changes hands, on any network.                              *)

LEMMA WriteRowTakesNone ==
  ASSUME TypeOK, NEW c \in Client, NEW a \in Addr, Grounds(c, a),
         NEW st \in RowState, lease' = Upsert(a, c, st)
  PROVE  NoRowTaken
  <1>1. /\ lease'[a] = [mac |-> c, state |-> st, ttl |-> LeaseTime]
        /\ \A b \in Addr \ {a} : lease'[b] = lease[b]
    BY UpsertType
  <1> QED
    BY <1>1 DEF NoRowTaken, Grounds, Free, Live

LEMMA NextTakesNone == TypeOK /\ [Next]_vars => [NoRowTaken]_vars
  <1> SUFFICES ASSUME TypeOK, Next PROVE NoRowTaken
    OBVIOUS
  <1>1. ASSUME NEW c \in Client, NEW req, Discover(c, req) PROVE NoRowTaken
    <2>1. PICK a \in Allocate(c, req) : lease' = Upsert(a, c, "offered")
      BY <1>1 DEF Discover
    <2>2. a \in Addr /\ Grounds(c, a)
      BY AllocateSound DEF Grounds
    <2> QED
      BY <2>1, <2>2, WriteRowTakesNone DEF RowState
  <1>2. ASSUME NEW c \in Client, NEW a \in Addr, Request(c, a) PROVE NoRowTaken
    <2>1. Grounds(c, a)
      BY <1>2, CanAssignSound DEF Request, Grounds
    <2> QED
      BY <1>2, <2>1, WriteRowTakesNone DEF Request, RowState
  <1>3. ASSUME NEW m \in net, ServeRelease(m) \/ ServeDecline(m) PROVE NoRowTaken
    <2>1. lease' = lease \/ \E st \in RowState : lease' = SetState(m.ip, st)
      BY <1>3 DEF ServeRelease, ServeDecline, RowState
    <2> QED
      BY <2>1, SetStateType DEF NoRowTaken, Live
  <1>4. ASSUME NEW m \in net, ServeOther(m) PROVE NoRowTaken
    BY <1>4 DEF ServeOther, NoRowTaken, Live, IsRow, TypeOK
  <1>5. ASSUME Tick PROVE NoRowTaken
    <2> SUFFICES ASSUME NEW a \in Addr, Live(a) PROVE lease'[a].mac = lease[a].mac
      BY DEF NoRowTaken
    <2>1. lease[a] \in Row
      BY DEF TypeOK, Live, IsRow
    <2>2. lease'[a] = [lease[a] EXCEPT !.ttl = Less(lease[a].ttl)]
      BY <1>5 DEF Tick, Live
    <2> QED
      BY <2>1, <2>2 DEF Row
  <1>6. ASSUME \/ \E S \in SUBSET Addr : Prune(S)
               \/ ScopeDelete
               \/ \E a \in Addr : LeaseDelete(a)
        PROVE  NoRowTaken
    BY <1>6 DEF Prune, ScopeDelete, LeaseDelete, NoRowTaken, TypeOK
  <1>7. ASSUME lease' = lease PROVE NoRowTaken
    BY <1>7 DEF NoRowTaken
  <1>8. CASE \E c \in Client : ClientStep(c)
    BY <1>8, <1>1, <1>2, <1>7 DEF ClientStep, SendRelease, ChooseOther
  <1>9. CASE NetworkStep
    BY <1>9, <1>3, <1>4, <1>7 DEF NetworkStep, Serve, Lose
  <1>10. CASE OperatorStep
    BY <1>10, <1>6, <1>7 DEF OperatorStep, ReservationAdd, ReservationDelete,
                             ExclusionEdit, FilterEdit, ScopeUpdate
  <1> QED
    BY <1>5, <1>6, <1>8, <1>9, <1>10 DEF Next

\* A live row passes to another client only by a reservation, whatever the
\* network loses, delays, repeats or reorders and the operator edits.
THEOREM LiveRowsStay == Spec => NoTakeover
  <1>1. Spec => []TypeOK
    BY TypeCorrect
  <1>2. TypeOK /\ [Next]_vars => [NoRowTaken]_vars
    BY NextTakesNone
  <1> QED
    BY <1>1, <1>2, PTL DEF Spec, NoTakeover
=============================================================================

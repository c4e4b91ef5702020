-------------------------- MODULE Services_proofs --------------------------
(***************************************************************************)
(* The services and their pages: each part first, then their composition.  *)
(*                                                                         *)
(* The lookup agrees with the tables, for any names, clients, rows, lists  *)
(* and number of rebuilds.  A recompilation makes it so whatever was       *)
(* before (Recompiled); the steps without one either change no table, or   *)
(* are recorded in missed, or belong to a rebuild that is still under way, *)
(* or add a list.  For the last, a list that was never added must hold no  *)
(* names and be in nobody's rebuild: UnusedIds.                            *)
(*                                                                         *)
(* What a client reads from a reply is what is configured for it: the      *)
(* joined bytes of the options are read back one by one (DecodeIs), those  *)
(* of a reply are one for each code and short enough (BuiltAre), and the   *)
(* merged levels have for each code what the most specific one has         *)
(* (MergedHas).                                                            *)
(***************************************************************************)
EXTENDS MCServices, WellFoundedInduction, FiniteSetTheorems, SequenceTheorems, TLAPS

\* Nothing is known of an id before its list is added.
UnusedIds ==
  \A a \in AdlistId : adlists[a] = NoRow =>
    gravity[a] = {} /\ \A w \in Worker : rebuild[w] = Idle \/ a \notin rebuild[w]

IInv == TypeOK /\ UnusedIds /\ CompiledFresh

-----------------------------------------------------------------------------
\* The markers of an absent row differ.
LEMMA MarkersDiffer == NoRow # Gone
  BY DEF NoRow, Gone

\* No list's row is the marker of an absent one.
LEMMA RowsAreRows == \A r \in AdlistRow : r # NoRow
<1>1. SUFFICES ASSUME NEW r \in AdlistRow PROVE DOMAIN r # DOMAIN NoRow
  OBVIOUS
<1>2. "type" \in DOMAIN r
  BY RowAssumption
<1>3. "type" \notin DOMAIN NoRow
  BY DEF NoRow
<1> QED BY <1>2, <1>3

\* What compile builds has the type of a lookup.
LEMMA CompileType ==
  ASSUME NEW m \in [ManualId -> ManualRow \cup {NoRow}],
         NEW ads \in [AdlistId -> AdlistRow \cup NotRow],
         NEW g \in [AdlistId -> SUBSET Name]
  PROVE  Compile(m, ads, g) \subseteq Entry
<1>1. ActiveEntries(m) \subseteq Entry
  <2>1. SUFFICES ASSUME NEW i \in ManualId, m[i] # NoRow
                 PROVE  [gravity |-> FALSE, type |-> m[i].type, prio |-> m[i].prio,
                         groups |-> OrDefault(m[i].groups), names |-> m[i].names] \in Entry
    BY DEF ActiveEntries
  <2>2. m[i] \in ManualRow
    BY <2>1
  <2>3. /\ m[i].type \in Types /\ m[i].prio \in Int
        /\ m[i].groups \subseteq Group /\ m[i].names \subseteq Name
    BY <2>2, RowAssumption
  <2>4. OrDefault(m[i].groups) \subseteq Group
    BY <2>3, BoundsAssumption DEF OrDefault
  <2> QED BY <2>3, <2>4 DEF Entry
<1>2. GravityEntries(ads, g) \subseteq Entry
  <2>1. SUFFICES ASSUME NEW a \in AdlistId, ads[a] \notin NotRow
                 PROVE  [gravity |-> TRUE, type |-> ads[a].type, prio |-> ads[a].prio,
                         groups |-> OrDefault(ads[a].groups), names |-> g[a]] \in Entry
    BY DEF GravityEntries
  <2>2. ads[a] \in AdlistRow
    BY <2>1
  <2>3. ads[a].type \in Types /\ ads[a].prio \in Int /\ ads[a].groups \subseteq Group
    BY <2>2, RowAssumption
  <2>4. OrDefault(ads[a].groups) \subseteq Group
    BY <2>3, BoundsAssumption DEF OrDefault
  <2> QED BY <2>3, <2>4 DEF Entry
<1> QED BY <1>1, <1>2 DEF Compile

\* The two halves of a compiled lookup tell themselves apart.
LEMMA Halves ==
  ASSUME NEW m, NEW ads, NEW g
  PROVE  /\ \A e \in ActiveEntries(m) : ~e.gravity
         /\ \A e \in GravityEntries(ads, g) :
              /\ e.gravity
              /\ \E a \in AdlistId :
                   /\ ads[a] \notin NotRow /\ ads[a].enabled
                   /\ e.type = ads[a].type /\ e.prio = ads[a].prio
                   /\ e.groups = OrDefault(ads[a].groups)
<1>1. \A e \in ActiveEntries(m) : ~e.gravity
  BY DEF ActiveEntries
<1>2. ASSUME NEW e \in GravityEntries(ads, g)
      PROVE  /\ e.gravity
             /\ \E a \in AdlistId :
                  /\ ads[a] \notin NotRow /\ ads[a].enabled
                  /\ e.type = ads[a].type /\ e.prio = ads[a].prio
                  /\ e.groups = OrDefault(ads[a].groups)
  <2>1. PICK a \in AdlistId :
          /\ ads[a] \notin NotRow /\ ads[a].enabled
          /\ e = [gravity |-> TRUE, type |-> ads[a].type, prio |-> ads[a].prio,
                  groups |-> OrDefault(ads[a].groups), names |-> g[a]]
    BY DEF GravityEntries
  <2> QED BY <2>1
<1> QED BY <1>1, <1>2

\* After a recompilation, or when it is what the tables give, the lookup is fresh.
LEMMA FreshWhenInForce == compiled = InForce => CompiledFresh
<1> SUFFICES ASSUME compiled = InForce PROVE CompiledFresh
  OBVIOUS
<1> DEFINE M == ActiveEntries(manual)
           G == GravityEntries(adlists, gravity)
<1>1. compiled = M \cup G
  BY DEF InForce, Compile
<1>2. \A e \in M : ~e.gravity
  BY Halves
<1>3. \A e \in G : /\ e.gravity
                   /\ \E a \in AdlistId :
                        /\ adlists[a] \notin NotRow /\ adlists[a].enabled
                        /\ e.type = adlists[a].type /\ e.prio = adlists[a].prio
                        /\ e.groups = OrDefault(adlists[a].groups)
  BY Halves
<1>4. {e \in compiled : ~e.gravity} = M
  <2> HIDE DEF M, G
  <2> QED BY <1>1, <1>2, <1>3, Zenon
<1>5. \A e \in compiled : e.gravity => e \in G
  <2> HIDE DEF M, G
  <2> QED BY <1>1, <1>2, Zenon
<1> QED BY <1>3, <1>4, <1>5 DEF CompiledFresh

LEMMA RecompiledFresh == Recompile => CompiledFresh'
<1>1. Recompile => (compiled = InForce)'
  BY DEF Recompile, InForce
<1>2. (compiled = InForce)' => CompiledFresh'
  BY FreshWhenInForce, PTL
<1> QED BY <1>1, <1>2

\* A step that touches neither the tables, nor the lookup, nor a rebuild.
LEMMA QuietFresh ==
  ASSUME CompiledFresh, UNCHANGED <<tables, lookup, rebuild>>
  PROVE  CompiledFresh'
BY DEF CompiledFresh, InForce, Rebuilding, tables, lookup

LEMMA QuietUnused ==
  ASSUME UnusedIds, UNCHANGED <<adlists, gravity, rebuild>>
  PROVE  UnusedIds'
BY DEF UnusedIds

-----------------------------------------------------------------------------
\* A rebuild under way that loses a list, but not its last, is under way.
LEMMA StillRebuilding ==
  ASSUME TypeOK, NEW w \in Worker, NEW a \in AdlistId, Fetched(w, a), rebuild[w] # {a}
  PROVE  Rebuilding'
<1>1. rebuild[w] \in SUBSET AdlistId /\ a \in rebuild[w]
  BY DEF TypeOK, Fetched
<1>2. rebuild'[w] = rebuild[w] \ {a}
  BY DEF TypeOK, Fetched
<1>3. rebuild'[w] # Idle
  <2>1. PICK b \in rebuild[w] : b # a
    BY <1>1
  <2>2. b \in rebuild'[w] /\ b # 0
    BY <1>1, <1>2, <2>1, BoundsAssumption
  <2> QED BY <2>2 DEF Idle
<1> QED BY <1>3 DEF Rebuilding

\* A download, good or bad, leaves the lookup fresh.
LEMMA FetchedFresh ==
  ASSUME TypeOK, CompiledFresh, NEW w \in Worker, NEW a \in AdlistId, Fetched(w, a)
  PROVE  CompiledFresh'
<1>1. CASE rebuild[w] = {a}
  BY <1>1, RecompiledFresh DEF Fetched
<1>2. CASE rebuild[w] # {a}
  <2>1. UNCHANGED <<manual, adlists, lookup>>
    BY <1>2 DEF Fetched
  <2>2. Rebuilding'
    BY <1>2, StillRebuilding
  <2> QED BY <2>1, <2>2 DEF CompiledFresh, lookup
<1> QED BY <1>1, <1>2

\* An edit that goes past the lookup is on record, and touches no list.
LEMMA MissedFresh ==
  ASSUME CompiledFresh, UNCHANGED <<adlists, compiled>>, missed'
  PROVE  CompiledFresh'
BY DEF CompiledFresh

\* A list that was never added holds nothing, so adding it changes no entry.
LEMMA AdlistAddFresh ==
  ASSUME IInv, NEW a \in AdlistId, NEW row \in AdlistRow, AdlistAdd(a, row)
  PROVE  CompiledFresh'
<1> USE DEF IInv
<1>1. adlists[a] = NoRow /\ gravity[a] = {}
  BY DEF AdlistAdd, NextId, UnusedIds
<1>2. /\ adlists' = [adlists EXCEPT ![a] = row]
      /\ UNCHANGED <<manual, gravity, lookup, rebuild>>
  BY DEF AdlistAdd
<1>3. \A b \in AdlistId : b # a => adlists'[b] = adlists[b]
  BY <1>2 DEF TypeOK
<1>4. GravityEntries(adlists', gravity') = GravityEntries(adlists, gravity)
  <2> DEFINE Of(ads) == {b \in AdlistId : ads[b] \notin NotRow /\ ads[b].enabled /\ gravity[b] # {}}
  <2>1. Of(adlists') = Of(adlists)
    BY <1>1, <1>3
  <2>2. \A b \in Of(adlists) : adlists'[b] = adlists[b]
    BY <1>1, <1>3
  <2> QED BY <2>1, <2>2, <1>2 DEF GravityEntries
<1>5. InForce' = InForce
  BY <1>2, <1>4 DEF InForce, Compile
<1>6. ASSUME NEW b \in AdlistId, adlists[b] \notin NotRow
      PROVE  adlists'[b] = adlists[b]
  BY <1>1, <1>3, <1>6 DEF NotRow
<1> QED BY <1>2, <1>5, <1>6 DEF CompiledFresh, Rebuilding, lookup

-----------------------------------------------------------------------------
\* Every action leaves the lookup fresh.
LEMMA FreshStep ==
  ASSUME IInv, [Next]_vars
  PROVE  CompiledFresh'
<1> USE DEF IInv
<1>1. ASSUME NEW i \in ManualId, NEW row \in ManualRow, DomainAdd(i, row) \/ DomainUpdate(i, row)
      PROVE  CompiledFresh'
  BY <1>1, RecompiledFresh DEF DomainAdd, DomainUpdate
<1>2. ASSUME NEW i \in ManualId, NEW row \in ManualRow, ApplyRemediation(i, row)
      PROVE  CompiledFresh'
  BY <1>2, MissedFresh DEF ApplyRemediation, PutManual
<1>3. ASSUME NEW i \in ManualId, DomainDelete(i)
      PROVE  CompiledFresh'
  BY <1>3, RecompiledFresh DEF DomainDelete
<1>4. ASSUME NEW i \in ManualId, Unblock(i)
      PROVE  CompiledFresh'
  BY <1>4, MissedFresh DEF Unblock, PutManual
<1>5. ASSUME NEW a \in AdlistId, NEW row \in AdlistRow, AdlistAdd(a, row)
      PROVE  CompiledFresh'
  BY <1>5, AdlistAddFresh
<1>6. ASSUME NEW a \in AdlistId, NEW row \in AdlistRow, AdlistUpdate(a, row)
      PROVE  CompiledFresh'
  BY <1>6, RecompiledFresh DEF AdlistUpdate
<1>7. ASSUME NEW a \in AdlistId, AdlistDelete(a)
      PROVE  CompiledFresh'
  BY <1>7, RecompiledFresh DEF AdlistDelete
<1>8. ASSUME NEW c \in Client, NEW groups \in SUBSET Group, ClientGroupsSet(c, groups)
      PROVE  CompiledFresh'
  BY <1>8, RecompiledFresh DEF ClientGroupsSet
<1>9. CASE GroupEdit
  BY <1>9, RecompiledFresh DEF GroupEdit
<1>10. ASSUME NEW w \in Worker, RebuildStart(w)
       PROVE  CompiledFresh'
  <2> DEFINE lists == {a \in AdlistId : adlists[a] \notin NotRow /\ adlists[a].enabled /\ adlists[a].http}
  <2>1. CASE lists = {}
    BY <1>10, <2>1, RecompiledFresh DEF RebuildStart
  <2>2. CASE lists # {}
    <3>1. UNCHANGED <<tables, lookup>>
      BY <1>10, <2>2 DEF RebuildStart
    <3>2. rebuild'[w] = lists
      BY <1>10, <2>2 DEF RebuildStart, TypeOK
    <3>3. Rebuilding'
      <4>1. 0 \notin lists
        BY BoundsAssumption
      <4> QED BY <3>2, <4>1 DEF Rebuilding, Idle
    <3> QED BY <3>1, <3>3 DEF CompiledFresh, tables, lookup
  <2> QED BY <2>1, <2>2
<1>11. ASSUME NEW w \in Worker, NEW a \in AdlistId, FetchOk(w, a) \/ FetchFails(w, a)
       PROVE  CompiledFresh'
  BY <1>11, FetchedFresh DEF FetchOk, FetchFails
<1>12. ASSUME NEW c \in Client, NEW n \in Name, Query(c, n)
       PROVE  CompiledFresh'
  BY <1>12, QuietFresh DEF Query
<1>13. ASSUME NEW n \in Name, Answered(n) \/ Unanswered(n) \/ Expire(n)
       PROVE  CompiledFresh'
  BY <1>13, QuietFresh DEF Answered, Unanswered, Expire
<1>14. ASSUME NEW p \in Pause, SetBlocking(p)
       PROVE  CompiledFresh'
  BY <1>14, QuietFresh DEF SetBlocking
<1>15. ASSUME NEW on \in BOOLEAN, NEW S \in SUBSET (Name \ Local), SetSinkhole(on, S)
       PROVE  CompiledFresh'
  BY <1>15, QuietFresh DEF SetSinkhole
<1>16. CASE Tick
  BY <1>16, QuietFresh DEF Tick
<1>17. CASE Configure
  BY <1>17, QuietFresh DEF Configure
<1>18. CASE Control
  BY <1>18, RecompiledFresh DEF Control
<1>19. CASE Restart
  BY <1>19, RecompiledFresh DEF Restart
<1>20. CASE UNCHANGED vars
  BY <1>20, QuietFresh DEF vars, tables, lookup
<1>21. CASE ListEdit
  BY <1>21, <1>1, <1>2, <1>3, <1>4, <1>5, <1>6, <1>7, <1>8, <1>9 DEF ListEdit
<1>22. CASE \E w \in Worker : Gravity(w)
  BY <1>22, <1>10, <1>11 DEF Gravity
<1>23. CASE Resolve
  BY <1>23, <1>12, <1>13 DEF Resolve
<1>24. CASE Manage
  BY <1>24, <1>14, <1>15, <1>16, <1>17, <1>18, <1>19 DEF Manage
<1> QED BY <1>20, <1>21, <1>22, <1>23, <1>24 DEF Next

\* Every action keeps the ids that were not given out unknown.
LEMMA UnusedStep ==
  ASSUME IInv, [Next]_vars
  PROVE  UnusedIds'
<1> USE DEF IInv
<1>1. ASSUME NEW a \in AdlistId, NEW w \in Worker, FetchOk(w, a) \/ FetchFails(w, a)
      PROVE  UnusedIds'
  <2>1. adlists' = adlists /\ adlists[a] # NoRow
    BY <1>1 DEF FetchOk, FetchFails, Fetched, UnusedIds
  <2>2. \A b \in AdlistId : b # a => gravity'[b] = gravity[b]
    BY <1>1 DEF FetchOk, FetchFails, TypeOK
  <2>3. \A v \in Worker : rebuild'[v] = Idle \/ rebuild'[v] \subseteq rebuild[v]
    BY <1>1 DEF FetchOk, FetchFails, Fetched, TypeOK
  <2>4. \A v \in Worker : rebuild[v] = Idle => rebuild'[v] = Idle
    BY <1>1 DEF FetchOk, FetchFails, Fetched, TypeOK
  <2> QED BY <2>1, <2>2, <2>3, <2>4 DEF UnusedIds
<1>2. ASSUME NEW w \in Worker, RebuildStart(w)
      PROVE  UnusedIds'
  <2> DEFINE lists == {a \in AdlistId : adlists[a] \notin NotRow /\ adlists[a].enabled /\ adlists[a].http}
  <2>1. UNCHANGED <<adlists, gravity>>
    BY <1>2 DEF RebuildStart, tables
  <2>2. rebuild'[w] = Idle \/ rebuild'[w] = lists
    BY <1>2 DEF RebuildStart, TypeOK
  <2>3. \A v \in Worker : v # w => rebuild'[v] = rebuild[v]
    BY <1>2 DEF RebuildStart, TypeOK
  <2>4. \A a \in lists : adlists[a] # NoRow
    BY DEF NotRow
  <2> QED BY <2>1, <2>2, <2>3, <2>4 DEF UnusedIds
<1>3. ASSUME NEW a \in AdlistId, NEW row \in AdlistRow, AdlistAdd(a, row) \/ AdlistUpdate(a, row)
      PROVE  UnusedIds'
  <2>1. \A b \in AdlistId : b # a => adlists'[b] = adlists[b]
    BY <1>3 DEF AdlistAdd, AdlistUpdate, TypeOK
  <2>2. UNCHANGED <<gravity, rebuild>>
    BY <1>3 DEF AdlistAdd, AdlistUpdate
  <2>3. adlists[a] = NoRow => UnusedIds'
    BY <2>1, <2>2 DEF UnusedIds
  <2>4. ASSUME adlists[a] # NoRow
        PROVE  UnusedIds'
    <3>1. row # NoRow
      BY RowsAreRows
    <3>2. adlists'[a] = row
      BY <1>3 DEF AdlistAdd, AdlistUpdate, TypeOK
    <3> QED BY <2>1, <2>2, <3>1, <3>2 DEF UnusedIds
  <2> QED BY <2>3, <2>4
<1>4. ASSUME NEW a \in AdlistId, AdlistDelete(a)
      PROVE  UnusedIds'
  <2>1. \A b \in AdlistId : b # a => adlists'[b] = adlists[b] /\ gravity'[b] = gravity[b]
    BY <1>4 DEF AdlistDelete, TypeOK
  <2>2. adlists'[a] # NoRow /\ rebuild' = rebuild
    BY <1>4, MarkersDiffer DEF AdlistDelete, TypeOK
  <2> QED BY <2>1, <2>2 DEF UnusedIds
<1>5. CASE Restart
  <2>1. \A w \in Worker : rebuild'[w] = Idle
    BY <1>5 DEF Restart
  <2>2. CASE UNCHANGED <<adlists, gravity>>
    BY <2>1, <2>2 DEF UnusedIds
  <2>3. CASE ~ UNCHANGED <<adlists, gravity>>
    <3>1. PICK a \in AdlistId, S \in Content \ {{}} :
            /\ adlists' = Seeded(adlists, a)
            /\ gravity' = [gravity EXCEPT ![a] = S]
      BY <1>5, <2>3 DEF Restart, Seed
    <3>2. \A b \in AdlistId :
            adlists'[b] = NoRow => adlists[b] = NoRow /\ gravity'[b] = gravity[b]
      BY <3>1, RowsAreRows, BoundsAssumption DEF TypeOK, Seeded
    <3> QED BY <2>1, <3>2 DEF UnusedIds
  <2> QED BY <2>2, <2>3
<1>6. CASE UNCHANGED <<adlists, gravity, rebuild>>
  BY <1>6, QuietUnused
<1>7. CASE ListEdit
  <2>1. ASSUME NEW i \in ManualId, NEW row \in ManualRow,
               DomainAdd(i, row) \/ DomainUpdate(i, row) \/ ApplyRemediation(i, row)
        PROVE  UNCHANGED <<adlists, gravity, rebuild>>
    BY <2>1 DEF DomainAdd, DomainUpdate, ApplyRemediation, PutManual
  <2>2. ASSUME NEW i \in ManualId, DomainDelete(i) \/ Unblock(i)
        PROVE  UNCHANGED <<adlists, gravity, rebuild>>
    BY <2>2 DEF DomainDelete, Unblock, PutManual
  <2>3. ASSUME NEW c \in Client, NEW groups \in SUBSET Group, ClientGroupsSet(c, groups)
        PROVE  UNCHANGED <<adlists, gravity, rebuild>>
    BY <2>3 DEF ClientGroupsSet, tables
  <2>4. GroupEdit => UNCHANGED <<adlists, gravity, rebuild>>
    BY DEF GroupEdit, tables
  <2> QED BY <1>3, <1>4, <1>6, <1>7, <2>1, <2>2, <2>3, <2>4 DEF ListEdit
<1>8. CASE \E w \in Worker : Gravity(w)
  BY <1>8, <1>1, <1>2 DEF Gravity
<1>9. CASE Resolve
  <2>1. UNCHANGED <<adlists, gravity, rebuild>>
    BY <1>9 DEF Resolve, Query, Answered, Unanswered, Expire, tables
  <2> QED BY <2>1, <1>6
<1>10. CASE Manage
  <2>1. Restart \/ UNCHANGED <<adlists, gravity, rebuild>>
    BY <1>10 DEF Manage, SetBlocking, SetSinkhole, Tick, Configure, Control, tables
  <2> QED BY <2>1, <1>5, <1>6
<1>11. CASE UNCHANGED vars
  BY <1>11, <1>6 DEF vars
<1> QED BY <1>7, <1>8, <1>9, <1>10, <1>11 DEF Next

-----------------------------------------------------------------------------
\* The lookup has its type when it is compiled, and when it is kept.
LEMMA RecompiledType ==
  ASSUME /\ manual' \in [ManualId -> ManualRow \cup {NoRow}]
         /\ adlists' \in [AdlistId -> AdlistRow \cup NotRow]
         /\ gravity' \in [AdlistId -> SUBSET Name],
         Recompile
  PROVE  compiled' \subseteq Entry /\ missed' \in BOOLEAN
BY CompileType DEF Recompile

\* A download leaves a rebuild that is done or has lists to fetch.
LEMMA FetchedType ==
  ASSUME TypeOK, NEW w \in Worker, NEW a \in AdlistId, Fetched(w, a),
         gravity' \in [AdlistId -> SUBSET Name]
  PROVE  TypeOK'
<1>1. rebuild' \in [Worker -> ((SUBSET AdlistId) \ {{}}) \cup {Idle}]
  BY DEF TypeOK, Fetched
<1>2. UNCHANGED <<manual, adlists, clientGroups, stored, blocking, cache, flights, sinkhole>>
  BY DEF Fetched, others
<1>3. compiled' \subseteq Entry /\ missed' \in BOOLEAN
  <2>1. CASE rebuild[w] = {a}
    BY <1>2, <2>1, RecompiledType DEF Fetched, TypeOK
  <2>2. CASE rebuild[w] # {a}
    BY <2>2 DEF Fetched, TypeOK, lookup
  <2> QED BY <2>1, <2>2
<1> QED BY <1>1, <1>2, <1>3 DEF TypeOK

\* A pause that loses a tick is a pause.
LEMMA LeftType == \A p \in Pause : Left(p) \in Pause
  BY BoundsAssumption DEF Left, Pause, Forever

\* Every action keeps the types.
LEMMA TypeStep ==
  ASSUME TypeOK, [Next]_vars
  PROVE  TypeOK'
<1>1. ASSUME NEW i \in ManualId, NEW row \in ManualRow,
             DomainAdd(i, row) \/ DomainUpdate(i, row) \/ ApplyRemediation(i, row)
      PROVE  TypeOK'
  <2>1. PutManual(i, row) /\ (Recompile \/ (compiled' = compiled /\ missed' = TRUE))
    BY <1>1 DEF DomainAdd, DomainUpdate, ApplyRemediation
  <2> QED BY <2>1, RecompiledType DEF PutManual, others, TypeOK
<1>2. ASSUME NEW i \in ManualId, DomainDelete(i) \/ Unblock(i)
      PROVE  TypeOK'
  <2>1. PutManual(i, NoRow) /\ (Recompile \/ (compiled' = compiled /\ missed' = TRUE))
    BY <1>2 DEF DomainDelete, Unblock
  <2> QED BY <2>1, RecompiledType DEF PutManual, others, TypeOK
<1>3. ASSUME NEW a \in AdlistId, NEW row \in AdlistRow, AdlistAdd(a, row) \/ AdlistUpdate(a, row)
      PROVE  TypeOK'
  <2>1. /\ adlists' \in [AdlistId -> AdlistRow \cup NotRow]
        /\ UNCHANGED <<manual, gravity, clientGroups, others, rebuild>>
        /\ Recompile \/ UNCHANGED lookup
    BY <1>3 DEF AdlistAdd, AdlistUpdate, TypeOK
  <2> QED BY <2>1, RecompiledType DEF lookup, others, TypeOK
<1>4. ASSUME NEW a \in AdlistId, AdlistDelete(a)
      PROVE  TypeOK'
  BY <1>4, RecompiledType DEF AdlistDelete, NotRow, others, TypeOK
<1>5. ASSUME NEW c \in Client, NEW groups \in SUBSET Group, ClientGroupsSet(c, groups)
      PROVE  TypeOK'
  BY <1>5, RecompiledType DEF ClientGroupsSet, tables, others, TypeOK
<1>6. CASE GroupEdit
  BY <1>6, RecompiledType DEF GroupEdit, tables, others, TypeOK
<1>7. ASSUME NEW w \in Worker, RebuildStart(w)
      PROVE  TypeOK'
  <2> DEFINE lists == {a \in AdlistId : adlists[a] \notin NotRow /\ adlists[a].enabled /\ adlists[a].http}
  <2>1. rebuild' \in [Worker -> ((SUBSET AdlistId) \ {{}}) \cup {Idle}]
    <3>1. \E new \in ((SUBSET AdlistId) \ {{}}) \cup {Idle} : rebuild' = [rebuild EXCEPT ![w] = new]
      <4>1. (IF lists = {} THEN Idle ELSE lists) \in ((SUBSET AdlistId) \ {{}}) \cup {Idle}
        OBVIOUS
      <4>2. rebuild' = [rebuild EXCEPT ![w] = IF lists = {} THEN Idle ELSE lists]
        BY <1>7 DEF RebuildStart
      <4> HIDE DEF lists
      <4> QED BY <4>1, <4>2
    <3> QED BY <3>1 DEF TypeOK
  <2>2. UNCHANGED <<tables, clientGroups, others>> /\ (Recompile \/ UNCHANGED lookup)
    BY <1>7 DEF RebuildStart
  <2> QED BY <2>1, <2>2, RecompiledType DEF tables, lookup, others, TypeOK
<1>8. ASSUME NEW w \in Worker, NEW a \in AdlistId, FetchOk(w, a) \/ FetchFails(w, a)
      PROVE  TypeOK'
  <2>1. gravity' \in [AdlistId -> SUBSET Name]
    BY <1>8, BoundsAssumption DEF FetchOk, FetchFails, TypeOK
  <2> QED BY <1>8, <2>1, FetchedType DEF FetchOk, FetchFails
<1>9. ASSUME NEW c \in Client, NEW n \in Name, Query(c, n)
      PROVE  TypeOK'
  <2>1. n \in Name \ Local
    BY <1>9 DEF Query, Answer
  <2> QED BY <1>9, <2>1 DEF Query, tables, lookup, TypeOK
<1>10. ASSUME NEW n \in Name, Answered(n) \/ Unanswered(n) \/ Expire(n)
       PROVE  TypeOK'
  BY <1>10 DEF Answered, Unanswered, Expire, tables, lookup, TypeOK
<1>11. ASSUME NEW p \in Pause, SetBlocking(p)
       PROVE  TypeOK'
  BY <1>11 DEF SetBlocking, tables, lookup, TypeOK
<1>12. ASSUME NEW on \in BOOLEAN, NEW S \in SUBSET (Name \ Local), SetSinkhole(on, S)
       PROVE  TypeOK'
  BY <1>12 DEF SetSinkhole, tables, lookup, TypeOK
<1>13. CASE Tick
  BY <1>13, LeftType DEF Tick, tables, lookup, TypeOK
<1>14. CASE Configure
  BY <1>14 DEF Configure, tables, lookup, TypeOK
<1>15. CASE Control
  BY <1>15, RecompiledType DEF Control, tables, TypeOK
<1>16. CASE Restart
  <2>1. /\ adlists' \in [AdlistId -> AdlistRow \cup NotRow]
        /\ gravity' \in [AdlistId -> SUBSET Name]
    BY <1>16, BoundsAssumption DEF Restart, Seed, Seeded, TypeOK
  <2>2. clientGroups' \in [Client -> SUBSET Group]
    BY <1>16 DEF Restart, TypeOK
  <2>3. sinkhole' \in [on : BOOLEAN, names : SUBSET Name]
    BY <1>16 DEF Restart
  <2>4. rebuild' \in [Worker -> ((SUBSET AdlistId) \ {{}}) \cup {Idle}]
    BY <1>16 DEF Restart
  <2>5. compiled' \subseteq Entry /\ missed' \in BOOLEAN
    BY <1>16, <2>1, RecompiledType DEF Restart, TypeOK
  <2> QED BY <1>16, <2>1, <2>2, <2>3, <2>4, <2>5 DEF Restart, TypeOK
<1>17. CASE UNCHANGED vars
  BY <1>17 DEF vars, TypeOK
<1>18. CASE ListEdit
  BY <1>18, <1>1, <1>2, <1>3, <1>4, <1>5, <1>6 DEF ListEdit
<1>19. CASE \E w \in Worker : Gravity(w)
  BY <1>19, <1>7, <1>8 DEF Gravity
<1>20. CASE Resolve
  BY <1>20, <1>9, <1>10 DEF Resolve
<1>21. CASE Manage
  BY <1>21, <1>11, <1>12, <1>13, <1>14, <1>15, <1>16 DEF Manage
<1> QED BY <1>17, <1>18, <1>19, <1>20, <1>21 DEF Next

-----------------------------------------------------------------------------
\* At boot the lookup is compiled from the tables.
LEMMA InitIInv == Init => IInv
<1> SUFFICES ASSUME Init PROVE IInv
  OBVIOUS
<1>1. /\ manual \in [ManualId -> ManualRow \cup {NoRow}]
      /\ adlists \in [AdlistId -> AdlistRow \cup NotRow]
      /\ gravity \in [AdlistId -> SUBSET Name]
  BY BoundsAssumption DEF Init, Seeded, NotRow
<1>2. compiled \subseteq Entry
  BY <1>1, CompileType DEF Init
<1>3. TypeOK
  <2>1. clientGroups \in [Client -> SUBSET Group]
    BY DEF Init
  <2>2. rebuild \in [Worker -> ((SUBSET AdlistId) \ {{}}) \cup {Idle}]
    BY DEF Init
  <2>3. stored \in Pause /\ blocking \in Pause
    BY BoundsAssumption DEF Init, Pause
  <2>4. /\ sinkhole \in [on : BOOLEAN, names : SUBSET Name] /\ missed \in BOOLEAN
        /\ cache = {} /\ flights = {}
    BY DEF Init
  <2> QED BY <1>1, <1>2, <2>1, <2>2, <2>3, <2>4 DEF TypeOK
<1>4. UnusedIds
  BY RowsAreRows, BoundsAssumption DEF Init, Seeded, UnusedIds
<1>5. CompiledFresh
  BY FreshWhenInForce DEF Init, InForce
<1> QED BY <1>3, <1>4, <1>5 DEF IInv

\* The inductive invariant.
THEOREM Invariance == Spec => []IInv
<1>1. IInv /\ [Next]_vars => IInv'
  BY TypeStep, UnusedStep, FreshStep DEF IInv
<1> QED BY InitIInv, <1>1, PTL DEF Spec

\* Every reachable state of the filter has its type.
THEOREM TypeCorrect == Spec => []TypeOK
<1>1. IInv => TypeOK
  BY DEF IInv
<1> QED BY Invariance, <1>1, PTL

\* The resolver's lookup is what the tables say, for as many rebuilds, lists
\* and edits as there may be (dns/lists.ts compile and its callers).
THEOREM LookupFresh == Spec => []CompiledFresh
<1>1. IInv => CompiledFresh
  BY DEF IInv
<1> QED BY Invariance, <1>1, PTL

-----------------------------------------------------------------------------
(* The decision.  Priorities are integers of a database column, so there   *)
(* is a highest one; then of some entries there is one that goes before    *)
(* the others, and it blocks exactly when a block entry is above every     *)
(* allow entry.  The resolver's pause is the stored one at all times.      *)

HighestPrio(top) ==
  /\ \A row \in ManualRow : row.prio <= top
  /\ \A row \in AdlistRow : row.prio <= top

OnTop(top) == compiled \subseteq Entry /\ \A e \in compiled : e.prio <= top

Precedes == {s \in Nat \X Nat : s[1] < s[2]}

\* The natural numbers are well ordered; so a set of them has a least one.
LEMMA PrecedesWF == IsWellFoundedOn(Precedes, Nat)
BY NatLessThanWellFounded DEF OpToRel, Precedes

LEMMA NatMin ==
  ASSUME NEW T \in SUBSET Nat, T # {}
  PROVE  \E x \in T : \A y \in T : x <= y
<1>1. PICK x \in T : \A y \in T : ~(<<y, x>> \in Precedes)
  BY PrecedesWF, WFMin
<1>2. ASSUME NEW y \in T PROVE ~(y < x)
  <2>1. <<y, x>> \in Nat \X Nat
    OBVIOUS
  <2> QED BY <1>1, <2>1 DEF Precedes
<1> QED BY <1>2

\* What compile builds has no priority above those of the rows.
LEMMA CompiledOnTop ==
  ASSUME NEW top \in Int, HighestPrio(top),
         NEW m \in [ManualId -> ManualRow \cup {NoRow}],
         NEW ads \in [AdlistId -> AdlistRow \cup NotRow],
         NEW g \in [AdlistId -> SUBSET Name],
         NEW e \in Compile(m, ads, g)
  PROVE  e.prio <= top
<1>1. CASE e \in ActiveEntries(m)
  <2>1. PICK i \in ManualId : m[i] # NoRow /\ e.prio = m[i].prio
    BY <1>1 DEF ActiveEntries
  <2>2. m[i] \in ManualRow
    BY <2>1
  <2> QED BY <2>1, <2>2 DEF HighestPrio
<1>2. CASE e \in GravityEntries(ads, g)
  <2>1. PICK a \in AdlistId : ads[a] \notin NotRow /\ e.prio = ads[a].prio
    BY <1>2 DEF GravityEntries
  <2>2. ads[a] \in AdlistRow
    BY <2>1
  <2> QED BY <2>1, <2>2 DEF HighestPrio
<1> QED BY <1>1, <1>2 DEF Compile

\* Of some entries one goes before the others.
LEMMA FirstExists ==
  ASSUME NEW top \in Int, NEW found \in SUBSET Entry, found # {},
         \A e \in found : e.prio <= top
  PROVE  \E e \in found : \A f \in found : Before(e, f)
<1> DEFINE Below == {top - e.prio : e \in found}
<1>1. \A e \in found : e.prio \in Int /\ e.type \in Types
  BY DEF Entry
<1>2. Below \in SUBSET Nat /\ Below # {}
  BY <1>1
<1>3. PICK x \in Below : \A y \in Below : x <= y
  <2> HIDE DEF Below
  <2> QED BY <1>2, NatMin
<1>4. PICK b \in found : x = top - b.prio
  OBVIOUS
<1>5. \A f \in found : b.prio >= f.prio
  BY <1>1, <1>3, <1>4
<1>6. CASE \E a \in found : a.prio = b.prio /\ a.type = "allow"
  <2>1. PICK a \in found : a.prio = b.prio /\ a.type = "allow"
    BY <1>6
  <2>2. \A f \in found : a.prio > f.prio \/ a.prio = f.prio
    BY <1>1, <1>5, <2>1
  <2> QED BY <2>1, <2>2 DEF Before
<1>7. CASE ~ \E a \in found : a.prio = b.prio /\ a.type = "allow"
  <2>1. \A f \in found : b.prio > f.prio \/ (b.prio = f.prio /\ f.type = "block")
    BY <1>1, <1>5, <1>7 DEF Types
  <2> QED BY <2>1 DEF Before
<1> QED BY <1>6, <1>7

\* What the lookup says, in terms of all entries that match.
LEMMA LookupSays ==
  ASSUME NEW top \in Int, OnTop(top), NEW c \in Client, NEW n \in Name
  PROVE  LET found == Matches(compiled, c, n)
         IN  /\ Lookup(c, n) = "none" <=> found = {}
             /\ Lookup(c, n) = "block" <=>
                  \E r \in found : r.type = "block" /\ \A s \in found : s.type = "allow" => s.prio < r.prio
<1> DEFINE found == Matches(compiled, c, n)
<1>1. found \in SUBSET Entry /\ \A e \in found : e.prio <= top /\ e.prio \in Int /\ e.type \in Types
  BY DEF OnTop, Matches, Entry
<1>2. CASE found = {}
  BY <1>2 DEF Lookup
<1>3. CASE found # {}
  <2> DEFINE best == CHOOSE e \in found : \A f \in found : Before(e, f)
  <2> HIDE DEF found
  <2>1. best \in found /\ \A f \in found : Before(best, f)
    BY <1>1, <1>3, FirstExists
  <2>2. Lookup(c, n) = best.type
    BY <1>3 DEF Lookup, found
  <2> HIDE DEF best
  <2>3. best.type \in Types /\ best.prio \in Int
    BY <1>1, <2>1
  <2>4. ASSUME best.type = "block"
        PROVE  \E r \in found : r.type = "block" /\ \A s \in found : s.type = "allow" => s.prio < r.prio
    <3>1. \A s \in found : s.type = "allow" => s.prio < best.prio
      BY <1>1, <2>1, <2>3, <2>4 DEF Before
    <3> QED BY <2>1, <2>4, <3>1
  <2>5. ASSUME NEW r \in found, r.type = "block", \A s \in found : s.type = "allow" => s.prio < r.prio
        PROVE  best.type = "block"
    <3>1. best.prio >= r.prio
      BY <1>1, <2>1, <2>3 DEF Before
    <3>2. best.type = "allow" => best.prio < r.prio
      BY <2>1, <2>5
    <3>3. r.prio \in Int
      BY <1>1
    <3> QED BY <2>3, <3>1, <3>2, <3>3 DEF Types
  <2> QED BY <1>3, <2>2, <2>3, <2>4, <2>5 DEF Types, found
<1> QED BY <1>2, <1>3

\* The pause the resolver goes by is the one in the table.
LEMMA PauseStep ==
  ASSUME blocking = stored, [Next]_vars
  PROVE  blocking' = stored'
<1>1. CASE ListEdit
  BY <1>1 DEF ListEdit, DomainAdd, DomainUpdate, ApplyRemediation, DomainDelete, Unblock, PutManual,
     AdlistAdd, AdlistUpdate, AdlistDelete, ClientGroupsSet, GroupEdit, others
<1>2. CASE \E w \in Worker : Gravity(w)
  BY <1>2 DEF Gravity, RebuildStart, FetchOk, FetchFails, Fetched, others
<1>3. CASE Resolve
  BY <1>3 DEF Resolve, Query, Answered, Unanswered, Expire
<1>4. CASE Manage
  BY <1>4 DEF Manage, SetBlocking, SetSinkhole, Tick, Configure, Control, Restart
<1>5. CASE UNCHANGED vars
  BY <1>5 DEF vars
<1> QED BY <1>1, <1>2, <1>3, <1>4, <1>5 DEF Next

\* A client is refused a name exactly when the tables say so, for any number of
\* entries, lists, groups and clients, whatever the cache holds, unless a rebuild is
\* under way or an edit went past the lookup (dns/resolver.ts, handle).
THEOREM TablesDecide ==
  ASSUME NEW top \in Int, HighestPrio(top)
  PROVE  Spec => []AnswersByTheTables
<1> DEFINE Inv == IInv /\ blocking = stored
<1>1. Init => Inv
  BY InitIInv DEF Init
<1>2. Inv /\ [Next]_vars => Inv'
  BY TypeStep, UnusedStep, FreshStep, PauseStep DEF IInv
<1>3. Inv => AnswersByTheTables
  <2> SUFFICES ASSUME Inv, ~Rebuilding, ~missed, NEW c \in Client, NEW n \in Name \ Local
               PROVE  (Answer(c, n) = "blocked") <=> MustBlock(c, n)
    BY DEF AnswersByTheTables
  <2>1. compiled = InForce /\ TypeOK
    BY DEF IInv, CompiledFresh
  <2>2. OnTop(top)
    <3>1. \A e \in compiled : e.prio <= top
      BY <2>1, CompiledOnTop DEF InForce, TypeOK
    <3> QED BY <2>1, <3>1 DEF OnTop, TypeOK
  <2>3. (Answer(c, n) = "blocked") <=> Blocked(c, n)
    BY DEF Answer
  <2> DEFINE found == Matches(compiled, c, n)
  <2>4. /\ Lookup(c, n) = "none" <=> found = {}
        /\ Lookup(c, n) = "block" <=>
             \E r \in found : r.type = "block" /\ \A s \in found : s.type = "allow" => s.prio < r.prio
    BY <2>2, LookupSays
  <2> HIDE DEF found
  <2>5. Blocked(c, n) <=>
          /\ stored = 0
          /\ \/ \E r \in found : r.type = "block" /\ \A s \in found : s.type = "allow" => s.prio < r.prio
             \/ found = {} /\ SinkholeMatch(n)
    BY <2>4 DEF Blocked, BlockingActive
  <2>6. MustBlock(c, n) <=>
          /\ stored = 0
          /\ \/ \E r \in found : r.type = "block" /\ \A s \in found : s.type = "allow" => s.prio < r.prio
             \/ found = {} /\ SinkholeMatch(n)
    BY <2>1 DEF MustBlock, found
  <2> QED BY <2>3, <2>5, <2>6
<1> QED BY <1>1, <1>2, <1>3, PTL DEF Spec

-----------------------------------------------------------------------------
(* The clients and their groups.                                           *)

\* Ids are below the last one given, addresses are had once, and what a page has
\* loaded or sent is of a row that is as it was then, or gone for good.
ClientsInv ==
  /\ lastClient \in Nat /\ lastGroup \in Nat
  /\ DOMAIN clients \subseteq 1 .. lastClient
  /\ \A c \in DOMAIN clients : DOMAIN clients[c] = {"ip", "groups", "nickname"}
  /\ \A c, d \in DOMAIN clients : clients[c].ip = clients[d].ip => c = d
  /\ \A row \in onPage.rows \union sends :
       /\ row.id \in 1 .. lastClient
       /\ row.id \in DOMAIN clients => clients[row.id].ip = row.ip
  /\ \A s \in sends : s.field \in {"groups", "nickname"}
  /\ DOMAIN groupRows \subseteq 0 .. lastGroup
  /\ DOMAIN onPage.groups \subseteq 0 .. lastGroup
  /\ \A g \in DOMAIN onPage.groups \intersect DOMAIN groupRows : groupRows[g] = onPage.groups[g]
  /\ DOMAIN onPage = {"rows", "groups"}

LEMMA ClientsInitInv == ClientsInit => ClientsInv
BY DEF ClientsInit, ClientsInv, DefaultGroup

LEMMA QueryKeeps ==
  ASSUME ClientsInv, NEW ip, QueryFrom(ip)
  PROVE  ClientsInv'
<1> DEFINE id == lastClient + 1
           row == [ip |-> ip, groups |-> {}, nickname |-> NoName]
<1>1. clients' = Inserted(clients, id, row) /\ lastClient' = id /\ lastClient \in Nat
  BY DEF QueryFrom, FreshId, ClientsInv
<1>2. id \notin DOMAIN clients /\ id \in 1 .. id /\ DOMAIN clients \subseteq 1 .. id
  BY <1>1 DEF ClientsInv
<1>3. DOMAIN row = {"ip", "groups", "nickname"} /\ row.ip = ip
  OBVIOUS
<1>4. \A c \in DOMAIN clients : clients[c].ip # ip
  BY DEF QueryFrom, RowsOf
<1>5. \A r \in onPage.rows \union sends : r.id \in 1 .. lastClient /\ r.id # id
  BY <1>1 DEF ClientsInv
<1> HIDE DEF row, id
<1>6. /\ DOMAIN clients' = DOMAIN clients \union {id} /\ clients'[id] = row
      /\ \A x \in DOMAIN clients : clients'[x] = clients[x]
  BY <1>1, <1>2 DEF Inserted
<1>7. \A c, d \in DOMAIN clients' : clients'[c].ip = clients'[d].ip => c = d
  BY <1>3, <1>4, <1>6 DEF ClientsInv
<1>8. \A r \in onPage.rows \union sends :
        /\ r.id \in 1 .. lastClient'
        /\ r.id \in DOMAIN clients' => clients'[r.id].ip = r.ip
  BY <1>1, <1>5, <1>6 DEF ClientsInv, id
<1>9. DOMAIN clients' \subseteq 1 .. lastClient'
  BY <1>1, <1>2, <1>6
<1>10. lastClient' \in Nat
  BY <1>1 DEF id
<1>11. \A c \in DOMAIN clients' : DOMAIN clients'[c] = {"ip", "groups", "nickname"}
  BY <1>3, <1>6 DEF ClientsInv
<1> QED BY <1>7, <1>8, <1>9, <1>10, <1>11 DEF QueryFrom, ClientsInv

LEMMA PageClientsKeeps ==
  ASSUME ClientsInv, OpenPage \/ PollClients
  PROVE  ClientsInv'
<1>1. \A r \in ShownRows : /\ r.id \in DOMAIN clients /\ r.id \in 1 .. lastClient
                           /\ clients[r.id].ip = r.ip
  BY DEF ShownRows, ClientsInv
<1>2. onPage'.rows = ShownRows /\ DOMAIN onPage' = {"rows", "groups"}
  BY DEF OpenPage, PollClients, ClientsInv
<1>3. onPage'.groups = groupRows \/ onPage'.groups = onPage.groups
  BY DEF OpenPage, PollClients, ClientsInv
<1>4. UNCHANGED <<clients, lastClient, groupRows, lastGroup, sends>>
  BY DEF OpenPage, PollClients
<1>5. \A r \in onPage'.rows \union sends' :
        /\ r.id \in 1 .. lastClient'
        /\ r.id \in DOMAIN clients' => clients'[r.id].ip = r.ip
  BY <1>1, <1>2, <1>4 DEF ClientsInv
<1>6. /\ DOMAIN onPage'.groups \subseteq 0 .. lastGroup'
      /\ \A g \in DOMAIN onPage'.groups \intersect DOMAIN groupRows' : groupRows'[g] = onPage'.groups[g]
  BY <1>3, <1>4 DEF ClientsInv
<1> QED BY <1>2, <1>4, <1>5, <1>6 DEF ClientsInv

LEMMA SentKeeps ==
  ASSUME ClientsInv, NEW row \in onPage.rows, NEW field \in {"groups", "nickname"}, NEW value,
         Sent(row, field, value)
  PROVE  ClientsInv'
<1>1. \A s \in sends' : \/ s \in sends
                        \/ s.id = row.id /\ s.ip = row.ip /\ s.field = field
  BY DEF Sent
<1>2. \A r \in onPage.rows \union sends' :
        /\ r.id \in 1 .. lastClient
        /\ r.id \in DOMAIN clients => clients[r.id].ip = r.ip
  BY <1>1 DEF ClientsInv
<1>3. \A s \in sends' : s.field \in {"groups", "nickname"}
  BY <1>1 DEF ClientsInv
<1> QED BY <1>2, <1>3 DEF Sent, ClientsInv

LEMMA AssignmentKeeps ==
  ASSUME ClientsInv, NEW s \in sends, AssignmentArrives(s)
  PROVE  ClientsInv'
<1>1. /\ DOMAIN clients' = DOMAIN clients
      /\ \A c \in DOMAIN clients : clients'[c].ip = clients[c].ip /\ DOMAIN clients'[c] = DOMAIN clients[c]
  BY DEF AssignmentArrives, ClientsInv
<1> QED BY <1>1 DEF AssignmentArrives, ClientsInv

LEMMA ClientsStay == ClientsInv /\ [ClientsNext]_clientVars => ClientsInv'
<1> SUFFICES ASSUME ClientsInv, [ClientsNext]_clientVars PROVE ClientsInv'
  OBVIOUS
<1>1. ASSUME NEW idle \in SUBSET DOMAIN clients, IdleGo(idle) PROVE ClientsInv'
  <2>1. /\ DOMAIN clients' \subseteq DOMAIN clients
        /\ \A c \in DOMAIN clients' : clients'[c] = clients[c]
    BY <1>1 DEF IdleGo, Restrict
  <2> QED BY <1>1, <2>1, ZenonT(40) DEF IdleGo, ClientsInv
<1>2. ASSUME NEW name, GroupAdd(name) PROVE ClientsInv'
  <2>1. groupRows' = Inserted(groupRows, lastGroup + 1, name) /\ lastGroup' = lastGroup + 1
        /\ lastGroup \in Nat
    BY <1>2 DEF GroupAdd, FreshId, ClientsInv
  <2>2. /\ DOMAIN groupRows' = DOMAIN groupRows \union {lastGroup + 1}
        /\ \A x \in DOMAIN groupRows : x # lastGroup + 1 /\ groupRows'[x] = groupRows[x]
    <3>1. lastGroup + 1 \notin DOMAIN groupRows
      BY <2>1 DEF ClientsInv
    <3> QED BY <2>1, <3>1 DEF Inserted
  <2>3. DOMAIN groupRows' \subseteq 0 .. lastGroup' /\ DOMAIN onPage.groups \subseteq 0 .. lastGroup'
    BY <2>1, <2>2 DEF ClientsInv
  <2>4. lastGroup + 1 \notin DOMAIN onPage.groups
    BY <2>1 DEF ClientsInv
  <2> QED BY <1>2, <2>1, <2>2, <2>3, <2>4 DEF GroupAdd, ClientsInv
<1>3. ASSUME NEW g, GroupDelete(g) PROVE ClientsInv'
  <2>1. /\ DOMAIN groupRows' \subseteq DOMAIN groupRows
        /\ \A x \in DOMAIN groupRows' : groupRows'[x] = groupRows[x]
    BY <1>3 DEF GroupDelete, Restrict
  <2> QED BY <1>3, <2>1 DEF GroupDelete, ClientsInv
<1>4. CASE UNCHANGED clientVars
  BY <1>4 DEF clientVars, ClientsInv
<1> QED BY <1>1, <1>2, <1>3, <1>4, QueryKeeps, PageClientsKeeps, SentKeeps, AssignmentKeeps
        DEF ClientsNext, ToggleGroup, Rename

LEMMA AllAssignedAsMeant == ClientsInv => AssignedAsMeant
<1> SUFFICES ASSUME ClientsInv PROVE AssignedAsMeant
  OBVIOUS
<1>1. ASSUME NEW ip \in Ips PROVE Cardinality(RowsOf(ip)) <= 1
  <2>1. CASE RowsOf(ip) = {}
    <3>1. Cardinality(RowsOf(ip)) = 0
      BY <2>1, FS_EmptySet
    <3> QED BY <3>1
  <2>2. CASE RowsOf(ip) # {}
    <3>1. PICK c : RowsOf(ip) = {c}
      BY <2>2 DEF RowsOf, ClientsInv
    <3>2. Cardinality({c}) = 1
      BY FS_Singleton
    <3> QED BY <3>1, <3>2
  <2> QED BY <2>1, <2>2
<1> QED BY <1>1 DEF ClientsInv, AssignedAsMeant

-----------------------------------------------------------------------------
(* The order of the lists.                                                 *)

IsLists(lists) ==
  /\ IsFiniteSet(DOMAIN lists) /\ DOMAIN lists \subseteq ListIds
  /\ \A a \in DOMAIN lists : lists[a] \in PrioRange

ListsInv ==
  /\ IsLists(subscribed) /\ IsLists(shownLists)
  /\ clicks # NoClick => clicks.prio \in PrioRange

LEMMA ListsInitInv == ListsInit => ListsInv
BY FS_EmptySet DEF ListsInit, ListsInv, IsLists

LEMMA ListsStay == ListsAssumption /\ ListsInv /\ [ListsNext]_listVars => ListsInv'
<1> SUFFICES ASSUME ListsAssumption, ListsInv, [ListsNext]_listVars PROVE ListsInv'
  OBVIOUS
<1>1. CASE LoadLists
  BY <1>1 DEF LoadLists, ListsInv
<1>2. CASE ClickArrives
  <2>1. IsLists(subscribed')
    BY <1>2 DEF ClickArrives, Updated, ListsInv, IsLists
  <2> QED BY <1>2, <2>1 DEF ClickArrives, ListsInv
<1>3. ASSUME NEW a \in DOMAIN shownLists, NEW dir \in {-1, 1}, ClickMove(a, dir) PROVE ListsInv'
  BY <1>3 DEF ClickMove, ListsInv
<1>4. ASSUME NEW a \in ListIds, AddList(a) PROVE ListsInv'
  <2>1. IsFiniteSet(DOMAIN subscribed \union {a})
    BY FS_AddElement DEF ListsInv, IsLists
  <2>2. DOMAIN subscribed' = DOMAIN subscribed \union {a}
        /\ \A b \in DOMAIN subscribed' : subscribed'[b] = IF b = a THEN FirstPrio ELSE subscribed[b]
    BY <1>4 DEF AddList
  <2>3. IsLists(subscribed')
    BY <2>1, <2>2 DEF IsLists, ListsInv, ListsAssumption
  <2> QED BY <1>4, <2>3 DEF AddList, ListsInv
<1>5. ASSUME NEW a \in DOMAIN subscribed, DeleteList(a) PROVE ListsInv'
  <2>1. IsFiniteSet(DOMAIN subscribed \ {a})
    BY FS_RemoveElement DEF ListsInv, IsLists
  <2>2. DOMAIN subscribed' = DOMAIN subscribed \ {a}
        /\ \A b \in DOMAIN subscribed' : subscribed'[b] = subscribed[b]
    BY <1>5 DEF DeleteList, Restrict
  <2>3. IsLists(subscribed')
    BY <2>1, <2>2 DEF IsLists, ListsInv
  <2> QED BY <1>5, <2>3 DEF DeleteList, ListsInv
<1>6. CASE UNCHANGED listVars
  BY <1>6 DEF listVars, ListsInv
<1> QED BY <1>1, <1>2, <1>3, <1>4, <1>5, <1>6 DEF ListsNext

\* The lists stand in one order.
LEMMA InTheWayIs ==
  ASSUME ListsAssumption, NEW lists, IsLists(lists), NEW dir \in {-1, 1},
         NEW a \in DOMAIN lists, NEW b \in DOMAIN lists, a # b
  PROVE  /\ b \in InTheWay(lists, a, dir) \/ a \in InTheWay(lists, b, dir)
         /\ b \in InTheWay(lists, a, dir) => InTheWay(lists, b, dir) \subseteq InTheWay(lists, a, dir)
         /\ b \notin InTheWay(lists, b, dir)
<1>1. /\ \A x \in DOMAIN lists : x \in Nat /\ lists[x] \in Int
      /\ dir = -1 \/ dir = 1
  BY DEF IsLists, ListsAssumption
<1>2. CASE dir = -1
  BY <1>1, <1>2 DEF InTheWay, Above
<1>3. CASE dir = 1
  <2>1. dir # -1
    BY <1>3
  <2> QED BY <1>1, <2>1 DEF InTheWay, Above
<1> QED BY <1>1, <1>2, <1>3

\* One of those in the way comes first.
LEMMA NeighbourExists ==
  ASSUME ListsAssumption, NEW lists, IsLists(lists), NEW dir \in {-1, 1},
         NEW a \in DOMAIN lists, HasNeighbour(lists, a, dir)
  PROVE  Neighbour(lists, a, dir) \in InTheWay(lists, a, dir)
<1> DEFINE S == InTheWay(lists, a, dir)
           StillOff(b) == S \ InTheWay(lists, b, dir)
           T == {Cardinality(StillOff(b)) : b \in S}
<1>1. S # {} /\ S \subseteq DOMAIN lists
  BY DEF HasNeighbour, InTheWay
<1>2. IsFiniteSet(S)
  BY <1>1, FS_Subset DEF IsLists
<1>3. ASSUME NEW b \in S PROVE IsFiniteSet(StillOff(b)) /\ Cardinality(StillOff(b)) \in Nat
  BY <1>2, FS_Difference, FS_CardinalityType
<1>4. T \in SUBSET Nat /\ T # {}
  BY <1>1, <1>3
<1>5. PICK n \in T : \A m \in T : n <= m
  BY <1>4, NatMin
<1>6. PICK b \in S : n = Cardinality(StillOff(b))
  OBVIOUS
<1>7. ASSUME NEW x \in S \ {b} PROVE x \in InTheWay(lists, b, dir)
  <2> SUFFICES ASSUME x \notin InTheWay(lists, b, dir) PROVE FALSE
    OBVIOUS
  <2>1. b \in DOMAIN lists /\ x \in DOMAIN lists /\ b # x
    BY <1>1
  <2>2. b \in InTheWay(lists, x, dir) /\ InTheWay(lists, b, dir) \subseteq InTheWay(lists, x, dir)
    BY <2>1, InTheWayIs
  <2>3. b \notin InTheWay(lists, b, dir)
    BY <2>1, InTheWayIs
  <2>4. StillOff(x) \subseteq StillOff(b) /\ StillOff(x) # StillOff(b)
    BY <2>2, <2>3
  <2>5. Cardinality(StillOff(x)) <= Cardinality(StillOff(b)) /\ Cardinality(StillOff(x)) # Cardinality(StillOff(b))
    BY <1>3, <2>4, FS_Subset
  <2>6. n <= Cardinality(StillOff(x))
    BY <1>5
  <2> QED BY <1>3, <1>6, <2>5, <2>6
<1>8. \E c \in S : S \ {c} \subseteq InTheWay(lists, c, dir)
  BY <1>7
<1> QED BY <1>8 DEF Neighbour

LEMMA AllMovesWork == ListsAssumption /\ ListsInv => MovesWork
<1> SUFFICES ASSUME ListsAssumption, ListsInv,
                    NEW a \in DOMAIN subscribed, NEW dir \in {-1, 1}, HasNeighbour(subscribed, a, dir)
             PROVE  LET n == Neighbour(subscribed, a, dir)
                        after == Updated(subscribed, a, NewPriority(subscribed, a, dir))
                    IN  IF dir = -1 THEN after[a] > after[n] ELSE after[a] < after[n]
  BY DEF MovesWork
<1>1. PICK n : n = Neighbour(subscribed, a, dir)
  OBVIOUS
<1>2. n \in InTheWay(subscribed, a, dir)
  BY <1>1, NeighbourExists DEF ListsInv
<1>3. n \in DOMAIN subscribed /\ n # a /\ subscribed[n] \in Int
  BY <1>2 DEF InTheWay, ListsInv, IsLists, ListsAssumption
<1>4. PICK after : after = Updated(subscribed, a, NewPriority(subscribed, a, dir))
  OBVIOUS
<1>5. after[a] = subscribed[n] - dir /\ after[n] = subscribed[n]
  BY <1>1, <1>3, <1>4 DEF Updated, NewPriority
<1>6. IF dir = -1 THEN after[a] > after[n] ELSE after[a] < after[n]
  BY <1>3, <1>5
<1> QED BY <1>1, <1>4, <1>6

-----------------------------------------------------------------------------
(* The log.                                                                *)

LogTypeOK ==
  /\ lines \in Seq(Nat)
  /\ written \in 0 .. PruneEvery - 1 /\ boots \in Nat
  /\ phase \in 0 .. BucketLen - 1 /\ sincePrune \in 0 .. Hour - 1
  /\ keepAge \in Nat

\* The oldest come first.
OldestFirst == \A i, j \in 1 .. Len(lines) : i <= j => lines[j] <= lines[i]

LogInv == LogTypeOK /\ OldestFirst /\ NothingTooOld /\ LogBounded

LEMMA LogFacts ==
  /\ KeepLines \in Nat \ {0} /\ PruneEvery \in Nat \ {0}
  /\ BucketLen \in Nat \ {0} /\ Buckets \in Nat \ {0}
  /\ Day \in Nat /\ Hour \in Nat \ {0}
<1>1. /\ KeepLines \in Nat \ {0} /\ PruneEvery \in Nat \ {0}
      /\ BucketLen \in Nat \ {0} /\ Buckets \in Nat \ {0}
  BY LogAssumption
<1>2. BucketLen * Buckets \in Nat
  BY <1>1
<1> QED BY <1>1, <1>2 DEF Day, Hour

LEMMA LogInitInv == LogInit => LogInv
<1> SUFFICES ASSUME LogInit PROVE LogInv
  OBVIOUS
<1>1. boots * (PruneEvery - 1) = 0
  BY LogFacts DEF LogInit
<1>2. Len(lines) = 0 /\ lines \in Seq(Nat)
  BY DEF LogInit
<1> QED BY LogFacts, <1>1, <1>2 DEF LogInit, LogInv, LogTypeOK, OldestFirst, NothingTooOld, LogBounded

\* The end of a sequence.
LEMMA EndIs ==
  ASSUME NEW s \in Seq(Nat), NEW d \in Nat, d <= Len(s)
  PROVE  /\ SubSeq(s, d + 1, Len(s)) \in Seq(Nat)
         /\ Len(SubSeq(s, d + 1, Len(s))) = Len(s) - d
         /\ \A i \in 1 .. Len(s) - d : SubSeq(s, d + 1, Len(s))[i] = s[i + d]
<1>1. PICK n \in Nat : n = Len(s)
  OBVIOUS
<1>2. \A i \in d + 1 .. n : s[i] \in Nat
  BY <1>1
<1>3. /\ SubSeq(s, d + 1, n) \in Seq(Nat)
      /\ Len(SubSeq(s, d + 1, n)) = IF d + 1 <= n THEN n - (d + 1) + 1 ELSE 0
      /\ \A i \in 1 .. n - (d + 1) + 1 : SubSeq(s, d + 1, n)[i] = s[d + 1 + i - 1]
  <2>1. d + 1 \in Int /\ n \in Int
    BY <1>1
  <2> QED BY <1>2, <2>1, SubSeqProperties
<1>4. n - (d + 1) + 1 = n - d /\ (d + 1 <= n \/ n - d = 0)
  BY <1>1
<1>5. \A i \in 1 .. n - d : d + 1 + i - 1 = i + d
  BY <1>1
<1> QED BY <1>1, <1>3, <1>4, <1>5

\* What is kept is the end of the log, and young enough.
LEMMA KeptIs ==
  ASSUME NEW s \in Seq(Nat), NEW keep \in Nat,
         \A i, j \in 1 .. Len(s) : i <= j => s[j] <= s[i]
  PROVE  /\ Kept(s, keep) \in Seq(Nat) /\ Len(Kept(s, keep)) <= Len(s)
         /\ \A i, j \in 1 .. Len(Kept(s, keep)) : i <= j => Kept(s, keep)[j] <= Kept(s, keep)[i]
         /\ keep > 0 => \A i \in 1 .. Len(Kept(s, keep)) : Kept(s, keep)[i] <= keep
         /\ \A i \in 1 .. Len(Kept(s, keep)) : \E j \in 1 .. Len(s) : Kept(s, keep)[i] = s[j]
<1>1. CASE keep = 0
  BY <1>1 DEF Kept
<1>2. CASE keep > 0
  <2> DEFINE old == TooOld(s, keep)
             n == Cardinality(old)
  <2>1. Len(s) \in Nat /\ DOMAIN s = 1 .. Len(s)
    OBVIOUS
  <2>2. IsFiniteSet(1 .. Len(s)) /\ Cardinality(1 .. Len(s)) = Len(s)
    <3>1. PICK m \in Nat : m = Len(s)
      BY <2>1
    <3>2. IsFiniteSet(1 .. m) /\ Cardinality(1 .. m) = m
      BY FS_Interval
    <3> QED BY <3>1, <3>2
  <2>3. old \subseteq 1 .. Len(s)
    BY <2>1 DEF TooOld
  <2>4. IsFiniteSet(old) /\ n \in Nat /\ n <= Len(s)
    BY <2>2, <2>3, FS_Subset, FS_CardinalityType
  <2>5. ASSUME NEW i \in 1 .. Len(s), i > n PROVE s[i] <= keep
    <3> SUFFICES ASSUME s[i] > keep PROVE FALSE
      BY <2>1
    <3>1. 1 .. i \subseteq old
      BY <2>1 DEF TooOld
    <3>2. IsFiniteSet(1 .. i) /\ Cardinality(1 .. i) = i
      BY <2>1, FS_Interval
    <3>3. i <= n
      BY <2>4, <3>1, <3>2, FS_Subset
    <3> QED BY <2>4, <2>5, <3>3
  <2>6. Kept(s, keep) = SubSeq(s, n + 1, Len(s))
    BY <1>2 DEF Kept
  <2> HIDE DEF old, n
  <2>7. /\ SubSeq(s, n + 1, Len(s)) \in Seq(Nat)
        /\ Len(SubSeq(s, n + 1, Len(s))) = Len(s) - n
        /\ \A i \in 1 .. Len(s) - n : SubSeq(s, n + 1, Len(s))[i] = s[i + n]
    BY <2>1, <2>4, EndIs
  <2>8. \A i \in 1 .. Len(s) - n : i + n \in 1 .. Len(s) /\ i + n > n
    BY <2>1, <2>4
  <2>9. PICK kept : kept = SubSeq(s, n + 1, Len(s))
    OBVIOUS
  <2>10. \A i, j \in 1 .. Len(kept) : i <= j => kept[j] <= kept[i]
    <3> TAKE i, j \in 1 .. Len(kept)
    <3>1. kept[i] = s[i + n] /\ kept[j] = s[j + n] /\ i + n \in 1 .. Len(s) /\ j + n \in 1 .. Len(s)
      BY <2>1, <2>4, <2>7, <2>8, <2>9
    <3>2. i \in Int /\ j \in Int
      BY <2>7, <2>9
    <3>3. i <= j => i + n <= j + n
      BY <2>4, <3>2
    <3> QED BY <3>1, <3>3
  <2>11. \A i \in 1 .. Len(kept) : kept[i] <= keep /\ \E j \in 1 .. Len(s) : kept[i] = s[j]
    BY <2>1, <2>4, <2>5, <2>7, <2>8, <2>9
  <2>12. kept \in Seq(Nat) /\ Len(kept) <= Len(s)
    <3>1. Len(s) - n <= Len(s)
      BY <2>1, <2>4
    <3> QED BY <2>7, <2>9, <3>1
  <2> QED BY <2>6, <2>9, <2>10, <2>11, <2>12
<1> QED BY <1>1, <1>2

LEMMA LineKeeps ==
  ASSUME LogInv, LogLine PROVE LogInv'
<1> DEFINE more == Append(lines, 0)
           last == LastLines(more)
<1>1. lines \in Seq(Nat) /\ written \in 0 .. PruneEvery - 1 /\ boots \in Nat /\ Len(lines) \in Nat
  BY DEF LogInv, LogTypeOK
<1>2. /\ more \in Seq(Nat) /\ Len(more) = Len(lines) + 1 /\ more[Len(lines) + 1] = 0
      /\ \A i \in 1 .. Len(lines) : more[i] = lines[i] /\ lines[i] \in Nat
  BY <1>1
<1>3. \A i \in 1 .. Len(more) : i \in 1 .. Len(lines) \/ i = Len(lines) + 1
  BY <1>1, <1>2
<1>4. \A i, j \in 1 .. Len(more) : i <= j => more[j] <= more[i]
  BY <1>1, <1>2, <1>3 DEF LogInv, OldestFirst
<1>5. keepAge > 0 => \A i \in 1 .. Len(more) : more[i] <= keepAge + sincePrune
  BY <1>1, <1>2, <1>3 DEF LogInv, LogTypeOK, NothingTooOld
<1>6. LogTypeOK
  BY DEF LogInv
<1> HIDE DEF more
<1>7. /\ last \in Seq(Nat) /\ Len(last) <= KeepLines
      /\ \E d \in Nat : d + Len(last) = Len(more) /\ \A i \in 1 .. Len(last) : last[i] = more[i + d]
  <2>1. CASE Len(more) > KeepLines
    <3> DEFINE d == Len(more) - KeepLines
    <3>1. d \in Nat /\ d + 1 \in Nat /\ Len(more) \in Nat /\ KeepLines \in Nat
      BY <1>2, <2>1, LogFacts
    <3>2. last = SubSeq(more, d + 1, Len(more))
      BY <2>1 DEF LastLines
    <3> HIDE DEF d
    <3>3. /\ SubSeq(more, d + 1, Len(more)) \in Seq(Nat)
          /\ Len(SubSeq(more, d + 1, Len(more))) = Len(more) - d
          /\ \A i \in 1 .. Len(more) - d : SubSeq(more, d + 1, Len(more))[i] = more[i + d]
      <4>1. d <= Len(more)
        BY <3>1 DEF d
      <4> QED BY <1>2, <3>1, <4>1
    <3>4. Len(more) - d = KeepLines /\ d + KeepLines = Len(more)
      BY <3>1 DEF d
    <3>5. /\ last \in Seq(Nat) /\ Len(last) = KeepLines
          /\ \A i \in 1 .. KeepLines : last[i] = more[i + d]
      BY <3>2, <3>3, <3>4
    <3>6. Len(last) <= KeepLines /\ d + Len(last) = Len(more)
          /\ \A i \in 1 .. Len(last) : last[i] = more[i + d]
      BY <3>1, <3>4, <3>5
    <3> QED BY <3>1, <3>5, <3>6
  <2>2. CASE ~(Len(more) > KeepLines)
    <3>1. last = more /\ Len(more) \in Nat
      BY <1>2, <2>2 DEF LastLines
    <3>2. 0 + Len(more) = Len(more) /\ \A i \in 1 .. Len(more) : more[i] = more[i + 0]
      BY <3>1
    <3> QED BY <1>2, <2>2, <3>1, <3>2, LogFacts
  <2> QED BY <2>1, <2>2
<1> HIDE DEF last
<1>8. CASE written + 1 = PruneEvery
  <2>1. lines' = last /\ written' = 0 /\ boots' = 0 /\ UNCHANGED <<phase, sincePrune, keepAge>>
    BY <1>8 DEF LogLine, last, more
  <2>2. PICK d \in Nat : d + Len(last) = Len(more) /\ \A i \in 1 .. Len(last) : last[i] = more[i + d]
    BY <1>7
  <2>3. Len(last) \in Nat /\ \A i \in 1 .. Len(last) : i + d \in 1 .. Len(more)
    BY <1>7, <2>2
  <2>4. \A i, j \in 1 .. Len(last) : i <= j => last[j] <= last[i]
    BY <1>4, <2>2, <2>3
  <2>5. keepAge > 0 => \A i \in 1 .. Len(last) : last[i] <= keepAge + sincePrune
    BY <1>5, <2>2, <2>3
  <2>6. boots' * (PruneEvery - 1) = 0
    BY <2>1, LogFacts
  <2>7. LogBounded'
    BY <1>7, <2>1, <2>3, <2>6, LogFacts DEF LogBounded
  <2>8. LogTypeOK'
    BY <1>6, <1>7, <2>1, LogFacts DEF LogTypeOK
  <2> QED BY <2>1, <2>4, <2>5, <2>7, <2>8 DEF LogInv, OldestFirst, NothingTooOld
<1>9. CASE written + 1 # PruneEvery
  <2>1. lines' = more /\ written' = written + 1 /\ UNCHANGED <<boots, phase, sincePrune, keepAge>>
    BY <1>9 DEF LogLine, more
  <2>2. LogTypeOK'
    BY <1>1, <1>2, <1>6, <1>9, <2>1, LogFacts DEF LogTypeOK
  <2>3. boots * (PruneEvery - 1) \in Int
    BY <1>1, LogFacts
  <2>4. LogBounded'
    BY <1>1, <1>2, <2>1, <2>3, LogFacts DEF LogBounded, LogInv
  <2> QED BY <1>4, <1>5, <2>1, <2>2, <2>4 DEF LogInv, OldestFirst, NothingTooOld
<1> QED BY <1>8, <1>9

LEMMA TickKeeps ==
  ASSUME LogInv, LogTick PROVE LogInv'
<1> DEFINE older == [i \in 1 .. Len(lines) |-> IF lines[i] <= Day THEN lines[i] + 1 ELSE lines[i]]
<1>1. lines \in Seq(Nat) /\ Len(lines) \in Nat /\ \A i \in 1 .. Len(lines) : lines[i] \in Nat
  BY DEF LogInv, LogTypeOK
<1>2. /\ older \in Seq(Nat) /\ Len(older) = Len(lines)
      /\ \A i \in 1 .. Len(lines) : older[i] = IF lines[i] <= Day THEN lines[i] + 1 ELSE lines[i]
  BY <1>1
<1>3. lines' = (IF sincePrune' = 0 THEN Kept(older, keepAge) ELSE older)
  BY DEF LogTick
<1> HIDE DEF older
<1>4. \A i, j \in 1 .. Len(older) : i <= j => older[j] <= older[i]
  BY <1>1, <1>2, LogFacts, SMTT(20) DEF LogInv, OldestFirst
<1>5. LogTypeOK /\ keepAge \in Nat /\ sincePrune \in Nat /\ phase \in Nat /\ boots \in Nat
  BY DEF LogInv, LogTypeOK
<1>6. /\ UNCHANGED <<written, boots, keepAge>>
      /\ phase' \in 0 .. BucketLen - 1 /\ sincePrune' \in 0 .. Hour - 1
  BY <1>5, LogFacts DEF LogTick
<1>7. sincePrune' # 0 => sincePrune' = sincePrune + 1
  <2>1. sincePrune + 1 <= Hour /\ (sincePrune + 1) % Hour = sincePrune'
    BY LogFacts DEF LogTick, LogInv, LogTypeOK
  <2>2. sincePrune + 1 # Hour => (sincePrune + 1) % Hour = sincePrune + 1
    BY <1>5, <2>1, LogFacts
  <2>3. sincePrune + 1 = Hour => (sincePrune + 1) % Hour = 0
    BY LogFacts
  <2> QED BY <2>1, <2>2, <2>3
<1>8. keepAge > 0 /\ sincePrune' # 0 =>
        \A i \in 1 .. Len(older) : older[i] <= keepAge + sincePrune'
  <2> SUFFICES ASSUME keepAge > 0, sincePrune' # 0, NEW i \in 1 .. Len(older)
               PROVE  older[i] <= keepAge + sincePrune'
    OBVIOUS
  <2>1. lines[i] <= keepAge + sincePrune /\ lines[i] \in Nat
    BY <1>1, <1>2 DEF LogInv, NothingTooOld
  <2>2. older[i] <= lines[i] + 1
    BY <1>2, <2>1
  <2>3. older[i] \in Nat
    BY <1>1, <1>2, <2>1
  <2> QED BY <1>5, <1>7, <2>1, <2>2, <2>3
<1>9. boots * (PruneEvery - 1) \in Int /\ written \in Int
  BY <1>5, LogFacts DEF LogTypeOK
<1>10. CASE sincePrune' = 0
  <2>1. PICK kept : kept = Kept(older, keepAge)
    OBVIOUS
  <2>2. /\ kept \in Seq(Nat) /\ Len(kept) <= Len(older)
        /\ \A i, j \in 1 .. Len(kept) : i <= j => kept[j] <= kept[i]
        /\ keepAge > 0 => \A i \in 1 .. Len(kept) : kept[i] <= keepAge
    BY <1>2, <1>4, <1>5, <2>1, KeptIs
  <2>3. lines' = kept
    BY <1>3, <1>10, <2>1
  <2>4. LogTypeOK'
    BY <1>5, <1>6, <2>2, <2>3 DEF LogTypeOK
  <2>5. Len(kept) \in Nat
    BY <2>2
  <2>6. LogBounded'
    BY <1>1, <1>2, <1>6, <1>9, <2>2, <2>3, <2>5, LogFacts DEF LogInv, LogBounded
  <2>7. NothingTooOld'
    <3>1. \A i \in 1 .. Len(kept) : kept[i] \in Nat
      BY <2>2
    <3> QED BY <1>5, <1>6, <1>10, <2>2, <2>3, <3>1 DEF NothingTooOld
  <2> QED BY <2>2, <2>3, <2>4, <2>6, <2>7 DEF LogInv, OldestFirst
<1>11. CASE sincePrune' # 0
  <2>1. lines' = older
    BY <1>3, <1>11
  <2>2. LogTypeOK'
    BY <1>2, <1>5, <1>6, <2>1 DEF LogTypeOK
  <2>3. LogBounded'
    BY <1>2, <1>6, <2>1 DEF LogInv, LogBounded
  <2> QED BY <1>4, <1>6, <1>8, <1>11, <2>1, <2>2, <2>3 DEF LogInv, OldestFirst, NothingTooOld
<1> QED BY <1>10, <1>11

LEMMA SavedLogKeeps ==
  ASSUME LogInv, NEW keep \in 0 .. Day, NEW on \in BOOLEAN, SaveLogSettings(keep, on)
  PROVE  LogInv'
<1>1. lines \in Seq(Nat) /\ Len(lines) \in Nat /\ keep \in Nat /\ LogTypeOK
  BY LogFacts DEF LogInv, LogTypeOK
<1>2. PICK kept : kept = Kept(lines, keep)
  OBVIOUS
<1>3. /\ kept \in Seq(Nat) /\ Len(kept) <= Len(lines)
      /\ \A i, j \in 1 .. Len(kept) : i <= j => kept[j] <= kept[i]
      /\ keep > 0 => \A i \in 1 .. Len(kept) : kept[i] <= keep
  BY <1>1, <1>2, KeptIs DEF LogInv, OldestFirst
<1>4. lines' = kept /\ keepAge' = keep /\ UNCHANGED <<written, boots, phase, sincePrune>>
  BY <1>2 DEF SaveLogSettings
<1>5. boots * (PruneEvery - 1) \in Int /\ written \in Int /\ Len(kept) \in Nat
  BY <1>1, <1>3, LogFacts DEF LogTypeOK
<1>6. LogBounded'
  BY <1>1, <1>3, <1>4, <1>5, LogFacts DEF LogInv, LogBounded
<1>7. LogTypeOK'
  BY <1>1, <1>3, <1>4 DEF LogTypeOK
<1>8. NothingTooOld'
  <2>1. \A i \in 1 .. Len(kept) : kept[i] \in Nat
    BY <1>3
  <2>2. sincePrune \in Nat
    BY <1>1, LogFacts DEF LogTypeOK
  <2> QED BY <1>1, <1>3, <1>4, <2>1, <2>2, LogFacts DEF NothingTooOld, LogTypeOK
<1> QED BY <1>3, <1>4, <1>6, <1>7, <1>8 DEF LogInv, OldestFirst

LEMMA LogRestartKeeps ==
  ASSUME LogInv, LogRestart
  PROVE  LogInv'
<1>1. lines \in Seq(Nat) /\ Len(lines) \in Nat /\ keepAge \in Nat /\ LogTypeOK
  BY LogFacts DEF LogInv, LogTypeOK
<1>2. PICK kept : kept = Kept(lines, keepAge)
  OBVIOUS
<1>3. /\ kept \in Seq(Nat) /\ Len(kept) <= Len(lines)
      /\ \A i, j \in 1 .. Len(kept) : i <= j => kept[j] <= kept[i]
      /\ keepAge > 0 => \A i \in 1 .. Len(kept) : kept[i] <= keepAge
  BY <1>1, <1>2, KeptIs DEF LogInv, OldestFirst
<1>4. /\ lines' = kept /\ written' = 0 /\ boots' = boots + 1 /\ sincePrune' = 0
      /\ UNCHANGED <<phase, keepAge>>
  BY <1>2 DEF LogRestart
<1>5. Len(kept) \in Nat /\ boots \in Nat /\ written \in Nat /\ written <= PruneEvery - 1
  BY <1>1, <1>3, LogFacts DEF LogTypeOK
<1>6. PICK p \in Nat : p = PruneEvery - 1
  BY LogFacts
<1>7. (boots + 1) * p = boots * p + p /\ boots * p \in Nat
  BY <1>5
<1>8. LogBounded'
  <2>1. Len(lines) <= KeepLines + written + boots * p
    BY <1>6 DEF LogInv, LogBounded
  <2>2. Len(kept) <= KeepLines + 0 + (boots + 1) * p
    BY <1>1, <1>3, <1>5, <1>6, <1>7, <2>1, LogFacts
  <2> QED BY <1>4, <1>6, <2>2 DEF LogBounded
<1>9. LogTypeOK'
  BY <1>1, <1>3, <1>4, <1>5, LogFacts DEF LogTypeOK
<1>10. NothingTooOld'
  <2>1. \A i \in 1 .. Len(kept) : kept[i] \in Nat
    BY <1>3
  <2> QED BY <1>1, <1>3, <1>4, <2>1 DEF NothingTooOld
<1> QED BY <1>3, <1>4, <1>8, <1>9, <1>10 DEF LogInv, OldestFirst

LEMMA LogStays == LogInv /\ [LogNext]_logVars => LogInv'
<1> SUFFICES ASSUME LogInv, [LogNext]_logVars PROVE LogInv'
  OBVIOUS
<1>1. CASE UNCHANGED logVars
  BY <1>1 DEF logVars, LogInv, LogTypeOK, OldestFirst, NothingTooOld, LogBounded
<1>2. CASE LogNext
  BY <1>2, LineKeeps, TickKeeps, LogRestartKeeps, SavedLogKeeps DEF LogNext
<1> QED BY <1>1, <1>2

-----------------------------------------------------------------------------
(* The chart.                                                              *)

\* How far a quotient reaches.
LEMMA Below ==
  ASSUME NEW a \in Nat, NEW n \in Nat \ {0}, NEW m \in Nat
  PROVE  a \div n < m <=> a < n * m
<1>1. PICK q \in Nat : q = a \div n
  OBVIOUS
<1>2. PICK r \in 0 .. n - 1 : a = n * q + r
  <2>1. a = n * (a \div n) + (a % n) /\ a % n \in 0 .. n - 1
    OBVIOUS
  <2> QED BY <1>1, <2>1
<1>3. CASE q < m
  <2>1. PICK d \in Nat : m = q + 1 + d
    <3>1. m - q - 1 \in Nat /\ m = q + 1 + (m - q - 1)
      BY <1>3
    <3> QED BY <3>1
  <2>2. n * m = n * q + n + n * d /\ n * d \in Nat /\ n * q \in Nat
    BY <2>1
  <2> QED BY <1>1, <1>2, <1>3, <2>2
<1>4. CASE ~(q < m)
  <2>1. PICK d \in Nat : q = m + d
    <3>1. q - m \in Nat /\ q = m + (q - m)
      BY <1>4
    <3> QED BY <3>1
  <2>2. n * q = n * m + n * d /\ n * d \in Nat /\ n * m \in Nat
    BY <2>1
  <2> QED BY <1>1, <1>2, <1>4, <2>2
<1> QED BY <1>3, <1>4

LEMMA BucketIs ==
  ASSUME LogInv, NEW age \in Nat
  PROVE  /\ BucketOf(age) \in Nat
         /\ BucketOf(age) <= FirstBucket => age < Day
         /\ age <= Day - BucketLen => BucketOf(age) <= FirstBucket
<1>1. phase \in 0 .. BucketLen - 1
  BY DEF LogInv, LogTypeOK
<1>2. PICK a \in Nat : a = age - phase + BucketLen - 1
  BY <1>1, LogFacts
<1>3. BucketOf(age) = a \div BucketLen /\ a \div BucketLen \in Nat
  BY <1>2, LogFacts DEF BucketOf
<1>4. a \div BucketLen < Buckets <=> a < Day
  BY LogFacts, Below DEF Day
<1>5. PICK q \in Nat : q = a \div BucketLen
  BY <1>3
<1>6. q <= FirstBucket <=> q < Buckets
  BY LogFacts DEF FirstBucket
<1> QED BY <1>1, <1>2, <1>3, <1>4, <1>5, <1>6, LogFacts

\* The lines of the first buckets.
Charts(b) == {i \in DOMAIN lines : BucketOf(lines[i]) <= b}

LEMMA ChartedIs ==
  ASSUME LogInv
  PROVE  Charted = Cardinality(Charts(FirstBucket))
<1> DEFINE In(b) == {i \in DOMAIN lines : BucketOf(lines[i]) = b}
           S == [b \in 0 .. FirstBucket |-> IF b = 0 THEN Series[0] ELSE Cardinality(Charts(b))]
           Sum[b \in 0 .. FirstBucket] == IF b = 0 THEN Series[0] ELSE Sum[b - 1] + Series[b]
<1>1. FirstBucket \in Nat
  BY LogFacts DEF FirstBucket
<1>2. lines \in Seq(Nat) /\ Len(lines) \in Nat /\ DOMAIN lines = 1 .. Len(lines)
  BY DEF LogInv, LogTypeOK
<1>3. IsFiniteSet(DOMAIN lines)
  BY <1>2, FS_Interval
<1>4. \A i \in DOMAIN lines : BucketOf(lines[i]) \in Nat
  BY <1>2, BucketIs
<1>5. Series[0] = Cardinality(Charts(0))
  <2>1. Charts(0) = In(0)
    BY <1>4 DEF Charts
  <2>2. 0 \in 0 .. FirstBucket
    BY <1>1
  <2> QED BY <2>1, <2>2 DEF Series
<1>6. ASSUME NEW b \in 1 .. FirstBucket
      PROVE  Cardinality(Charts(b)) = Cardinality(Charts(b - 1)) + Series[b]
  <2>1. Charts(b) = Charts(b - 1) \union In(b) /\ Charts(b - 1) \intersect In(b) = {}
    BY <1>4 DEF Charts
  <2>2. Charts(b - 1) \subseteq DOMAIN lines /\ In(b) \subseteq DOMAIN lines
    BY DEF Charts
  <2>3. IsFiniteSet(Charts(b - 1)) /\ IsFiniteSet(In(b))
    BY <1>3, <2>2, FS_Subset
  <2>4. Series[b] = Cardinality(In(b))
    BY <1>1 DEF Series
  <2> HIDE DEF In
  <2>5. Cardinality(Charts(b - 1)) \in Nat /\ Cardinality(In(b)) \in Nat
    BY <2>3, FS_CardinalityType
  <2>6. Cardinality(Charts(b - 1) \union In(b)) =
          Cardinality(Charts(b - 1)) + Cardinality(In(b)) - Cardinality(Charts(b - 1) \intersect In(b))
    BY <2>3, FS_Union
  <2>7. Cardinality(Charts(b - 1) \intersect In(b)) = 0
    BY <2>1, FS_EmptySet
  <2> QED BY <2>1, <2>4, <2>5, <2>6, <2>7
<1> HIDE DEF In
<1>7. S = [b \in 0 .. FirstBucket |-> IF b = 0 THEN Series[0] ELSE S[b - 1] + Series[b]]
  <2>1. ASSUME NEW b \in 0 .. FirstBucket, b # 0
        PROVE  Cardinality(Charts(b)) = S[b - 1] + Series[b]
    <3>1. b \in 1 .. FirstBucket /\ b - 1 \in 0 .. FirstBucket
      BY <1>1, <2>1
    <3>2. S[b - 1] = Cardinality(Charts(b - 1))
      BY <1>5, <3>1
    <3> QED BY <1>6, <3>1, <3>2
  <2> QED BY <2>1
<1>8. Sum = [b \in 0 .. FirstBucket |-> IF b = 0 THEN Series[0] ELSE Sum[b - 1] + Series[b]]
  <2> HIDE DEF S
  <2> QED BY <1>7
<1>9. Charted = Sum[FirstBucket]
  BY DEF Charted, Sum
<1>10. S[FirstBucket] = Cardinality(Charts(FirstBucket))
  BY <1>1, <1>5
<1> HIDE DEF S, Sum
<1> DEFINE T == {b \in 0 .. FirstBucket : Sum[b] # S[b]}
<1>11. T = {}
  <2> SUFFICES ASSUME T # {} PROVE FALSE
    OBVIOUS
  <2>1. PICK t \in T : \A y \in T : t <= y
    <3>1. T \in SUBSET Nat
      BY <1>1
    <3> QED BY <3>1, NatMin
  <2>2. t \in 0 .. FirstBucket /\ Sum[t] # S[t]
    OBVIOUS
  <2>3. t # 0
    BY <1>7, <1>8, <2>2
  <2>4. t - 1 \in 0 .. FirstBucket /\ ~(t <= t - 1)
    BY <1>1, <2>2, <2>3
  <2>5. Sum[t - 1] = S[t - 1]
    BY <2>1, <2>4
  <2> QED BY <1>7, <1>8, <2>2, <2>3, <2>5
<1>12. FirstBucket \in 0 .. FirstBucket
  BY <1>1
<1> QED BY <1>9, <1>10, <1>11, <1>12

LEMMA ChartIsRight == LogInv => ChartAgrees
<1> SUFFICES ASSUME LogInv PROVE ChartAgrees
  OBVIOUS
<1> DEFINE all == Charts(FirstBucket)
           young == {i \in DOMAIN lines : lines[i] < Day}
           whole == {i \in DOMAIN lines : lines[i] <= Day - BucketLen}
<1>1. lines \in Seq(Nat) /\ Len(lines) \in Nat /\ DOMAIN lines = 1 .. Len(lines)
  BY DEF LogInv, LogTypeOK
<1>2. IsFiniteSet(DOMAIN lines)
  BY <1>1, FS_Interval
<1>3. all \subseteq young /\ whole \subseteq all /\ young \subseteq DOMAIN lines
  <2>1. \A i \in DOMAIN lines : lines[i] \in Nat
    BY <1>1
  <2>2. \A i \in DOMAIN lines : /\ BucketOf(lines[i]) <= FirstBucket => lines[i] < Day
                               /\ lines[i] <= Day - BucketLen => BucketOf(lines[i]) <= FirstBucket
    BY <2>1, BucketIs
  <2>3. all = {i \in DOMAIN lines : BucketOf(lines[i]) <= FirstBucket}
    BY DEF Charts
  <2>4. ASSUME NEW i \in all PROVE i \in young
    <3>1. i \in DOMAIN lines /\ BucketOf(lines[i]) <= FirstBucket
      BY <2>3
    <3>2. PICK age \in Nat : age = lines[i]
      BY <2>1, <3>1
    <3>3. BucketOf(age) <= FirstBucket
      BY <3>1, <3>2
    <3>4. lines[i] < Day
      BY <3>2, <3>3, BucketIs
    <3> QED BY <3>1, <3>4
  <2>5. ASSUME NEW i \in whole PROVE i \in all
    BY <2>2, <2>3
  <2>6. young \subseteq DOMAIN lines
    OBVIOUS
  <2> HIDE DEF all, young, whole
  <2> QED BY <2>4, <2>5, <2>6
<1>4. Charted = Cardinality(all) /\ Total = Cardinality(young)
  BY ChartedIs DEF Total
<1> HIDE DEF all
<1>5. Cardinality(all) <= Cardinality(young) /\ Cardinality(whole) <= Cardinality(all)
  <2>1. IsFiniteSet(young)
    BY <1>2, <1>3, FS_Subset
  <2>2. IsFiniteSet(all)
    BY <1>3, <2>1, FS_Subset
  <2> QED BY <1>3, <2>1, <2>2, FS_Subset
<1>6. IsFiniteSet(young) /\ IsFiniteSet(all) /\ IsFiniteSet(whole)
  <2>1. IsFiniteSet(young)
    BY <1>2, <1>3, FS_Subset
  <2>2. IsFiniteSet(all)
    BY <1>3, <2>1, FS_Subset
  <2> QED BY <1>3, <2>1, <2>2, FS_Subset
<1>7. Cardinality(young) \in Nat /\ Cardinality(all) \in Nat /\ Cardinality(whole) \in Nat
  BY <1>6, FS_CardinalityType
<1> QED BY <1>4, <1>5, <1>7 DEF ChartAgrees

-----------------------------------------------------------------------------
(* The page of the domain's users.                                         *)

\* Fields that were all typed for one account.
TypedFor(dn, v) == DOMAIN v = UserFields /\ \A f \in UserFields : v[f].for = dn

UsersInv ==
  /\ \A dn \in DOMAIN domain : TypedFor(dn, domain[dn])
  /\ \A dn \in DOMAIN usersShown : TypedFor(dn, usersShown[dn])
  /\ draft # NoDraft => open \in DOMAIN usersShown /\ TypedFor(open, draft)
  /\ \A r \in underWay : TypedFor(r.dn, r.fields)

\* Fields are never the empty draft.
LEMMA MadeFor == \A dn : TypedFor(dn, Made(dn))
BY DEF TypedFor, Made, Value

\* One field is typed anew.
LEMMA RetypedFor ==
  ASSUME NEW dn, NEW v, TypedFor(dn, v), NEW f, NEW text
  PROVE  TypedFor(dn, [v EXCEPT ![f] = Value(dn, text)])
<1>1. Value(dn, text).for = dn
  BY DEF Value
<1> QED BY <1>1 DEF TypedFor

LEMMA UsersInitInv == UsersInit => UsersInv
BY MadeFor DEF UsersInit, UsersInv

LEMMA UsersStay == UsersInv /\ [UsersNext]_userVars => UsersInv'
<1> SUFFICES ASSUME UsersInv, [UsersNext]_userVars PROVE UsersInv'
  OBVIOUS
<1>1. ASSUME NEW dn \in Dns, Open(dn) PROVE UsersInv'
  BY <1>1 DEF Open, FieldsFor, UsersInv
<1>2. CASE Close
  BY <1>2 DEF Close, UsersInv
<1>3. ASSUME NEW f \in UserFields, NEW v \in Typings, Type(f, v) PROVE UsersInv'
  <2>1. open \in DOMAIN usersShown /\ TypedFor(open, draft')
    BY <1>3, RetypedFor DEF Type, UsersInv
  <2> QED BY <1>3, <2>1 DEF Type, UsersInv
<1>4. ASSUME NEW op, Under(op) PROVE UsersInv'
  <2>1. TypedFor(open, draft)
    BY <1>4 DEF Under, UsersInv
  <2>2. \A r \in underWay' : r \in underWay \/ (r.dn = open /\ r.fields = draft)
    BY <1>4 DEF Under
  <2> QED BY <1>4, <2>1, <2>2 DEF Under, UsersInv
<1>5. CASE Reload
  <2>1. draft' # NoDraft => open \in DOMAIN domain /\ TypedFor(open, draft')
    BY <1>5 DEF Reload, UsersInv
  <2> QED BY <1>5, <2>1 DEF Reload, UsersInv
<1>6. ASSUME NEW r \in underWay, UserRequestArrives(r) PROVE UsersInv'
  <2>1. TypedFor(r.dn, r.fields)
    BY DEF UsersInv
  <2>2. \A dn \in DOMAIN domain' : TypedFor(dn, domain'[dn])
    BY <1>6, <2>1 DEF UserRequestArrives, UsersInv, Restrict
  <2> QED BY <1>6, <2>2 DEF UserRequestArrives, UsersInv
<1>7. ASSUME NEW dn \in Dns, MadeElsewhere(dn) PROVE UsersInv'
  <2>2. \A d \in DOMAIN domain' : TypedFor(d, domain'[d])
    BY <1>7, MadeFor DEF MadeElsewhere, UsersInv
  <2> QED BY <1>7, <2>2 DEF MadeElsewhere, UsersInv
<1>8. ASSUME NEW dn \in Dns, NEW f \in UserFields, NEW v \in Typings, EditedElsewhere(dn, f, v)
      PROVE  UsersInv'
  <2>1. domain' = [domain EXCEPT ![dn] = [domain[dn] EXCEPT ![f] = Value(dn, v)]] /\ dn \in DOMAIN domain
    BY <1>8 DEF EditedElsewhere
  <2>2. TypedFor(dn, [domain[dn] EXCEPT ![f] = Value(dn, v)])
    BY <2>1, RetypedFor DEF UsersInv
  <2>3. \A d \in DOMAIN domain' : TypedFor(d, domain'[d])
    BY <2>1, <2>2 DEF UsersInv
  <2> QED BY <1>8, <2>3 DEF EditedElsewhere, UsersInv
<1>9. CASE UNCHANGED userVars
  BY <1>9 DEF userVars, UsersInv
<1> QED BY <1>1, <1>2, <1>3, <1>4, <1>5, <1>6, <1>7, <1>8, <1>9 DEF UsersNext, SaveUser, RemoveUser

LEMMA NobodyIsMixedUp == UsersInv => NothingMixedUp
BY DEF UsersInv, NothingMixedUp, TypedFor

-----------------------------------------------------------------------------
(* The settings.                                                           *)

FormOf(p, form) == form \in [FieldsOf(p) -> Nat]

\* What the page p shows is on file.
Taken(p) ==
  \A f \in FieldsOf(p) : onFile[f] = IF p = "backend" THEN Clamped(f, forms[p][f]) ELSE forms[p][f]

FormsInv ==
  /\ onFile \in [Fields -> Nat] /\ enforced \in [Fields -> Nat]
  /\ DOMAIN forms = Page /\ \A p \in Page : forms[p] = NoForm \/ FormOf(p, forms[p])
  /\ request # NoRequest => request.page \in Page /\ FormOf(request.page, request.form)
  /\ standing \in SUBSET {p \in Page : forms[p] # NoForm}
  /\ \A f \in DnsFields \union {"lines"} : enforced[f] = onFile[f]
  /\ onFile["events"] <= MostDays /\ onFile["lines"] \in 1 .. MostLines
  /\ \A p \in standing : Taken(p)

LEMMA ClampedIs ==
  ASSUME SettingsFormsAssumption, NEW f, NEW v \in Nat
  PROVE  /\ Clamped(f, v) \in Nat
         /\ f = "lines" => Clamped(f, v) \in 1 .. MostLines
         /\ f # "lines" => Clamped(f, v) <= MostDays
BY DEF SettingsFormsAssumption, Clamped, Within

LEMMA FormsInitInv == SettingsFormsAssumption /\ FormsInit => FormsInv
BY DEF SettingsFormsAssumption, FormsInit, FormsInv, Fields, DnsFields, NoRequest, Page

LEMMA FieldsAre ==
  /\ Fields = {"queries", "clients", "events", "lines"} /\ DnsFields = {"queries", "clients"}
  /\ FieldsOf("dns") = DnsFields /\ FieldsOf("backend") = Fields
BY DEF Fields, DnsFields, FieldsOf

LEMMA SavedKeeps ==
  ASSUME SettingsFormsAssumption, FormsInv, Saved
  PROVE  FormsInv'
<1>1. request.page \in Page /\ FormOf(request.page, request.form) /\ request' = NoRequest /\ forms' = forms
  BY DEF Saved, FormsInv
<1>2. \A p \in standing' : p = request.page /\ forms[p] = request.form
  BY DEF Saved
<1>3. standing' \in SUBSET {p \in Page : forms'[p] # NoForm}
  <2>1. request.form # NoForm
    BY <1>1 DEF FormOf, NoForm, FieldsOf, Fields, DnsFields
  <2> QED BY <1>1, <1>2, <2>1
<1>4. CASE request.page = "dns"
  <2>1. ApplyDnsSettings(request.form) /\ request.form \in [DnsFields -> Nat]
    BY <1>1, <1>4, FieldsAre DEF Saved, FormOf
  <2>2. /\ onFile' = [f \in Fields |-> IF f \in DnsFields THEN request.form[f] ELSE onFile[f]]
        /\ enforced' = [f \in Fields |-> IF f \in DnsFields THEN request.form[f] ELSE enforced[f]]
    BY <2>1 DEF ApplyDnsSettings, Overwritten
  <2>3. onFile' \in [Fields -> Nat] /\ enforced' \in [Fields -> Nat]
    BY <2>1, <2>2 DEF FormsInv
  <2>4. \A f \in DnsFields \union {"lines"} : enforced'[f] = onFile'[f]
    BY <2>2, FieldsAre DEF FormsInv
  <2>5. onFile'["events"] <= MostDays /\ onFile'["lines"] \in 1 .. MostLines
    BY <2>2, FieldsAre DEF FormsInv
  <2>6. \A p \in standing' : Taken(p)'
    BY <1>1, <1>2, <1>4, <2>2, FieldsAre DEF Taken
  <2> QED BY <1>1, <1>3, <2>3, <2>4, <2>5, <2>6 DEF FormsInv
<1>5. CASE request.page = "backend"
  <2> DEFINE next == [f \in Fields |-> Clamped(f, request.form[f])]
             now == {"lines"} \union (IF PassedOn(next) THEN DnsFields ELSE {})
  <2>1. request.form \in [Fields -> Nat]
    BY <1>1, <1>5, FieldsAre DEF FormOf
  <2>2. next \in [Fields -> Nat] /\ next["lines"] \in 1 .. MostLines /\ next["events"] <= MostDays
        /\ \A f \in Fields : next[f] = Clamped(f, request.form[f])
    BY <2>1, ClampedIs, FieldsAre
  <2>3. /\ onFile' = [f \in Fields |-> IF f \in now \union {"events"} THEN next[f] ELSE onFile[f]]
        /\ enforced' = [f \in Fields |-> IF f \in now THEN next[f] ELSE enforced[f]]
    BY <1>5 DEF Saved, SaveSystemSettings
  <2>4. \A f \in DnsFields : f \notin now => next[f] = onFile[f]
    BY DEF PassedOn
  <2>5. now \subseteq DnsFields \union {"lines"} /\ "lines" \in now
    OBVIOUS
  <2> HIDE DEF next, now
  <2>6. onFile' \in [Fields -> Nat] /\ enforced' \in [Fields -> Nat]
    BY <2>2, <2>3 DEF FormsInv
  <2>7. \A f \in DnsFields \union {"lines"} : enforced'[f] = onFile'[f]
    BY <2>3, FieldsAre DEF FormsInv
  <2>8. onFile'["events"] <= MostDays /\ onFile'["lines"] \in 1 .. MostLines
    BY <2>2, <2>3, <2>5, FieldsAre DEF FormsInv
  <2>9. \A f \in Fields : onFile'[f] = next[f]
    BY <2>3, <2>4, <2>5, FieldsAre DEF FormsInv
  <2>10. \A p \in standing' : Taken(p)'
    BY <1>1, <1>2, <1>5, <2>2, <2>9, FieldsAre DEF Taken
  <2> QED BY <1>1, <1>3, <2>6, <2>7, <2>8, <2>10 DEF FormsInv
<1> QED BY <1>1, <1>4, <1>5 DEF Page

LEMMA FormsStay == SettingsFormsAssumption /\ FormsInv /\ [FormsNext]_formVars => FormsInv'
<1> SUFFICES ASSUME SettingsFormsAssumption, FormsInv, [FormsNext]_formVars PROVE FormsInv'
  OBVIOUS
\* A form is opened or edited, and no longer what was saved last.
<1>1. ASSUME NEW p \in Page, NEW form, FormOf(p, form), form # NoForm,
             forms' = [forms EXCEPT ![p] = form],
             standing' = standing \ {p}, UNCHANGED <<onFile, enforced, request>>
      PROVE  FormsInv'
  <2>1. \A q \in Page : forms'[q] = IF q = p THEN form ELSE forms[q]
    BY <1>1 DEF FormsInv
  <2>2. \A q \in standing' : Taken(q)'
    BY <1>1, <2>1 DEF FormsInv, Taken
  <2> QED BY <1>1, <2>1, <2>2 DEF FormsInv
<1>2. ASSUME NEW p \in Page, NEW form \in [FieldsOf(p) -> Nat] PROVE form # NoForm
  BY DEF NoForm, FieldsOf, Fields, DnsFields
<1>3. ASSUME NEW p \in Page, OpenForm(p) PROVE FormsInv'
  <2>1. [f \in FieldsOf(p) |-> onFile[f]] \in [FieldsOf(p) -> Nat]
    BY DEF FormsInv, FieldsOf, Fields
  <2> QED BY <1>1, <1>2, <1>3, <2>1 DEF OpenForm, FormOf
<1>4. ASSUME NEW p \in Page, NEW f \in FieldsOf(p), NEW v \in Typed, EditForm(p, f, v)
      PROVE  FormsInv'
  <2>1. forms[p] \in [FieldsOf(p) -> Nat] /\ v \in Nat /\ p \in DOMAIN forms
    BY <1>4 DEF EditForm, FormsInv, FormOf, SettingsFormsAssumption
  <2>2. forms' = [forms EXCEPT ![p] = [forms[p] EXCEPT ![f] = v]]
    BY <1>4 DEF EditForm
  <2>3. [forms[p] EXCEPT ![f] = v] \in [FieldsOf(p) -> Nat]
    BY <2>1
  <2> QED BY <1>1, <1>2, <1>4, <2>2, <2>3 DEF EditForm, FormOf
<1>5. ASSUME NEW p \in Page, SendForm(p) PROVE FormsInv'
  <2>1. request'.page = p /\ request'.form = forms[p] /\ FormOf(p, forms[p])
    BY <1>5 DEF SendForm, FormsInv
  <2> QED BY <1>5, <2>1 DEF SendForm, FormsInv, Taken
<1>6. CASE SaveFails
  BY <1>6 DEF SaveFails, FormsInv, Taken
<1>7. CASE PruneNow
  BY <1>7 DEF PruneNow, FormsInv, Taken
<1>8. CASE UNCHANGED formVars
  BY <1>8 DEF formVars, FormsInv, Taken
<1> QED BY <1>3, <1>4, <1>5, <1>6, <1>7, <1>8, SavedKeeps DEF FormsNext

LEMMA FormsAreKept == FormsInv => FormsKept
BY DEF FormsInv, FormsKept, Taken

-----------------------------------------------------------------------------
(* The switches of the DHCP server.                                        *)

\* A command makes the settings on file and those in force one.
LEMMA CommandKeepsSwitches ==
  ASSUME ServedAsOnFile, NEW k \in Places, CommandArrives(k)
  PROVE  ServedAsOnFile'
<1>1. served' # Stopped => served' = dhcpSettings'
  BY DEF CommandArrives, Served
<1>2. CASE k = "handoff"
  <2>1. dhcpSettings' = [enabled |-> pressed[k] \/ dhcpSettings.enabled, own |-> pressed[k]]
    BY <1>2 DEF CommandArrives, Patched
  <2>2. dhcpSettings'.own = pressed[k] /\ handoff' = pressed[k]
    BY <1>2, <2>1 DEF CommandArrives
  <2> QED BY <1>1, <2>2 DEF ServedAsOnFile
<1>3. CASE k = "form"
  BY <1>1, <1>3 DEF CommandArrives, ServedAsOnFile
<1>4. CASE k \notin {"handoff", "form"}
  <2>1. dhcpSettings' = [enabled |-> pressed[k], own |-> dhcpSettings.own]
    BY <1>4 DEF CommandArrives, Patched
  <2>2. dhcpSettings'.own = dhcpSettings.own
    BY <2>1
  <2>3. handoff' = handoff /\ (overruled => overruled')
    BY <1>4 DEF CommandArrives
  <2> QED BY <1>1, <2>2, <2>3 DEF ServedAsOnFile
<1> QED BY <1>2, <1>3, <1>4

LEMMA SwitchesInitKept == SwitchesInit => ServedAsOnFile
BY DEF SwitchesInit, ServedAsOnFile

LEMMA SwitchesStay == ServedAsOnFile /\ [SwitchesNext]_switchVars => ServedAsOnFile'
<1> SUFFICES ASSUME ServedAsOnFile, [SwitchesNext]_switchVars PROVE ServedAsOnFile'
  OBVIOUS
<1>1. CASE UNCHANGED <<dhcpSettings, handoff, served, overruled>>
  BY <1>1 DEF ServedAsOnFile
<1>2. ASSUME NEW k \in Places, Refresh(k) \/ Press(k) PROVE ServedAsOnFile'
  BY <1>1, <1>2 DEF Refresh, Press
<1>3. ASSUME NEW own \in BOOLEAN, EditOwnDns(own) PROVE ServedAsOnFile'
  BY <1>1, <1>3 DEF EditOwnDns
<1>4. CASE PortChanges
  BY <1>1, <1>4 DEF PortChanges
<1>5. CASE SwitchesRestart
  BY <1>5 DEF SwitchesRestart, Served, ServedAsOnFile
<1>6. CASE UNCHANGED switchVars
  BY <1>1, <1>6 DEF switchVars
<1> QED BY <1>2, <1>3, <1>4, <1>5, <1>6, CommandKeepsSwitches DEF SwitchesNext

-----------------------------------------------------------------------------
(* The wizard.                                                             *)

Modes == {"dhcp", "gateway", "capture"}
Asks == {"dhcp", "lan", "start", "stop"}
Verdict == {NoVerdict} \union [known : {TRUE}, flowing : BOOLEAN, delta : Nat]
Data == {NoData} \union [known : {TRUE}, dhcp : BOOLEAN, gateway : BOOLEAN,
                         helper : {"refused", "works"}, on : BOOLEAN, caps : BOOLEAN,
                         flowing : BOOLEAN]
Call == {NoCall} \union [what : Asks \union {"verify"}, at : {"sent", "failed"}]
          \union [what : {"verify"}, at : {"counted", "read"}]
          \union [what : Asks, at : {"done"}]
          \union [what : {"verify"}, at : {"done"}, verdict : Verdict \ {NoVerdict}]

WizardTypeOK ==
  /\ net \in [dhcp : BOOLEAN, serving : BOOLEAN, gateway : BOOLEAN,
              helper : {"refused", "works"}, clients : Nat]
  /\ capture \in [on : BOOLEAN, caps : BOOLEAN, packets : Nat]
  /\ wizard \in [step : DOMAIN STEPS, mode : {"none", "dns", "gateway"}, data : Data,
                 note : {"none", "failed"} \union Asks, verdict : Verdict]
  /\ call \in Call
  /\ sample \in [before : Nat, resolving : BOOLEAN, many : BOOLEAN, gateway : BOOLEAN,
                 heard : BOOLEAN, anew : BOOLEAN]
  /\ altered \in SUBSET Modes

\* What a verdict has to do with the sample it was made from.
Right(v) ==
  /\ v.delta > 0 => sample.heard
  /\ v.flowing => sample.heard \/ sample.many \/ sample.gateway \/ sample.resolving
  /\ sample.heard /\ ~sample.anew => v.flowing

\* While a check is under way the count tells whether a packet was heard, unless it
\* began anew; and the last verdict is not shown any more.
CheckSound ==
  /\ call.what = "verify" => ~wizard.verdict.known
  /\ Sampling => /\ capture.packets > sample.before => sample.heard
                 /\ ~sample.anew => capture.packets >= sample.before
                 /\ sample.heard /\ ~sample.anew => capture.packets > sample.before
  /\ call.what = "verify" /\ call.at = "done" => Right(call.verdict)
  /\ wizard.verdict.known => Right(wizard.verdict)

\* What was switched is so when the answer is on its way, and when it is noted.
Switched(what) ==
  /\ what = "dhcp" => net.dhcp
  /\ what = "lan" /\ "gateway" \notin altered => net.gateway
  /\ what = "start" /\ "capture" \notin altered => capture.on
  /\ what = "stop" /\ "capture" \notin altered => ~capture.on

CallSound ==
  /\ call.what \in Asks => wizard.note = "none"
  /\ call.what \in Asks /\ call.at = "done" => Switched(call.what)
  /\ Switched(wizard.note)

WizardInv == WizardTypeOK /\ CheckSound /\ CallSound

LEMMA WizardInitInv == OnboardingAssumption /\ WizardInit => WizardInv
<1> SUFFICES ASSUME WizardInit PROVE WizardInv
  OBVIOUS
<1>1. NoCall.what = "none" /\ NoCall.at = "page" /\ ~NoVerdict.known
  BY DEF NoCall, NoVerdict
<1>2. net \in [dhcp : BOOLEAN, serving : BOOLEAN, gateway : BOOLEAN,
               helper : {"refused", "works"}, clients : Nat]
  <2>1. net \in [dhcp : {FALSE}, serving : {FALSE}, gateway : {FALSE},
                 helper : {"refused", "works"}, clients : {0}]
    BY DEF WizardInit
  <2>2. /\ net.dhcp \in BOOLEAN /\ net.serving \in BOOLEAN /\ net.gateway \in BOOLEAN
        /\ net.helper \in {"refused", "works"} /\ net.clients \in Nat
    <3>1. net.dhcp \in {FALSE} /\ net.serving \in {FALSE} /\ net.gateway \in {FALSE}
      BY <2>1
    <3>2. net.helper \in {"refused", "works"}
      BY <2>1
    <3>3. net.clients \in {0}
      BY <2>1
    <3>4. net.dhcp \in BOOLEAN /\ net.serving \in BOOLEAN /\ net.gateway \in BOOLEAN
      BY <3>1
    <3>5. net.clients \in Nat
      BY <3>3
    <3> QED BY <3>2, <3>4, <3>5
  <2>3. net = [dhcp |-> net.dhcp, serving |-> net.serving, gateway |-> net.gateway,
               helper |-> net.helper, clients |-> net.clients]
    BY <2>1
  <2> QED BY <2>2, <2>3
<1>3. wizard.verdict = NoVerdict /\ wizard.note = "none" /\ call = NoCall
  BY DEF WizardInit
<1>4. WizardTypeOK
  BY <1>2 DEF WizardTypeOK, WizardInit, STEPS, Data, Verdict, Call, NoSample
<1>5. CheckSound /\ CallSound
  BY <1>1, <1>3 DEF CheckSound, CallSound, Sampling, Switched, Asks
<1> QED BY <1>4, <1>5 DEF WizardInv

\* What neither the check nor the switches depend on.
LEMMA WizardLooks ==
  ASSUME WizardInv, WizardTypeOK',
         UNCHANGED <<net, capture, call, sample, altered, wizard.verdict, wizard.note>>
  PROVE  WizardInv'
BY DEF WizardInv, CheckSound, CallSound, Sampling, Right, Switched

LEMMA PageKeepsWizard ==
  ASSUME OnboardingAssumption, WizardInv,
         \/ StatePolled
         \/ \E step \in DOMAIN STEPS : GoTo(step)
         \/ \E mode \in {"dns", "gateway"} : ChooseMode(mode)
  PROVE  WizardInv'
<1>1. CASE StatePolled
  <2>1. OnboardingState \in Data
    BY DEF OnboardingState, Data, WizardInv, WizardTypeOK, Many, OnboardingAssumption
  <2>2. wizard'.verdict = wizard.verdict /\ wizard'.note = wizard.note
    BY <1>1 DEF StatePolled, WizardInv, WizardTypeOK
  <2>3. WizardTypeOK'
    BY <1>1, <2>1 DEF StatePolled, WizardInv, WizardTypeOK
  <2> QED BY <1>1, <2>2, <2>3, WizardLooks DEF StatePolled
<1>2. ASSUME NEW step \in DOMAIN STEPS, GoTo(step) PROVE WizardInv'
  <2>2. wizard'.verdict = wizard.verdict /\ wizard'.note = wizard.note
    BY <1>2 DEF GoTo, WizardInv, WizardTypeOK
  <2>3. WizardTypeOK'
    BY <1>2 DEF GoTo, WizardInv, WizardTypeOK
  <2> QED BY <1>2, <2>2, <2>3, WizardLooks DEF GoTo
<1>3. ASSUME NEW mode \in {"dns", "gateway"}, ChooseMode(mode) PROVE WizardInv'
  <2>2. wizard'.verdict = wizard.verdict /\ wizard'.note = wizard.note
    BY <1>3 DEF ChooseMode, WizardInv, WizardTypeOK
  <2>3. WizardTypeOK'
    BY <1>3 DEF ChooseMode, WizardInv, WizardTypeOK
  <2> QED BY <1>3, <2>2, <2>3, WizardLooks DEF ChooseMode
<1> QED BY <1>1, <1>2, <1>3

LEMMA PressKeepsWizard ==
  ASSUME WizardInv, NEW what \in Asks \union {"verify"}, PressWizard(what)
  PROVE  WizardInv'
<1>1. call' = [what |-> what, at |-> "sent"] /\ call' \in Call
  BY DEF PressWizard, Call
<1>2. call'.what = what /\ call'.at = "sent"
  BY <1>1
<1>3. CASE what = "verify"
  <2>1. wizard' = [wizard EXCEPT !.verdict = NoVerdict]
    BY <1>3 DEF PressWizard
  <2>2. wizard'.verdict = NoVerdict /\ wizard'.note = wizard.note /\ ~NoVerdict.known
    BY <2>1 DEF WizardInv, WizardTypeOK, NoVerdict
  <2>5. NoVerdict \in Verdict
    BY DEF Verdict
  <2>3. WizardTypeOK'
    BY <1>1, <2>1, <2>5 DEF PressWizard, WizardInv, WizardTypeOK
  <2>4. CheckSound'
    BY <1>2, <2>2 DEF CheckSound, Sampling
  <2>6. CallSound'
    BY <1>2, <1>3, <2>2 DEF PressWizard, WizardInv, CallSound, Switched, Asks
  <2> QED BY <2>3, <2>4, <2>6 DEF WizardInv
<1>4. CASE what # "verify"
  <2>1. wizard' = [wizard EXCEPT !.note = "none"]
    BY <1>4 DEF PressWizard
  <2>2. wizard'.verdict = wizard.verdict /\ wizard'.note = "none"
    BY <2>1 DEF WizardInv, WizardTypeOK
  <2>3. WizardTypeOK'
    BY <1>1, <2>1 DEF PressWizard, WizardInv, WizardTypeOK
  <2>4. CheckSound'
    BY <1>2, <1>4, <2>2 DEF PressWizard, WizardInv, CheckSound, Sampling, Right
  <2>5. CallSound'
    BY <1>2, <1>4, <2>2 DEF CallSound, Switched, Asks
  <2> QED BY <2>3, <2>4, <2>5 DEF WizardInv
<1> QED BY <1>3, <1>4

LEMMA AnswerKeepsWizard ==
  ASSUME WizardInv, CallAnswered
  PROVE  WizardInv'
<1>1. call' = NoCall /\ call'.what = "none" /\ call'.at = "page" /\ call' \in Call
  BY DEF CallAnswered, NoCall, Call
<1>2. CASE call.what = "verify"
  <2> DEFINE v == IF call.at = "done" THEN call.verdict ELSE NoVerdict
  <2>1. wizard' = [wizard EXCEPT !.verdict = v]
    BY <1>2 DEF CallAnswered
  <2>2. v \in Verdict /\ (v.known => call.at = "done")
    <3>1. call.at = "done" => call.verdict \in Verdict
      BY <1>2 DEF WizardInv, WizardTypeOK, Call, NoCall, Asks
    <3>2. NoVerdict \in Verdict /\ ~NoVerdict.known
      BY DEF Verdict, NoVerdict
    <3> QED BY <3>1, <3>2
  <2>3. wizard'.verdict = v /\ wizard'.note = wizard.note
    BY <2>1 DEF WizardInv, WizardTypeOK
  <2>4. WizardTypeOK'
    BY <1>1, <2>1, <2>2 DEF CallAnswered, WizardInv, WizardTypeOK
  <2>5. v.known => Right(v)
    BY <1>2, <2>2 DEF WizardInv, CheckSound
  <2>6. CheckSound'
    BY <1>1, <2>3, <2>5 DEF CallAnswered, CheckSound, Sampling, Right
  <2>7. CallSound'
    BY <1>1, <2>3 DEF CallAnswered, WizardInv, CallSound, Switched, Asks
  <2> QED BY <2>4, <2>6, <2>7 DEF WizardInv
<1>3. CASE call.what # "verify"
  <2> DEFINE n == IF call.at = "done" THEN call.what ELSE "failed"
  <2>1. wizard' = [wizard EXCEPT !.note = n]
    BY <1>3 DEF CallAnswered
  <2>2. call.what \in Asks
    BY <1>3 DEF CallAnswered, WizardInv, WizardTypeOK, Call, NoCall
  <2>3. wizard'.verdict = wizard.verdict /\ wizard'.note = n
    BY <2>1 DEF WizardInv, WizardTypeOK
  <2>4. WizardTypeOK'
    BY <1>1, <2>1, <2>2 DEF CallAnswered, WizardInv, WizardTypeOK
  <2>5. CheckSound'
    BY <1>1, <2>3 DEF CallAnswered, WizardInv, CheckSound, Sampling, Right
  <2>6. Switched(n)
    BY <2>2 DEF WizardInv, CallSound, Switched
  <2>7. CallSound'
    BY <1>1, <2>3, <2>6 DEF CallAnswered, CallSound, Switched, Asks
  <2> QED BY <2>4, <2>5, <2>7 DEF WizardInv
<1> QED BY <1>2, <1>3

LEMMA FailKeepsWizard ==
  ASSUME WizardInv, CallFails
  PROVE  WizardInv'
<1>1. call' = [what |-> call.what, at |-> "failed"] /\ call.what \in Asks \union {"verify"}
  BY DEF CallFails, WizardInv, WizardTypeOK, Call, NoCall
<1>2. call'.what = call.what /\ call'.at = "failed" /\ call' \in Call
  BY <1>1 DEF Call
<1>3. WizardTypeOK'
  BY <1>2 DEF CallFails, WizardInv, WizardTypeOK
<1>4. CheckSound'
  BY <1>2 DEF CallFails, WizardInv, CheckSound, Sampling, Right
<1>5. CallSound'
  BY <1>2 DEF CallFails, WizardInv, CallSound, Switched
<1> QED BY <1>3, <1>4, <1>5 DEF WizardInv

\* A command of the wizard is carried out.
LEMMA CarriedIs ==
  ASSUME WizardInv, NEW what \in Asks, NEW mode \in Modes, Carried(what, mode)
  PROVE  /\ call.what = what /\ call.at = "sent"
         /\ call' = [what |-> what, at |-> "done"]
         /\ call'.what = what /\ call'.at = "done" /\ call' \in Call
         /\ altered' = altered \ {mode} /\ altered' \in SUBSET Modes
         /\ wizard' = wizard /\ wizard.note = "none"
BY DEF Carried, WizardInv, WizardTypeOK, Call, CallSound

LEMMA CarriedKeeps ==
  ASSUME OnboardingAssumption, WizardInv, DhcpTurnedOn \/ GatewayTurnedOn \/ CaptureSwitched
  PROVE  WizardInv'
<1>1. ASSUME NEW what \in Asks, NEW mode \in Modes, Carried(what, mode), sample' = sample,
             WizardTypeOK', Switched(what)'
      PROVE  WizardInv'
  <2>1. /\ call'.what = what /\ call'.at = "done" /\ what # "verify"
        /\ wizard' = wizard /\ wizard.note = "none"
    BY <1>1, CarriedIs DEF Asks
  <2>2. CheckSound'
    BY <1>1, <2>1 DEF WizardInv, CheckSound, Sampling, Right
  <2>3. CallSound'
    BY <1>1, <2>1 DEF CallSound, Switched
  <2> QED BY <1>1, <2>2, <2>3 DEF WizardInv
<1>2. CASE DhcpTurnedOn
  <2>1. Carried("dhcp", "dhcp") /\ "dhcp" \in Asks /\ "dhcp" \in Modes
    BY <1>2 DEF DhcpTurnedOn, Asks, Modes
  <2>2. PICK bound \in BOOLEAN : net' = [net EXCEPT !.dhcp = TRUE, !.serving = bound]
    BY <1>2 DEF DhcpTurnedOn
  <2>3. net'.dhcp /\ net' \in [dhcp : BOOLEAN, serving : BOOLEAN, gateway : BOOLEAN,
                              helper : {"refused", "works"}, clients : Nat]
    BY <2>2 DEF WizardInv, WizardTypeOK
  <2>4. WizardTypeOK'
    BY <1>2, <2>1, <2>3, CarriedIs, ZenonT(40) DEF DhcpTurnedOn, WizardInv, WizardTypeOK
  <2>5. Switched("dhcp")' /\ sample' = sample
    BY <1>2, <2>3 DEF Switched, DhcpTurnedOn
  <2> QED BY <1>1, <2>1, <2>4, <2>5
<1>3. CASE GatewayTurnedOn
  <2>1. Carried("lan", "gateway") /\ "lan" \in Asks /\ "gateway" \in Modes
    BY <1>3 DEF GatewayTurnedOn, Asks, Modes
  <2>3. net'.gateway /\ net' \in [dhcp : BOOLEAN, serving : BOOLEAN, gateway : BOOLEAN,
                              helper : {"refused", "works"}, clients : Nat]
    BY <1>3 DEF GatewayTurnedOn, WizardInv, WizardTypeOK
  <2>4. WizardTypeOK'
    BY <1>3, <2>1, <2>3, CarriedIs DEF GatewayTurnedOn, WizardInv, WizardTypeOK
  <2>5. Switched("lan")' /\ sample' = sample
    BY <1>3, <2>3 DEF Switched, GatewayTurnedOn
  <2> QED BY <1>1, <2>1, <2>4, <2>5
<1>4. CASE Carried("start", "capture") /\ capture' = Started(capture) /\ UNCHANGED <<net, sample>>
  <2>1. Carried("start", "capture") /\ "start" \in Asks /\ "capture" \in Modes
    BY <1>4 DEF Asks, Modes
  <2>3. capture'.on /\ capture' \in [on : BOOLEAN, caps : BOOLEAN, packets : Nat]
    BY <1>4 DEF Started, WizardInv, WizardTypeOK
  <2>4. WizardTypeOK'
    BY <1>4, <2>1, <2>3, CarriedIs DEF WizardInv, WizardTypeOK
  <2>5. Switched("start")'
    BY <2>3 DEF Switched
  <2> QED BY <1>1, <1>4, <2>1, <2>4, <2>5
<1>5. CASE Carried("stop", "capture") /\ capture' = [capture EXCEPT !.on = FALSE] /\ UNCHANGED <<net, sample>>
  <2>1. Carried("stop", "capture") /\ "stop" \in Asks /\ "capture" \in Modes
    BY <1>5 DEF Asks, Modes
  <2>3. ~capture'.on /\ capture' \in [on : BOOLEAN, caps : BOOLEAN, packets : Nat]
    BY <1>5 DEF WizardInv, WizardTypeOK
  <2>4. WizardTypeOK'
    BY <1>5, <2>1, <2>3, CarriedIs DEF WizardInv, WizardTypeOK
  <2>5. Switched("stop")'
    BY <2>3 DEF Switched
  <2> QED BY <1>1, <1>5, <2>1, <2>4, <2>5
<1> QED BY <1>2, <1>3, <1>4, <1>5 DEF CaptureSwitched

\* A check.
LEMMA CheckKeeps ==
  ASSUME OnboardingAssumption, WizardInv, SampleBegins \/ PostureTaken \/ SampleEnds
  PROVE  WizardInv'
<1>1. CASE SampleBegins
  <2>1. call.what = "verify" /\ call'.what = "verify" /\ call'.at = "counted" /\ call' \in Call
    BY <1>1 DEF SampleBegins, Call
  <2>2. sample' = [NoSample EXCEPT !.before = capture.packets] /\ capture.packets \in Nat
    BY <1>1 DEF SampleBegins, WizardInv, WizardTypeOK
  <2>3. sample'.before = capture.packets /\ ~sample'.heard
    BY <2>2 DEF NoSample
  <2>4. WizardTypeOK'
    BY <1>1, <2>1, <2>2 DEF SampleBegins, NoSample, WizardInv, WizardTypeOK
  <2>5. CheckSound'
    BY <1>1, <2>1, <2>2, <2>3 DEF SampleBegins, WizardInv, CheckSound, Sampling
  <2>6. CallSound'
    BY <1>1, <2>1 DEF SampleBegins, WizardInv, CallSound, Switched, Asks
  <2> QED BY <2>4, <2>5, <2>6 DEF WizardInv
<1>2. CASE PostureTaken
  <2>1. call.what = "verify" /\ call'.what = "verify" /\ call'.at = "read" /\ call' \in Call
    BY <1>2 DEF PostureTaken, WizardInv, WizardTypeOK, Call, NoCall
  <2>2. sample' = [sample EXCEPT !.resolving = net.clients > 1, !.many = Many, !.gateway = net.gateway]
    BY <1>2 DEF PostureTaken
  <2>3. sample'.before = sample.before /\ sample'.heard = sample.heard /\ sample'.anew = sample.anew
    BY <2>2 DEF WizardInv, WizardTypeOK
  <2>4. WizardTypeOK'
    <3>1. (net.clients > 1) \in BOOLEAN /\ Many \in BOOLEAN /\ net.gateway \in BOOLEAN
      BY DEF Many, WizardInv, WizardTypeOK
    <3>2. sample' \in [before : Nat, resolving : BOOLEAN, many : BOOLEAN, gateway : BOOLEAN,
                       heard : BOOLEAN, anew : BOOLEAN]
      BY <2>2, <3>1 DEF WizardInv, WizardTypeOK
    <3> QED BY <1>2, <2>1, <3>2 DEF PostureTaken, WizardInv, WizardTypeOK
  <2>5. CheckSound'
    BY <1>2, <2>1, <2>3 DEF PostureTaken, WizardInv, CheckSound, Sampling
  <2>6. CallSound'
    BY <1>2, <2>1 DEF PostureTaken, WizardInv, CallSound, Switched, Asks
  <2> QED BY <2>4, <2>5, <2>6 DEF WizardInv
<1>3. CASE SampleEnds
  <2> DEFINE delta == Gained(sample.before, capture.packets)
             flowing == sample.resolving \/ delta > 0 \/ sample.many \/ sample.gateway
             v == [known |-> TRUE, flowing |-> flowing, delta |-> delta]
  <2>1. sample.before \in Nat /\ capture.packets \in Nat
    BY DEF WizardInv, WizardTypeOK
  <2>2. delta \in Nat /\ (delta > 0 <=> capture.packets > sample.before)
    BY <2>1 DEF Gained
  <2>3. call' = [what |-> "verify", at |-> "done", verdict |-> v]
    BY <1>3 DEF SampleEnds
  <2>4. flowing \in BOOLEAN /\ v \in Verdict \ {NoVerdict}
    BY <2>2 DEF Verdict, NoVerdict, WizardInv, WizardTypeOK
  <2>5. call'.what = "verify" /\ call'.at = "done" /\ call'.verdict = v /\ call' \in Call
    BY <2>3, <2>4 DEF Call
  <2>6. call.what = "verify" /\ Sampling
    BY <1>3 DEF SampleEnds, Sampling, WizardInv, WizardTypeOK, Call, NoCall
  <2>7. v.delta = delta /\ v.flowing = flowing
    OBVIOUS
  <2>8. Right(v)
    <3>1. delta > 0 => sample.heard
      BY <2>2, <2>6 DEF WizardInv, CheckSound
    <3>2. sample.heard /\ ~sample.anew => delta > 0
      BY <2>2, <2>6 DEF WizardInv, CheckSound
    <3> QED BY <2>7, <3>1, <3>2 DEF Right
  <2> HIDE DEF v
  <2>9. WizardTypeOK'
    BY <1>3, <2>5 DEF SampleEnds, WizardInv, WizardTypeOK
  <2>10. CheckSound'
    BY <1>3, <2>5, <2>6, <2>8 DEF SampleEnds, WizardInv, CheckSound, Sampling, Right
  <2>11. CallSound'
    BY <1>3, <2>5 DEF SampleEnds, WizardInv, CallSound, Switched, Asks
  <2> QED BY <2>9, <2>10, <2>11 DEF WizardInv
<1> QED BY <1>1, <1>2, <1>3

LEMMA HeardKeeps ==
  ASSUME WizardInv, PacketHeard
  PROVE  WizardInv'
<1>1. /\ capture' = [capture EXCEPT !.packets = @ + 1] /\ capture.packets \in Nat
      /\ capture'.packets = capture.packets + 1 /\ capture'.on = capture.on
  BY DEF PacketHeard, WizardInv, WizardTypeOK
<1>2. WizardTypeOK'
  <2>1. capture' \in [on : BOOLEAN, caps : BOOLEAN, packets : Nat]
    BY <1>1 DEF WizardInv, WizardTypeOK
  <2>2. sample' \in [before : Nat, resolving : BOOLEAN, many : BOOLEAN, gateway : BOOLEAN,
                     heard : BOOLEAN, anew : BOOLEAN]
    BY DEF PacketHeard, WizardInv, WizardTypeOK
  <2> QED BY <2>1, <2>2 DEF PacketHeard, WizardInv, WizardTypeOK
<1>3. CASE Sampling
  <2>1. /\ sample' = [sample EXCEPT !.heard = TRUE] /\ sample'.heard
        /\ sample'.before = sample.before /\ sample'.anew = sample.anew /\ sample.before \in Nat
    BY <1>3 DEF PacketHeard, WizardInv, WizardTypeOK
  <2>2. CheckSound'
    BY <1>1, <1>3, <2>1 DEF PacketHeard, WizardInv, CheckSound, Sampling
  <2>3. CallSound'
    BY <1>1 DEF PacketHeard, WizardInv, CallSound, Switched
  <2> QED BY <1>2, <2>2, <2>3 DEF WizardInv
<1>4. CASE ~Sampling
  <2>1. sample' = sample
    BY <1>4 DEF PacketHeard
  <2>2. CheckSound'
    BY <1>4, <2>1 DEF PacketHeard, WizardInv, CheckSound, Sampling, Right
  <2>3. CallSound'
    BY <1>1 DEF PacketHeard, WizardInv, CallSound, Switched
  <2> QED BY <1>2, <2>2, <2>3 DEF WizardInv
<1> QED BY <1>3, <1>4

LEMMA OthersKeepWizard ==
  ASSUME WizardInv, CaptureAltered \/ ClientResolves \/ GatewayAltered
  PROVE  WizardInv'
<1>1. CASE CaptureAltered
  <2>1. /\ capture' \in [on : BOOLEAN, caps : BOOLEAN, packets : Nat]
        /\ altered' = altered \union {"capture"} /\ net' = net /\ wizard' = wizard /\ call' = call
        /\ sample' = Noticed
    <3> DEFINE stopped == [capture EXCEPT !.on = FALSE]
    <3>1. capture \in [on : BOOLEAN, caps : BOOLEAN, packets : Nat]
      BY DEF WizardInv, WizardTypeOK
    <3>2. stopped \in [on : BOOLEAN, caps : BOOLEAN, packets : Nat]
      BY <3>1
    <3> HIDE DEF stopped
    <3>3. ASSUME NEW c \in [on : BOOLEAN, caps : BOOLEAN, packets : Nat]
          PROVE  Started(c) \in [on : BOOLEAN, caps : BOOLEAN, packets : Nat]
      BY DEF Started
    <3>4. capture' \in {Started(capture), stopped, Started(stopped)}
      BY <1>1 DEF CaptureAltered, stopped
    <3>5. capture' \in [on : BOOLEAN, caps : BOOLEAN, packets : Nat]
      BY <3>1, <3>2, <3>3, <3>4
    <3> QED BY <1>1, <3>5 DEF CaptureAltered, Happens
  <2>2. WizardTypeOK'
    BY <2>1 DEF Noticed, Modes, WizardInv, WizardTypeOK
  <2>3. CheckSound'
    <3>1. CASE Sampling
      <4>1. /\ sample'.heard = sample.heard /\ sample'.before = sample.before /\ sample'.anew
            /\ sample.before \in Nat /\ capture.packets \in Nat
        BY <2>1, <3>1 DEF Noticed, WizardInv, WizardTypeOK
      <4>2. capture'.packets \in {capture.packets, 0}
        BY <1>1 DEF CaptureAltered, Started, WizardInv, WizardTypeOK
      <4>3. capture'.packets > sample.before => sample.heard
        BY <3>1, <4>1, <4>2 DEF WizardInv, CheckSound
      <4> QED BY <2>1, <3>1, <4>1, <4>3 DEF WizardInv, CheckSound, Sampling
    <3>2. CASE ~Sampling
      BY <2>1, <3>2 DEF Noticed, WizardInv, CheckSound, Sampling, Right
    <3> QED BY <3>1, <3>2
  <2>4. CallSound'
    BY <2>1 DEF WizardInv, CallSound, Switched
  <2> QED BY <2>2, <2>3, <2>4 DEF WizardInv
<1>2. CASE ClientResolves
  <2>1. /\ net' \in [dhcp : BOOLEAN, serving : BOOLEAN, gateway : BOOLEAN,
                     helper : {"refused", "works"}, clients : Nat]
        /\ net'.dhcp = net.dhcp /\ net'.gateway = net.gateway
        /\ UNCHANGED <<capture, wizard, call, sample, altered>>
    BY <1>2 DEF ClientResolves, Happens, WizardInv, WizardTypeOK
  <2>2. WizardTypeOK'
    BY <2>1 DEF WizardInv, WizardTypeOK
  <2>3. CheckSound'
    BY <2>1 DEF WizardInv, CheckSound, Sampling, Right
  <2>4. CallSound'
    BY <2>1 DEF WizardInv, CallSound, Switched
  <2> QED BY <2>2, <2>3, <2>4 DEF WizardInv
<1>3. CASE GatewayAltered
  <2>1. /\ net' \in [dhcp : BOOLEAN, serving : BOOLEAN, gateway : BOOLEAN,
                     helper : {"refused", "works"}, clients : Nat]
        /\ net'.dhcp = net.dhcp /\ altered' = altered \union {"gateway"}
        /\ UNCHANGED <<capture, wizard, call, sample>>
    BY <1>3 DEF GatewayAltered, Happens, WizardInv, WizardTypeOK
  <2>2. WizardTypeOK'
    BY <2>1 DEF Modes, WizardInv, WizardTypeOK
  <2>3. CheckSound'
    BY <2>1 DEF WizardInv, CheckSound, Sampling, Right
  <2>4. CallSound'
    BY <2>1 DEF WizardInv, CallSound, Switched
  <2> QED BY <2>2, <2>3, <2>4 DEF WizardInv
<1> QED BY <1>1, <1>2, <1>3

LEMMA WizardStays == OnboardingAssumption /\ WizardInv /\ [WizardNext]_wizardVars => WizardInv'
<1> SUFFICES ASSUME OnboardingAssumption, WizardInv, [WizardNext]_wizardVars PROVE WizardInv'
  OBVIOUS
<1>1. CASE UNCHANGED wizardVars
  <2>1. UNCHANGED <<net, capture, call, sample, altered, wizard>>
    BY <1>1 DEF wizardVars
  <2>2. WizardTypeOK'
    BY <2>1 DEF WizardInv, WizardTypeOK
  <2> QED BY <2>1, <2>2, WizardLooks
<1>2. ASSUME NEW what \in {"dhcp", "lan", "start", "stop", "verify"}, PressWizard(what)
      PROVE  WizardInv'
  <2>1. what \in Asks \union {"verify"}
    BY DEF Asks
  <2> QED BY <1>2, <2>1, PressKeepsWizard
<1> QED BY <1>1, <1>2, PageKeepsWizard, AnswerKeepsWizard, FailKeepsWizard, CarriedKeeps, CheckKeeps,
           HeardKeeps, OthersKeepWizard DEF WizardNext

LEMMA WizardIsHonest == WizardInv => WizardHonest
BY DEF WizardInv, CheckSound, CallSound, WizardHonest, VerdictRight, NotesRight, Right, Switched

-----------------------------------------------------------------------------
(* Sequences put together.                                                 *)

Numbers == Seq(Nat)

\* s[k] is the first k of the sequences, put together.
Joins(seqs, n, s) ==
  /\ s \in [0 .. n -> Numbers] /\ s[0] = << >>
  /\ \A k \in 1 .. n : s[k] = s[k - 1] \o seqs[k]

\* There are such sequences,
LEMMA JoinsExist ==
  ASSUME NEW n \in Nat, NEW seqs, \A i \in 1 .. n : seqs[i] \in Numbers
  PROVE  \E s : Joins(seqs, n, s)
<1> DEFINE T == {m \in 0 .. n : ~\E s : Joins(seqs, m, s)}
<1>1. \E s : Joins(seqs, 0, s)
  <2> DEFINE s == [k \in 0 .. 0 |-> << >>]
  <2>1. << >> \in Numbers
    BY DEF Numbers
  <2>2. s \in [0 .. 0 -> Numbers] /\ s[0] = << >>
    BY <2>1
  <2> HIDE DEF s
  <2>3. \A k \in 1 .. 0 : FALSE
    OBVIOUS
  <2> QED BY <2>2, <2>3 DEF Joins
<1>2. ASSUME NEW m \in 1 .. n, NEW s, Joins(seqs, m - 1, s) PROVE \E t : Joins(seqs, m, t)
  <2> DEFINE t == [k \in 0 .. m |-> IF k = m THEN s[m - 1] \o seqs[m] ELSE s[k]]
  <2>1. m - 1 \in 0 .. m - 1 /\ \A k \in 0 .. m - 1 : s[k] \in Numbers
    BY <1>2 DEF Joins
  <2>2. s[m - 1] \o seqs[m] \in Numbers
    BY <2>1 DEF Numbers
  <2>3. \A k \in 0 .. m : k = m \/ k \in 0 .. m - 1
    OBVIOUS
  <2>4. /\ t \in [0 .. m -> Numbers] /\ t[m] = s[m - 1] \o seqs[m]
        /\ \A k \in 0 .. m - 1 : t[k] = s[k]
    BY <2>1, <2>2, <2>3
  <2> HIDE DEF t
  <2>5. t[0] = << >>
    <3>1. 0 \in 0 .. m - 1
      OBVIOUS
    <3> QED BY <1>2, <2>4, <3>1 DEF Joins
  <2>6. ASSUME NEW k \in 1 .. m PROVE t[k] = t[k - 1] \o seqs[k]
    <3>1. k - 1 \in 0 .. m - 1 /\ (k # m => k \in 1 .. m - 1 /\ k \in 0 .. m - 1)
      OBVIOUS
    <3>2. t[k - 1] = s[k - 1]
      BY <2>4, <3>1
    <3>3. CASE k = m
      BY <2>4, <3>2, <3>3
    <3>4. CASE k # m
      BY <1>2, <2>4, <3>1, <3>2, <3>4 DEF Joins
    <3> QED BY <3>3, <3>4
  <2> QED BY <2>4, <2>5, <2>6 DEF Joins
<1>3. CASE T # {}
  <2>1. PICK m \in T : \A y \in T : m <= y
    <3>1. T \in SUBSET Nat
      OBVIOUS
    <3> QED BY <1>3, <3>1, NatMin
  <2>2. m # 0 /\ m \in 1 .. n /\ m - 1 \in 0 .. n /\ ~(m <= m - 1)
    BY <1>1, <2>1
  <2>3. m - 1 \notin T
    BY <2>1, <2>2
  <2> QED BY <1>2, <2>2, <2>3
<1>4. CASE T = {}
  <2>1. n \in 0 .. n /\ n \notin T
    BY <1>4
  <2> QED BY <2>1
<1> QED BY <1>3, <1>4

\* and FlattenSeq is the last of them.
LEMMA FlattenIs ==
  ASSUME NEW seqs \in Seq(Numbers), NEW s, Joins(seqs, Len(seqs), s)
  PROVE  FlattenSeq(seqs) = s[Len(seqs)]
<1>1. PICK n \in Nat : n = Len(seqs)
  OBVIOUS
<1>2. CASE n = 0
  <2>1. FlattenSeq(seqs) = seqs
    BY <1>1, <1>2 DEF FlattenSeq
  <2>2. seqs = << >>
    BY <1>1, <1>2, EmptySeq
  <2> QED BY <1>1, <1>2, <2>1, <2>2 DEF Joins
<1>3. CASE n # 0
  <2> DEFINE flatten[i \in 1 .. n] == IF i = 1 THEN seqs[i] ELSE flatten[i - 1] \o seqs[i]
             t == [i \in 1 .. n |-> s[i]]
  <2>1. FlattenSeq(seqs) = flatten[n]
    BY <1>1, <1>3 DEF FlattenSeq
  <2>2. ASSUME NEW i \in 1 .. n
        PROVE  s[i] = IF i = 1 THEN seqs[i] ELSE t[i - 1] \o seqs[i]
    <3>1. s[i] = s[i - 1] \o seqs[i]
      BY <1>1 DEF Joins
    <3>2. CASE i = 1
      <4>1. s[i - 1] = << >> /\ seqs[i] \in Numbers
        BY <1>1, <3>2 DEF Joins
      <4>2. << >> \o seqs[i] = seqs[i]
        BY <4>1 DEF Numbers
      <4> QED BY <3>1, <3>2, <4>1, <4>2
    <3>3. CASE i # 1
      <4>1. i - 1 \in 1 .. n
        BY <3>3
      <4> QED BY <3>1, <3>3, <4>1
    <3> QED BY <3>2, <3>3
  <2>3. t = [i \in 1 .. n |-> IF i = 1 THEN seqs[i] ELSE t[i - 1] \o seqs[i]]
    BY <2>2
  <2> HIDE DEF t
  <2>4. flatten = [i \in 1 .. n |-> IF i = 1 THEN seqs[i] ELSE flatten[i - 1] \o seqs[i]]
    BY <2>3
  <2> HIDE DEF flatten
  <2> DEFINE T == {i \in 1 .. n : flatten[i] # t[i]}
  <2>5. T = {}
    <3> SUFFICES ASSUME T # {} PROVE FALSE
      OBVIOUS
    <3>1. PICK i \in T : \A y \in T : i <= y
      <4>1. T \in SUBSET Nat
        OBVIOUS
      <4> QED BY <4>1, NatMin
    <3>2. i \in 1 .. n /\ flatten[i] # t[i]
      OBVIOUS
    <3>3. i # 1
      BY <2>3, <2>4, <3>2
    <3>4. i - 1 \in 1 .. n /\ ~(i <= i - 1)
      BY <3>2, <3>3
    <3>5. flatten[i - 1] = t[i - 1]
      BY <3>1, <3>4
    <3>6. flatten[i] = flatten[i - 1] \o seqs[i]
      BY <2>4, <3>2, <3>3
    <3>7. t[i] = t[i - 1] \o seqs[i]
      BY <2>3, <3>2, <3>3
    <3> QED BY <3>2, <3>5, <3>6, <3>7
  <2>6. n \in 1 .. n /\ t[n] = s[n]
    BY <1>3 DEF t
  <2> QED BY <1>1, <2>1, <2>5, <2>6
<1> QED BY <1>2, <1>3

LEMMA FlattenType ==
  ASSUME NEW seqs \in Seq(Numbers)
  PROVE  FlattenSeq(seqs) \in Numbers
<1>1. \A i \in 1 .. Len(seqs) : seqs[i] \in Numbers
  OBVIOUS
<1>2. PICK s : Joins(seqs, Len(seqs), s)
  BY <1>1, JoinsExist
<1>3. Len(seqs) \in 0 .. Len(seqs)
  OBVIOUS
<1> QED BY <1>2, <1>3, FlattenIs DEF Joins

\* Each of the sequences has its place in the whole.
Placed(seqs, n, s) ==
  /\ \A k \in 1 .. n : Len(s[k]) = Len(s[k - 1]) + Len(seqs[k])
  /\ \A k \in 0 .. n : Len(s[k]) <= Len(s[n])
  /\ \A k \in 1 .. n : \A j \in 1 .. Len(seqs[k]) : s[n][Len(s[k - 1]) + j] = seqs[k][j]

LEMMA JoinsPlace ==
  ASSUME NEW n \in Nat, NEW seqs, \A i \in 1 .. n : seqs[i] \in Numbers, NEW s, Joins(seqs, n, s)
  PROVE  Placed(seqs, n, s)
<1>1. \A k \in 0 .. n : s[k] \in Numbers /\ Len(s[k]) \in Nat
  <2>1. \A k \in 0 .. n : s[k] \in Numbers
    BY DEF Joins
  <2>2. \A x \in Numbers : Len(x) \in Nat
    BY DEF Numbers
  <2> QED BY <2>1, <2>2
<1>2. ASSUME NEW k \in 1 .. n
      PROVE  /\ k - 1 \in 0 .. n /\ s[k - 1] \in Numbers /\ seqs[k] \in Numbers
             /\ Len(s[k]) = Len(s[k - 1]) + Len(seqs[k])
             /\ Len(s[k - 1]) \in Nat /\ Len(seqs[k]) \in Nat
             /\ \A j \in 1 .. Len(s[k - 1]) : s[k][j] = s[k - 1][j]
             /\ \A j \in 1 .. Len(seqs[k]) : s[k][Len(s[k - 1]) + j] = seqs[k][j]
  <2>0. k - 1 \in 0 .. n
    OBVIOUS
  <2>1. k - 1 \in 0 .. n /\ s[k] = s[k - 1] \o seqs[k]
    BY <2>0 DEF Joins
  <2>2. PICK a \in Numbers, b \in Numbers : a = s[k - 1] /\ b = seqs[k]
    BY <1>1, <2>1
  <2>3. /\ Len(a \o b) = Len(a) + Len(b) /\ Len(a) \in Nat /\ Len(b) \in Nat
        /\ \A j \in 1 .. Len(a) : (a \o b)[j] = a[j]
        /\ \A j \in 1 .. Len(b) : (a \o b)[Len(a) + j] = b[j]
    BY DEF Numbers
  <2> QED BY <2>1, <2>2, <2>3
<1> DEFINE Holds(m) == \A k \in 0 .. m : /\ Len(s[k]) <= Len(s[m])
                                         /\ \A j \in 1 .. Len(s[k]) : s[m][j] = s[k][j]
           T == {m \in 0 .. n : ~Holds(m)}
<1>3. T = {}
  <2> SUFFICES ASSUME T # {} PROVE FALSE
    OBVIOUS
  <2>1. PICK m \in T : \A y \in T : m <= y
    <3>1. T \in SUBSET Nat
      OBVIOUS
    <3> QED BY <3>1, NatMin
  <2>2. m \in 0 .. n /\ ~Holds(m)
    OBVIOUS
  <2>3. m # 0
    <3>1. Holds(0)
      BY <1>1
    <3> QED BY <2>2, <3>1
  <2>4. m \in 1 .. n /\ m - 1 \in 0 .. n /\ ~(m <= m - 1)
    BY <2>2, <2>3
  <2>5. Holds(m - 1)
    <3> HIDE DEF Holds
    <3> QED BY <2>1, <2>4
  <2>6. PICK k \in 0 .. m : ~(/\ Len(s[k]) <= Len(s[m])
                             /\ \A j \in 1 .. Len(s[k]) : s[m][j] = s[k][j])
    BY <2>2
  <2>7. k # m
    BY <1>1, <2>2, <2>6
  <2>8. k \in 0 .. m - 1 /\ k \in 0 .. n
    BY <2>2, <2>6, <2>7
  <2>9. Len(s[k]) <= Len(s[m - 1]) /\ \A j \in 1 .. Len(s[k]) : s[m - 1][j] = s[k][j]
    BY <2>5, <2>8
  <2>10. /\ Len(s[m - 1]) <= Len(s[m]) /\ \A j \in 1 .. Len(s[m - 1]) : s[m][j] = s[m - 1][j]
    <3>1. \A k_ \in 1 .. n : /\ Len(s[k_]) = Len(s[k_ - 1]) + Len(seqs[k_])
                            /\ Len(s[k_ - 1]) \in Nat /\ Len(seqs[k_]) \in Nat
                            /\ \A j \in 1 .. Len(s[k_ - 1]) : s[k_][j] = s[k_ - 1][j]
      BY <1>2
    <3>2. /\ Len(s[m]) = Len(s[m - 1]) + Len(seqs[m])
          /\ Len(s[m - 1]) \in Nat /\ Len(seqs[m]) \in Nat
      BY <2>4, <3>1
    <3>3. Len(s[m - 1]) <= Len(s[m])
      <4>1. \A a, b \in Nat : a <= a + b
        OBVIOUS
      <4> QED BY <3>2, <4>1
    <3>4. \A j \in 1 .. Len(s[m - 1]) : s[m][j] = s[m - 1][j]
      BY <2>4, <3>1
    <3> QED BY <3>3, <3>4
  <2>11. Len(s[k]) \in Nat /\ Len(s[m - 1]) \in Nat /\ Len(s[m]) \in Nat
    BY <1>1, <2>4, <2>8
  <2>12. \A j \in 1 .. Len(s[k]) : j \in 1 .. Len(s[m - 1])
    BY <2>9, <2>11
  <2> QED BY <2>6, <2>9, <2>10, <2>11, <2>12
<1>4. ASSUME NEW m \in 0 .. n, NEW k \in 0 .. m
      PROVE  Len(s[k]) <= Len(s[m]) /\ \A j \in 1 .. Len(s[k]) : s[m][j] = s[k][j]
  BY <1>3
<1>5. ASSUME NEW m \in 1 .. n, NEW k \in 1 .. m, NEW j \in 1 .. Len(seqs[k])
      PROVE  s[m][Len(s[k - 1]) + j] = seqs[k][j]
  <2>1. k \in 1 .. n /\ m \in 0 .. n /\ k \in 0 .. m
    OBVIOUS
  <2>2. /\ Len(s[k]) = Len(s[k - 1]) + Len(seqs[k]) /\ Len(s[k - 1]) \in Nat /\ Len(seqs[k]) \in Nat
        /\ s[k][Len(s[k - 1]) + j] = seqs[k][j]
    BY <1>2, <2>1
  <2>3. Len(s[k - 1]) + j \in 1 .. Len(s[k])
    <3>1. \A a, b \in Nat : \A x \in 1 .. b : a + x \in 1 .. a + b
      OBVIOUS
    <3> QED BY <2>2, <3>1
  <2> QED BY <1>4, <2>1, <2>2, <2>3
<1>6. \A k \in 1 .. n : \A j \in 1 .. Len(seqs[k]) : s[n][Len(s[k - 1]) + j] = seqs[k][j]
  <2>1. \A k \in 1 .. n : n \in 1 .. n
    OBVIOUS
  <2> QED BY <1>5, <2>1
<1>7. \A k \in 0 .. n : Len(s[k]) <= Len(s[n])
  <2>1. n \in 0 .. n
    OBVIOUS
  <2> QED BY <1>4, <2>1
<1> QED BY <1>2, <1>6, <1>7 DEF Placed

-----------------------------------------------------------------------------
(* What is read of a datagram is what was written.                         *)

\* Options that can be sent: each code once, in a byte, as the length is.
Sendable(options) ==
  /\ Len(options) \in Nat /\ DOMAIN options = 1 .. Len(options)
  /\ \A i \in 1 .. Len(options) :
       /\ options[i].code \in Pad + 1 .. End - 1
       /\ options[i].data \in Numbers /\ Len(options[i].data) \in 0 .. Bytes - 1
  /\ \A i, k \in 1 .. Len(options) : options[i].code = options[k].code => i = k

\* The bytes of an option.
OptionBytes(o) == <<o.code, Len(o.data) % Bytes>> \o o.data

LEMMA OptionBytesAre ==
  ASSUME NEW o, o.code \in Pad + 1 .. End - 1, o.data \in Numbers, Len(o.data) \in 0 .. Bytes - 1
  PROVE  /\ OptionBytes(o) \in Numbers /\ Len(OptionBytes(o)) = Len(o.data) + 2
         /\ OptionBytes(o)[1] = o.code /\ OptionBytes(o)[2] = Len(o.data)
         /\ \A j \in 1 .. Len(o.data) : OptionBytes(o)[j + 2] = o.data[j]
<1>1. PICK c \in 1 .. 254, d \in Seq(Nat), l \in 0 .. 255 : c = o.code /\ d = o.data /\ l = Len(d)
  <2>1. o.code \in 1 .. 254
    BY DEF Pad, End
  <2>2. o.data \in Seq(Nat)
    BY DEF Numbers
  <2>3. Len(o.data) \in 0 .. 255
    BY DEF Bytes
  <2> QED BY <2>1, <2>2, <2>3
<1>2. l % 256 = l
  OBVIOUS
<1>3. <<c, l>> \in Seq(Nat) /\ Len(<<c, l>>) = 2 /\ <<c, l>>[1] = c /\ <<c, l>>[2] = l
  OBVIOUS
<1>4. /\ <<c, l>> \o d \in Seq(Nat) /\ Len(<<c, l>> \o d) = 2 + Len(d)
      /\ \A i \in 1 .. 2 + Len(d) : (<<c, l>> \o d)[i] = IF i <= 2 THEN <<c, l>>[i] ELSE d[i - 2]
  BY <1>3, ConcatProperties
<1>5. OptionBytes(o) = <<c, l>> \o d
  BY <1>1, <1>2 DEF OptionBytes, Bytes
<1>6. PICK b : b = <<c, l>> \o d
  OBVIOUS
<1>7. b[1] = c /\ b[2] = l
  <2>1. 1 \in 1 .. 2 + l /\ 2 \in 1 .. 2 + l
    OBVIOUS
  <2>2. \A i \in 1 .. 2 + l : b[i] = IF i <= 2 THEN <<c, l>>[i] ELSE d[i - 2]
    BY <1>1, <1>4, <1>6, Zenon
  <2>3. b[1] = <<c, l>>[1] /\ b[2] = <<c, l>>[2]
    BY <2>1, <2>2
  <2> QED BY <1>3, <2>3
<1>8. ASSUME NEW j \in 1 .. l PROVE b[j + 2] = d[j]
  <2>1. j + 2 \in 1 .. 2 + l /\ ~(j + 2 <= 2) /\ (j + 2) - 2 = j
    OBVIOUS
  <2> QED BY <1>1, <1>4, <1>6, <2>1
<1>9. b \in Numbers /\ Len(b) = l + 2
  <2>1. 2 + l = l + 2
    OBVIOUS
  <2> QED BY <1>1, <1>4, <1>6, <2>1 DEF Numbers
<1> QED BY <1>1, <1>5, <1>6, <1>7, <1>8, <1>9

\* A datagram of some options: where each of them is.
Datagram(options, ends, d) ==
  LET K == Len(options)
  IN  /\ d \in Numbers /\ ends \in [0 .. K -> Nat] /\ ends[0] = 0 /\ Len(d) = ends[K] + 3
      /\ d[ends[K] + 1] = End
      /\ \A i \in 1 .. K :
           /\ ends[i] = ends[i - 1] + 2 + Len(options[i].data) /\ ends[i] <= ends[K]
           /\ d[ends[i - 1] + 1] = options[i].code
           /\ d[ends[i - 1] + 2] = Len(options[i].data)
           /\ \A j \in 1 .. Len(options[i].data) : d[ends[i - 1] + 2 + j] = options[i].data[j]

LEMMA EncodeIs ==
  ASSUME NEW O, Sendable(O)
  PROVE  \E ends : Datagram(O, ends, EncodeReply(O))
<1> DEFINE K == Len(O)
           B == [n \in DOMAIN O |-> <<O[n].code, Len(O[n].data) % Bytes>> \o O[n].data]
<1>1. K \in Nat /\ DOMAIN O = 1 .. K
  BY DEF Sendable
<1>2. ASSUME NEW i \in 1 .. K
      PROVE  /\ B[i] \in Numbers /\ Len(O[i].data) \in Nat /\ Len(B[i]) = Len(O[i].data) + 2
             /\ B[i][1] = O[i].code /\ B[i][2] = Len(O[i].data)
             /\ \A j \in 1 .. Len(O[i].data) : B[i][j + 2] = O[i].data[j]
  <2>1. O[i].code \in Pad + 1 .. End - 1 /\ O[i].data \in Numbers /\ Len(O[i].data) \in 0 .. Bytes - 1
    BY DEF Sendable
  <2>2. B[i] = OptionBytes(O[i])
    BY <1>1 DEF OptionBytes
  <2>3. Len(O[i].data) \in Nat
    BY <2>1 DEF Numbers
  <2> HIDE DEF B
  <2> QED BY <2>1, <2>2, <2>3, OptionBytesAre
<1>3. B \in Seq(Numbers) /\ Len(B) = K
  <2>1. B = [n \in 1 .. K |-> B[n]]
    BY <1>1
  <2> HIDE DEF B
  <2> QED BY <1>1, <1>2, <2>1
<1>4. EncodeReply(O) = FlattenSeq(B) \o <<End, Pad, Pad>>
  BY DEF EncodeReply
<1> HIDE DEF B, K
<1>5. PICK F : Joins(B, K, F)
  BY <1>1, <1>2, JoinsExist
<1>6. FlattenSeq(B) = F[K]
  BY <1>3, <1>5, FlattenIs
<1>7. /\ \A k \in 1 .. K : Len(F[k]) = Len(F[k - 1]) + Len(B[k])
      /\ \A k \in 0 .. K : Len(F[k]) <= Len(F[K])
      /\ \A k \in 1 .. K : \A j \in 1 .. Len(B[k]) : F[K][Len(F[k - 1]) + j] = B[k][j]
  <2>2. \A i \in 1 .. K : B[i] \in Numbers
    BY <1>2
  <2>3. Placed(B, K, F)
    BY <1>1, <1>5, <2>2, JoinsPlace
  <2> QED BY <2>3 DEF Placed
<1>8. \A k \in 0 .. K : F[k] \in Numbers
  BY <1>5 DEF Joins
<1>9. \A k \in 0 .. K : Len(F[k]) \in Nat
  BY <1>8 DEF Numbers
<1> DEFINE ends == [k \in 0 .. K |-> Len(F[k])]
<1>10. ends \in [0 .. K -> Nat] /\ \A k \in 0 .. K : ends[k] = Len(F[k])
  BY <1>9
<1>11. K \in 0 .. K /\ 0 \in 0 .. K /\ \A k \in 1 .. K : k \in 0 .. K /\ k - 1 \in 0 .. K
  BY <1>1
<1>12. ends[0] = 0
  BY <1>5, <1>10, <1>11 DEF Joins
<1> HIDE DEF ends
<1>21. PICK whole \in Seq(Nat), tail \in Seq(Nat) :
         whole = F[K] /\ tail = <<End, Pad, Pad>> /\ Len(tail) = 3 /\ tail[1] = End
  <2>1. F[K] \in Seq(Nat)
    BY <1>8, <1>11 DEF Numbers
  <2>2. <<End, Pad, Pad>> \in Seq(Nat) /\ Len(<<End, Pad, Pad>>) = 3 /\ <<End, Pad, Pad>>[1] = End
    BY DEF End, Pad
  <2> QED BY <2>1, <2>2
<1>13. PICK d :
         /\ whole = F[K] /\ tail = <<End, Pad, Pad>> /\ Len(tail) = 3 /\ tail[1] = End
         /\ d = whole \o tail /\ d = EncodeReply(O)
  BY <1>4, <1>6, <1>21
<1>14. Len(whole) = ends[K]
  BY <1>10, <1>11, <1>13
<1>15. /\ d \in Numbers /\ Len(d) = ends[K] + 3
       /\ \A i \in 1 .. Len(whole) + 3 : d[i] = IF i <= Len(whole) THEN whole[i] ELSE tail[i - Len(whole)]
  <2>1. /\ whole \o tail \in Seq(Nat) /\ Len(whole \o tail) = Len(whole) + Len(tail)
        /\ \A i \in 1 .. Len(whole) + Len(tail) :
             (whole \o tail)[i] = IF i <= Len(whole) THEN whole[i] ELSE tail[i - Len(whole)]
    BY ConcatProperties
  <2> QED BY <1>13, <1>14, <2>1 DEF Numbers
<1>16. PICK e \in Nat : e = ends[K] /\ e = Len(whole)
  BY <1>10, <1>11, <1>14
<1>17. d[e + 1] = End
  <2>1. e + 1 \in 1 .. e + 3 /\ ~(e + 1 <= e) /\ e + 1 - e = 1
    OBVIOUS
  <2> QED BY <1>13, <1>15, <1>16, <2>1
<1>18. \A j \in 1 .. e : d[j] = whole[j]
  <2>1. \A j \in 1 .. e : j \in 1 .. e + 3 /\ j <= e
    OBVIOUS
  <2> QED BY <1>15, <1>16, <2>1
<1>19. ASSUME NEW i \in 1 .. K
       PROVE  /\ ends[i] = ends[i - 1] + 2 + Len(O[i].data) /\ ends[i] <= ends[K]
              /\ d[ends[i - 1] + 1] = O[i].code
              /\ d[ends[i - 1] + 2] = Len(O[i].data)
              /\ \A j \in 1 .. Len(O[i].data) : d[ends[i - 1] + 2 + j] = O[i].data[j]
  <2>1. i \in 0 .. K /\ i - 1 \in 0 .. K
    BY <1>11
  <2>2. PICK a \in Nat, l \in Nat : a = ends[i - 1] /\ l = Len(O[i].data)
    BY <1>2, <1>10, <2>1
  <2>3. ends[i] = a + (l + 2)
    BY <1>2, <1>7, <1>10, <2>1, <2>2
  <2>4. ends[i] <= ends[K]
    BY <1>7, <1>10, <1>11, <2>1
  <2>5. ends[i] = a + 2 + l /\ \A j \in 1 .. l + 2 : a + j \in 1 .. e
    <3>1. a + (l + 2) <= e
      BY <1>16, <2>3, <2>4
    <3> QED BY <2>3, <3>1
  <2>6. \A j \in 1 .. l + 2 : d[a + j] = B[i][j]
    <3>1. \A j \in 1 .. Len(B[i]) : F[K][a + j] = B[i][j]
      BY <1>7, <1>10, <2>1, <2>2
    <3>2. Len(B[i]) = l + 2
      BY <1>2, <2>2
    <3> QED BY <1>13, <1>18, <2>5, <3>1, <3>2
  <2>7. 1 \in 1 .. l + 2 /\ 2 \in 1 .. l + 2 /\ \A j \in 1 .. l : j + 2 \in 1 .. l + 2 /\ a + (j + 2) = a + 2 + j
    OBVIOUS
  <2>8. d[a + 1] = O[i].code /\ d[a + 2] = l
    BY <1>2, <2>2, <2>6, <2>7
  <2>9. ASSUME NEW j \in 1 .. l PROVE d[a + 2 + j] = O[i].data[j]
    <3>1. PICK k \in 1 .. l + 2 : k = j + 2 /\ a + k = a + 2 + j
      BY <2>7
    <3>2. d[a + k] = B[i][k]
      BY <2>6
    <3>3. B[i][j + 2] = O[i].data[j]
      BY <1>2, <2>2
    <3> QED BY <3>1, <3>2, <3>3
  <2> QED BY <2>2, <2>4, <2>5, <2>8, <2>9
<1>20. Datagram(O, ends, d)
  BY <1>10, <1>12, <1>15, <1>16, <1>17, <1>19 DEF Datagram, K
<1> QED BY <1>13, <1>20

\* What has been read after some of the options.
Table(options, n) ==
  [c \in {options[i].code : i \in 1 .. n} |->
     options[CHOOSE i \in 1 .. Len(options) : options[i].code = c].data]

ReadTo(options, ends, n) == [at |-> ends[n] + 1, got |-> Table(options, n)]

LEMMA TableIs ==
  ASSUME NEW O, Sendable(O), NEW n \in 0 .. Len(O)
  PROVE  /\ DOMAIN Table(O, n) = {O[i].code : i \in 1 .. n}
         /\ \A i \in 1 .. n : Table(O, n)[O[i].code] = O[i].data
<1>1. DOMAIN Table(O, n) = {O[i].code : i \in 1 .. n}
  BY DEF Table
<1>2. ASSUME NEW i \in 1 .. n PROVE Table(O, n)[O[i].code] = O[i].data
  <2>1. i \in 1 .. Len(O)
    BY DEF Sendable
  <2>2. (CHOOSE k \in 1 .. Len(O) : O[k].code = O[i].code) = i
    BY <2>1 DEF Sendable
  <2> QED BY <2>2 DEF Table
<1> QED BY <1>1, <1>2

\* One turn of the loop reads one option,
LEMMA OneRead ==
  ASSUME NEW O, Sendable(O), NEW ends, NEW d, Datagram(O, ends, d), NEW n \in 1 .. Len(O)
  PROVE  NextOption(d, ReadTo(O, ends, n - 1)) = ReadTo(O, ends, n)
<1> DEFINE K == Len(O)
<1>1. K \in Nat /\ n - 1 \in 0 .. K /\ n \in 0 .. K /\ K \in 0 .. K
  BY DEF Sendable
<1>2. PICK a \in Nat, l \in 0 .. Bytes - 1, c \in Pad + 1 .. End - 1, e \in Nat, last \in Nat :
        /\ a = ends[n - 1] /\ l = Len(O[n].data) /\ c = O[n].code /\ e = ends[K] /\ last = Len(d)
  <2>1. ends[n - 1] \in Nat /\ ends[K] \in Nat /\ Len(d) = ends[K] + 3
    BY <1>1 DEF Datagram
  <2>2. Len(d) \in Nat
    BY <2>1
  <2> QED BY <2>1, <2>2 DEF Sendable
<1>3. /\ last = e + 3 /\ ends[n] = a + 2 + l /\ a + 2 + l <= e
      /\ d[a + 1] = c /\ d[a + 2] = l /\ \A j \in 1 .. l : d[a + 2 + j] = O[n].data[j]
  BY <1>2 DEF Datagram
<1>4. l \in Nat /\ c # End /\ c # Pad
  BY DEF Bytes, Pad, End
<1>5. ReadTo(O, ends, n - 1).at = a + 1 /\ ReadTo(O, ends, n - 1).got = Table(O, n - 1)
  BY <1>2 DEF ReadTo
<1>6. SubSeq(d, a + 3, a + 2 + l) = O[n].data
  <2>1. O[n].data \in Seq(Nat) /\ Len(O[n].data) = l
    BY <1>2 DEF Sendable, Numbers
  <2>2. \A i \in a + 3 .. a + 2 + l : d[i] \in Nat
    <3>1. \A i \in a + 3 .. a + 2 + l : i - (a + 2) \in 1 .. l /\ a + 2 + (i - (a + 2)) = i
      BY <1>4
    <3>2. \A j \in 1 .. l : O[n].data[j] \in Nat
      BY <2>1
    <3> QED BY <1>3, <3>1, <3>2
  <2>3. /\ SubSeq(d, a + 3, a + 2 + l) \in Seq(Nat)
        /\ Len(SubSeq(d, a + 3, a + 2 + l)) = IF a + 3 <= a + 2 + l THEN a + 2 + l - (a + 3) + 1 ELSE 0
        /\ \A i \in 1 .. a + 2 + l - (a + 3) + 1 : SubSeq(d, a + 3, a + 2 + l)[i] = d[a + 3 + i - 1]
    <3>1. a + 3 \in Int /\ a + 2 + l \in Int
      BY <1>4
    <3> QED BY <2>2, <3>1, SubSeqProperties
  <2>4. a + 2 + l - (a + 3) + 1 = l /\ (IF a + 3 <= a + 2 + l THEN l ELSE 0) = l
    BY <1>4
  <2>5. \A i \in 1 .. l : a + 3 + i - 1 = a + 2 + i
    BY <1>4
  <2>6. PICK s \in Seq(Nat), t \in Seq(Nat) : s = SubSeq(d, a + 3, a + 2 + l) /\ t = O[n].data
    BY <2>1, <2>3
  <2>7. Len(s) = l /\ Len(t) = l /\ \A i \in 1 .. l : s[i] = t[i]
    BY <1>3, <2>1, <2>3, <2>4, <2>5, <2>6
  <2>8. s = t
    BY <2>7
  <2> QED BY <2>6, <2>8
<1>7. NextOption(d, ReadTo(O, ends, n - 1))
        = [at |-> a + 2 + l + 1, got |-> Over([x \in {c} |-> O[n].data], Table(O, n - 1))]
  <2>1. ~(a + 1 > last) /\ a + 1 # last /\ a + 1 + 1 = a + 2 /\ a + 1 + 2 = a + 3
        /\ a + 1 + 1 + l = a + 2 + l /\ a + 2 + l < last
    BY <1>3, <1>4
  <2>2. PICK r : r = ReadTo(O, ends, n - 1)
    OBVIOUS
  <2>3. r.at = a + 1 /\ r.got = Table(O, n - 1) /\ d[r.at] = c /\ d[r.at + 1] = l
    BY <1>3, <1>5, <2>1, <2>2
  <2>4. (IF r.at = last THEN 0 ELSE d[r.at + 1]) = l
    BY <2>1, <2>3
  <2>5. (IF r.at + 1 + l < last THEN r.at + 1 + l ELSE last) = a + 2 + l
    BY <2>1, <2>3
  <2>6. r.at + 2 = a + 3
    BY <2>1, <2>3
  <2>7. NextOption(d, r)
          = [at |-> a + 2 + l + 1,
             got |-> Over([x \in {c} |-> SubSeq(d, a + 3, a + 2 + l)], Table(O, n - 1))]
    <3>1. ~(r.at > Len(d) \/ d[r.at] = End) /\ d[r.at] # Pad
      BY <1>2, <1>4, <2>1, <2>3
    <3>2. NextOption(d, r)
            = [at |-> (IF r.at + 1 + (IF r.at = Len(d) THEN 0 ELSE d[r.at + 1]) < Len(d)
                       THEN r.at + 1 + (IF r.at = Len(d) THEN 0 ELSE d[r.at + 1]) ELSE Len(d)) + 1,
               got |-> Over([x \in {d[r.at]} |->
                         SubSeq(d, r.at + 2,
                           IF r.at + 1 + (IF r.at = Len(d) THEN 0 ELSE d[r.at + 1]) < Len(d)
                           THEN r.at + 1 + (IF r.at = Len(d) THEN 0 ELSE d[r.at + 1]) ELSE Len(d))], r.got)]
      BY <3>1, Zenon DEF NextOption
    <3> QED BY <1>2, <2>3, <2>4, <2>5, <2>6, <3>2, Zenon
  <2> QED BY <1>6, <2>2, <2>7
<1>8. Over([x \in {c} |-> O[n].data], Table(O, n - 1)) = Table(O, n)
  <2> DEFINE new == [x \in {c} |-> O[n].data]
  <2>1. {O[i].code : i \in 1 .. n} = {O[i].code : i \in 1 .. n - 1} \union {c}
    <3>1. \A i \in 1 .. n : i \in 1 .. n - 1 \/ i = n
      OBVIOUS
    <3>2. n \in 1 .. n /\ \A i \in 1 .. n - 1 : i \in 1 .. n
      OBVIOUS
    <3> QED BY <1>2, <3>1, <3>2
  <2>2. DOMAIN new = {c} /\ new[c] = O[n].data
    OBVIOUS
  <2> HIDE DEF new
  <2>3. /\ DOMAIN Table(O, n - 1) = {O[i].code : i \in 1 .. n - 1}
        /\ \A i \in 1 .. n - 1 : Table(O, n - 1)[O[i].code] = O[i].data
    BY <1>1, TableIs
  <2>4. /\ DOMAIN Table(O, n) = {O[i].code : i \in 1 .. n}
        /\ \A i \in 1 .. n : Table(O, n)[O[i].code] = O[i].data
    BY <1>1, TableIs
  <2>5. DOMAIN Over(new, Table(O, n - 1)) = DOMAIN Table(O, n)
    BY <2>1, <2>2, <2>3, <2>4 DEF Over, CodesOf
  <2>6. ASSUME NEW i \in 1 .. n
        PROVE  Over(new, Table(O, n - 1))[O[i].code] = Table(O, n)[O[i].code]
    <3>1. CASE i = n
      BY <1>2, <2>2, <2>4, <3>1 DEF Over, CodesOf
    <3>2. CASE i # n
      <4>1. i \in 1 .. n - 1 /\ i \in 1 .. K /\ n \in 1 .. K
        BY <1>1, <3>2
      <4>2. O[i].code # c
        BY <1>2, <3>2, <4>1 DEF Sendable
      <4>3. Over(new, Table(O, n - 1))[O[i].code] = Table(O, n - 1)[O[i].code]
        BY <2>2, <2>3, <4>1, <4>2 DEF Over, CodesOf
      <4> QED BY <2>3, <2>4, <4>1, <4>3
    <3> QED BY <3>1, <3>2
  <2>7. /\ Over(new, Table(O, n - 1)) = [x \in DOMAIN Table(O, n) |-> Over(new, Table(O, n - 1))[x]]
        /\ Table(O, n) = [x \in DOMAIN Table(O, n) |-> Table(O, n)[x]]
    <3>1. Table(O, n) = [x \in DOMAIN Table(O, n) |-> Table(O, n)[x]]
      BY DEF Table
    <3>2. Over(new, Table(O, n - 1))
            = [x \in DOMAIN Over(new, Table(O, n - 1)) |-> Over(new, Table(O, n - 1))[x]]
      BY DEF Over
    <3> QED BY <2>5, <3>1, <3>2
  <2>8. \A x \in DOMAIN Table(O, n) : Over(new, Table(O, n - 1))[x] = Table(O, n)[x]
    BY <2>4, <2>6
  <2> QED BY <2>7, <2>8 DEF new
<1> QED BY <1>3, <1>7, <1>8 DEF ReadTo

\* and after the last there is no more to read.
LEMMA NoneRead ==
  ASSUME NEW O, Sendable(O), NEW ends, NEW d, Datagram(O, ends, d)
  PROVE  NextOption(d, ReadTo(O, ends, Len(O))) = ReadTo(O, ends, Len(O))
<1>1. d[ends[Len(O)] + 1] = End
  BY DEF Datagram
<1>2. PICK r : r = ReadTo(O, ends, Len(O))
  OBVIOUS
<1>3. r.at = ends[Len(O)] + 1
  BY <1>2 DEF ReadTo
<1> QED BY <1>1, <1>2, <1>3, Zenon DEF NextOption

\* A client reads the options that were sent, whatever they are.
LEMMA DecodeIs ==
  ASSUME NEW O, Sendable(O)
  PROVE  Decode(EncodeReply(O)) = Table(O, Len(O))
<1> DEFINE K == Len(O)
<1>1. PICK ends, d : Datagram(O, ends, d) /\ d = EncodeReply(O)
  BY EncodeIs
<1>2. /\ K \in Nat /\ ends \in [0 .. K -> Nat] /\ ends[0] = 0 /\ Len(d) = ends[K] + 3
      /\ \A i \in 1 .. K : ends[i] = ends[i - 1] + 2 + Len(O[i].data)
      /\ \A i \in 1 .. K : Len(O[i].data) \in Nat
  <2>1. /\ ends \in [0 .. K -> Nat] /\ ends[0] = 0 /\ Len(d) = ends[K] + 3
        /\ \A i \in 1 .. K : ends[i] = ends[i - 1] + 2 + Len(O[i].data)
    BY <1>1 DEF Datagram
  <2>2. K \in Nat /\ \A i \in 1 .. K : O[i].data \in Seq(Nat)
    BY DEF Sendable, Numbers
  <2> QED BY <2>1, <2>2
<1> HIDE DEF K
<1>3. K <= ends[K]
  <2> DEFINE T == {k \in 0 .. K : ~(k <= ends[k])}
  <2>1. T = {}
    <3> SUFFICES ASSUME T # {} PROVE FALSE
      OBVIOUS
    <3>1. PICK k \in T : \A y \in T : k <= y
      <4>1. T \in SUBSET Nat
        OBVIOUS
      <4> QED BY <4>1, NatMin
    <3>2. k \in 0 .. K /\ ~(k <= ends[k])
      OBVIOUS
    <3>3. k \in 1 .. K /\ k - 1 \in 0 .. K /\ ~(k <= k - 1)
      BY <1>2, <3>2
    <3>4. k - 1 <= ends[k - 1]
      BY <3>1, <3>3
    <3>5. PICK a \in Nat, l \in Nat : a = ends[k - 1] /\ l = Len(O[k].data)
      BY <1>2, <3>3
    <3>6. ends[k] = a + 2 + l
      BY <1>2, <3>3, <3>5
    <3> QED BY <3>2, <3>3, <3>4, <3>5, <3>6
  <2>2. K \in 0 .. K
    BY <1>2
  <2> QED BY <2>1, <2>2
<1>4. PICK L \in Nat : L = Len(d) /\ K <= L
  <2>1. ends[K] \in Nat
    BY <1>2
  <2> QED BY <1>2, <1>3, <2>1
<1> DEFINE S == [n \in 0 .. L |-> IF n <= K THEN ReadTo(O, ends, n) ELSE ReadTo(O, ends, K)]
           Read[n \in 0 .. L] == IF n = 0 THEN [at |-> 1, got |-> << >>] ELSE NextOption(d, Read[n - 1])
<1>5. ASSUME NEW n \in 0 .. L
      PROVE  S[n] = IF n = 0 THEN [at |-> 1, got |-> << >>] ELSE NextOption(d, S[n - 1])
  <2>1. CASE n = 0
    <3>1. S[0] = ReadTo(O, ends, 0)
      BY <1>2, <1>4
    <3>2. Table(O, 0) = << >>
      <4>1. {O[i].code : i \in 1 .. 0} = {}
        OBVIOUS
      <4> QED BY <4>1 DEF Table
    <3>3. ReadTo(O, ends, 0) = [at |-> 1, got |-> << >>]
      BY <1>2, <3>2 DEF ReadTo
    <3> QED BY <2>1, <3>1, <3>3
  <2>2. CASE n # 0 /\ n <= K
    <3>1. n \in 1 .. K /\ n - 1 \in 0 .. L /\ n - 1 <= K
      BY <1>2, <1>4, <2>2
    <3>2. S[n] = ReadTo(O, ends, n) /\ S[n - 1] = ReadTo(O, ends, n - 1)
      BY <2>2, <3>1
    <3> HIDE DEF S
    <3>3. NextOption(d, ReadTo(O, ends, n - 1)) = ReadTo(O, ends, n)
      BY <1>1, <3>1, OneRead DEF K
    <3> QED BY <2>2, <3>2, <3>3
  <2>3. CASE n # 0 /\ ~(n <= K)
    <3>1. n - 1 \in 0 .. L /\ K <= n - 1
      BY <1>2, <1>4, <2>3
    <3>2. S[n] = ReadTo(O, ends, K) /\ S[n - 1] = ReadTo(O, ends, K)
      <4>1. S[n] = ReadTo(O, ends, K)
        BY <2>3
      <4>2. PICK k : k = n - 1
        OBVIOUS
      <4>3. CASE k = K
        <5>1. k <= K /\ k \in 0 .. L
          BY <1>2, <3>1, <4>2, <4>3
        <5>2. S[k] = ReadTo(O, ends, K)
          BY <4>3, <5>1
        <5> QED BY <4>1, <4>2, <5>2
      <4>4. CASE k # K
        <5>1. ~(k <= K) /\ k \in 0 .. L
          BY <1>2, <3>1, <4>2, <4>4
        <5>2. S[k] = ReadTo(O, ends, K)
          BY <5>1
        <5> QED BY <4>1, <4>2, <5>2
      <4> QED BY <4>1, <4>3, <4>4
    <3> HIDE DEF S
    <3>3. NextOption(d, ReadTo(O, ends, K)) = ReadTo(O, ends, K)
      BY <1>1, NoneRead DEF K
    <3> QED BY <2>3, <3>2, <3>3
  <2> QED BY <2>1, <2>2, <2>3
<1>6. S = [n \in 0 .. L |-> IF n = 0 THEN [at |-> 1, got |-> << >>] ELSE NextOption(d, S[n - 1])]
  <2>1. S = [n \in 0 .. L |-> S[n]]
    OBVIOUS
  <2> HIDE DEF S
  <2> QED BY <1>5, <2>1
<1>7. S[L].got = Table(O, K)
  <2>1. L \in 0 .. L /\ (L <= K => L = K)
    BY <1>2, <1>4
  <2>2. S[L] = ReadTo(O, ends, K)
    BY <2>1
  <2> QED BY <2>2 DEF ReadTo
<1> HIDE DEF S
<1>8. Read = [n \in 0 .. L |-> IF n = 0 THEN [at |-> 1, got |-> << >>] ELSE NextOption(d, Read[n - 1])]
  BY <1>6
<1>9. Decode(d) = Read[L].got
  BY <1>4 DEF Decode
<1> HIDE DEF Read
<1> DEFINE T == {n \in 0 .. L : Read[n] # S[n]}
<1>10. T = {}
  <2> SUFFICES ASSUME T # {} PROVE FALSE
    OBVIOUS
  <2>1. PICK n \in T : \A y \in T : n <= y
    <3>1. T \in SUBSET Nat
      OBVIOUS
    <3> QED BY <3>1, NatMin
  <2>2. n \in 0 .. L /\ Read[n] # S[n]
    OBVIOUS
  <2>3. n # 0
    BY <1>6, <1>8, <2>2
  <2>4. n - 1 \in 0 .. L /\ ~(n <= n - 1)
    BY <2>2, <2>3
  <2>5. Read[n - 1] = S[n - 1]
    BY <2>1, <2>4
  <2>6. Read[n] = NextOption(d, Read[n - 1]) /\ S[n] = NextOption(d, S[n - 1])
    BY <1>6, <1>8, <2>2, <2>3
  <2> QED BY <2>2, <2>5, <2>6
<1>11. L \in 0 .. L
  OBVIOUS
<1>12. Read[L] = S[L]
  BY <1>10, <1>11
<1> QED BY <1>1, <1>7, <1>9, <1>12 DEF K

-----------------------------------------------------------------------------
(* The levels, and what is configured.                                     *)

\* Of some naturals that are bounded there is a highest.
LEMMA HighestOf ==
  ASSUME NEW n \in Nat, NEW T \in SUBSET (1 .. n), T # {}
  PROVE  \E x \in T : \A y \in T : y <= x
<1> DEFINE U == {n - y : y \in T}
<1>1. U \in SUBSET Nat /\ U # {}
  <2>1. \A y \in T : n - y \in Nat
    OBVIOUS
  <2> QED BY <2>1
<1> HIDE DEF U
<1>2. PICK u \in U : \A v \in U : u <= v
  BY <1>1, NatMin
<1>3. PICK x \in T : u = n - x
  BY DEF U
<1>4. ASSUME NEW y \in T PROVE y <= x
  <2>1. n - y \in U
    BY DEF U
  <2> QED BY <1>2, <1>3, <2>1
<1> QED BY <1>4

\* The levels that name a code, and the latest of them.
LevelsWith(lists, n, c) == {k \in 1 .. n : c \in CodesOf(lists[k])}
Latest(lists, n, c) == CHOOSE k \in LevelsWith(lists, n, c) : \A j \in LevelsWith(lists, n, c) : j <= k

LEMMA LatestIs ==
  ASSUME NEW lists, NEW n \in Nat, NEW c, LevelsWith(lists, n, c) # {}
  PROVE  /\ Latest(lists, n, c) \in LevelsWith(lists, n, c)
         /\ \A j \in LevelsWith(lists, n, c) : j <= Latest(lists, n, c)
<1>1. LevelsWith(lists, n, c) \in SUBSET (1 .. n)
  BY DEF LevelsWith
<1>2. \E x \in LevelsWith(lists, n, c) : \A y \in LevelsWith(lists, n, c) : y <= x
  BY <1>1, HighestOf
<1> QED BY <1>2 DEF Latest

\* What the first n of the levels come to.
MergedTo(lists, n) ==
  [c \in UNION {CodesOf(lists[k]) : k \in 1 .. n} |-> lists[Latest(lists, n, c)][c]]

LEMMA MergedOne ==
  ASSUME NEW lists, NEW n \in Nat \ {0}
  PROVE  Over(lists[n], MergedTo(lists, n - 1)) = MergedTo(lists, n)
<1>1. n \in 1 .. n /\ \A k \in 1 .. n : k \in 1 .. n - 1 \/ k = n
  OBVIOUS
<1>2. \A k \in 1 .. n - 1 : k \in 1 .. n
  OBVIOUS
<1> DEFINE old == MergedTo(lists, n - 1)
           new == MergedTo(lists, n)
           both == CodesOf(lists[n]) \union DOMAIN old
<1>3. DOMAIN old = UNION {CodesOf(lists[k]) : k \in 1 .. n - 1}
      /\ DOMAIN new = UNION {CodesOf(lists[k]) : k \in 1 .. n}
  BY DEF MergedTo
<1>4. DOMAIN new = both
  BY <1>1, <1>2, <1>3
<1>5. Over(lists[n], old) = [c \in both |-> IF c \in CodesOf(lists[n]) THEN lists[n][c] ELSE old[c]]
  BY DEF Over, CodesOf
<1>6. new = [c \in DOMAIN new |-> lists[Latest(lists, n, c)][c]]
  BY <1>3 DEF MergedTo
<1>7. ASSUME NEW c \in both
      PROVE  (IF c \in CodesOf(lists[n]) THEN lists[n][c] ELSE old[c]) = lists[Latest(lists, n, c)][c]
  <2>1. CASE c \in CodesOf(lists[n])
    <3>1. n \in LevelsWith(lists, n, c)
      BY <1>1, <2>1 DEF LevelsWith
    <3>2. Latest(lists, n, c) \in LevelsWith(lists, n, c) /\ n <= Latest(lists, n, c)
      BY <3>1, LatestIs
    <3>3. Latest(lists, n, c) = n
      BY <3>2 DEF LevelsWith
    <3> QED BY <2>1, <3>3
  <2>2. CASE c \notin CodesOf(lists[n])
    <3>1. LevelsWith(lists, n, c) = LevelsWith(lists, n - 1, c)
      BY <1>1, <1>2, <2>2 DEF LevelsWith
    <3>2. Latest(lists, n, c) = Latest(lists, n - 1, c)
      BY <3>1 DEF Latest
    <3>3. c \in DOMAIN old
      BY <2>2
    <3>4. old[c] = lists[Latest(lists, n - 1, c)][c]
      BY <1>3, <3>3 DEF MergedTo
    <3> QED BY <2>2, <3>2, <3>4
  <2> QED BY <2>1, <2>2
<1> HIDE DEF old, new, both
<1>8. new = [c \in both |-> lists[Latest(lists, n, c)][c]]
  BY <1>4, <1>6
<1>9. Over(lists[n], old) = new
  BY <1>5, <1>7, <1>8
<1> QED BY <1>9 DEF old, new

LEMMA MergedIs ==
  ASSUME NEW lists, NEW n \in Nat, n = Len(lists)
  PROVE  MergeOptions(lists) = MergedTo(lists, n)
<1> DEFINE S == [k \in 0 .. n |-> MergedTo(lists, k)]
           Merged[k \in 0 .. n] == IF k = 0 THEN << >> ELSE Over(lists[k], Merged[k - 1])
<1>1. MergedTo(lists, 0) = << >>
  <2>1. UNION {CodesOf(lists[k]) : k \in 1 .. 0} = {}
    OBVIOUS
  <2> QED BY <2>1 DEF MergedTo
<1>2. ASSUME NEW k \in 0 .. n PROVE S[k] = IF k = 0 THEN << >> ELSE Over(lists[k], S[k - 1])
  <2>1. CASE k = 0
    BY <1>1, <2>1
  <2>2. CASE k # 0
    <3>1. k \in Nat \ {0} /\ k - 1 \in 0 .. n
      BY <2>2
    <3>2. S[k] = MergedTo(lists, k) /\ S[k - 1] = MergedTo(lists, k - 1)
      BY <3>1
    <3> HIDE DEF S
    <3> QED BY <2>2, <3>1, <3>2, MergedOne
  <2> QED BY <2>1, <2>2
<1>3. S = [k \in 0 .. n |-> S[k]] /\ n \in 0 .. n /\ S[n] = MergedTo(lists, n)
  OBVIOUS
<1> HIDE DEF S
<1>4. S = [k \in 0 .. n |-> IF k = 0 THEN << >> ELSE Over(lists[k], S[k - 1])]
  BY <1>2, <1>3
<1>5. Merged = [k \in 0 .. n |-> IF k = 0 THEN << >> ELSE Over(lists[k], Merged[k - 1])]
  BY <1>4
<1>6. MergeOptions(lists) = Merged[n]
  BY DEF MergeOptions
<1> HIDE DEF Merged
<1> DEFINE T == {k \in 0 .. n : Merged[k] # S[k]}
<1>7. T = {}
  <2> SUFFICES ASSUME T # {} PROVE FALSE
    OBVIOUS
  <2>1. PICK k \in T : \A y \in T : k <= y
    <3>1. T \in SUBSET Nat
      OBVIOUS
    <3> QED BY <3>1, NatMin
  <2>2. k \in 0 .. n /\ Merged[k] # S[k]
    OBVIOUS
  <2>3. k # 0
    BY <1>4, <1>5, <2>2
  <2>4. k - 1 \in 0 .. n /\ ~(k <= k - 1)
    BY <2>2, <2>3
  <2>5. Merged[k - 1] = S[k - 1]
    BY <2>1, <2>4
  <2>6. Merged[k] = Over(lists[k], Merged[k - 1]) /\ S[k] = Over(lists[k], S[k - 1])
    BY <1>4, <1>5, <2>2, <2>3
  <2> QED BY <2>2, <2>5, <2>6
<1> QED BY <1>3, <1>6, <1>7

-----------------------------------------------------------------------------
(* Values.                                                                 *)

\* The tables that a level may have, and the lists of name servers.
Tables == OptionSets \union {<< >>}
Lists == DnsLists \union {<< >>}

\* A value that can be sent.
Sends(code, value) ==
  /\ EncodeOptionValue(code, value) \in Numbers
  /\ Len(EncodeOptionValue(code, value)) \in 0 .. Bytes - 1

LEMMA AddressIs ==
  ASSUME NEW a \in FourBytes
  PROVE  a \in Numbers /\ Len(a) = 4
<1>1. a = [k \in 1 .. 4 |-> a[k]] /\ \A k \in 1 .. 4 : a[k] \in Nat
  BY DEF FourBytes, Bytes
<1>2. PICK f : f = a
  OBVIOUS
<1>3. f = [k \in 1 .. 4 |-> f[k]] /\ \A k \in 1 .. 4 : f[k] \in Nat
  BY <1>1, <1>2
<1>4. f \in Seq(Nat) /\ Len(f) = 4
  BY <1>3
<1> QED BY <1>2, <1>4 DEF Numbers

LEMMA AddressesAre ==
  ASSUME NEW l \in Seq(FourBytes)
  PROVE  l \in Seq(Numbers)
<1>1. FourBytes \subseteq Numbers
  BY AddressIs
<1> QED BY <1>1

LEMMA LengthType ==
  ASSUME NEW x \in Numbers PROVE Len(x) \in Nat /\ (Len(x) < Bytes => Len(x) \in 0 .. Bytes - 1)
<1>1. PICK n \in Nat : n = Len(x)
  BY DEF Numbers
<1>2. n < 256 => n \in 0 .. 256 - 1
  OBVIOUS
<1> QED BY <1>1, <1>2 DEF Bytes

\* What a level configures,
LEMMA TableSends ==
  ASSUME NEW t \in Tables, NEW c \in CodesOf(t)
  PROVE  c \in Pad + 1 .. End - 1 /\ (t[c] # << >> => Sends(c, t[c]))
<1>1. t \in OptionSets
  BY DEF Tables, CodesOf
<1>2. /\ c \in Pad + 1 .. End - 1
      /\ t[c] \in (IF AddressList(c) THEN Seq(FourBytes) ELSE Seq(Nat))
      /\ t[c] = << >> \/ Len(EncodeOptionValue(c, t[c])) < Bytes
  BY <1>1, ValuesFit
<1>3. ASSUME t[c] # << >> PROVE EncodeOptionValue(c, t[c]) \in Numbers
  <2>1. CASE AddressList(c)
    <3>1. t[c] \in Seq(Numbers)
      BY <1>2, <2>1, AddressesAre
    <3>2. EncodeOptionValue(c, t[c]) = FlattenSeq(t[c])
      <4>1. c # 46
        BY <2>1 DEF AddressList
      <4> QED BY <2>1, <4>1 DEF EncodeOptionValue
    <3> QED BY <3>1, <3>2, FlattenType
  <2>2. CASE ~AddressList(c) /\ c = 46
    <3>1. t[c] \in Seq(Nat)
      BY <1>2, <2>2
    <3>2. PICK h \in Nat : h = Head(t[c])
      BY <1>3, <3>1
    <3>3. EncodeOptionValue(c, t[c]) = <<h % Bytes>>
      BY <2>2, <3>2 DEF EncodeOptionValue
    <3>4. <<h % Bytes>> \in Seq(Nat)
      BY DEF Bytes
    <3> QED BY <3>3, <3>4 DEF Numbers
  <2>3. CASE ~AddressList(c) /\ c # 46
    <3>1. EncodeOptionValue(c, t[c]) = t[c]
      BY <2>3 DEF EncodeOptionValue
    <3> QED BY <1>2, <2>3, <3>1 DEF Numbers
  <2> QED BY <2>1, <2>2, <2>3
<1>4. ASSUME t[c] # << >> PROVE Len(EncodeOptionValue(c, t[c])) \in 0 .. Bytes - 1
  BY <1>2, <1>3, <1>4, LengthType
<1> QED BY <1>2, <1>3, <1>4 DEF Sends

\* the name servers,
LEMMA ListSends ==
  ASSUME NEW l \in DnsLists
  PROVE  Sends(6, l)
<1>1. l \in Seq(FourBytes) /\ Len(FlattenSeq(l)) < Bytes
  BY ValuesFit
<1>2. EncodeOptionValue(6, l) = FlattenSeq(l)
  BY DEF EncodeOptionValue, AddressList
<1>3. FlattenSeq(l) \in Numbers
  BY <1>1, AddressesAre, FlattenType
<1>4. Len(FlattenSeq(l)) \in 0 .. Bytes - 1
  BY <1>1, <1>3, LengthType
<1> QED BY <1>2, <1>3, <1>4 DEF Sends

\* and this server.
LEMMA OwnSends == Sends(6, <<ServerIp>>)
<1>1. ServerIp \in FourBytes
  BY ValuesFit
<1>2. ServerIp \in Numbers /\ Len(ServerIp) = 4
  BY <1>1, AddressIs
<1>3. PICK q : q = <<ServerIp>>
  OBVIOUS
<1>4. q \in Seq(Numbers) /\ Len(q) = 1 /\ q[1] = ServerIp
  BY <1>2, <1>3
<1>5. \A i \in 1 .. 1 : q[i] \in Numbers
  BY <1>2, <1>4
<1>6. PICK s : Joins(q, 1, s)
  BY <1>5, JoinsExist
<1>7. FlattenSeq(q) = s[1]
  BY <1>4, <1>6, FlattenIs
<1>8. s[0] = << >> /\ s[1] = s[0] \o q[1] /\ s[1] \in Numbers
  <2>1. 1 \in 1 .. 1 /\ 1 \in 0 .. 1 /\ 1 - 1 = 0
    OBVIOUS
  <2> QED BY <1>6, <2>1 DEF Joins
<1>9. s[1] = ServerIp
  BY <1>2, <1>4, <1>8, ConcatEmptySeq DEF Numbers
<1>10. EncodeOptionValue(6, q) = FlattenSeq(q)
  BY DEF EncodeOptionValue, AddressList
<1>11. Sends(6, q)
  BY <1>2, <1>7, <1>9, <1>10 DEF Sends, Bytes
<1> QED BY <1>3, <1>11

-----------------------------------------------------------------------------
(* The options of a reply.                                                 *)

\* What a sequence has.
Has(s) == {s[i] : i \in 1 .. Len(s)}

Rows == {Option(c, d) : c \in Nat, d \in Numbers}

LEMMA NoneSent == << >> \in Seq(Rows) /\ Sendable(<< >>) /\ Has(<< >>) = {}
<1>1. << >> \in Seq(Rows) /\ Len(<< >>) = 0 /\ DOMAIN << >> = 1 .. 0 /\ \A i \in 1 .. 0 : FALSE
  OBVIOUS
<1> QED BY <1>1 DEF Sendable, Has

LEMMA OneSent ==
  ASSUME NEW c \in Pad + 1 .. End - 1, NEW d \in Numbers, Len(d) \in 0 .. Bytes - 1
  PROVE  /\ <<Option(c, d)>> \in Seq(Rows) /\ Sendable(<<Option(c, d)>>)
         /\ Has(<<Option(c, d)>>) = {Option(c, d)}
         /\ Option(c, d).code = c /\ Option(c, d).data = d
<1>1. PICK o : o = Option(c, d)
  OBVIOUS
<1>2. o.code = c /\ o.data = d
  BY <1>1 DEF Option
<1>3. o \in Rows
  <2>1. c \in Nat
    BY DEF Pad, End
  <2> QED BY <1>1, <2>1 DEF Rows
<1>4. PICK s : s = <<o>>
  OBVIOUS
<1>5. s \in Seq(Rows) /\ Len(s) = 1 /\ DOMAIN s = 1 .. 1 /\ s[1] = o
  BY <1>3, <1>4
<1>6. \A i \in 1 .. 1 : i = 1
  OBVIOUS
<1>7. Sendable(s)
  BY <1>2, <1>5, <1>6 DEF Sendable
<1>8. Has(s) = {o}
  <2>1. 1 \in 1 .. 1
    OBVIOUS
  <2> QED BY <1>5, <1>6, <2>1 DEF Has
<1> QED BY <1>1, <1>2, <1>4, <1>5, <1>7, <1>8

LEMMA BothSent ==
  ASSUME NEW p \in Seq(Rows), NEW q \in Seq(Rows), Sendable(p), Sendable(q),
         \A x \in Has(p) : \A y \in Has(q) : x.code # y.code
  PROVE  p \o q \in Seq(Rows) /\ Sendable(p \o q) /\ Has(p \o q) = Has(p) \union Has(q)
<1>20. PICK a \in Nat, b \in Nat : a = Len(p) /\ b = Len(q)
  BY DEF Sendable
<1>0. PICK r : a = Len(p) /\ b = Len(q) /\ r = p \o q
  BY <1>20
<1>1. /\ a = Len(p) /\ b = Len(q) /\ r = p \o q
      /\ r \in Seq(Rows) /\ Len(r) = a + b
      /\ \A i \in 1 .. a + b : r[i] = IF i <= a THEN p[i] ELSE q[i - a]
  <2>1. /\ p \o q \in Seq(Rows) /\ Len(p \o q) = Len(p) + Len(q)
        /\ \A i \in 1 .. Len(p) + Len(q) : (p \o q)[i] = IF i <= Len(p) THEN p[i] ELSE q[i - Len(p)]
    BY ConcatProperties
  <2> QED BY <1>0, <2>1
<1>2. /\ \A i \in 1 .. a : i \in 1 .. a + b /\ r[i] = p[i]
      /\ \A i \in 1 .. b : a + i \in 1 .. a + b /\ r[a + i] = q[i]
  <2>1. \A i \in 1 .. a : i \in 1 .. a + b /\ i <= a
    OBVIOUS
  <2>2. \A i \in 1 .. b : a + i \in 1 .. a + b /\ ~(a + i <= a) /\ a + i - a = i
    OBVIOUS
  <2> QED BY <1>1, <2>1, <2>2
<1>3. \A i \in 1 .. a + b : i \in 1 .. a \/ \E k \in 1 .. b : i = a + k
  <2>1. ASSUME NEW i \in 1 .. a + b, i \notin 1 .. a PROVE \E k \in 1 .. b : i = a + k
    <3>1. i - a \in 1 .. b /\ i = a + (i - a)
      BY <2>1
    <3> QED BY <3>1
  <2> QED BY <2>1
<1>4. Has(r) = Has(p) \union Has(q)
  <2>1. ASSUME NEW x \in Has(r) PROVE x \in Has(p) \union Has(q)
    <3>1. PICK i \in 1 .. a + b : x = r[i]
      BY <1>1 DEF Has
    <3>2. CASE i \in 1 .. a
      BY <1>1, <1>2, <3>1, <3>2 DEF Has
    <3>3. CASE i \notin 1 .. a
      <4>1. PICK k \in 1 .. b : i = a + k
        BY <1>3, <3>3
      <4>2. x = q[k]
        BY <1>2, <3>1, <4>1
      <4> QED BY <1>1, <4>2 DEF Has
    <3> QED BY <3>2, <3>3
  <2>2. ASSUME NEW x \in Has(p) PROVE x \in Has(r)
    <3>1. PICK i \in 1 .. a : x = p[i]
      BY <1>1 DEF Has
    <3>2. i \in 1 .. a + b /\ x = r[i]
      BY <1>2, <3>1
    <3> QED BY <1>1, <3>2 DEF Has
  <2>3. ASSUME NEW x \in Has(q) PROVE x \in Has(r)
    <3>1. PICK i \in 1 .. b : x = q[i]
      BY <1>1 DEF Has
    <3>2. a + i \in 1 .. a + b /\ x = r[a + i]
      BY <1>2, <3>1
    <3> QED BY <1>1, <3>2 DEF Has
  <2> QED BY <2>1, <2>2, <2>3
<1>5. /\ \A i \in 1 .. a : p[i] \in Has(p)
      /\ \A i \in 1 .. b : q[i] \in Has(q)
  BY <1>1 DEF Has
<1>6. ASSUME NEW i \in 1 .. a + b, NEW k \in 1 .. a + b, r[i].code = r[k].code
      PROVE  i = k
  <2>1. CASE i \in 1 .. a /\ k \in 1 .. a
    BY <1>1, <1>2, <1>6, <2>1 DEF Sendable
  <2>2. CASE i \in 1 .. a /\ k \notin 1 .. a
    BY <1>2, <1>3, <1>5, <1>6, <2>2
  <2>3. CASE i \notin 1 .. a /\ k \in 1 .. a
    BY <1>2, <1>3, <1>5, <1>6, <2>3
  <2>4. CASE i \notin 1 .. a /\ k \notin 1 .. a
    <3>1. PICK j \in 1 .. b, m \in 1 .. b : i = a + j /\ k = a + m
      BY <1>3, <2>4
    <3>2. q[j].code = q[m].code
      BY <1>2, <1>6, <3>1
    <3> QED BY <1>1, <3>1, <3>2 DEF Sendable
  <2> QED BY <2>1, <2>2, <2>3, <2>4
<1>7. ASSUME NEW i \in 1 .. a + b
      PROVE  /\ r[i].code \in Pad + 1 .. End - 1
             /\ r[i].data \in Numbers /\ Len(r[i].data) \in 0 .. Bytes - 1
  <2>1. CASE i \in 1 .. a
    BY <1>1, <1>2, <2>1 DEF Sendable
  <2>2. CASE i \notin 1 .. a
    <3>1. PICK k \in 1 .. b : i = a + k
      BY <1>3, <2>2
    <3>2. r[i] = q[k]
      BY <1>2, <3>1
    <3> QED BY <1>1, <3>2 DEF Sendable
  <2> QED BY <2>1, <2>2
<1>8. DOMAIN r = 1 .. a + b /\ Len(r) \in Nat
  BY <1>1
<1>9. Sendable(r)
  BY <1>1, <1>6, <1>7, <1>8 DEF Sendable
<1> QED BY <1>1, <1>4, <1>9

\* A computed option, sent unless it is empty.
LEMMA GivenIs ==
  ASSUME NEW code \in Pad + 1 .. End - 1, NEW value, value # << >> => Sends(code, value)
  PROVE  /\ Given(code, value) \in Seq(Rows) /\ Sendable(Given(code, value))
         /\ Has(Given(code, value)) =
              IF value = << >> THEN {} ELSE {Option(code, EncodeOptionValue(code, value))}
         /\ \A o \in Has(Given(code, value)) : o.code = code
<1>1. CASE value = << >>
  BY <1>1, NoneSent DEF Given
<1>2. CASE value # << >>
  <2>1. PICK d \in Numbers : d = EncodeOptionValue(code, value) /\ Len(d) \in 0 .. Bytes - 1
    BY <1>2 DEF Sends
  <2>2. Given(code, value) = <<Option(code, d)>>
    BY <1>2, <2>1 DEF Given
  <2> QED BY <1>2, <2>1, <2>2, OneSent
<1> QED BY <1>1, <1>2

\* A finite set in some order.
LEMMA SetToSeqIs ==
  ASSUME NEW S, IsFiniteSet(S)
  PROVE  /\ SetToSeq(S) \in [1 .. Cardinality(S) -> S] /\ Cardinality(S) \in Nat
         /\ \A i, k \in 1 .. Cardinality(S) : SetToSeq(S)[i] = SetToSeq(S)[k] => i = k
         /\ \A x \in S : \E i \in 1 .. Cardinality(S) : SetToSeq(S)[i] = x
<1>1. PICK n \in Nat : ExistsBijection(1 .. n, S)
  BY FS_NatBijection
<1>2. Cardinality(S) = n
  BY <1>1, FS_CountingElements
<1>3. PICK g : g \in Injection(1 .. n, S)
  BY <1>1 DEF ExistsBijection, Bijection
<1>4. g \in [1 .. n -> S] /\ IsInjective(g)
  BY <1>3 DEF Injection
<1>5. PICK f : f = SetToSeq(S)
  OBVIOUS
<1>6. f \in [1 .. n -> S] /\ IsInjective(f)
  BY <1>2, <1>4, <1>5 DEF SetToSeq
<1>7. \A i, k \in 1 .. n : f[i] = f[k] => i = k
  BY <1>6 DEF IsInjective
<1>8. f \in Injection(1 .. n, S)
  BY <1>6 DEF Injection
<1>9. IsFiniteSet(1 .. n) /\ Cardinality(1 .. n) = n
  BY FS_Interval
<1>10. f \in Surjection(1 .. n, S)
  BY <1>2, <1>8, <1>9, FS_Injection
<1>11. \A x \in S : \E i \in 1 .. n : f[i] = x
  BY <1>10 DEF Surjection
<1> QED BY <1>2, <1>5, <1>6, <1>7, <1>11

-----------------------------------------------------------------------------
(* Replies.                                                                *)

Policies == [scope : ScopeIds, on : BOOLEAN, hosts : SUBSET Hosts, options : Tables]

\* What is configured is of the tables and lists that there are.
ConfigOK ==
  /\ DOMAIN levels = {"server", "scope", "reservation", "policies"}
  /\ levels.server \in Tables
  /\ DOMAIN levels.scope = ScopeIds
  /\ \A s \in ScopeIds : DOMAIN levels.scope[s] = {"on", "options"} /\ levels.scope[s].options \in Tables
  /\ levels.reservation.options \in Tables
  /\ levels.policies \in Seq(Policies)
  /\ Len(levels.policies) \in Nat /\ DOMAIN levels.policies = 1 .. Len(levels.policies)
  /\ \A n \in 1 .. Len(levels.policies) :
       DOMAIN levels.policies[n] = {"scope", "on", "hosts", "options"}
       /\ levels.policies[n].options \in Tables
  /\ DOMAIN naming = {"own", "custom", "domain", "mode", "servers"}
  /\ naming.custom \in Lists /\ naming.domain = << >>
  /\ DOMAIN naming.servers = ScopeIds /\ \A s \in ScopeIds : naming.servers[s] \in Lists

LEMMA LevelsAre ==
  ASSUME ConfigOK, NEW s \in ScopeIds, NEW h
  PROVE  /\ Len(LevelsFor(s, h)) \in Nat /\ DOMAIN LevelsFor(s, h) = 1 .. Len(LevelsFor(s, h))
         /\ \A k \in 1 .. Len(LevelsFor(s, h)) : LevelsFor(s, h)[k] \in Tables
<1> DEFINE three == <<levels.server, levels.scope[s].options,
                      IF levels.reservation.host = h THEN levels.reservation.options ELSE << >>>>
           rest == [n \in DOMAIN levels.policies |->
                      IF PolicyMatches(levels.policies[n], s, h) THEN levels.policies[n].options ELSE << >>]
<1>1. << >> \in Tables
  BY DEF Tables
<1>2. three \in Seq(Tables)
  <2>1. /\ levels.server \in Tables /\ levels.scope[s].options \in Tables
        /\ (IF levels.reservation.host = h THEN levels.reservation.options ELSE << >>) \in Tables
    BY <1>1 DEF ConfigOK
  <2> QED BY <2>1
<1>3. rest \in Seq(Tables)
  <2>1. PICK n \in Nat : n = Len(levels.policies) /\ DOMAIN levels.policies = 1 .. n
    BY DEF ConfigOK
  <2>2. \A k \in 1 .. n : rest[k] \in Tables
    BY <1>1, <2>1 DEF ConfigOK
  <2>3. rest = [k \in 1 .. n |-> rest[k]]
    BY <2>1
  <2> HIDE DEF rest
  <2> QED BY <2>2, <2>3
<1>4. LevelsFor(s, h) = three \o rest
  BY DEF LevelsFor
<1> HIDE DEF three, rest
<1>5. three \o rest \in Seq(Tables)
  BY <1>2, <1>3, ConcatProperties
<1>6. PICK l \in Seq(Tables) : l = LevelsFor(s, h)
  BY <1>4, <1>5
<1>7. Len(l) \in Nat /\ DOMAIN l = 1 .. Len(l) /\ \A k \in 1 .. Len(l) : l[k] \in Tables
  OBVIOUS
<1> QED BY <1>6, <1>7

\* The merged table has what is configured.
LEMMA MergedHas ==
  ASSUME ConfigOK, NEW s \in ScopeIds, NEW h, NEW merged, merged = MergeOptions(LevelsFor(s, h)),
         NEW c
  PROVE  /\ c \in CodesOf(merged) => /\ merged[c] = Configured(s, h, c)
                                     /\ c \in Pad + 1 .. End - 1
                                     /\ merged[c] # << >> => Sends(c, merged[c])
         /\ c \notin CodesOf(merged) => Configured(s, h, c) = << >>
<1>1. PICK l : l = LevelsFor(s, h)
  OBVIOUS
<1>2. PICK n \in Nat : n = Len(l) /\ DOMAIN l = 1 .. n /\ \A k \in 1 .. n : l[k] \in Tables
  BY <1>1, LevelsAre
<1>3. merged = MergedTo(l, n)
  BY <1>1, <1>2, MergedIs
<1>4. c \in CodesOf(merged) <=> LevelsWith(l, n, c) # {}
  <2>1. CodesOf(merged) = UNION {CodesOf(l[k]) : k \in 1 .. n}
    BY <1>3 DEF MergedTo, CodesOf
  <2> QED BY <2>1 DEF LevelsWith
<1>5. Configured(s, h, c) = IF LevelsWith(l, n, c) = {} THEN << >> ELSE l[Latest(l, n, c)][c]
  BY <1>1, <1>2 DEF Configured, LevelsWith, Latest
<1>6. ASSUME c \in CodesOf(merged)
      PROVE  /\ merged[c] = Configured(s, h, c) /\ c \in Pad + 1 .. End - 1
             /\ merged[c] # << >> => Sends(c, merged[c])
  <2>1. Latest(l, n, c) \in LevelsWith(l, n, c)
    BY <1>4, <1>6, LatestIs
  <2>2. PICK k \in 1 .. n : k = Latest(l, n, c) /\ c \in CodesOf(l[k])
    BY <2>1 DEF LevelsWith
  <2>3. merged[c] = l[k][c]
    <3>1. c \in UNION {CodesOf(l[j]) : j \in 1 .. n}
      BY <2>2
    <3> QED BY <1>3, <2>2, <3>1 DEF MergedTo
  <2>4. PICK t \in Tables : t = l[k]
    BY <1>2
  <2>5. c \in Pad + 1 .. End - 1 /\ (t[c] # << >> => Sends(c, t[c]))
    BY <2>2, <2>4, TableSends
  <2> QED BY <1>4, <1>5, <1>6, <2>2, <2>3, <2>4, <2>5
<1> QED BY <1>4, <1>5, <1>6

LEMMA DnsSends ==
  ASSUME ConfigOK, NEW s \in ScopeIds, NEW h, NEW merged, merged = MergeOptions(LevelsFor(s, h)),
         DnsValue(s, merged) # << >>
  PROVE  Sends(6, DnsValue(s, merged))
<1>1. \A l \in Lists : l # << >> => Sends(6, l)
  BY ListSends DEF Lists
<1>2. Sends(6, <<ServerIp>>)
  BY OwnSends
<1>3. 6 \in CodesOf(merged) /\ merged[6] # << >> => Sends(6, merged[6])
  BY MergedHas
<1>4. naming.custom \in Lists /\ naming.servers[s] \in Lists
  BY DEF ConfigOK
<1> QED BY <1>1, <1>2, <1>3, <1>4 DEF DnsValue, ValueIn

LEMMA DomainSends ==
  ASSUME ConfigOK, NEW s \in ScopeIds, NEW h, NEW merged, merged = MergeOptions(LevelsFor(s, h)),
         ValueIn(merged, 15, naming.domain) # << >>
  PROVE  Sends(15, ValueIn(merged, 15, naming.domain))
<1>1. 15 \in CodesOf(merged) /\ merged[15] # << >> => Sends(15, merged[15])
  BY MergedHas
<1>2. naming.domain = << >>
  BY DEF ConfigOK
<1> QED BY <1>1, <1>2 DEF ValueIn

LEMMA U32Is == U32(LeaseSeconds) \in FourBytes
<1>1. \A k \in 1 .. 4 : (LeaseSeconds \div Bytes ^ (4 - k)) % Bytes \in 0 .. Bytes - 1
  BY DEF LeaseSeconds, Bytes
<1> QED BY <1>1 DEF U32, FourBytes

\* The options of a reply are those that were computed, and the others of the merged
\* levels; each of them once.
LEMMA BuiltAre ==
  ASSUME ConfigOK, NEW s \in ScopeIds, NEW h, NEW type \in {2, 5},
         NEW merged, merged = MergeOptions(LevelsFor(s, h)), NEW O, O = BuildOptions(type, s, h)
  PROVE  /\ Sendable(O)
         /\ Has(O) =
              {Option(53, <<type>>), Option(54, ServerIp), Option(51, U32(LeaseSeconds)), Option(1, Mask)}
              \union Has(Given(6, DnsValue(s, merged)))
              \union Has(Given(15, ValueIn(merged, 15, naming.domain)))
              \union {Option(c, EncodeOptionValue(c, merged[c])) :
                        c \in {x \in CodesOf(merged) \ Computed : merged[x] # << >>}}
<1> DEFINE fixed == <<Option(53, <<type>>), Option(54, ServerIp),
                      Option(51, U32(LeaseSeconds)), Option(1, Mask)>>
           dns == Given(6, DnsValue(s, merged))
           realm == Given(15, ValueIn(merged, 15, naming.domain))
           codes == {c \in CodesOf(merged) \ Computed : merged[c] # << >>}
           order == SetToSeq(codes)
           rest == [n \in DOMAIN order |-> Option(order[n], EncodeOptionValue(order[n], merged[order[n]]))]
<1>1. O = ((fixed \o dns) \o realm) \o rest
  BY DEF BuildOptions
<1>2. fixed \in Seq(Rows) /\ Sendable(fixed) /\ Has(fixed) = {fixed[1], fixed[2], fixed[3], fixed[4]}
      /\ \A o \in Has(fixed) : o.code \in {53, 54, 51, 1}
  <2>1. <<type>> \in Numbers /\ Len(<<type>>) = 1
    BY DEF Numbers
  <2>2. ServerIp \in Numbers /\ Len(ServerIp) = 4 /\ Mask \in Numbers /\ Len(Mask) = 4
    <3>1. ServerIp \in FourBytes /\ Mask \in FourBytes
      BY ValuesFit
    <3> QED BY <3>1, AddressIs
  <2>3. U32(LeaseSeconds) \in Numbers /\ Len(U32(LeaseSeconds)) = 4
    <3>1. U32(LeaseSeconds) \in FourBytes
      BY U32Is
    <3> QED BY <3>1, AddressIs
  <2>4. PICK a, b, c, d : a = Option(53, <<type>>) /\ b = Option(54, ServerIp)
                          /\ c = Option(51, U32(LeaseSeconds)) /\ d = Option(1, Mask)
    OBVIOUS
  <2>5. /\ a \in Rows /\ a.code = 53 /\ a.data \in Numbers /\ Len(a.data) \in 0 .. Bytes - 1
        /\ b \in Rows /\ b.code = 54 /\ b.data \in Numbers /\ Len(b.data) \in 0 .. Bytes - 1
        /\ c \in Rows /\ c.code = 51 /\ c.data \in Numbers /\ Len(c.data) \in 0 .. Bytes - 1
        /\ d \in Rows /\ d.code = 1 /\ d.data \in Numbers /\ Len(d.data) \in 0 .. Bytes - 1
    <3>1. \A x \in Nat : \A y \in Numbers : /\ Option(x, y) \in Rows
                                           /\ Option(x, y).code = x /\ Option(x, y).data = y
      BY DEF Rows, Option
    <3>2. 1 \in 0 .. Bytes - 1 /\ 4 \in 0 .. Bytes - 1
      BY DEF Bytes
    <3>3. 53 \in Nat /\ 54 \in Nat /\ 51 \in Nat /\ 1 \in Nat
      OBVIOUS
    <3>4. PICK w, x, y, z \in Numbers :
            /\ w = <<type>> /\ x = ServerIp /\ y = U32(LeaseSeconds) /\ z = Mask
            /\ Len(w) = 1 /\ Len(x) = 4 /\ Len(y) = 4 /\ Len(z) = 4
      BY <2>1, <2>2, <2>3
    <3>5. a = Option(53, w) /\ b = Option(54, x) /\ c = Option(51, y) /\ d = Option(1, z)
      BY <2>4, <3>4
    <3>6. a \in Rows /\ a.code = 53 /\ a.data = w
      BY <3>1, <3>3, <3>5
    <3>7. b \in Rows /\ b.code = 54 /\ b.data = x
      BY <3>1, <3>3, <3>5
    <3>8. c \in Rows /\ c.code = 51 /\ c.data = y
      BY <3>1, <3>3, <3>5
    <3>9. d \in Rows /\ d.code = 1 /\ d.data = z
      BY <3>1, <3>3, <3>5
    <3> QED BY <3>2, <3>4, <3>6, <3>7, <3>8, <3>9
  <2>6. fixed = <<a, b, c, d>>
    BY <2>4
  <2> HIDE DEF fixed
  <2>7. /\ fixed \in Seq(Rows) /\ Len(fixed) = 4 /\ DOMAIN fixed = 1 .. 4
        /\ fixed[1] = a /\ fixed[2] = b /\ fixed[3] = c /\ fixed[4] = d
    BY <2>5, <2>6
  <2>8. \A i \in 1 .. 4 : i = 1 \/ i = 2 \/ i = 3 \/ i = 4
    OBVIOUS
  <2>9. 53 \in Pad + 1 .. End - 1 /\ 54 \in Pad + 1 .. End - 1 /\ 51 \in Pad + 1 .. End - 1
        /\ 1 \in Pad + 1 .. End - 1
    BY DEF Pad, End
  <2>10. Sendable(fixed)
    <3>1. \A i, k \in 1 .. 4 : fixed[i].code = fixed[k].code => i = k
      BY <2>5, <2>7, <2>8
    <3>2. \A i \in 1 .. 4 : /\ fixed[i].code \in Pad + 1 .. End - 1
                            /\ fixed[i].data \in Numbers /\ Len(fixed[i].data) \in 0 .. Bytes - 1
      BY <2>5, <2>7, <2>8, <2>9
    <3> QED BY <2>7, <3>1, <3>2 DEF Sendable
  <2>11. Has(fixed) = {a, b, c, d}
    <3>1. 1 \in 1 .. 4 /\ 2 \in 1 .. 4 /\ 3 \in 1 .. 4 /\ 4 \in 1 .. 4
      OBVIOUS
    <3>2. Has(fixed) = {fixed[i] : i \in 1 .. 4}
      BY <2>7 DEF Has
    <3> QED BY <2>7, <2>8, <3>1, <3>2
  <2> QED BY <2>5, <2>7, <2>10, <2>11
<1>3. dns \in Seq(Rows) /\ Sendable(dns) /\ \A o \in Has(dns) : o.code = 6
  <2>1. DnsValue(s, merged) # << >> => Sends(6, DnsValue(s, merged))
    BY DnsSends
  <2>2. 6 \in Pad + 1 .. End - 1
    BY DEF Pad, End
  <2> QED BY <2>1, <2>2, GivenIs
<1>4. realm \in Seq(Rows) /\ Sendable(realm) /\ \A o \in Has(realm) : o.code = 15
  <2>1. ValueIn(merged, 15, naming.domain) # << >> => Sends(15, ValueIn(merged, 15, naming.domain))
    BY DomainSends
  <2>2. 15 \in Pad + 1 .. End - 1
    BY DEF Pad, End
  <2> QED BY <2>1, <2>2, GivenIs
<1>5. \A c \in codes : c \in Pad + 1 .. End - 1 /\ c \notin Computed /\ Sends(c, merged[c])
  BY MergedHas
<1>6. IsFiniteSet(codes)
  <2>1. PICK a \in Int, b \in Int : a = Pad + 1 /\ b = End - 1
    BY DEF Pad, End
  <2>2. IsFiniteSet(a .. b)
    BY FS_Interval
  <2>3. codes \subseteq a .. b
    <3>1. ASSUME NEW c \in codes PROVE c \in a .. b
      BY <1>5, <2>1
    <3> HIDE DEF codes
    <3> QED BY <3>1
  <2> HIDE DEF codes
  <2> QED BY <2>2, <2>3, FS_Subset
<1> HIDE DEF codes
<1>7. PICK n \in Nat :
        /\ order \in [1 .. n -> codes]
        /\ \A i, k \in 1 .. n : order[i] = order[k] => i = k
        /\ \A x \in codes : \E i \in 1 .. n : order[i] = x
  BY <1>6, SetToSeqIs
<1> HIDE DEF order
<1>8. ASSUME NEW i \in 1 .. n
      PROVE  /\ order[i] \in codes
             /\ rest[i] = Option(order[i], EncodeOptionValue(order[i], merged[order[i]]))
             /\ rest[i] \in Rows /\ rest[i].code = order[i] /\ rest[i].code \in Pad + 1 .. End - 1
             /\ rest[i].data \in Numbers /\ Len(rest[i].data) \in 0 .. Bytes - 1
  <2>1. order[i] \in codes /\ rest[i] = Option(order[i], EncodeOptionValue(order[i], merged[order[i]]))
    BY <1>7
  <2> HIDE DEF rest
  <2>2. PICK c \in Pad + 1 .. End - 1, v \in Numbers :
          c = order[i] /\ v = EncodeOptionValue(order[i], merged[order[i]]) /\ Len(v) \in 0 .. Bytes - 1
    BY <1>5, <2>1 DEF Sends
  <2>3. rest[i] = [code |-> c, data |-> v]
    BY <2>1, <2>2 DEF Option
  <2>4. rest[i].code = c /\ rest[i].data = v
    BY <2>3
  <2>5. rest[i] \in Rows
    <3>1. c \in Nat
      BY DEF Pad, End
    <3> QED BY <2>1, <2>2, <3>1 DEF Rows
  <2> QED BY <2>1, <2>2, <2>4, <2>5
<1>9. rest = [i \in 1 .. n |-> rest[i]]
  BY <1>7
<1> HIDE DEF rest
<1>10. rest \in Seq(Rows) /\ Len(rest) = n /\ DOMAIN rest = 1 .. n
  BY <1>8, <1>9
<1>11. Sendable(rest)
  <2>1. \A i, k \in 1 .. n : rest[i].code = rest[k].code => i = k
    BY <1>7, <1>8
  <2> QED BY <1>8, <1>10, <2>1 DEF Sendable
<1>12. Has(rest) = {Option(c, EncodeOptionValue(c, merged[c])) : c \in codes}
  <2>1. Has(rest) = {rest[i] : i \in 1 .. n}
    BY <1>10 DEF Has
  <2>2. ASSUME NEW o \in Has(rest)
        PROVE  o \in {Option(c, EncodeOptionValue(c, merged[c])) : c \in codes}
    <3>1. PICK i \in 1 .. n : o = rest[i]
      BY <2>1
    <3> QED BY <1>8, <3>1
  <2>3. ASSUME NEW c \in codes PROVE Option(c, EncodeOptionValue(c, merged[c])) \in Has(rest)
    <3>1. PICK i \in 1 .. n : order[i] = c
      BY <1>7
    <3> QED BY <1>8, <2>1, <3>1
  <2> QED BY <2>2, <2>3
<1>13. \A o \in Has(rest) : o.code \notin Computed
  <2>1. ASSUME NEW o \in Has(rest) PROVE o.code \notin Computed
    <3>1. PICK i \in 1 .. n : o = rest[i]
      BY <1>10 DEF Has
    <3> QED BY <1>5, <1>8, <3>1
  <2> QED BY <2>1
<1> HIDE DEF fixed, dns, realm
<1>14. fixed \o dns \in Seq(Rows) /\ Sendable(fixed \o dns) /\ Has(fixed \o dns) = Has(fixed) \union Has(dns)
  <2>1. \A x \in Has(fixed) : \A y \in Has(dns) : x.code # y.code
    BY <1>2, <1>3
  <2> QED BY <1>2, <1>3, <2>1, BothSent
<1>15. PICK p : p = fixed \o dns
  OBVIOUS
<1>16. p \o realm \in Seq(Rows) /\ Sendable(p \o realm)
       /\ Has(p \o realm) = Has(fixed) \union Has(dns) \union Has(realm)
  <2>1. ASSUME NEW x \in Has(p), NEW y \in Has(realm) PROVE x.code # y.code
    <3>1. x \in Has(fixed) \/ x \in Has(dns)
      BY <1>14, <1>15
    <3>2. x.code # 15
      BY <1>2, <1>3, <3>1, SMTT(20)
    <3> QED BY <1>4, <3>2
  <2> QED BY <1>4, <1>14, <1>15, <2>1, BothSent
<1>17. PICK q : q = p \o realm
  OBVIOUS
<1>18. Sendable(q \o rest)
       /\ Has(q \o rest) = Has(fixed) \union Has(dns) \union Has(realm) \union Has(rest)
  <2>1. \A x \in Has(q) : x.code \in Computed
    BY <1>2, <1>3, <1>4, <1>16, <1>17 DEF Computed
  <2>2. \A x \in Has(q) : \A y \in Has(rest) : x.code # y.code
    BY <1>13, <2>1
  <2> QED BY <1>10, <1>11, <1>16, <1>17, <2>2, BothSent
<1>19. O = q \o rest
  BY <1>1, <1>15, <1>17
<1>20. Has(fixed) = {Option(53, <<type>>), Option(54, ServerIp), Option(51, U32(LeaseSeconds)), Option(1, Mask)}
  <2>1. /\ fixed[1] = Option(53, <<type>>) /\ fixed[2] = Option(54, ServerIp)
        /\ fixed[3] = Option(51, U32(LeaseSeconds)) /\ fixed[4] = Option(1, Mask)
    BY DEF fixed
  <2> QED BY <1>2, <2>1
<1> QED BY <1>12, <1>18, <1>19, <1>20 DEF codes, dns, realm

\* What is read of a reply is what was put into it, and no more.
LEMMA ReadIs ==
  ASSUME NEW O, Sendable(O), NEW got, got = Decode(EncodeReply(O))
  PROVE  /\ \A o \in Has(O) : o.code \in DOMAIN got /\ got[o.code] = o.data
         /\ \A c \in DOMAIN got : \E o \in Has(O) : o.code = c
<1>1. PICK n \in Nat : n = Len(O)
  BY DEF Sendable
<1>2. got = Table(O, n)
  BY <1>1, DecodeIs
<1>3. n \in 0 .. Len(O)
  BY <1>1
<1>4. DOMAIN got = {O[i].code : i \in 1 .. n} /\ \A i \in 1 .. n : got[O[i].code] = O[i].data
  BY <1>2, <1>3, TableIs
<1> QED BY <1>1, <1>4 DEF Has

LEMMA PoliciesAre ==
  ASSUME NEW q \in Seq(Policies)
  PROVE  /\ Len(q) \in Nat /\ DOMAIN q = 1 .. Len(q)
         /\ \A n \in 1 .. Len(q) : DOMAIN q[n] = {"scope", "on", "hosts", "options"}
                                   /\ q[n].options \in Tables
<1>1. Len(q) \in Nat /\ DOMAIN q = 1 .. Len(q) /\ \A n \in 1 .. Len(q) : q[n] \in Policies
  OBVIOUS
<1>2. \A p \in Policies : DOMAIN p = {"scope", "on", "hosts", "options"} /\ p.options \in Tables
  BY DEF Policies
<1> QED BY <1>1, <1>2

\* An answer is one to a client of a scope, with the options that are configured.
AnswerOK ==
  \E type \in {2, 5, 6}, s \in ScopeIds, h \in Hosts :
    /\ answer.type = type /\ answer.scope = s /\ answer.host = h
    /\ answer.via # Direct => s = answer.via
    /\ type # 6 => answer.datagram = EncodeReply(BuildOptions(type, s, h))

RepliesInv == ConfigOK /\ (answer # NoAnswer => AnswerOK)

LEMMA RepliesInitInv == RepliesInit => RepliesInv
<1> SUFFICES ASSUME RepliesInit PROVE RepliesInv
  OBVIOUS
<1> USE DEF RepliesInit
<1>1. << >> \in Tables /\ << >> \in Lists
  BY DEF Tables, Lists
<1>2. << >> \in Seq(Policies)
  OBVIOUS
<1>3. levels.policies = << >> /\ Len(<< >>) = 0 /\ DOMAIN << >> = 1 .. 0
  OBVIOUS
<1>4. \A n \in 1 .. 0 : FALSE
  OBVIOUS
<1>5. DOMAIN levels = {"server", "scope", "reservation", "policies"}
  OBVIOUS
<1>6. levels.server \in Tables /\ levels.reservation.options \in Tables
  BY <1>1 DEF NoReservation
<1>7. DOMAIN levels.scope = ScopeIds
      /\ \A s \in ScopeIds : DOMAIN levels.scope[s] = {"on", "options"} /\ levels.scope[s].options \in Tables
  BY <1>1
<1>8. /\ DOMAIN naming = {"own", "custom", "domain", "mode", "servers"}
      /\ naming.custom \in Lists /\ naming.domain = << >>
      /\ DOMAIN naming.servers = ScopeIds /\ \A s \in ScopeIds : naming.servers[s] \in Lists
  BY <1>1
<1>9. answer = NoAnswer
  OBVIOUS
<1>10. levels.policies \in Seq(Policies) /\ Len(levels.policies) \in Nat
       /\ DOMAIN levels.policies = 1 .. Len(levels.policies)
       /\ \A n \in 1 .. Len(levels.policies) : FALSE
  <2>1. levels.policies \in Seq(Policies) /\ Len(levels.policies) = 0
        /\ DOMAIN levels.policies = 1 .. 0
    BY <1>2, <1>3
  <2> QED BY <1>4, <2>1
<1> QED BY <1>5, <1>6, <1>7, <1>8, <1>9, <1>10 DEF RepliesInv, ConfigOK

LEMMA AskKeeps ==
  ASSUME RepliesInv, NEW h \in Hosts, NEW via \in ScopeIds \union {Direct}, NEW m \in DOMAIN MSG,
         Ask(h, via, MSG[m])
  PROVE  RepliesInv'
<1>1. PICK s \in PickScope(via) :
        answer' = [host |-> h, via |-> via, scope |-> s, type |-> MSG[m],
                   datagram |-> EncodeReply(IF MSG[m] = MSG.nak
                                  THEN <<Option(53, <<MSG[m]>>), Option(54, ServerIp)>>
                                  ELSE BuildOptions(MSG[m], s, h))]
  BY DEF Ask
<1>2. MSG[m] \in {2, 5, 6} /\ MSG.nak = 6
  BY DEF MSG
<1>3. s \in ScopeIds /\ (via # Direct => s = via)
  BY DEF PickScope
<1>4. levels' = levels /\ naming' = naming
  BY DEF Ask
<1>5. ConfigOK'
  BY <1>4 DEF RepliesInv, ConfigOK
<1>6. BuildOptions(MSG[m], s, h)' = BuildOptions(MSG[m], s, h)
  BY <1>4 DEF BuildOptions, LevelsFor, DnsValue
<1>7. /\ answer'.type = MSG[m] /\ answer'.scope = s /\ answer'.via = via /\ answer'.host = h
      /\ MSG[m] # 6 => answer'.datagram = EncodeReply(BuildOptions(MSG[m], s, h))
  BY <1>1, <1>2
<1>8. AnswerOK'
  <2>1. PICK type \in {2, 5, 6} : type = MSG[m]
    BY <1>2
  <2>2. /\ answer'.type = type /\ answer'.scope = s /\ answer'.host = h
        /\ answer'.via # Direct => s = answer'.via
        /\ type # 6 => answer'.datagram = EncodeReply(BuildOptions(type, s, h)')
    BY <1>3, <1>6, <1>7, <2>1
  <2> QED BY <1>3, <2>2 DEF AnswerOK
<1> QED BY <1>5, <1>8 DEF RepliesInv

LEMMA SetLevelsKeeps ==
  ASSUME RepliesInv, SetLevels PROVE RepliesInv'
<1> USE DEF RepliesInv, ConfigOK
<1>1. answer' = NoAnswer /\ naming' = naming
  BY DEF SetLevels, Edit
<1>2. PICK options \in OptionSets :
        \/ levels' = [levels EXCEPT !.server = options]
        \/ \E s \in ScopeIds : levels' = [levels EXCEPT !.scope[s].options = options]
        \/ \E h \in Hosts : levels' = [levels EXCEPT !.reservation = [host |-> h, options |-> options]]
        \/ \E s \in ScopeIds, hosts \in (SUBSET Hosts) \ {{}} :
             levels' = [levels EXCEPT !.policies =
                          Append(@, [scope |-> s, on |-> TRUE, hosts |-> hosts, options |-> options])]
  BY DEF SetLevels
<1>3. options \in Tables
  BY DEF Tables
<1>4. CASE levels' = [levels EXCEPT !.server = options]
  BY <1>1, <1>3, <1>4
<1>5. ASSUME NEW s \in ScopeIds, levels' = [levels EXCEPT !.scope[s].options = options]
      PROVE  RepliesInv'
  <2>1. DOMAIN levels' = DOMAIN levels /\ levels'.server = levels.server
        /\ levels'.reservation = levels.reservation /\ levels'.policies = levels.policies
        /\ levels'.scope = [levels.scope EXCEPT ![s].options = options]
    BY <1>5
  <2>2. DOMAIN levels'.scope = ScopeIds
        /\ \A t \in ScopeIds : DOMAIN levels'.scope[t] = {"on", "options"}
                               /\ levels'.scope[t].options \in Tables
    BY <1>3, <2>1
  <2> QED BY <1>1, <2>1, <2>2
<1>6. ASSUME NEW h \in Hosts, levels' = [levels EXCEPT !.reservation = [host |-> h, options |-> options]]
      PROVE  RepliesInv'
  BY <1>1, <1>3, <1>6
<1>7. ASSUME NEW s \in ScopeIds, NEW hosts \in (SUBSET Hosts) \ {{}},
             levels' = [levels EXCEPT !.policies =
                          Append(@, [scope |-> s, on |-> TRUE, hosts |-> hosts, options |-> options])]
      PROVE  RepliesInv'
  <2>1. [scope |-> s, on |-> TRUE, hosts |-> hosts, options |-> options] \in Policies
    BY <1>3 DEF Policies
  <2>5. PICK q0 \in Seq(Policies), p \in Policies :
          q0 = levels.policies /\ p = [scope |-> s, on |-> TRUE, hosts |-> hosts, options |-> options]
    BY <2>1
  <2>6. levels'.policies = Append(q0, p)
    BY <1>7, <2>5
  <2>7. Append(q0, p) \in Seq(Policies)
    OBVIOUS
  <2>2. PICK q \in Seq(Policies) : levels'.policies = q
    BY <2>6, <2>7
  <2>3. DOMAIN levels' = DOMAIN levels /\ levels'.server = levels.server
        /\ levels'.reservation = levels.reservation /\ levels'.scope = levels.scope
    BY <1>7
  <2>4. /\ Len(q) \in Nat /\ DOMAIN q = 1 .. Len(q)
        /\ \A n \in 1 .. Len(q) : DOMAIN q[n] = {"scope", "on", "hosts", "options"}
                                  /\ q[n].options \in Tables
    BY PoliciesAre
  <2> QED BY <1>1, <2>2, <2>3, <2>4
<1> QED BY <1>2, <1>4, <1>5, <1>6, <1>7

LEMMA SwitchKeeps ==
  ASSUME RepliesInv, Switch PROVE RepliesInv'
<1> USE DEF RepliesInv, ConfigOK
<1>1. answer' = NoAnswer /\ naming' = naming
  BY DEF Switch, Edit
<1>2. ASSUME NEW s \in ScopeIds, levels' = [levels EXCEPT !.scope[s].on = ~@]
      PROVE  RepliesInv'
  <2>1. DOMAIN levels' = DOMAIN levels /\ levels'.server = levels.server
        /\ levels'.reservation = levels.reservation /\ levels'.policies = levels.policies
        /\ levels'.scope = [levels.scope EXCEPT ![s].on = ~@]
    BY <1>2
  <2>2. DOMAIN levels'.scope = ScopeIds
        /\ \A t \in ScopeIds : DOMAIN levels'.scope[t] = {"on", "options"}
                               /\ levels'.scope[t].options \in Tables
    BY <2>1
  <2> QED BY <1>1, <2>1, <2>2
<1>3. ASSUME NEW n \in DOMAIN levels.policies, levels' = [levels EXCEPT !.policies[n].on = ~@]
      PROVE  RepliesInv'
  <2>1. DOMAIN levels' = DOMAIN levels /\ levels'.server = levels.server
        /\ levels'.reservation = levels.reservation /\ levels'.scope = levels.scope
        /\ levels'.policies = [levels.policies EXCEPT ![n].on = ~@]
    BY <1>3
  <2>2. PICK q \in Seq(Policies) : q = levels.policies /\ n \in 1 .. Len(q)
    OBVIOUS
  <2>3. PICK p : p = [q[n] EXCEPT !.on = ~@]
    OBVIOUS
  <2>4. p \in Policies
    <3>1. PICK sc \in ScopeIds, on \in BOOLEAN, hosts \in SUBSET Hosts, options \in Tables :
            q[n] = [scope |-> sc, on |-> on, hosts |-> hosts, options |-> options]
      <4>1. q[n] \in Policies
        BY <2>2
      <4> QED BY <4>1 DEF Policies
    <3>2. p = [scope |-> sc, on |-> ~on, hosts |-> hosts, options |-> options]
      BY <2>3, <3>1
    <3> QED BY <3>2 DEF Policies
  <2>5. [q EXCEPT ![n].on = ~@] = [q EXCEPT ![n] = p]
    BY <2>3
  <2>6. PICK r \in Seq(Policies) : r = levels'.policies
    <3>1. [q EXCEPT ![n] = p] \in Seq(Policies)
      BY <2>2, <2>4
    <3>2. levels'.policies = [q EXCEPT ![n] = p]
      BY <2>1, <2>2, <2>5
    <3> QED BY <3>1, <3>2
  <2>7. /\ Len(r) \in Nat /\ DOMAIN r = 1 .. Len(r)
        /\ \A k \in 1 .. Len(r) : DOMAIN r[k] = {"scope", "on", "hosts", "options"}
                                  /\ r[k].options \in Tables
    BY PoliciesAre
  <2> QED BY <1>1, <2>1, <2>6, <2>7
<1> QED BY <1>2, <1>3 DEF Switch

LEMMA RepliesStay == RepliesInv /\ [RepliesNext]_replyVars => RepliesInv'
<1> SUFFICES ASSUME RepliesInv, [RepliesNext]_replyVars PROVE RepliesInv'
  OBVIOUS
<1>1. ASSUME NEW h \in Hosts, NEW via \in ScopeIds \union {Direct}, NEW m \in DOMAIN MSG,
             Ask(h, via, MSG[m])
      PROVE  RepliesInv'
  BY <1>1, AskKeeps
<1>2. CASE SetLevels
  BY <1>2, SetLevelsKeeps
<1>3. CASE Switch
  BY <1>3, SwitchKeeps
<1>4. CASE SetNaming
  <2>1. answer' = NoAnswer /\ levels' = levels
    BY <1>4 DEF SetNaming, Edit
  <2>2. \A l \in DnsLists : l \in Lists
    BY DEF Lists
  <2>3. /\ DOMAIN naming' = {"own", "custom", "domain", "mode", "servers"}
        /\ naming'.custom \in Lists /\ naming'.domain = << >>
        /\ DOMAIN naming'.servers = ScopeIds /\ \A s \in ScopeIds : naming'.servers[s] \in Lists
    <3>1. CASE naming' = [naming EXCEPT !.own = ~@]
      BY <3>1 DEF RepliesInv, ConfigOK
    <3>2. ASSUME NEW l \in DnsLists, naming' = [naming EXCEPT !.custom = l]
          PROVE  <2>3!:
      BY <2>2, <3>2 DEF RepliesInv, ConfigOK
    <3>3. ASSUME NEW s \in ScopeIds, NEW m \in {"inherit", "nexrelm", "custom"}, NEW l \in DnsLists,
                 naming' = [naming EXCEPT !.mode[s] = m, !.servers[s] = l]
          PROVE  <2>3!:
      BY <2>2, <3>3 DEF RepliesInv, ConfigOK
    <3> QED BY <1>4, <3>1, <3>2, <3>3 DEF SetNaming
  <2> QED BY <2>1, <2>3 DEF RepliesInv, ConfigOK
<1>5. CASE SetFilters
  BY <1>5 DEF SetFilters, Edit, RepliesInv, ConfigOK
<1>6. CASE UNCHANGED replyVars
  <2>1. levels' = levels /\ naming' = naming /\ answer' = answer
    BY <1>6 DEF replyVars
  <2>2. ConfigOK'
    BY <2>1 DEF RepliesInv, ConfigOK
  <2>3. \A type, s, h : BuildOptions(type, s, h)' = BuildOptions(type, s, h)
    BY <2>1 DEF BuildOptions, LevelsFor, DnsValue
  <2>4. AnswerOK => AnswerOK'
    BY <2>1, <2>3 DEF AnswerOK
  <2> QED BY <2>1, <2>2, <2>4 DEF RepliesInv
<1> QED BY <1>1, <1>2, <1>3, <1>4, <1>5, <1>6 DEF RepliesNext

\* What is read from a reply is what is configured.
LEMMA RepliesAreMeant == RepliesInv => ReadAsConfigured
<1> SUFFICES ASSUME RepliesInv, answer # NoAnswer, answer.type # MSG.nak PROVE ReadAsConfigured
  BY DEF ReadAsConfigured
<1>0. AnswerOK /\ MSG.nak = 6
  BY DEF RepliesInv, MSG
<1>30. PICK type \in {2, 5, 6}, s \in ScopeIds, h \in Hosts :
         /\ answer.type = type /\ answer.scope = s /\ answer.host = h
         /\ answer.via # Direct => s = answer.via
         /\ type # 6 => answer.datagram = EncodeReply(BuildOptions(type, s, h))
  BY <1>0 DEF AnswerOK
<1>31. type \in {2, 5}
  BY <1>0, <1>30
<1>1. /\ s = answer.scope /\ h = answer.host /\ type = answer.type
      /\ answer.via # Direct => s = answer.via
      /\ answer.datagram = EncodeReply(BuildOptions(type, s, h))
  BY <1>30, <1>31
<1>2. ConfigOK
  BY DEF RepliesInv
<1>3. PICK merged, O : merged = MergeOptions(LevelsFor(s, h)) /\ O = BuildOptions(type, s, h)
  OBVIOUS
<1> DEFINE Main == {Option(53, <<type>>), Option(54, ServerIp), Option(51, U32(LeaseSeconds)), Option(1, Mask)}
           Others == {Option(c, EncodeOptionValue(c, merged[c])) :
                        c \in {x \in CodesOf(merged) \ Computed : merged[x] # << >>}}
           Names == Has(Given(6, DnsValue(s, merged)))
           Domain_ == Has(Given(15, ValueIn(merged, 15, naming.domain)))
<1>4. Sendable(O) /\ Has(O) = Main \union Names \union Domain_ \union Others
  BY <1>2, <1>3, <1>31, BuiltAre
<1>5. PICK got : got = Decode(answer.datagram)
  OBVIOUS
<1>6. /\ \A o \in Has(O) : o.code \in DOMAIN got /\ got[o.code] = o.data
      /\ \A c \in DOMAIN got : \E o \in Has(O) : o.code = c
  BY <1>1, <1>3, <1>4, <1>5, ReadIs
<1>7. \A c, d : Option(c, d).code = c /\ Option(c, d).data = d
  BY DEF Option
<1>8. \A o \in Main : o.code \in {53, 54, 51, 1}
  BY <1>7
<1>9. /\ DnsValue(s, merged) = << >> => Names = {}
      /\ DnsValue(s, merged) # << >> => Names = {Option(6, EncodeOptionValue(6, DnsValue(s, merged)))}
  <2>1. CASE DnsValue(s, merged) = << >>
    BY <2>1, NoneSent DEF Given
  <2>2. CASE DnsValue(s, merged) # << >>
    <3>1. Sends(6, DnsValue(s, merged))
      BY <1>2, <1>3, <2>2, DnsSends
    <3>2. 6 \in Pad + 1 .. End - 1
      BY DEF Pad, End
    <3>3. PICK d \in Numbers : d = EncodeOptionValue(6, DnsValue(s, merged)) /\ Len(d) \in 0 .. Bytes - 1
      BY <3>1 DEF Sends
    <3>4. Has(<<Option(6, d)>>) = {Option(6, d)}
      BY <3>2, <3>3, OneSent
    <3> QED BY <2>2, <3>3, <3>4 DEF Given
  <2> QED BY <2>1, <2>2
<1>10. \A o \in Domain_ : o.code = 15
  <2>1. CASE ValueIn(merged, 15, naming.domain) = << >>
    BY <2>1, NoneSent DEF Given
  <2>2. CASE ValueIn(merged, 15, naming.domain) # << >>
    <3>1. Sends(15, ValueIn(merged, 15, naming.domain))
      BY <1>2, <1>3, <2>2, DomainSends
    <3>2. 15 \in Pad + 1 .. End - 1
      BY DEF Pad, End
    <3>3. PICK d \in Numbers : d = EncodeOptionValue(15, ValueIn(merged, 15, naming.domain))
                               /\ Len(d) \in 0 .. Bytes - 1
      BY <3>1 DEF Sends
    <3>4. Has(<<Option(15, d)>>) = {Option(15, d)}
      BY <3>2, <3>3, OneSent
    <3> QED BY <1>7, <2>2, <3>3, <3>4 DEF Given
  <2> QED BY <2>1, <2>2
<1>11. \A o \in Names : o.code = 6
  BY <1>7, <1>9
<1>12. \A o \in Others : o.code \in CodesOf(merged) \ Computed /\ merged[o.code] # << >>
                        /\ o.data = EncodeOptionValue(o.code, merged[o.code])
  BY <1>7
<1>13. ASSUME NEW c \in CodesOf(merged) \ Computed, merged[c] # << >>
       PROVE  Option(c, EncodeOptionValue(c, merged[c])) \in Others
  BY <1>13
<1> HIDE DEF Main, Names, Domain_, Others
<1> DEFINE Reads(code, value) == IF value = << >> THEN code \notin DOMAIN got
                                 ELSE code \in DOMAIN got /\ got[code] = EncodeOptionValue(code, value)
<1>14. ASSUME NEW c, c \notin Computed
       PROVE  Reads(c, Configured(s, h, c))
  <2>1. /\ c \in CodesOf(merged) => merged[c] = Configured(s, h, c)
        /\ c \notin CodesOf(merged) => Configured(s, h, c) = << >>
    BY <1>2, <1>3, MergedHas
  <2>2. CASE Configured(s, h, c) # << >>
    <3>1. c \in CodesOf(merged) \ Computed /\ merged[c] # << >> /\ merged[c] = Configured(s, h, c)
      BY <1>14, <2>1, <2>2
    <3>2. PICK o : o = Option(c, EncodeOptionValue(c, merged[c]))
      OBVIOUS
    <3>3. o \in Has(O) /\ o.code = c /\ o.data = EncodeOptionValue(c, Configured(s, h, c))
      BY <1>4, <1>7, <1>13, <3>1, <3>2
    <3> QED BY <1>6, <2>2, <3>3
  <2>3. CASE Configured(s, h, c) = << >>
    <3>1. ASSUME c \in DOMAIN got PROVE FALSE
      <4>1. PICK o \in Has(O) : o.code = c
        BY <1>6, <3>1
      <4>2. o \in Others
        BY <1>4, <1>8, <1>10, <1>11, <1>14, <4>1 DEF Computed
      <4> QED BY <1>12, <2>1, <2>3, <4>1, <4>2
    <3> QED BY <2>3, <3>1
  <2> QED BY <2>2, <2>3
<1>15. Reads(6, DnsValue(s, merged))
  <2>1. CASE DnsValue(s, merged) # << >>
    <3>1. PICK o : o = Option(6, EncodeOptionValue(6, DnsValue(s, merged)))
      OBVIOUS
    <3>2. o \in Has(O) /\ o.code = 6 /\ o.data = EncodeOptionValue(6, DnsValue(s, merged))
      BY <1>4, <1>7, <1>9, <2>1, <3>1
    <3> QED BY <1>6, <2>1, <3>2
  <2>2. CASE DnsValue(s, merged) = << >>
    <3>1. ASSUME 6 \in DOMAIN got PROVE FALSE
      <4>1. PICK o \in Has(O) : o.code = 6
        BY <1>6, <3>1
      <4> QED BY <1>4, <1>8, <1>9, <1>10, <1>12, <2>2, <4>1 DEF Computed
    <3> QED BY <2>2, <3>1
  <2> QED BY <2>1, <2>2
<1>16. got[53] = <<type>> /\ got[54] = ServerIp
  <2>1. Option(53, <<type>>) \in Has(O) /\ Option(54, ServerIp) \in Has(O)
    BY <1>4 DEF Main
  <2> QED BY <1>6, <1>7, <2>1
<1>17. naming.mode[s] = "nexrelm" => Reads(6, <<ServerIp>>)
  BY <1>15 DEF DnsValue
<1>18. naming.mode[s] = "custom" => Reads(6, naming.servers[s])
  BY <1>15 DEF DnsValue
<1>19. naming.mode[s] = "inherit" /\ ~naming.own /\ Configured(s, h, 6) # << >> =>
         Reads(6, Configured(s, h, 6))
  <2>1. /\ 6 \in CodesOf(merged) => merged[6] = Configured(s, h, 6)
        /\ 6 \notin CodesOf(merged) => Configured(s, h, 6) = << >>
    BY <1>2, <1>3, MergedHas
  <2>2. naming.mode[s] = "inherit" /\ ~naming.own /\ Configured(s, h, 6) # << >> =>
          DnsValue(s, merged) = Configured(s, h, 6)
    BY <2>1 DEF DnsValue, ValueIn
  <2> QED BY <1>15, <2>2
<1>20. \A c \in (UNION {CodesOf(t) : t \in OptionSets}) \ Computed :
         Reads(c, Configured(answer.scope, answer.host, c))
  BY <1>1, <1>14
<1>21. /\ naming.mode[answer.scope] = "nexrelm" => Reads(6, <<ServerIp>>)
       /\ naming.mode[answer.scope] = "custom" => Reads(6, naming.servers[answer.scope])
       /\ naming.mode[answer.scope] = "inherit" /\ ~naming.own
            /\ Configured(answer.scope, answer.host, 6) # << >> =>
              Reads(6, Configured(answer.scope, answer.host, 6))
  BY <1>1, <1>17, <1>18, <1>19
<1>22. (answer.via # Direct => answer.scope = answer.via) /\ got[53] = <<answer.type>> /\ got[54] = ServerIp
  BY <1>1, <1>16
<1> QED BY <1>5, <1>20, <1>21, <1>22 DEF ReadAsConfigured

-----------------------------------------------------------------------------
(* The probes.                                                             *)

ProbeRow == [socket : {"none", "bound", "closed"}, timer : BOOLEAN, seen : SUBSET Servers]

\* Their timers run out in the order they began, and a socket is closed when its timer
\* has run out; what a probe has seen was offered to it; and once the last one begun
\* has ended, the result is its own.
ProbesInv ==
  /\ probing \in [Probes -> ProbeRow]
  /\ begun \in Seq(Probes) /\ offers \subseteq Probes \X Servers
  /\ \A i, k \in 1 .. Len(begun) : begun[i] = begun[k] => i = k
  /\ \A p \in Probes : \A s \in probing[p].seen : <<p, s>> \in offers
  /\ \A p \in Probes : probing[p].socket = "bound" => probing[p].timer
  /\ \A p \in Probes : probing[p].timer => \E i \in 1 .. Len(begun) : begun[i] = p
  /\ \A i, k \in 1 .. Len(begun) : i < k /\ probing[begun[i]].timer => probing[begun[k]].timer
  /\ lastProbe \in {NoProbe} \union [by : Probes, servers : SUBSET Servers]
  /\ lastProbe # NoProbe => \A s \in lastProbe.servers : <<lastProbe.by, s>> \in offers
  /\ Len(begun) # 0 /\ ~probing[begun[Len(begun)]].timer =>
       lastProbe # NoProbe /\ lastProbe.by = begun[Len(begun)]

LEMMA ProbesInitInv == ProbesInit => ProbesInv
BY DEF ProbesInit, ProbesInv, NoProbe, ProbeRow

\* A row that is changed.
LEMMA RowIs ==
  ASSUME NEW row \in ProbeRow
  PROVE  /\ row.socket \in {"none", "bound", "closed"} /\ row.timer \in BOOLEAN
         /\ row.seen \in SUBSET Servers
         /\ row = [socket |-> row.socket, timer |-> row.timer, seen |-> row.seen]
<1>1. row.socket \in {"none", "bound", "closed"}
  BY DEF ProbeRow
<1>2. row.timer \in BOOLEAN
  BY DEF ProbeRow
<1>3. row.seen \in SUBSET Servers
  BY DEF ProbeRow
<1>4. row = [socket |-> row.socket, timer |-> row.timer, seen |-> row.seen]
  BY DEF ProbeRow
<1> QED BY <1>1, <1>2, <1>3, <1>4

LEMMA RowMade ==
  ASSUME NEW a \in {"none", "bound", "closed"}, NEW b \in BOOLEAN, NEW c \in SUBSET Servers
  PROVE  [socket |-> a, timer |-> b, seen |-> c] \in ProbeRow
BY DEF ProbeRow

LEMMA RowEnded ==
  ASSUME NEW row \in ProbeRow, NEW a \in {"none", "bound", "closed"}, NEW b \in BOOLEAN
  PROVE  [row EXCEPT !.socket = a, !.timer = b] = [socket |-> a, timer |-> b, seen |-> row.seen]
<1>1. PICK x, y, z : row = [socket |-> x, timer |-> y, seen |-> z]
  BY RowIs
<1>2. row.seen = z
  BY <1>1
<1>3. [[socket |-> x, timer |-> y, seen |-> z] EXCEPT !.socket = a]
        = [socket |-> a, timer |-> y, seen |-> z]
  OBVIOUS
<1>4. [[socket |-> a, timer |-> y, seen |-> z] EXCEPT !.timer = b]
        = [socket |-> a, timer |-> b, seen |-> z]
  OBVIOUS
<1>5. [[socket |-> x, timer |-> y, seen |-> z] EXCEPT !.socket = a, !.timer = b]
        = [socket |-> a, timer |-> b, seen |-> z]
  BY <1>3, <1>4
<1> QED BY <1>1, <1>2, <1>5

LEMMA RowHeard ==
  ASSUME NEW row \in ProbeRow, NEW c \in SUBSET Servers
  PROVE  [row EXCEPT !.seen = c] = [socket |-> row.socket, timer |-> row.timer, seen |-> c]
<1>1. PICK x, y, z : row = [socket |-> x, timer |-> y, seen |-> z]
  BY RowIs
<1>2. row.socket = x /\ row.timer = y
  BY <1>1
<1>3. [[socket |-> x, timer |-> y, seen |-> z] EXCEPT !.seen = c]
        = [socket |-> x, timer |-> y, seen |-> c]
  OBVIOUS
<1> QED BY <1>1, <1>2, <1>3

LEMMA BeginsKeeps ==
  ASSUME ProbesInv, NEW p \in Probes, ProbeBegins(p)
  PROVE  ProbesInv'
<1> DEFINE n == Len(begun)
           row == [probing[p] EXCEPT !.socket = "bound", !.timer = TRUE]
<1>1. n \in Nat /\ probing[p].seen \in SUBSET Servers
  BY DEF ProbesInv, ProbeRow
<1>2. \A i \in 1 .. n : begun[i] # p /\ begun[i] \in Probes
  BY DEF ProbeBegins, ToSet, ProbesInv
<1>3. /\ begun' \in Seq(Probes) /\ Len(begun') = n + 1 /\ begun'[n + 1] = p
      /\ \A i \in 1 .. n : begun'[i] = begun[i]
  BY DEF ProbeBegins, ProbesInv
<1>4. row \in ProbeRow
      /\ row.socket = "bound" /\ row.timer = TRUE /\ row.seen = probing[p].seen
  <2>1. probing[p] \in ProbeRow
    BY DEF ProbesInv
  <2>2. row = [socket |-> "bound", timer |-> TRUE, seen |-> probing[p].seen]
    BY <2>1, RowEnded
  <2> HIDE DEF row
  <2>3. row \in ProbeRow
    BY <2>1, <2>2, RowIs, RowMade
  <2> QED BY <2>2, <2>3
<1>5. probing' = [probing EXCEPT ![p] = row]
  BY DEF ProbeBegins, ProbesInv
<1> HIDE DEF row
<1>6. /\ probing' \in [Probes -> ProbeRow]
      /\ probing'[p] = row /\ \A q \in Probes \ {p} : probing'[q] = probing[q]
  BY <1>4, <1>5 DEF ProbesInv
<1>7. UNCHANGED <<offers, lastProbe>>
  BY DEF ProbeBegins
<1>8. \A i \in 1 .. n + 1 : i \in 1 .. n \/ i = n + 1
  BY <1>1
<1>9. \A i, k \in 1 .. n + 1 : begun'[i] = begun'[k] => i = k
  BY <1>2, <1>3, <1>8 DEF ProbesInv
<1>10. \A q \in Probes : \A s \in probing'[q].seen : <<q, s>> \in offers
  BY <1>4, <1>6 DEF ProbesInv
<1>11. \A q \in Probes : probing'[q].socket = "bound" => probing'[q].timer
  BY <1>4, <1>6 DEF ProbesInv
<1>12. \A q \in Probes : probing'[q].timer => \E i \in 1 .. n + 1 : begun'[i] = q
  <2> TAKE q \in Probes
  <2>1. n + 1 \in 1 .. n + 1 /\ \A i \in 1 .. n : i \in 1 .. n + 1
    BY <1>1
  <2>2. CASE q = p
    BY <1>3, <2>1, <2>2
  <2>3. CASE q # p
    BY <1>3, <1>6, <2>1, <2>3 DEF ProbesInv
  <2> QED BY <2>2, <2>3
<1>13. ASSUME NEW i \in 1 .. n + 1, NEW k \in 1 .. n + 1, i < k, probing'[begun'[i]].timer
       PROVE  probing'[begun'[k]].timer
  <2>1. CASE k = n + 1
    BY <1>3, <1>4, <1>6, <2>1
  <2>2. CASE k \in 1 .. n
    <3>1. i \in 1 .. n
      BY <1>1, <1>13, <2>2
    <3>2. /\ begun'[i] = begun[i] /\ begun[i] \in Probes \ {p}
          /\ begun'[k] = begun[k] /\ begun[k] \in Probes \ {p}
      BY <1>2, <1>3, <2>2, <3>1
    <3>3. probing[begun[i]].timer
      BY <1>6, <1>13, <3>2
    <3>4. probing[begun[k]].timer
      BY <1>13, <2>2, <3>1, <3>3 DEF ProbesInv
    <3> QED BY <1>6, <3>2, <3>4
  <2> QED BY <1>8, <2>1, <2>2
<1>14. Len(begun') = n + 1 /\ probing'[begun'[Len(begun')]].timer
  BY <1>3, <1>4, <1>6
<1> HIDE DEF n
<1>15. offers' \subseteq Probes \X Servers
  BY <1>7 DEF ProbesInv
<1>16. /\ lastProbe' \in {NoProbe} \union [by : Probes, servers : SUBSET Servers]
       /\ lastProbe' # NoProbe => \A s \in lastProbe'.servers : <<lastProbe'.by, s>> \in offers'
  BY <1>7 DEF ProbesInv
<1> QED BY <1>3, <1>6, <1>7, <1>9, <1>10, <1>11, <1>12, <1>13, <1>14, <1>15, <1>16 DEF ProbesInv

\* A probe ends: its socket, or its timer, which was the first that still ran.
LEMMA EndsKeeps ==
  ASSUME ProbesInv, NEW p \in Probes, SocketFails(p) \/ ProbeTimer(p)
  PROVE  ProbesInv'
<1> DEFINE n == Len(begun)
           result == [by |-> p, servers |-> probing[p].seen]
<1>1. probing[p].timer /\ probing[p].seen \in SUBSET Servers /\ n \in Nat
  BY DEF SocketFails, ProbeTimer, ProbesInv, ProbeRow
<1>2. PICK i \in 1 .. n : begun[i] = p
  BY <1>1 DEF ProbesInv
<1>3. lastProbe' = result /\ UNCHANGED <<offers, begun>>
  BY DEF SocketFails, ProbeTimer, Finish
<1>4. PICK on \in BOOLEAN : /\ probing' = [probing EXCEPT ![p].socket = "closed", ![p].timer = on]
                            /\ on \/ ProbeTimer(p)
  <2>1. CASE SocketFails(p)
    <3>1. [probing[p] EXCEPT !.socket = "closed"]
            = [probing[p] EXCEPT !.socket = "closed", !.timer = TRUE]
      BY <1>1, ZenonT(40) DEF ProbesInv, ProbeRow
    <3>2. [probing EXCEPT ![p].socket = "closed"]
            = [probing EXCEPT ![p].socket = "closed", ![p].timer = TRUE]
      BY <3>1 DEF ProbesInv
    <3> QED BY <2>1, <3>2 DEF SocketFails
  <2>2. CASE ProbeTimer(p)
    BY <2>2 DEF ProbeTimer, Finish
  <2> QED BY <2>1, <2>2
<1> DEFINE row == [probing[p] EXCEPT !.socket = "closed", !.timer = on]
<1>5. row \in ProbeRow
      /\ row.socket = "closed" /\ row.timer = on /\ row.seen = probing[p].seen
  <2>1. probing[p] \in ProbeRow
    BY DEF ProbesInv
  <2>2. row = [socket |-> "closed", timer |-> on, seen |-> probing[p].seen]
    BY <2>1, RowEnded
  <2> HIDE DEF row
  <2>3. row \in ProbeRow
    BY <2>1, <2>2, RowIs, RowMade
  <2> QED BY <2>2, <2>3
<1>6. probing' = [probing EXCEPT ![p] = row]
  BY <1>4 DEF ProbesInv
<1> HIDE DEF row
<1>7. /\ probing' \in [Probes -> ProbeRow]
      /\ probing'[p] = row /\ \A q \in Probes \ {p} : probing'[q] = probing[q]
  BY <1>5, <1>6 DEF ProbesInv
<1>8. result.by = p /\ result.servers = probing[p].seen /\ result # NoProbe
      /\ result \in [by : Probes, servers : SUBSET Servers]
  <2>1. DOMAIN result = {"by", "servers"} /\ DOMAIN NoProbe = {}
    BY DEF NoProbe
  <2> QED BY <1>1, <2>1
<1> HIDE DEF result
<1>9. \A q \in Probes : \A s \in probing'[q].seen : <<q, s>> \in offers
  BY <1>5, <1>7 DEF ProbesInv
<1>10. \A q \in Probes : probing'[q].socket = "bound" => probing'[q].timer
  BY <1>5, <1>7 DEF ProbesInv
<1>11. \A q \in Probes : probing'[q].timer => probing[q].timer
  BY <1>1, <1>7
<1>12. ASSUME NEW j \in 1 .. n, NEW k \in 1 .. n, j < k, probing'[begun[j]].timer
       PROVE  probing'[begun[k]].timer
  <2>1. begun[j] \in Probes /\ begun[k] \in Probes
    BY <1>1 DEF ProbesInv
  <2>2. probing[begun[j]].timer /\ probing[begun[k]].timer
    BY <1>11, <1>12, <2>1 DEF ProbesInv
  <2>3. CASE begun[k] # p
    BY <1>7, <2>1, <2>2, <2>3
  <2>4. CASE begun[k] = p /\ on
    BY <1>5, <1>7, <2>4
  <2>5. CASE begun[k] = p /\ ~on
    <3>1. ProbeTimer(p)
      BY <1>4, <2>5
    <3>2. ~probing[begun[j]].timer
      <4>1. DOMAIN begun = 1 .. n
        BY DEF ProbesInv
      <4> QED BY <1>12, <2>5, <3>1, <4>1 DEF ProbeTimer
    <3> QED BY <2>2, <3>2
  <2> QED BY <2>3, <2>4, <2>5
<1>13. n # 0 /\ ~probing'[begun[n]].timer => lastProbe'.by = begun[n]
  <2> SUFFICES ASSUME n # 0, ~probing'[begun[n]].timer, begun[n] # p PROVE FALSE
    BY <1>3, <1>8
  <2>1. n \in 1 .. n /\ begun[n] \in Probes
    BY <1>1 DEF ProbesInv
  <2>2. ~probing[begun[n]].timer
    BY <1>7, <2>1
  <2>3. i < n
    BY <1>1, <1>2
  <2> QED BY <1>1, <1>2, <2>1, <2>2, <2>3 DEF ProbesInv
<1>14. \A q \in Probes : probing'[q].timer => \E k \in 1 .. n : begun[k] = q
  BY <1>11 DEF ProbesInv
<1>15. \A s \in lastProbe'.servers : <<lastProbe'.by, s>> \in offers
  BY <1>3, <1>8 DEF ProbesInv
<1>16. /\ begun \in Seq(Probes) /\ offers \subseteq Probes \X Servers
       /\ \A j, k \in 1 .. n : begun[j] = begun[k] => j = k
  BY DEF ProbesInv
<1> QED BY <1>3, <1>7, <1>8, <1>9, <1>10, <1>12, <1>13, <1>14, <1>15, <1>16 DEF ProbesInv

\* Offers are made and heard.
LEMMA OfferHeardKeeps ==
  ASSUME ProbesInv, NEW o \in offers, Heard(o)
  PROVE  ProbesInv'
<1>1. UNCHANGED <<offers, lastProbe, begun>>
  BY DEF Heard
<1>2. o \in Probes \X Servers /\ o = <<o[1], o[2]>> /\ o[2] \in Servers
  BY DEF ProbesInv
<1>3. ASSUME NEW q \in Probes
      PROVE  /\ probing'[q] \in ProbeRow
             /\ probing'[q].socket = probing[q].socket /\ probing'[q].timer = probing[q].timer
             /\ \A s \in probing'[q].seen : <<q, s>> \in offers
  <2>1. CASE probing[q].socket = "bound" /\ IsFor(q, o)
    <3>1. probing'[q] = [probing[q] EXCEPT !.seen = @ \union {o[2]}]
      BY <2>1 DEF Heard
    <3>2. <<q, o[2]>> \in offers
      BY <1>2, <2>1 DEF IsFor
    <3>3. probing[q] \in ProbeRow
      BY DEF ProbesInv
    <3>4. probing[q].seen \union {o[2]} \in SUBSET Servers
      BY <1>2, <3>3, RowIs
    <3>5. /\ probing'[q] = [socket |-> probing[q].socket, timer |-> probing[q].timer,
                            seen |-> probing[q].seen \union {o[2]}]
          /\ probing'[q] \in ProbeRow
      <4>1. probing'[q] = [probing[q] EXCEPT !.seen = probing[q].seen \union {o[2]}]
        BY <3>1
      <4>2. PICK new \in SUBSET Servers : new = probing[q].seen \union {o[2]}
        BY <3>4
      <4>3. probing'[q] = [probing[q] EXCEPT !.seen = new]
        BY <4>1, <4>2
      <4>4. probing'[q] = [socket |-> probing[q].socket, timer |-> probing[q].timer, seen |-> new]
        BY <3>3, <4>3, RowHeard
      <4>5. probing[q].socket \in {"none", "bound", "closed"} /\ probing[q].timer \in BOOLEAN
        BY <3>3, RowIs
      <4>6. probing'[q] \in ProbeRow
        BY <4>2, <4>4, <4>5 DEF ProbeRow
      <4> QED BY <4>2, <4>4, <4>6
    <3> QED BY <3>2, <3>5, SMTT(20) DEF ProbesInv
  <2>2. CASE ~(probing[q].socket = "bound" /\ IsFor(q, o))
    <3>1. probing'[q] = probing[q]
      BY <2>2 DEF Heard
    <3> QED BY <3>1 DEF ProbesInv
  <2> QED BY <2>1, <2>2
<1>4. probing' \in [Probes -> ProbeRow]
  <2>1. probing' = [q \in Probes |-> probing'[q]]
    BY DEF Heard
  <2> QED BY <1>3, <2>1
<1>5. \A i \in 1 .. Len(begun) : begun[i] \in Probes /\ begun[Len(begun)] \in Probes
  BY DEF ProbesInv
<1>6. \A q \in Probes : probing'[q].socket = "bound" => probing'[q].timer
  BY <1>3 DEF ProbesInv
<1>7. \A q \in Probes : probing'[q].timer => \E i \in 1 .. Len(begun) : begun[i] = q
  BY <1>3 DEF ProbesInv
<1>8. \A i, k \in 1 .. Len(begun) : i < k /\ probing'[begun[i]].timer => probing'[begun[k]].timer
  <2> TAKE i, k \in 1 .. Len(begun)
  <2>1. probing'[begun[i]].timer = probing[begun[i]].timer
        /\ probing'[begun[k]].timer = probing[begun[k]].timer
    BY <1>3, <1>5
  <2>2. i < k /\ probing[begun[i]].timer => probing[begun[k]].timer
    BY DEF ProbesInv
  <2> QED BY <2>1, <2>2
<1>9. Len(begun) # 0 /\ ~probing'[begun[Len(begun)]].timer =>
        lastProbe # NoProbe /\ lastProbe.by = begun[Len(begun)]
  <2>1. Len(begun) # 0 => Len(begun) \in 1 .. Len(begun)
    BY DEF ProbesInv
  <2>2. Len(begun) # 0 => probing'[begun[Len(begun)]].timer = probing[begun[Len(begun)]].timer
    BY <1>3, <1>5, <2>1
  <2> QED BY <2>2 DEF ProbesInv
<1>10. \A q \in Probes : \A s \in probing'[q].seen : <<q, s>> \in offers
  BY <1>3
<1> QED BY <1>1, <1>4, <1>6, <1>7, <1>8, <1>9, <1>10 DEF ProbesInv

LEMMA OffersKeeps ==
  ASSUME ProbesInv, (\E p \in Probes, s \in Servers : Offers(s, p)) \/ Elsewhere
  PROVE  ProbesInv'
<1>1. UNCHANGED <<probing, lastProbe, begun>> /\ offers \subseteq offers'
      /\ offers' \subseteq Probes \X Servers
  <2>1. ASSUME NEW p \in Probes, NEW s \in Servers, Offers(s, p)
        PROVE  /\ UNCHANGED <<probing, lastProbe, begun>> /\ offers \subseteq offers'
               /\ offers' \subseteq Probes \X Servers
    <3>1. UNCHANGED <<probing, lastProbe, begun>> /\ offers' = offers \union {<<p, s>>}
      BY <2>1 DEF Offers
    <3>2. offers \subseteq Probes \X Servers
      BY DEF ProbesInv
    <3> QED BY <3>1, <3>2
  <2>2. CASE Elsewhere
    BY <2>2 DEF Elsewhere, ProbesInv
  <2> QED BY <2>1, <2>2
<1> QED BY <1>1 DEF ProbesInv

LEMMA ProbesStay == ProbesInv /\ [ProbesNext]_probeVars => ProbesInv'
<1> SUFFICES ASSUME ProbesInv, [ProbesNext]_probeVars PROVE ProbesInv'
  OBVIOUS
<1>1. CASE UNCHANGED probeVars
  BY <1>1 DEF probeVars, ProbesInv
<1>2. CASE ProbesNext
  BY <1>2, BeginsKeeps, EndsKeeps, OfferHeardKeeps, OffersKeeps DEF ProbesNext
<1> QED BY <1>1, <1>2

LEMMA ProbesAreFair == ProbesInv => VerdictFair
<1> SUFFICES ASSUME ProbesInv PROVE VerdictFair
  OBVIOUS
<1>1. lastProbe # NoProbe => {<<lastProbe.by, s>> : s \in lastProbe.servers} \subseteq offers
  BY DEF ProbesInv
<1>2. ASSUME begun # << >>, \A p \in Probes : ~probing[p].timer
      PROVE  lastProbe.by = Last(begun)
  <2>1. Len(begun) # 0 /\ begun[Len(begun)] \in Probes
    BY <1>2 DEF ProbesInv
  <2> QED BY <1>2, <2>1 DEF ProbesInv, Last
<1> QED BY <1>1, <1>2 DEF VerdictFair

-----------------------------------------------------------------------------
(* The composition: a step of one part leaves the others as they are.      *)

ServicesInv ==
  /\ ClientsInv /\ ListsInv /\ LogInv
  /\ FormsInv /\ UsersInv /\ ServedAsOnFile /\ WizardInv
  /\ RepliesInv /\ ProbesInv

LEMMA ServicesInitInv == MCInit => ServicesInv
BY ClientsInitInv, ListsInitInv, LogInitInv, FormsInitInv, SettingsFormsAssumption, UsersInitInv,
   SwitchesInitKept, WizardInitInv, OnboardingAssumption, RepliesInitInv, ProbesInitInv
   DEF MCInit, ServicesInv

\* Each part takes one of its steps or none.
LEMMA PartsStep ==
  ASSUME [MCNext]_serviceVars
  PROVE  /\ [ClientsNext]_clientVars /\ [ListsNext]_listVars /\ [LogNext]_logVars
         /\ [FormsNext]_formVars /\ [UsersNext]_userVars
         /\ [SwitchesNext]_switchVars /\ [WizardNext]_wizardVars
         /\ [RepliesNext]_replyVars /\ [ProbesNext]_probeVars
<1> DEFINE LogsRest == UNCHANGED clientVars /\ UNCHANGED listVars /\ UNCHANGED logVars
           PagesRest == /\ UNCHANGED formVars /\ UNCHANGED userVars
                        /\ UNCHANGED switchVars /\ UNCHANGED wizardVars
           TheirRest == UNCHANGED replyVars /\ UNCHANGED probeVars
<1>1. /\ UNCHANGED logsVars => LogsRest
      /\ UNCHANGED pagesVars => PagesRest
      /\ UNCHANGED dhcpVars => TheirRest
  BY DEF logsVars, pagesVars, dhcpVars
<1> HIDE DEF LogsRest, PagesRest, TheirRest
<1>2. CASE AnswersStep(Next)
  BY <1>1, <1>2 DEF AnswersStep, LogsRest, PagesRest, TheirRest
<1>3. CASE ClientsStep(ClientsNext)
  BY <1>1, <1>3 DEF ClientsStep, PagesRest, TheirRest
<1>4. CASE LogStep(LogNext)
  BY <1>1, <1>4 DEF LogStep, PagesRest, TheirRest
<1>5. CASE ListsStep(ListsNext)
  BY <1>1, <1>5 DEF ListsStep, PagesRest, TheirRest
<1>6. CASE FormsStep(FormsNext)
  BY <1>1, <1>6 DEF FormsStep, ServicesRest, LogsRest, TheirRest
<1>7. CASE UsersStep(UsersNext)
  BY <1>1, <1>7 DEF UsersStep, ServicesRest, LogsRest, TheirRest
<1>8. CASE SwitchesStep(SwitchesNext)
  BY <1>1, <1>8 DEF SwitchesStep, ServicesRest, LogsRest, TheirRest
<1>9. CASE WizardStep(WizardNext)
  BY <1>1, <1>9 DEF WizardStep, ServicesRest, LogsRest, TheirRest
<1>10. CASE RepliesStep(RepliesNext)
  BY <1>1, <1>10 DEF RepliesStep, DhcpRest, LogsRest, PagesRest
<1>11. CASE ProbesStep(ProbesNext)
  BY <1>1, <1>11 DEF ProbesStep, DhcpRest, LogsRest, PagesRest
<1>12. CASE UNCHANGED serviceVars
  <2>1. UNCHANGED logsVars /\ UNCHANGED pagesVars /\ UNCHANGED dhcpVars
    BY <1>12 DEF serviceVars
  <2> QED BY <1>1, <2>1 DEF LogsRest, PagesRest, TheirRest
<1> QED BY <1>2, <1>3, <1>4, <1>5, <1>6, <1>7, <1>8, <1>9, <1>10, <1>11, <1>12 DEF MCNext

LEMMA ServicesStay == ServicesInv /\ [MCNext]_serviceVars => ServicesInv'
<1> SUFFICES ASSUME ServicesInv, [MCNext]_serviceVars PROVE ServicesInv'
  OBVIOUS
<1>1. ClientsInv' /\ ListsInv' /\ LogInv'
  BY PartsStep, ClientsStay, ListsStay, ListsAssumption, LogStays DEF ServicesInv
<1>2. FormsInv' /\ UsersInv' /\ ServedAsOnFile' /\ WizardInv'
  BY PartsStep, FormsStay, SettingsFormsAssumption, UsersStay, SwitchesStay, WizardStays,
     OnboardingAssumption DEF ServicesInv
<1>3. RepliesInv' /\ ProbesInv'
  BY PartsStep, RepliesStay, ProbesStay DEF ServicesInv
<1> QED BY <1>1, <1>2, <1>3 DEF ServicesInv

LEMMA AllKept == ServicesInv => ServicesKept
<1> SUFFICES ASSUME ServicesInv PROVE ServicesKept
  OBVIOUS
<1>1. AssignedAsMeant /\ MovesWork
  BY AllAssignedAsMeant, AllMovesWork, ListsAssumption DEF ServicesInv
<1>2. ChartAgrees /\ NothingTooOld /\ LogBounded
  BY ChartIsRight DEF ServicesInv, LogInv
<1>3. FormsKept /\ NothingMixedUp /\ ServedAsOnFile /\ WizardHonest
  BY FormsAreKept, NobodyIsMixedUp, WizardIsHonest DEF ServicesInv
<1>4. ReadAsConfigured /\ VerdictFair
  BY RepliesAreMeant, ProbesAreFair DEF ServicesInv
<1> QED BY <1>1, <1>2, <1>3, <1>4 DEF ServicesKept, PagesAgree, ToldAsMeant

\* What is asked of the services and of their pages is what they do: clients are in
\* the groups chosen for them (dns/clients.ts), the log of queries is bounded and its
\* chart adds up (dns/store.ts), each page leaves in force what it shows (the pages
\* of app/ and their routes), and a DHCP client reads from a reply what is configured
\* for it (dhcp/server.ts buildOptions, dhcp/packet.ts).
THEOREM ServicesAreKept == MCSpec => []ServicesKept
<1> QED BY ServicesInitInv, ServicesStay, AllKept, PTL DEF MCSpec
=============================================================================

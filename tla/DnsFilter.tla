------------------------------ MODULE DnsFilter ------------------------------
(***************************************************************************)
(* The filtering side of the DNS resolver (control-plane/src/dns): tables  *)
(* of block and allow lists in a database, the lookup compiled from them   *)
(* into memory, and the decision the resolver takes on each question.      *)
(*                                                                         *)
(* Handlers run to their end without a break, except two: a gravity        *)
(* rebuild, which waits for the download of each list, and a question that *)
(* is forwarded upstream.  Several rebuilds may be under way.              *)
(*                                                                         *)
(* A pattern is the set of names it covers: the parent domains of exact    *)
(* entries and the regular expressions of others are in that set.  A pause *)
(* of blocking is the time it has left; none left, or a pause whose time   *)
(* is up, is 0, and the lazy resumption of both getters is then no change. *)
(***************************************************************************)
EXTENDS Integers, FiniteSets

CONSTANTS
  Name,        \* names clients ask for
  Local,       \* those answered before the lists: hosts file, conditional
               \* forwarding, names the settings keep from going upstream
  Client,
  Group,       \* group ids
  Default,     \* the Default group
  ManualId,    \* ids of manual entries
  ManualRow,   \* rows a manual entry can be
  NewPrio,     \* the priority of a manual entry when it is added
  AdlistId,    \* bound: adlists added in a behaviour, the ids are 1, 2, ...
  AdlistRow,   \* rows an adlist can be
  Starter,     \* the row of the built-in adlist
  Subscribed,  \* the row of the lists a new installation subscribes to
  Subscriptions,   \* how many it subscribes to
  Content,     \* what a downloaded list may hold: sets of names
  Worker,      \* bound: gravity rebuilds under way at once
  PauseTime    \* bound: ticks of a timed pause

Types == {"block", "allow"}
ASSUME RowAssumption ==
  /\ ManualRow \subseteq [type : Types, prio : Int, enabled : BOOLEAN,
                          groups : SUBSET Group, names : SUBSET Name]
  /\ AdlistRow \subseteq [type : Types, prio : Int, enabled : BOOLEAN,
                          groups : SUBSET Group, http : BOOLEAN]
ASSUME BoundsAssumption ==
  /\ Default \in Group /\ Local \subseteq Name /\ {Starter, Subscribed} \subseteq AdlistRow
  /\ Content \subseteq SUBSET Name /\ AdlistId \subseteq Nat \ {0}
  /\ Subscriptions \in Nat /\ 1..(Subscriptions + 1) \subseteq AdlistId
  /\ PauseTime \in Nat

VARIABLES
  manual,        \* table domains
  adlists,       \* table adlists
  gravity,       \* table gravity: the names held for each adlist id
  clientGroups,  \* the groups of each client; none for one without a row
  stored,        \* the pause of blocking, in the table settings
  compiled,      \* the lookup in memory
  blocking,      \* the resolver's copy of the pause
  cache,         \* names with a live answer in the cache
  flights,       \* names asked upstream and not answered yet
  sinkhole,      \* the threat-intel set, and whether it is consulted
  rebuild,       \* rebuild[w]: the lists worker w has yet to fetch
  missed         \* a manual edit went past the lookup since it was compiled

tables == <<manual, adlists, gravity>>
lookup == <<compiled, missed>>
others == <<stored, blocking, cache, flights, sinkhole>>
vars == <<manual, adlists, gravity, clientGroups, stored, compiled, blocking,
          cache, flights, sinkhole, rebuild, missed>>

NoRow == [id |-> "none"]   \* not added yet
Gone == [id |-> "gone"]    \* deleted; an adlist id is not used again
NotRow == {NoRow, Gone}
Idle == {0}                \* no rebuild: 0 is no list's id
Forever == -1
Pause == (0..PauseTime) \cup {Forever}

Entry == [gravity : BOOLEAN, type : Types, prio : Int,
          groups : SUBSET Group, names : SUBSET Name]

TypeOK ==
  /\ manual \in [ManualId -> ManualRow \cup {NoRow}]
  /\ adlists \in [AdlistId -> AdlistRow \cup NotRow]
  /\ gravity \in [AdlistId -> SUBSET Name]
  /\ clientGroups \in [Client -> SUBSET Group]
  /\ stored \in Pause /\ blocking \in Pause
  /\ compiled \subseteq Entry
  /\ cache \subseteq Name \ Local /\ flights \subseteq Name \ Local
  /\ sinkhole \in [on : BOOLEAN, names : SUBSET Name]
  /\ missed \in BOOLEAN
  /\ rebuild \in [Worker -> ((SUBSET AdlistId) \ {{}}) \cup {Idle}]

-----------------------------------------------------------------------------
(* The lookup and the decision.                                            *)

OrDefault(groups) == IF groups = {} THEN {Default} ELSE groups

ActiveEntries(m) ==
  {[gravity |-> FALSE, type |-> m[i].type, prio |-> m[i].prio,
    groups |-> OrDefault(m[i].groups), names |-> m[i].names] :
      i \in {j \in ManualId : m[j] # NoRow /\ m[j].enabled}}

\* One entry for the gravity rows of a list, if it has any; the rows of a list
\* that is disabled or deleted are passed over.
GravityEntries(ads, g) ==
  {[gravity |-> TRUE, type |-> ads[a].type, prio |-> ads[a].prio,
    groups |-> OrDefault(ads[a].groups), names |-> g[a]] :
      a \in {b \in AdlistId : ads[b] \notin NotRow /\ ads[b].enabled /\ g[b] # {}}}

Compile(m, ads, g) == ActiveEntries(m) \cup GravityEntries(ads, g)
Recompile == compiled' = Compile(manual', adlists', gravity') /\ missed' = FALSE

GroupsForClient(c) == OrDefault(clientGroups[c])
Matches(entries, c, n) ==
  {e \in entries : n \in e.names /\ e.groups \cap GroupsForClient(c) # {}}

\* Highest priority first, and allow before block: what the first one says.
Before(e, f) == e.prio > f.prio \/ (e.prio = f.prio /\ (e.type = "allow" \/ f.type = "block"))
Lookup(c, n) ==
  LET found == Matches(compiled, c, n)
  IN  IF found = {} THEN "none" ELSE (CHOOSE e \in found : \A f \in found : Before(e, f)).type

BlockingActive == blocking = 0
SinkholeMatch(n) == sinkhole.on /\ n \in sinkhole.names

\* Unless it is listed as allowed, a name the sinkhole knows is blocked too.
Blocked(c, n) ==
  /\ BlockingActive
  /\ \/ Lookup(c, n) = "block"
     \/ Lookup(c, n) = "none" /\ SinkholeMatch(n)

\* A bug to be caught: the cache, which all clients share, is asked first.
AnswerFromCacheFirst(c, n) ==
  IF n \in Local THEN "local"
  ELSE IF n \in cache THEN "cached"
  ELSE IF Blocked(c, n) THEN "blocked"
  ELSE "forward"

\* What becomes of a question, in the order in which the handler asks.
Answer(c, n) ==
  IF n \in Local THEN "local"
  ELSE IF Blocked(c, n) THEN "blocked"
  ELSE IF n \in cache THEN "cached"
  ELSE "forward"

\* A new installation: the built-in list, and lists yet to be downloaded.
Seeded(ads, a) ==
  [b \in AdlistId |-> IF b = a THEN Starter
                      ELSE IF b \in (a + 1)..(a + Subscriptions) THEN Subscribed
                      ELSE ads[b]]

Init ==
  /\ manual = [i \in ManualId |-> NoRow]
  /\ adlists = Seeded([a \in AdlistId |-> NoRow], 1)
  /\ \E S \in Content \ {{}} : gravity = [a \in AdlistId |-> IF a = 1 THEN S ELSE {}]
  /\ clientGroups = [c \in Client |-> {}]
  /\ stored = 0 /\ blocking = 0
  /\ compiled = Compile(manual, adlists, gravity)
  /\ cache = {} /\ flights = {}
  /\ sinkhole = [on |-> FALSE, names |-> {}]
  /\ rebuild = [w \in Worker |-> Idle]
  /\ missed = FALSE

-----------------------------------------------------------------------------
(* Questions.                                                              *)

\* Every other answer changes nothing here.
Query(c, n) ==
  /\ Answer(c, n) = "forward"
  /\ flights' = flights \cup {n}
  /\ UNCHANGED <<tables, clientGroups, stored, blocking, cache, sinkhole, rebuild, lookup>>

\* An upstream answers, whatever has been configured since.
Answered(n) ==
  /\ n \in flights
  /\ flights' = flights \ {n}
  /\ cache' = cache \cup {n}
  /\ UNCHANGED <<tables, clientGroups, stored, blocking, sinkhole, rebuild, lookup>>

\* No upstream answered: SERVFAIL, and nothing is cached.
Unanswered(n) ==
  /\ n \in flights
  /\ flights' = flights \ {n}
  /\ UNCHANGED <<tables, clientGroups, stored, blocking, cache, sinkhole, rebuild, lookup>>

Expire(n) ==
  /\ n \in cache
  /\ cache' = cache \ {n}
  /\ UNCHANGED <<tables, clientGroups, stored, blocking, flights, sinkhole, rebuild, lookup>>

-----------------------------------------------------------------------------
(* Edits of the lists.                                                     *)

PutManual(i, row) ==
  /\ manual' = [manual EXCEPT ![i] = row]
  /\ UNCHANGED <<adlists, gravity, clientGroups, others, rebuild>>

DomainAdd(i, row) ==
  /\ manual[i] = NoRow /\ row.enabled /\ row.prio = NewPrio
  /\ PutManual(i, row)
  /\ Recompile

\* A bug to be caught: an entry is changed in the table only.
DomainUpdateUncompiled(i, row) ==
  /\ manual[i] # NoRow
  /\ row.type = manual[i].type /\ row.names = manual[i].names
  /\ PutManual(i, row)
  /\ UNCHANGED lookup

DomainUpdate(i, row) ==
  /\ manual[i] # NoRow
  /\ row.type = manual[i].type /\ row.names = manual[i].names
  /\ PutManual(i, row)
  /\ Recompile

DomainDelete(i) ==
  /\ manual[i] # NoRow
  /\ PutManual(i, NoRow)
  /\ Recompile

\* "Unblock" on the page of blocked things, and an applied remediation, go
\* to the table and not to the lookup.
Unblock(i) ==
  /\ manual[i] # NoRow /\ manual[i].type = "block"
  /\ PutManual(i, NoRow)
  /\ UNCHANGED compiled /\ missed' = TRUE

ApplyRemediation(i, row) ==
  /\ manual[i] = NoRow /\ row.type = "block" /\ row.enabled /\ row.prio = NewPrio
  /\ PutManual(i, row)
  /\ UNCHANGED compiled /\ missed' = TRUE

\* Ids are given in order.
NextId(a) == adlists[a] = NoRow /\ \A b \in AdlistId : b < a => adlists[b] # NoRow

\* The new list holds nothing yet, so it is not compiled.
AdlistAdd(a, row) ==
  /\ NextId(a) /\ row.enabled
  /\ adlists' = [adlists EXCEPT ![a] = row]
  /\ UNCHANGED <<manual, gravity, clientGroups, others, rebuild, lookup>>

AdlistUpdate(a, row) ==
  /\ adlists[a] \notin NotRow
  /\ row.http = adlists[a].http
  /\ adlists' = [adlists EXCEPT ![a] = row]
  /\ UNCHANGED <<manual, gravity, clientGroups, others, rebuild>>
  /\ Recompile

\* A bug to be caught: a running rebuild is left to compile the deletion.
AdlistDeleteLater(a) ==
  /\ adlists[a] \notin NotRow
  /\ gravity' = [gravity EXCEPT ![a] = {}]
  /\ adlists' = [adlists EXCEPT ![a] = Gone]
  /\ UNCHANGED <<manual, clientGroups, others, rebuild>>
  /\ IF \E w \in Worker : rebuild[w] # Idle THEN UNCHANGED lookup ELSE Recompile

AdlistDelete(a) ==
  /\ adlists[a] \notin NotRow
  /\ gravity' = [gravity EXCEPT ![a] = {}]
  /\ adlists' = [adlists EXCEPT ![a] = Gone]
  /\ UNCHANGED <<manual, clientGroups, others, rebuild>>
  /\ Recompile

ClientGroupsSet(c, groups) ==
  /\ clientGroups' = [clientGroups EXCEPT ![c] = groups]
  /\ UNCHANGED <<tables, others, rebuild>>
  /\ Recompile

\* The table of groups is never read for a decision: editing it recompiles.
GroupEdit ==
  /\ UNCHANGED <<tables, clientGroups, others, rebuild>>
  /\ Recompile

-----------------------------------------------------------------------------
(* Gravity rebuilds.                                                       *)

\* A bug to be caught: with no list to fetch, the rebuild does not end.
RebuildStartAlways(w) ==
  /\ rebuild[w] = Idle
  /\ rebuild' = [rebuild EXCEPT ![w] =
       {a \in AdlistId : adlists[a] \notin NotRow /\ adlists[a].enabled /\ adlists[a].http}]
  /\ UNCHANGED <<tables, clientGroups, others, lookup>>

\* The lists are chosen at the start; with none, the lookup is compiled at once.
RebuildStart(w) ==
  LET lists == {a \in AdlistId : adlists[a] \notin NotRow /\ adlists[a].enabled /\ adlists[a].http}
  IN  /\ rebuild[w] = Idle
      /\ rebuild' = [rebuild EXCEPT ![w] = IF lists = {} THEN Idle ELSE lists]
      /\ UNCHANGED <<tables, clientGroups, others>>
      /\ IF lists = {} THEN Recompile ELSE UNCHANGED lookup

\* The end of a download, and after the last one the recompilation.
Fetched(w, a) ==
  /\ rebuild[w] # Idle /\ a \in rebuild[w]
  /\ rebuild' = [rebuild EXCEPT ![w] = IF @ = {a} THEN Idle ELSE @ \ {a}]
  /\ UNCHANGED <<manual, adlists, clientGroups, others>>
  /\ IF rebuild[w] = {a} THEN Recompile ELSE UNCHANGED lookup

\* The list may have been deleted meanwhile: its rows are written all the same.
FetchOk(w, a) ==
  /\ \E S \in Content : gravity' = [gravity EXCEPT ![a] = S]
  /\ Fetched(w, a)

\* A bug to be caught: a download that fails last ends the rebuild at once.
FetchFailsHard(w, a) ==
  /\ rebuild[w] # Idle /\ a \in rebuild[w]
  /\ rebuild' = [rebuild EXCEPT ![w] = IF @ = {a} THEN Idle ELSE @ \ {a}]
  /\ UNCHANGED <<tables, clientGroups, others, lookup>>

FetchFails(w, a) == UNCHANGED gravity /\ Fetched(w, a)

-----------------------------------------------------------------------------
(* The pause of blocking, settings and the process.                        *)

SetBlocking(p) ==
  /\ stored' = p /\ blocking' = p
  /\ UNCHANGED <<tables, clientGroups, cache, flights, sinkhole, rebuild, lookup>>

Left(p) == IF p > 0 THEN p - 1 ELSE p
Tick ==
  /\ stored' = Left(stored) /\ blocking' = Left(blocking)
  /\ UNCHANGED <<tables, clientGroups, cache, flights, sinkhole, rebuild, lookup>>

\* Switching the sinkhole on, or the ten-minute timer while it is on, copies
\* the feeds' set: any part of it, as a refresh may be at work on it.
SetSinkhole(on, S) ==
  /\ sinkhole' = [on |-> on, names |-> IF on THEN S ELSE sinkhole.names]
  /\ UNCHANGED <<tables, clientGroups, stored, blocking, cache, flights, rebuild, lookup>>

\* The resolver takes its settings anew.  Clients not seen for long lose
\* their row, and their groups with it.
Configure ==
  /\ \E S \in SUBSET Client : clientGroups' = [c \in Client |-> IF c \in S THEN {} ELSE clientGroups[c]]
  /\ blocking' = stored
  /\ cache' = {}
  /\ UNCHANGED <<tables, stored, flights, sinkhole, rebuild, lookup>>

Control ==
  /\ blocking' = stored
  /\ cache' = {}
  /\ UNCHANGED <<tables, clientGroups, stored, flights, sinkhole, rebuild>>
  /\ Recompile

\* With no adlist and no gravity row left, it starts as a new installation.
Seed ==
  IF (\A a \in AdlistId : adlists[a] \in NotRow) /\ (\A a \in AdlistId : gravity[a] = {})
  THEN \E a \in AdlistId, S \in Content \ {{}} :
         /\ NextId(a) /\ a + Subscriptions \in AdlistId
         /\ adlists' = Seeded(adlists, a)
         /\ gravity' = [gravity EXCEPT ![a] = S]
  ELSE UNCHANGED <<adlists, gravity>>

\* The process dies and starts again: what is not in the database is lost.
Restart ==
  /\ Seed
  /\ \E S \in SUBSET Client : clientGroups' = [c \in Client |-> IF c \in S THEN {} ELSE clientGroups[c]]
  /\ UNCHANGED <<manual, stored>>
  /\ Recompile
  /\ blocking' = stored
  /\ cache' = {} /\ flights' = {}
  /\ sinkhole' = [on |-> FALSE, names |-> {}]
  /\ rebuild' = [w \in Worker |-> Idle]

ListEdit ==
  \/ \E i \in ManualId, row \in ManualRow :
       DomainAdd(i, row) \/ DomainUpdate(i, row) \/ ApplyRemediation(i, row)
  \/ \E i \in ManualId : DomainDelete(i) \/ Unblock(i)
  \/ \E a \in AdlistId, row \in AdlistRow : AdlistAdd(a, row) \/ AdlistUpdate(a, row)
  \/ \E a \in AdlistId : AdlistDelete(a)
  \/ \E c \in Client, groups \in SUBSET Group : ClientGroupsSet(c, groups)
  \/ GroupEdit
Gravity(w) ==
  \/ RebuildStart(w)
  \/ \E a \in AdlistId : FetchOk(w, a) \/ FetchFails(w, a)
Resolve ==
  \/ \E c \in Client, n \in Name : Query(c, n)
  \/ \E n \in Name : Answered(n) \/ Unanswered(n) \/ Expire(n)
Manage ==
  \/ \E p \in Pause : SetBlocking(p)
  \/ \E on \in BOOLEAN, S \in SUBSET (Name \ Local) : SetSinkhole(on, S)
  \/ Tick \/ Configure \/ Control \/ Restart

Next == ListEdit \/ (\E w \in Worker : Gravity(w)) \/ Resolve \/ Manage

Spec == Init /\ [][Next]_vars

-----------------------------------------------------------------------------
Rebuilding == \E w \in Worker : rebuild[w] # Idle
InForce == Compile(manual, adlists, gravity)

(* What an operator sees in the tables is what the resolver goes by: his    *)
(* own entries at all times; the lists, too, but that a list whose download *)
(* has ended counts when the whole rebuild is done, and never a list that   *)
(* is deleted or disabled.  Two edits do not get there, and until the next  *)
(* one that does the first and the last part may fail (dns/lists.ts).       *)
CompiledFresh ==
  /\ ~missed => {e \in compiled : ~e.gravity} = ActiveEntries(manual)
  /\ \A e \in compiled : e.gravity =>
       \E a \in AdlistId :
         /\ adlists[a] \notin NotRow /\ adlists[a].enabled
         /\ e.type = adlists[a].type /\ e.prio = adlists[a].prio
         /\ e.groups = OrDefault(adlists[a].groups)
  /\ ~missed /\ ~Rebuilding => compiled = InForce

\* The rule as lists.ts:1 tells it, about the tables: a block entry that is
\* above every allow entry, or the sinkhole when no list knows the name.
MustBlock(c, n) ==
  /\ stored = 0
  /\ LET rules == Matches(InForce, c, n)
     IN  \/ \E r \in rules : r.type = "block" /\ \A s \in rules : s.type = "allow" => s.prio < r.prio
         \/ rules = {} /\ SinkholeMatch(n)

\* A client is refused a name exactly when the tables, the stored pause and
\* the sinkhole say so, whatever the cache holds, unless a rebuild is under
\* way or an edit went past the lookup (dns/resolver.ts, handle).
AnswersByTheTables ==
  ~Rebuilding /\ ~missed =>
    \A c \in Client, n \in Name \ Local : (Answer(c, n) = "blocked") <=> MustBlock(c, n)

\* A download that awaits the end of its rebuild comes into force in the end,
\* whether the others succeed or fail (dns/index.ts, rebuildGravity).
Settles == [](compiled # InForce /\ ~missed => <>(compiled = InForce \/ missed))
=============================================================================

-------------------------- MODULE ResolverRecords --------------------------
(***************************************************************************)
(* What the resolver remembers of those who ask: the clients and their     *)
(* groups with the order of the lists, and the log of queries.             *)
(***************************************************************************)
EXTENDS Integers, FiniteSets, FiniteSetsExt, Functions, Sequences, SequencesExt

(***************************************************************************)
(* The clients of the resolver and the groups they are put in, and the     *)
(* order of the subscribed lists: the tables of dns/db.ts, and the pages   *)
(* that change them by the ids they loaded a while ago (web,               *)
(* components/dns/Clients.tsx, Groups.tsx, Lists.tsx).                     *)
(***************************************************************************)

CONSTANTS
  Ips,          \* addresses that ask
  Nicknames,    \* what a client may be called; NoName is among them
  NoName,
  GroupNames,   \* names of the groups the operator makes
  MaxRows,      \* ids of clients
  MaxGroups,    \* ids of groups: bounds on the behaviours
  MaxSends,     \* assignments under way at once: a bound on the behaviours
  ListIds,      \* lists that may be subscribed to
  FirstPrio,    \* the priority of a list that is added (100)
  PrioRange     \* priorities a list comes to have: a bound on the moves

ASSUME ListsAssumption == ListIds \subseteq Nat /\ FirstPrio \in PrioRange /\ PrioRange \subseteq Int

VARIABLES
  clients,      \* the table: [id -> address, groups, nickname]
  lastClient,   \* the last id given (sqlite_sequence)
  groupRows,    \* the table of groups: [id -> name]
  lastGroup,
  onPage,       \* the rows and groups the page has loaded
  sends         \* assignments on their way to the server, and whom they are meant for

clientVars == <<clients, lastClient, groupRows, lastGroup, onPage, sends>>

DefaultGroup == 0
DefaultName == "Default"

ClientsInit ==
  /\ clients = << >> /\ lastClient = 0
  /\ groupRows = [g \in {DefaultGroup} |-> DefaultName] /\ lastGroup = 0
  /\ onPage = [rows |-> {}, groups |-> << >>]
  /\ sends = {}

\* What a table without AUTOINCREMENT would do.
FreshIdOfRows(rows, last) == Max(DOMAIN rows \union {0}) + 1

\* INTEGER PRIMARY KEY AUTOINCREMENT: an id is never given again.
FreshId(rows, last) == last + 1

Inserted(rows, id, row) == [x \in DOMAIN rows \union {id} |-> IF x = id THEN row ELSE rows[x]]

RowsOf(ip) == {c \in DOMAIN clients : clients[c].ip = ip}

-----------------------------------------------------------------------------
(* The resolver.                                                           *)

\* handle: clientTouch makes the row unless there is one.
QueryFrom(ip) ==
  /\ RowsOf(ip) = {} /\ FreshId(clients, lastClient) <= MaxRows
  /\ clients' = Inserted(clients, FreshId(clients, lastClient),
                        [ip |-> ip, groups |-> {}, nickname |-> NoName])
  /\ lastClient' = FreshId(clients, lastClient)
  /\ UNCHANGED <<groupRows, lastGroup, onPage, sends>>

\* pruneByAge: those that have been idle for longer than the settings allow at the
\* moment, which may be any.
IdleGo(idle) ==
  /\ clients' = Restrict(clients, DOMAIN clients \ idle)
  /\ UNCHANGED <<lastClient, groupRows, lastGroup, onPage, sends>>

-----------------------------------------------------------------------------
(* Groups.                                                                 *)

GroupAdd(name) ==
  /\ FreshId(groupRows, lastGroup) <= MaxGroups
  /\ groupRows' = Inserted(groupRows, FreshId(groupRows, lastGroup), name)
  /\ lastGroup' = FreshId(groupRows, lastGroup)
  /\ UNCHANGED <<clients, lastClient, onPage, sends>>

\* The default group stays.  Clients keep the id of a group that is gone.
GroupDelete(g) ==
  /\ g \in DOMAIN groupRows \ {DefaultGroup}
  /\ groupRows' = Restrict(groupRows, DOMAIN groupRows \ {g})
  /\ UNCHANGED <<clients, lastClient, lastGroup, onPage, sends>>

-----------------------------------------------------------------------------
(* The page.                                                               *)

ShownRows == {[id |-> c, ip |-> clients[c].ip, groups |-> clients[c].groups,
               nickname |-> clients[c].nickname] : c \in DOMAIN clients}

\* The page is opened: groups are loaded now, and not again.
OpenPage ==
  /\ onPage' = [rows |-> ShownRows, groups |-> groupRows]
  /\ UNCHANGED <<clients, lastClient, groupRows, lastGroup, sends>>

\* Every 6 s, and after an assignment was answered.
PollClients ==
  /\ onPage' = [onPage EXCEPT !.rows = ShownRows]
  /\ UNCHANGED <<clients, lastClient, groupRows, lastGroup, sends>>

\* GroupsDropdown: the set that is sent is made from the one that was loaded.
Toggled(set, g) == IF g \in set THEN set \ {g} ELSE set \union {g}

Sent(row, field, value) ==
  /\ Cardinality(sends) < MaxSends
  /\ sends' = sends \union {[id |-> row.id, ip |-> row.ip, field |-> field, value |-> value]}
  /\ UNCHANGED <<clients, lastClient, groupRows, lastGroup, onPage>>

ToggleGroup(row, g) == Sent(row, "groups", Toggled(row.groups, g))

\* NicknameCell: what was typed is sent when the field is left, if it is another.
Rename(row, name) == name # row.nickname /\ Sent(row, "nickname", name)

\* clientGroupsSet, clientNicknameSet: UPDATE ... WHERE id = ?, which may find nothing.
AssignmentArrives(s) ==
  /\ sends' = sends \ {s}
  /\ clients' = [c \in DOMAIN clients |->
                   IF c = s.id THEN [clients[c] EXCEPT ![s.field] = s.value] ELSE clients[c]]
  /\ UNCHANGED <<lastClient, groupRows, lastGroup, onPage>>

ClientsNext ==
  \/ \E ip \in Ips : QueryFrom(ip)
  \/ \E idle \in SUBSET DOMAIN clients : IdleGo(idle)
  \/ \E name \in GroupNames : GroupAdd(name)
  \/ \E g \in DOMAIN groupRows : GroupDelete(g)
  \/ OpenPage \/ PollClients
  \/ \E row \in onPage.rows, g \in DOMAIN onPage.groups : ToggleGroup(row, g)
  \/ \E row \in onPage.rows, name \in Nicknames : Rename(row, name)
  \/ \E s \in sends : AssignmentArrives(s)

-----------------------------------------------------------------------------
(* The lists in the order of their priority, moved up and down.            *)

VARIABLES
  subscribed,   \* the table of lists: [id -> priority]
  shownLists,   \* what the page has loaded
  clicks        \* the click that is on its way to the server

listVars == <<subscribed, shownLists, clicks>>

NoClick == << >>

ListsInit == subscribed = << >> /\ shownLists = << >> /\ clicks = NoClick

\* sort((a, b) => b.priority - a.priority || a.id - b.id)
Above(lists, a, b) ==
  lists[a] > lists[b] \/ (lists[a] = lists[b] /\ a < b)

\* The lists it would have to pass, and the first of them: only with one is there
\* a button.
InTheWay(lists, a, dir) ==
  {b \in DOMAIN lists \ {a} : IF dir = -1 THEN Above(lists, b, a) ELSE Above(lists, a, b)}

HasNeighbour(lists, a, dir) == InTheWay(lists, a, dir) # {}

Neighbour(lists, a, dir) ==
  CHOOSE b \in InTheWay(lists, a, dir) : InTheWay(lists, a, dir) \ {b} \subseteq InTheWay(lists, b, dir)

\* A bug to be caught: the priority of the neighbour itself.
PrioOfNeighbour(lists, a, dir) == lists[Neighbour(lists, a, dir)]

\* move: dir is -1 up, 1 down.
NewPriority(lists, a, dir) == lists[Neighbour(lists, a, dir)] - dir

\* adlistUpdate: UPDATE ... WHERE id = ?
Updated(lists, a, prio) == IF a \in DOMAIN lists THEN [lists EXCEPT ![a] = prio] ELSE lists

LoadLists == shownLists' = subscribed /\ UNCHANGED <<subscribed, clicks>>

ClickMove(a, dir) ==
  /\ clicks = NoClick
  /\ HasNeighbour(shownLists, a, dir) /\ NewPriority(shownLists, a, dir) \in PrioRange
  /\ clicks' = [id |-> a, prio |-> NewPriority(shownLists, a, dir)]
  /\ UNCHANGED <<subscribed, shownLists>>

\* The table is changed, and the page loads the lists anew.
ClickArrives ==
  /\ clicks # NoClick
  /\ subscribed' = Updated(subscribed, clicks.id, clicks.prio)
  /\ shownLists' = subscribed'
  /\ clicks' = NoClick

\* Lists added and deleted on any page.
AddList(a) ==
  /\ \A b \in DOMAIN subscribed : b < a
  /\ subscribed' = [b \in DOMAIN subscribed \union {a} |->
       IF b = a THEN FirstPrio ELSE subscribed[b]]
  /\ UNCHANGED <<shownLists, clicks>>

DeleteList(a) ==
  /\ subscribed' = Restrict(subscribed, DOMAIN subscribed \ {a})
  /\ UNCHANGED <<shownLists, clicks>>

ListsNext ==
  \/ LoadLists \/ ClickArrives
  \/ \E a \in DOMAIN shownLists, dir \in {-1, 1} : ClickMove(a, dir)
  \/ \E a \in ListIds : AddList(a)
  \/ \E a \in DOMAIN subscribed : DeleteList(a)

-----------------------------------------------------------------------------
(* Properties.                                                             *)

\* No address has two rows.  What the page has loaded and what is on its way names
\* rows and groups by their ids, while rows are pruned and made anew and groups are
\* deleted and added: an id that is still there means the address and the group that
\* the operator saw, so that nobody is put into a group for somebody else.
AssignedAsMeant ==
  /\ \A ip \in Ips : Cardinality(RowsOf(ip)) <= 1
  /\ \A row \in onPage.rows \union sends : row.id \in DOMAIN clients => clients[row.id].ip = row.ip
  /\ \A g \in DOMAIN onPage.groups \intersect DOMAIN groupRows : groupRows[g] = onPage.groups[g]

\* A list that is moved passes the neighbour it was moved over and wins over it, or
\* loses to it, from then on, though many lists have the same priority and stand by
\* their ids; and a click on a page that is up to date does just that, on its way.
MovesWork ==
  \A a \in DOMAIN subscribed, dir \in {-1, 1} : HasNeighbour(subscribed, a, dir) =>
    LET n == Neighbour(subscribed, a, dir)
        after == Updated(subscribed, a, NewPriority(subscribed, a, dir))
    IN  IF dir = -1 THEN after[a] > after[n] ELSE after[a] < after[n]

-----------------------------------------------------------------------------
(***************************************************************************)
(* The log of queries: how old and how many lines there may be, and the    *)
(* statistics of the last day that are counted from it (dns/resolver.ts    *)
(* log, dns/db.ts, dns/stats.ts).  A line is here its age; ids are given   *)
(* in the order of the lines, so the log is a sequence.                    *)
(***************************************************************************)

CONSTANTS
  KeepLines,    \* lines queriesPrune leaves (100,000)
  PruneEvery,   \* lines between two of its runs (5,000)
  BucketLen,    \* instants in a bucket of the chart (30 min)
  Buckets,      \* buckets in a day (48)
  MaxBoots      \* restarts between two runs of queriesPrune: a bound on the behaviours

ASSUME LogAssumption == {KeepLines, PruneEvery, BucketLen, Buckets} \subseteq Nat \ {0}

VARIABLES
  lines,        \* the age of each, oldest first
  written,      \* lines written since queriesPrune last ran (pruneTick)
  boots,        \* restarts since then
  phase,        \* instants since the current bucket began
  sincePrune,   \* instants since the hourly prune last ran
  keepAge,      \* dbMaxDays, in instants; 0 for ever
  logging       \* logQueries, and privacyLevel is below 3

logVars == <<lines, written, boots, phase, sincePrune, keepAge, logging>>

Day == BucketLen * Buckets
Hour == 2 * BucketLen

LogInit ==
  /\ lines = << >> /\ written = 0 /\ boots = 0 /\ phase = 0 /\ sincePrune = 0
  /\ keepAge = 0 /\ logging = TRUE

\* pruneByAge, the queries: the lines that are too old, which are the first.
TooOld(s, keep) == {i \in DOMAIN s : s[i] > keep}
Kept(s, keep) == IF keep > 0 THEN SubSeq(s, Cardinality(TooOld(s, keep)) + 1, Len(s)) ELSE s

\* queriesPrune: all but the last ids.
LastLines(s) == IF Len(s) > KeepLines THEN SubSeq(s, Len(s) - KeepLines + 1, Len(s)) ELSE s

-----------------------------------------------------------------------------
\* log: the settings in force when the answer is there decide, not those of the
\* time of the question.
LogLine ==
  /\ logging
  /\ IF written + 1 = PruneEvery
     THEN lines' = LastLines(Append(lines, 0)) /\ written' = 0 /\ boots' = 0
     ELSE lines' = Append(lines, 0) /\ written' = written + 1 /\ UNCHANGED boots
  /\ UNCHANGED <<phase, sincePrune, keepAge, logging>>

\* An instant passes; by the hour, the prune of startSystemMaintenance runs.
LogTick ==
  LET older == [i \in 1 .. Len(lines) |-> IF lines[i] <= Day THEN lines[i] + 1 ELSE lines[i]]
  IN  /\ phase' = (phase + 1) % BucketLen
      /\ sincePrune' = (sincePrune + 1) % Hour
      /\ lines' = IF sincePrune' = 0 THEN Kept(older, keepAge) ELSE older
      /\ UNCHANGED <<written, boots, keepAge, logging>>

\* applyDnsSettings: what is on file is pruned at once.
SaveLogSettings(keep, on) ==
  /\ keepAge' = keep /\ logging' = on
  /\ lines' = Kept(lines, keep)
  /\ UNCHANGED <<written, boots, phase, sincePrune>>

\* startDns and startSystemMaintenance prune, and the counts begin anew.
LogRestart ==
  /\ boots < MaxBoots
  /\ written' = 0 /\ boots' = boots + 1 /\ sincePrune' = 0
  /\ lines' = Kept(lines, keepAge)
  /\ UNCHANGED <<phase, keepAge, logging>>

LogNext ==
  \/ LogLine \/ LogTick \/ LogRestart
  \/ \E keep \in 0 .. Day, on \in BOOLEAN : SaveLogSettings(keep, on)

LogSpec == LogInit /\ [][LogNext]_logVars

-----------------------------------------------------------------------------
(* The statistics.                                                         *)

\* A bug to be caught: the window begins one bucket too early.
FirstBucketTooEarly == Buckets

\* How many buckets back the chart begins.
FirstBucket == Buckets - 1

\* The bucket a line falls into, counted back from the current one.
BucketOf(age) == (age - phase + BucketLen - 1) \div BucketLen

\* series: lines by bucket; a bucket with none is there all the same.
Series ==
  [b \in 0 .. FirstBucket |-> Cardinality({i \in DOMAIN lines : BucketOf(lines[i]) = b})]

\* total: the lines of the last 24 h.
Total == Cardinality({i \in DOMAIN lines : lines[i] < Day})

\* The numbers of the chart, added up.
Charted ==
  LET Sum[b \in 0 .. FirstBucket] == IF b = 0 THEN Series[0] ELSE Sum[b - 1] + Series[b]
  IN  Sum[FirstBucket]

-----------------------------------------------------------------------------
(* Properties.                                                             *)

\* The chart shows no more than the total beside it, and at most one bucket less:
\* each line of the whole buckets of the day.
ChartAgrees ==
  /\ Charted <= Total
  /\ Charted >= Cardinality({i \in DOMAIN lines : lines[i] <= Day - BucketLen})

\* Whatever was set before, and whenever the control plane was started, no line is
\* older than the operator allows by more than the time to the next prune.
NothingTooOld == keepAge > 0 => \A i \in 1 .. Len(lines) : lines[i] <= keepAge + sincePrune

\* The log is bounded, also when it is never pruned by age; a restart forgets how
\* many lines were written.
LogBounded == Len(lines) <= KeepLines + written + boots * (PruneEvery - 1)

=============================================================================

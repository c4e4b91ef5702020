# Nexrelm: a verification project

TLA+ models of Nexrelm, a self-hosted control plane for a local network: its DHCP
server and DNS filter, its administrator account and inline gateway, the jobs it runs
in the background, what it does about intruders, the pages it is steered by and the
scripts that install it. TLC checks the models on small instances; TLAPS proves the
main results for every value of the constants. Paths below are under `src/`; `cp/`
stands for `apps/control-plane/src/`, `web/` for `apps/web/`.

- [The system](#the-system)
- [Modules](#modules)
- [Runs](#runs): what each checks, its bounds, its fairness
- [Theorems](#theorems): what is proved, from what, and how
- [What the runs found](#what-the-runs-found)
- [What is not modelled](#what-is-not-modelled)
- [Plan](#plan)
- [Running the tools](#running-the-tools)

## The system

The control plane is one Node.js process (`cp/server.ts`) that serves a REST and
WebSocket API to a Next.js interface (`web/`), runs a DNS resolver and a DHCP server on
UDP sockets, watches the network, and keeps its state in SQLite and JSON files. A
second program, `nexrelm` (`cp/cli.ts`), edits the account file of the same
installation. Routing through the box is switched by a root helper,
`deploy/nexrelm-gateway.sh`, run through sudo; it leaves a watchdog process behind.
Root's scripts under `deploy/` install, move, back up and remove all of it.

Everything in the control plane runs on one thread: a handler without an `await` is
atomic. What is hard is therefore exactly this: handlers that do wait (a failed
sign-in sleeps, a rebuild downloads, a question goes upstream, a scan is a child
process); copies in memory of what is in a table; two processes over one file;
processes that die in the middle; pages that act on what they loaded a while ago; and
long sequences of messages from many clients.

| part | state | operations | talks to |
|---|---|---|---|
| DHCP server (`cp/dhcp/`) | tables of scopes, exclusions, reservations, leases, filters, options | DISCOVER, REQUEST, RELEASE, DECLINE, INFORM; edits; hourly prune; a probe for other servers | clients over UDP |
| DNS filter and resolver (`cp/dns/`) | tables of entries, lists, downloaded names, clients, groups, the log; the compiled lookup, cache, sinkhole and pause in memory; sockets | questions; edits; rebuild of the lists; pause; start, stop and settings | upstream resolvers, list servers, the threat feeds |
| Account (`cp/core/auth.ts`, `cp/cli.ts`) | `auth.json`: password hash, sessions, failures, lockout | setup, sign-in, verify, sign-out, change and reset of the password | the CLI, through the file |
| Inline gateway (`cp/security/gateway.ts`, `deploy/nexrelm-gateway.sh`) | an nftables table, `ip_forward`, files in `/run/nexrelm-gw`; mode and heartbeat timer in memory | enable, disable, heartbeat, status; the watchdog | the kernel, through the helper |
| Background jobs (`cp/security/scan.ts`, `sniffer.ts`, `intel-feeds.ts`, `inventory.ts`, `vuln-intel.ts`, `autointel.ts`, `baseline.ts`; `cp/directory/ldap.ts`) | one or two flags each, the result last shown, a file | start, cancel, timer, answer, restart | nmap, tcpdump, `ip neigh`, web services, a domain controller |
| Intrusion response (`cp/security/heuristics.ts`, `events.ts`, `response.ts`, `remediation.ts`, `firewall.ts`) | tuning, a feed with cooldowns, sources blocked, threats pending, an ordered rule list and its file | detect, report, block, remediate, edit rules | the log, the capture, the operator |
| Fleet and domain (`cp/vms/`, `cp/net/ssh.ts`, `cp/security/vault.ts`, `cp/directory/`) | machines with encrypted passwords, their telemetry; accounts of the domain | add, edit, remove, collect, terminal; add and change users | SSH, LDAP |
| Live view (`cp/core/world.ts`, `cp/routes/ws.ts`, `web/components/providers/`) | a simulated world, its subscribers; a snapshot and its updates in the page | emit, subscribe, reconnect | every open page |
| Pages (`web/`) | what was loaded and what was typed | fetch, poll, send, redirect | the REST API |
| Installation (`deploy/*.sh`) | directories of data, unit files, a pin, backups | install, update, move, back up, restore, reset, uninstall, set up the gateway and DNS | systemd |

`PROJECT.json` lists every part with its files and what is left out of it, and, under
`hazards`, each place in the code where a step out of order, a stale copy, a crash or
a limit bites, with the properties that watch it.

What makes each part correct:

- **DHCP**: no address is promised to two clients at once; a row in use goes to nobody
  else; what is offered is also granted; a client that keeps asking gets an address,
  and is told what is configured for it.
- **DNS**: the lookup in memory is what the tables say; a client is refused a name
  exactly when the tables say so, whatever is cached; what was downloaded comes into
  force; no socket is lost; every upstream is asked before a question is given up.
- **Account**: the file holds exactly the sessions handed out and not ended; the
  password in force is the one last set; N failures lock the account and nothing
  shortens the lock.
- **Gateway**: routing never stays on without somebody to revert it; the value to go
  back to is never lost; the watchdog reverts a dead session and spares a live one.
- **Jobs**: what is shown as running has a process; what was cancelled reports nothing;
  a failed fetch loses nothing that was known; what was begun ends.
- **Response**: the rules stay one order, read alike by every reader; a source that is
  listed as blocked is blocked; nothing severe hides behind something mild.
- **Pages**: what is shown is what was asked for, and never older than before; what is
  sent changes what the operator changed.
- **Installation**: data is never lost; the service serves the data it served before;
  what uninstall promises to take away is gone.

## Modules

Each module keeps to one part of the code (or two that belong together, as separate
specifications in one module), with its variables, `…Init`, one action per operation and
`…Next`. Definitions that begin "A bug to be caught" are not part of any specification:
they are variants of the definition that follows, and show that the properties notice
the bug.

| module | models |
|---|---|
| `LeaseAuthority` | the abstract promise of a DHCP server: one owner per address |
| `DhcpLeases` | `cp/dhcp/server.ts`, `allocator.ts`, `db.ts`, `cp/routes/dhcp.ts`; refines `LeaseAuthority` |
| `DhcpReplies` | the options of a reply and their bytes (`server.ts`, `options.ts`, `packet.ts`); the probe (`probe.ts`) |
| `DnsFilter` | lists, lookup, decision, cache, rebuilds, pause (`cp/dns/`, `cp/security/blocked.ts`, `remediation.ts`) |
| `ResolverRecords` | clients and groups, the page that orders the lists, the log with its chart and its pruning |
| `ResolverSockets` | start, stop and apply-settings of the resolver |
| `Forwarding` | the turn of the upstreams, their timers and health, the rate limit |
| `AuthStore` | the account (`cp/core/auth.ts`, `cp/cli.ts`) |
| `SignIn` | the gate in front of every page, sign-in and setup |
| `LiveView` | the world, `/ws` and the page that folds it into a snapshot; the simulated commands |
| `PageHooks` | polling of a path; a terminal |
| `PageForms` | the page of users; the forms of settings |
| `NetworkSetup` | the DHCP switch in five places; the wizard of the first start |
| `NetworkMap` | the map of the network and its layout |
| `DirectorySession`, `DirectoryAccounts` | the bind to a domain controller; accounts made through it |
| `VmFleet` | machines, their passwords' key, telemetry |
| `SecuritySettings` | the settings of threat intelligence |
| `AutoIntel` | the queue of automatic lookups |
| `Scanner`, `VulnIntel` | nmap scans; end-of-life data, and the posture judged by it |
| `Capture` | tcpdump's life; the tables, rate and graph read from it; the baseline |
| `ThreatFeeds` | refreshes of the feeds and the sinkhole's copy |
| `DeviceRegistry` | inventory, registry, trust, the tick and its alerts, sweeps |
| `Detectors`, `EventFeed` | the thresholds and the tuning; the feed with its cooldowns, the pause, ARP changes |
| `PolicyFirewall`, `RuleList`, `Response` | the ordered rules; a plain list they implement; active response and remediation |
| `Gateway` | `cp/security/gateway.ts`, `deploy/nexrelm-gateway.sh` |
| `Installation` | `deploy/install-nexrelm.sh`, `nexrelm-cli.sh`, `install-gateway.sh`, `setup-dns.sh` |
| `MCDhcpLeases`, `MCDnsFilter`, `MCDetectors` | instances for TLC |
| `MCBackground`, `MCConsole`, `MCResponse`, `MCServices` | several parts side by side in one run (below) |
| `…_proofs` (8) | the theorems of the modules they extend |

Parts that share no state are checked side by side: the variable `part` of a composite
is chosen at the start and says which part moves; the others rest in one initial
state. The state space is then the sum of the parts', not their product. Parts that do
share state are composed for real: `DnsFilter` with the pages that edit its tables,
`Response` over `PolicyFirewall`, `ThreatFeeds` with the sinkhole, `Gateway`'s control
plane, helper and watchdog, `AuthStore`'s two processes.

### DhcpLeases

`lease` is the table `dhcp_leases`, keyed by its UNIQUE column `ip`; `reservations`,
`excluded`, `admitted` (MAC filters) and `scopeOn` are the other tables as far as one
scope's decisions read them. A reservation has the flag `here`: TRUE in this scope, FALSE
in another, because `reservationByMac` looks for a MAC in any scope and may hide the one
that counts. `SELECT` without `ORDER BY` can put any matching row first, so
`ReservationByMac` and `LeaseByMac` are sets of possible answers.

`held[c][a]` is the client's side: how long the ACKs sent to `c` for `a` still run. It is a
history of what the server promised, and no guard of the server reads it. `touched` holds
the addresses whose rows the operator took away, or reserved, while they could be in
use: there he overrides the server.

One message is one step (`handle` has no `await`). DISCOVER and REQUEST may come from any
client, for any address, at any time, so loss, delay, repetition and reordering of them
need no network. The messages by which a client gives something up (RELEASE, DECLINE, a
REQUEST to another server) do: the client lets go when it sends, the server learns later.
`Prompt = TRUE` is a network that delivers or loses such a message once, before the
client's next message and before the clock moves; `Prompt = FALSE` is one that does as it
likes. The code has no defence against the latter (a repeated RELEASE frees an address
its sender has since leased again), which is why exclusiveness is stated for a prompt
network and only `NoTakeover` for every network.

Time is what is left of it: a row holds its remaining `ttl`, and `Tick` takes a unit from
every row and promise, so no clock needs a bound.

### DhcpReplies

`levels` are the configured options of the server, its scopes, a reservation and policies;
a reply merges them in `buildOptions`' order, encodes each by its kind and the client reads
the bytes back (`ReadAsConfigured`). The probe sends a DISCOVER of its own and lists who
answers until its timer; offers may be late, meant for another probe, or the server's own,
whose pool sets an address aside for each (`VerdictFair`).

### DnsFilter

`manual`, `adlists`, `gravity` and `clientGroups` are tables; `compiled` is the lookup
`lists.ts` builds from them; `stored` and `blocking` are the pause in the settings table
and the resolver's copy of it. A pattern is the set of names it covers, so exact entries
(which cover their subdomains) and regular expressions are the same thing here. `Answer`
follows the order of `Resolver.handle`: local names, the lists and the sinkhole, the cache,
then upstream. Two handlers wait: a question sent upstream (`flights`; its answer is cached
whatever was configured meanwhile) and a gravity rebuild (`rebuild[w]`: what worker `w` has
yet to fetch, chosen when it starts; lists may be edited or deleted and other rebuilds may
run while it waits). At its start the control plane adds the built-in list and the public
lists it knows (`Seed`). `missed` is a history variable: TRUE from an edit that does not
call `recompile` until the next one that does.

### ResolverRecords

The table of clients (an id is used once) and the page that assigns groups from rows it
loaded earlier (`AssignedAsMeant`); the lists, whose place is changed by swapping
priorities computed on the page (`MovesWork`); and the log, as the age of each line, which
is pruned by count on every N-th write and by age every hour, with the buckets of the
chart (`ChartAgrees`, `NothingTooOld`, `LogBounded`).

### ResolverSockets, Forwarding

`stop` waits for the connections of the TCP listener, and another settings change may
start meanwhile: `waiting` keeps the starts that have yet to bind, `open` every socket the
process has, `udp` and `tcp` those the next stop would close, `busy` the TCP connections
whose client asks again before the ten seconds of inactivity are over. In `Forwarding` a query holds
the servers it has yet to ask, in the order `rr` gave it, while `configure` may replace the
list; the health shown is by server, and `passed` is a history of what the rate limit let
through.

### AuthStore, SignIn

An operation reads the file whole, changes the record and writes it whole. The model has
the read and the save as separate steps (`write[p]` is what process `p` is about to save),
since the other process can act in between. Within the control plane only one operation
waits between them: a failed sign-in sleeps 400 ms (`asleep` is the queue of what those
sign-ins read; all sleeps are equally long, so they end in order). Sessions are a function
by token: tokens are numbered as they are issued, so the order in which sessions were
added is the order of the tokens. `Overlap = FALSE` is a system in which nothing starts
while an operation is under way. `Killed` is a process that dies before its save, or inside
`writeFileSync`, which empties the file first (`Torn`); `load` takes a file it cannot parse
for a missing one. `issued`, `ended`, `password` and `badRun` are histories of what the
operations reported. `SignIn` is the browser's side: the gate's questions, of which only
the one asked last may redirect, against an account and a token that change meanwhile.

### LiveView, PageHooks, PageForms

`LiveView`: the server's subscribers and the page's sockets are separate ends of each
connection, with what is on the wire between them; a page that reconnects keeps its
snapshot and folds in what arrives. The second specification is the simulated fleet and
firewall and the page's optimistic commands. `PageHooks`: fetches carry the number and path
they were started with, and answers come in any order; a terminal has a socket (`sock`), the
server's side of it (`served`) and an SSH connection (`ssh`) that close one after the other
in any order. `PageForms`: `onFile` against what each form loaded, types and sends whole.

### NetworkSetup, NetworkMap

The DHCP server is switched in the status bar, in its settings, on the gateway page, on the
posture page and in the wizard; each shows what it fetched last. The wizard's two checks
sample the capture, which others restart. `NetworkMap` builds nodes and links from the
inventory, the domain's computers (kept for 60 s, per session) and the managed machines,
and lays out the tree.

### DirectorySession, DirectoryAccounts, VmFleet, SecuritySettings

`call` holds where each connect, disconnect or restore waits; `client` is the one in use,
`bound` those the controller still holds, `file` the retained credentials. An account is made
in three requests, between which other operators act. `VmFleet` has the list and the key
each in memory and on file, with kills between and inside writes, and collections that end
after their machine was removed or edited.

### Scanner, VulnIntel, Capture, ThreatFeeds, AutoIntel, DeviceRegistry

What these share is a report that arrives later than the state it was asked in: a child's
close event (`Scanner`, `Capture`), a download (`ThreatFeeds`, `VulnIntel`, `AutoIntel`), `ip
neigh` (`DeviceRegistry`). Each keeps what is under way as state (`child`, `tcpdump`, `at`,
`fetching`, `looking`, `syncs`) and the module's variables as the report finds them.

`Capture` has three specifications: the processes; the tables (`tables`, each a sequence in
order of insertion, of at most `TableCap` rows until a chunk ends) filled from chunks that
cut lines anywhere (`torn` has the frames that were cut, `Rests` what an address becomes
that lost its beginning), against a history `onWire` of what was really there, with the
rate and the graph of the overview; and the baseline's row, whose numbers are exact
fractions (the rounding of floating point is left out). `VulnIntel` has the refresh with its batches and retries, and
`scorePosture` over what a scan found.

### Detectors, EventFeed, PolicyFirewall, Response

`Detectors` is a function of traffic, checked at values around each threshold, at every
sensitivity; `EventFeed` the reports over time. `PolicyFirewall` numbers its rules; the
verdict (`evaluate`) and the exported script read them in the same order or not. A rule is
for a set of services (its protocol and port), which the script reads and `evaluate` does
not. A PATCH may change anything in a rule, its number too (`renumbered`).
`Response` blocks a source by a rule and remembers it in memory only, so that a restart, an
operator and a failed write can each separate the two.

### Gateway

One step is one command of the shell script. Runs of the helper (`call`), watchdogs (`dog`)
and the control plane (`up`, `mode`, `heartbeat`) interleave freely over the kernel's state
(`table`, `forward`) and the files in `/run/nexrelm-gw` (`rundir`, `saved`, `alive`). A tick is
one heartbeat interval (20 s of the 90 s after which the watchdog acts); ages above the
limit are one value. `Abort` is `set -e` after a failed command or the 8 s timeout of
`execFile`; `Crash` loses the memory of the control plane and leaves running helpers alone;
`broken` says that an enable broke off and nothing has reverted since. `Calm = TRUE` is an
operator who lets an enable or disable, and the watchdog of a session that ended, finish
before the next.

### Installation

A script is the list of its steps; it may break off after any, and then another may run.
`dir` is what each directory holds, `host` root's files and what systemd has read of them,
`service` the directory of the running control plane, `past` the history the promises are
about: the data in use, the script that ended last, and whether one broke off or did
other than it should (`past.went`). The ways to go wrong are those of the code, listed
[below](#what-the-runs-found): a re-run of the installer over a pin, a backup restored under
another directory name, a move into a directory that exists.

## Runs

Eight runs pass; four show a disagreement between the code and what it says of itself
(under [What the runs found](#what-the-runs-found)). A property with several names below
it is their conjunction: each part is a definition of its own, with its comment, in the
module of its subject.

**`dhcp_protocol`** (3 clients, addresses 1..3, a prompt network, leases of 2 ticks; address
3 is reserved for `c1`, another scope reserves it for `c2`)

- `IInv`: the inductive invariant of the proof. `Exclusive`: no address is promised to two
  clients.
- `OfferStands`: an offer that has not run out is granted when asked for.
- `ImplementsAuthority`: refinement of `LeaseAuthority`.

**`dhcp_edits`** (2 clients, 2 addresses, every edit the operator has)

- `Exclusive` for all addresses he did not touch.

**`dhcp_late`** (2 clients, range 1..2, a reservation in another scope; give-up messages
late, repeated, lost, out of order, 2 on their way)

- `NoTakeover`: a live row goes to another client only by a reservation for it.
- `Served`: a client that keeps asking gets an address.

**`dns_rebuild`** (4 list ids, lists switched, deleted and added while 2 rebuilds are under
way)

- `CompiledFresh`: the lookup is what the tables say (manual entries at all times; lists but
  for rebuilds under way; never a deleted or disabled list).
- `Settles`: what was downloaded comes into force.

**`dns_answers`** (10 parts: what the network is answered, and the pages that steer it)

- `AnswersByTheTables`: a client is refused a name exactly when a rule about the tables,
  written independently of `Lookup`, says so. 1 name covered by lists, 1 local, 2 clients
  moved between 2 groups, 1 manual entry, 2 lists, 1 rebuild.
- `ServicesKept`: `AssignedAsMeant`, a client is in the groups chosen for it, though ids and
  rows change while the page is stale; `ChartAgrees`, `NothingTooOld`, `LogBounded` of the
  log; `FormsKept`, what a form says it saved is on file and enforced; `MovesWork`, a list
  that is moved passes its neighbour; `NothingMixedUp`, a user's fields are sent for that
  user; `ServedAsOnFile`, the DHCP server runs with the settings on file; `WizardHonest`,
  what the wizard reports was so; `ReadAsConfigured`, a client reads what is configured
  for it; `VerdictFair`, the probe's list is who answered it.

**`background_jobs`** (12 parts that wait on children, sockets, downloads and timers)

- `ScansConsistent`: a scan shown as running has a child, one runs at a time, the history is
  in step with what was reported. `CancelledStays`: a cancelled scan's report changes
  nothing.
- `ReadingsRight`: `CaptureKept`, every tcpdump is one that stop kills; `TrafficKept`, the
  tables claim nothing (no talk, no conflict of addresses) that frames on the wire did not
  show, but for rows given up and lines that were cut; a cut line adds no host but the private
  one that a public address ends with (`Invented`); the graph counts the packets of
  the headline; `PostureSound`, no further fact and no further year
  betters the score, a critical finding bars the grades A and B, an exposed service counts as
  its worst risk, and a branch that is still supported is not called outdated.
- `FeedsInForce`: what the latest refresh has downloaded is in force. `CatchesUp`: the
  sinkhole follows the feeds, and the resolver's sockets the settings, unless a client keeps
  the old listener's connection busy.
- `SocketsKept`: every open socket is one the next stop closes, on the port asked for or the
  fallback.
- `OneAlertPerDevice`: a device raises one alert in its life. `TrustIsTheOperators`: nothing
  but his decision changes what he decided of a device.
- `SessionKept`: a retained directory session is the one in use; after a disconnect no
  password is on disk and no connection open.
- `KnownStays`: a failed fetch forgets nothing.
- `ForwardingFair`: SERVFAIL only after every server was asked, turns are shared, health is
  of the list in force, the rate limit holds over every window.
- `RowIsExact`: the running mean and spread are those of all samples. `QueueSound`: the
  queue of lookups stays within its bound, and nothing waits in it twice.
- `JobsEnd`: scans, discoveries whose sweep has started, refreshes and queries end, and each
  queued indicator gets its turn.

**`response`** (detectors at every threshold; the feed; the rules, 3 at a time, with 1
source, 1 zone and 2 services, which a PATCH may number 1; the map)

- `PolicyOrdered`: no two rules share a number unless a PATCH gave one; the exported script
  decides as `evaluate` does where the rule that `evaluate` goes by is for the packet's service
  (elsewhere they differ, [see below](#what-the-runs-found)). `AddedDecidesTheRest`: a rule
  that is added changes no verdict another rule had given. `IsRuleList`: refinement of
  `RuleList`, until a PATCH numbers a rule.
- `ThreatsHandled`: a source listed as blocked has its rule unless the operator took one of
  it away; what was applied or dismissed does not come back.
- `AlertsKept`: `DetectionKept`, a higher sensitivity sees no less and no milder, and trust
  silences scans only; `WorstIsTold`, while a detection lasts it is reported at its severity
  within the cooldown; `MapSound`, every device is on the map once, in a tree, and another
  domain's no longer than answers are kept.

**`console`** (12 parts between the operator and the control plane)

- `AccountExact` (operations one after the other, with kills): `SessionsExact`,
  `LockoutThreshold`, `PasswordInForce`. `LockoutSticks` (up to 5 failed sign-ins asleep at
  once): nothing undoes a lockout.
- `PagesKept`: `GateHolds`, no page is seen before the server has vouched for the session;
  `LiveKept`, `SimulatorKept`, the page shows each fact once and in order; `ShownIsAsked`,
  what is shown is of the path asked for; `TerminalKept`, a terminal and the shell behind it
  are both there or both gone.
- `NothingComesBack`: `NeverOlder`, an older answer never replaces a newer one; `RemovedStays`
  of machines.
- `SecretsKept`: `AddedAsAsked`, an account reported as added is as asked; `SecretsReadable`,
  every stored password is under the key on file; `SettingsStored`, what is shown is on
  file.
- `InstallationKept`: `NothingLost`, `ServesItsData`, `NothingLeft`, over 2 directories and 3
  scripts.
- `RoutingWatched`, `Recoverable`, `WatchdogSparesLive` of the gateway (2 helper runs, 2
  watchdogs, 2 enables, crashes, restarts, enables that break off).
- `ConsoleSettles`: wrong passwords that keep coming lock the account; the gate ends at a
  page; listeners, shells and collections go; a dead gateway is reverted (`DeadMan`).

### Why the bounds are enough

The bounds stand in the `.cfg` files. In general: two actors where a conflict needs two, a
third where it needs a bystander, and every limit of the code (sessions, log lines,
queue, table, ring, pool) set so low that it is met.

- DHCP: two clients are needed to conflict, a third to take the address while two others
  disagree about it; two free addresses let a client hold one and be moved to another.
  Leases of two ticks tell "not run out", "about to" and "run out" apart; with one tick
  only the middle case is lost: edits do not read the time, and a late message is late by
  any number of ticks. One give-up message on its way meets an edit, two overtake each
  other.
- Account: `MaxFails` 3 so that a count can be one too low and one too high; two sessions
  kept and three issued so that eviction happens; five sleepers, more than `MaxFails`, so
  that failures end after the lock is set.
- Gateway: two helper runs so that enable meets disable or a heartbeat; two watchdogs so
  that one of an earlier session meets the next; two enables are what re-enabling needs.
  `StaleAge` is 2 rather than 4 heartbeats; it only has to be more than 1.
- DNS: a decision is about one name, and lists do not interact across names.
  `dns_answers` has what a decision reads: two clients that share the cache, two groups,
  priorities and both types, so that every order of precedence occurs. `dns_rebuild` has
  what a rebuild reads: two rebuilds let one recompile what the other is in the middle
  of, four ids let a list be deleted and another added meanwhile.
- Jobs: two calls of each kind overlap; a third process or product is there where two
  must be left behind. Tables of one row meet their limit with two hosts; three lines, one
  cut anywhere, give every way to misread one; three indicators overflow a queue of two.
- Rules: two services tell a rule for one port from a rule for all; the number 1, given by
  hand, puts a rule first or makes it share the number of the first.
- Installation: three scripts are needed to move, remove and install again, or to back
  up, reset and restore; two directories are where data is and where it is not.

### Fairness

No fairness is assumed of the operator, of crashes or of restarts, and none of a step
that has no timer or process behind it.

- `dhcp_late`: strong fairness for a client's DISCOVER and REQUEST. This is an assumption
  about clients, which retry by protocol, and the network, which does not lose every one
  of infinitely many messages; the server contributes that it answers. There are as many
  addresses as clients and clients ask for what they were offered.
- `dns_rebuild`: a download ends, because it is cut off after 25 s (`cp/dns/index.ts`).
- `background_jobs`: nmap ends (it is killed after 600 s); a sweep and a fetch end (timers);
  a TCP connection on which nothing is sent ends (10 s of inactivity), while none is assumed to
  end that its client keeps using; upstreams have their timers; the sinkhole and
  the lookups have their intervals, and a lookup is answered or its connection ends.
- `console`: the sleep of a sign-in ends and a save is done; someone keeps guessing, which is
  the premise of that property; the gate is answered; the server hears of connections
  that ended; SSH has a timer of 12 s; helpers and watchdogs make progress, time passes and
  the heartbeat's timer fires.

Deadlock is checked in `dns_rebuild` and `background_jobs`. In the others bounded counters
(leases to come, passwords, enables, scripts, presses) let a behaviour end.

## Theorems

All proofs are checked by tlapm, from nothing but the named assumptions on constants
(each evaluated by TLC in the runs). The theorem of a part of a composite run is stated
of the part's own specification, without fairness and without the bounds of the run;
`LockoutIsKept`, `NothingIsUndone`, `SecretsAreKept`, `PagesAreKept`, `ServicesAreKept`,
`AlertsAreKept` and `ReadingsAreRight` are stated of `MCSpec` itself. Every invariant that a
run checks is now a theorem.
Every proof has the same frame: an inductive invariant, one lemma per action that
disturbs it, one temporal step.

**`DhcpLeases_proofs`**

- `TypeCorrect`, for any clients, addresses, range and edits.
- `PromisesAreKnown`, `NeverTwoHolders` (`Prompt`): `IInv` and `Exclusive`. `Exclusive` is not
  inductive: it says nothing about what the table knows. `IInv` adds `PromiseCovered` (every
  promise that runs is a row of that client, active or offered, with at least as much time
  left), `RowMatchesReservation` (a reserved address has no row of another client, or
  `canAssign` would give it away under it), `ReservedOnce`, `PendingIsCurrent` (a RELEASE on
  its way is about a row its sender still has) and `OneMessage`. `allocate` and `canAssign`
  write `c` into a row on one of three grounds only (reserved for `c`, already `c`'s, or free:
  `AllocateSound`, `CanAssignSound`); on each ground a live row is `c`'s already (`OnlyOwner`);
  hence what both handlers write keeps every promise covered (`WriteRow`).
- `LiveRowsStay`: `NoTakeover` on any network, from the same two lemmas.
- `ServerIsAuthority` (`Prompt`, edits of exclusions and filters only, under which no row is
  taken away: `LeavesRows`): the refinement of `LeaseAuthority`. `IInv` makes the owner of an
  address unique (`OwnerIs`); then every step grants one address, ends promises, or stutters.
- `OffersAreGranted` (`Prompt`, no edits of these tables, one reservation per client at first):
  `OfferStands`, by `AllocateAssignable`: what `allocate` may choose, `canAssign` accepts.

**`Services_proofs`**

- `TypeCorrect`; `LookupFresh` (`CompiledFresh`), for any number of lists, clients, groups
  and overlapping rebuilds. `IInv` adds `UnusedIds` (an id not given out yet has no downloaded
  rows: otherwise adding a list would bring rows into force that were never compiled).
- `TablesDecide`: `AnswersByTheTables`, where priorities have an upper bound, as those of a
  column of machine integers do (`HighestPrio`). `FirstExists`: among the entries that match
  there is a first in the order of the lookup; `LookupSays` relates it to the rule about the
  tables.
- `ServicesAreKept`: one invariant a part, and the parts leave each other alone. `ClientsInv`:
  an id a stale page holds is never another client's, and groups on the page are those on
  file. `ListsInv`: priorities in range, so that a move passes its neighbour. `LogInv`: the log
  is in the order of time, so that what is too old is its beginning; the bars of the chart
  are cardinalities of the parts of the series, which add up to it. `FormsInv`: a form that
  nothing has overruled is on file and enforced (`standing`, `Taken`). `UsersInv`: fields
  travel with the name they were typed for. `WizardInv`: of a check and a call under way, what
  each has seen so far. `ProbesInv`: the timers of probes run out in the order in which they
  were begun, so the last one's verdict is the one shown. `RepliesInv`: what a client reads
  from a reply is what is configured. For the last, the bytes of options, one after the other,
  are read back as those options (`DecodeIs`: the least place at which they are not), a
  reply's options are one for each code and short enough for their length byte (`BuiltAre`),
  and merged levels have for each code what the most specific one has (`MergedHas`).

**`Scanner_proofs`**

- `ScannerTypeCorrect`, `ScansStayConsistent` (from `FlagHasChild` and `ScansInStep`),
  `CancelledIsKept`. The invariant adds that a killed child has yet to report (`KilledReports`) and
  that a scan shown as cancelled was cancelled last (`CancelledIsFlagged`).
- `KnownIsKept`: `KnownStays`, of `VulnIntel`.
- `CaptureIsKept`: `CaptureKept`, of `Capture`. `CaptureInv` adds that without hurry one start waits at
  most, while it waits no tcpdump is outstanding, and one that captures is the only one
  outstanding.
- `TrafficIsCounted`: `TrafficKept`. `TrafficInv` relates three things to the lines: the counts
  of each table (`CountsInv`), the packets of each second that is kept (`RateInv`), and the
  end of a line that has not come yet (`UnreadInv`: it binds no address, and names hosts that
  the line had named, or the one that the sender's address ends with). A reading counts once what it notes (`EnterCounts`; `EachEntered` for
  all of a chunk, by the least reading at which the tables would not be so); the readings of
  a chunk are its lines, moved by one, because the first belongs to the line before
  (`ShiftedCount`, `ChunkTimes`, `DeltaIs`); rows that are given up only lower counts
  (`BoundedCounts`). A sum is a number of units (`Sum`), so that sums over disjoint sets add up
  (`SumJoined`, `SumAdded`, `SumOfParts`); the bars are such parts, a second falls into one of
  them by integer division (`BarIs`), and only the second at the edge of the window into none
  (`GraphIs`).
- `ReadingsAreRight`: `CaptureInv`, `TrafficInv` and, for the posture, that what is scanned is a
  finite set of facts (`PostureInv`). Penalties are sets of marks (`Marks`): more facts and more
  years mean more marks (`MoreMarks`, `YearMarks`), and a finding has its own (`FindingCosts`).
- `RowStaysExact`: `RowIsExact`. That a sum is defined for every number of samples, and that it
  is the sum of one less and the last sample, is shown by the least number for which it would
  not be (`SumsExist`, `SumIs`, `SumNext`); the code's update of the mean and of the spread is then
  an identity between fractions (`MeanMoves`, `SpreadMoves`).

**`Registry_proofs`**

- `OneAlertEver`, `TrustStays`: `RegistryInv` adds that a device whose alert a kill prevented has
  its row, so that it never counts as new again.
- `SessionIsKept`: `DirectoryInv` adds, for calls that have not overlapped (`~tangled`), that one
  is under way and a bound connection is the client in use or the one it is unbinding
  (`OneByOne`), and that an operator who disconnected waits for the unbind or has nothing
  left (`Forgetting`).

**`Resolver_proofs`**

- `NoSocketIsLost`: `SocketsInv` adds that, as long as no start was called while another one
  waited, one waits at most, it has closed everything, and it will bind where the table
  says.
- `LastRefreshIsInForce`: `FeedsInv` adds that, without an older refresh under way, what is
  in force is of feeds the latest one has passed.
- `UpstreamsAreFair` (lists without repetitions): `ForwardInv` has four parts. `QueriesWell`: the
  rest of a query's list is what it has not asked of the list it was given. `TurnsWell`: each
  server was first as often as the turn counter says, by arithmetic of `%` (`InTurnIs`,
  `ModNext`); it needs `Cycle` to be a multiple of every list's length, which the bound on the
  counter, not the code, brings in. `HealthOfThisList`. `RateWell`: what was let through in any
  window is at most the counted window and one older window.
- `QueueIsSound`: `IntelInv`. The loop that fills the queue is a recursive function: that it has
  a result at each query, which adds nothing twice, is shown by the least query at which it
  would not (`LoopRuns`); that it has one only, by the least at which two differ (`FreshIs`).

**`Response_proofs`**

- `PolicyIsOrdered`, `ThreatsAreHandled`, `AddedIsLast`, for any rules, zones, sources and
  inputs, services and numbers given by hand. `ResponseInv` adds that order numbers are distinct
  as long as none was given by hand (`OrdersDistinct`), that the rule of
  a blocked source stands (`BlocksStand`), and what is handled stays so. A finite set of
  numbers has a least and a greatest (`NatMin`, `NatMax`), which gives the rule read first
  (`FirstIs`) and the number of a new one (`NextOrderIs`).
- `RulesAreAList`: the refinement `IsRuleList`. The list counts how many rules come before one
  (`Nth`), so the invariant adds that the rules can be put in a row by their numbers
  (`Listed`): then the cardinality of a beginning of the row is its length (`PrefixCounts`), the
  `n`-th rule is the one at place `n` (`InOrderIs`), and each step of the rules has its step of
  the list (`AddedLast`, `EditedInPlace`, `DeletedCloses`, `MovedPast`).
- `WorstIsAlwaysTold`: since a detection began, either its key was reported at its severity, or the
  last report is older than the detection (`TellsWell`).
- `DetectionIsKept`: every threshold falls as the sensitivity rises (`ThresholdFalls`), so that more
  is pushed (`PushedMore`); of the alerts with one id one is the worst (`WorstIs`,
  `WorstIsOne`).
- `DevicesArePlaced`: `MapInv` adds that the inventory has one row an address, a domain's
  computers have names of their own, and an answer that is kept is no younger than a switch
  of the session that it missed (`CacheOK`). That it can be drawn (`CanBeDrawn`): every link
  goes to the gateway or to the one controller that holds the domain, so there are two rings
  about the middle; depths are 0, 1 and 2, every node has one way down to it, and the ways
  that end are as many as the leaves.
- `AlertsAreKept`: `DefenceInv`, the invariants of the detectors, of the feed and of the map.

**`Console_proofs`**

- `AccountIsExact` (`~Overlap`): `AccountInv` adds that one process at most is about to write,
  that what it is about to write is what the file must be once its operation is reported,
  and that a sleeping sign-in has read the file as it is.
- `LockoutIsKept`: what the sleeping sign-ins read counts no more failures the earlier it was
  read, and at most one less than the file; once the account is locked, each of them is the
  one that makes it `MaxFails`.
- `NothingIsUndone`: `PollInv` (what is shown is no newer than any fetch that may still
  replace it) and `FleetInv` with `AskedOf` (a collection only writes to a machine that is in
  the list when it ends).
- `SecretsAreKept`: `AddedInv`, by how far each call is; the key on file is the one in memory
  once a password is stored (`FleetInv`); `SettingsInv`.
- `PagesAreKept`: five invariants, of which each needs something a page does not show.
  `GateInv`: one check of the gate is heeded at most, that of the address the browser is at.
  `LiveInv`: one connection is current at most, the others have nothing left on the wire, and
  what the wire of that one holds came in order and after all that is shown (`Pending`), so that
  folding a message in keeps the lists in order (`StaysSorted`) and the short list of alerts
  the front of the long one (`FirstOfNewest`). `SimulatorInv`: a rule is shown as it is unless
  an odd number of requests is under way for it (`RulesInv`), a machine is shown as the last
  request for it asks (`VmsInv`), and the points shown and those on the wire are one run of
  numbers (`PointsInv`). `AskedInv`: the fetch that may still be taken is of the path shown.
  `TerminalInv`: while a call of `connect` waits there is no socket.

**`Gateway_proofs`**

- `ForwardIsRecoverable`, `RoutingIsWatched`, `WatchdogWaits`, all under `Calm` and all from
  `GatewayInv`: `OnFile` (a changed `ip_forward` has its old value saved), `Alone` (one of enable
  and disable at work), `EnableSoFar`, `DisableSoFar`, `DogSoFar` (what each has done at each of
  its commands), `BeatsInTime`, `OnMeansBeating`, `TableWatched`, `ForwardWatched`.
- `InstallationIsKept`: `InstallInv` = `InstallTypes`, `AnyWay` (whatever breaks off: no
  data is lost, what runs has a directory with data, and a script that stopped it has not
  started it) and, as long as all went well, `WentWell`: one directory at most has data
  (`OneData`), and at each step of each script it is known which (`KnowsWhere`). The steps a script has
  left are one of finitely many rests of its plan (`…PlanStep`), which replaces induction
  over scripts.

What the proofs changed in the models. Wrong, or missing: that two machines at one address
are one node had held only because the run had a single machine, and `NetworkMap` left out
that a machine's address counts as shown (`FirstAt`); the attempt to prove `NothingLost` found
that a restore brings back data that had been purged (`StepExtract` now says so); the rate
limit had to be stated for windows that begin before the counter's; the assumption of
distinct upstreams turned out to be needed, as with a repeated server the turns are not
shared; `QueueSound` now also says that nothing is queued twice, though a name comes in many
queries; the configured values of options must fit their kind for `ReadAsConfigured`
(`ValuesFit`); and the end-of-life data must have one entry a branch (`PostureAssumption`).
Said in another form, so that it could be reasoned about: recursion over data is a recursive
function (`DhcpReplies`: merging and decoding; `Capture`: `EnterEach`) or a cardinality (`Sum`,
`Marks`, the chart of `ResolverRecords`), the layout's depths and leaves are sets (`Reached`,
`WaysDown`), and what a line says is a set of notes.

**Only model-checked.** Liveness (`Served`, `Settles`, `JobsEnd`, `CatchesUp`, `ConsoleSettles`) and
everything under fairness: out of this prover's reach, as is ENABLED. The four sentences that
do not hold are refuted by runs. Where a
bound stands in a guard (`MaxStarts`, `MaxHeard`, `MaxSecond`), the theorem holds for every value of
it.
## What the runs found

Each run that expects a violation checks one sentence of the code's own.

1. `auth_resurrect`. A failed sign-in saves the file it read before its sleep. Sessions
   revoked during the sleep are back ("revoke every other session", `cp/core/auth.ts:231`),
   and a password changed during it is changed back.
2. `gw_stranded`. A kill switch that overtakes an enable removes the directory under it; the
   enable ends at its `date > alive` with the table loaded and no watchdog started, although
   "a crash can never strand the network" (`deploy/nexrelm-gateway.sh:7`).
3. `flood_unseen`. `queriesRecent` hands out 1,000 rows at most (`cp/dns/db.ts:408`), 8.3 a second
   over the two minutes that are looked at; the aggregate alert asks for more than 80
   ("aggregate DDoS: overall query rate spike", `cp/security/heuristics.ts:135`).
4. `install_rerun`. The installer pins the directory of the installation whatever `move-data`
   pinned before: a re-run begins anew in an empty one and makes a second account
   ("Re-running is safe", `deploy/install-nexrelm.sh:13`).

Met while modelling, described here without a run of their own. Where one of them is the
reason why a property has an exception, the exception is named.

**DHCP**
- Step 2 of `allocate` returns the client's existing address without asking whether it has
  been reserved for another MAC, although it "honors reservations" (`allocator.ts:6`), nor
  whether the client has just declined it.
- `buildOptions` asks `msgType !== MSG.INFORM` where it never is INFORM, so replies to INFORM
  carry a lease time. Options of more than 255 bytes corrupt what follows.
- The probe is "read-only" and takes no lease (`probe.ts:8-9`), but the own pool keeps an
  offered row for each probe, and a lone foreign server is not flagged while the own one is
  off or exhausted.
- The statistics subtract exclusions that overlap or lie outside the range.

**DNS**
- "Call after any change" (`dns/index.ts:66`): `unblock` and `applyRemediation` do not call
  `recompile` (`missed` in `CompiledFresh`).
- "top wins conflicts" (`web/components/dns/Lists.tsx:232`): lists of one priority are shown by
  id, while allow beats block.
- The timer of a TCP connection (`resolver.ts:241`) is one of inactivity. A client that keeps
  asking holds `stop` (`resolver.ts:204`), with UDP closed already: after a change of settings
  the network has no resolver until that client falls silent (`busy` in `Serves`).
- "Anonymous mode: no history saved at all" still records clients; disabled groups still
  apply.

**Account and pages**
- Failed sign-ins that overlap start from the same number and count as one, so more than
  `MaxFails` may go by before the lock. That they lock in the end holds.
- A process killed inside `writeFileSync` leaves an `auth.json` that `load` takes for a
  missing one: the installation counts as not set up.
- Forms that send every field revert what another page changed meanwhile: retention
  (`app/settings/page.tsx`, DNS settings), a start or stop of the DHCP server (its settings).
  The hand-off of DNS stays "advertised" on the gateway page after the DHCP settings revert
  it (`overruled`).
- "saved — retention is enforced now" (`app/settings/page.tsx:390`): security events and DHCP
  leases are not pruned on save. "Saved — resolver updated" also of edits made during the
  save.
- The wizard says DHCP "will advertise itself as DNS" and sends only `enabled`; it shows
  "enabled" when the bind failed, and "Capture started" when tcpdump may fail at once.
  `verifyTraffic` reports no packets when the capture restarts during its sample.
- Optimistic commands of the live view are not rolled back (no component calls them yet).

**Gateway**
- An enable that breaks off after `ip_forward` is set has started no watchdog: it stays set
  until the next disable; a second enable that breaks off leaves the mode at on while the
  table is gone (`broken` in `RoutingWatched`, `DeadMan`).

**Jobs**
- The sniffer does not join chunks: a line that is cut is read as two, an ARP request cut in
  its address binds a shorter one and may raise a false critical alert (`torn` in
  `TrafficKept`). A public address cut in its first number may leave a private one: of
  110.1.2.3 or 210.1.2.3 remains 10.1.2.3, which passes `PRIVATE` (`sniffer.ts:39`), is kept
  among the hosts seen (`:143`) and goes into the inventory as a device nobody has
  (`inventory.ts:117`; `Invented`). "bound memory" (`sniffer.ts:175`) drops 100 or 200 rows per chunk, however many
  came, and the oldest rather than the smallest (`lost`). Two starts at once capture twice
  (`hurried`).
- The dashboard's posture score (`routes/security.ts:37-42`) reads 100 while a scan runs.
- A sweep that `execFile` cannot spawn throws after the flag is set (`inventory.ts:160-161`):
  "discovering" is shown until another sweep ends or the process does (`SweepNotStarted`; not
  in `DiscoveryEnds`). A write that fails at the end of a sweep (`:164`) throws in the callback
  and ends the process (`RegistryKilled`); one that fails in a tick loses that tick's alerts,
  and the device is no longer new (`SyncFails`).
- `CACHE_TTL` (`autointel.ts:12`) has no effect: a cached indicator is never asked again, and
  one VirusTotal does not know is asked every time.
- A connection of a scanner that is answered late writes its reachability for the URL that
  replaced it. The pause and the heuristics switch are forgotten at a restart.
- An older collection that fails overwrites newer statistics; a kill inside the write of
  `vms.json` loses the list (`TornFile`).
- A directory call whose account was deleted meanwhile acts on a new account of that name
  (`disturbed`).

**Response and map**
- `evaluate` (`firewall.ts:150-158`) is asked for a source and a direction only: it never reads
  a rule's protocol and port, which `exportNft` writes into the match (`:176`). Any rule with a
  port, as two of the three templates of the page have (`Firewall.tsx:128-130`), is decided for
  all services by the one and for its own by the other: for `evaluate`, "block RDP from the
  internet" drops whatever comes in (`ExportAgrees` is limited to packets the rule is for).
- A PATCH passes any field through (`routes/security.ts:270`). One with `order` can give two
  rules the same number, whose order is then that of the array and not the operator's
  (`renumbered` in `OrdersDistinct` and `IsRuleList`). The page never sends it.
- A source whose rule the operator deleted is still "already blocked" (`response.ts:33`): it is
  not blocked again until a restart (`edited` in `BlocksStand`).
- Own addresses are exempt (`tuning.ts:4-6`, `heuristics.ts:272`), but `isTrustedHost` never asks
  for them. Trust also exempts from the detectors of command-and-control ports and egress.
  At low sensitivity a client at 10 queries a second raises nothing where 5 raise an info.
- A name that the inventory has twice takes the last row, not the "live IP"
  (`topology.ts:11-12`); a second domain controller has no link; a machine's address may be
  counted among the endpoints too.

**Installation** (`past.went` in `ServesItsData`)
- `move-data` into a directory that exists nests the data in it; a backup restored under
  another directory name is unpacked beside the data; a break between the move and the pin
  leaves the service at the old place.
- `setup-dns.sh` is "safe + idempotent" (`setup-dns.sh:3`) and copies the unit with its
  placeholders: the unit cannot be started from it, while a service that was running goes
  on until it is. The help says that `--purge` sets data aside (`nexrelm-cli.sh:285`); it deletes
  it (`:203`). `wait_health` asks over http when the configuration serves HTTPS.

## What is not modelled

Inside the modelled parts: the fixed header of a DHCP packet, the wire format of DNS, the
selection of a DHCP scope for a message (one scope stands for it) and edits of its range
and lease time; the User-Agent binding of sessions; destinations of firewall rules and
their hit counters (a PATCH gives values such as the page's forms send); the waits inside
`adSnapshot` and `buildTopology` (one `Build`); what nmap, tcpdump, VirusTotal and a VM's script print, beyond what a
decision reads; the gateway's port forwards; layout, filters and wording of pages.

Whole parts: the security database's schema, the log bus (a ring of display lines), type
declarations, vendor and name lookups, the scripts that set capabilities and make a
certificate, and the commands of `nexrelm` that only look or restart (`clear`, `rebuild`,
`doctor`, `logs`). Each is a single computation or a single synchronous read or write.

## Plan

Done: every module above; the theorems above. Left, in order:

1. `DhcpLeases`: edits of the scope (`scopeUpdate`). A lease time made shorter also shortens
   the rows of leases granted before, when their clients send a DISCOVER; the promise then
   outlives the row, so `Exclusive` needs a history of the edit.
2. The User-Agent that `verifyToken` compares, port forwards of the gateway.

## Running the tools

    tlc -workers 2 -config dhcp_protocol.cfg MCDhcpLeases
    tlapm DhcpLeases_proofs.tla

`PROJECT.json` names the module of each configuration, the source lines behind each
definition (`map`), and for each property a mutated definition that breaks it (`mutants`).

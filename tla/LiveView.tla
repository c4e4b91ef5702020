------------------------------ MODULE LiveView ------------------------------
(***************************************************************************)
(* The live view of the interface: the world emits what happens, /ws       *)
(* passes it to every open socket, and NexrelmProvider fetches a snapshot  *)
(* once and folds into it what arrives on a socket it opens again each     *)
(* time it closes (core/world.ts, routes/ws.ts, lib/api.ts,                *)
(* components/providers/NexrelmProvider.tsx).                              *)
(***************************************************************************)
EXTENDS Naturals, Sequences, FiniteSets, TLC

CONSTANTS Facts, EventCap, AlertCap, Conns

ASSUME LiveAssumption ==
  Facts \in Nat /\ EventCap \in Nat /\ AlertCap \in 1..EventCap /\ IsFiniteSet(Conns)

VARIABLES
  world,      \* what the server keeps: the newest alerts and leases, and how many are severe
  page,       \* "loading", "live", "demo" or "gone"
  fetched,    \* the parts of the snapshot that have been answered
  snapshot, alerts,
  conn,       \* the page's side of each connection
  listener,   \* the server's side: the subscriptions of each connection
  wire,       \* what was sent on it and not read yet
  retry       \* a timer is set to connect again

liveVars == <<world, page, fetched, snapshot, alerts, conn, listener, wire, retry>>

Kinds == {"alert", "lease"}
Fact == [n : 1 .. Facts, kind : Kinds, severe : BOOLEAN]

Newest(cap, f, list) ==
  LET longer == <<f>> \o list
  IN  SubSeq(longer, 1, IF Len(longer) > cap THEN cap ELSE Len(longer))

First(cap, list) == SubSeq(list, 1, IF Len(list) > cap THEN cap ELSE Len(list))

Severe(list) == Cardinality({i \in 1 .. Len(list) : list[i].severe})

LiveInit ==
  /\ world = [alert |-> << >>, lease |-> << >>, active |-> 0, last |-> 0]
  /\ page = "loading"
  /\ fetched = [k \in {} |-> << >>]
  /\ snapshot = [k \in Kinds |-> << >>] /\ alerts = << >>
  /\ conn = [c \in Conns |-> "unused"]
  /\ listener = [c \in Conns |-> FALSE]
  /\ wire = [c \in Conns |-> << >>]
  /\ retry = FALSE

-----------------------------------------------------------------------------
(* The server.                                                             *)

\* A tick in which something happens: it is kept and sent to every subscriber
\* whose socket is still open.
WorldTick(f) ==
  /\ f.n = world.last + 1
  /\ f.kind = "lease" => ~f.severe
  /\ LET kept == Newest(EventCap, f, world[f.kind])
     IN  world' = [world EXCEPT ![f.kind] = kept, !.last = f.n,
                                !.active = IF f.kind = "alert" THEN Severe(kept) ELSE @]
  /\ wire' = [c \in Conns |-> IF listener[c] /\ conn[c] = "open" THEN Append(wire[c], f) ELSE wire[c]]
  /\ UNCHANGED <<page, fetched, snapshot, alerts, conn, listener, retry>>

\* The upgrade of a connection: the handler subscribes to the world and the log.
Upgrade(c) ==
  /\ conn[c] = "opening"
  /\ conn' = [conn EXCEPT ![c] = "open"]
  /\ listener' = [listener EXCEPT ![c] = TRUE]
  /\ UNCHANGED <<world, page, fetched, snapshot, alerts, wire, retry>>

\* The server hears that a connection has ended.
Cleanup(c) ==
  /\ conn[c] = "closed" /\ listener[c]
  /\ listener' = [listener EXCEPT ![c] = FALSE]
  /\ UNCHANGED <<world, page, fetched, snapshot, alerts, conn, wire, retry>>

-----------------------------------------------------------------------------
(* The page.                                                               *)

\* connect: the next connection of this page.
Opened(cs) ==
  IF \E c \in Conns : cs[c] = "unused"
  THEN [cs EXCEPT ![CHOOSE c \in Conns : cs[c] = "unused"] = "opening"] ELSE cs

\* One of the requests that bootstrap has sent at once is answered.
FetchAnswered(k) ==
  /\ page = "loading" /\ k \notin DOMAIN fetched
  /\ fetched' = [j \in DOMAIN fetched \union {k} |-> IF j = k THEN world[k] ELSE fetched[j]]
  /\ UNCHANGED <<world, page, snapshot, alerts, conn, listener, wire, retry>>

\* All are answered, or one fails and the page shows its own demonstration data;
\* it subscribes either way.
Bootstrapped ==
  /\ page = "loading"
  /\ \/ /\ DOMAIN fetched = Kinds
        /\ page' = "live" /\ snapshot' = fetched
        /\ alerts' = First(AlertCap, fetched["alert"])
     \/ page' = "demo" /\ UNCHANGED <<snapshot, alerts>>
  /\ conn' = Opened(conn)
  /\ UNCHANGED <<world, fetched, listener, wire, retry>>

\* A message is read, and folded in.
Fold(c) ==
  /\ conn[c] = "open" /\ wire[c] # << >> /\ page # "gone"
  /\ LET f == Head(wire[c])
     IN  /\ snapshot' = [snapshot EXCEPT ![f.kind] = Newest(EventCap, f, @)]
         /\ alerts' = IF f.kind = "alert" THEN Newest(AlertCap, f, alerts) ELSE alerts
  /\ wire' = [wire EXCEPT ![c] = Tail(@)]
  /\ UNCHANGED <<world, page, fetched, conn, listener, retry>>

\* A bug to be caught: the error connects again, and so does the close after it.
DroppedTwice(c) ==
  /\ conn[c] \in {"opening", "open"}
  /\ conn' = Opened([conn EXCEPT ![c] = "closed"])
  /\ wire' = [wire EXCEPT ![c] = << >>]
  /\ retry' = (page # "gone")
  /\ UNCHANGED <<world, page, fetched, snapshot, alerts, listener>>

\* The connection breaks or is refused; whatever the reason the socket closes,
\* and what it had not delivered is lost.
Dropped(c) ==
  /\ conn[c] \in {"opening", "open"}
  /\ conn' = [conn EXCEPT ![c] = "closed"]
  /\ wire' = [wire EXCEPT ![c] = << >>]
  /\ retry' = (page # "gone")
  /\ UNCHANGED <<world, page, fetched, snapshot, alerts, listener>>

Reconnect ==
  /\ retry /\ \E c \in Conns : conn[c] = "unused"
  /\ retry' = FALSE
  /\ conn' = Opened(conn)
  /\ UNCHANGED <<world, page, fetched, snapshot, alerts, listener, wire>>

\* A bug to be caught: the timer of a page that has left is not cleared.
LeaveTimerOn ==
  /\ page # "gone" /\ page' = "gone"
  /\ conn' = [c \in Conns |-> IF conn[c] \in {"opening", "open"} THEN "closed" ELSE conn[c]]
  /\ wire' = [c \in Conns |-> << >>]
  /\ UNCHANGED <<world, fetched, snapshot, alerts, listener, retry>>

\* The page is left: an answer still to come is ignored, the timer cleared, the
\* socket closed.
Leave ==
  /\ page # "gone" /\ page' = "gone"
  /\ conn' = [c \in Conns |-> IF conn[c] \in {"opening", "open"} THEN "closed" ELSE conn[c]]
  /\ wire' = [c \in Conns |-> << >>]
  /\ retry' = FALSE
  /\ UNCHANGED <<world, fetched, snapshot, alerts, listener>>

LiveNext ==
  \/ \E f \in Fact : WorldTick(f)
  \/ \E c \in Conns : Upgrade(c) \/ Cleanup(c) \/ Fold(c) \/ Dropped(c)
  \/ \E k \in Kinds : FetchAnswered(k)
  \/ Bootstrapped \/ Reconnect \/ Leave

-----------------------------------------------------------------------------
(* Properties.                                                             *)

NewestFirst(list) == \A i, j \in 1 .. Len(list) : i < j => list[i].n > list[j].n

\* However fetches, messages, breaks and reconnections interleave, the page shows
\* each thing once and the newest first, and the two lists of alerts agree; it has
\* one connection, none while a timer is set for another or once it was left.
LiveKept ==
  /\ \A k \in Kinds : NewestFirst(snapshot[k])
  /\ alerts = First(AlertCap, snapshot["alert"])
  /\ world.active = Severe(world["alert"])
  /\ Cardinality({c \in Conns : conn[c] \in {"opening", "open"}}) <= 1
  /\ retry \/ page \in {"loading", "gone"} => \A c \in Conns : conn[c] \notin {"opening", "open"}

\* A page that was left leaves no subscription behind (routes/ws.ts, cleanup).
ListenersGo == page = "gone" ~> \A c \in Conns : ~listener[c]
-----------------------------------------------------------------------------
(* The simulated network itself: what the server begins with, what a page  *)
(* without a server shows instead, and the commands for its machines and   *)
(* rules.  A page asks for a change and shows it at once; its requests are *)
(* answered in any order, or not at all, and it does not look again.       *)

CONSTANTS
  Machines, SimRules,          \* those for which commands are sent
  SeriesLen, MetricCap,        \* points kept by the server, and by a page
  MaxCommands, MaxPoints       \* bounds on the behaviours

ASSUME SimulatorAssumption ==
  /\ Machines \subseteq {"vm1", "vm2", "vm3", "vm4"} /\ SimRules \subseteq 1 .. 5
  /\ SeriesLen \in Nat \ {0} /\ MetricCap \in Nat \ {0}
  /\ MaxCommands \in Nat /\ MaxPoints \in Nat

VARIABLES
  simVms, simRules,   \* the server's machines, and which rules are on
  series,             \* its newest points of one metric, numbered as they come
  shown,              \* the page: its mode, machines, rules and points
  stream,             \* points sent to it and not read
  commands, sent,     \* requests under way, and how many there were
  upset               \* what has happened to them

simulatorVars == <<simVms, simRules, series, shown, stream, commands, sent, upset>>

SeededNodes ==
  [gateway |-> {"gw"}, firewall |-> {"fw"}, switch |-> {"core", "sw1", "sw2"},
   server |-> {"srv-dns", "srv-dc"}, host |-> {"host1", "host2"},
   vm |-> {"vm1", "vm2", "vm3"}, ap |-> {"ap1"}, iot |-> {"iot1", "iot2"}]

SeededLinks ==
  ({"gw"} \X {"fw"}) \union ({"fw"} \X {"core"})
    \union ({"core"} \X {"sw1", "sw2", "srv-dns", "srv-dc"}) \union ({"sw1"} \X {"host1", "host2"})
    \union ({"host1"} \X {"vm1", "vm2"}) \union ({"host2"} \X {"vm3"})
    \union ({"sw2"} \X {"ap1"}) \union ({"ap1"} \X {"iot1", "iot2"})

\* Zones with the names their records give an address for, and the node it belongs to.
SeededZones ==
  [z_lan |-> {<<"dc-01", "srv-dc">>, <<"web-edge", "vm1">>, <<"app-api", "vm2">>, <<"db-primary", "vm3">>},
   z_rev |-> {}, z_fwd |-> {}]

\* Scopes: the first and the last number of the range, and the gateway's.
SeededScopes == [s_lan |-> <<100, 250, 1>>, s_iot |-> <<50, 250, 1>>]

SimVm(host, state) ==
  [host |-> host, state |-> state, busy |-> state = "running", up |-> state = "running"]

SeededHosts == [host1 |-> 2, host2 |-> 1]   \* the machines they are said to run
SeededVms ==
  [vm1 |-> SimVm("host1", "running"), vm2 |-> SimVm("host1", "running"),
   vm3 |-> SimVm("host2", "running"), vm4 |-> SimVm("host2", "stopped")]

SeededRules == <<"allow", "allow", "deny", "drop", "deny">>

\* The same, as the page's own simulator has it.
MockNodes ==
  [gateway |-> {"gw"}, firewall |-> {"fw"}, switch |-> {"core", "sw1", "sw2"},
   server |-> {"srv-dns", "srv-dc"}, host |-> {"host1", "host2"},
   vm |-> {"vm1", "vm2", "vm3"}, ap |-> {"ap1"}, iot |-> {"iot1", "iot2"}]

MockLinks ==
  {<<"gw", "fw">>, <<"fw", "core">>, <<"core", "sw1">>, <<"core", "sw2">>, <<"core", "srv-dns">>,
   <<"core", "srv-dc">>, <<"sw1", "host1">>, <<"sw1", "host2">>, <<"host1", "vm1">>, <<"host1", "vm2">>,
   <<"host2", "vm3">>, <<"sw2", "ap1">>, <<"ap1", "iot1">>, <<"ap1", "iot2">>}

MockZones ==
  [z_lan |-> {<<"dc-01", "srv-dc">>, <<"web-edge", "vm1">>, <<"app-api", "vm2">>, <<"db-primary", "vm3">>},
   z_rev |-> {}, z_fwd |-> {}]

MockScopes == [s_lan |-> <<100, 250, 1>>, s_iot |-> <<50, 250, 1>>]

MockHosts == [host1 |-> 2, host2 |-> 1]
MockVms ==
  [vm1 |-> SimVm("host1", "running"), vm2 |-> SimVm("host1", "running"),
   vm3 |-> SimVm("host2", "running"), vm4 |-> SimVm("host2", "stopped")]

MockRules == <<"allow", "allow", "deny", "drop", "deny">>

-----------------------------------------------------------------------------
SimulatorInit ==
  /\ simVms = [v \in Machines |-> SeededVms[v]]
  /\ simRules = [r \in SimRules |-> TRUE]
  /\ series = [i \in 1 .. SeriesLen |-> i]
  /\ shown = [mode |-> "loading", vms |-> << >>, rules |-> << >>, points |-> << >>]
  /\ stream = << >> /\ commands = {} /\ sent = 0 /\ upset = {}

\* pushSeries.
Pushed(list, n, cap) ==
  LET longer == Append(list, n)
  IN  IF Len(longer) > cap THEN Tail(longer) ELSE longer

\* The points are numbers that wander; a page that has loaded is sent them.
SimTick ==
  LET n == series[Len(series)] + 1
  IN  /\ n <= SeriesLen + MaxPoints
      /\ series' = Pushed(series, n, SeriesLen)
      /\ stream' = IF shown.mode = "loading" THEN stream ELSE Append(stream, n)
      /\ simVms' = [v \in Machines |->
                      IF simVms[v].state = "running" THEN [simVms[v] EXCEPT !.busy = TRUE, !.up = TRUE]
                      ELSE simVms[v]]
      /\ UNCHANGED <<simRules, shown, commands, sent, upset>>

\* The requests of bootstrap for machines and for rules.
SimVmsAnswered ==
  /\ shown.mode = "loading" /\ shown.vms = << >>
  /\ shown' = [shown EXCEPT !.vms = simVms]
  /\ UNCHANGED <<simVms, simRules, series, stream, commands, sent, upset>>

SimRulesAnswered ==
  /\ shown.mode = "loading" /\ shown.rules = << >>
  /\ shown' = [shown EXCEPT !.rules = simRules]
  /\ UNCHANGED <<simVms, simRules, series, stream, commands, sent, upset>>

\* When one of the requests fails the page falls back on its own simulator.
PageFilled ==
  /\ shown.mode = "loading"
  /\ \/ /\ shown.vms # << >> /\ shown.rules # << >>
        /\ shown' = [shown EXCEPT !.mode = "live"]
     \/ shown' = [shown EXCEPT !.mode = "demo", !.vms = [v \in Machines |-> MockVms[v]],
                               !.rules = [r \in SimRules |-> TRUE]]
  /\ UNCHANGED <<simVms, simRules, series, stream, commands, sent, upset>>

PointRead ==
  /\ stream # << >>
  /\ shown' = [shown EXCEPT !.points = Pushed(@, Head(stream), MetricCap)]
  /\ stream' = Tail(stream)
  /\ UNCHANGED <<simVms, simRules, series, commands, sent, upset>>

VmStates == {"running", "stopped", "paused"}   \* what start and resume, stop, and pause ask for

\* runVmAction, which no component calls yet: what is shown is only a guess at the load.
PageAsksVm(v, next) ==
  /\ shown.mode # "loading"
  /\ sent < MaxCommands /\ sent' = sent + 1
  /\ commands' = commands \union {[n |-> sent', vm |-> v, next |-> next]}
  /\ shown' = [shown EXCEPT !.vms[v].state = next, !.vms[v].busy = (next = "running"),
                            !.vms[v].up = (@ /\ next # "stopped")]
  /\ UNCHANGED <<simVms, simRules, series, stream, upset>>

\* toggleRule.  The page's own simulator has other names for the rules.
PageTogglesRule(r) ==
  /\ shown.mode # "loading"
  /\ sent < MaxCommands /\ sent' = sent + 1
  /\ commands' = commands \union {[n |-> sent', rule |-> IF shown.mode = "live" THEN r ELSE 0]}
  /\ shown' = [shown EXCEPT !.rules[r] = ~@]
  /\ UNCHANGED <<simVms, simRules, series, stream, upset>>

-----------------------------------------------------------------------------
\* A bug to be caught: a machine that is stopped keeps its time of running.
VmSetOnly(vm, next) ==
  [vm EXCEPT !.state = next, !.busy = next = "running" \/ (@ /\ next # "stopped")]

\* setVmState: a machine that is paused keeps its load, one that is stopped none.
VmSet(vm, next) ==
  [vm EXCEPT !.state = next, !.busy = next = "running" \/ (@ /\ next # "stopped"),
             !.up = @ /\ next # "stopped"]

SetVmState(v, next) == simVms' = [simVms EXCEPT ![v] = VmSet(@, next)] /\ UNCHANGED simRules

\* A rule that is not there: 404, and nothing changes.
ToggleFirewallRule(r) ==
  /\ simRules' = IF r \in SimRules THEN [simRules EXCEPT ![r] = ~@] ELSE simRules
  /\ UNCHANGED simVms

Executed(c) == IF "vm" \in DOMAIN c THEN SetVmState(c.vm, c.next) ELSE ToggleFirewallRule(c.rule)

RequestArrives(c) ==
  /\ Executed(c)
  /\ commands' = commands \ {c}
  /\ upset' = upset \union {"reordered" : d \in {e \in commands : e.n < c.n}}
  /\ UNCHANGED <<series, shown, stream, sent>>

\* The page ignores that a request has failed.
RequestLost(c) ==
  /\ commands' = commands \ {c}
  /\ upset' = upset \union {"lost"}
  /\ UNCHANGED <<simVms, simRules, series, shown, stream, sent>>

\* Another page, or another client of the interface.
OthersAsk ==
  /\ sent < MaxCommands /\ sent' = sent + 1
  /\ \/ \E v \in Machines, next \in VmStates : SetVmState(v, next)
     \/ \E r \in SimRules : ToggleFirewallRule(r)
  /\ upset' = IF shown.mode = "loading" /\ shown.vms = << >> /\ shown.rules = << >>
              THEN upset ELSE upset \union {"others"}
  /\ UNCHANGED <<series, shown, stream, commands>>

SimulatorNext ==
  \/ SimTick \/ SimVmsAnswered \/ SimRulesAnswered \/ PageFilled \/ PointRead
  \/ \E v \in Machines, next \in VmStates : PageAsksVm(v, next)
  \/ \E r \in SimRules : PageTogglesRule(r)
  \/ \E c \in commands : RequestArrives(c) \/ RequestLost(c)
  \/ OthersAsk

SimulatorSpec == SimulatorInit /\ [][SimulatorNext]_simulatorVars

-----------------------------------------------------------------------------
\* Both simulators begin with one network; its links join its nodes to a tree, its
\* machines and the names it resolves are nodes of it, and a host runs as many machines
\* as it says.
SeedsSound ==
  LET nodes == UNION {SeededNodes[k] : k \in DOMAIN SeededNodes}
      runs(v) == SeededVms[v].state = "running"
  IN  /\ \A x \in nodes : Cardinality({l \in SeededLinks : l[2] = x}) = IF x = "gw" THEN 0 ELSE 1
      /\ \A l \in SeededLinks : {l[1], l[2]} \subseteq nodes
      /\ \A z \in DOMAIN SeededZones : \A a \in SeededZones[z] : a[2] \in nodes
      /\ SeededNodes.vm = {v \in DOMAIN SeededVms : runs(v)}
      /\ \A v \in SeededNodes.vm : <<SeededVms[v].host, v>> \in SeededLinks
      /\ \A h \in DOMAIN SeededHosts :
           SeededHosts[h] = Cardinality({v \in DOMAIN SeededVms : SeededVms[v].host = h /\ runs(v)})
      /\ <<MockNodes, MockLinks, MockZones, MockScopes, MockHosts, MockVms, MockRules>>
           = <<SeededNodes, SeededLinks, SeededZones, SeededScopes, SeededHosts, SeededVms, SeededRules>>

LastOf(k, list) == SubSeq(list, Len(list) - k + 1, Len(list))

\* Once the requests of a page are answered, none lost and none of others between
\* them, the rules it shows are the server's, in whatever order they arrived, and its
\* machines are if they arrived in order.  A machine that is stopped shows no load and
\* no time of running, and the points a page shows are the newest.
SimulatorKept ==
  /\ SeedsSound
  /\ \A v \in Machines : simVms[v].state = "stopped" => ~simVms[v].busy /\ ~simVms[v].up
  /\ shown.mode # "loading" =>
       \A v \in Machines : shown.vms[v].state = "stopped" => ~shown.vms[v].busy /\ ~shown.vms[v].up
  /\ shown.mode = "live" /\ commands = {} /\ upset \subseteq {"reordered"} =>
       /\ shown.rules = simRules
       /\ upset = {} => \A v \in Machines : shown.vms[v].state = simVms[v].state
  /\ stream = << >> =>
       LET k == IF Len(shown.points) < SeriesLen THEN Len(shown.points) ELSE SeriesLen
       IN  LastOf(k, shown.points) = LastOf(k, series)
=============================================================================

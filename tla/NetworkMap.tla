------------------------------ MODULE NetworkMap ------------------------------
(***************************************************************************)
(* The map of the network on the first page: core/topology.ts builds it    *)
(* from the inventory, the directory, whose answers it keeps for a while,  *)
(* and the managed machines; the page (web, topology/layout.ts) lays it    *)
(* out as a tree of sectors around the gateway.  Names are short names, an *)
(* address is a number; texts and what is only shown are left out.         *)
(***************************************************************************)
EXTENDS Naturals, SequencesExt

CONSTANTS
  Domains, NoDomain,
  Computers,      \* what may join each domain: names, each with its part there
  Sightings,      \* what the inventory may hold: a name or Nameless at an address
  Nameless,
  GatewayIp, OwnIp,
  Machines,       \* managed machines, each with its address
  KeptFor,        \* how long answers of the directory are kept, in ticks
  MaxKnown        \* computers, devices and machines at one time: a bound

NoIp == 0
Servers == {"dc", "server"}

ASSUME MapAssumption ==
  /\ KeptFor \in Nat
  /\ \A s \in Sightings : s.ip \in Nat \ {NoIp}
  /\ \A d \in Domains : \A c \in Computers[d] : c.part \in Servers \union {"workstation"}

VARIABLES
  session,     \* the domain this server is signed in to
  joined,      \* the enabled and disabled computers of each domain
  seenDevices, \* the inventory: sightings and whether they are online
  managed,     \* the managed machines
  adCache,     \* the answers kept, and their age; NoAnswers
  sinceSwitch, \* ticks since the session changed
  map          \* the map that was built last; NoMap

mapVars == <<session, joined, seenDevices, managed, adCache, sinceSwitch, map>>

NoAnswers == << >>
NoMap == << >>

MapInit ==
  /\ session = NoDomain
  /\ joined = [d \in Domains |-> {}]
  /\ seenDevices = << >> /\ managed = {}
  /\ adCache = NoAnswers /\ sinceSwitch = 0 /\ map = NoMap

-----------------------------------------------------------------------------
(* buildTopology.                                                          *)

\* The inventory comes sorted, the online first; of one name the last is taken.
ByHost(name) ==
  LET named == {s \in DOMAIN seenDevices : s.name = name}
      last  == IF \E s \in named : ~seenDevices[s] THEN {s \in named : ~seenDevices[s]} ELSE named
  IN  {s \in last : \A t \in last : t.ip <= s.ip}

\* Of the computers of a snapshot, the sightings they are taken to be.
Matches(snap) == UNION {ByHost(c.name) : c \in snap.computers}

IsOnline(c) ==
  IF ByHost(c.name) = {} THEN c.enabled ELSE seenDevices[CHOOSE s \in ByHost(c.name) : TRUE]

Node(kind, name, ip) == [kind |-> kind, id |-> <<kind, name>>, ip |-> ip]

IpOf(c) == IF ByHost(c.name) = {} THEN NoIp ELSE (CHOOSE s \in ByHost(c.name) : TRUE).ip

Gateway == Node("gateway", "gw", GatewayIp)
Nexrelm == Node("server", "nexrelm", OwnIp)

DirectoryNodes(snap) ==
  {Node(c.part, c.name, IpOf(c)) : c \in {d \in snap.computers : d.part \in Servers}}

Workstations(snap) == {c \in snap.computers : c.part = "workstation"}

\* A bug to be caught: only a sighting that became a server's counts as taken.
ConsumedAsServer(snap) == {c.name : c \in {d \in snap.computers : d.part \in Servers}}

\* The names that sightings gave to computers of the domain.
Consumed(snap) == {s.name : s \in Matches(snap)}

\* What is left of the inventory: each address once, and no computer of the domain.
Rest(snap) ==
  {s \in DOMAIN seenDevices :
     /\ s.real
     /\ s.ip \notin {GatewayIp, OwnIp} \union {n.ip : n \in DirectoryNodes(snap)}
     /\ s.name = Nameless \/ s.name \notin Consumed(snap)}

DeviceNodes(snap) == {Node("device", s, s.ip) : s \in {r \in Rest(snap) : r.serverish}}

\* The rest of the rest is counted.
Endpoints(snap) == {s \in Rest(snap) : ~s.serverish}

\* Of machines at one address the first that is listed is shown.
FirstAt(ip) == CHOOSE m \in managed : m.ip = ip

MachineNodes(snap) ==
  LET shown == {n.ip : n \in {Gateway, Nexrelm} \union DirectoryNodes(snap) \union DeviceNodes(snap)}
  IN  {Node("vm", m, m.ip) :
         m \in {k \in managed : k.ip = NoIp \/ (k.ip \notin shown /\ k = FirstAt(k.ip))}}

Cluster(id, members) == IF members = {} THEN {} ELSE {Node("cluster", id, NoIp)}

\* A domain that answers has users, its administrator at least.
Users(snap) == {snap.domain} \ {NoDomain}

\* Users and workstations are one node each.
DirectoryClusters(snap) ==
  Cluster("ad-users", Users(snap)) \union Cluster("ad-workstations", Workstations(snap))

\* The first controller that is listed holds the domain's nodes; a further one has no
\* link.
Anchor(snap) ==
  LET dcs == {n.id : n \in {m \in DirectoryNodes(snap) : m.kind = "dc"}}
  IN  IF dcs = {} THEN Gateway.id ELSE CHOOSE d \in dcs : TRUE

Link(from, to) == [source |-> from, target |-> to]

Links(snap) ==
  LET dc == Anchor(snap)
  IN  {Link(Nexrelm.id, Gateway.id)}
      \union (IF dc = Gateway.id THEN {} ELSE {Link(dc, Gateway.id)})
      \union {Link(n.id, dc) : n \in {m \in DirectoryNodes(snap) : m.kind = "server"}}
      \union {Link(n.id, dc) : n \in DirectoryClusters(snap)}
      \union {Link(n.id, Gateway.id) : n \in DeviceNodes(snap) \union MachineNodes(snap)
                                         \union Cluster("lan-endpoints", Endpoints(snap))}

BuildTopology(snap, failed) ==
  [domain |-> snap.domain,
   nodes  |-> {Gateway, Nexrelm} \union DirectoryNodes(snap) \union DeviceNodes(snap)
                \union MachineNodes(snap)
                \union DirectoryClusters(snap)
                \union Cluster("lan-endpoints", Endpoints(snap)),
   links  |-> Links(snap),
   tail   |-> Endpoints(snap),
   live   |-> {c \in Workstations(snap) : IsOnline(c)},
   snap   |-> snap,
   failed |-> failed]

-----------------------------------------------------------------------------
(* adSnapshot, and the request for the map.                                *)

Outside == [domain |-> NoDomain, computers |-> {}]

\* A bug to be caught: the answers that are kept have no end.
FreshAlways == adCache # NoAnswers

Fresh == adCache # NoAnswers /\ adCache.age < KeptFor

Asked == [domain |-> session, computers |-> joined[session]]

Kept == IF adCache = NoAnswers THEN Outside ELSE adCache.snap

\* The map is asked for: the directory is asked unless its answers are fresh; if it
\* cannot answer, what it last said is used.
Build(fails) ==
  /\ map = NoMap
  /\ CASE session = NoDomain -> map' = BuildTopology(Outside, FALSE) /\ UNCHANGED adCache
       [] session # NoDomain /\ Fresh ->
            map' = BuildTopology(adCache.snap, FALSE) /\ UNCHANGED adCache
       [] session # NoDomain /\ ~Fresh /\ fails ->
            map' = BuildTopology(Kept, TRUE) /\ UNCHANGED adCache
       [] OTHER ->
            /\ adCache' = [snap |-> Asked, age |-> 0]
            /\ map' = BuildTopology(Asked, FALSE)
  /\ UNCHANGED <<session, joined, seenDevices, managed, sinceSwitch>>

\* The rest of the system goes on; a map that was shown is replaced by the next.
Changed ==
  /\ MapThenSumSet(LAMBDA d : Cardinality(joined'[d]), Domains)
       + Cardinality(DOMAIN seenDevices') + Cardinality(managed') <= MaxKnown
  /\ map' = NoMap

DomainChosen(d) ==
  /\ session # d /\ session' = d /\ sinceSwitch' = 0
  /\ UNCHANGED <<joined, seenDevices, managed, adCache>> /\ Changed

Joins(d, c) ==
  /\ joined' = [joined EXCEPT ![d] = {k \in @ : k.name # c.name} \union (IF c \in @ THEN {} ELSE {c})]
  /\ UNCHANGED <<session, seenDevices, managed, adCache, sinceSwitch>> /\ Changed

\* A device is seen, online or not any more; the inventory has one row an address.
Seen(s, online) ==
  /\ ~(s \in DOMAIN seenDevices /\ seenDevices[s] = online)
  /\ seenDevices' = [t \in {s} \union {u \in DOMAIN seenDevices : u.ip # s.ip} |->
                       IF t = s THEN online ELSE seenDevices[t]]
  /\ UNCHANGED <<session, joined, managed, adCache, sinceSwitch>> /\ Changed

Manages(m) ==
  /\ managed' = (IF m \in managed THEN managed \ {m} ELSE managed \union {m})
  /\ UNCHANGED <<session, joined, seenDevices, adCache, sinceSwitch>> /\ Changed

MapTick ==
  /\ adCache' = (IF adCache = NoAnswers \/ adCache.age = KeptFor THEN adCache
                 ELSE [adCache EXCEPT !.age = @ + 1])
  /\ sinceSwitch' = (IF sinceSwitch = KeptFor THEN sinceSwitch ELSE sinceSwitch + 1)
  /\ UNCHANGED <<session, joined, seenDevices, managed>> /\ Changed

MapNext ==
  \/ \E fails \in BOOLEAN : Build(fails)
  \/ \E d \in Domains \union {NoDomain} : DomainChosen(d)
  \/ \E d \in Domains : \E c \in Computers[d] : Joins(d, c)
  \/ \E s \in Sightings, online \in BOOLEAN : Seen(s, online)
  \/ \E m \in Machines : Manages(m)
  \/ MapTick

MapSpec == MapInit /\ [][MapNext]_mapVars

-----------------------------------------------------------------------------
(* computeLayout.                                                          *)

Ids == {n.id : n \in map.nodes}

Neighbours(u) == {l.target : l \in {k \in map.links : k.source = u}}
                 \union {l.source : l \in {k \in map.links : k.target = u}}

Rings == 3

\* What can be reached from the gateway over so many links.
Reached[d \in 0 .. Rings + 1] ==
  LET before == Reached[d - 1]
  IN  IF d = 0 THEN {Gateway.id} ELSE before \union UNION {Neighbours(u) : u \in before}

\* How many links each node that can be reached is from the gateway.
Depths ==
  [v \in Reached[Rings + 1] |->
     CHOOSE d \in 0 .. Rings + 1 : v \in Reached[d] /\ (d = 0 \/ v \notin Reached[d - 1])]

\* A bug to be caught: what cannot be reached is left out.
ChildrenReached(depth, u) ==
  {v \in Neighbours(u) : u \in DOMAIN depth /\ depth[v] = depth[u] + 1}

\* A node that cannot be reached hangs from the gateway.
Children(depth, u) ==
  {v \in Neighbours(u) : u \in DOMAIN depth /\ depth[v] = depth[u] + 1}
  \union (IF u = Gateway.id THEN Ids \ DOMAIN depth ELSE {})

\* The ways from a node down to a leaf, as many levels as there are rings.
WaysDown(depth) ==
  LET Ways[k \in 0 .. Rings] ==
        [u \in Ids |->
           IF k = 0 \/ Children(depth, u) = {} THEN {<<u>>}
           ELSE UNION {{<<u>> \o way : way \in Ways[k - 1][v]} : v \in Children(depth, u)}]
  IN  Ways[Rings]

\* The leaves that are counted below a node: its share of the circle.
Leaves(depth, node) == Cardinality(WaysDown(depth)[node])

-----------------------------------------------------------------------------
(* Properties.                                                             *)

\* A device whose name no other has is there once: as a node at its address, as a
\* workstation of the domain, or among the endpoints that are counted.
CountedOnce(s) ==
  LET asNode == \E n \in map.nodes : n.kind \in {"device", "dc", "server"} /\ n.ip = s.ip
      asWorkstation == \E c \in Workstations(map.snap) : c.name = s.name
  IN  Cardinality({how \in {"node", "workstation", "endpoint"} :
                     CASE how = "node" -> asNode
                       [] how = "workstation" -> asWorkstation
                       [] OTHER -> s \in map.tail}) = 1

\* The map is a tree that can be drawn: links join nodes of it, each node hangs from
\* one other, and the leaves have the whole circle between them.
Drawable ==
  LET depth == Depths
  IN  /\ \A l \in map.links : l.source \in Ids /\ l.target \in Ids
      /\ \A v \in Ids \ {Gateway.id} : Cardinality({u \in Ids : v \in Children(depth, u)}) = 1
      /\ Leaves(depth, Gateway.id) = Cardinality({v \in Ids : Children(depth, v) = {}})

\* Every device of a name of its own is on the map once.
DevicesOnce ==
  \A s \in DOMAIN seenDevices :
    /\ s.real /\ s.ip \notin {GatewayIp, OwnIp} /\ s.name # Nameless
    /\ \A t \in DOMAIN seenDevices : t.name = s.name => t = s
    => CountedOnce(s)

\* No device or machine is at the address of another node.
OneAtAnAddress ==
  \A n, m \in map.nodes : n.kind \in {"device", "vm"} /\ n.ip = m.ip /\ n.ip # NoIp => n = m

\* The domain on it is the one signed in to, but for the time answers are kept and
\* while the directory does not answer.
DomainIsOurs == ~map.failed /\ map.domain # session => sinceSwitch < KeptFor

MapPlaced == map # NoMap => DevicesOnce /\ OneAtAnAddress /\ DomainIsOurs

\* Together: the map says where each device is, of which domain, and can be drawn.
MapSound == MapPlaced /\ (map # NoMap => Drawable)
=============================================================================

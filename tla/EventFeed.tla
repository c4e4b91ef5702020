------------------------------ MODULE EventFeed ------------------------------
(***************************************************************************)
(* The live feed of detections, security/events.ts: a runner that looks    *)
(* every 5 s and reports each kind of each source once per cooldown, the   *)
(* pause of monitoring (security/state.ts), and the watch of the kernel's  *)
(* neighbour table (security/arp-monitor.ts).  A detection is <<key, sev>> *)
(* with the key kind:source; 1 is the mildest severity.  One clock tick is *)
(* one run of the runner.                                                  *)
(***************************************************************************)
EXTENDS Integers, Sequences, FiniteSets

CONSTANTS
  DetectKeys,   \* kind:source of what may be detected in traffic
  ArpKey,       \* the key of a changed address
  HostMacs,     \* addresses that the watched host, or another, answers with
  NoMac,        \* no neighbour known
  Cool,         \* the cooldown, in ticks
  FlipTtl,      \* how long a change of address is an alert, in ticks
  PauseTicks,   \* the length of a timed pause
  RingCap       \* entries the feed keeps

ASSUME FeedAssumption == {Cool, FlipTtl, PauseTicks, RingCap} \subseteq Nat \ {0}

VARIABLES
  pause,        \* [active, left]; left = 0: until it is resumed
  heuristicsOn,
  lastEmit,     \* ticks since a key was reported; Cool + 1 is long ago
  ring,         \* the feed, newest last
  syncing,      \* a device tick waits for the inventory
  seenMac,      \* the host's address in the last sample that had one
  flip,         \* ticks since its address changed; FlipTtl + 1: none is remembered
  lasting,      \* history: ticks a detection has lasted while monitoring was on
  untold        \* history: ticks since its key was last reported as severely

feedOfEvents == <<ring, lastEmit, syncing>>
watchVars == <<seenMac, flip>>
historyOfEvents == <<lasting, untold>>
eventVars == <<pause, heuristicsOn, feedOfEvents, watchVars, historyOfEvents>>

Levels == 1 .. 2
Keys == DetectKeys \union {ArpKey}
Detections == (DetectKeys \X Levels) \union {<<ArpKey, 2>>}
Long == Cool + 2

NotPaused == [active |-> FALSE, left |-> 0]
NoFlip == FlipTtl + 1

MonitoringActive == ~pause.active /\ heuristicsOn

\* detectThreats: what the traffic shows, and the change of address.
Detected(traffic) == traffic \union (IF flip <= FlipTtl THEN {<<ArpKey, 2>>} ELSE {})

Newest(s) == IF Len(s) > RingCap THEN SubSeq(s, Len(s) - RingCap + 1, Len(s)) ELSE s

-----------------------------------------------------------------------------
EventsInit ==
  /\ pause = NotPaused /\ heuristicsOn = TRUE
  /\ lastEmit = [k \in Keys |-> Cool + 1] /\ ring = << >> /\ syncing = FALSE
  /\ seenMac = NoMac /\ flip = NoFlip
  /\ lasting = [d \in Detections |-> 0] /\ untold = [d \in Detections |-> Long]

\* Time passes for the pause, the cooldowns and the change that is remembered.
PauseLeft == IF pause.active /\ pause.left = 1 THEN NotPaused
             ELSE IF pause.active /\ pause.left > 1 THEN [pause EXCEPT !.left = @ - 1]
             ELSE pause

OneMore(n, most) == IF n < most THEN n + 1 ELSE most

\* The keys that may be reported: the timer may run a little early, and then finds
\* the cooldown not quite over.
Due(early) == {k \in Keys : lastEmit[k] > Cool \/ (lastEmit[k] = Cool /\ ~early)}

\* A bug to be caught: detections are gone through as they come, the mildest first.
ReportedMildest(now, due) ==
  {d \in now : d[1] \in due /\ \A e \in now : e[1] = d[1] => e[2] >= d[2]}

\* detectThreats returns the most severe first, and the first of a key starts the
\* cooldown of the key.
Reported(now, due) ==
  {d \in now : d[1] \in due /\ \A e \in now : e[1] = d[1] => e[2] <= d[2]}

\* The runner: with each key that it reports it starts the cooldown, responds,
\* records the threat and pushes it to the feed.
Run(traffic, early) ==
  LET now == IF MonitoringActive THEN Detected(traffic) ELSE {}
      out == Reported(now, Due(early))
      told == {d[1] : d \in out}
  IN  /\ \E order \in [1 .. Cardinality(out) -> out] :
           /\ \A i, j \in DOMAIN order : i < j => order[i] # order[j] /\ order[i][2] >= order[j][2]
           /\ ring' = Newest(ring \o order)
      /\ lastEmit' = [k \in Keys |-> IF k \in told THEN 1 ELSE OneMore(lastEmit[k], Cool + 1)]
      /\ lasting' = [d \in Detections |-> IF d \in now THEN OneMore(lasting[d], Long) ELSE 0]
      /\ untold' = [d \in Detections |->
           IF \E e \in out : e[1] = d[1] /\ e[2] >= d[2] THEN 1 ELSE OneMore(untold[d], Long)]

Tick(traffic, early) ==
  /\ Run(traffic, early)
  /\ pause' = PauseLeft
  /\ flip' = OneMore(flip, NoFlip)
  /\ UNCHANGED <<heuristicsOn, syncing, seenMac>>

-----------------------------------------------------------------------------
\* setPause: for a time, or until it is resumed.
SetPause ==
  /\ pause' \in {NotPaused} \union [active : {TRUE}, left : {0, PauseTicks}]
  /\ UNCHANGED <<heuristicsOn, feedOfEvents, watchVars, historyOfEvents>>

SetHeuristics ==
  /\ heuristicsOn' \in BOOLEAN
  /\ UNCHANGED <<pause, feedOfEvents, watchVars, historyOfEvents>>

\* syncDevicesTick asks whether monitoring is on before it waits for the inventory.
SyncBegins ==
  /\ MonitoringActive /\ ~syncing
  /\ syncing' = TRUE
  /\ UNCHANGED <<pause, heuristicsOn, ring, lastEmit, watchVars, historyOfEvents>>

\* A device that is new goes to the feed without a cooldown.
SyncEnds ==
  /\ syncing
  /\ syncing' = FALSE
  /\ ring' \in {ring, Newest(Append(ring, <<"new_device", 1>>))}
  /\ UNCHANGED <<pause, heuristicsOn, lastEmit, watchVars, historyOfEvents>>

\* sampleArpTable: entries that have failed are passed over, and the address known
\* before them is still the last one.
SampleArp(neighbour) ==
  /\ seenMac' = IF neighbour = NoMac THEN seenMac ELSE neighbour
  /\ flip' = IF NoMac \notin {neighbour, seenMac} /\ neighbour # seenMac THEN 0 ELSE flip
  /\ UNCHANGED <<pause, heuristicsOn, feedOfEvents, historyOfEvents>>

\* Nothing of this is kept over a restart.
EventsRestart ==
  /\ pause' = NotPaused /\ heuristicsOn' = TRUE
  /\ lastEmit' = [k \in Keys |-> Cool + 1] /\ ring' = << >> /\ syncing' = FALSE
  /\ seenMac' = NoMac /\ flip' = NoFlip
  /\ lasting' = [d \in Detections |-> 0] /\ untold' = [d \in Detections |-> Long]

EventsNext ==
  \/ \E traffic \in SUBSET (DetectKeys \X Levels), early \in BOOLEAN : Tick(traffic, early)
  \/ SetPause \/ SetHeuristics
  \/ SyncBegins \/ SyncEnds
  \/ \E n \in HostMacs \union {NoMac} : SampleArp(n)
  \/ EventsRestart

EventsSpec == EventsInit /\ [][EventsNext]_eventVars

-----------------------------------------------------------------------------
(* Properties.                                                             *)

\* What lasts longer than a cooldown while monitoring is on has been reported in the
\* last cooldown, and not milder than it is: a mild detection of the same kind and
\* source does not keep a severe one out of the feed.
WorstIsTold ==
  \A d \in Detections : lasting[d] = Long => untold[d] < Long
=============================================================================

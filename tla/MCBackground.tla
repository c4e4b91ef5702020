---------------------------- MODULE MCBackground ----------------------------
(***************************************************************************)
(* The parts of the control plane that work on their own and share no      *)
(* state, checked side by side: a behaviour is one of the part that was    *)
(* chosen for it, and leaves the others at rest.                           *)
(***************************************************************************)
EXTENDS Scanner, Capture, ThreatFeeds, ResolverSockets, DeviceRegistry,
        DirectorySession, VulnIntel, Forwarding, AutoIntel

CONSTANTS u1, u2, p1, p2, p3, one, fifteen, outer, inner, stub, m1, m2, host1, host2, NoVersion

VARIABLE part

MCLists == {<< >>, <<u1>>, <<u1, u2>>}
MCBatches == <<{p1, p2}, {p3}>>

\* Two hosts, 10.0.0.1 and 10.0.0.15: one asks by ARP, one is a DHCP server.  One outside
\* the network, 110.1.2.3, of which 10.1.2.3 may be left, answers a question for a name.
Frame(kind, mac, src, dst, from) ==
  [kind |-> kind, mac |-> mac, src |-> src, dst |-> dst, from |-> from]
MCFrames == {Frame("request", m1, fifteen, Group, "other"), Frame("ip", m2, one, Group, "dhcp"),
             Frame("ip", m2, outer, fifteen, "name")}
MCPrivate == {one, fifteen, inner}
MCShorter(ip) == IF ip = fifteen THEN {one} ELSE {}
MCRests(ip) == IF ip = outer THEN {inner} ELSE {stub}

\* p1 has a branch 1.2 of an ended 1, and p2 versions that end and that do not.
Branch(cycle, ended, since) == [cycle |-> cycle, ended |-> ended, since |-> since]
MCEnds == (p1 :> {Branch(<<1>>, TRUE, {}), Branch(<<1, 2>>, FALSE, {2})})
          @@ (p2 :> {Branch(<<10>>, FALSE, {}), Branch(<<7>>, FALSE, {1})})

Port(host, isOpen, words, slug, version) ==
  [kind |-> "port", host |-> host, open |-> isOpen, words |-> words, slug |-> slug,
   version |-> version]
Os(host, version) == [kind |-> "os", host |-> host, slug |-> p2, version |-> version]
Script(host, risk) == [kind |-> "script", host |-> host, risk |-> risk]
MCFacts ==
  {Port(host1, TRUE, {"8080", "telnet"}, NoSlug, NoVersion),
   Port(host2, TRUE, {"21", "ftp"}, NoSlug, NoVersion),
   Port(host1, TRUE, {"443"}, p1, <<1, 2>>), Port(host2, TRUE, {"8443"}, p1, <<1, 3>>),
   Port(host2, FALSE, {"3389"}, NoSlug, NoVersion),
   Script(host1, TRUE), Script(host2, FALSE), Os(host1, <<7>>), Os(host2, <<10, 1>>)}

vars == <<part, scanVars, captureVars, trafficVars, feedVars, socketVars, registryVars,
          directoryVars, vulnVars, postureVars, forwardVars, baselineVars, intelVars>>

Parts == {"scanner", "capture", "traffic", "feeds", "sockets", "registry", "directory",
          "vuln", "posture", "forwarding", "baseline", "intel"}

\* A part that is not the one chosen begins in one state only.
MCInit ==
  /\ part \in Parts
  /\ ScannerInit /\ (part = "scanner" \/ (~schedule.on /\ ~schedule.due))
  /\ CaptureInit /\ TrafficInit
  /\ FeedsInit /\ (part = "feeds" \/ enabled = {})
  /\ SocketsInit
  /\ (part = "sockets" \/ (asked = (CHOOSE p \in Asked : TRUE) /\ foreign = [p \in Ports |-> "none"]))
  /\ RegistryInit /\ (part = "registry" \/ store = Nothing)
  /\ DirectoryInit /\ (part = "directory" \/ file = NoAccount)
  /\ VulnInit /\ (part = "vuln" \/ intelFile = Unknown)
  /\ ForwardInit /\ (part = "forwarding" \/ upstreams = << >>)
  /\ PostureInit /\ BaselineInit /\ IntelInit

ScannerStep(A) ==
  /\ part = "scanner" /\ A
  /\ UNCHANGED <<part, captureVars, trafficVars, feedVars, socketVars, registryVars, directoryVars,
                 vulnVars, postureVars, forwardVars, baselineVars, intelVars>>

CaptureStep(A) ==
  /\ part = "capture" /\ A
  /\ UNCHANGED <<part, scanVars, trafficVars, feedVars, socketVars, registryVars, directoryVars,
                 vulnVars, postureVars, forwardVars, baselineVars, intelVars>>

TrafficStep(A) ==
  /\ part = "traffic" /\ A
  /\ UNCHANGED <<part, scanVars, captureVars, feedVars, socketVars, registryVars, directoryVars,
                 vulnVars, postureVars, forwardVars, baselineVars, intelVars>>

FeedsStep(A) ==
  /\ part = "feeds" /\ A
  /\ UNCHANGED <<part, scanVars, captureVars, trafficVars, socketVars, registryVars, directoryVars,
                 vulnVars, postureVars, forwardVars, baselineVars, intelVars>>

SocketsStep(A) ==
  /\ part = "sockets" /\ A
  /\ UNCHANGED <<part, scanVars, captureVars, trafficVars, feedVars, registryVars, directoryVars,
                 vulnVars, postureVars, forwardVars, baselineVars, intelVars>>

RegistryStep(A) ==
  /\ part = "registry" /\ A
  /\ UNCHANGED <<part, scanVars, captureVars, trafficVars, feedVars, socketVars, directoryVars,
                 vulnVars, postureVars, forwardVars, baselineVars, intelVars>>

DirectoryStep(A) ==
  /\ part = "directory" /\ A
  /\ UNCHANGED <<part, scanVars, captureVars, trafficVars, feedVars, socketVars, registryVars,
                 vulnVars, postureVars, forwardVars, baselineVars, intelVars>>

VulnStep(A) ==
  /\ part = "vuln" /\ A
  /\ UNCHANGED <<part, scanVars, captureVars, trafficVars, feedVars, socketVars, registryVars,
                 directoryVars, postureVars, forwardVars, baselineVars, intelVars>>

PostureStep(A) ==
  /\ part = "posture" /\ A
  /\ UNCHANGED <<part, scanVars, captureVars, trafficVars, feedVars, socketVars, registryVars,
                 directoryVars, vulnVars, forwardVars, baselineVars, intelVars>>

ForwardStep(A) ==
  /\ part = "forwarding" /\ A
  /\ UNCHANGED <<part, scanVars, captureVars, trafficVars, feedVars, socketVars, registryVars,
                 directoryVars, vulnVars, postureVars, baselineVars, intelVars>>

BaselineStep(A) ==
  /\ part = "baseline" /\ A
  /\ UNCHANGED <<part, scanVars, captureVars, trafficVars, feedVars, socketVars, registryVars,
                 directoryVars, vulnVars, postureVars, forwardVars, intelVars>>

IntelStep(A) ==
  /\ part = "intel" /\ A
  /\ UNCHANGED <<part, scanVars, captureVars, trafficVars, feedVars, socketVars, registryVars,
                 directoryVars, vulnVars, postureVars, forwardVars, baselineVars>>

MCNext ==
  \/ ScannerStep(ScannerNext)
  \/ CaptureStep(CaptureNext)
  \/ TrafficStep(TrafficNext)
  \/ FeedsStep(FeedsNext)
  \/ SocketsStep(SocketsNext)
  \/ RegistryStep(RegistryNext)
  \/ DirectoryStep(DirectoryNext)
  \/ VulnStep(VulnNext)
  \/ PostureStep(PostureNext)
  \/ ForwardStep(ForwardNext)
  \/ BaselineStep(BaselineNext)
  \/ IntelStep(IntelNext)

\* nmap ends (it is killed after 600 s), a fetch and a sweep end, silent connections and
\* upstreams have their timers, the sinkhole its interval, the lookups their timer and
\* an answer or the end of the connection.
MCFairness ==
  /\ \A s \in ScanIds : WF_vars(ScannerStep(Closed(s)))
  /\ WF_vars(FeedsStep(ReloadSinkhole))
  /\ \A p \in Ports : WF_vars(SocketsStep(IdleOut(p)))
  /\ WF_vars(SocketsStep(Binding))
  /\ WF_vars(RegistryStep(\E n \in Neighbours : EndSweep(n)))
  /\ \A p \in Products : WF_vars(VulnStep(FetchGood(p) \/ FetchBad(p)))
  /\ WF_vars(VulnStep(NextBatch)) /\ WF_vars(VulnStep(FinishRefresh))
  /\ \A q \in Queries : WF_vars(ForwardStep(TimedOut(q)))
  /\ WF_intelVars(IntelStep(\E l \in Lookups : LookupBegins(l)))
  /\ \A l \in Lookups : WF_intelVars(IntelStep(LookupAnswered(l) \/ LookupFails(l)))

MCSpec == MCInit /\ [][MCNext]_vars /\ MCFairness

\* What the pages are told of the wire and of a scan is so: that a capture runs, what
\* it has counted, and how bad what nmap found is.
ReadingsRight == CaptureKept /\ TrafficKept /\ PostureSound

\* What was begun in the background ends: a scan, a discovery, a refresh of the
\* end-of-life data and each query; and what waits for a lookup gets its turn.
JobsEnd == ScanEnds /\ DiscoveryEnds /\ RefreshEnds /\ QueriesEnd /\ EachGetsItsTurn

\* What was left behind catches up: the sinkhole with the feeds, the resolver's
\* sockets with its settings.
CatchesUp == SinkholeCatchesUp /\ Serves
=============================================================================

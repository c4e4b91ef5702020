------------------------------ MODULE Detectors ------------------------------
(***************************************************************************)
(* What the detection engine says of a window of traffic,                  *)
(* security/heuristics.ts detectThreats, with the tuning it is scaled by   *)
(* (security/tuning.ts) and the log it reads (dns/db.ts queriesRecent).    *)
(* One host's traffic is looked at: what it asked of the resolver and what *)
(* the capture saw of it.  Factors are counted in tenths, uploads in MB,   *)
(* shares in percent.                                                      *)
(***************************************************************************)
EXTENDS Integers, FiniteSets

CONSTANT
  Traffic       \* pairs of what was asked and what was captured in the window

VARIABLES
  asks,         \* what the host, and the others, asked the resolver
  wire,         \* what the capture saw of the host
  sensitivity,
  trusted,      \* the host is on the allowlist
  engineOn      \* not paused and not switched off

detectVars == <<asks, wire, sensitivity, trusted, engineOn>>

\* Counts, shares and intervals are numbers; what a feed or VirusTotal says of a name.
AskedOfResolver ==
  [sent : Nat, others : Nat, late : BOOLEAN, nx : Nat, uniq : Nat, random : BOOLEAN,
   long : Nat, txt : Nat, suspicious : Nat, listed : BOOLEAN,
   verdict : {"none", "suspicious", "malicious"},
   times : Nat, gap : Nat, jitter : Nat, sigma : Int, denied : BOOLEAN]

SeenOnWire ==
  [odd : Nat, ports : Nat, fan : Nat, peers : Nat, backdoor : BOOLEAN, upload : Nat,
   share : Nat, bad : BOOLEAN, macs : Nat, gateway : BOOLEAN, addresses : Nat,
   dhcp : Nat, probed : Nat, victims : Nat, answers : Nat, relays : BOOLEAN, seen : BOOLEAN]

ASSUME TrafficAssumption == Traffic \subseteq AskedOfResolver \X SeenOnWire

Sensitivities == {"low", "medium", "high"}
Severities == {"critical", "high", "medium", "low", "info"}

Window == 120
LogLimit == 1000

\* Position in the order of detectThreats: 0 is the worst.
Order(sev) ==
  CASE sev = "critical" -> 0 [] sev = "high" -> 1 [] sev = "medium" -> 2
    [] sev = "low" -> 3 [] sev = "info" -> 4

AtLeast(sev, other) == Order(sev) <= Order(other)

\* A bug to be caught: the factors of low and high exchanged.
FactorExchanged(s) == CASE s = "low" -> 6 [] s = "medium" -> 10 [] s = "high" -> 18

Factor(s) == CASE s = "low" -> 18 [] s = "medium" -> 10 [] s = "high" -> 6

\* Math.round of a count times the factor, at least 1.
Threshold(base, s) == LET t == (base * Factor(s) + 5) \div 10 IN IF t < 1 THEN 1 ELSE t

\* The rows of the window that queriesRecent returns: at most LogLimit, the newest.
\* `late` says that what the host asked is newer than what the others asked.
OwnRows(a) ==
  IF a.sent + a.others <= LogLimit THEN a.sent
  ELSE IF a.late THEN (IF a.sent < LogLimit THEN a.sent ELSE LogLimit)
  ELSE IF a.others < LogLimit THEN LogLimit - a.others ELSE 0

AllRows(a) == IF a.sent + a.others <= LogLimit THEN a.sent + a.others ELSE LogLimit

\* rows / Window > rate * factor
FasterThan(rows, rate, s) == 10 * rows > rate * Window * Factor(s)

-----------------------------------------------------------------------------
\* A tier: more than `over` (scaled) of something has this severity.
Tier(sev, over) == [sev |-> sev, over |-> over]

Scaled ==
  [nxdomain |-> {Tier("medium", 12), Tier("high", 60)},
   domains |-> {Tier("low", 35), Tier("medium", 80), Tier("high", 250)},
   generated |-> {Tier("high", 22)},
   odd |-> {Tier("high", 40), Tier("critical", 150)},
   ports |-> {Tier("high", 15)},
   fan |-> {Tier("high", 60), Tier("critical", 200)},
   peers |-> {Tier("high", 5), Tier("critical", 15)}]

Passed(of, count, s) == {t.sev : t \in {u \in Scaled[of] : count > Threshold(u.over, s)}}

\* An alert is identified by its kind and the host (or what else the code names it
\* by); of each kind, the severities found.
Found(id, sevs) == [id : {id}, sev : sevs]
If(condition, sev) == IF condition THEN {sev} ELSE {}

\* Detectors of the query log, of one client.
ClientAlerts(a, s) ==
  LET n == OwnRows(a)
      nx == IF a.nx < n THEN a.nx ELSE n
      uniq == IF a.uniq < n THEN a.uniq ELSE n
      suspicious == IF a.suspicious < uniq THEN a.suspicious ELSE uniq
      long == IF a.long < n THEN a.long ELSE n
      txt == IF a.txt < n THEN a.txt ELSE n
  IN  Found("query_flood", If(FasterThan(n, 8, s) /\ n > Threshold(100, s), "high")
                  \union If(FasterThan(n, 25, s) /\ n > Threshold(100, s), "critical"))
      \union Found("nxdomain_flood", IF 10 * nx > 3 * n THEN Passed("nxdomain", nx, s) ELSE {})
      \union Found("dns_recon", Passed("domains", uniq, s))
      \union Found("dga", IF a.random THEN Passed("generated", uniq, s) ELSE {})
      \union Found("data_exfil", If(long > 3 \/ (txt > 25 /\ uniq < 12), "high"))
      \union Found("anomaly", If(n > 3 * Window /\ n <= 8 * Window, "info"))
      \union Found("suspicious_domain", If(suspicious > 5, "medium") \union If(suspicious > 20, "high"))

\* Of all clients together.
TotalAlerts(a, s) ==
  Found("ddos", If(FasterThan(AllRows(a), 80, s), "high")
                \union If(FasterThan(AllRows(a), 250, s), "critical"))

\* The host against what was learnt of it, and one name it asks for in regular
\* intervals: at least six times, `gap` seconds apart with a jitter in percent.
PatternAlerts(a, s) ==
  Found("baseline", If(a.sigma >= 3, "medium") \union If(a.sigma > 6, "high"))
  \union Found("beacon",
       IF a.times >= 6 /\ a.gap \in 2 .. 900 /\ 4 * 10 * a.jitter < 100 * (20 - Factor(s))
         THEN {IF a.jitter < 12 THEN "high" ELSE "medium"} ELSE {})

\* What VirusTotal and the feeds know of the names and addresses in the log.
BadNames(a) ==
  Found("malware_domain",
        IF OwnRows(a) = 0 THEN {}
        ELSE If(a.verdict = "malicious", "critical") \union If(a.verdict = "suspicious", "high")
             \union If(a.listed, "high"))

\* A source that a rule of the firewall denies is seen in the log or by the capture.
Denied(a, w) == Found("fwblocked", If(a.denied /\ (OwnRows(a) > 0 \/ w.seen), "high"))

\* What is counted of a host's flows is not counted of a trusted one.
FlowAlerts(w, s) ==
  Found("port_scan", Passed("odd", w.odd, s) \union Passed("ports", w.ports, s)
                     \union Passed("fan", w.fan, s))
  \union Found("lateral_movement", Passed("peers", w.peers, s))
  \union Found("malware_domain", If(w.backdoor, "high"))
  \union Found("data_exfil",
       If(w.upload > Threshold(20, s) /\ w.share > 25, "medium")
       \union If(w.upload > Threshold(20, s) /\ w.share > 50, "high"))

\* A bug to be caught: contact with a bad address counted like the other flows.
KnownBadUntrusted(w, t) == Found("malware_domain", If(w.bad /\ ~t, "critical"))

\* Contact with a known-bad address, by any host.
KnownBad(w, t) == Found("malware_domain", If(w.bad, "critical"))

\* Forged addresses, several DHCP servers, heard or found by a probe of the last ten
\* minutes, answers to other hosts' name queries and what such a host opens towards the
\* directory.  Each of the victims is one of the answers.
LinkAlerts(w) ==
  Found("arpspoof", If(w.macs > 1, IF w.gateway THEN "critical" ELSE "high"))
  \union Found("macspoof", If(w.addresses > 3, "medium") \union If(w.addresses > 8, "high"))
  \union Found("roguedhcp", If(w.dhcp > 1, "critical"))
  \union Found("roguedhcp-probe", If(w.probed > 1, "critical"))
  \union Found("llmnr", If(w.victims >= 3 /\ w.answers >= 3, "high")
                        \union If(w.victims > 8 /\ w.answers >= 3, "critical"))
  \union Found("adrelay", If(w.answers >= 2 /\ w.relays, "critical"))

\* All that the passes over the window push.
Pushed(a, w, s, t) ==
  ClientAlerts(a, s) \union TotalAlerts(a, s) \union PatternAlerts(a, s)
  \union BadNames(a) \union Denied(a, w)
  \union (IF t THEN {} ELSE FlowAlerts(w, s)) \union KnownBad(w, t) \union LinkAlerts(w)

\* A bug to be caught: of alerts with one id the last one pushed stays.
WorstMildest(alerts) ==
  {x \in alerts : \A y \in alerts : y.id = x.id => AtLeast(y.sev, x.sev)}

\* One alert for each id, the most severe.
Worst(alerts) ==
  {x \in alerts : \A y \in alerts : y.id = x.id => AtLeast(x.sev, y.sev)}

DetectThreats == IF engineOn THEN Worst(Pushed(asks, wire, sensitivity, trusted)) ELSE {}

-----------------------------------------------------------------------------
DetectInit ==
  /\ \E t \in Traffic : asks = t[1] /\ wire = t[2]
  /\ sensitivity = "medium" /\ trusted = FALSE /\ engineOn = TRUE

SetTuning ==
  /\ sensitivity' \in Sensitivities /\ trusted' \in BOOLEAN
  /\ UNCHANGED <<asks, wire, engineOn>>

SetEngine ==
  /\ engineOn' \in BOOLEAN
  /\ UNCHANGED <<asks, wire, sensitivity, trusted>>

DetectNext == SetTuning \/ SetEngine

DetectSpec == DetectInit /\ [][DetectNext]_detectVars

-----------------------------------------------------------------------------
(* Properties.                                                             *)

Rank(s) == CASE s = "low" -> 1 [] s = "medium" -> 2 [] s = "high" -> 3

\* "low = far fewer alerts, high = more" (tuning.ts:3-4): what is found at one
\* sensitivity is found, and is no milder, at a higher one; and no alert is found
\* twice.
SharpIsSafe ==
  LET at == [s \in Sensitivities |-> Worst(Pushed(asks, wire, s, trusted))]
  IN  \A s \in Sensitivities :
        /\ \A r \in Sensitivities : Rank(r) < Rank(s) =>
             \A x \in at[r] : \E y \in at[s] : y.id = x.id /\ AtLeast(y.sev, x.sev)
        /\ \A x, y \in at[s] : x.id = y.id => x = y

\* Trust spares a host what is counted of its flows, and nothing else: contact with
\* a known-bad address is reported at its worst whatever the tuning
\* (heuristics.ts:272-274).
TrustSparesScansOnly ==
  engineOn =>
    /\ wire.bad => [id |-> "malware_domain", sev |-> "critical"] \in DetectThreats
    /\ trusted => \A x \in DetectThreats : x.id \notin {"port_scan", "lateral_movement"}
    /\ \A x \in Worst(Pushed(asks, wire, sensitivity, FALSE)) :
         x.id \notin {"port_scan", "lateral_movement", "malware_domain", "data_exfil"}
           => x \in DetectThreats

DetectionKept == SharpIsSafe /\ TrustSparesScansOnly

\* "aggregate DDoS: overall query rate spike", "query flood (per client)"
\* (heuristics.ts:135, 152): rates above the thresholds raise their alerts.
FloodsAreSeen ==
  engineOn =>
    /\ FasterThan(asks.sent, 8, sensitivity) /\ asks.sent > Threshold(100, sensitivity)
         => \E x \in DetectThreats : x.id = "query_flood"
    /\ FasterThan(asks.sent + asks.others, 80, sensitivity)
         => \E x \in DetectThreats : x.id = "ddos"
=============================================================================

---------------------------- MODULE MCDetectors ----------------------------
(***************************************************************************)
(* Traffic for Detectors: of one kind at a time, with the counts a         *)
(* detector compares on both sides of its threshold at each sensitivity.   *)
(***************************************************************************)
EXTENDS Detectors

\* Nothing asked, nothing seen.
Quiet == [sent |-> 0, others |-> 0, late |-> TRUE, nx |-> 0, uniq |-> 0, random |-> FALSE,
          long |-> 0, txt |-> 0, suspicious |-> 0, listed |-> FALSE, verdict |-> "none",
          times |-> 0, gap |-> 30, jitter |-> 0, sigma |-> 0, denied |-> FALSE]
Still == [odd |-> 0, ports |-> 0, fan |-> 0, peers |-> 0, backdoor |-> FALSE, upload |-> 0,
          share |-> 0, bad |-> FALSE, macs |-> 1, gateway |-> FALSE, addresses |-> 1,
          dhcp |-> 1, probed |-> 1, victims |-> 0, answers |-> 0, relays |-> FALSE, seen |-> FALSE]

\* Counts on both sides of each threshold, at each factor.
Around(base) == UNION {{Threshold(base, s), Threshold(base, s) + 1} : s \in Sensitivities}

MCDns ==
  {[Quiet EXCEPT !.sent = n, !.others = o, !.late = l] :
      n \in {0, 361, 577, 961, 1001, 12000}, o \in {0, 900, 12000}, l \in BOOLEAN}
  \union {[Quiet EXCEPT !.sent = n, !.nx = x, !.uniq = u, !.random = r] :
      n \in {30, 200, 900}, x \in Around(12) \union Around(60),
      u \in {30} \union Around(80), r \in BOOLEAN}
  \union {[Quiet EXCEPT !.sent = 900, !.uniq = u, !.random = r] :
      u \in Around(22) \union Around(35) \union Around(250), r \in BOOLEAN}
  \union {[Quiet EXCEPT !.sent = 40, !.long = g, !.txt = x, !.uniq = u, !.suspicious = p] :
      g \in {3, 4}, x \in {25, 26}, u \in {11, 12, 30}, p \in {5, 6, 21}}
  \union {[Quiet EXCEPT !.sent = n, !.listed = l, !.verdict = v, !.denied = d] :
      n \in {0, 1}, l, d \in BOOLEAN, v \in {"none", "suspicious", "malicious"}}
  \union {[Quiet EXCEPT !.sent = 10, !.times = t, !.gap = g, !.jitter = j, !.sigma = z] :
      t \in {5, 6}, g \in {1, 30, 901}, j \in {0, 4, 5, 11, 12, 25, 34, 35}, z \in {2, 3, 6, 7}}

MCWire ==
  {[Still EXCEPT !.odd = o, !.ports = p] : o \in Around(40) \union Around(150), p \in Around(15)}
  \union {[Still EXCEPT !.fan = f] : f \in Around(60) \union Around(200)}
  \union {[Still EXCEPT !.peers = p, !.backdoor = b, !.upload = u, !.share = h, !.bad = x] :
      p \in Around(5) \union Around(15), b, x \in BOOLEAN, u \in Around(20), h \in {25, 26, 51}}
  \union {[Still EXCEPT !.macs = m, !.gateway = g, !.addresses = a, !.dhcp = d, !.probed = 3 - d,
                        !.victims = v, !.answers = v + n, !.relays = r] :
      m, d \in {1, 2}, g, r \in BOOLEAN, a \in {3, 4, 9}, v \in {1, 2, 3, 9}, n \in {0, 1}}

MCTraffic == (MCDns \X {Still}) \union ({Quiet} \X MCWire)
=============================================================================

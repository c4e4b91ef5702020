------------------------------ MODULE Capture ------------------------------
(***************************************************************************)
(* What is learnt from the traffic: the packet capture, and the running    *)
(* average of what a device normally does.                                 *)
(***************************************************************************)
EXTENDS SequencesExt, FiniteSets, Integers

(***************************************************************************)
(* The packet capture, security/sniffer.ts.                                *)
(*                                                                         *)
(* 1. One tcpdump at a time is meant to run.  startSniffer waits for the   *)
(*    name of the interface between its check and its effect; the handlers *)
(*    of every tcpdump ever started write the same state.                  *)
(* 2. What it says comes in chunks that end anywhere, within a line too.   *)
(*    parse reads each chunk by itself, line by line, into tables of       *)
(*    limited size and a count of packets for each second.                 *)
(***************************************************************************)

CONSTANTS
  Procs,      \* names of tcpdump processes, reused once they are forgotten
  NoProc,
  MaxStarts   \* how many starts may wait for the interface at once

ASSUME CaptureAssumption == NoProc \notin Procs /\ MaxStarts \in Nat

VARIABLES
  capturing,  \* state.running
  proc,       \* the process a stop would kill
  starting,   \* how many startSniffer wait in pickIface
  tcpdump,    \* each process, until its 'close' has come
  hurried     \* history: a start or stop did not wait for what was under way

captureVars == <<capturing, proc, starting, tcpdump, hurried>>

\* "failed": it could not be run, 'error' has been reported and 'close' is to come
ProcStates == {"none", "alive", "killed", "failed"}

Outstanding == {p \in Procs : tcpdump[p] # "none"}
Capturers == {p \in Procs : tcpdump[p] = "alive"}

CaptureInit ==
  /\ capturing = FALSE
  /\ proc = NoProc
  /\ starting = 0
  /\ tcpdump = [p \in Procs |-> "none"]
  /\ hurried = FALSE

\* startSniffer up to its await.
AskStart ==
  /\ ~capturing
  /\ starting < MaxStarts
  /\ starting' = starting + 1
  /\ hurried' = (starting > 0 \/ Outstanding # {})
  /\ UNCHANGED <<capturing, proc, tcpdump>>

\* ... and from there: nothing is checked again.
Launch(p) ==
  /\ starting > 0
  /\ p \notin Outstanding /\ p # proc
  /\ starting' = starting - 1
  /\ capturing' = TRUE
  /\ proc' = p
  /\ tcpdump' = [tcpdump EXCEPT ![p] = "alive"]
  /\ UNCHANGED hurried

\* A bug to be caught: stop forgets the process without killing it.
StopWithoutKill ==
  /\ proc' = NoProc
  /\ capturing' = FALSE
  /\ hurried' = (hurried \/ starting > 0)
  /\ UNCHANGED <<starting, tcpdump>>

StopSniffer ==
  /\ tcpdump' = [p \in Procs |->
                   IF p = proc /\ tcpdump[p] = "alive" THEN "killed" ELSE tcpdump[p]]
  /\ proc' = NoProc
  /\ capturing' = FALSE
  /\ hurried' = (hurried \/ starting > 0)
  /\ UNCHANGED starting

\* The 'close' of any tcpdump, the running one or an old one, clears the flag.
Ended(p) ==
  /\ p \in Outstanding
  /\ tcpdump' = [tcpdump EXCEPT ![p] = "none"]
  /\ capturing' = FALSE
  /\ UNCHANGED <<proc, starting, hurried>>

RunFailed(p) ==
  /\ p \in Capturers
  /\ tcpdump' = [tcpdump EXCEPT ![p] = "failed"]
  /\ capturing' = FALSE
  /\ UNCHANGED <<proc, starting, hurried>>

CaptureNext ==
  \/ AskStart
  \/ \E p \in Procs : Launch(p) \/ Ended(p) \/ RunFailed(p)
  \/ StopSniffer

CaptureSpec == CaptureInit /\ [][CaptureNext]_captureVars

-----------------------------------------------------------------------------
CaptureTypeOK ==
  /\ capturing \in BOOLEAN /\ hurried \in BOOLEAN
  /\ proc \in Procs \union {NoProc}
  /\ starting \in 0 .. MaxStarts
  /\ tcpdump \in [Procs -> ProcStates]

\* The page never says "capturing" without a tcpdump that nobody has stopped
\* and whose end will be noticed, however starts, stops and ends overlap.
CapturingIsReal == capturing => proc \in Capturers

\* If starts and stops wait for what is under way, there is one capture at most,
\* it can be stopped, and the page shows it.
OneCapture ==
  ~hurried => /\ Capturers \subseteq {proc}
              /\ capturing <=> Capturers # {}

\* Together: the page says that it captures when it does, and no tcpdump is left
\* that no stop would reach.
CaptureKept == CapturingIsReal /\ OneCapture

-----------------------------------------------------------------------------
(* What the lines say.                                                     *)

CONSTANTS
  Frames,      \* [kind : "request" (of ARP), "reply" (of ARP), "ip" or "icmp"; mac, src,
               \*  dst; from : the port it comes from, "dhcp", "name" or "other"]
  Group,       \* an address that is no single host's
  Private,     \* the addresses that pass for the network's own
  Shorter(_),  \* the address another one begins with, if any: 10.0.0.1 of 10.0.0.15
  Rests(_),    \* the addresses another one ends with when its first number is cut: 0.1.2.3 is
               \* left of 10.1.2.3, and 10.1.2.3, a private one, of the public 110.1.2.3
  TableCap, TableBatch,   \* a table longer than the first gives up its oldest second
  RateCap, RateKeep,
  Bars,        \* how many the graph of the traffic has
  ChunkLines, MaxHeard, MaxSecond   \* bounds

ASSUME TrafficAssumption ==
  /\ \A n \in {TableCap, TableBatch, RateCap, Bars, ChunkLines, MaxHeard} :
       n \in Nat \ {0}
  /\ RateKeep \in Nat /\ MaxSecond \in Nat
  /\ \A f \in Frames :
       /\ f.kind \in {"request", "reply", "ip", "icmp"}
       /\ Shorter(f.src) \subseteq {g.src : g \in Frames}
  /\ Group \notin Private

VARIABLES
  tables,   \* each Map: its rows in the order of insertion, [key, n], n counting per value
  seen,     \* the private addresses of all talks, kept for good
  rate, second,
  unread,   \* the end of a line whose beginning has been read
  onWire,   \* history: how often each thing to be entered was on the wire
  wire,     \* history: how many lines came in each second
  torn,     \* history: the frames whose line was cut
  lost      \* history: "spilled" once a row was given up, "crowded" once a chunk
            \* brought more new rows than that

trafficVars == <<tables, seen, rate, second, unread, onWire, wire, torn, lost>>

Tables == {"bindings", "talkers", "flows", "dhcp", "nameResp"}

\* f with y for x.
Put(f, x, y) == [z \in DOMAIN f \union {x} |-> IF z = x THEN y ELSE f[z]]

\* One line read: the packets it counts for, and what it enters, one thing in a table:
\* <<table, key, value>>.
Unheard == [n |-> 0, notes |-> {}]
OnlyCounted == [n |-> 1, notes |-> {}]

\* bind: a private address only.
Bound(f, ip) ==
  [n |-> 1, notes |-> IF ip \in Private THEN {<<"bindings", ip, f.mac>>} ELSE {}]

Talk(f, src, proto) ==
  {<<"talkers", src, "sent">>, <<"flows", <<src, f.dst, proto>>, "sent">>}
    \union (IF f.from = "dhcp" THEN {<<"dhcp", src, "sent">>} ELSE {})
    \union (IF f.from = "name" /\ f.dst # Group THEN {<<"nameResp", src, f.dst>>} ELSE {})

\* The whole line of a frame.
Line(f) ==
  CASE f.kind \in {"request", "reply"} -> Bound(f, f.src)
    [] f.kind = "icmp" -> OnlyCounted
    [] f.kind = "ip" -> [n |-> 1, notes |-> Bound(f, f.src).notes \union Talk(f, f.src, "proto")]

\* What its two parts are read as when it is cut: the address of an ARP request may
\* lose digits; an IP line may count on either side, or on both, lose the sender's
\* MAC, the beginning of its address, or the end of the protocol's name.
Halves(f) ==
  CASE f.kind = "request" ->
         ({Unheard, OnlyCounted, Line(f)} \union {Bound(f, ip) : ip \in Shorter(f.src)}) \X {Unheard}
    [] f.kind = "reply" -> {Unheard, OnlyCounted, Line(f)} \X {Unheard}
    [] f.kind = "icmp" -> {Unheard, OnlyCounted} \X {Unheard}
    [] f.kind = "ip" ->
         LET Late(src) == [n |-> 1, notes |-> Talk(f, src, "proto")]
             Clipped == [n |-> 1, notes |-> Bound(f, f.src).notes \union Talk(f, f.src, "pro")]
         IN  ({Unheard, OnlyCounted} \X {Late(f.src)})
               \union {<<OnlyCounted, Late(rest)>> : rest \in Rests(f.src)}
               \union ({OnlyCounted, Clipped, Line(f)} \X {Unheard})

CountOf(rows, key, value) ==
  IF \E i \in DOMAIN rows : rows[i].key = key /\ value \in DOMAIN rows[i].n
  THEN (CHOOSE r \in Range(rows) : r.key = key).n[value] ELSE 0

\* One more of a value under a key: bind, and the counts parse keeps.
Enter(rows, key, value) ==
  LET n == CountOf(rows, key, value) + 1
  IN  IF \E i \in DOMAIN rows : rows[i].key = key
      THEN [i \in DOMAIN rows |->
              IF rows[i].key = key THEN [rows[i] EXCEPT !.n = Put(@, value, n)] ELSE rows[i]]
      ELSE Append(rows, [key |-> key, n |-> Put(<< >>, value, n)])

\* The private ones of the addresses that talk.
Addresses(notes) ==
  Private \cap UNION {{x[2][1], x[2][2]} : x \in {y \in notes : y[1] = "flows"}}

EnterAll(ts, reading) ==
  LET new(t) == {x \in reading.notes : x[1] = t}
  IN  [t \in Tables |-> IF new(t) = {} THEN ts[t]
                        ELSE LET x == CHOOSE y \in new(t) : TRUE IN Enter(ts[t], x[2], x[3])]

\* One reading after the other.
EnterEach(ts, readings) ==
  LET upTo[i \in 0 .. Len(readings)] ==
        IF i = 0 THEN ts ELSE EnterAll(upTo[i - 1], readings[i])
  IN  upTo[Len(readings)]

OnWire(x) == IF x \in DOMAIN onWire THEN onWire[x] ELSE 0

Heard(lines) ==
  [x \in DOMAIN onWire \union UNION {lines[i].notes : i \in DOMAIN lines} |->
     OnWire(x) + Cardinality({i \in DOMAIN lines : x \in lines[i].notes})]

\* "bound memory": the rows that came first go, however much they count.
Bounded(t, rows) ==
  IF t # "dhcp" /\ Len(rows) > TableCap THEN SubSeq(rows, TableBatch + 1, Len(rows)) ELSE rows

\* The sum of f: it counts f[x] times one for each x.
Units(f) == UNION {{x} \X (1 .. f[x]) : x \in DOMAIN f}
Sum(f) == Cardinality(Units(f))

\* A bug to be caught: a chunk replaces what its second has counted.
RatedAnew(delta) == Put(rate, second, delta)

\* The packets of a chunk count for the second it is read in.
Rated(delta) ==
  LET before == IF second \in DOMAIN rate THEN rate[second] ELSE 0
      more == Put(rate, second, before + delta)
      kept == {s \in DOMAIN more : s + RateKeep >= second}
  IN  IF delta = 0 THEN rate
      ELSE IF Cardinality(DOMAIN more) > RateCap THEN [s \in kept |-> more[s]] ELSE more

TrafficInit ==
  /\ tables = [t \in Tables |-> << >>] /\ seen = {} /\ onWire = << >>
  /\ rate = << >> /\ second = 0
  /\ unread = Unheard
  /\ wire = [s \in 0 .. MaxSecond |-> 0] /\ torn = {} /\ lost = {}

\* A chunk: the end of the line cut before, whole lines, and perhaps the beginning
\* of one more.
ReadChunk(frames, last) ==
  LET whole == [i \in DOMAIN frames |-> Line(frames[i])]
      readings == <<unread>> \o [i \in DOMAIN frames |->
                                   IF i = Len(frames) THEN last[1] ELSE whole[i]]
      full == EnterEach(tables, readings)
      kept == [t \in Tables |-> Bounded(t, full[t])]
      delta == Sum([i \in DOMAIN readings |-> readings[i].n])
  IN  /\ tables' = kept
      /\ seen' = seen \union UNION {Addresses(readings[i].notes) : i \in DOMAIN readings}
      /\ rate' = Rated(delta)
      /\ unread' = last[2]
      /\ onWire' = Heard(whole)
      /\ wire' = [wire EXCEPT ![second] = @ + Len(frames)]
      /\ torn' = torn \union {frames[i] : i \in {j \in DOMAIN frames :
                                j = Len(frames) /\ last # <<whole[j], Unheard>>}}
      /\ lost' = lost \union {"spilled" : t \in {u \in Tables : kept[u] # full[u]}}
                     \union {"crowded" : t \in {u \in Tables :
                                Len(full[u]) - Len(tables[u]) > TableBatch}}
      /\ UNCHANGED second

TcpdumpSays ==
  \E frames \in UNION {[1 .. n -> Frames] : n \in 0 .. ChunkLines} :
    /\ Sum(wire) + Len(frames) <= MaxHeard
    /\ ~(frames = << >> /\ unread = Unheard)
    /\ \E last \in IF frames = << >> THEN {<<Unheard, Unheard>>}
                    ELSE {<<Line(Last(frames)), Unheard>>} \union Halves(Last(frames)) :
         ReadChunk(frames, last)

ASecondPasses ==
  /\ second < MaxSecond
  /\ second' = second + 1
  /\ UNCHANGED <<tables, seen, rate, unread, onWire, wire, torn, lost>>

\* A new capture: what was cut is not continued, the tables stay.  (The number of
\* packets that is shown begins again; no table depends on it.)
StartedAgain ==
  /\ unread' = Unheard
  /\ UNCHANGED <<tables, seen, rate, second, onWire, wire, torn, lost>>

TrafficNext == TcpdumpSays \/ ASecondPasses \/ StartedAgain

TrafficSpec == TrafficInit /\ [][TrafficNext]_trafficVars

-----------------------------------------------------------------------------
PacketsInWindow(w) == Sum([s \in {x \in DOMAIN rate : x + w >= second} |-> rate[s]])

\* The graph and the headline beside it.  Times are in half seconds here: the window
\* of w seconds ends at 2 * second + half, the packets are dated by whole seconds.
Bar(t, cutoff, w) == ((t - cutoff) * Bars) \div (2 * w)

\* sniffRateBuckets: what is dated before the window, or at its very end, is left out.
RateBuckets(cutoff, w) ==
  [b \in 0 .. Bars - 1 |-> Sum([s \in {x \in DOMAIN rate : Bar(2 * x, cutoff, w) = b} |-> rate[s]])]

\* The queries of the window: `log` has how many came in each half second.
Recent(log, cutoff) == {t \in DOMAIN log : t >= cutoff}

\* computeOverview: the queries in the bars they fall into, or the nearest one, and on
\* top of them the packets.
Overview(log, w, half) ==
  LET cutoff == 2 * second + half - 2 * w
      recent == Recent(log, cutoff)
      Within(b) == Min({Bars - 1, Max({0, b})})
      packets == RateBuckets(cutoff, w)
  IN  [series |-> [b \in 0 .. Bars - 1 |->
                     packets[b] + Sum([t \in {x \in recent : Within(Bar(x, cutoff, w)) = b} |-> log[t]])],
       total |-> Sum([t \in recent |-> log[t]]) + PacketsInWindow(w)]

\* The bars add up to the headline but for one second's packets: those of the first,
\* which is only partly in the window, or of the present one, as it begins.
GraphAgrees ==
  \A w \in 1 .. MaxSecond + 1, half \in {0, 1} :
    LET shown == Overview([t \in 0 .. 2 * second + half |-> 1], w, half)
        missed == IF half = 0 THEN second ELSE second - w
    IN  shown.total = Sum(shown.series) + (IF missed \in DOMAIN rate THEN rate[missed] ELSE 0)

\* The hosts that have talked, and were talked to.
Talkers ==
  Private \cap UNION {{x[2][1], x[2][2]} : x \in {y \in DOMAIN onWire : y[1] = "flows"}}

\* Private addresses that nobody has, the end of a public one that was cut.
Invented == Private \cap UNION {Rests(f.src) : f \in {g \in torn : g.kind = "ip"}}

\* The table counts nothing more often than it was on the wire.
NoMoreThanHeard(t) ==
  \A r \in Range(tables[t]) : \A v \in DOMAIN r.n : r.n[v] <= OnWire(<<t, r.key, v>>)

\* While no line was cut a table counts nothing that was not on the wire, and it
\* counts everything until it has given up rows; the packets of the seconds that
\* are kept are exact, across restarts too.  A line that was cut invents no binding of
\* an address unless it was an ARP request, and no host but the one its sender's public
\* address ends with.  The tables stay within their limit while no chunk brings more
\* rows than a table gives up.  The graph is that of the headline.
TrafficKept ==
  /\ torn = {} =>
       /\ \A t \in Tables : NoMoreThanHeard(t)
       /\ lost = {} => \A x \in DOMAIN onWire : CountOf(tables[x[1]], x[2], x[3]) = onWire[x]
       /\ \A w \in 0 .. RateKeep :
            PacketsInWindow(w) = Sum([s \in {x \in DOMAIN wire : x + w >= second} |-> wire[s]])
  /\ seen \subseteq Talkers \union Invented /\ (torn = {} => seen = Talkers)
  /\ (\A f \in torn : f.kind # "request") => NoMoreThanHeard("bindings")
  /\ "crowded" \notin lost => \A t \in Tables \ {"dhcp"} : Len(tables[t]) <= TableCap
  /\ GraphAgrees

-----------------------------------------------------------------------------
(***************************************************************************)
(* What a device normally does, security/baseline.ts: the mean and the     *)
(* spread of a metric, kept in one row per client and updated sample by    *)
(* sample (Welford) without the samples.  Numbers are exact fractions      *)
(* here, <<numerator, denominator>> with a positive denominator.           *)
(***************************************************************************)

CONSTANTS
  Values,       \* what a window may count
  MaxSamples    \* bound on the samples

ASSUME BaselineAssumption == Values \subseteq Nat /\ MaxSamples \in Nat

VARIABLES
  row,          \* the row of one client and metric: mean, m2, n
  samples       \* history: what was learnt

baselineVars == <<row, samples>>

Whole(i) == <<i, 1>>
Plus(x, y) == <<x[1] * y[2] + y[1] * x[2], x[2] * y[2]>>
Minus(x, y) == <<x[1] * y[2] - y[1] * x[2], x[2] * y[2]>>
Times(x, y) == <<x[1] * y[1], x[2] * y[2]>>
Over(x, n) == <<x[1], x[2] * n>>
Equal(x, y) == x[1] * y[2] = y[1] * x[2]

\* The same number in lowest terms.
Lowest(x) ==
  LET size == IF x[1] < 0 THEN -x[1] ELSE x[1]
      d == CHOOSE d \in 1 .. x[2] :
             /\ size % d = 0 /\ x[2] % d = 0
             /\ \A e \in d + 1 .. x[2] : ~(size % e = 0 /\ x[2] % e = 0)
  IN  <<IF x[1] < 0 THEN -(size \div d) ELSE size \div d, x[2] \div d>>

BaselineInit ==
  /\ row = [mean |-> Whole(0), m2 |-> Whole(0), n |-> 0]
  /\ samples = << >>

\* A bug to be caught: the spread is taken about the old mean only.
UpdatedOldMean(r, value) ==
  LET n == r.n + 1
      delta == Minus(Whole(value), r.mean)
  IN  [mean |-> Lowest(Plus(r.mean, Over(delta, n))),
       m2 |-> Lowest(Plus(r.m2, Times(delta, delta))),
       n |-> n]

\* observe: read, update, write in one piece.
Updated(r, value) ==
  LET n == r.n + 1
      delta == Minus(Whole(value), r.mean)
      mean == Lowest(Plus(r.mean, Over(delta, n)))
  IN  [mean |-> mean,
       m2 |-> Lowest(Plus(r.m2, Times(delta, Minus(Whole(value), mean)))),
       n |-> n]

Observe(value) ==
  /\ Len(samples) < MaxSamples
  /\ row' = Updated(row, value)
  /\ samples' = Append(samples, value)

\* The row of another client, that has none yet.
OtherClient ==
  /\ row' = [mean |-> Whole(0), m2 |-> Whole(0), n |-> 0]
  /\ samples' = << >>

BaselineNext == (\E value \in Values : Observe(value)) \/ OtherClient

BaselineSpec == BaselineInit /\ [][BaselineNext]_baselineVars

-----------------------------------------------------------------------------
\* f[1] + ... + f[n]
SumTo(f, n) ==
  LET sum[i \in 0 .. n] == IF i = 0 THEN 0 ELSE sum[i - 1] + f[i]
  IN  sum[n]

\* The row holds what a second look at all the samples would give: their mean,
\* and the sum of the squares of their distances from it, which is
\* (n * sum of squares - square of the sum) / n.
RowIsExact ==
  LET n == Len(samples)
      sum == SumTo(samples, n)
      squares == SumTo([i \in DOMAIN samples |-> samples[i] * samples[i]], n)
  IN  /\ row.n = n
      /\ n > 0 => /\ Equal(row.mean, <<sum, n>>)
                  /\ Equal(row.m2, <<n * squares - sum * sum, n>>)

=============================================================================

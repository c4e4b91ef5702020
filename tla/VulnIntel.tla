----------------------------- MODULE VulnIntel -----------------------------
(***************************************************************************)
(* What the hosts of a scan are marked down for.                           *)
(*                                                                         *)
(* 1. The end-of-life data, security/vuln-intel.ts: fetched product by     *)
(*    product, a batch at a time, each with one more attempt, and merged   *)
(*    with what was known.                                                 *)
(* 2. The posture, scorePosture in security/scan.ts: what nmap says of the *)
(*    hosts, judged by the ports that are open and by that data.           *)
(***************************************************************************)
EXTENDS Naturals, SequencesExt, FiniteSets

CONSTANTS
  Batches,    \* PRODUCTS, in the order and the batches they are fetched
  Cycles,     \* what can be known of a product: versions of its data
  NoCycles    \* nothing: not known, or an empty answer

ASSUME VulnAssumption ==
  /\ Batches # << >> /\ \A n \in DOMAIN Batches : Batches[n] # {}
  /\ NoCycles \notin Cycles

Products == UNION {Batches[n] : n \in DOMAIN Batches}

VARIABLES
  intel,        \* what findCycle looks up
  refreshing,
  batch,        \* the batch being fetched
  fetching,     \* its products that have not ended: attempts made so far
  next,         \* what this round has fetched
  intelFile     \* vuln-intel.json

vulnVars == <<intel, refreshing, batch, fetching, next, intelFile>>

Unknown == [p \in Products |-> NoCycles]

VulnInit ==
  /\ intelFile \in {Unknown} \union [Products -> Cycles]
  /\ intel = intelFile
  /\ refreshing = FALSE /\ batch = 1
  /\ fetching = << >> /\ next = << >>

Attempts(B) == [p \in B |-> 0]

\* By the operator, every month, and at a start without data.
RefreshVulnIntel ==
  /\ ~refreshing
  /\ refreshing' = TRUE
  /\ batch' = 1
  /\ fetching' = Attempts(Batches[1])
  /\ next' = << >>
  /\ UNCHANGED <<intel, intelFile>>

Done(p) == fetching' = [q \in DOMAIN fetching \ {p} |-> fetching[q]]

FetchGood(p) ==
  /\ p \in DOMAIN fetching
  /\ \E c \in Cycles \union {NoCycles} :
       next' = [q \in DOMAIN next \union {p} |-> IF q = p THEN c ELSE next[q]]
  /\ Done(p)
  /\ UNCHANGED <<intel, refreshing, batch, intelFile>>

\* Throttled, timed out or unreachable: once more; any other answer, or a second
\* failure, ends it.
FetchBad(p) ==
  /\ p \in DOMAIN fetching
  /\ \/ fetching[p] = 0 /\ fetching' = [fetching EXCEPT ![p] = 1]
     \/ Done(p)
  /\ UNCHANGED <<intel, refreshing, batch, next, intelFile>>

NextBatch ==
  /\ refreshing /\ DOMAIN fetching = {} /\ batch < Len(Batches)
  /\ batch' = batch + 1
  /\ fetching' = Attempts(Batches[batch + 1])
  /\ UNCHANGED <<intel, refreshing, next, intelFile>>

\* A bug to be caught: only what this round fetched is kept.
MergedNew(p) == IF p \in DOMAIN next THEN next[p] ELSE NoCycles

Merged(p) == IF p \in DOMAIN next THEN next[p] ELSE intel[p]

\* The merge; the file is written, or not, or is left torn and reads as nothing.
FinishRefresh ==
  /\ refreshing /\ DOMAIN fetching = {} /\ batch = Len(Batches)
  /\ intel' = [p \in Products |-> Merged(p)]
  /\ refreshing' = FALSE
  /\ intelFile' \in {intel', intelFile, Unknown}
  /\ UNCHANGED <<batch, fetching, next>>

VulnRestart ==
  /\ intel' = intelFile
  /\ refreshing' = FALSE /\ batch' = 1
  /\ fetching' = << >> /\ next' = << >>
  /\ UNCHANGED intelFile

VulnNext ==
  \/ RefreshVulnIntel
  \/ \E p \in Products : FetchGood(p) \/ FetchBad(p)
  \/ NextBatch
  \/ FinishRefresh
  \/ VulnRestart

VulnSpec == VulnInit /\ [][VulnNext]_vulnVars

-----------------------------------------------------------------------------
VulnTypeOK ==
  /\ intel \in [Products -> Cycles \union {NoCycles}]
  /\ intelFile \in [Products -> Cycles \union {NoCycles}]
  /\ refreshing \in BOOLEAN /\ batch \in DOMAIN Batches
  /\ DOMAIN fetching \subseteq Batches[batch]
  /\ DOMAIN next \subseteq Products

\* "keep previously-cached products that failed this round" (vuln-intel.ts:130):
\* what was known of a product is lost only by an empty answer for it, or by a
\* restart that found a torn file; never because its fetch failed.
KnownStays ==
  [][\A p \in Products :
       intel[p] # NoCycles /\ intel'[p] = NoCycles
         => \/ p \in DOMAIN next /\ next[p] = NoCycles
            \/ intelFile[p] = NoCycles]_vulnVars

\* A round ends, if each fetch does, however many fail, and the next may begin.
RefreshEnds == refreshing ~> ~refreshing

-----------------------------------------------------------------------------
(* The posture.                                                            *)

CONSTANTS
  Facts,      \* what nmap can say, one thing at a time, of kind "script", with risk;
              \* "os", with slug and version; "port", with open, words (its number, the
              \* service and the product), slug and version
  NoSlug,     \* the slug where no alias matches
  Ends,       \* of each other slug its cycles, [cycle, ended, since]: without an end,
              \* ended since no known day, or since a year
  ManyPorts,  \* more open ports than this are a large attack surface
  FirstYear, LastYear

ASSUME PostureAssumption ==
  /\ ManyPorts \in Nat /\ FirstYear \in Nat /\ LastYear \in Nat
  /\ \A s \in DOMAIN Ends : \A c \in Ends[s] :
       /\ c.ended \in BOOLEAN /\ c.since \subseteq Nat /\ c.cycle \in Seq(Nat)
       /\ \A d \in Ends[s] : c.cycle = d.cycle => c = d
  /\ \A x \in Facts :
       /\ x.kind \in {"script", "os", "port"}
       /\ x.kind # "script" =>
            x.slug = NoSlug \/ (x.slug \in DOMAIN Ends /\ x.version \in Seq(Nat))

VARIABLES
  scanned,    \* what nmap has said in the last scan
  today

postureVars == <<scanned, today>>

sevPenalty == [critical |-> 22, high |-> 12, medium |-> 6, low |-> 2, info |-> 0]

RISKS ==
  << [sev |-> "critical", words |-> {"23", "telnet"}],
     [sev |-> "high", words |-> {"21", "ftp"}],
     [sev |-> "high", words |-> {"445", "139", "microsoft-ds", "netbios"}],
     [sev |-> "high", words |-> {"3389", "ms-wbt", "rdp"}],
     [sev |-> "high", words |-> {"5900", "5901", "vnc"}],
     [sev |-> "high", words |-> {"3306", "5432", "1433", "27017", "6379", "9200", "11211",
                                 "5984", "mysql", "postgres", "mssql", "mongo", "redis",
                                 "elastic", "memcache"}],
     [sev |-> "medium", words |-> {"161", "162", "snmp"}],
     [sev |-> "medium", words |-> {"111", "2049", "rpcbind", "nfs"}],
     [sev |-> "low", words |-> {"8080", "8443", "8000"}] >>

Matching(words) == {n \in DOMAIN RISKS : RISKS[n].words \intersect words # {}}

\* A bug to be caught: the last rule that matches decides.
ClassifyByLast(words) ==
  {RISKS[n].sev : n \in {m \in Matching(words) : \A k \in Matching(words) : k <= m}}

\* The severity of the first rule that matches, if one does.
Classify(words) ==
  {RISKS[n].sev : n \in {m \in Matching(words) : \A k \in Matching(words) : m <= k}}

\* A bug to be caught: any cycle that the version begins with.
AnyCycle(slug, version) == {c \in Ends[slug] : IsPrefix(c.cycle, version)}

\* The cycle with the longest name of those the version is, or begins with.
FindCycle(slug, version) ==
  LET fits == {c \in Ends[slug] : IsPrefix(c.cycle, version)}
  IN  {c \in fits : \A d \in fits : Len(d.cycle) <= Len(c.cycle)}

EolStatus(c, year) == c.ended \/ \E y \in c.since : y < year

SeverityForAge(c, year) ==
  IF \E y \in c.since : year - y > 4 THEN "critical"
  ELSE IF c.since # {} /\ \A y \in c.since : year - y <= 1 THEN "medium" ELSE "high"

\* vulnForService, vulnForOs: how bad it is that the version is past its end.
Unsupported(x, year) ==
  IF x.slug = NoSlug THEN {}
  ELSE {SeverityForAge(c, year) :
          c \in {d \in FindCycle(x.slug, x.version) : EolStatus(d, year)}}

\* parseXml: ports that are open, scripts that speak of a risk.
ParseXml(xs) == {x \in xs : CASE x.kind = "port" -> x.open
                              [] x.kind = "script" -> x.risk
                              [] x.kind = "os" -> TRUE}

Finding(x, why, sevs) == {[of |-> x, why |-> why, sev |-> s] : s \in sevs}

FindingsOf(x, year) ==
  CASE x.kind = "script" -> Finding(x, "script", {"high"})
    [] x.kind = "os" -> Finding(x, "old", Unsupported(x, year))
    [] x.kind = "port" -> Finding(x, "old", Unsupported(x, year))
                            \union Finding(x, "exposed", Classify(x.words))

Findings(xs, year) == UNION {FindingsOf(x, year) : x \in ParseXml(xs)}

Penalty(f) == IF f.why = "script" THEN 10 ELSE sevPenalty[f.sev]

\* One mark for each point of each finding; a thing has one finding of a sort at most.
Marks(xs, year) == UNION {{<<f.of, f.why>>} \X (1 .. Penalty(f)) : f \in Findings(xs, year)}

\* 100 and less for each finding, down to 0.
Score(xs, year) ==
  LET ports == {x \in ParseXml(xs) : x.kind = "port"}
      surface == IF Cardinality(ports) > ManyPorts THEN 8 ELSE 0
      down == surface + Cardinality(Marks(xs, year))
  IN  IF down > 100 THEN 0 ELSE 100 - down

Grade(score) ==
  CASE score >= 90 -> "A" [] score \in 80 .. 89 -> "B" [] score \in 70 .. 79 -> "C"
    [] score \in 55 .. 69 -> "D" [] score < 55 -> "F"

PostureInit == scanned = {} /\ today = FirstYear

NmapFinds(x) ==
  /\ x \notin scanned
  /\ scanned' = scanned \union {x}
  /\ UNCHANGED today

\* A new scan begins with no host.
ScanBegins == scanned' = {} /\ UNCHANGED today

AYearPasses ==
  /\ today < LastYear
  /\ today' = today + 1
  /\ UNCHANGED scanned

PostureNext == (\E x \in Facts : NmapFinds(x)) \/ ScanBegins \/ AYearPasses

PostureSpec == PostureInit /\ [][PostureNext]_postureVars

-----------------------------------------------------------------------------
\* Neither one more thing found nor one more year makes the posture better; a port
\* is as bad as the worst that can be said of it; an A hides nothing high and a B
\* nothing critical, unless nmap's scripts found it; and a release with a branch of
\* its own is judged by that, not by the end of the branch that this came from.
PostureSound ==
  /\ \A x \in scanned : Score(scanned, today) <= Score(scanned \ {x}, today)
  /\ Score(scanned, today + 1) <= Score(scanned, today)
  /\ \A f \in Findings(scanned, today) :
       f.why = "exposed" =>
         \A n \in Matching(f.of.words) : sevPenalty[RISKS[n].sev] <= sevPenalty[f.sev]
  /\ \A f \in Findings(scanned, today) :
       f.why # "script" =>
         /\ f.sev = "critical" => Grade(Score(scanned, today)) \notin {"A", "B"}
         /\ f.sev = "high" => Grade(Score(scanned, today)) # "A"
  /\ \A x \in scanned : x.kind # "script" /\ x.slug # NoSlug =>
       \A c \in Ends[x.slug] :
         c.cycle = x.version /\ ~EolStatus(c, today) => Unsupported(x, today) = {}
=============================================================================

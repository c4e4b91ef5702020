--------------------------- MODULE Scanner_proofs ---------------------------
(***************************************************************************)
(* Proofs about Scanner, for any set of scans: the flag that refuses a     *)
(* scan always has a child that will clear it, what is shown and what runs *)
(* stay in step, and a cancelled scan stays cancelled.  About the          *)
(* end-of-life data a scan is judged by and the grade it ends in           *)
(* (VulnIntel), the packet capture, what it reads of the lines, and the    *)
(* mean and the spread of what a device does (Capture).  At the end, about *)
(* the readings of all of them together (MCBackground).                    *)
(***************************************************************************)
EXTENDS MCBackground, FiniteSetTheorems, SequenceTheorems, WellFoundedInduction, TLAPS

\* A child is only killed by a cancel of the scan that has it, and whoever is
\* killed has not reported yet.
KilledReports == killed \subseteq Unreported

\* What is shown as cancelled was cancelled last, and is a scan; a child belongs
\* to a scan that is or was shown.
CancelledIsFlagged ==
  /\ shown.state = "cancelled" => cancelled
  /\ shown.state # "none" => shown.scan \in ScanIds
  /\ Unreported # {} => shown.state # "none"

ScannerInv == ScannerTypeOK /\ KilledReports /\ CancelledIsFlagged /\ RunningHasChild

\* Scans that wait for the last children: at most the child of the scan shown is
\* left, it is alive just as long as the scan runs, and it was killed only by the
\* cancel that was the last thing to happen.
OneAfterAnother ==
  ~crossed => /\ Unreported \subseteq {shown.scan}
              /\ shown.state = "done" => shown.hosts = shown.scan
              /\ killed # {} => cancelled
              /\ running => current = shown.scan /\ shown.scan \in Alive
              /\ ~running => Alive = {}

\* The records have the fields that are written.
LEMMA StartScanType ==
  ASSUME ScannerTypeOK, NEW s \in ScanIds, StartScan(s)
  PROVE  /\ running' \in BOOLEAN /\ cancelled' \in BOOLEAN /\ crossed' \in BOOLEAN
         /\ shown' \in Record /\ child' \in [ScanIds -> ChildStates]
         /\ killed' \subseteq ScanIds /\ current' \in ScanIds \union {NoScan}
  BY DEF ScannerTypeOK, StartScan, Record, ChildStates

\* A scan that is done keeps its name and shows the hosts of the child that ended.
LEMMA FinishRecord ==
  ASSUME shown \in Record, NEW s \in ScanIds, Finish(s)
  PROVE  /\ running' = FALSE /\ shown' \in Record
         /\ shown'.scan = shown.scan /\ shown'.state = "done" /\ shown'.hosts = s
<1>1. shown' = [scan |-> shown.scan, state |-> "done", hosts |-> s]
  BY DEF Finish, Record
<1> QED BY <1>1 DEF Finish, Record

\* A cancel changes the state that is shown, from running to cancelled.
LEMMA CancelRecord ==
  ASSUME shown \in Record, CancelScan
  PROVE  /\ shown' \in Record /\ shown'.scan = shown.scan /\ shown'.hosts = shown.hosts
         /\ shown'.state = IF shown.state = "running" THEN "cancelled" ELSE shown.state
<1>1. CASE shown.state = "running"
  <2>1. shown' = [scan |-> shown.scan, state |-> "cancelled", hosts |-> shown.hosts]
    BY <1>1 DEF CancelScan, Record
  <2> QED BY <1>1, <2>1 DEF Record
<1>2. CASE shown.state # "running"
  BY <1>2 DEF CancelScan
<1> QED BY <1>1, <1>2

\* A report leaves the records with the fields that are written.
LEMMA ReportType ==
  ASSUME ScannerTypeOK, NEW s \in ScanIds, NEW gone \in ChildStates, Report(s, gone)
  PROVE  /\ running' \in BOOLEAN /\ shown' \in Record
         /\ child' \in [ScanIds -> ChildStates]
         /\ current' \in ScanIds \union {NoScan}
<1> USE DEF ScannerTypeOK
<1>1. CASE UNCHANGED <<running, shown>>
  BY <1>1 DEF Report, ChildStates
<1>2. CASE Finish(s) /\ child' = [child EXCEPT ![s] = gone] /\ UNCHANGED current
  BY <1>2, FinishRecord
<1> QED BY <1>1, <1>2 DEF Report

\* Every step keeps the types.
LEMMA TypeStep == ScannerTypeOK /\ [ScannerNext]_scanVars => ScannerTypeOK'
<1> SUFFICES ASSUME ScannerTypeOK, [ScannerNext]_scanVars PROVE ScannerTypeOK'
  OBVIOUS
<1>1. ASSUME NEW s \in ScanIds, OperatorScan(s) PROVE ScannerTypeOK'
  BY <1>1, StartScanType DEF OperatorScan, ScannerTypeOK
<1>2. ASSUME NEW s \in ScanIds, SchedulerTick(s) PROVE ScannerTypeOK'
  BY <1>2, StartScanType DEF SchedulerTick, ScannerTypeOK
<1>3. ASSUME NEW s \in ScanIds, Closed(s) PROVE ScannerTypeOK'
  <2>1. "none" \in ChildStates
    BY DEF ChildStates
  <2> QED BY <1>3, <2>1, ReportType DEF Closed, ScannerTypeOK
<1>4. ASSUME NEW s \in ScanIds, SpawnFailed(s) PROVE ScannerTypeOK'
  <2>1. "failed" \in ChildStates
    BY DEF ChildStates
  <2> QED BY <1>4, <2>1, ReportType DEF SpawnFailed, ScannerTypeOK
<1>5. CASE SetSchedule
  BY <1>5 DEF SetSchedule, ScannerTypeOK
<1>6. CASE IntervalElapses
  BY <1>6 DEF IntervalElapses, ScannerTypeOK
<1>7. CASE CancelScan
  BY <1>7, CancelRecord DEF CancelScan, ScannerTypeOK, Unreported
<1>8. CASE ScannerRestart
  BY <1>8 DEF ScannerRestart, ScannerTypeOK, Record, NoRecord, ChildStates
<1>9. CASE UNCHANGED scanVars
  BY <1>9 DEF scanVars, ScannerTypeOK
<1> QED BY <1>1, <1>2, <1>3, <1>4, <1>5, <1>6, <1>7, <1>8, <1>9 DEF ScannerNext

-----------------------------------------------------------------------------
\* The start of a scan keeps the invariant,
LEMMA StartScanKeeps ==
  ASSUME ScannerInv, NEW s \in ScanIds, StartScan(s)
  PROVE  KilledReports' /\ CancelledIsFlagged' /\ RunningHasChild'
  BY DEF ScannerInv, ScannerTypeOK, StartScan, KilledReports, CancelledIsFlagged,
         RunningHasChild, Unreported, Record

\* A report in the name of any scan: either the flag of a cancel keeps it from
\* counting, and no scan runs, or it ends the scan, or it starts the second child.
LEMMA ClosedKeeps ==
  ASSUME ScannerInv, NEW s \in ScanIds, Closed(s)
  PROVE  KilledReports' /\ CancelledIsFlagged' /\ RunningHasChild'
<1> USE DEF ScannerInv, ScannerTypeOK, Closed, KilledReports, CancelledIsFlagged,
            RunningHasChild, Unreported, Record
<1>1. CASE cancelled
  BY <1>1 DEF Report
<1>2. CASE Finish(s) /\ ~cancelled /\ child' = [child EXCEPT ![s] = "none"]
  BY <1>2, FinishRecord
<1>3. CASE ~cancelled /\ child' = [child EXCEPT ![s] = "retry"] /\ UNCHANGED <<running, shown>>
  BY <1>3
<1> QED BY <1>1, <1>2, <1>3 DEF Report

\* and so does a child that could not be started.
LEMMA SpawnFailedKeeps ==
  ASSUME ScannerInv, NEW s \in ScanIds, SpawnFailed(s)
  PROVE  KilledReports' /\ CancelledIsFlagged' /\ RunningHasChild'
<1> USE DEF ScannerInv, ScannerTypeOK, SpawnFailed, KilledReports, CancelledIsFlagged,
            RunningHasChild, Unreported
<1>1. CASE cancelled
  BY <1>1 DEF Report
<1>2. CASE Finish(s) /\ ~cancelled /\ child' = [child EXCEPT ![s] = "failed"]
  BY <1>2, FinishRecord
<1>3. \/ cancelled
      \/ Finish(s) /\ ~cancelled /\ child' = [child EXCEPT ![s] = "failed"]
  BY Zenon DEF Report
<1> QED BY <1>1, <1>2, <1>3

\* Every step keeps the invariant.
LEMMA InvStep == ScannerInv /\ [ScannerNext]_scanVars => ScannerInv'
<1> SUFFICES ASSUME ScannerInv, [ScannerNext]_scanVars PROVE ScannerInv'
  OBVIOUS
<1>t. ScannerTypeOK'
  BY TypeStep DEF ScannerInv
<1>1. ASSUME NEW s \in ScanIds, OperatorScan(s) PROVE ScannerInv'
  BY <1>1, <1>t, StartScanKeeps DEF OperatorScan, ScannerInv
<1>2. ASSUME NEW s \in ScanIds, SchedulerTick(s) PROVE ScannerInv'
  BY <1>2, <1>t, StartScanKeeps DEF SchedulerTick, ScannerInv
<1>3. ASSUME NEW s \in ScanIds, Closed(s) PROVE ScannerInv'
  BY <1>3, <1>t, ClosedKeeps DEF ScannerInv
<1>4. ASSUME NEW s \in ScanIds, SpawnFailed(s) PROVE ScannerInv'
  BY <1>4, <1>t, SpawnFailedKeeps DEF ScannerInv
<1> USE DEF ScannerInv, KilledReports, CancelledIsFlagged, RunningHasChild, Unreported
<1>5. CASE SetSchedule
  BY <1>5, <1>t DEF SetSchedule
<1>6. CASE IntervalElapses
  BY <1>6, <1>t DEF IntervalElapses
<1>7. CASE CancelScan
  BY <1>7, <1>t, CancelRecord DEF CancelScan, ScannerTypeOK
<1>8. CASE ScannerRestart
  BY <1>8, <1>t DEF ScannerRestart, NoRecord
<1>9. CASE UNCHANGED scanVars
  BY <1>9, <1>t DEF scanVars
<1> QED BY <1>1, <1>2, <1>3, <1>4, <1>5, <1>6, <1>7, <1>8, <1>9 DEF ScannerNext

\* The invariant and the order of the scans hold at first.
LEMMA InitInv == ScannerInit => ScannerInv /\ OneAfterAnother
<1> SUFFICES ASSUME ScannerInit PROVE ScannerInv /\ OneAfterAnother
  OBVIOUS
<1>1. ScannerTypeOK /\ shown = NoRecord
  BY DEF ScannerInit, ScannerTypeOK, NoRecord, Record, ChildStates
<1>2. Unreported = {} /\ Alive = {}
  BY DEF ScannerInit, Unreported, Alive
<1> QED BY <1>1, <1>2 DEF ScannerInit, ScannerInv, KilledReports, CancelledIsFlagged,
        RunningHasChild, OneAfterAnother, NoRecord

-----------------------------------------------------------------------------
\* Scans that wait for one another stay so when one starts,
LEMMA StartScanInStep ==
  ASSUME ScannerInv, OneAfterAnother, NEW s \in ScanIds, StartScan(s)
  PROVE  OneAfterAnother'
<1> SUFFICES ASSUME Unreported = {} PROVE OneAfterAnother'
  BY DEF StartScan, OneAfterAnother
<1>1. killed = {}
  BY DEF ScannerInv, KilledReports
<1>2. Unreported' = {s} /\ Alive' = {s}
  BY <1>1 DEF StartScan, Unreported, Alive, ScannerInv, ScannerTypeOK
<1> QED BY <1>1, <1>2 DEF StartScan, OneAfterAnother

\* when a child ends,
LEMMA ClosedInStep ==
  ASSUME ScannerInv, OneAfterAnother, NEW s \in ScanIds, Closed(s)
  PROVE  OneAfterAnother'
<1> SUFFICES ASSUME ~crossed PROVE OneAfterAnother'
  BY DEF Closed, OneAfterAnother
<1>1. s = shown.scan /\ s \in Unreported /\ \A r \in ScanIds : r # s => child[r] = "none"
  BY DEF Closed, OneAfterAnother, Unreported
<1>2. ASSUME child' = [child EXCEPT ![s] = "none"] PROVE Unreported' = {} /\ Alive' = {} /\ killed' = {}
  BY <1>1, <1>2 DEF Closed, Unreported, Alive, ScannerInv, ScannerTypeOK, KilledReports
<1>3. CASE cancelled
  BY <1>1, <1>2, <1>3 DEF Closed, Report, Finish, OneAfterAnother, ScannerInv, RunningHasChild
<1>4. CASE ~cancelled /\ Finish(s) /\ child' = [child EXCEPT ![s] = "none"]
  BY <1>1, <1>2, <1>4, FinishRecord DEF OneAfterAnother, ScannerInv, ScannerTypeOK
<1>5. CASE ~cancelled /\ child[s] = "first" /\ child' = [child EXCEPT ![s] = "retry"]
          /\ current' = s /\ UNCHANGED <<running, shown>>
  <2>1. killed = {} /\ killed' = {}
    BY <1>5 DEF Closed, OneAfterAnother
  <2>2. s \in Alive /\ running
    BY <1>1, <1>5, <2>1 DEF Alive, OneAfterAnother
  <2>3. Unreported' = {s} /\ Alive' = {s}
    BY <1>1, <1>5, <2>1 DEF Unreported, Alive, ScannerInv, ScannerTypeOK
  <2> QED BY <1>1, <1>5, <2>1, <2>2, <2>3 DEF Closed, OneAfterAnother
<1> QED BY <1>3, <1>4, <1>5 DEF Closed, Report

\* when a child could not be started,
LEMMA SpawnFailedInStep ==
  ASSUME ScannerInv, OneAfterAnother, NEW s \in ScanIds, SpawnFailed(s)
  PROVE  OneAfterAnother'
<1> SUFFICES ASSUME ~crossed PROVE OneAfterAnother'
  BY DEF SpawnFailed, OneAfterAnother
<1>1. s = shown.scan /\ \A r \in ScanIds : r # s => child[r] = "none"
  BY DEF SpawnFailed, OneAfterAnother, Unreported
<1>2. child' = [child EXCEPT ![s] = "failed"]
  BY DEF SpawnFailed, Report
<1>3. Unreported' = {s} /\ Alive' = {}
  BY <1>1, <1>2 DEF Unreported, Alive, ScannerInv, ScannerTypeOK
<1>4. CASE cancelled
  BY <1>1, <1>3, <1>4 DEF SpawnFailed, Report, Finish, OneAfterAnother, ScannerInv, RunningHasChild
<1>5. CASE ~cancelled /\ Finish(s)
  BY <1>1, <1>3, <1>5, FinishRecord DEF SpawnFailed, OneAfterAnother, ScannerInv, ScannerTypeOK
<1> QED BY <1>4, <1>5 DEF SpawnFailed, Report

\* and when a scan is cancelled;
LEMMA CancelInStep ==
  ASSUME ScannerInv, OneAfterAnother, CancelScan
  PROVE  OneAfterAnother'
<1> SUFFICES ASSUME ~crossed PROVE OneAfterAnother'
  BY DEF CancelScan, OneAfterAnother
<1>1. Unreported' = Unreported /\ shown'.scan = shown.scan
  BY CancelRecord DEF CancelScan, Unreported, ScannerInv, ScannerTypeOK
<1>2. Alive \subseteq {current} \intersect Unreported
  BY DEF Alive, Unreported, OneAfterAnother
<1>3. Alive' = {}
  BY <1>2 DEF Alive, CancelScan
<1>4. shown'.state = "done" => shown' = shown
  BY DEF CancelScan, ScannerInv, ScannerTypeOK, Record
<1> QED BY <1>1, <1>3, <1>4 DEF CancelScan, OneAfterAnother

\* that is, in every step.
LEMMA InStepStep ==
  ScannerInv /\ OneAfterAnother /\ [ScannerNext]_scanVars => OneAfterAnother'
<1> SUFFICES ASSUME ScannerInv, OneAfterAnother, [ScannerNext]_scanVars PROVE OneAfterAnother'
  OBVIOUS
<1>1. ASSUME NEW s \in ScanIds, OperatorScan(s) \/ SchedulerTick(s) PROVE OneAfterAnother'
  BY <1>1, StartScanInStep DEF OperatorScan, SchedulerTick
<1>2. ASSUME NEW s \in ScanIds, Closed(s) PROVE OneAfterAnother'
  BY <1>2, ClosedInStep
<1>3. ASSUME NEW s \in ScanIds, SpawnFailed(s) PROVE OneAfterAnother'
  BY <1>3, SpawnFailedInStep
<1>4. CASE SetSchedule \/ IntervalElapses \/ UNCHANGED scanVars
  BY <1>4 DEF SetSchedule, IntervalElapses, scanVars, OneAfterAnother, Unreported, Alive
<1>5. CASE CancelScan
  BY <1>5, CancelInStep
<1>6. CASE ScannerRestart
  BY <1>6 DEF ScannerRestart, OneAfterAnother, Unreported, Alive, NoRecord
<1> QED BY <1>1, <1>2, <1>3, <1>4, <1>5, <1>6 DEF ScannerNext

\* One after another, what is shown and what runs are in step.
LEMMA InvImpliesInStep == OneAfterAnother => InStep
  BY DEF OneAfterAnother, InStep, Alive, Unreported

\* A record shown as cancelled is left alone by every step but the start of
\* another scan.
LEMMA CancelledStep ==
  ScannerInv /\ [ScannerNext]_scanVars
    => (shown.state = "cancelled" => shown' = shown \/ shown'.scan # shown.scan)
<1> SUFFICES ASSUME ScannerInv, [ScannerNext]_scanVars, shown.state = "cancelled"
             PROVE  shown' = shown \/ shown'.scan # shown.scan
  OBVIOUS
<1>c. cancelled /\ shown.scan \in ScanIds
  BY DEF ScannerInv, CancelledIsFlagged
<1>1. ASSUME NEW s \in ScanIds, OperatorScan(s) \/ SchedulerTick(s)
      PROVE  shown'.scan # shown.scan
  BY <1>1 DEF OperatorScan, SchedulerTick, StartScan
<1>2. ASSUME NEW s \in ScanIds, Closed(s) \/ SpawnFailed(s) PROVE shown' = shown
  BY <1>2, <1>c DEF Closed, SpawnFailed, Report
<1>3. CASE CancelScan
  BY <1>3 DEF CancelScan
<1>4. CASE ScannerRestart
  BY <1>4, <1>c, ScansAssumption DEF ScannerRestart, NoRecord
<1>5. CASE SetSchedule \/ IntervalElapses \/ UNCHANGED scanVars
  BY <1>5 DEF SetSchedule, IntervalElapses, scanVars
<1> QED BY <1>1, <1>2, <1>3, <1>4, <1>5 DEF ScannerNext

-----------------------------------------------------------------------------
\* The state of the scanner stays well typed (security/scan.ts, the module's
\* variables).
THEOREM ScannerTypeCorrect == ScannerSpec => []ScannerTypeOK
<1>1. ScannerInit => ScannerTypeOK
  BY InitInv DEF ScannerInv
<1> QED BY <1>1, TypeStep, PTL DEF ScannerSpec

\* startScan's "a scan is already running" always has a child behind it that will
\* end it: however many scans, cancels and late reports there are.
THEOREM FlagHasChild == ScannerSpec => []RunningHasChild
<1>1. ScannerInit => ScannerInv
  BY InitInv
<1>2. ScannerInv => RunningHasChild
  BY DEF ScannerInv
<1> QED BY <1>1, <1>2, InvStep, PTL DEF ScannerSpec

\* Scans started after the last children have reported show their own hosts, and
\* run exactly as long as a child that a cancel would kill.
THEOREM ScansInStep == ScannerSpec => []InStep
<1>1. ScannerInit => ScannerInv /\ OneAfterAnother
  BY InitInv
<1>2. ScannerInv /\ OneAfterAnother /\ [ScannerNext]_scanVars => (ScannerInv /\ OneAfterAnother)'
  BY InvStep, InStepStep
<1> QED BY <1>1, <1>2, InvImpliesInStep, PTL DEF ScannerSpec

\* Both together: what is said to run does run, and the page, the cancel button
\* and the child agree on which scan it is (scan.ts, startScan and cancelScan).
THEOREM ScansStayConsistent == ScannerSpec => []ScansConsistent
<1>1. RunningHasChild /\ InStep => ScansConsistent
  BY DEF ScansConsistent
<1> QED BY <1>1, FlagHasChild, ScansInStep, PTL

\* "killed by the operator - don't fall back or overwrite" (scan.ts:302).
THEOREM CancelledIsKept == ScannerSpec => CancelledStays
<1>1. ScannerInit => ScannerInv
  BY InitInv
<1>2. ScannerInv /\ [ScannerNext]_scanVars
        => [shown.state = "cancelled" => shown' = shown \/ shown'.scan # shown.scan]_scanVars
  BY CancelledStep
<1> QED BY <1>1, <1>2, InvStep, PTL DEF ScannerSpec, CancelledStays

-----------------------------------------------------------------------------
\* Only the merge of a finished round and a restart replace what is known, and neither
\* forgets a product whose fetch failed ("keep previously-cached products that failed
\* this round", vuln-intel.ts:130); for any products, batches and data.
THEOREM KnownIsKept == VulnSpec => KnownStays
<1>1. [VulnNext]_vulnVars
        => [\A p \in Products : intel[p] # NoCycles /\ intel'[p] = NoCycles
              => \/ p \in DOMAIN next /\ next[p] = NoCycles
                 \/ intelFile[p] = NoCycles]_vulnVars
  <2> SUFFICES ASSUME VulnNext, NEW p \in Products,
                      intel[p] # NoCycles, intel'[p] = NoCycles
               PROVE  \/ p \in DOMAIN next /\ next[p] = NoCycles
                      \/ intelFile[p] = NoCycles
    OBVIOUS
  <2>1. CASE FinishRefresh
    BY <2>1 DEF FinishRefresh, Merged
  <2>2. CASE VulnRestart
    BY <2>2 DEF VulnRestart
  <2>3. CASE UNCHANGED intel
    BY <2>3
  <2>4. CASE RefreshVulnIntel \/ NextBatch \/ \E q \in Products : FetchGood(q) \/ FetchBad(q)
    <3>1. UNCHANGED intel
      BY <2>4 DEF RefreshVulnIntel, NextBatch, FetchGood, FetchBad
    <3> QED BY <2>3, <3>1
  <2> QED BY <2>1, <2>2, <2>4 DEF VulnNext
<1> QED BY <1>1, PTL DEF VulnSpec, KnownStays

-----------------------------------------------------------------------------
(* The capture.                                                            *)

\* The inductive invariant.  As long as nobody hurries, a start that waits found no
\* tcpdump, and a tcpdump that captures is the only one whose end is still to come.
CaptureInv ==
  /\ CaptureTypeOK
  /\ CaptureKept
  /\ ~hurried => /\ starting > 0 => starting = 1 /\ Outstanding = {}
                 /\ Capturers # {} => Outstanding \subseteq {proc}

\* Each step keeps it.
LEMMA CaptureStays == CaptureInv /\ [CaptureNext]_captureVars => CaptureInv'
<1> SUFFICES ASSUME CaptureInv, [CaptureNext]_captureVars PROVE CaptureInv'
  OBVIOUS
<1> USE DEF CaptureInv, CaptureKept, CapturingIsReal, OneCapture, Outstanding, Capturers
<1>0. /\ NoProc \notin Procs /\ MaxStarts \in Nat /\ starting \in 0 .. MaxStarts
      /\ tcpdump \in [Procs -> ProcStates]
  BY CaptureAssumption DEF CaptureTypeOK
<1>1. CASE AskStart
  <2>1. CaptureTypeOK'
    BY <1>0, <1>1 DEF AskStart, CaptureTypeOK
  <2>2. ~capturing' /\ tcpdump' = tcpdump /\ proc' = proc
    BY <1>1 DEF AskStart
  <2>3. ASSUME ~hurried'
        PROVE  starting' = 1 /\ \A p \in Procs : tcpdump'[p] = "none"
    <3>1. ~(starting > 0 \/ Outstanding # {})
      BY <1>1, <2>3, Zenon DEF AskStart
    <3>2. starting = 0 /\ starting' = starting + 1
      BY <1>0, <1>1, <3>1 DEF AskStart
    <3> QED BY <2>2, <3>1, <3>2
  <2> QED BY <2>1, <2>2, <2>3
<1>2. ASSUME NEW p \in Procs, Launch(p) PROVE CaptureInv'
  <2>1. tcpdump' \in [Procs -> ProcStates] /\ \A q \in Procs : tcpdump'[q] = IF q = p THEN "alive" ELSE tcpdump[q]
    BY <1>0, <1>2 DEF Launch, ProcStates
  <2>2. CaptureTypeOK'
    BY <1>0, <1>2, <2>1 DEF Launch, CaptureTypeOK
  <2>3. ~hurried => Outstanding = {} /\ starting' = 0
    BY <1>0, <1>2 DEF Launch
  <2> QED BY <1>2, <2>1, <2>2, <2>3 DEF Launch
<1>3. ASSUME NEW p \in Procs, Ended(p) PROVE CaptureInv'
  <2>1. tcpdump' \in [Procs -> ProcStates] /\ \A q \in Procs : tcpdump'[q] = IF q = p THEN "none" ELSE tcpdump[q]
    BY <1>0, <1>3 DEF Ended, ProcStates
  <2>2. CaptureTypeOK'
    BY <1>0, <1>3, <2>1 DEF Ended, CaptureTypeOK
  <2> QED BY <1>3, <2>1, <2>2 DEF Ended
<1>4. ASSUME NEW p \in Procs, RunFailed(p) PROVE CaptureInv'
  <2>1. tcpdump' \in [Procs -> ProcStates] /\ \A q \in Procs : tcpdump'[q] = IF q = p THEN "failed" ELSE tcpdump[q]
    BY <1>0, <1>4 DEF RunFailed, ProcStates
  <2>2. CaptureTypeOK'
    BY <1>0, <1>4, <2>1 DEF RunFailed, CaptureTypeOK
  <2> QED BY <1>4, <2>1, <2>2 DEF RunFailed
<1>5. CASE StopSniffer
  <2>1. /\ tcpdump' \in [Procs -> ProcStates]
        /\ \A q \in Procs :
             tcpdump'[q] = IF q = proc /\ tcpdump[q] = "alive" THEN "killed" ELSE tcpdump[q]
    BY <1>0, <1>5 DEF StopSniffer, ProcStates
  <2>2. CaptureTypeOK'
    BY <1>0, <1>5, <2>1 DEF StopSniffer, CaptureTypeOK
  <2> QED BY <1>0, <1>5, <2>1, <2>2 DEF StopSniffer
<1>6. CASE UNCHANGED captureVars
  BY <1>6 DEF captureVars, CaptureTypeOK
<1> QED BY <1>1, <1>2, <1>3, <1>4, <1>5, <1>6 DEF CaptureNext

\* It holds at first.
LEMMA CaptureBegins == CaptureInit => CaptureInv
<1> SUFFICES ASSUME CaptureInit PROVE CaptureInv
  OBVIOUS
<1>1. Capturers = {} /\ starting = 0 /\ ~capturing
  BY DEF CaptureInit, Capturers
<1>2. CaptureTypeOK
  <2>1. [p \in Procs |-> "none"] \in [Procs -> ProcStates]
    BY DEF ProcStates
  <2>2. 0 \in 0 .. MaxStarts
    BY CaptureAssumption
  <2> QED BY <2>1, <2>2, Zenon DEF CaptureInit, CaptureTypeOK
<1> QED BY <1>1, <1>2 DEF CaptureInv, CaptureKept, CapturingIsReal, OneCapture

\* The page says that it captures when it does, and no tcpdump is left that no stop would
\* reach, however starts, stops and ends overlap (CaptureKept).
THEOREM CaptureIsKept == CaptureSpec => []CaptureKept
<1>1. CaptureInv => CaptureKept
  BY DEF CaptureInv
<1> QED BY <1>1, CaptureBegins, CaptureStays, PTL DEF CaptureSpec

-----------------------------------------------------------------------------
(* Least and greatest numbers.                                             *)

\* Pairs of numbers, the smaller one first.
Precedes == {s \in Nat \X Nat : s[1] < s[2]}

\* The natural numbers are well ordered.
LEMMA PrecedesWF == IsWellFoundedOn(Precedes, Nat)
BY NatLessThanWellFounded DEF OpToRel, Precedes

\* A set of numbers that is not empty has a least one.
LEMMA NatMin ==
  ASSUME NEW T \in SUBSET Nat, T # {}
  PROVE  \E x \in T : \A y \in T : x <= y
<1>1. PICK x \in T : \A y \in T : ~(<<y, x>> \in Precedes)
  BY PrecedesWF, WFMin
<1>2. ASSUME NEW y \in T PROVE ~(y < x)
  <2>1. <<y, x>> \in Nat \X Nat
    OBVIOUS
  <2> QED BY <1>1, <2>1 DEF Precedes
<1> QED BY <1>2

\* Of numbers up to a bound one is the highest.
LEMMA NatMax ==
  ASSUME NEW b \in Nat, NEW T \in SUBSET (1 .. b), T # {}
  PROVE  \E x \in T : \A y \in T : y <= x
<1> DEFINE U == {b - y : y \in T}
<1>1. U \in SUBSET Nat /\ U # {}
  <2>1. \A y \in T : b - y \in Nat
    OBVIOUS
  <2> QED BY <2>1
<1> HIDE DEF U
<1>2. PICK u \in U : \A v \in U : u <= v
  BY <1>1, NatMin
<1>3. PICK x \in T : u = b - x
  BY DEF U
<1>4. ASSUME NEW y \in T PROVE y <= x
  <2>1. b - y \in U
    BY DEF U
  <2> QED BY <1>2, <1>3, <2>1
<1> QED BY <1>4

-----------------------------------------------------------------------------
(* Sums.                                                                   *)

\* s[k] is f[1] + ... + f[k].
Sums(f, n, s) ==
  /\ s \in [0 .. n -> Int]
  /\ \A k \in 0 .. n : s[k] = IF k = 0 THEN 0 ELSE s[k - 1] + f[k]

\* There are such sums,
LEMMA SumsExist ==
  ASSUME NEW n \in Nat, NEW f, \A i \in 1 .. n : f[i] \in Int
  PROVE  \E s : Sums(f, n, s)
<1> DEFINE T == {m \in 0 .. n : ~\E s : Sums(f, m, s)}
<1>1. \E s : Sums(f, 0, s)
  <2> DEFINE s == [k \in 0 .. 0 |-> 0]
  <2>1. s \in [0 .. 0 -> Int] /\ \A k \in 0 .. 0 : k = 0 /\ s[k] = 0
    OBVIOUS
  <2> HIDE DEF s
  <2> QED BY <2>1 DEF Sums
<1>2. ASSUME NEW m \in 1 .. n, NEW s, Sums(f, m - 1, s) PROVE \E t : Sums(f, m, t)
  <2> DEFINE t == [k \in 0 .. m |-> IF k = m THEN s[m - 1] + f[m] ELSE s[k]]
  <2>1. m \in Nat /\ m - 1 \in 0 .. m - 1 /\ f[m] \in Int /\ \A k \in 0 .. m - 1 : s[k] \in Int
    BY <1>2 DEF Sums
  <2>2. t \in [0 .. m -> Int] /\ t[m] = s[m - 1] + f[m] /\ \A k \in 0 .. m - 1 : t[k] = s[k]
    BY <2>1
  <2> HIDE DEF t
  <2>3. ASSUME NEW k \in 0 .. m PROVE t[k] = IF k = 0 THEN 0 ELSE t[k - 1] + f[k]
    <3>1. CASE k = m
      <4>1. t[k - 1] = s[k - 1] /\ k # 0
        BY <2>1, <2>2, <3>1
      <4> QED BY <2>2, <3>1, <4>1
    <3>2. CASE k # m
      <4>1. k \in 0 .. m - 1 /\ (k # 0 => k - 1 \in 0 .. m - 1)
        BY <2>1, <3>2
      <4>2. t[k] = s[k] /\ (k # 0 => t[k - 1] = s[k - 1])
        BY <2>2, <4>1
      <4> QED BY <1>2, <4>1, <4>2 DEF Sums
    <3> QED BY <3>1, <3>2
  <2> QED BY <2>2, <2>3 DEF Sums
<1>3. CASE T # {}
  <2>1. PICK m \in T : \A y \in T : m <= y
    <3>1. T \in SUBSET Nat
      OBVIOUS
    <3> QED BY <1>3, <3>1, NatMin
  <2>2. m # 0 /\ m \in 1 .. n /\ m - 1 \in 0 .. n /\ ~(m <= m - 1)
    BY <1>1, <2>1
  <2>3. m - 1 \notin T
    BY <2>1, <2>2
  <2> QED BY <1>2, <2>2, <2>3
<1> QED BY <1>3

\* and SumTo is the last of them.
LEMMA SumIs ==
  ASSUME NEW n \in Nat, NEW f, NEW s, Sums(f, n, s)
  PROVE  SumTo(f, n) = s[n] /\ s[n] \in Int
<1> DEFINE sum[i \in 0 .. n] == IF i = 0 THEN 0 ELSE sum[i - 1] + f[i]
<1>1. s = [i \in 0 .. n |-> IF i = 0 THEN 0 ELSE s[i - 1] + f[i]]
  BY DEF Sums
<1>2. sum = [i \in 0 .. n |-> IF i = 0 THEN 0 ELSE sum[i - 1] + f[i]]
  BY <1>1
<1> HIDE DEF sum
<1> DEFINE T == {i \in 0 .. n : sum[i] # s[i]}
<1>3. T = {}
  <2> SUFFICES ASSUME T # {} PROVE FALSE
    OBVIOUS
  <2>1. PICK t \in T : \A y \in T : t <= y
    <3>1. T \in SUBSET Nat
      OBVIOUS
    <3> QED BY <3>1, NatMin
  <2>2. t \in 0 .. n /\ sum[t] # s[t]
    OBVIOUS
  <2>3. t # 0
    BY <1>1, <1>2, <2>2
  <2>4. t - 1 \in 0 .. n /\ ~(t <= t - 1)
    BY <2>2, <2>3
  <2>5. sum[t - 1] = s[t - 1]
    BY <2>1, <2>4
  <2> QED BY <1>1, <1>2, <2>2, <2>3, <2>5
<1>4. n \in 0 .. n
  OBVIOUS
<1>5. SumTo(f, n) = sum[n]
  BY DEF SumTo, sum
<1> QED BY <1>3, <1>4, <1>5 DEF Sums

\* One more is added.
LEMMA SumNext ==
  ASSUME NEW n \in Nat, NEW f, NEW h, \A i \in 1 .. n + 1 : h[i] \in Int,
         \A i \in 1 .. n : f[i] = h[i]
  PROVE  SumTo(f, n) \in Int /\ SumTo(h, n + 1) = SumTo(f, n) + h[n + 1]
<1>1. PICK s : Sums(h, n + 1, s)
  BY SumsExist
<1> DEFINE t == [k \in 0 .. n |-> s[k]]
<1>2. n \in 0 .. n + 1 /\ n + 1 \in 0 .. n + 1 /\ \A k \in 0 .. n : t[k] = s[k] /\ k \in 0 .. n + 1
  OBVIOUS
<1>3. t \in [0 .. n -> Int]
  BY <1>1, <1>2 DEF Sums
<1> HIDE DEF t
<1>4. ASSUME NEW k \in 0 .. n PROVE t[k] = IF k = 0 THEN 0 ELSE t[k - 1] + f[k]
  <2>1. s[k] = IF k = 0 THEN 0 ELSE s[k - 1] + h[k]
    BY <1>1, <1>2 DEF Sums
  <2>2. k # 0 => k - 1 \in 0 .. n /\ k \in 1 .. n
    OBVIOUS
  <2> QED BY <1>2, <2>1, <2>2
<1>5. Sums(f, n, t)
  BY <1>3, <1>4 DEF Sums
<1>6. SumTo(f, n) = t[n] /\ t[n] \in Int /\ SumTo(h, n + 1) = s[n + 1]
  BY <1>1, <1>5, SumIs
<1>7. s[n + 1] = s[n] + h[n + 1]
  <2>1. n + 1 # 0 /\ (n + 1) - 1 = n
    OBVIOUS
  <2> QED BY <1>1, <1>2, <2>1 DEF Sums
<1> QED BY <1>2, <1>6, <1>7

-----------------------------------------------------------------------------
(* Fractions.                                                              *)

\* A numerator and a positive denominator.
Fraction == Int \X (Nat \ {0})

\* Division leaves a remainder.
LEMMA DivMod ==
  ASSUME NEW a \in Nat, NEW n \in Nat \ {0}
  PROVE  a \div n \in Nat /\ a = n * (a \div n) + (a % n)
  OBVIOUS

\* The lowest terms are of the same number.
LEMMA LowestIs ==
  ASSUME NEW x \in Fraction
  PROVE  Lowest(x) \in Fraction /\ Equal(Lowest(x), x)
<1> DEFINE size == IF x[1] < 0 THEN -x[1] ELSE x[1]
           D == {d \in 1 .. x[2] : size % d = 0 /\ x[2] % d = 0}
           Greatest(d) == /\ size % d = 0 /\ x[2] % d = 0
                          /\ \A e \in d + 1 .. x[2] : ~(size % e = 0 /\ x[2] % e = 0)
           c == CHOOSE d \in 1 .. x[2] : Greatest(d)
<1>1. x[1] \in Int /\ x[2] \in Nat \ {0} /\ size \in Nat
  BY DEF Fraction
<1> HIDE DEF size
<1>2. D # {}
  <2>1. 1 \in 1 .. x[2] /\ size % 1 = 0 /\ x[2] % 1 = 0
    BY <1>1
  <2> QED BY <2>1
<1>3. PICK m \in D : \A y \in D : y <= m
  <2>1. D \in SUBSET (1 .. x[2])
    OBVIOUS
  <2> QED BY <1>1, <1>2, <2>1, NatMax
<1>4. \A e \in m + 1 .. x[2] : e \in 1 .. x[2] /\ ~(e <= m)
  BY <1>1
<1>5. Greatest(m)
  BY <1>3, <1>4
<1> HIDE DEF D
<1>6. m \in 1 .. x[2]
  BY DEF D
<1>7. c \in 1 .. x[2] /\ Greatest(c)
  BY <1>5, <1>6
<1> HIDE DEF c
<1>8. c \in Nat \ {0} /\ size % c = 0 /\ x[2] % c = 0
  BY <1>1, <1>7
<1> DEFINE k == size \div c
           l == x[2] \div c
<1>9. k \in Nat /\ l \in Nat /\ size = c * k /\ x[2] = c * l
  <2>1. k \in Nat /\ size = c * k + (size % c)
    BY <1>1, <1>8, DivMod
  <2>2. l \in Nat /\ x[2] = c * l + (x[2] % c)
    BY <1>1, <1>8, DivMod
  <2> HIDE DEF k, l
  <2>3. c * k \in Nat /\ c * l \in Nat
    BY <1>8, <2>1, <2>2
  <2> QED BY <1>8, <2>1, <2>2, <2>3
<1>10. Lowest(x) = <<IF x[1] < 0 THEN -k ELSE k, l>>
  BY DEF Lowest, size, c
<1> HIDE DEF k, l
<1>11. l # 0
  <2> SUFFICES ASSUME l = 0 PROVE FALSE
    OBVIOUS
  <2>1. c * l = 0
    BY <1>8
  <2> QED BY <1>1, <1>9, <2>1
<1>12. k * (c * l) = (c * k) * l
  BY <1>8, <1>9
<1>13. (-k) * (c * l) = (-(c * k)) * l
  BY <1>8, <1>9
<1>14. CASE x[1] < 0
  <2>1. x[1] = -(c * k)
    BY <1>1, <1>8, <1>9, <1>14 DEF size
  <2>2. Lowest(x) = <<-k, l>> /\ -k \in Int
    BY <1>9, <1>10, <1>14
  <2> QED BY <1>9, <1>11, <1>13, <2>1, <2>2 DEF Equal, Fraction
<1>15. CASE ~(x[1] < 0)
  <2>1. x[1] = c * k
    BY <1>1, <1>8, <1>9, <1>15 DEF size
  <2>2. Lowest(x) = <<k, l>> /\ k \in Int
    BY <1>9, <1>10, <1>15
  <2> QED BY <1>9, <1>11, <1>12, <2>1, <2>2 DEF Equal, Fraction
<1> QED BY <1>14, <1>15

-----------------------------------------------------------------------------
(* The mean and the spread.                                                *)

\* What is computed of fractions is a fraction.
LEMMA FractionsClosed ==
  ASSUME NEW x \in Fraction, NEW y \in Fraction, NEW k \in Nat \ {0}
  PROVE  /\ Plus(x, y) \in Fraction /\ Minus(x, y) \in Fraction /\ Times(x, y) \in Fraction
         /\ Over(x, k) \in Fraction
<1> DEFINE a == x[1]
           b == x[2]
           c == y[1]
           d == y[2]
<1>1. a \in Int /\ b \in Nat \ {0} /\ c \in Int /\ d \in Nat \ {0}
  BY DEF Fraction
<1> HIDE DEF a, b, c, d
<1>2. /\ b * d \in Nat \ {0} /\ b * k \in Nat \ {0} /\ a * c \in Int
      /\ a * d + c * b \in Int /\ a * d - c * b \in Int
  BY <1>1
<1> QED BY <1>1, <1>2 DEF Fraction, Plus, Minus, Times, Over, a, b, c, d

\* A factor other than 0 can be left out.
LEMMA Cancel ==
  ASSUME NEW k \in Int, k # 0, NEW x \in Int, NEW y \in Int, k * x = k * y
  PROVE  x = y
<1>1. k * (x - y) = 0
  OBVIOUS
<1> QED BY <1>1

\* The mean of n samples with the sum s, and their spread, with z the sum of the squares.
MeanOf(n, s) == <<s, n>>
SpreadOf(n, s, z) == <<n * z - s * s, n>>

\* The distance of a sample from a mean.
Away(v, x) == Minus(Whole(v), x)

\* The n-th part of the distance of the n-th sample takes the mean of those before to the
\* mean of all.
LEMMA MeanMoves ==
  ASSUME NEW x \in Fraction, NEW y \in Fraction,
         NEW n \in Nat, NEW s \in Int, NEW v \in Int,
         Equal(x, MeanOf(n, s)), Equal(y, Plus(x, Over(Away(v, x), n + 1)))
  PROVE  Equal(y, MeanOf(n + 1, s + v))
<1> DEFINE a == x[1]
           b == x[2]
           p == y[1]
           q == y[2]
<1>1. a \in Int /\ b \in Nat \ {0} /\ p \in Int /\ q \in Nat \ {0}
  BY DEF Fraction
<1>2. a * n = s * b
  BY DEF Equal, MeanOf
<1>3. p * (b * (b * (n + 1))) = (a * (b * (n + 1)) + (v * b - a) * b) * q
  <2>1. Away(v, x) = <<v * b - a, b>>
    BY <1>1 DEF Away, Minus, Whole
  <2>2. Plus(x, Over(Away(v, x), n + 1))
        = <<a * (b * (n + 1)) + (v * b - a) * b, b * (b * (n + 1))>>
    BY <1>1, <2>1 DEF Plus, Over
  <2> QED BY <2>2 DEF Equal
<1>4. p * (n + 1) = (s + v) * q => Equal(y, MeanOf(n + 1, s + v))
  BY DEF Equal, MeanOf
<1> HIDE DEF a, b, p, q
<1>5. a * (b * (n + 1)) + (v * b - a) * b = b * (a * n + v * b)
  BY <1>1
<1>6. b * (a * n + v * b) = (b * b) * (s + v)
  <2>1. b * (a * n + v * b) = b * (s * b + v * b)
    BY <1>2
  <2> QED BY <1>1, <2>1
<1>7. p * (b * (b * (n + 1))) = (b * b) * (p * (n + 1))
  BY <1>1
<1>8. (b * b) * (p * (n + 1)) = ((b * b) * (s + v)) * q
  BY <1>3, <1>5, <1>6, <1>7
<1>9. ((b * b) * (s + v)) * q = (b * b) * ((s + v) * q)
  BY <1>1
<1>10. b * b # 0 /\ b * b \in Int /\ p * (n + 1) \in Int /\ (s + v) * q \in Int
  BY <1>1
<1>11. p * (n + 1) = (s + v) * q
  BY <1>8, <1>9, <1>10, Cancel
<1> QED BY <1>4, <1>11

\* The product of the distances from the old and from the new mean is what the spread grows.
LEMMA SpreadMoves ==
  ASSUME NEW x \in Fraction, NEW y \in Fraction, NEW m \in Fraction, NEW t \in Fraction,
         NEW n \in Nat, NEW s \in Int, NEW z \in Int, NEW v \in Int,
         Equal(x, MeanOf(n, s)), Equal(y, MeanOf(n + 1, s + v)), Equal(m, SpreadOf(n, s, z)),
         n = 0 => x[1] = 0 /\ m[1] = 0 /\ s = 0 /\ z = 0,
         Equal(t, Plus(m, Times(Away(v, x), Away(v, y))))
  PROVE  Equal(t, SpreadOf(n + 1, s + v, z + v * v))
<1> DEFINE a == x[1]
           b == x[2]
           p == y[1]
           q == y[2]
           c == m[1]
           d == m[2]
           u == t[1]
           w == t[2]
           i == v * b - a
           j == v * q - p
           e == n * v - s
           f == b * q
           g == (n + 1) * (z + v * v) - (s + v) * (s + v)
<1>1. /\ a \in Int /\ b \in Nat \ {0} /\ p \in Int /\ q \in Nat \ {0}
      /\ c \in Int /\ d \in Nat \ {0} /\ u \in Int /\ w \in Nat \ {0}
  BY DEF Fraction
<1>2. /\ a * n = s * b /\ p * (n + 1) = (s + v) * q /\ c * n = (n * z - s * s) * d
      /\ n = 0 => a = 0 /\ c = 0 /\ s = 0 /\ z = 0
  BY DEF Equal, MeanOf, SpreadOf
<1>3. u * (d * (b * q)) = (c * (b * q) + ((v * b - a) * (v * q - p)) * d) * w
  <2>1. Away(v, x) = <<v * b - a, b>> /\ Away(v, y) = <<v * q - p, q>>
    BY <1>1 DEF Away, Minus, Whole
  <2>2. Plus(m, Times(Away(v, x), Away(v, y)))
        = <<c * (b * q) + ((v * b - a) * (v * q - p)) * d, d * (b * q)>>
    BY <1>1, <2>1 DEF Plus, Times
  <2> QED BY <2>2 DEF Equal
<1>4. u * (n + 1) = g * w => Equal(t, SpreadOf(n + 1, s + v, z + v * v))
  BY DEF Equal, SpreadOf
<1> HIDE DEF a, b, p, q, c, d, u, w
<1>5. i \in Int /\ j \in Int /\ e \in Int /\ f \in Int /\ g \in Int /\ f # 0
  BY <1>1
<1>6. n * i = b * e
  <2>1. n * i = (v * n) * b - a * n
    BY <1>1
  <2>2. b * e = (v * n) * b - s * b
    BY <1>1
  <2> QED BY <1>2, <2>1, <2>2
<1>7. (n + 1) * j = q * e
  <2>1. (n + 1) * j = (n + 1) * v * q - p * (n + 1)
    BY <1>1
  <2>2. q * e = (n + 1) * v * q - (s + v) * q
    BY <1>1
  <2> QED BY <1>2, <2>1, <2>2
<1>8. (n * z - s * s) * (n + 1) + e * e = n * g
  OBVIOUS
<1>9. u * (d * f) = (c * f + (i * j) * d) * w
  BY <1>3
<1>10. CASE n = 0
  <2>1. p = v * q
    BY <1>1, <1>2, <1>10
  <2>2. j = 0 /\ c = 0
    BY <1>1, <1>2, <1>10, <2>1
  <2>3. g = 0
    BY <1>2, <1>10
  <2> HIDE DEF i, j, e, f, g
  <2>4. c * f = 0 /\ (i * j) * d = 0
    BY <1>1, <1>5, <2>2
  <2>5. (c * f + (i * j) * d) * w = 0
    BY <1>1, <2>4
  <2>6. u * (d * f) = 0 /\ d * f # 0
    BY <1>1, <1>5, <1>9, <2>5
  <2>7. u = 0
    BY <1>1, <1>5, <2>6
  <2>8. u * (n + 1) = 0 /\ g * w = 0
    BY <1>1, <2>3, <2>7
  <2> QED BY <1>4, <2>8
<1>11. CASE n # 0
  <2> DEFINE r == n * z - s * s
             k == n * (d * f)
  <2>1. r \in Int /\ c * n = r * d /\ r * (n + 1) + e * e = n * g
    BY <1>2, <1>8
  <2> HIDE DEF i, j, e, f, g, r
  <2>2. k * (u * (n + 1)) = (n * (n + 1)) * (u * (d * f))
    BY <1>1, <1>5
  <2>3. (n * (n + 1)) * ((c * f + (i * j) * d) * w)
        = (((c * n) * ((n + 1) * f)) + ((n * i) * ((n + 1) * j)) * d) * w
    BY <1>1, <1>5
  <2>4. ((c * n) * ((n + 1) * f)) + ((n * i) * ((n + 1) * j)) * d
        = ((r * d) * ((n + 1) * f)) + ((b * e) * (q * e)) * d
    BY <1>6, <1>7, <2>1
  <2>5. ((r * d) * ((n + 1) * f)) + ((b * e) * (q * e)) * d = (d * f) * (r * (n + 1) + e * e)
    BY <1>1, <1>5, <2>1 DEF f
  <2>6. (d * f) * (r * (n + 1) + e * e) = k * g
    <3>1. (d * f) * (r * (n + 1) + e * e) = (d * f) * (n * g)
      BY <2>1
    <3>2. (d * f) * (n * g) = k * g
      BY <1>1, <1>5
    <3> QED BY <3>1, <3>2
  <2>7. k * (u * (n + 1)) = (k * g) * w
    BY <1>9, <2>2, <2>3, <2>4, <2>5, <2>6
  <2>8. (k * g) * w = k * (g * w)
    BY <1>1, <1>5
  <2>9. k \in Int /\ k # 0 /\ u * (n + 1) \in Int /\ g * w \in Int
    BY <1>1, <1>5, <1>11
  <2> HIDE DEF k
  <2>10. u * (n + 1) = g * w
    BY <2>7, <2>8, <2>9, Cancel
  <2> QED BY <1>4, <2>10
<1> QED BY <1>10, <1>11

\* The squares of the samples.
Squares == [i \in DOMAIN samples |-> samples[i] * samples[i]]

\* The row is exact also before the first sample, where RowIsExact says nothing.
BaselineInv ==
  /\ samples \in Seq(Int)
  /\ row \in [mean : Fraction, m2 : Fraction, n : Nat]
  /\ samples = << >> => row.mean = Whole(0) /\ row.m2 = Whole(0)
  /\ RowIsExact

\* The sum of nothing.
LEMMA NoSum == ASSUME NEW f PROVE SumTo(f, 0) = 0
<1>1. PICK s : Sums(f, 0, s)
  BY SumsExist
<1>2. SumTo(f, 0) = s[0]
  BY <1>1, SumIs
<1> QED BY <1>1, <1>2 DEF Sums

\* A new row.
LEMMA RowBegins ==
  ASSUME row = [mean |-> Whole(0), m2 |-> Whole(0), n |-> 0], samples = << >>
  PROVE  BaselineInv
BY DEF BaselineInv, RowIsExact, Whole, Fraction

\* The sums before and after a sample.
LEMMA SumsGrow ==
  ASSUME samples \in Seq(Int), NEW v \in Int, samples' = Append(samples, v)
  PROVE  /\ samples' \in Seq(Int) /\ Len(samples') = Len(samples) + 1
         /\ SumTo(samples, Len(samples)) \in Int /\ SumTo(Squares, Len(samples)) \in Int
         /\ SumTo(samples', Len(samples')) = SumTo(samples, Len(samples)) + v
         /\ SumTo(Squares', Len(samples')) = SumTo(Squares, Len(samples)) + v * v
<1> DEFINE n == Len(samples)
           h == samples'
           f == Squares
           g == Squares'
<1>1. /\ n \in Nat /\ DOMAIN samples = 1 .. n /\ \A i \in 1 .. n : samples[i] \in Int
      /\ h \in Seq(Int) /\ Len(h) = n + 1 /\ DOMAIN h = 1 .. n + 1
      /\ h[n + 1] = v /\ \A i \in 1 .. n : h[i] = samples[i]
      /\ \A i \in 1 .. n + 1 : h[i] \in Int
  OBVIOUS
<1>2. \A i \in 1 .. n + 1 : g[i] = h[i] * h[i]
  BY <1>1 DEF Squares
<1>3. \A i \in 1 .. n : f[i] = samples[i] * samples[i]
  BY <1>1 DEF Squares
<1> HIDE DEF f, g, h, n
<1>4. SumTo(samples, n) \in Int /\ SumTo(h, n + 1) = SumTo(samples, n) + v
  BY <1>1, SumNext
<1>5. n + 1 \in 1 .. n + 1 /\ \A i \in 1 .. n : i \in 1 .. n + 1
  BY <1>1
<1>6. (\A i \in 1 .. n + 1 : g[i] \in Int) /\ g[n + 1] = v * v /\ \A i \in 1 .. n : f[i] = g[i]
  BY <1>1, <1>2, <1>3, <1>5
<1>7. SumTo(f, n) \in Int /\ SumTo(g, n + 1) = SumTo(f, n) + v * v
  BY <1>1, <1>6, SumNext
<1> QED BY <1>1, <1>4, <1>7 DEF f, g, h, n

\* A sample is folded in.
LEMMA ObserveKeeps ==
  ASSUME BaselineInv, NEW v \in Int, Observe(v)
  PROVE  BaselineInv'
<1> DEFINE n == Len(samples)
           s == SumTo(samples, n)
           z == SumTo(Squares, n)
           x == row.mean
           m == row.m2
           mean == Plus(x, Over(Away(v, x), n + 1))
           y == Lowest(mean)
           spread == Plus(m, Times(Away(v, x), Away(v, y)))
           t == Lowest(spread)
<1>1. /\ samples \in Seq(Int) /\ n \in Nat /\ samples' = Append(samples, v)
      /\ x \in Fraction /\ m \in Fraction /\ row.n = n
  BY DEF BaselineInv, RowIsExact, Observe
<1>2. row' = [mean |-> y, m2 |-> t, n |-> n + 1]
  BY <1>1 DEF Observe, Updated, Away
<1>3. /\ samples' \in Seq(Int) /\ Len(samples') = n + 1 /\ s \in Int /\ z \in Int
      /\ SumTo(samples', n + 1) = s + v /\ SumTo(Squares', n + 1) = z + v * v
  BY <1>1, SumsGrow
<1>4. n = 0 => x = Whole(0) /\ m = Whole(0) /\ s = 0 /\ z = 0
  <2> SUFFICES ASSUME n = 0 PROVE x = Whole(0) /\ m = Whole(0) /\ s = 0 /\ z = 0
    OBVIOUS
  <2>1. samples = << >>
    BY <1>1
  <2>2. x = Whole(0) /\ m = Whole(0)
    BY <2>1 DEF BaselineInv
  <2> QED BY <2>2, NoSum
<1>5. Equal(x, MeanOf(n, s)) /\ Equal(m, SpreadOf(n, s, z))
  <2>1. CASE n = 0
    BY <1>4, <2>1 DEF Equal, MeanOf, SpreadOf, Whole
  <2>2. CASE n # 0
    BY <1>1, <2>2 DEF BaselineInv, RowIsExact, Squares, MeanOf, SpreadOf
  <2> QED BY <2>1, <2>2
<1> HIDE DEF n, s, z, x, m
<1>6. Away(v, x) \in Fraction /\ mean \in Fraction
  <2>1. Whole(v) \in Fraction /\ n + 1 \in Nat \ {0}
    BY <1>1 DEF Whole, Fraction
  <2>2. Away(v, x) \in Fraction
    BY <1>1, <2>1, FractionsClosed DEF Away
  <2>3. Over(Away(v, x), n + 1) \in Fraction
    BY <2>1, <2>2, FractionsClosed
  <2> QED BY <1>1, <2>2, <2>3, FractionsClosed
<1>7. y \in Fraction /\ Equal(y, mean)
  BY <1>6, LowestIs
<1> HIDE DEF y
<1>8. Equal(y, MeanOf(n + 1, s + v))
  BY <1>1, <1>3, <1>5, <1>7, MeanMoves
<1>9. spread \in Fraction
  <2>1. Whole(v) \in Fraction
    BY DEF Whole, Fraction
  <2>2. Away(v, y) \in Fraction
    BY <1>7, <2>1, FractionsClosed DEF Away
  <2>3. Times(Away(v, x), Away(v, y)) \in Fraction
    BY <1>6, <2>2, FractionsClosed
  <2> QED BY <1>1, <2>3, FractionsClosed
<1>10. t \in Fraction /\ Equal(t, spread)
  BY <1>9, LowestIs
<1> HIDE DEF t
<1>11. n = 0 => x[1] = 0 /\ m[1] = 0 /\ s = 0 /\ z = 0
  BY <1>4 DEF Whole
<1>12. Equal(t, SpreadOf(n + 1, s + v, z + v * v))
  BY <1>1, <1>3, <1>5, <1>7, <1>8, <1>10, <1>11, SpreadMoves
<1>13. RowIsExact'
  <2>1. Squares' = [i \in DOMAIN samples' |-> samples'[i] * samples'[i]]
    BY DEF Squares
  <2>2. row'.n = n + 1 /\ row'.mean = y /\ row'.m2 = t
    BY <1>2
  <2> QED BY <1>3, <1>8, <1>12, <2>1, <2>2 DEF RowIsExact, MeanOf, SpreadOf
<1>14. samples' # << >>
  BY <1>1, <1>3
<1>15. row' \in [mean : Fraction, m2 : Fraction, n : Nat]
  BY <1>1, <1>2, <1>7, <1>10
<1> QED BY <1>3, <1>13, <1>14, <1>15 DEF BaselineInv

\* The mean and the spread in the row are those of all samples, whatever they are and
\* however many (RowIsExact).
THEOREM RowStaysExact == BaselineSpec => []RowIsExact
<1>1. BaselineInit => BaselineInv
  BY RowBegins DEF BaselineInit
<1>2. BaselineInv /\ [BaselineNext]_baselineVars => BaselineInv'
  <2> SUFFICES ASSUME BaselineInv, [BaselineNext]_baselineVars PROVE BaselineInv'
    OBVIOUS
  <2>1. ASSUME NEW v \in Values, Observe(v) PROVE BaselineInv'
    <3>1. v \in Int
      BY BaselineAssumption
    <3> QED BY <2>1, <3>1, ObserveKeeps
  <2>2. CASE OtherClient
    BY <2>2, RowBegins DEF OtherClient, BaselineInv, RowIsExact, Whole, Fraction
  <2>3. CASE UNCHANGED baselineVars
    BY <2>3 DEF baselineVars, BaselineInv, RowIsExact
  <2> QED BY <2>1, <2>2, <2>3 DEF BaselineNext
<1>3. BaselineInv => RowIsExact
  BY DEF BaselineInv
<1> QED BY <1>1, <1>2, <1>3, PTL DEF BaselineSpec

-----------------------------------------------------------------------------
(* The posture.                                                            *)

\* How many numbers there are.
LEMMA FirstNumbers ==
  ASSUME NEW n \in Nat
  PROVE  IsFiniteSet(1 .. n) /\ Cardinality(1 .. n) = n
BY FS_Interval

\* What is scanned are facts, and not infinitely many.
PostureInv == scanned \in SUBSET Facts /\ IsFiniteSet(scanned) /\ today \in Nat

\* What can be said of a thing.
Whys == {"script", "old", "exposed"}
Sevs == {"critical", "high", "medium", "low"}

\* A finding is about one of the things scanned.
LEMMA FindingIs ==
  ASSUME NEW xs, xs \subseteq Facts, NEW year \in Nat, NEW f \in Findings(xs, year)
  PROVE  /\ f.of \in xs /\ f.why \in Whys /\ f.sev \in Sevs
         /\ Penalty(f) \in 1 .. 22
         /\ f.why = "script" => f.of.kind = "script"
         /\ f.why = "old" => /\ f.of.kind \in {"os", "port"}
                             /\ f.sev \in Unsupported(f.of, year)
         /\ f.why = "exposed" => f.of.kind = "port" /\ f.sev \in Classify(f.of.words)
<1>1. PICK x \in ParseXml(xs) : f \in FindingsOf(x, year)
  BY DEF Findings
<1>2. x \in xs /\ x.kind \in {"script", "os", "port"}
  BY PostureAssumption DEF ParseXml
<1>3. \A s \in Unsupported(x, year) : s \in {"critical", "high", "medium"}
  BY DEF Unsupported, SeverityForAge
<1>4. \A s \in Classify(x.words) : s \in Sevs
  <2>1. \A n \in DOMAIN RISKS : RISKS[n].sev \in Sevs
    BY DEF RISKS, Sevs
  <2> QED BY <2>1 DEF Classify, Matching
<1>5. CASE x.kind = "script"
  <2>1. f = [of |-> x, why |-> "script", sev |-> "high"]
    BY <1>1, <1>5 DEF FindingsOf, Finding
  <2> QED BY <1>2, <1>5, <2>1 DEF Penalty, Whys, Sevs
<1>6. CASE x.kind \in {"os", "port"}
  <2>1. ASSUME NEW s \in Unsupported(x, year), f = [of |-> x, why |-> "old", sev |-> s]
        PROVE  /\ f.of \in xs /\ f.why \in Whys /\ f.sev \in Sevs
               /\ Penalty(f) \in 1 .. 22
               /\ f.of = x /\ f.why = "old" /\ f.sev = s
    BY <1>2, <1>3, <2>1 DEF Penalty, Whys, Sevs, sevPenalty
  <2>2. ASSUME NEW s \in Classify(x.words), f = [of |-> x, why |-> "exposed", sev |-> s]
        PROVE  /\ f.of \in xs /\ f.why \in Whys /\ f.sev \in Sevs
               /\ Penalty(f) \in 1 .. 22
               /\ f.of = x /\ f.why = "exposed" /\ f.sev = s
    BY <1>2, <1>4, <2>2 DEF Penalty, Whys, Sevs, sevPenalty
  <2>3. CASE x.kind = "os"
    <3>1. PICK s \in Unsupported(x, year) : f = [of |-> x, why |-> "old", sev |-> s]
      BY <1>1, <2>3 DEF FindingsOf, Finding
    <3> QED BY <1>6, <2>1, <3>1
  <2>4. CASE x.kind = "port"
    <3>1. \/ \E s \in Unsupported(x, year) : f = [of |-> x, why |-> "old", sev |-> s]
          \/ \E s \in Classify(x.words) : f = [of |-> x, why |-> "exposed", sev |-> s]
      BY <1>1, <2>4 DEF FindingsOf, Finding
    <3> QED BY <1>6, <2>1, <2>2, <2>4, <3>1
  <2> QED BY <1>6, <2>3, <2>4
<1> QED BY <1>2, <1>5, <1>6

\* The marks are not infinitely many.
LEMMA MarksFinite ==
  ASSUME NEW xs, xs \subseteq Facts, IsFiniteSet(xs), NEW year \in Nat
  PROVE  IsFiniteSet(Marks(xs, year)) /\ Cardinality(Marks(xs, year)) \in Nat
<1> DEFINE Of == xs \X Whys
           All == Of \X (1 .. 22)
<1>1. IsFiniteSet(Whys)
  <2>1. Whys = (({} \union {"script"}) \union {"old"}) \union {"exposed"}
    BY DEF Whys
  <2> QED BY <2>1, FS_EmptySet, FS_AddElement
<1>2. IsFiniteSet(Of)
  BY <1>1, FS_Product
<1>3. IsFiniteSet(1 .. 22)
  BY FirstNumbers
<1>4. IsFiniteSet(All)
  BY <1>2, <1>3, FS_Product
<1>5. Marks(xs, year) \subseteq All
  <2>1. ASSUME NEW f \in Findings(xs, year)
        PROVE  {<<f.of, f.why>>} \X (1 .. Penalty(f)) \subseteq All
    BY FindingIs
  <2> QED BY <2>1 DEF Marks
<1> QED BY <1>4, <1>5, FS_Subset, FS_CardinalityType

\* Where all the marks are marks too, the score is no better.
LEMMA MoreMarks ==
  ASSUME NEW xs, NEW ys, xs \subseteq ys, ys \subseteq Facts, IsFiniteSet(ys),
         NEW year \in Nat, NEW later \in Nat,
         Marks(xs, year) \subseteq Marks(ys, later)
  PROVE  Score(ys, later) <= Score(xs, year)
<1> DEFINE OpenOnes(zs) == {x \in ParseXml(zs) : x.kind = "port"}
           Surface(zs) == IF Cardinality(OpenOnes(zs)) > ManyPorts THEN 8 ELSE 0
<1>1. IsFiniteSet(xs)
  BY FS_Subset
<1>2. OpenOnes(xs) \subseteq OpenOnes(ys) /\ OpenOnes(ys) \subseteq ys
  BY DEF ParseXml
<1>3. /\ Cardinality(OpenOnes(xs)) \in Nat /\ Cardinality(OpenOnes(ys)) \in Nat
      /\ Cardinality(OpenOnes(xs)) <= Cardinality(OpenOnes(ys))
  <2>1. IsFiniteSet(OpenOnes(ys))
    BY <1>2, FS_Subset
  <2>2. IsFiniteSet(OpenOnes(xs)) /\ Cardinality(OpenOnes(xs)) <= Cardinality(OpenOnes(ys))
    BY <1>2, <2>1, FS_Subset
  <2> QED BY <2>1, <2>2, FS_CardinalityType
<1>4. Surface(xs) <= Surface(ys) /\ Surface(xs) \in Nat /\ Surface(ys) \in Nat
  BY <1>3, PostureAssumption
<1>5. /\ Cardinality(Marks(xs, year)) \in Nat /\ Cardinality(Marks(ys, later)) \in Nat
      /\ Cardinality(Marks(xs, year)) <= Cardinality(Marks(ys, later))
  <2>1. IsFiniteSet(Marks(ys, later)) /\ Cardinality(Marks(ys, later)) \in Nat
    BY MarksFinite
  <2>2. Cardinality(Marks(xs, year)) \in Nat
    BY <1>1, MarksFinite
  <2>3. Cardinality(Marks(xs, year)) <= Cardinality(Marks(ys, later))
    BY <2>1, FS_Subset
  <2> QED BY <2>1, <2>2, <2>3
<1> DEFINE taken(zs, y) == Surface(zs) + Cardinality(Marks(zs, y))
<1>6. /\ Score(xs, year) = IF taken(xs, year) > 100 THEN 0 ELSE 100 - taken(xs, year)
      /\ Score(ys, later) = IF taken(ys, later) > 100 THEN 0 ELSE 100 - taken(ys, later)
  BY DEF Score
<1> HIDE DEF Surface
<1>7. PICK a, b : a = taken(xs, year) /\ b = taken(ys, later)
  OBVIOUS
<1>8. a \in Nat /\ b \in Nat /\ a <= b
  BY <1>4, <1>5, <1>7
<1> HIDE DEF taken
<1>9. /\ Score(xs, year) = IF a > 100 THEN 0 ELSE 100 - a
      /\ Score(ys, later) = IF b > 100 THEN 0 ELSE 100 - b
  BY <1>6, <1>7
<1> QED BY <1>8, <1>9

\* A finding takes its points off the score.
LEMMA FindingCosts ==
  ASSUME NEW xs, xs \subseteq Facts, IsFiniteSet(xs), NEW year \in Nat,
         NEW f \in Findings(xs, year)
  PROVE  Score(xs, year) <= 100 - Penalty(f)
<1> DEFINE its == {<<f.of, f.why>>} \X (1 .. Penalty(f))
<1>1. Penalty(f) \in 1 .. 22
  BY FindingIs
<1>2. its \subseteq Marks(xs, year)
  BY DEF Marks
<1>3. Cardinality(its) = Penalty(f)
  <2>1. IsFiniteSet(1 .. Penalty(f)) /\ Cardinality(1 .. Penalty(f)) = Penalty(f)
    <3>1. PICK n \in Nat : n = Penalty(f)
      BY <1>1
    <3> QED BY <3>1, FirstNumbers
  <2>2. IsFiniteSet({<<f.of, f.why>>}) /\ Cardinality({<<f.of, f.why>>}) = 1
    BY FS_Singleton
  <2>3. Cardinality(its) = 1 * Penalty(f)
    <3>1. PICK A, B : A = {<<f.of, f.why>>} /\ B = 1 .. Penalty(f)
      OBVIOUS
    <3>2. Cardinality(A \X B) = Cardinality(A) * Cardinality(B)
      BY <2>1, <2>2, <3>1, FS_Product
    <3> QED BY <2>1, <2>2, <3>1, <3>2
  <2> QED BY <1>1, <2>3
<1>4. Penalty(f) <= Cardinality(Marks(xs, year)) /\ Cardinality(Marks(xs, year)) \in Nat
  <2>1. IsFiniteSet(Marks(xs, year)) /\ Cardinality(Marks(xs, year)) \in Nat
    BY MarksFinite
  <2>2. Cardinality(its) <= Cardinality(Marks(xs, year))
    BY <1>2, <2>1, FS_Subset
  <2> QED BY <1>3, <2>1, <2>2
<1>5. \E surface \in {0, 8} :
        Score(xs, year) = IF surface + Cardinality(Marks(xs, year)) > 100 THEN 0
                          ELSE 100 - (surface + Cardinality(Marks(xs, year)))
  BY DEF Score
<1> QED BY <1>1, <1>4, <1>5

\* The end of a product only gets worse.
LEMMA AgeWorsens ==
  ASSUME NEW x, NEW year \in Nat, NEW s \in Unsupported(x, year),
         x.slug \in DOMAIN Ends \/ x.slug = NoSlug
  PROVE  \E t \in Unsupported(x, year + 1) : sevPenalty[s] <= sevPenalty[t]
<1>1. x.slug # NoSlug
  BY DEF Unsupported
<1>2. PICK c \in FindCycle(x.slug, x.version) :
        EolStatus(c, year) /\ s = SeverityForAge(c, year)
  BY <1>1 DEF Unsupported
<1>3. c.since \subseteq Nat
  BY <1>1, <1>2, PostureAssumption DEF FindCycle
<1>4. EolStatus(c, year + 1)
  BY <1>2, <1>3 DEF EolStatus
<1>5. SeverityForAge(c, year + 1) \in Unsupported(x, year + 1)
  BY <1>1, <1>2, <1>4 DEF Unsupported
<1>6. sevPenalty[s] <= sevPenalty[SeverityForAge(c, year + 1)]
  <2>1. /\ (\E y \in c.since : year - y > 4) => \E y \in c.since : (year + 1) - y > 4
        /\ (\E y \in c.since : ~(year - y <= 1)) => \E y \in c.since : ~((year + 1) - y <= 1)
    BY <1>3
  <2>2. /\ SeverityForAge(c, year) \in {"critical", "high", "medium"}
        /\ SeverityForAge(c, year + 1) \in {"critical", "high", "medium"}
        /\ SeverityForAge(c, year) = "critical" => SeverityForAge(c, year + 1) = "critical"
        /\ SeverityForAge(c, year) = "high" => SeverityForAge(c, year + 1) # "medium"
    BY <2>1 DEF SeverityForAge
  <2>3. /\ sevPenalty["critical"] = 22 /\ sevPenalty["high"] = 12 /\ sevPenalty["medium"] = 6
    BY DEF sevPenalty
  <2> QED BY <1>2, <2>2, <2>3
<1> QED BY <1>5, <1>6

\* A year later nothing is marked less.
LEMMA YearMarks ==
  ASSUME NEW xs, xs \subseteq Facts, NEW year \in Nat
  PROVE  Marks(xs, year) \subseteq Marks(xs, year + 1)
<1> SUFFICES ASSUME NEW f \in Findings(xs, year)
             PROVE  \E g \in Findings(xs, year + 1) :
                      g.of = f.of /\ g.why = f.why /\ Penalty(f) <= Penalty(g)
  <2>1. ASSUME NEW m \in Marks(xs, year) PROVE m \in Marks(xs, year + 1)
    <3>1. PICK f \in Findings(xs, year) : m \in {<<f.of, f.why>>} \X (1 .. Penalty(f))
      BY DEF Marks
    <3>2. PICK g \in Findings(xs, year + 1) :
            g.of = f.of /\ g.why = f.why /\ Penalty(f) <= Penalty(g)
      BY <3>1
    <3>3. Penalty(f) \in 1 .. 22 /\ Penalty(g) \in 1 .. 22
      BY FindingIs
    <3>4. m \in {<<g.of, g.why>>} \X (1 .. Penalty(g))
      BY <3>1, <3>2, <3>3
    <3> QED BY <3>4 DEF Marks
  <2> QED BY <2>1
<1>1. PICK x \in ParseXml(xs) : f \in FindingsOf(x, year)
  BY DEF Findings
<1>2. x \in Facts /\ x.kind \in {"script", "os", "port"}
  BY <1>1, PostureAssumption DEF ParseXml
<1>3. FindingsOf(x, year + 1) \subseteq Findings(xs, year + 1)
  BY <1>1 DEF Findings
<1>4. CASE f \in FindingsOf(x, year + 1)
  <2>1. Penalty(f) \in 1 .. 22
    BY FindingIs
  <2> QED BY <1>3, <1>4, <2>1
<1>5. CASE f \notin FindingsOf(x, year + 1)
  <2>1. x.kind # "script" /\ \E s \in Unsupported(x, year) : f = [of |-> x, why |-> "old", sev |-> s]
    BY <1>1, <1>2, <1>5 DEF FindingsOf, Finding
  <2>2. PICK s \in Unsupported(x, year) : f = [of |-> x, why |-> "old", sev |-> s]
    BY <2>1
  <2>3. x.slug \in DOMAIN Ends \/ x.slug = NoSlug
    BY <1>2, <2>1, PostureAssumption
  <2>4. PICK t \in Unsupported(x, year + 1) : sevPenalty[s] <= sevPenalty[t]
    BY <2>3, AgeWorsens
  <2> DEFINE g == [of |-> x, why |-> "old", sev |-> t]
  <2>5. g \in FindingsOf(x, year + 1)
    BY <1>2, <2>1 DEF FindingsOf, Finding
  <2>6. Penalty(f) = sevPenalty[s] /\ Penalty(g) = sevPenalty[t]
    BY <2>2 DEF Penalty
  <2> QED BY <1>3, <2>2, <2>4, <2>5, <2>6
<1> QED BY <1>4, <1>5

\* The rules are ordered by how bad they are.
LEMMA RisksOrdered ==
  ASSUME NEW n \in DOMAIN RISKS, NEW k \in DOMAIN RISKS, n <= k
  PROVE  sevPenalty[RISKS[k].sev] <= sevPenalty[RISKS[n].sev]
<1> DEFINE P == <<22, 12, 12, 12, 12, 12, 6, 6, 2>>
<1>1. DOMAIN RISKS = 1 .. 9
  BY DEF RISKS
<1>2. \A i \in 1 .. 9 : sevPenalty[RISKS[i].sev] = P[i]
  <2>1. ASSUME NEW i \in 1 .. 9 PROVE sevPenalty[RISKS[i].sev] = P[i]
    <3>1. \/ i = 1 \/ i = 2 \/ i = 3 \/ i = 4 \/ i = 5 \/ i = 6 \/ i = 7 \/ i = 8 \/ i = 9
      OBVIOUS
    <3>2. /\ RISKS[1].sev = "critical" /\ RISKS[2].sev = "high" /\ RISKS[3].sev = "high"
          /\ RISKS[4].sev = "high" /\ RISKS[5].sev = "high" /\ RISKS[6].sev = "high"
          /\ RISKS[7].sev = "medium" /\ RISKS[8].sev = "medium" /\ RISKS[9].sev = "low"
      BY DEF RISKS
    <3>3. /\ sevPenalty["critical"] = 22 /\ sevPenalty["high"] = 12
          /\ sevPenalty["medium"] = 6 /\ sevPenalty["low"] = 2
      BY DEF sevPenalty
    <3> QED BY <3>1, <3>2, <3>3
  <2> QED BY <2>1
<1>3. P[k] <= P[n]
  <2>1. n \in 1 .. 9 /\ k \in 1 .. 9
    BY <1>1
  <2> QED BY <2>1
<1> QED BY <1>1, <1>2, <1>3

\* A release that has a branch of its own is judged by that.
LEMMA ByItsBranch ==
  ASSUME NEW x \in Facts, x.kind # "script", x.slug # NoSlug, NEW c \in Ends[x.slug],
         c.cycle = x.version, NEW year \in Nat, ~EolStatus(c, year)
  PROVE  Unsupported(x, year) = {}
<1>1. /\ x.slug \in DOMAIN Ends /\ x.version \in Seq(Nat)
      /\ \A d \in Ends[x.slug] : d.cycle \in Seq(Nat) /\ (c.cycle = d.cycle => c = d)
  BY PostureAssumption
<1>2. ASSUME NEW d \in FindCycle(x.slug, x.version) PROVE d = c
  <2>1. d \in Ends[x.slug] /\ IsPrefix(d.cycle, x.version)
    BY DEF FindCycle
  <2>2. IsPrefix(c.cycle, x.version)
    BY <1>1 DEF IsPrefix
  <2>3. Len(c.cycle) <= Len(d.cycle)
    BY <2>2 DEF FindCycle
  <2>4. d.cycle \in Seq(Nat)
    BY <1>1, <2>1
  <2>5. /\ Len(d.cycle) <= Len(x.version)
        /\ SubSeq(d.cycle, 1, Len(d.cycle)) = SubSeq(x.version, 1, Len(d.cycle))
    BY <2>1 DEF IsPrefix
  <2>6. Len(d.cycle) = Len(x.version)
    BY <1>1, <2>3, <2>4, <2>5
  <2>7. d.cycle = x.version
    BY <1>1, <2>4, <2>5, <2>6, SubSeqFull
  <2> QED BY <1>1, <2>1, <2>7
<1> QED BY <1>2 DEF Unsupported

\* The posture is sound: PostureSound follows from what the invariant says.
LEMMA PostureIsSound == PostureInv => PostureSound
<1> SUFFICES ASSUME PostureInv PROVE PostureSound
  OBVIOUS
<1>0. scanned \subseteq Facts /\ IsFiniteSet(scanned) /\ today \in Nat /\ today + 1 \in Nat
  BY DEF PostureInv
<1>1. ASSUME NEW x \in scanned PROVE Score(scanned, today) <= Score(scanned \ {x}, today)
  <2>1. Marks(scanned \ {x}, today) \subseteq Marks(scanned, today)
    BY DEF Marks, Findings, ParseXml
  <2>2. scanned \ {x} \subseteq scanned
    OBVIOUS
  <2> QED BY <1>0, <2>1, <2>2, MoreMarks
<1>2. Score(scanned, today + 1) <= Score(scanned, today)
  BY <1>0, YearMarks, MoreMarks
<1>3. ASSUME NEW f \in Findings(scanned, today), f.why = "exposed",
             NEW k \in Matching(f.of.words)
      PROVE  sevPenalty[RISKS[k].sev] <= sevPenalty[f.sev]
  <2>1. f.sev \in Classify(f.of.words)
    BY <1>0, <1>3, FindingIs
  <2>2. PICK n \in Matching(f.of.words) :
          f.sev = RISKS[n].sev /\ \A m \in Matching(f.of.words) : n <= m
    BY <2>1 DEF Classify
  <2>3. n \in DOMAIN RISKS /\ k \in DOMAIN RISKS /\ n <= k
    BY <2>2 DEF Matching
  <2> QED BY <2>2, <2>3, RisksOrdered
<1>4. ASSUME NEW f \in Findings(scanned, today), f.why # "script"
      PROVE  /\ f.sev = "critical" => Grade(Score(scanned, today)) \notin {"A", "B"}
             /\ f.sev = "high" => Grade(Score(scanned, today)) # "A"
  <2>1. Score(scanned, today) <= 100 - Penalty(f)
    BY <1>0, FindingCosts
  <2>2. Penalty(f) = sevPenalty[f.sev]
    BY <1>4 DEF Penalty
  <2>3. sevPenalty["critical"] = 22 /\ sevPenalty["high"] = 12
    BY DEF sevPenalty
  <2>4. Score(scanned, today) \in Int
    <3>1. Cardinality(Marks(scanned, today)) \in Nat
      BY <1>0, MarksFinite
    <3> QED BY <3>1 DEF Score
  <2>5. CASE f.sev = "critical"
    <3>1. Score(scanned, today) <= 78
      BY <2>1, <2>2, <2>3, <2>4, <2>5
    <3> QED BY <2>4, <2>5, <3>1 DEF Grade
  <2>6. CASE f.sev = "high"
    <3>1. Score(scanned, today) <= 88
      BY <2>1, <2>2, <2>3, <2>4, <2>6
    <3> QED BY <2>4, <2>6, <3>1 DEF Grade
  <2> QED BY <2>5, <2>6
<1>5. ASSUME NEW x \in scanned, x.kind # "script", x.slug # NoSlug, NEW c \in Ends[x.slug],
             c.cycle = x.version, ~EolStatus(c, today)
      PROVE  Unsupported(x, today) = {}
  BY <1>0, <1>5, ByItsBranch
<1> QED BY <1>1, <1>2, <1>3, <1>4, <1>5 DEF PostureSound

\* Each step of a scan and each year keeps the invariant of the posture.
LEMMA PostureStays == PostureInv /\ [PostureNext]_postureVars => PostureInv'
<1> SUFFICES ASSUME PostureInv, [PostureNext]_postureVars PROVE PostureInv'
  OBVIOUS
<1> USE DEF PostureInv
<1>1. ASSUME NEW x \in Facts, NmapFinds(x) PROVE PostureInv'
  BY <1>1, FS_AddElement DEF NmapFinds
<1>2. CASE ScanBegins
  BY <1>2, FS_EmptySet DEF ScanBegins
<1>3. CASE AYearPasses
  BY <1>3 DEF AYearPasses
<1>4. CASE UNCHANGED postureVars
  BY <1>4 DEF postureVars
<1> QED BY <1>1, <1>2, <1>3, <1>4 DEF PostureNext

\* It holds before the first scan.
LEMMA PostureBegins == PostureInit => PostureInv
BY FS_EmptySet, PostureAssumption DEF PostureInit, PostureInv

-----------------------------------------------------------------------------
(* What is learnt from the lines: a table is a sequence of rows, none of them for the same *)
(* key.                                                                    *)

\* What can be read of a line.
Readings ==
  {Unheard, OnlyCounted} \union {Line(f) : f \in Frames}
    \union (UNION {{h[1] : h \in Halves(f)} : f \in Frames})
    \union (UNION {{h[2] : h \in Halves(f)} : f \in Frames})

Notes == UNION {r.notes : r \in Readings}
Keys == {x[2] : x \in Notes}
Marks3 == {x[3] : x \in Notes}

\* The rows a table may have: each value under its key counts once or more.
TableRows == [key : Keys, n : UNION {[D -> Nat \ {0}] : D \in SUBSET Marks3}]

\* A table: no key has two rows.
IsTable(rows) ==
  /\ rows \in Seq(TableRows)
  /\ \A i \in DOMAIN rows, j \in DOMAIN rows : rows[i].key = rows[j].key => i = j

\* The counts under a key are those of its row.
LEMMA CountIs ==
  ASSUME NEW rows, IsTable(rows), NEW i \in DOMAIN rows, NEW v
  PROVE  /\ CountOf(rows, rows[i].key, v) = IF v \in DOMAIN rows[i].n THEN rows[i].n[v] ELSE 0
         /\ v \in DOMAIN rows[i].n => rows[i].n[v] \in Nat \ {0}
<1>1. rows[i] \in TableRows
  BY DEF IsTable
<1>2. PICK D \in SUBSET Marks3 : rows[i].n \in [D -> Nat \ {0}]
  BY <1>1 DEF TableRows
<1>3. (CHOOSE r \in Range(rows) : r.key = rows[i].key) = rows[i]
  <2>1. rows[i] \in Range(rows)
    BY DEF Range
  <2>2. \A r \in Range(rows) : r.key = rows[i].key => r = rows[i]
    BY DEF Range, IsTable
  <2> QED BY <2>1, <2>2
<1>4. (\E j \in DOMAIN rows : rows[j].key = rows[i].key /\ v \in DOMAIN rows[j].n)
        <=> v \in DOMAIN rows[i].n
  BY DEF IsTable
<1>5. DOMAIN rows[i].n = D /\ \A w \in D : rows[i].n[w] \in Nat \ {0}
  BY <1>2
<1> DEFINE has == \E j \in DOMAIN rows : rows[j].key = rows[i].key /\ v \in DOMAIN rows[j].n
<1>6. CountOf(rows, rows[i].key, v)
        = IF has THEN (CHOOSE r \in Range(rows) : r.key = rows[i].key).n[v] ELSE 0
  BY DEF CountOf
<1> HIDE DEF has
<1>7. has <=> v \in DOMAIN rows[i].n
  BY <1>4 DEF has
<1>8. CountOf(rows, rows[i].key, v) = IF v \in DOMAIN rows[i].n THEN rows[i].n[v] ELSE 0
  BY <1>3, <1>6, <1>7
<1> QED BY <1>5, <1>8

\* Without a row nothing is counted.
LEMMA CountNone ==
  ASSUME NEW rows, NEW key, \A i \in DOMAIN rows : rows[i].key # key, NEW v
  PROVE  CountOf(rows, key, v) = 0
BY DEF CountOf

\* A count is a number.
LEMMA CountType ==
  ASSUME NEW rows, IsTable(rows), NEW key, NEW v
  PROVE  CountOf(rows, key, v) \in Nat
<1>1. CASE \E i \in DOMAIN rows : rows[i].key = key
  BY <1>1, CountIs
<1>2. CASE \A i \in DOMAIN rows : rows[i].key # key
  BY <1>2, CountNone
<1> QED BY <1>1, <1>2

\* One more under a key that has a row,
LEMMA EnterOld ==
  ASSUME NEW rows, IsTable(rows), NEW a \in DOMAIN rows, NEW v \in Marks3
  PROVE  /\ IsTable(Enter(rows, rows[a].key, v))
         /\ \A k, w : CountOf(Enter(rows, rows[a].key, v), k, w)
                        = CountOf(rows, k, w) + (IF k = rows[a].key /\ w = v THEN 1 ELSE 0)
<1> DEFINE key == rows[a].key
           c == CountOf(rows, key, v)
           made == [key |-> key, n |-> Put(rows[a].n, v, c + 1)]
           new == [i \in DOMAIN rows |-> IF i = a THEN made ELSE rows[i]]
<1>1. c \in Nat
  BY CountType
<1>2. rows[a] \in TableRows /\ rows \in Seq(TableRows) /\ key \in Keys
  <2>1. rows \in Seq(TableRows)
    BY DEF IsTable
  <2>2. rows[a] \in TableRows
    BY <2>1
  <2>3. rows[a].key \in Keys
    BY <2>2 DEF TableRows
  <2> QED BY <2>1, <2>2, <2>3
<1>3. PICK D \in SUBSET Marks3 : rows[a].n \in [D -> Nat \ {0}]
  BY <1>2 DEF TableRows
<1>4. /\ made.n \in UNION {[E -> Nat \ {0}] : E \in SUBSET Marks3}
      /\ DOMAIN made.n = D \union {v} /\ made.n[v] = c + 1
      /\ \A w \in D : w # v => made.n[w] = rows[a].n[w]
  <2>1. PICK n \in [D -> Nat \ {0}] : n = rows[a].n
    BY <1>3
  <2>2. PICK d \in Nat : d = c
    BY <1>1
  <2>3. made.n = Put(n, v, d + 1)
    BY <2>1, <2>2
  <2>4. /\ Put(n, v, d + 1) \in UNION {[E -> Nat \ {0}] : E \in SUBSET Marks3}
        /\ DOMAIN Put(n, v, d + 1) = D \union {v} /\ Put(n, v, d + 1)[v] = d + 1
        /\ \A w \in D : w # v => Put(n, v, d + 1)[w] = n[w]
    <3>1. Put(n, v, d + 1) \in [D \union {v} -> Nat \ {0}]
      BY DEF Put
    <3>2. D \union {v} \in SUBSET Marks3
      OBVIOUS
    <3> QED BY <3>1, <3>2 DEF Put
  <2> QED BY <2>1, <2>2, <2>3, <2>4, Zenon
<1>5. made \in TableRows /\ made.key = key
  BY <1>2, <1>4 DEF TableRows
<1>6. Enter(rows, key, v) = new
  <2>1. ASSUME NEW i \in DOMAIN rows
        PROVE  (IF rows[i].key = key THEN [rows[i] EXCEPT !.n = Put(@, v, c + 1)] ELSE rows[i])
                 = new[i]
    <3>1. CASE i = a
      <4>1. [rows[a] EXCEPT !.n = Put(@, v, c + 1)] = made
        BY <1>2 DEF TableRows
      <4> QED BY <3>1, <4>1
    <3>2. CASE i # a
      <4>1. rows[i].key # key
        BY <3>2 DEF IsTable
      <4> QED BY <3>2, <4>1
    <3> QED BY <3>1, <3>2
  <2> QED BY <2>1 DEF Enter
<1> HIDE DEF made
<1>7. new \in Seq(TableRows) /\ DOMAIN new = DOMAIN rows
  BY <1>2, <1>5
<1>8. \A i \in DOMAIN rows : new[i].key = rows[i].key
  BY <1>5
<1>9. IsTable(new)
  BY <1>7, <1>8 DEF IsTable
<1> HIDE DEF new
<1>10. ASSUME NEW k, NEW w
       PROVE  CountOf(new, k, w) = CountOf(rows, k, w) + (IF k = key /\ w = v THEN 1 ELSE 0)
  <2>1. CASE \A i \in DOMAIN rows : rows[i].key # k
    BY <1>7, <1>8, <2>1, CountNone
  <2>2. ASSUME NEW i \in DOMAIN rows, rows[i].key = k, i # a
        PROVE  CountOf(new, k, w) = CountOf(rows, k, w) /\ k # key
    <3>1. new[i] = rows[i] /\ k # key
      BY <2>2 DEF new, IsTable
    <3> QED BY <1>7, <1>9, <2>2, <3>1, CountIs
  <2>3. CASE k = key
    <3>1. new[a] = made
      BY DEF new
    <3>2. CountOf(new, k, w) = IF w \in DOMAIN made.n THEN made.n[w] ELSE 0
      BY <1>5, <1>7, <1>9, <2>3, <3>1, CountIs
    <3>3. CountOf(rows, k, w) = IF w \in D THEN rows[a].n[w] ELSE 0
      BY <1>3, <2>3, CountIs
    <3> QED BY <1>1, <1>4, <2>3, <3>2, <3>3
  <2>4. CountOf(rows, k, w) \in Nat
    BY CountType
  <2> QED BY <2>1, <2>2, <2>3, <2>4
<1> QED BY <1>6, <1>9, <1>10

\* and one under a key that has none: it counts one more, and nothing else changes.
LEMMA EnterNew ==
  ASSUME NEW rows, IsTable(rows), NEW key \in Keys, \A i \in DOMAIN rows : rows[i].key # key,
         NEW v \in Marks3
  PROVE  /\ IsTable(Enter(rows, key, v))
         /\ \A k, w : CountOf(Enter(rows, key, v), k, w)
                        = CountOf(rows, k, w) + (IF k = key /\ w = v THEN 1 ELSE 0)
<1> DEFINE made == [key |-> key, n |-> Put(<< >>, v, 1)]
           new == Append(rows, made)
<1>1. CountOf(rows, key, v) = 0
  BY CountNone
<1>2. /\ made.n \in UNION {[E -> Nat \ {0}] : E \in SUBSET Marks3}
      /\ DOMAIN made.n = {v} /\ made.n[v] = 1
  <2>1. Put(<< >>, v, 1) = [z \in {v} |-> 1]
    BY DEF Put
  <2>2. [z \in {v} |-> 1] \in [{v} -> Nat \ {0}] /\ {v} \in SUBSET Marks3
    OBVIOUS
  <2> QED BY <2>1, <2>2
<1>3. made \in TableRows /\ made.key = key
  BY <1>2 DEF TableRows
<1>4. Enter(rows, key, v) = new
  BY <1>1 DEF Enter
<1> HIDE DEF made
<1>5. /\ rows \in Seq(TableRows) /\ Len(rows) \in Nat /\ DOMAIN rows = 1 .. Len(rows)
      /\ new \in Seq(TableRows) /\ Len(new) = Len(rows) + 1 /\ DOMAIN new = 1 .. Len(rows) + 1
      /\ new[Len(rows) + 1] = made /\ \A i \in DOMAIN rows : new[i] = rows[i]
  BY <1>3 DEF IsTable
<1> HIDE DEF new
<1>6. IsTable(new)
  <2>1. \A i \in DOMAIN new : i \in DOMAIN rows \/ i = Len(rows) + 1
    BY <1>5
  <2> QED BY <1>3, <1>5, <2>1 DEF IsTable
<1>7. ASSUME NEW k, NEW w
      PROVE  CountOf(new, k, w) = CountOf(rows, k, w) + (IF k = key /\ w = v THEN 1 ELSE 0)
  <2>1. CASE k = key
    <3>1. CountOf(rows, k, w) = 0
      BY <2>1, CountNone
    <3>2. Len(rows) + 1 \in DOMAIN new
      BY <1>5
    <3>3. CountOf(new, k, w) = IF w \in DOMAIN made.n THEN made.n[w] ELSE 0
      BY <1>3, <1>5, <1>6, <2>1, <3>2, CountIs
    <3> QED BY <1>2, <2>1, <3>1, <3>3
  <2>2. ASSUME NEW i \in DOMAIN rows, rows[i].key = k
        PROVE  CountOf(new, k, w) = CountOf(rows, k, w) /\ k # key
    <3>1. i \in DOMAIN new /\ new[i] = rows[i] /\ k # key
      BY <1>5, <2>2
    <3> QED BY <1>6, <2>2, <3>1, CountIs
  <2>3. CASE k # key /\ \A i \in DOMAIN rows : rows[i].key # k
    <3>1. \A i \in DOMAIN new : new[i].key # k
      <4>1. \A i \in DOMAIN new : i \in DOMAIN rows \/ i = Len(rows) + 1
        BY <1>5
      <4> QED BY <1>3, <1>5, <2>3, <4>1
    <3> QED BY <2>3, <3>1, CountNone
  <2>4. CountOf(rows, k, w) \in Nat
    BY CountType
  <2> QED BY <2>1, <2>2, <2>3, <2>4
<1> QED BY <1>4, <1>6, <1>7

\* What is entered counts once more, and nothing else does.
LEMMA EnterCounts ==
  ASSUME NEW rows, IsTable(rows), NEW key \in Keys, NEW v \in Marks3
  PROVE  /\ IsTable(Enter(rows, key, v))
         /\ \A k, w : CountOf(Enter(rows, key, v), k, w)
                        = CountOf(rows, k, w) + (IF k = key /\ w = v THEN 1 ELSE 0)
<1>1. CASE \A i \in DOMAIN rows : rows[i].key # key
  BY <1>1, EnterNew, Zenon
<1>2. CASE \E i \in DOMAIN rows : rows[i].key = key
  <2>1. PICK i \in DOMAIN rows : rows[i].key = key
    BY <1>2
  <2> QED BY <2>1, EnterOld
<1> QED BY <1>1, <1>2

\* Giving up the first rows counts nothing more.
LEMMA BoundedCounts ==
  ASSUME NEW t, NEW rows, IsTable(rows)
  PROVE  /\ IsTable(Bounded(t, rows))
         /\ \A k, w : CountOf(Bounded(t, rows), k, w) <= CountOf(rows, k, w)
         /\ t # "dhcp" /\ Len(rows) <= TableCap + TableBatch => Len(Bounded(t, rows)) <= TableCap
<1>0. TableCap \in Nat \ {0} /\ TableBatch \in Nat \ {0}
  BY TrafficAssumption
<1>1. rows \in Seq(TableRows) /\ Len(rows) \in Nat /\ DOMAIN rows = 1 .. Len(rows)
  BY DEF IsTable
<1>2. \A k, w : CountOf(rows, k, w) \in Nat
  BY CountType
<1>3. CASE Bounded(t, rows) = rows
  BY <1>0, <1>1, <1>2, <1>3 DEF Bounded
<1>4. CASE Bounded(t, rows) # rows
  <2> DEFINE new == SubSeq(rows, TableBatch + 1, Len(rows))
             m == IF Len(rows) < TableBatch THEN 0 ELSE Len(rows) - TableBatch
  <2>1. Bounded(t, rows) = new /\ t # "dhcp" /\ Len(rows) > TableCap
    BY <1>4 DEF Bounded
  <2>2. /\ m \in Nat /\ new \in Seq(TableRows) /\ Len(new) = m /\ DOMAIN new = 1 .. m
        /\ \A i \in 1 .. m : new[i] = rows[i + TableBatch] /\ i + TableBatch \in DOMAIN rows
    <3>1. PICK b \in Nat : b = TableBatch
      BY <1>0
    <3>2. PICK l \in Nat : l = Len(rows)
      BY <1>1
    <3>3. m \in Nat /\ m = IF b + 1 <= l THEN l - (b + 1) + 1 ELSE 0
      BY <3>1, <3>2
    <3>4. \A i \in b + 1 .. l : i \in DOMAIN rows /\ rows[i] \in TableRows
      BY <1>1, <3>1, <3>2
    <3>5. /\ new \in Seq(TableRows) /\ Len(new) = m
          /\ \A i \in 1 .. l - (b + 1) + 1 : new[i] = rows[(b + 1) + i - 1]
      <4>1. b + 1 \in Int /\ l \in Int
        OBVIOUS
      <4>2. new = SubSeq(rows, b + 1, l)
        BY <3>1, <3>2
      <4>3. \A i \in b + 1 .. l : rows[i] \in TableRows
        BY <3>4
      <4> HIDE DEF new, m
      <4>4. /\ SubSeq(rows, b + 1, l) \in Seq(TableRows)
            /\ Len(SubSeq(rows, b + 1, l)) = IF b + 1 <= l THEN l - (b + 1) + 1 ELSE 0
            /\ \A i \in 1 .. l - (b + 1) + 1 : SubSeq(rows, b + 1, l)[i] = rows[(b + 1) + i - 1]
        BY <4>1, <4>3, SubSeqProperties
      <4> QED BY <3>3, <4>2, <4>4, Zenon
    <3>6. ASSUME NEW i \in 1 .. m
          PROVE  new[i] = rows[i + TableBatch] /\ i + TableBatch \in DOMAIN rows
      <4>1. i \in 1 .. l - (b + 1) + 1 /\ (b + 1) + i - 1 = i + b /\ i + b \in b + 1 .. l
        BY <3>3
      <4> QED BY <3>1, <3>4, <3>5, <4>1
    <3>7. DOMAIN new = 1 .. m
      BY <3>5
    <3> QED BY <3>3, <3>5, <3>6, <3>7
  <2> HIDE DEF new
  <2>3. IsTable(new)
    <3>1. ASSUME NEW i \in DOMAIN new, NEW j \in DOMAIN new, new[i].key = new[j].key PROVE i = j
      <4>1. i + TableBatch = j + TableBatch
        BY <2>2, <3>1 DEF IsTable
      <4> QED BY <1>0, <2>2, <4>1
    <3> QED BY <2>2, <3>1 DEF IsTable
  <2>4. ASSUME NEW k, NEW w PROVE CountOf(new, k, w) <= CountOf(rows, k, w)
    <3>1. CASE \A i \in DOMAIN new : new[i].key # k
      BY <1>2, <3>1, CountNone
    <3>2. ASSUME NEW i \in DOMAIN new, new[i].key = k PROVE CountOf(new, k, w) = CountOf(rows, k, w)
      <4>1. i + TableBatch \in DOMAIN rows /\ new[i] = rows[i + TableBatch]
        BY <2>2
      <4>2. PICK j \in DOMAIN rows : j = i + TableBatch
        BY <4>1
      <4> QED BY <2>3, <3>2, <4>1, <4>2, CountIs
    <3> QED BY <1>2, <3>1, <3>2
  <2>5. Len(rows) <= TableCap + TableBatch => m <= TableCap
    BY <1>0, <1>1
  <2> HIDE DEF m
  <2> QED BY <2>1, <2>2, <2>3, <2>4, <2>5
<1> QED BY <1>3, <1>4

\* A reading enters one thing in a table at most.
IsReading(r) ==
  /\ r.n \in {0, 1}
  /\ \A x \in r.notes : /\ x[1] \in Tables /\ x = <<x[1], x[2], x[3]>>
                        /\ \A y \in r.notes : x[1] = y[1] => x = y

\* The addresses a reading names are the two ends of its flows, if they are private.
LEMMA AddressesAre ==
  ASSUME NEW notes, NEW a
  PROVE  a \in Addresses(notes) <=>
           /\ a \in Private
           /\ \E x \in notes : x[1] = "flows" /\ a \in {x[2][1], x[2][2]}
BY DEF Addresses

\* What is entered of a talk.
LEMMA TalkIs ==
  ASSUME NEW f, NEW src, NEW proto, NEW x \in Talk(f, src, proto)
  PROVE  \/ x = <<"talkers", src, "sent">>
         \/ x = <<"flows", <<src, f.dst, proto>>, "sent">>
         \/ x = <<"dhcp", src, "sent">>
         \/ x = <<"nameResp", src, f.dst>>
BY DEF Talk

\* A talk is a reading, alone and with the binding of its sender; it names its two ends and binds
\* no address.
LEMMA TalkReads ==
  ASSUME NEW f, NEW src, NEW proto
  PROVE  /\ IsReading([n |-> 1, notes |-> Talk(f, src, proto)])
         /\ IsReading([n |-> 1, notes |-> Bound(f, f.src).notes \union Talk(f, src, proto)])
         /\ \A a : a \in Addresses(Talk(f, src, proto)) <=>
                     a \in Private /\ a \in {src, f.dst}
         /\ \A x \in Talk(f, src, proto) : x[1] # "bindings"
<1> DEFINE talk == Talk(f, src, proto)
           both == Bound(f, f.src).notes \union talk
           binding == <<"bindings", f.src, f.mac>>
<1>1. \A x \in talk : \/ x = <<"talkers", src, "sent">>
                      \/ x = <<"flows", <<src, f.dst, proto>>, "sent">>
                      \/ x = <<"dhcp", src, "sent">>
                      \/ x = <<"nameResp", src, f.dst>>
  BY TalkIs
<1>2. \A x \in both : x \in talk \/ x = binding
  BY DEF Bound
<1>3. <<"flows", <<src, f.dst, proto>>, "sent">> \in talk /\ talk \subseteq both
  BY DEF Talk
<1> HIDE DEF talk, both
<1>4. \A x \in both : x[1] \in Tables /\ x = <<x[1], x[2], x[3]>>
  BY <1>1, <1>2 DEF Tables
<1>5. \A x \in both, y \in both : x[1] = y[1] => x = y
  BY <1>1, <1>2
<1>6. IsReading([n |-> 1, notes |-> talk]) /\ IsReading([n |-> 1, notes |-> both])
  BY <1>3, <1>4, <1>5 DEF IsReading
<1>7. ASSUME NEW a
      PROVE  /\ a \in Addresses(talk) <=> a \in Private /\ a \in {src, f.dst}
  <2>1. \A x \in both : x[1] = "flows" => x[2][1] = src /\ x[2][2] = f.dst
    BY <1>1, <1>2
  <2>2. PICK x \in talk : x[1] = "flows" /\ x[2][1] = src /\ x[2][2] = f.dst
    BY <1>3
  <2> QED BY <1>3, <2>1, <2>2, AddressesAre
<1>8. \A x \in talk : x[1] # "bindings"
  BY <1>1
<1> QED BY <1>6, <1>7, <1>8 DEF talk, both

\* The same, one by one: it is a reading,
LEMMA TalkReading ==
  ASSUME NEW f, NEW src, NEW proto
  PROVE  IsReading([n |-> 1, notes |-> Talk(f, src, proto)])
BY TalkReads

\* it names its two ends,
LEMMA TalkNames ==
  ASSUME NEW f, NEW src, NEW proto
  PROVE  \A a : a \in Addresses(Talk(f, src, proto)) <=>
                  a \in Private /\ a \in {src, f.dst}
BY TalkReads

\* it binds no address,
LEMMA TalkBindsNone ==
  ASSUME NEW f, NEW src, NEW proto
  PROVE  \A x \in Talk(f, src, proto) : x[1] # "bindings"
BY TalkReads

\* it is a reading with the binding of the sender too,
LEMMA BoundTalkReading ==
  ASSUME NEW f, NEW src, NEW proto
  PROVE  IsReading([n |-> 1, notes |-> Bound(f, f.src).notes \union Talk(f, src, proto)])
BY TalkReads

\* and names the same hosts then.
LEMMA BoundTalkNames ==
  ASSUME NEW f, NEW src, NEW proto
  PROVE  Addresses(Bound(f, f.src).notes \union Talk(f, src, proto))
           = Addresses(Talk(f, src, proto))
<1> DEFINE talk == Talk(f, src, proto)
           both == Bound(f, f.src).notes \union talk
<1>1. \A x \in both : x \in talk \/ x = <<"bindings", f.src, f.mac>>
  BY DEF Bound
<1>2. \A x \in both : x[1] = "flows" => x \in talk
  BY <1>1
<1> HIDE DEF talk
<1>3. \A a : a \in Addresses(both) <=> a \in Addresses(talk)
  BY <1>2, AddressesAre
<1> QED BY <1>3 DEF talk

\* A binding is a reading of one packet, and names nobody who talks.
LEMMA BoundReads ==
  ASSUME NEW f, NEW ip
  PROVE  /\ IsReading(Bound(f, ip)) /\ Addresses(Bound(f, ip).notes) = {}
         /\ Bound(f, ip).n = 1
<1>1. Bound(f, ip).notes \subseteq {<<"bindings", ip, f.mac>>} /\ Bound(f, ip).n = 1
  BY DEF Bound
<1>2. IsReading(Bound(f, ip))
  BY <1>1 DEF IsReading, Tables
<1>3. \A a : a \notin Addresses(Bound(f, ip).notes)
  BY <1>1, AddressesAre
<1> QED BY <1>1, <1>2, <1>3

\* A line that is not understood, or counted only, is a reading that names nobody.
LEMMA NothingReads ==
  /\ IsReading(Unheard) /\ IsReading(OnlyCounted)
  /\ Addresses(Unheard.notes) = {} /\ Addresses(OnlyCounted.notes) = {}
BY DEF IsReading, Unheard, OnlyCounted, Addresses

\* A whole line counts for one packet, and names the hosts that talk.
LEMMA LineIs ==
  ASSUME NEW f \in Frames
  PROVE  /\ IsReading(Line(f)) /\ Line(f).n = 1
         /\ Line(f) \in Readings
<1>1. f.kind \in {"request", "reply", "ip", "icmp"}
  BY TrafficAssumption
<1>2. Line(f) \in Readings
  BY DEF Readings
<1>3. CASE f.kind \in {"request", "reply"}
  <2>1. Line(f) = Bound(f, f.src)
    BY <1>3 DEF Line
  <2> QED BY <1>2, <2>1, BoundReads
<1>4. CASE f.kind = "icmp"
  <2>1. Line(f) = OnlyCounted
    BY <1>4 DEF Line
  <2> QED BY <1>2, <2>1, NothingReads DEF OnlyCounted
<1>5. CASE f.kind = "ip"
  <2>1. Line(f) = [n |-> 1, notes |-> Bound(f, f.src).notes \union Talk(f, f.src, "proto")]
    BY <1>5 DEF Line
  <2>2. IsReading(Line(f)) /\ Line(f).n = 1
    <3>1. IsReading([n |-> 1, notes |-> Bound(f, f.src).notes \union Talk(f, f.src, "proto")])
      BY BoundTalkReading
    <3>2. Line(f).n = 1
      BY <2>1
    <3>3. IsReading(Line(f))
      BY <2>1, <3>1, Zenon
    <3> QED BY <3>2, <3>3
  <2> QED BY <1>2, <2>2
<1> QED BY <1>1, <1>3, <1>4, <1>5

\* The private addresses that a public one, cut, may be taken for.
Invents(f) == IF f.kind = "ip" THEN Private \cap Rests(f.src) ELSE {}

\* What the two parts of a line that was cut may enter: no host that the line does not
\* name, but for one its sender's address ends with, and, but for an ARP request, no
\* binding that it does not.
LEMMA HalvesAre ==
  ASSUME NEW f \in Frames, NEW h \in Halves(f)
  PROVE  /\ IsReading(h[1]) /\ IsReading(h[2])
         /\ h[1] \in Readings /\ h[2] \in Readings
         /\ Addresses(h[1].notes) \subseteq Addresses(Line(f).notes)
         /\ Addresses(h[2].notes) \subseteq Addresses(Line(f).notes) \union Invents(f)
         /\ \A x \in h[2].notes : x[1] # "bindings"
         /\ f.kind # "request" =>
              \A x \in h[1].notes : x[1] = "bindings" => x \in Line(f).notes
<1>1. f.kind \in {"request", "reply", "ip", "icmp"}
  BY TrafficAssumption
<1>2. h[1] \in Readings /\ h[2] \in Readings
  BY DEF Readings
<1>3. /\ \A x \in Unheard.notes : FALSE
      /\ \A x \in OnlyCounted.notes : FALSE
  BY DEF Unheard, OnlyCounted
<1>4. CASE f.kind = "request"
  <2>1. h[2] = Unheard /\ (h[1] \in {Unheard, OnlyCounted, Line(f)}
                             \/ \E ip \in Shorter(f.src) : h[1] = Bound(f, ip))
    BY <1>4 DEF Halves
  <2> QED BY <1>2, <1>3, <1>4, <2>1, LineIs, NothingReads, BoundReads
<1>5. CASE f.kind \in {"reply", "icmp"}
  <2>1. h[2] = Unheard /\ h[1] \in {Unheard, OnlyCounted, Line(f)}
    BY <1>5 DEF Halves
  <2> QED BY <1>2, <1>3, <2>1, LineIs, NothingReads
<1>6. CASE f.kind = "ip"
  <2> DEFINE Late(src) == [n |-> 1, notes |-> Talk(f, src, "proto")]
             Clipped == [n |-> 1, notes |-> Bound(f, f.src).notes \union Talk(f, f.src, "pro")]
  <2>1. \/ h[1] \in {Unheard, OnlyCounted} /\ h[2] \in {Late(src) : src \in {f.src} \union Rests(f.src)}
        \/ h[1] \in {OnlyCounted, Clipped, Line(f)} /\ h[2] = Unheard
    BY <1>6 DEF Halves
  <2>2. PICK whole : /\ whole = Bound(f, f.src).notes \union Talk(f, f.src, "proto")
                     /\ Line(f) = [n |-> 1, notes |-> whole]
    BY <1>6 DEF Line
  <2>3. \A a : a \in Addresses(whole) <=> a \in Private /\ a \in {f.src, f.dst}
    <3>1. Addresses(whole) = Addresses(Talk(f, f.src, "proto"))
      BY <2>2, BoundTalkNames
    <3> QED BY <3>1, TalkNames
  <2>4. ASSUME NEW src \in {f.src} \union Rests(f.src)
        PROVE  /\ IsReading(Late(src))
               /\ Addresses(Late(src).notes) \subseteq Addresses(Line(f).notes) \union Invents(f)
               /\ \A x \in Late(src).notes : x[1] # "bindings"
    <3>1. IsReading(Late(src))
      BY TalkReading
    <3>2. \A x \in Late(src).notes : x[1] # "bindings"
      BY TalkBindsNone
    <3>3. \A a : a \in Addresses(Talk(f, src, "proto")) <=>
                    a \in Private /\ a \in {src, f.dst}
      BY TalkNames
    <3>4. Addresses(Late(src).notes) \subseteq Addresses(Line(f).notes) \union Invents(f)
      <4>1. Late(src).notes = Talk(f, src, "proto") /\ Line(f).notes = whole
        BY <2>2
      <4> HIDE DEF Late
      <4>2. \A a : a \in Addresses(Talk(f, src, "proto")) =>
                      a \in Addresses(whole) \/ a \in Invents(f)
        BY <1>6, <2>3, <3>3 DEF Invents
      <4> QED BY <4>1, <4>2
    <3> QED BY <3>1, <3>2, <3>4
  <2>5. /\ IsReading(Clipped)
        /\ Addresses(Clipped.notes) \subseteq Addresses(Line(f).notes)
        /\ \A x \in Clipped.notes : x[1] = "bindings" => x \in Line(f).notes
    <3>1. IsReading(Clipped)
      BY BoundTalkReading
    <3>2. \A x \in Talk(f, f.src, "pro") : x[1] # "bindings"
      BY TalkBindsNone
    <3>3. Addresses(Clipped.notes) = Addresses(Talk(f, f.src, "pro"))
      BY BoundTalkNames
    <3>4. \A a : a \in Addresses(Talk(f, f.src, "pro")) <=>
                    a \in Private /\ a \in {f.src, f.dst}
      BY TalkNames
    <3>5. Addresses(Clipped.notes) \subseteq Addresses(Line(f).notes)
      <4>1. Line(f).notes = whole
        BY <2>2
      <4> HIDE DEF Clipped
      <4>2. \A a : a \in Addresses(Clipped.notes) <=> a \in Private /\ a \in {f.src, f.dst}
        BY <3>3, <3>4
      <4> QED BY <2>3, <4>1, <4>2
    <3>6. \A x \in Clipped.notes : x[1] = "bindings" => x \in Line(f).notes
      BY <2>2, <3>2
    <3> QED BY <3>1, <3>5, <3>6
  <2> HIDE DEF Late, Clipped
  <2> QED BY <1>2, <1>3, <2>1, <2>4, <2>5, LineIs, NothingReads
<1> QED BY <1>1, <1>4, <1>5, <1>6

\* Whatever is read of a line is a reading.
LEMMA ReadingsRead ==
  ASSUME NEW r \in Readings
  PROVE  IsReading(r)
<1>1. CASE r \in {Unheard, OnlyCounted}
  BY <1>1, NothingReads
<1>2. ASSUME NEW f \in Frames, r = Line(f) PROVE IsReading(r)
  BY <1>2, LineIs
<1>3. ASSUME NEW f \in Frames, NEW h \in Halves(f), r = h[1] \/ r = h[2] PROVE IsReading(r)
  BY <1>3, HalvesAre
<1> QED BY <1>1, <1>2, <1>3 DEF Readings

-----------------------------------------------------------------------------
\* A reading counts what it notes once.
LEMMA EnterAllCounts ==
  ASSUME NEW ts, \A t \in Tables : IsTable(ts[t]), NEW r \in Readings, NEW t \in Tables
  PROVE  /\ IsTable(EnterAll(ts, r)[t])
         /\ \A k, v : CountOf(EnterAll(ts, r)[t], k, v)
                        = CountOf(ts[t], k, v) + (IF <<t, k, v>> \in r.notes THEN 1 ELSE 0)
<1> DEFINE new == {x \in r.notes : x[1] = t}
<1>1. EnterAll(ts, r)[t] = IF new = {} THEN ts[t]
                           ELSE Enter(ts[t], (CHOOSE y \in new : TRUE)[2], (CHOOSE y \in new : TRUE)[3])
  BY DEF EnterAll
<1>2. IsReading(r)
  BY ReadingsRead
<1>3. CASE new = {}
  <2>1. \A k, v : <<t, k, v>> \notin r.notes
    BY <1>3
  <2>2. \A k, v : CountOf(ts[t], k, v) \in Nat
    BY CountType
  <2> QED BY <1>1, <1>3, <2>1, <2>2
<1>4. CASE new # {}
  <2>1. PICK x \in new : x = (CHOOSE y \in new : TRUE)
    BY <1>4
  <2>2. x \in r.notes /\ x = <<t, x[2], x[3]>> /\ \A y \in r.notes : y[1] = t => x = y
    BY <1>2 DEF IsReading
  <2>3. x[2] \in Keys /\ x[3] \in Marks3
    BY <2>2 DEF Keys, Marks3, Notes
  <2>4. EnterAll(ts, r)[t] = Enter(ts[t], x[2], x[3])
    BY <1>1, <1>4, <2>1
  <2>5. PICK key \in Keys, value \in Marks3 : key = x[2] /\ value = x[3]
    BY <2>3
  <2>6. \A k, v : <<t, k, v>> \in r.notes <=> (k = key /\ v = value)
    BY <2>2, <2>5
  <2>7. /\ IsTable(Enter(ts[t], key, value))
        /\ \A k, v : CountOf(Enter(ts[t], key, value), k, v)
                       = CountOf(ts[t], k, v) + (IF k = key /\ v = value THEN 1 ELSE 0)
    <3>1. PICK rows : rows = ts[t]
      OBVIOUS
    <3>2. IsTable(rows)
      BY <3>1
    <3> QED BY <3>1, <3>2, EnterCounts
  <2> QED BY <2>4, <2>5, <2>6, <2>7
<1> QED BY <1>3, <1>4

\* The tables after each of so many readings.
Entered(ts, readings, n, upTo) ==
  /\ DOMAIN upTo = 0 .. n
  /\ upTo = [i \in 0 .. n |-> IF i = 0 THEN ts ELSE EnterAll(upTo[i - 1], readings[i])]

\* The tables after each reading are defined.
LEMMA EnteredExists ==
  ASSUME NEW n \in Nat, NEW ts, NEW readings
  PROVE  \E upTo : Entered(ts, readings, n, upTo)
<1> DEFINE T == {m \in 0 .. n : ~\E u : Entered(ts, readings, m, u)}
<1>1. \E u : Entered(ts, readings, 0, u)
  <2> DEFINE u == [i \in 0 .. 0 |-> ts]
  <2>1. u = [i \in 0 .. 0 |-> IF i = 0 THEN ts ELSE EnterAll(u[i - 1], readings[i])]
    <3>1. \A i \in 0 .. 0 : i = 0
      OBVIOUS
    <3> QED BY <3>1
  <2>2. DOMAIN u = 0 .. 0
    OBVIOUS
  <2> HIDE DEF u
  <2> QED BY <2>1, <2>2 DEF Entered
<1>2. ASSUME NEW m \in 1 .. n, NEW u, Entered(ts, readings, m - 1, u)
      PROVE  \E v : Entered(ts, readings, m, v)
  <2> DEFINE v == [i \in 0 .. m |-> IF i = m THEN EnterAll(u[m - 1], readings[m]) ELSE u[i]]
  <2>1. DOMAIN v = 0 .. m /\ v[m] = EnterAll(u[m - 1], readings[m])
        /\ \A i \in 0 .. m - 1 : v[i] = u[i]
    OBVIOUS
  <2>2. \A i \in 0 .. m - 1 : u[i] = IF i = 0 THEN ts ELSE EnterAll(u[i - 1], readings[i])
    BY <1>2 DEF Entered
  <2>3. ASSUME NEW i \in 0 .. m
        PROVE  v[i] = IF i = 0 THEN ts ELSE EnterAll(v[i - 1], readings[i])
    <3> HIDE DEF v
    <3>1. CASE i = m
      <4>1. v[m - 1] = u[m - 1] /\ i # 0
        BY <2>1, <3>1
      <4> QED BY <2>1, <3>1, <4>1
    <3>2. CASE i # m
      <4>1. i \in 0 .. m - 1 /\ (i # 0 => i - 1 \in 0 .. m - 1)
        BY <3>2
      <4> QED BY <2>1, <2>2, <4>1
    <3> QED BY <3>1, <3>2
  <2>4. v = [i \in 0 .. m |-> v[i]]
    BY <2>1
  <2> HIDE DEF v
  <2>5. v = [i \in 0 .. m |-> IF i = 0 THEN ts ELSE EnterAll(v[i - 1], readings[i])]
    BY <2>3, <2>4
  <2> QED BY <2>1, <2>5 DEF Entered
<1>3. CASE T # {}
  <2>1. PICK m \in T : \A y \in T : m <= y
    <3>1. T \in SUBSET Nat
      OBVIOUS
    <3> QED BY <1>3, <3>1, NatMin
  <2>2. m # 0 /\ m \in 1 .. n /\ m - 1 \in 0 .. n /\ ~(m <= m - 1)
    BY <1>1, <2>1
  <2>3. m - 1 \notin T
    BY <2>1, <2>2
  <2> QED BY <1>2, <2>2, <2>3
<1> QED BY <1>3

\* After so many readings a table counts what it did, and each reading that notes it.
LEMMA EnteredCounts ==
  ASSUME NEW n \in Nat, NEW ts, \A t \in Tables : IsTable(ts[t]),
         NEW readings, \A i \in 1 .. n : readings[i] \in Readings,
         NEW upTo, Entered(ts, readings, n, upTo)
  PROVE  \A t \in Tables :
           /\ IsTable(upTo[n][t])
           /\ \A k, v : CountOf(upTo[n][t], k, v)
                = CountOf(ts[t], k, v) + Cardinality({i \in 1 .. n : <<t, k, v>> \in readings[i].notes})
<1> DEFINE Often(m, x) == {i \in 1 .. m : x \in readings[i].notes}
           Good(m) ==
             \A t \in Tables :
               /\ IsTable(upTo[m][t])
               /\ \A k, v : CountOf(upTo[m][t], k, v)
                              = CountOf(ts[t], k, v) + Cardinality(Often(m, <<t, k, v>>))
           T == {m \in 0 .. n : ~Good(m)}
<1>1. Good(0)
  <2>1. upTo[0] = ts
    BY DEF Entered
  <2>2. \A x : Often(0, x) = {}
    OBVIOUS
  <2>3. \A t \in Tables : \A k, v : CountOf(ts[t], k, v) \in Nat
    BY CountType
  <2> HIDE DEF Often
  <2> QED BY <2>1, <2>2, <2>3, FS_EmptySet
<1>2. ASSUME NEW m \in 1 .. n, Good(m - 1) PROVE Good(m)
  <2>1. upTo[m] = EnterAll(upTo[m - 1], readings[m])
    BY DEF Entered
  <2>2. readings[m] \in Readings
    OBVIOUS
  <2>3. ASSUME NEW t \in Tables
        PROVE  /\ IsTable(upTo[m][t])
               /\ \A k, v : CountOf(upTo[m][t], k, v)
                    = CountOf(upTo[m - 1][t], k, v)
                        + (IF <<t, k, v>> \in readings[m].notes THEN 1 ELSE 0)
    <3>1. PICK us : us = upTo[m - 1]
      OBVIOUS
    <3>2. PICK r \in Readings : r = readings[m]
      BY <2>2
    <3>3. \A u \in Tables : IsTable(us[u])
      BY <1>2, <3>1
    <3>4. /\ IsTable(EnterAll(us, r)[t])
          /\ \A k, v : CountOf(EnterAll(us, r)[t], k, v)
                         = CountOf(us[t], k, v) + (IF <<t, k, v>> \in r.notes THEN 1 ELSE 0)
      BY <3>3, EnterAllCounts
    <3> QED BY <2>1, <3>1, <3>2, <3>4
  <2>4. ASSUME NEW x
        PROVE  /\ Cardinality(Often(m - 1, x)) \in Nat
               /\ Cardinality(Often(m, x))
                    = Cardinality(Often(m - 1, x)) + (IF x \in readings[m].notes THEN 1 ELSE 0)
    <3>1. IsFiniteSet(Often(m - 1, x))
      <4>1. IsFiniteSet(1 .. m - 1)
        BY FS_Interval
      <4>2. Often(m - 1, x) \subseteq 1 .. m - 1
        OBVIOUS
      <4> QED BY <4>1, <4>2, FS_Subset
    <3>2. Often(m, x) = IF x \in readings[m].notes THEN Often(m - 1, x) \union {m} ELSE Often(m - 1, x)
      OBVIOUS
    <3>3. m \notin Often(m - 1, x)
      OBVIOUS
    <3> HIDE DEF Often
    <3>4. Cardinality(Often(m - 1, x)) \in Nat
      BY <3>1, FS_CardinalityType
    <3>5. Cardinality(Often(m - 1, x) \union {m}) = Cardinality(Often(m - 1, x)) + 1
      BY <3>1, <3>3, FS_AddElement
    <3> QED BY <3>2, <3>4, <3>5
  <2>5. \A t \in Tables : \A k, v : CountOf(ts[t], k, v) \in Nat
    BY CountType
  <2> HIDE DEF Often
  <2> QED BY <1>2, <2>3, <2>4, <2>5
<1>3. T = {}
  <2> SUFFICES ASSUME T # {} PROVE FALSE
    OBVIOUS
  <2> HIDE DEF Good
  <2>1. PICK m \in T : \A y \in T : m <= y
    <3>1. T \in SUBSET Nat
      OBVIOUS
    <3> QED BY <3>1, NatMin
  <2>2. m # 0 /\ m \in 1 .. n /\ m - 1 \in 0 .. n /\ ~(m <= m - 1)
    BY <1>1, <2>1
  <2>3. m - 1 \notin T
    BY <2>1, <2>2
  <2> QED BY <1>2, <2>1, <2>2, <2>3
<1>4. Good(n)
  <2> HIDE DEF Good
  <2>1. n \in 0 .. n
    OBVIOUS
  <2>2. n \notin T
    BY <1>3
  <2> QED BY <2>1, <2>2
<1> QED BY <1>4

\* The same of a chunk.
LEMMA EachEntered ==
  ASSUME NEW ts, \A t \in Tables : IsTable(ts[t]),
         NEW readings, Len(readings) \in Nat, \A i \in 1 .. Len(readings) : readings[i] \in Readings,
         NEW t \in Tables
  PROVE  /\ IsTable(EnterEach(ts, readings)[t])
         /\ \A k, v : CountOf(EnterEach(ts, readings)[t], k, v)
              = CountOf(ts[t], k, v)
                  + Cardinality({i \in 1 .. Len(readings) : <<t, k, v>> \in readings[i].notes})
<1> DEFINE upTo[i \in 0 .. Len(readings)] ==
             IF i = 0 THEN ts ELSE EnterAll(upTo[i - 1], readings[i])
<1>1. PICK n \in Nat : n = Len(readings)
  OBVIOUS
<1>2. PICK u : Entered(ts, readings, n, u)
  BY EnteredExists
<1>3. Entered(ts, readings, n, upTo)
  <2>1. u = [i \in 0 .. Len(readings) |-> IF i = 0 THEN ts ELSE EnterAll(u[i - 1], readings[i])]
    BY <1>1, <1>2 DEF Entered
  <2>2. upTo = [i \in 0 .. Len(readings) |->
                  IF i = 0 THEN ts ELSE EnterAll(upTo[i - 1], readings[i])]
    BY <2>1
  <2> HIDE DEF upTo
  <2>3. DOMAIN upTo = 0 .. n
    BY <1>1, <2>2
  <2> QED BY <1>1, <2>2, <2>3 DEF Entered
<1>4. EnterEach(ts, readings) = upTo[n]
  BY <1>1 DEF EnterEach
<1> HIDE DEF upTo
<1> QED BY <1>1, <1>3, <1>4, EnteredCounts

-----------------------------------------------------------------------------
(* Sums of packets and of queries.                                         *)

\* A function on finitely many has finitely many units.
LEMMA UnitsFinite ==
  ASSUME NEW D, IsFiniteSet(D), NEW f \in [D -> Nat]
  PROVE  IsFiniteSet(Units(f)) /\ Sum(f) \in Nat
<1> DEFINE F == [x \in D |-> {x} \X (1 .. f[x])]
           T == {F[x] : x \in D}
<1>1. Units(f) = UNION T
  BY DEF Units
<1>2. F \in Surjection(D, T)
  BY DEF Surjection
<1>3. IsFiniteSet(T)
  <2> HIDE DEF F, T
  <2> QED BY <1>2, FS_Surjection
<1>4. ASSUME NEW t \in T PROVE IsFiniteSet(t)
  <2>1. PICK x \in D : t = {x} \X (1 .. f[x])
    OBVIOUS
  <2>2. IsFiniteSet({x})
    BY FS_Singleton
  <2>3. IsFiniteSet(1 .. f[x])
    <3>1. PICK n \in Nat : n = f[x]
      OBVIOUS
    <3> QED BY <3>1, FirstNumbers
  <2> QED BY <2>1, <2>2, <2>3, FS_Product
<1>5. IsFiniteSet(Units(f))
  <2> HIDE DEF T
  <2> QED BY <1>1, <1>3, <1>4, FS_UNION
<1> QED BY <1>5, FS_CardinalityType DEF Sum

\* A unit of it.
LEMMA UnitsAre ==
  ASSUME NEW f, NEW u
  PROVE  u \in Units(f) <=> \E x \in DOMAIN f : \E k \in 1 .. f[x] : u = <<x, k>>
BY DEF Units

\* The sum over one is its value.
LEMMA SumOfOne ==
  ASSUME NEW a, NEW c \in Nat
  PROVE  Sum([x \in {a} |-> c]) = c
<1>1. Units([x \in {a} |-> c]) = {a} \X (1 .. c)
  BY DEF Units
<1>2. IsFiniteSet({a}) /\ Cardinality({a}) = 1
  BY FS_Singleton
<1>3. IsFiniteSet(1 .. c) /\ Cardinality(1 .. c) = c
  BY FirstNumbers
<1>4. Cardinality({a} \X (1 .. c)) = 1 * c
  BY <1>2, <1>3, FS_Product
<1> QED BY <1>1, <1>4 DEF Sum

\* The sum over two sets with nothing in common.
LEMMA SumJoined ==
  ASSUME NEW A, NEW B, IsFiniteSet(A), IsFiniteSet(B), A \intersect B = {},
         NEW f, \A x \in A \union B : f[x] \in Nat
  PROVE  Sum([x \in A \union B |-> f[x]]) = Sum([x \in A |-> f[x]]) + Sum([x \in B |-> f[x]])
<1> DEFINE fa == [x \in A |-> f[x]]
           fb == [x \in B |-> f[x]]
           both == [x \in A \union B |-> f[x]]
<1>1. fa \in [A -> Nat] /\ fb \in [B -> Nat]
  OBVIOUS
<1>2. Units(both) = Units(fa) \union Units(fb)
  <2>1. \A u : u \in Units(both) <=> u \in Units(fa) \/ u \in Units(fb)
    BY UnitsAre
  <2> QED BY <2>1
<1>3. Units(fa) \intersect Units(fb) = {}
  <2>1. \A u \in Units(fa) : u[1] \in A
    BY UnitsAre
  <2>2. \A u \in Units(fb) : u[1] \in B
    BY UnitsAre
  <2> QED BY <2>1, <2>2
<1> HIDE DEF fa, fb, both
<1>4. /\ IsFiniteSet(Units(fa)) /\ IsFiniteSet(Units(fb))
      /\ Sum(fa) \in Nat /\ Sum(fb) \in Nat
  BY <1>1, UnitsFinite
<1>5. Cardinality(Units(both)) = Cardinality(Units(fa)) + Cardinality(Units(fb)) - Cardinality({})
  BY <1>2, <1>3, <1>4, FS_Union
<1>6. Cardinality({}) = 0
  BY FS_EmptySet
<1>7. Sum(both) = Sum(fa) + Sum(fb)
  BY <1>4, <1>5, <1>6 DEF Sum
<1> QED BY <1>7 DEF fa, fb, both

\* The sum of sums.
LEMMA SumAdded ==
  ASSUME NEW D, IsFiniteSet(D), NEW f \in [D -> Nat], NEW g \in [D -> Nat], NEW h \in [D -> Nat],
         \A x \in D : h[x] = f[x] + g[x]
  PROVE  Sum(h) = Sum(f) + Sum(g)
<1> DEFINE moved == [u \in Units(g) |-> <<u[1], f[u[1]] + u[2]>>]
           V == {moved[u] : u \in Units(g)}
<1>1. /\ \A u : u \in Units(f) <=> \E x \in D : \E k \in 1 .. f[x] : u = <<x, k>>
      /\ \A u : u \in Units(g) <=> \E x \in D : \E k \in 1 .. g[x] : u = <<x, k>>
      /\ \A u : u \in Units(h) <=> \E x \in D : \E k \in 1 .. h[x] : u = <<x, k>>
  BY UnitsAre
<1>2. ASSUME NEW v
      PROVE  v \in V <=> \E x \in D : \E k \in f[x] + 1 .. h[x] : v = <<x, k>>
  <2>1. ASSUME NEW u \in Units(g), v = moved[u]
        PROVE  \E x \in D : \E k \in f[x] + 1 .. h[x] : v = <<x, k>>
    <3>1. PICK x, k : x \in D /\ k \in 1 .. g[x] /\ u = <<x, k>>
      BY <1>1
    <3>2. f[x] \in Nat /\ g[x] \in Nat /\ h[x] = f[x] + g[x] /\ f[x] + k \in f[x] + 1 .. h[x]
      BY <3>1
    <3> QED BY <2>1, <3>1, <3>2
  <2>2. ASSUME NEW x \in D, NEW k \in f[x] + 1 .. h[x], v = <<x, k>>
        PROVE  v \in V
    <3>1. f[x] \in Nat /\ g[x] \in Nat /\ h[x] = f[x] + g[x] /\ k - f[x] \in 1 .. g[x]
      OBVIOUS
    <3>2. <<x, k - f[x]>> \in Units(g)
      BY <1>1, <3>1
    <3>3. moved[<<x, k - f[x]>>] = <<x, k>>
      BY <3>1, <3>2
    <3> QED BY <2>2, <3>2, <3>3
  <2> QED BY <2>1, <2>2
<1>3. moved \in Bijection(Units(g), V)
  <2>1. moved \in [Units(g) -> V]
    OBVIOUS
  <2>2. ASSUME NEW u \in Units(g), NEW v \in Units(g), moved[u] = moved[v] PROVE u = v
    <3>1. PICK x, k : x \in D /\ k \in 1 .. g[x] /\ u = <<x, k>>
      BY <1>1
    <3>2. PICK y, l : y \in D /\ l \in 1 .. g[y] /\ v = <<y, l>>
      BY <1>1
    <3>3. <<x, f[x] + k>> = <<y, f[y] + l>>
      BY <2>2, <3>1, <3>2
    <3> QED BY <3>1, <3>2, <3>3
  <2> QED BY <2>1, <2>2 DEF Bijection, Injection, IsInjective, Surjection
<1> HIDE DEF moved, V
<1>4. Units(h) = Units(f) \union V
  <2>1. ASSUME NEW u PROVE u \in Units(h) <=> u \in Units(f) \/ u \in V
    <3>1. ASSUME NEW x \in D PROVE 1 .. h[x] = (1 .. f[x]) \union (f[x] + 1 .. h[x])
      BY <3>1
    <3> QED BY <1>1, <1>2, <3>1
  <2> QED BY <2>1
<1>5. Units(f) \intersect V = {}
  <2>1. ASSUME NEW u \in Units(f), u \in V PROVE FALSE
    <3>1. PICK x, k : x \in D /\ k \in 1 .. f[x] /\ u = <<x, k>>
      BY <1>1
    <3>2. PICK y, l : y \in D /\ l \in f[y] + 1 .. h[y] /\ u = <<y, l>>
      BY <1>2, <2>1
    <3>3. x = y /\ k = l /\ f[x] \in Nat
      BY <3>1, <3>2
    <3> QED BY <3>1, <3>2, <3>3
  <2> QED BY <2>1
<1>6. IsFiniteSet(Units(f)) /\ IsFiniteSet(Units(g)) /\ Sum(f) \in Nat /\ Sum(g) \in Nat
  BY UnitsFinite
<1>7. IsFiniteSet(V) /\ Cardinality(V) = Cardinality(Units(g))
  <2>1. ExistsBijection(Units(g), V)
    BY <1>3 DEF ExistsBijection
  <2> QED BY <1>6, <2>1, FS_Bijection
<1>8. Cardinality(Units(h)) = Cardinality(Units(f)) + Cardinality(V) - Cardinality({})
  BY <1>4, <1>5, <1>6, <1>7, FS_Union
<1>9. Cardinality({}) = 0
  BY FS_EmptySet
<1> QED BY <1>6, <1>7, <1>8, <1>9 DEF Sum

\* D is divided by side: P[b] is f on the part with number b, which is Of[b], and those
\* belong to a part with a number below n.
Divided(D, f, side, n, Of, P, those) ==
  /\ \A x \in D : f[x] \in Nat
  /\ \A b \in 0 .. n - 1 : P[b] \in [Of[b] -> Nat] /\ \A x \in Of[b] : P[b][x] = f[x]
  /\ \A b \in 0 .. n - 1 : \A x : x \in Of[b] <=> x \in D /\ side[x] = b
  /\ those = {y \in D : side[y] \in 0 .. n - 1}

\* The sums of the parts add up to the sum over all of them.
LEMMA SumOfParts ==
  ASSUME NEW D, IsFiniteSet(D), NEW f, NEW side, NEW n \in Nat, NEW Of, NEW P, NEW those,
         Divided(D, f, side, n, Of, P, those),
         NEW sums, DOMAIN sums = 0 .. n - 1, sums = [b \in DOMAIN sums |-> sums[b]],
         \A b \in 0 .. n - 1 : sums[b] = Sum(P[b])
  PROVE  sums \in [0 .. n - 1 -> Nat] /\ Sum(sums) = Sum([x \in those |-> f[x]])
<1> DEFINE S == sums
           F(b) == Units(P[b])
           All == Units([x \in those |-> f[x]])
           g == [b \in 0 .. n - 1 |-> CHOOSE m : m \in Bijection(1 .. S[b], F(b))]
           M == [u \in Units(S) |-> g[u[1]][u[2]]]
<1>1. ASSUME NEW b \in 0 .. n - 1
      PROVE  S[b] \in Nat /\ S[b] = Cardinality(F(b)) /\ g[b] \in Bijection(1 .. S[b], F(b))
  <2>1. IsFiniteSet(Of[b])
    <3>1. Of[b] \subseteq D
      BY DEF Divided
    <3> QED BY <3>1, FS_Subset
  <2>2. P[b] \in [Of[b] -> Nat]
    BY DEF Divided
  <2>3. IsFiniteSet(F(b)) /\ S[b] \in Nat
    <3>1. PICK h, of : h = P[b] /\ of = Of[b]
      OBVIOUS
    <3>2. IsFiniteSet(Units(h)) /\ Sum(h) \in Nat
      BY <2>1, <2>2, <3>1, UnitsFinite
    <3> QED BY <3>1, <3>2
  <2>4. S[b] = Cardinality(F(b))
    BY DEF Sum
  <2> HIDE DEF F
  <2>5. ExistsBijection(1 .. Cardinality(F(b)), F(b))
    BY <2>3, FS_CardinalityType
  <2>6. \E m : m \in Bijection(1 .. S[b], F(b))
    BY <2>4, <2>5 DEF ExistsBijection
  <2> HIDE DEF S
  <2> QED BY <2>3, <2>4, <2>6
<1>2. ASSUME NEW u, NEW b \in 0 .. n - 1
      PROVE  u \in F(b) <=> \E x \in D : \E k \in 1 .. f[x] : side[x] = b /\ u = <<x, k>>
  <2>1. PICK h : h = P[b]
    OBVIOUS
  <2>2. u \in F(b) <=> \E x \in DOMAIN h : \E k \in 1 .. h[x] : u = <<x, k>>
    BY <2>1, UnitsAre
  <2>3. DOMAIN h = Of[b] /\ \A x \in Of[b] : h[x] = f[x]
    BY <2>1 DEF Divided
  <2>4. \A x : x \in Of[b] <=> x \in D /\ side[x] = b
    BY DEF Divided
  <2> HIDE DEF F
  <2> QED BY <2>2, <2>3, <2>4
<1>3. \A u : u \in All <=>
        \E x \in D : \E k \in 1 .. f[x] : side[x] \in 0 .. n - 1 /\ u = <<x, k>>
  <2>1. PICK h : h = [x \in those |-> f[x]]
    OBVIOUS
  <2>2. \A u : u \in All <=> \E x \in DOMAIN h : \E k \in 1 .. h[x] : u = <<x, k>>
    BY <2>1, UnitsAre
  <2>3. DOMAIN h = those /\ \A x \in those : h[x] = f[x]
    BY <2>1
  <2>4. \A x : x \in those <=> x \in D /\ side[x] \in 0 .. n - 1
    BY DEF Divided
  <2> HIDE DEF All
  <2> QED BY <2>2, <2>3, <2>4
<1>4. \A u : u \in Units(S) <=> \E b \in 0 .. n - 1 : \E k \in 1 .. S[b] : u = <<b, k>>
  <2>1. DOMAIN S = 0 .. n - 1
    OBVIOUS
  <2> HIDE DEF S
  <2> QED BY <2>1, UnitsAre
<1> HIDE DEF All, F, S, g
<1>5. ASSUME NEW b \in 0 .. n - 1, NEW k \in 1 .. S[b]
      PROVE  <<b, k>> \in Units(S) /\ M[<<b, k>>] = g[b][k] /\ g[b][k] \in F(b)
  <2>1. <<b, k>> \in Units(S)
    BY <1>4
  <2>2. g[b] \in [1 .. S[b] -> F(b)]
    BY <1>1 DEF Bijection, Injection, IsInjective
  <2> QED BY <2>1, <2>2
<1>6. M \in [Units(S) -> All]
  <2>1. ASSUME NEW u \in Units(S) PROVE M[u] \in All
    <3>1. PICK b, k : b \in 0 .. n - 1 /\ k \in 1 .. S[b] /\ u = <<b, k>>
      BY <1>4
    <3>2. M[u] \in F(b)
      BY <1>5, <3>1
    <3> HIDE DEF M
    <3>3. PICK v : v = M[u]
      OBVIOUS
    <3>4. \E x \in D : \E i \in 1 .. f[x] : side[x] = b /\ v = <<x, i>>
      <4>1. b \in 0 .. n - 1 /\ v \in F(b)
        BY <3>1, <3>2, <3>3
      <4>2. v \in F(b) <=> \E x \in D : \E i \in 1 .. f[x] : side[x] = b /\ v = <<x, i>>
        BY <1>2, <4>1
      <4> QED BY <4>1, <4>2
    <3>5. v \in All
      BY <1>3, <3>1, <3>4
    <3> QED BY <3>3, <3>5
  <2> QED BY <2>1
<1>7. ASSUME NEW u \in Units(S), NEW v \in Units(S), M[u] = M[v] PROVE u = v
  <2>1. PICK b, k : b \in 0 .. n - 1 /\ k \in 1 .. S[b] /\ u = <<b, k>>
    BY <1>4
  <2>2. PICK c, l : c \in 0 .. n - 1 /\ l \in 1 .. S[c] /\ v = <<c, l>>
    BY <1>4
  <2>3. g[b][k] = g[c][l] /\ g[b][k] \in F(b) /\ g[c][l] \in F(c)
    BY <1>5, <1>7, <2>1, <2>2
  <2>4. b = c
    BY <1>2, <2>1, <2>2, <2>3
  <2>5. k = l
    BY <1>1, <2>1, <2>2, <2>3, <2>4 DEF Bijection, Injection, IsInjective
  <2> QED BY <2>1, <2>2, <2>4, <2>5
<1>8. ASSUME NEW v \in All PROVE \E u \in Units(S) : M[u] = v
  <2>1. PICK x, k : x \in D /\ k \in 1 .. f[x] /\ side[x] \in 0 .. n - 1 /\ v = <<x, k>>
    BY <1>3
  <2>2. PICK b \in 0 .. n - 1 : b = side[x]
    BY <2>1
  <2>3. v \in F(b)
    BY <1>2, <2>1, <2>2
  <2>4. PICK l \in 1 .. S[b] : g[b][l] = v
    BY <1>1, <2>3 DEF Bijection, Surjection
  <2> QED BY <1>5, <2>4
<1> HIDE DEF M
<1>9. S \in [0 .. n - 1 -> Nat]
  <2>1. DOMAIN S = 0 .. n - 1 /\ S = [b \in 0 .. n - 1 |-> S[b]]
    BY DEF S
  <2> QED BY <1>1, <2>1
<1>10. IsFiniteSet(Units(S))
  <2>1. IsFiniteSet(0 .. n - 1)
    BY FS_Interval
  <2> QED BY <1>9, <2>1, UnitsFinite
<1>11. Cardinality(All) = Cardinality(Units(S))
  <2>1. M \in Bijection(Units(S), All)
    BY <1>6, <1>7, <1>8 DEF Bijection, Injection, IsInjective, Surjection
  <2>2. ExistsBijection(Units(S), All)
    BY <2>1 DEF ExistsBijection
  <2> QED BY <1>10, <2>2, FS_Bijection
<1> QED BY <1>9, <1>11 DEF Sum, S, All

\* Division rounds down.
LEMMA Division ==
  ASSUME NEW a \in Int, NEW m \in Nat \ {0}
  PROVE  a \div m \in Int /\ m * (a \div m) <= a /\ a < m * (a \div m) + m
OBVIOUS

\* What is less when multiplied is less.
LEMMA Below ==
  ASSUME NEW q \in Int, NEW B \in Int, NEW m \in Nat \ {0}, m * q < m * B
  PROVE  q < B
<1> SUFFICES ASSUME B <= q PROVE FALSE
  OBVIOUS
<1>1. PICK k \in Nat : q = B + k
  <2>1. q - B \in Nat /\ q = B + (q - B)
    OBVIOUS
  <2> QED BY <2>1
<1>2. m * q = m * B + m * k
  BY <1>1
<1>3. m * k \in Nat
  BY <1>1
<1>4. m * q \in Int /\ m * B \in Int
  OBVIOUS
<1> HIDE DEF Nat
<1> QED BY <1>2, <1>3, <1>4

\* In which bar of a window of m half seconds something is.
LEMMA BarIs ==
  ASSUME NEW d \in Int, NEW m \in Nat \ {0}
  PROVE  /\ (d * Bars) \div m \in Int
         /\ d \in 0 .. m - 1 => (d * Bars) \div m \in 0 .. Bars - 1
         /\ d < 0 => (d * Bars) \div m < 0
         /\ d = m => (d * Bars) \div m = Bars
<1> DEFINE q == (d * Bars) \div m
<1>0. Bars \in Nat \ {0}
  BY TrafficAssumption
<1>1. q \in Int /\ m * q <= d * Bars /\ d * Bars < m * q + m
  <2>1. d * Bars \in Int
    BY <1>0
  <2> QED BY <2>1, Division
<1> HIDE DEF q
<1>2. m * q + m = m * (q + 1)
  BY <1>1
<1>3. CASE d \in 0 .. m - 1
  <2>1. 0 <= d * Bars /\ d * Bars < m * Bars
    <3>1. d * Bars + (m - d) * Bars = m * Bars
      BY <1>0
    <3>2. d \in Nat /\ m - d \in Nat \ {0}
      BY <1>3
    <3>3. d * Bars \in Nat
      BY <1>0, <3>2
    <3>4. (m - d) * Bars \in Nat \ {0}
      BY <1>0, <3>2
    <3> QED BY <1>0, <3>1, <3>3, <3>4
  <2>2. m * q < m * Bars /\ m * 0 < m * (q + 1)
    BY <1>0, <1>1, <1>2, <1>3, <2>1
  <2>3. q < Bars
    BY <1>0, <1>1, <2>2, Below
  <2>4. 0 < q + 1
    BY <1>1, <2>2, Below
  <2> QED BY <1>0, <1>1, <2>3, <2>4, <1>3 DEF q
<1>4. CASE d < 0
  <2>1. d * Bars < 0
    <3>1. -d \in Nat \ {0}
      BY <1>4
    <3>2. (-d) * Bars \in Nat \ {0}
      BY <1>0, <3>1
    <3>3. (-d) * Bars = -(d * Bars)
      BY <1>0
    <3> QED BY <1>0, <3>2, <3>3
  <2>2. m * q < m * 0
    BY <1>0, <1>1, <2>1
  <2>3. q < 0
    BY <1>1, <2>2, Below
  <2> QED BY <1>1, <1>4, <2>3 DEF q
<1>5. CASE d = m
  <2>1. m * q < m * (Bars + 1) /\ m * Bars < m * (q + 1)
    <3>1. m * (Bars + 1) = m * Bars + m /\ m * Bars \in Int /\ m * q \in Int
      BY <1>0, <1>1
    <3> QED BY <1>1, <1>2, <1>5, <3>1
  <2>2. q < Bars + 1
    BY <1>0, <1>1, <2>1, Below
  <2>3. Bars < q + 1
    BY <1>0, <1>1, <2>1, Below
  <2> QED BY <1>0, <1>1, <1>5, <2>2, <2>3 DEF q
<1> QED BY <1>1, <1>3, <1>4, <1>5 DEF q

\* The nearest bar is one of them.
LEMMA NearestIs ==
  ASSUME NEW b \in Int
  PROVE  Min({Bars - 1, Max({0, b})}) \in 0 .. Bars - 1
<1>0. Bars \in Nat \ {0}
  BY TrafficAssumption
<1>1. Max({0, b}) = IF b > 0 THEN b ELSE 0
  BY DEF Max
<1> DEFINE c == IF b > 0 THEN b ELSE 0
<1>2. c \in Nat
  OBVIOUS
<1> HIDE DEF c
<1>3. Min({Bars - 1, c}) = IF c < Bars - 1 THEN c ELSE Bars - 1
  BY <1>0, <1>2 DEF Min
<1>4. Max({0, b}) = c
  BY <1>1 DEF c
<1> QED BY <1>0, <1>2, <1>3, <1>4

\* The seconds with packets are not in the future.
RateOK ==
  /\ second \in Nat
  /\ DOMAIN rate \subseteq 0 .. second
  /\ \A s \in DOMAIN rate : rate[s] \in Nat

\* The bars show what the headline counts, but for one second (GraphAgrees).
LEMMA GraphIs == RateOK => GraphAgrees
<1> SUFFICES ASSUME RateOK, NEW w \in 1 .. MaxSecond + 1, NEW half \in {0, 1}
             PROVE  LET drawing == Overview([t \in 0 .. 2 * second + half |-> 1], w, half)
                        missed == IF half = 0 THEN second ELSE second - w
                    IN  drawing.total = Sum(drawing.series)
                                        + (IF missed \in DOMAIN rate THEN rate[missed] ELSE 0)
  BY DEF GraphAgrees
<1> DEFINE log == [t \in 0 .. 2 * second + half |-> 1]
           missed == IF half = 0 THEN second ELSE second - w
           c == 2 * second + half - 2 * w
           D == DOMAIN rate
           recent == Recent(log, c)
           bar == [x \in D |-> Bar(2 * x, c, w)]
           near == [t \in recent |-> Min({Bars - 1, Max({0, Bar(t, c, w)})})]
           packets == [b \in 0 .. Bars - 1 |-> Sum([x \in {y \in D : bar[y] = b} |-> rate[x]])]
           queries == [b \in 0 .. Bars - 1 |-> Sum([t \in {y \in recent : near[y] = b} |-> log[t]])]
           series == [b \in 0 .. Bars - 1 |-> packets[b] + queries[b]]
           drawn == {y \in D : bar[y] \in 0 .. Bars - 1}
           window == {x \in D : x + w >= second}
<1>0. /\ second \in Nat /\ w \in Nat \ {0} /\ 2 * w \in Nat \ {0} /\ Bars \in Nat \ {0} /\ c \in Int
      /\ D \subseteq 0 .. second /\ \A s \in D : rate[s] \in Nat
  BY TrafficAssumption DEF RateOK
<1>1. IsFiniteSet(D)
  <2>1. IsFiniteSet(0 .. second)
    BY <1>0, FS_Interval
  <2> QED BY <1>0, <2>1, FS_Subset
<1>2. IsFiniteSet(recent) /\ \A t \in recent : t \in Int /\ log[t] = 1
  <2>1. IsFiniteSet(0 .. 2 * second + half)
    <3>1. PICK n \in Nat : n = 2 * second + half
      BY <1>0
    <3> QED BY <3>1, FS_Interval
  <2>2. recent \subseteq 0 .. 2 * second + half
    BY DEF Recent
  <2> QED BY <1>0, <2>1, <2>2, FS_Subset
<1>3. /\ Overview(log, w, half).series = series
      /\ Overview(log, w, half).total = Sum([t \in recent |-> log[t]]) + Sum([s \in window |-> rate[s]])
  <2>1. PacketsInWindow(w) = Sum([s \in window |-> rate[s]])
    BY DEF PacketsInWindow
  <2>2. RateBuckets(c, w) = packets
    <3>1. \A b \in 0 .. Bars - 1 : {x \in D : Bar(2 * x, c, w) = b} = {y \in D : bar[y] = b}
      OBVIOUS
    <3> QED BY <3>1 DEF RateBuckets
  <2>3. \A b \in 0 .. Bars - 1 :
          {x \in recent : Min({Bars - 1, Max({0, Bar(x, c, w)})}) = b} = {y \in recent : near[y] = b}
    OBVIOUS
  <2> DEFINE drawing == [series |-> [b \in 0 .. Bars - 1 |->
                         RateBuckets(c, w)[b]
                           + Sum([t \in {x \in recent : Min({Bars - 1, Max({0, Bar(x, c, w)})}) = b}
                                    |-> log[t]])],
                       total |-> Sum([t \in recent |-> log[t]]) + PacketsInWindow(w)]
  <2>4. Overview(log, w, half) = drawing
    BY DEF Overview
  <2>5. drawing.series = series
    <3>1. ASSUME NEW b \in 0 .. Bars - 1
          PROVE  RateBuckets(c, w)[b]
                   + Sum([t \in {x \in recent : Min({Bars - 1, Max({0, Bar(x, c, w)})}) = b}
                            |-> log[t]]) = packets[b] + queries[b]
      <4>1. queries[b] = Sum([t \in {y \in recent : near[y] = b} |-> log[t]])
        OBVIOUS
      <4> HIDE DEF packets, queries, near, recent, log, c
      <4> QED BY <2>2, <2>3, <4>1
    <3> QED BY <3>1
  <2>6. drawing.total = Sum([t \in recent |-> log[t]]) + Sum([s \in window |-> rate[s]])
    BY <2>1
  <2> HIDE DEF drawing, series
  <2> QED BY <2>4, <2>5, <2>6
<1>4. /\ packets \in [0 .. Bars - 1 -> Nat]
      /\ Sum(packets) = Sum([x \in drawn |-> rate[x]])
  <2>1. PICK side, f, those, dom : side = bar /\ f = rate /\ those = drawn /\ dom = D
    OBVIOUS
  <2>2. PICK sums : sums = packets
    OBVIOUS
  <2>3. PICK n \in Nat : n = Bars
    BY <1>0
  <2> DEFINE these == [b \in 0 .. Bars - 1 |-> {y \in D : bar[y] = b}]
             their == [b \in 0 .. Bars - 1 |-> [x \in {y \in D : bar[y] = b} |-> rate[x]]]
  <2>4. PICK Of, P : Of = these /\ P = their
    OBVIOUS
  <2>5. Divided(dom, f, side, n, Of, P, those)
    <3>1. ASSUME NEW b \in 0 .. n - 1
          PROVE  P[b] \in [Of[b] -> Nat] /\ \A x \in Of[b] : P[b][x] = f[x]
      BY <1>0, <2>1, <2>3, <2>4
    <3>2. \A b \in 0 .. n - 1 : \A x : x \in Of[b] <=> x \in dom /\ side[x] = b
      BY <2>1, <2>3, <2>4
    <3>3. those = {y \in dom : side[y] \in 0 .. n - 1} /\ \A x \in dom : f[x] \in Nat
      BY <1>0, <2>1, <2>3
    <3> HIDE DEF these, their, D, drawn, bar
    <3> QED BY <3>1, <3>2, <3>3 DEF Divided
  <2>6. /\ DOMAIN sums = 0 .. n - 1 /\ sums = [b \in DOMAIN sums |-> sums[b]]
        /\ \A b \in 0 .. n - 1 : sums[b] = Sum(P[b])
    BY <2>2, <2>3, <2>4
  <2> HIDE DEF bar, packets, drawn, D, these, their
  <2>7. IsFiniteSet(dom)
    BY <1>1, <2>1
  <2>8. sums \in [0 .. n - 1 -> Nat] /\ Sum(sums) = Sum([x \in those |-> f[x]])
    BY <2>5, <2>6, <2>7, SumOfParts
  <2> QED BY <2>1, <2>2, <2>3, <2>8
<1>5. /\ queries \in [0 .. Bars - 1 -> Nat]
      /\ Sum(queries) = Sum([t \in recent |-> log[t]])
  <2>1. {t \in recent : near[t] \in 0 .. Bars - 1} = recent
    <3>1. ASSUME NEW t \in recent PROVE near[t] \in 0 .. Bars - 1
      <4>1. (t - c) \in Int
        BY <1>0, <1>2
      <4>2. Bar(t, c, w) \in Int
        BY <1>0, <4>1, BarIs DEF Bar
      <4> QED BY <4>2, NearestIs
    <3> QED BY <3>1
  <2> HIDE DEF recent, near, log
  <2>2. PICK side, f, sums, dom : side = near /\ f = log /\ sums = queries /\ dom = recent
    OBVIOUS
  <2>3. PICK n \in Nat : n = Bars
    BY <1>0
  <2> DEFINE these == [b \in 0 .. Bars - 1 |-> {y \in recent : near[y] = b}]
             their == [b \in 0 .. Bars - 1 |-> [x \in {y \in recent : near[y] = b} |-> log[x]]]
  <2>4. PICK Of, P : Of = these /\ P = their
    OBVIOUS
  <2>5. Divided(dom, f, side, n, Of, P, dom)
    <3>1. ASSUME NEW b \in 0 .. n - 1
          PROVE  P[b] \in [Of[b] -> Nat] /\ \A x \in Of[b] : P[b][x] = f[x]
      BY <1>2, <2>2, <2>3, <2>4
    <3>2. \A b \in 0 .. n - 1 : \A x : x \in Of[b] <=> x \in dom /\ side[x] = b
      BY <2>2, <2>3, <2>4
    <3>3. dom = {y \in dom : side[y] \in 0 .. n - 1} /\ \A x \in dom : f[x] \in Nat
      BY <1>2, <2>1, <2>2, <2>3
    <3> HIDE DEF these, their
    <3> QED BY <3>1, <3>2, <3>3 DEF Divided
  <2>6. /\ DOMAIN sums = 0 .. n - 1 /\ sums = [b \in DOMAIN sums |-> sums[b]]
        /\ \A b \in 0 .. n - 1 : sums[b] = Sum(P[b])
    BY <2>2, <2>3, <2>4
  <2> HIDE DEF queries, these, their
  <2>7. IsFiniteSet(dom)
    BY <1>2, <2>2
  <2>8. sums \in [0 .. n - 1 -> Nat] /\ Sum(sums) = Sum([x \in dom |-> f[x]])
    BY <2>5, <2>6, <2>7, SumOfParts
  <2> QED BY <2>2, <2>3, <2>8
<1>6. Sum(series) = Sum(packets) + Sum(queries)
  <2>1. series \in [0 .. Bars - 1 -> Nat] /\ \A b \in 0 .. Bars - 1 : series[b] = packets[b] + queries[b]
    <3> HIDE DEF packets, queries
    <3> QED BY <1>4, <1>5
  <2>2. IsFiniteSet(0 .. Bars - 1)
    BY <1>0, FS_Interval
  <2> HIDE DEF series, packets, queries
  <2>3. PICK dom, f, g, h : dom = 0 .. Bars - 1 /\ f = packets /\ g = queries /\ h = series
    OBVIOUS
  <2>4. /\ IsFiniteSet(dom) /\ f \in [dom -> Nat] /\ g \in [dom -> Nat] /\ h \in [dom -> Nat]
        /\ \A x \in dom : h[x] = f[x] + g[x]
    BY <1>4, <1>5, <2>1, <2>2, <2>3
  <2>5. Sum(h) = Sum(f) + Sum(g)
    BY <2>4, SumAdded
  <2> QED BY <2>3, <2>5
<1>7. /\ missed \notin drawn
      /\ window = drawn \union ({missed} \intersect D)
  <2>1. ASSUME NEW x \in D
        PROVE  /\ x \in drawn => x \in window /\ x # missed
               /\ x \in window => x \in drawn \/ x = missed
               /\ x = missed => x \in window
    <3> DEFINE d == 2 * x - c
    <3>1. d \in Int /\ bar[x] = (d * Bars) \div (2 * w) /\ x \in 0 .. second
          /\ d = 2 * (x + w - second) - half
      BY <1>0 DEF Bar
    <3> HIDE DEF d
    <3>2. /\ d \in 0 .. 2 * w - 1 => bar[x] \in 0 .. Bars - 1
          /\ d < 0 => bar[x] < 0
          /\ d = 2 * w => bar[x] = Bars
      BY <1>0, <3>1, BarIs
    <3> HIDE DEF bar, c
    <3>3. x \in drawn <=> bar[x] \in 0 .. Bars - 1
      OBVIOUS
    <3> HIDE DEF drawn
    <3>4. d \in 0 .. 2 * w - 1 \/ d < 0 \/ d = 2 * w
      BY <1>0, <3>1
    <3>5. x \in drawn <=> d \in 0 .. 2 * w - 1
      BY <1>0, <3>2, <3>3, <3>4
    <3>6. d \in 0 .. 2 * w - 1 => x + w >= second /\ x # missed
      BY <1>0, <3>1
    <3>7. x + w >= second => d \in 0 .. 2 * w - 1 \/ x = missed
      <4>1. CASE half = 0
        <5>1. x <= second /\ missed = second
          BY <1>0, <3>1, <4>1
        <5>2. x + w >= second => d >= 0
          BY <1>0, <3>1, <4>1
        <5>3. x # second => d <= 2 * w - 1
          BY <1>0, <3>1, <4>1
        <5> QED BY <1>0, <3>1, <5>1, <5>2, <5>3
      <4>2. CASE half = 1
        <5>1. missed = second - w /\ d <= 2 * w - 1
          BY <1>0, <3>1, <4>2
        <5>2. x + w >= second => d >= 0 \/ x = second - w
          BY <1>0, <3>1, <4>2
        <5> QED BY <1>0, <3>1, <5>1, <5>2
      <4> QED BY <4>1, <4>2
    <3>8. x = missed => x + w >= second
      BY <1>0, <3>1
    <3> HIDE DEF missed
    <3> QED BY <3>5, <3>6, <3>7, <3>8
  <2>2. drawn \subseteq D /\ window \subseteq D
    OBVIOUS
  <2> HIDE DEF drawn, window, missed
  <2> QED BY <2>1, <2>2
<1>8. Sum([s \in window |-> rate[s]])
        = Sum([x \in drawn |-> rate[x]]) + (IF missed \in D THEN rate[missed] ELSE 0)
  <2>1. drawn \subseteq D /\ IsFiniteSet(drawn)
    BY <1>1, FS_Subset
  <2>2. Sum([x \in drawn |-> rate[x]]) \in Nat
    <3>1. [x \in drawn |-> rate[x]] \in [drawn -> Nat]
      BY <1>0
    <3>2. PICK h : h = [x \in drawn |-> rate[x]]
      OBVIOUS
    <3> HIDE DEF drawn
    <3> QED BY <2>1, <3>1, <3>2, UnitsFinite
  <2> HIDE DEF drawn, window, missed
  <2>3. CASE missed \notin D
    <3>1. window = drawn
      BY <1>7, <2>3
    <3> QED BY <2>2, <2>3, <3>1
  <2>4. CASE missed \in D
    <3>1. window = drawn \union {missed} /\ drawn \intersect {missed} = {}
      BY <1>7, <2>4
    <3>2. IsFiniteSet({missed})
      BY FS_Singleton
    <3>3. \A x \in drawn \union {missed} : rate[x] \in Nat
      BY <1>0, <2>1, <2>4
    <3>4. Sum([s \in window |-> rate[s]])
            = Sum([x \in drawn |-> rate[x]]) + Sum([x \in {missed} |-> rate[x]])
      <4>1. PICK f, m : f = rate /\ m = missed
        OBVIOUS
      <4>2. Sum([x \in drawn \union {m} |-> f[x]])
              = Sum([x \in drawn |-> f[x]]) + Sum([x \in {m} |-> f[x]])
        BY <2>1, <3>1, <3>2, <3>3, <4>1, SumJoined
      <4> QED BY <3>1, <4>1, <4>2
    <3>5. [x \in {missed} |-> rate[x]] = [x \in {missed} |-> rate[missed]]
      OBVIOUS
    <3>6. Sum([x \in {missed} |-> rate[missed]]) = rate[missed]
      BY <1>0, <2>4, SumOfOne
    <3> QED BY <2>4, <3>4, <3>5, <3>6
  <2> QED BY <2>3, <2>4
<1>9. /\ Sum(packets) \in Nat /\ Sum(queries) \in Nat
      /\ (IF missed \in D THEN rate[missed] ELSE 0) \in Nat
  <2>1. IsFiniteSet(0 .. Bars - 1)
    BY <1>0, FS_Interval
  <2> HIDE DEF packets, queries
  <2> QED BY <1>0, <1>4, <1>5, <2>1, UnitsFinite
<1> HIDE DEF packets, queries, series, drawn, window, recent, missed, log
<1>10. Overview(log, w, half).total
         = Sum(Overview(log, w, half).series) + (IF missed \in D THEN rate[missed] ELSE 0)
  BY <1>3, <1>4, <1>5, <1>6, <1>8, <1>9
<1> QED BY <1>10 DEF log, missed

\* What a second has counted is what was on the wire, as long as the second is kept and
\* no line was cut.
RateInv ==
  /\ RateOK /\ second \in 0 .. MaxSecond
  /\ wire \in [0 .. MaxSecond -> Nat]
  /\ \A s \in 0 .. MaxSecond : s > second => wire[s] = 0
  /\ torn = {} =>
       \A s \in 0 .. MaxSecond :
         s + RateKeep >= second => wire[s] = IF s \in DOMAIN rate THEN rate[s] ELSE 0

\* The rows have their types, and are not too many.
TablesInv ==
  /\ \A t \in Tables : IsTable(tables[t])
  /\ "crowded" \notin lost => \A t \in Tables \ {"dhcp"} : Len(tables[t]) <= TableCap

\* What was on the wire was to be entered.
WireInv ==
  \A x \in DOMAIN onWire :
    onWire[x] \in Nat /\ x[1] \in Tables /\ x = <<x[1], x[2], x[3]>>

\* The end of a line that is to come binds nothing, and names those who talked or are invented.
UnreadInv ==
  /\ unread \in Readings
  /\ \A x \in unread.notes : x[1] # "bindings"
  /\ Addresses(unread.notes) \subseteq Talkers \union Invented
  /\ torn = {} => unread = Unheard

\* A table that no cut line could touch counts what was on the wire.
NoRequest(frames) == \A f \in frames : f.kind # "request"
Untouched(t) == torn = {} \/ (t = "bindings" /\ NoRequest(torn))

CountsInv ==
  /\ \A t \in Tables : Untouched(t) =>
       \A k, v : CountOf(tables[t], k, v) <= OnWire(<<t, k, v>>)
  /\ torn = {} /\ lost = {} =>
       \A t \in Tables : \A k, v : CountOf(tables[t], k, v) = OnWire(<<t, k, v>>)

SeenInv == seen \subseteq Talkers \union Invented /\ (torn = {} => seen = Talkers)

TrafficInv == RateInv /\ TablesInv /\ WireInv /\ UnreadInv /\ CountsInv /\ SeenInv

\* Those who talked are the ends of the flows on the wire.
LEMMA TalkersAre ==
  ASSUME NEW a
  PROVE  a \in Talkers <=> /\ a \in Private
                           /\ \E x \in DOMAIN onWire : x[1] = "flows" /\ a \in {x[2][1], x[2][2]}
BY DEF Talkers

\* The invariant says what is shown (TrafficKept).
LEMMA WindowIs ==
  ASSUME RateInv, torn = {}, NEW w \in 0 .. RateKeep
  PROVE  PacketsInWindow(w) = Sum([s \in {x \in DOMAIN wire : x + w >= second} |-> wire[s]])
<1> DEFINE f == [s \in {x \in DOMAIN rate : x + w >= second} |-> rate[s]]
           g == [s \in {x \in DOMAIN wire : x + w >= second} |-> wire[s]]
<1>0. /\ RateKeep \in Nat /\ MaxSecond \in Nat /\ second \in 0 .. MaxSecond
      /\ DOMAIN wire = 0 .. MaxSecond /\ DOMAIN rate \subseteq 0 .. second
  BY TrafficAssumption DEF RateInv, RateOK
<1>1. /\ DOMAIN f = {x \in DOMAIN rate : x + w >= second} /\ \A s \in DOMAIN f : f[s] = rate[s]
      /\ DOMAIN g = {x \in 0 .. MaxSecond : x + w >= second} /\ \A s \in DOMAIN g : g[s] = wire[s]
  BY <1>0
<1> HIDE DEF f, g
<1>2. \A s \in DOMAIN f : s \in DOMAIN g /\ f[s] = g[s]
  BY <1>0, <1>1 DEF RateInv
<1>3. \A s \in DOMAIN g : s \in DOMAIN f \/ g[s] = 0
  BY <1>0, <1>1 DEF RateInv
<1>4. ASSUME NEW u PROVE u \in Units(f) <=> u \in Units(g)
  <2>1. u \in Units(f) <=> \E x \in DOMAIN f : \E k \in 1 .. f[x] : u = <<x, k>>
    BY UnitsAre
  <2>2. u \in Units(g) <=> \E x \in DOMAIN g : \E k \in 1 .. g[x] : u = <<x, k>>
    BY UnitsAre
  <2> QED BY <1>2, <1>3, <2>1, <2>2
<1>5. Units(f) = Units(g)
  BY <1>4
<1>6. PacketsInWindow(w) = Sum(f)
  BY DEF PacketsInWindow, f
<1> QED BY <1>5, <1>6 DEF Sum, g

\* Rows that count no more than the wire are those of NoMoreThanHeard.
LEMMA NoMoreIs ==
  ASSUME TablesInv, NEW t \in Tables,
         \A k, v : CountOf(tables[t], k, v) <= OnWire(<<t, k, v>>)
  PROVE  NoMoreThanHeard(t)
<1> SUFFICES ASSUME NEW r \in Range(tables[t]), NEW v \in DOMAIN r.n
             PROVE  r.n[v] <= OnWire(<<t, r.key, v>>)
  BY DEF NoMoreThanHeard
<1>1. PICK rows : rows = tables[t]
  OBVIOUS
<1>2. PICK i \in DOMAIN rows : r = rows[i]
  BY <1>1 DEF Range
<1>3. IsTable(rows)
  BY <1>1 DEF TablesInv
<1>4. CountOf(rows, rows[i].key, v) = r.n[v]
  BY <1>2, <1>3, CountIs
<1> QED BY <1>1, <1>2, <1>4

\* What the invariant says of the traffic is what is shown of it (TrafficKept).
LEMMA TrafficIsKept == TrafficInv => TrafficKept
<1> SUFFICES ASSUME TrafficInv PROVE TrafficKept
  OBVIOUS
<1>0. RateInv /\ TablesInv /\ WireInv /\ CountsInv /\ SeenInv
  BY DEF TrafficInv
<1>1. ASSUME torn = {}, NEW t \in Tables PROVE NoMoreThanHeard(t)
  <2>1. \A k, v : CountOf(tables[t], k, v) <= OnWire(<<t, k, v>>)
    BY <1>0, <1>1 DEF CountsInv, Untouched
  <2> QED BY <1>0, <2>1, NoMoreIs
<1>2. ASSUME torn = {}, lost = {}, NEW x \in DOMAIN onWire
      PROVE  CountOf(tables[x[1]], x[2], x[3]) = onWire[x]
  <2>1. x[1] \in Tables /\ x = <<x[1], x[2], x[3]>>
    BY <1>0 DEF WireInv
  <2>2. CountOf(tables[x[1]], x[2], x[3]) = OnWire(<<x[1], x[2], x[3]>>)
    BY <1>0, <1>2, <2>1 DEF CountsInv
  <2> QED BY <2>1, <2>2 DEF OnWire
<1>3. ASSUME torn = {}, NEW w \in 0 .. RateKeep
      PROVE  PacketsInWindow(w) = Sum([s \in {x \in DOMAIN wire : x + w >= second} |-> wire[s]])
  BY <1>0, <1>3, WindowIs
<1>4. seen \subseteq Talkers \union Invented /\ (torn = {} => seen = Talkers)
  BY <1>0 DEF SeenInv
<1>5. NoRequest(torn) => NoMoreThanHeard("bindings")
  <2> SUFFICES ASSUME NoRequest(torn) PROVE NoMoreThanHeard("bindings")
    OBVIOUS
  <2>1. "bindings" \in Tables
    BY DEF Tables
  <2>2. \A k, v : CountOf(tables["bindings"], k, v) <= OnWire(<<"bindings", k, v>>)
    BY <1>0, <2>1 DEF CountsInv, Untouched
  <2> QED BY <1>0, <2>1, <2>2, NoMoreIs
<1>6. "crowded" \notin lost => \A t \in Tables \ {"dhcp"} : Len(tables[t]) <= TableCap
  BY <1>0 DEF TablesInv
<1>7. GraphAgrees
  BY <1>0, GraphIs DEF RateInv
<1> QED BY <1>1, <1>2, <1>3, <1>4, <1>5, <1>6, <1>7 DEF TrafficKept, NoRequest

-----------------------------------------------------------------------------
(* A chunk.                                                                *)

\* What comes after the first counts no more than what it stands for.
LEMMA ShiftedCount ==
  ASSUME NEW n \in Nat, NEW A \in SUBSET (1 .. n + 1), NEW B \in SUBSET (1 .. n),
         1 \notin A, \A i \in 1 .. n : i + 1 \in A => i \in B
  PROVE  /\ Cardinality(A) \in Nat /\ Cardinality(B) \in Nat
         /\ Cardinality(A) <= Cardinality(B)
         /\ (\A i \in 1 .. n : i \in B => i + 1 \in A) => Cardinality(A) = Cardinality(B)
<1> DEFINE m == [i \in A |-> i - 1]
<1>1. \A i \in A : i - 1 \in 1 .. n /\ (i - 1) + 1 = i /\ i - 1 \in B
  OBVIOUS
<1>2. m \in Injection(A, B)
  <2>1. m \in [A -> B]
    BY <1>1
  <2>2. \A i \in A, j \in A : m[i] = m[j] => i = j
    OBVIOUS
  <2> HIDE DEF m
  <2>3. DOMAIN m = A
    BY <2>1
  <2> QED BY <2>1, <2>2, <2>3 DEF Injection, IsInjective
<1>3. IsFiniteSet(B)
  <2>1. IsFiniteSet(1 .. n)
    BY FirstNumbers
  <2> QED BY <2>1, FS_Subset
<1>4. ASSUME \A i \in 1 .. n : i \in B => i + 1 \in A PROVE m \in Surjection(A, B)
  <2>1. ASSUME NEW b \in B PROVE \E i \in A : m[i] = b
    <3>1. b + 1 \in A
      BY <1>4
    <3>2. m[b + 1] = b
      BY <3>1
    <3> QED BY <3>1, <3>2
  <2>2. m \in [A -> B]
    BY <1>1
  <2> QED BY <2>1, <2>2 DEF Surjection
<1> HIDE DEF m
<1>5. /\ IsFiniteSet(A) /\ Cardinality(A) <= Cardinality(B)
      /\ Cardinality(A) = Cardinality(B) <=> m \in Surjection(A, B)
  BY <1>2, <1>3, FS_Injection
<1>6. Cardinality(A) \in Nat /\ Cardinality(B) \in Nat
  BY <1>3, <1>5, FS_CardinalityType
<1> QED BY <1>4, <1>5, <1>6

\* What is heard of the end of a chunk.
LastOK(n, frames, last) ==
  /\ last[1] \in Readings /\ last[2] \in Readings
  /\ \A x \in last[2].notes : x[1] # "bindings"
  /\ n = 0 => last[2] = Unheard
  /\ n > 0 => /\ Addresses(last[1].notes) \subseteq Addresses(Line(frames[n]).notes)
              /\ \/ last = <<Line(frames[n]), Unheard>>
                 \/ Addresses(last[2].notes)
                      \subseteq Addresses(Line(frames[n]).notes) \union Invents(frames[n])
              /\ \/ last = <<Line(frames[n]), Unheard>>
                 \/ frames[n].kind = "request"
                 \/ \A x \in last[1].notes : x[1] = "bindings" => x \in Line(frames[n]).notes

\* The readings of a chunk, after what was unread.
Chunk(n, frames, last, readings) ==
  /\ Len(readings) = n + 1 /\ DOMAIN readings = 1 .. n + 1
  /\ readings[1] = unread
  /\ \A i \in 1 .. n : readings[i + 1] = IF i = n THEN last[1] ELSE Line(frames[i])

\* What may be read of the last line of a chunk is as LastOK says.
LEMMA LastIs ==
  ASSUME NEW n \in Nat, NEW frames \in [1 .. n -> Frames],
         NEW last \in IF frames = << >> THEN {<<Unheard, Unheard>>}
                      ELSE {<<Line(Last(frames)), Unheard>>} \union Halves(Last(frames))
  PROVE  LastOK(n, frames, last)
<1>1. Len(frames) = n /\ (frames = << >> <=> n = 0) /\ Last(frames) = frames[n]
  BY DEF Last
<1>2. Unheard \in Readings /\ \A x \in Unheard.notes : FALSE
  BY DEF Readings, Unheard
<1>3. CASE n = 0
  <2>1. last = <<Unheard, Unheard>>
    BY <1>1, <1>3
  <2> QED BY <1>2, <1>3, <2>1 DEF LastOK
<1>4. CASE n > 0
  <2>1. PICK f \in Frames : f = frames[n]
    BY <1>4
  <2>2. last = <<Line(f), Unheard>> \/ last \in Halves(f)
    BY <1>1, <1>4, <2>1
  <2>3. CASE last = <<Line(f), Unheard>>
    <3>1. last[1] = Line(f) /\ last[2] = Unheard
      BY <2>3
    <3> QED BY <1>2, <1>4, <2>1, <2>3, <3>1, LineIs DEF LastOK
  <2>4. CASE last \in Halves(f)
    <3>1. /\ last[1] \in Readings /\ last[2] \in Readings
          /\ Addresses(last[1].notes) \subseteq Addresses(Line(f).notes)
          /\ Addresses(last[2].notes) \subseteq Addresses(Line(f).notes) \union Invents(f)
          /\ \A x \in last[2].notes : x[1] # "bindings"
          /\ f.kind # "request" =>
               \A x \in last[1].notes : x[1] = "bindings" => x \in Line(f).notes
      BY <2>4, HalvesAre
    <3> QED BY <1>4, <2>1, <3>1 DEF LastOK
  <2> QED BY <2>2, <2>3, <2>4
<1> QED BY <1>3, <1>4

\* How many packets readings count.
Packets(readings) == Sum([i \in DOMAIN readings |-> readings[i].n])

\* How often x is noted in n readings.
TimesRead(readings, n, x) == Cardinality({i \in 1 .. n : x \in readings[i].notes})

\* How often x is on n lines.
OnLines(frames, n, x) == Cardinality({i \in 1 .. n : x \in Line(frames[i]).notes})

\* A chunk is made of readings.
LEMMA ChunkReads ==
  ASSUME UnreadInv, NEW n \in Nat, NEW frames \in [1 .. n -> Frames], NEW last,
         LastOK(n, frames, last), NEW readings, Chunk(n, frames, last, readings),
         NEW i \in 1 .. n + 1
  PROVE  readings[i] \in Readings /\ IsReading(readings[i])
<1>1. CASE i = 1
  <2>1. readings[i] \in Readings
    BY <1>1 DEF Chunk, UnreadInv
  <2> QED BY <2>1, ReadingsRead
<1>2. CASE i # 1
  <2>1. PICK j \in 1 .. n : i = j + 1
    <3>1. i - 1 \in 1 .. n /\ i = (i - 1) + 1
      BY <1>2
    <3> QED BY <3>1
  <2>2. readings[i] = IF j = n THEN last[1] ELSE Line(frames[j])
    BY <2>1 DEF Chunk
  <2>3. Line(frames[j]) \in Readings /\ last[1] \in Readings
    BY LineIs DEF LastOK
  <2>4. readings[i] \in Readings
    BY <2>2, <2>3
  <2> QED BY <2>4, ReadingsRead
<1> QED BY <1>1, <1>2

\* A chunk counts for no more packets than are on the wire, where it read nothing else.
LEMMA ChunkTimes ==
  ASSUME NEW n \in Nat, NEW frames, NEW last, NEW readings, Chunk(n, frames, last, readings),
         NEW x, x \notin unread.notes,
         n > 0 => (x \in last[1].notes => x \in Line(frames[n]).notes)
  PROVE  /\ TimesRead(readings, n + 1, x) \in Nat /\ OnLines(frames, n, x) \in Nat
         /\ TimesRead(readings, n + 1, x) <= OnLines(frames, n, x)
         /\ (n > 0 => last[1] = Line(frames[n])) => TimesRead(readings, n + 1, x) = OnLines(frames, n, x)
<1> DEFINE A == {i \in 1 .. n + 1 : x \in readings[i].notes}
           B == {i \in 1 .. n : x \in Line(frames[i]).notes}
<1>1. A \in SUBSET (1 .. n + 1) /\ B \in SUBSET (1 .. n)
  OBVIOUS
<1>2. 1 \notin A
  BY DEF Chunk
<1>3. ASSUME NEW i \in 1 .. n
      PROVE  /\ i + 1 \in A => i \in B
             /\ (n > 0 => last[1] = Line(frames[n])) /\ i \in B => i + 1 \in A
  <2>1. i + 1 \in 1 .. n + 1 /\ n > 0
    OBVIOUS
  <2>2. readings[i + 1] = IF i = n THEN last[1] ELSE Line(frames[i])
    BY DEF Chunk
  <2>3. i + 1 \in A <=> x \in readings[i + 1].notes
    BY <2>1
  <2>4. i \in B <=> x \in Line(frames[i]).notes
    OBVIOUS
  <2> HIDE DEF A, B
  <2> QED BY <2>1, <2>2, <2>3, <2>4
<1> HIDE DEF A, B
<1>4. PICK a, b : a = A /\ b = B
  OBVIOUS
<1>5. /\ Cardinality(a) \in Nat /\ Cardinality(b) \in Nat
      /\ Cardinality(a) <= Cardinality(b)
      /\ (\A i \in 1 .. n : i \in b => i + 1 \in a) => Cardinality(a) = Cardinality(b)
  BY <1>1, <1>2, <1>3, <1>4, ShiftedCount
<1>6. (n > 0 => last[1] = Line(frames[n])) => \A i \in 1 .. n : i \in b => i + 1 \in a
  BY <1>3, <1>4
<1>7. /\ Cardinality(A) \in Nat /\ Cardinality(B) \in Nat /\ Cardinality(A) <= Cardinality(B)
      /\ (n > 0 => last[1] = Line(frames[n])) => Cardinality(A) = Cardinality(B)
  BY <1>4, <1>5, <1>6
<1> QED BY <1>7 DEF A, B, TimesRead, OnLines

\* The packets of a chunk.
LEMMA DeltaIs ==
  ASSUME UnreadInv, NEW n \in Nat, NEW frames \in [1 .. n -> Frames], NEW last,
         LastOK(n, frames, last), NEW readings, Chunk(n, frames, last, readings)
  PROVE  /\ Packets(readings) \in Nat
         /\ unread = Unheard /\ (n > 0 => last[1] = Line(frames[n])) => Packets(readings) = n
<1> DEFINE f == [i \in 1 .. n + 1 |-> readings[i].n]
<1>1. [i \in DOMAIN readings |-> readings[i].n] = f
  BY DEF Chunk
<1>2. f \in [1 .. n + 1 -> Nat]
  <2>1. \A i \in 1 .. n + 1 : readings[i].n \in Nat
    BY ChunkReads DEF IsReading
  <2> QED BY <2>1
<1>3. Sum(f) \in Nat
  <2>1. IsFiniteSet(1 .. n + 1)
    BY FirstNumbers
  <2>2. PICK D, g : D = 1 .. n + 1 /\ g = f
    OBVIOUS
  <2> HIDE DEF f
  <2>3. Sum(g) \in Nat
    BY <1>2, <2>1, <2>2, UnitsFinite
  <2> QED BY <2>2, <2>3
<1>4. ASSUME unread = Unheard, n > 0 => last[1] = Line(frames[n]) PROVE Sum(f) = n
  <2> DEFINE m == [i \in 1 .. n |-> <<i + 1, 1>>]
  <2>1. f[1] = 0 /\ \A i \in 1 .. n : f[i + 1] = 1
    <3>1. f[1] = 0
      BY <1>4 DEF Chunk, Unheard
    <3>2. ASSUME NEW i \in 1 .. n PROVE f[i + 1] = 1
      <4>1. readings[i + 1] = Line(frames[i]) /\ i + 1 \in 1 .. n + 1
        BY <1>4 DEF Chunk
      <4>2. Line(frames[i]).n = 1
        BY LineIs
      <4> QED BY <4>1, <4>2
    <3> QED BY <3>1, <3>2
  <2>2. ASSUME NEW u PROVE u \in Units(f) <=> \E i \in 1 .. n : u = <<i + 1, 1>>
    <3> HIDE DEF f
    <3>1. u \in Units(f) <=> \E x \in 1 .. n + 1 : \E k \in 1 .. f[x] : u = <<x, k>>
      BY <1>2, UnitsAre
    <3>2. ASSUME NEW x \in 1 .. n + 1, NEW k \in 1 .. f[x]
          PROVE  \E i \in 1 .. n : x = i + 1 /\ k = 1
      <4>1. x # 1
        BY <2>1
      <4>2. x - 1 \in 1 .. n /\ x = (x - 1) + 1
        BY <4>1
      <4> QED BY <2>1, <4>2
    <3>3. ASSUME NEW i \in 1 .. n PROVE i + 1 \in 1 .. n + 1 /\ 1 \in 1 .. f[i + 1]
      BY <2>1
    <3> QED BY <3>1, <3>2, <3>3
  <2> HIDE DEF f
  <2>3. m \in Bijection(1 .. n, Units(f))
    <3>1. \A i \in 1 .. n : m[i] \in Units(f)
      BY <2>2
    <3>2. m \in [1 .. n -> Units(f)]
      BY <3>1
    <3>3. \A i \in 1 .. n, j \in 1 .. n : m[i] = m[j] => i = j
      OBVIOUS
    <3>4. \A u \in Units(f) : \E i \in 1 .. n : m[i] = u
      BY <2>2
    <3> HIDE DEF m
    <3> QED BY <3>2, <3>3, <3>4 DEF Bijection, Injection, Surjection, IsInjective
  <2> HIDE DEF m
  <2>4. ExistsBijection(1 .. n, Units(f))
    BY <2>3 DEF ExistsBijection
  <2>5. IsFiniteSet(1 .. n) /\ Cardinality(1 .. n) = n
    BY FirstNumbers
  <2> QED BY <2>4, <2>5, FS_Bijection DEF Sum
<1> QED BY <1>1, <1>3, <1>4 DEF Packets

\* What is on the wire afterwards.
LEMMA HeardIs ==
  ASSUME WireInv, NEW n \in Nat, NEW frames \in [1 .. n -> Frames],
         onWire' = Heard([i \in DOMAIN frames |-> Line(frames[i])])
  PROVE  /\ WireInv'
         /\ \A x : OnWire(x)' = OnWire(x) + OnLines(frames, n, x)
         /\ Talkers \subseteq Talkers'
         /\ \A i \in 1 .. n : Addresses(Line(frames[i]).notes) \subseteq Talkers'
         /\ \A a \in Talkers' : a \in Talkers \/ \E i \in 1 .. n : a \in Addresses(Line(frames[i]).notes)
<1> DEFINE whole == [i \in DOMAIN frames |-> Line(frames[i])]
           Often(x) == {i \in 1 .. n : x \in Line(frames[i]).notes}
<1>1. /\ DOMAIN onWire' = DOMAIN onWire \union UNION {whole[i].notes : i \in DOMAIN whole}
      /\ \A x \in DOMAIN onWire' :
           onWire'[x] = OnWire(x) + Cardinality({i \in DOMAIN whole : x \in whole[i].notes})
  BY DEF Heard
<1>2. \A x : {i \in DOMAIN whole : x \in whole[i].notes} = Often(x)
  OBVIOUS
<1>3. \A x : x \in DOMAIN onWire' <=>
               x \in DOMAIN onWire \/ \E i \in 1 .. n : x \in Line(frames[i]).notes
  <2>1. \A x : x \in UNION {whole[i].notes : i \in DOMAIN whole} <=>
                 \E i \in 1 .. n : x \in Line(frames[i]).notes
    OBVIOUS
  <2> HIDE DEF whole
  <2> QED BY <1>1, <2>1
<1>4. \A x \in DOMAIN onWire' : onWire'[x] = OnWire(x) + Cardinality(Often(x))
  <2> HIDE DEF whole, Often
  <2> QED BY <1>1, <1>2
<1>5. \A x : OnWire(x) \in Nat
  BY DEF WireInv, OnWire
<1>6. ASSUME NEW x PROVE Cardinality(Often(x)) \in Nat
  <2>1. IsFiniteSet(1 .. n)
    BY FirstNumbers
  <2>2. Often(x) \subseteq 1 .. n
    OBVIOUS
  <2> HIDE DEF Often
  <2> QED BY <2>1, <2>2, FS_Subset, FS_CardinalityType
<1>7. ASSUME NEW x, x \notin DOMAIN onWire' PROVE OnWire(x) = 0 /\ Cardinality(Often(x)) = 0
  <2>1. Often(x) = {}
    BY <1>3, <1>7
  <2>2. Cardinality({}) = 0
    BY FS_EmptySet
  <2>3. OnWire(x) = 0
    BY <1>3, <1>7 DEF OnWire
  <2> QED BY <2>1, <2>2, <2>3
<1>8. \A i \in 1 .. n : IsReading(Line(frames[i]))
  BY LineIs
<1> HIDE DEF whole, Often
<1>9. WireInv'
  <2>1. ASSUME NEW x \in DOMAIN onWire'
        PROVE  onWire'[x] \in Nat /\ x[1] \in Tables /\ x = <<x[1], x[2], x[3]>>
    <3>1. onWire'[x] \in Nat
      BY <1>4, <1>5, <1>6
    <3>2. CASE x \in DOMAIN onWire
      BY <3>1, <3>2 DEF WireInv
    <3>3. CASE \E i \in 1 .. n : x \in Line(frames[i]).notes
      BY <1>8, <3>1, <3>3 DEF IsReading
    <3> QED BY <1>3, <3>2, <3>3
  <2> QED BY <2>1 DEF WireInv
<1>10. ASSUME NEW x PROVE OnWire(x)' = OnWire(x) + Cardinality(Often(x))
  <2>1. OnWire(x)' = IF x \in DOMAIN onWire' THEN onWire'[x] ELSE 0
    BY DEF OnWire
  <2> QED BY <1>4, <1>7, <2>1
<1>11. ASSUME NEW a
       PROVE  /\ a \in Talkers' <=> /\ a \in Private
                                    /\ \E x \in DOMAIN onWire' : x[1] = "flows" /\ a \in {x[2][1], x[2][2]}
              /\ a \in Talkers <=> /\ a \in Private
                                   /\ \E x \in DOMAIN onWire : x[1] = "flows" /\ a \in {x[2][1], x[2][2]}
  BY DEF Talkers
<1>12. Talkers \subseteq Talkers'
  BY <1>3, <1>11
<1>13. ASSUME NEW i \in 1 .. n, NEW a \in Addresses(Line(frames[i]).notes) PROVE a \in Talkers'
  <2>1. PICK x \in Line(frames[i]).notes : x[1] = "flows" /\ a \in {x[2][1], x[2][2]}
    BY AddressesAre
  <2>2. a \in Private /\ x \in DOMAIN onWire'
    BY <1>3, AddressesAre
  <2> QED BY <1>11, <2>1, <2>2
<1>14. ASSUME NEW a \in Talkers'
       PROVE  a \in Talkers \/ \E i \in 1 .. n : a \in Addresses(Line(frames[i]).notes)
  <2>1. PICK x \in DOMAIN onWire' : a \in Private /\ x[1] = "flows" /\ a \in {x[2][1], x[2][2]}
    BY <1>11
  <2>2. CASE x \in DOMAIN onWire
    BY <1>11, <2>1, <2>2
  <2>3. ASSUME NEW i \in 1 .. n, x \in Line(frames[i]).notes
        PROVE  a \in Addresses(Line(frames[i]).notes)
    BY <2>1, <2>3, AddressesAre
  <2> QED BY <1>3, <2>2, <2>3
<1> QED BY <1>9, <1>10, <1>12, <1>13, <1>14 DEF Often, OnLines

\* A step that has read a chunk.
ChunkRead(n, frames, last, readings) ==
  /\ LastOK(n, frames, last) /\ Chunk(n, frames, last, readings)
  /\ \A t \in Tables : tables'[t] = Bounded(t, EnterEach(tables, readings)[t])
  /\ seen' = seen \union UNION {Addresses(readings[i].notes) : i \in DOMAIN readings}
  /\ rate' = Rated(Packets(readings))
  /\ unread' = last[2]
  /\ onWire' = Heard([i \in DOMAIN frames |-> Line(frames[i])])
  /\ wire' = [wire EXCEPT ![second] = @ + n]
  /\ torn \subseteq torn' /\ (n > 0 => last = <<Line(frames[n]), Unheard>> \/ frames[n] \in torn')
  /\ torn' = {} => torn = {} /\ (n > 0 => last = <<Line(frames[n]), Unheard>>)
  /\ NoRequest(torn') =>
       /\ NoRequest(torn)
       /\ n > 0 => (last = <<Line(frames[n]), Unheard>> \/ frames[n].kind # "request")
  /\ lost' = {} => lost = {} /\ \A t \in Tables : tables'[t] = EnterEach(tables, readings)[t]
  /\ "crowded" \notin lost' =>
       /\ "crowded" \notin lost
       /\ \A t \in Tables : ~(Len(EnterEach(tables, readings)[t]) - Len(tables[t]) > TableBatch)
  /\ second' = second

\* What tcpdump says is read as a chunk.
LEMMA SaidIsRead ==
  ASSUME TcpdumpSays
  PROVE  \E n \in Nat : \E frames \in [1 .. n -> Frames] : \E last, readings :
           ChunkRead(n, frames, last, readings)
<1>1. PICK frames \in UNION {[1 .. n -> Frames] : n \in 0 .. ChunkLines} :
        \E last \in IF frames = << >> THEN {<<Unheard, Unheard>>}
                    ELSE {<<Line(Last(frames)), Unheard>>} \union Halves(Last(frames)) :
          ReadChunk(frames, last)
  BY DEF TcpdumpSays
<1>a. PICK n \in 0 .. ChunkLines : frames \in [1 .. n -> Frames]
  OBVIOUS
<1>b. PICK last \in IF frames = << >> THEN {<<Unheard, Unheard>>}
                    ELSE {<<Line(Last(frames)), Unheard>>} \union Halves(Last(frames)) :
        ReadChunk(frames, last)
  BY <1>1
<1>2. n \in Nat
  BY TrafficAssumption
<1>3. LastOK(n, frames, last)
  BY <1>a, <1>2, LastIs
<1>4. Len(frames) = n /\ DOMAIN frames = 1 .. n
  BY <1>a, <1>2
<1> DEFINE whole == [i \in DOMAIN frames |-> Line(frames[i])]
           rest == [i \in DOMAIN frames |-> IF i = Len(frames) THEN last[1] ELSE whole[i]]
           readings == <<unread>> \o rest
           full == EnterEach(tables, readings)
           kept == [t \in Tables |-> Bounded(t, full[t])]
<1>5. /\ tables' = kept
      /\ seen' = seen \union UNION {Addresses(readings[i].notes) : i \in DOMAIN readings}
      /\ rate' = Rated(Sum([i \in DOMAIN readings |-> readings[i].n]))
      /\ unread' = last[2]
      /\ onWire' = Heard(whole)
      /\ wire' = [wire EXCEPT ![second] = @ + Len(frames)]
      /\ torn' = torn \union {frames[i] : i \in {j \in DOMAIN frames :
                                j = Len(frames) /\ last # <<whole[j], Unheard>>}}
      /\ lost' = lost \union {"spilled" : t \in {u \in Tables : kept[u] # full[u]}}
                     \union {"crowded" : t \in {u \in Tables :
                                Len(full[u]) - Len(tables[u]) > TableBatch}}
      /\ second' = second
  BY <1>b DEF ReadChunk
<1>6. Chunk(n, frames, last, readings)
  <2>1. DOMAIN rest = 1 .. n /\ \A i \in 1 .. n : rest[i] = IF i = n THEN last[1] ELSE Line(frames[i])
    BY <1>4
  <2>2. rest \in Seq({rest[i] : i \in 1 .. n}) /\ Len(rest) = n
    <3>1. rest = [i \in 1 .. n |-> rest[i]]
      BY <1>4
    <3> HIDE DEF rest
    <3> QED BY <1>2, <2>1, <3>1
  <2> HIDE DEF rest
  <2>3. /\ readings \in Seq({unread} \union {rest[i] : i \in 1 .. n})
        /\ Len(readings) = n + 1 /\ DOMAIN readings = 1 .. n + 1
        /\ readings[1] = unread /\ \A i \in 1 .. n : readings[i + 1] = rest[i]
    <3>1. PICK S : S = {unread} \union {rest[i] : i \in 1 .. n}
      OBVIOUS
    <3>2. <<unread>> \in Seq(S) /\ rest \in Seq(S) /\ Len(<<unread>>) = 1
      BY <2>2, <3>1
    <3>3. readings \in Seq(S) /\ Len(readings) = n + 1
      BY <1>2, <2>2, <3>2
    <3>4. DOMAIN readings = 1 .. n + 1
      BY <3>3
    <3>5. readings[1] = unread /\ \A i \in 1 .. n : readings[i + 1] = rest[i]
      BY <1>2, <2>2, <3>2
    <3> QED BY <3>1, <3>3, <3>4, <3>5
  <2> HIDE DEF readings
  <2> QED BY <2>1, <2>3 DEF Chunk
<1> HIDE DEF rest, readings, full
<1>z. torn \subseteq torn' /\ (n > 0 => last = <<Line(frames[n]), Unheard>> \/ frames[n] \in torn')
  <2>1. torn \subseteq torn'
    BY <1>5
  <2>2. ASSUME n > 0, last # <<Line(frames[n]), Unheard>> PROVE frames[n] \in torn'
    <3>1. n \in DOMAIN frames /\ whole[n] = Line(frames[n])
      BY <1>2, <1>4, <2>2
    <3> QED BY <1>4, <1>5, <2>2, <3>1
  <2> QED BY <2>1, <2>2
<1>7. torn' = {} => torn = {} /\ (n > 0 => last = <<Line(frames[n]), Unheard>>)
  BY <1>z
<1>8. NoRequest(torn') =>
        /\ NoRequest(torn)
        /\ n > 0 => (last = <<Line(frames[n]), Unheard>> \/ frames[n].kind # "request")
  BY <1>z DEF NoRequest
<1>9. lost' = {} => lost = {} /\ \A t \in Tables : tables'[t] = full[t]
  <2>1. ASSUME NEW t \in Tables, kept[t] # full[t] PROVE "spilled" \in lost'
    BY <1>5, <2>1
  <2>2. lost \subseteq lost'
    BY <1>5
  <2> QED BY <1>5, <2>1, <2>2
<1>10. "crowded" \notin lost' =>
         /\ "crowded" \notin lost
         /\ \A t \in Tables : ~(Len(full[t]) - Len(tables[t]) > TableBatch)
  <2>1. ASSUME NEW t \in Tables, Len(full[t]) - Len(tables[t]) > TableBatch
        PROVE  "crowded" \in lost'
    BY <1>5, <2>1
  <2>2. lost \subseteq lost'
    BY <1>5
  <2> QED BY <2>1, <2>2
<1>11. \A t \in Tables : tables'[t] = Bounded(t, full[t])
  BY <1>5
<1>12. ChunkRead(n, frames, last, readings)
  BY <1>3, <1>4, <1>5, <1>6, <1>z, <1>7, <1>8, <1>9, <1>10, <1>11 DEF ChunkRead, Packets, full
<1> QED BY <1>a, <1>2, <1>12

\* A second's packets are added to its own, and only those of the present one.
LEMMA RateAfter ==
  ASSUME TrafficInv, NEW n \in Nat, NEW frames \in [1 .. n -> Frames], NEW last, NEW readings,
         ChunkRead(n, frames, last, readings)
  PROVE  RateInv'
<1>0. /\ RateInv /\ RateOK /\ UnreadInv
      /\ RateKeep \in Nat /\ MaxSecond \in Nat /\ second \in 0 .. MaxSecond
      /\ DOMAIN rate \subseteq 0 .. second /\ \A s \in DOMAIN rate : rate[s] \in Nat
      /\ wire \in [0 .. MaxSecond -> Nat]
  BY TrafficAssumption DEF TrafficInv, RateInv, RateOK
<1>1. PICK delta : delta = Packets(readings)
  OBVIOUS
<1>2. delta \in Nat /\ (torn' = {} => delta = n)
  <2>1. LastOK(n, frames, last) /\ Chunk(n, frames, last, readings)
    BY DEF ChunkRead
  <2>2. delta \in Nat /\ (unread = Unheard /\ (n > 0 => last[1] = Line(frames[n])) => delta = n)
    BY <1>0, <1>1, <2>1, DeltaIs
  <2>3. torn' = {} => unread = Unheard /\ (n > 0 => last[1] = Line(frames[n]))
    BY <1>0 DEF ChunkRead, UnreadInv
  <2> QED BY <2>2, <2>3
<1>3. rate' = Rated(delta) /\ second' = second /\ wire' = [wire EXCEPT ![second] = @ + n]
      /\ (torn' = {} => torn = {})
  BY <1>1 DEF ChunkRead
<1> DEFINE before == IF second \in DOMAIN rate THEN rate[second] ELSE 0
           more == Put(rate, second, before + delta)
           some == {s \in DOMAIN more : s + RateKeep >= second}
<1>4. before \in Nat
  BY <1>0
<1>5. /\ DOMAIN more = DOMAIN rate \union {second}
      /\ more[second] = before + delta
      /\ \A s \in DOMAIN rate : s # second => more[s] = rate[s]
  BY DEF Put
<1>6. \/ delta = 0 /\ rate' = rate
      \/ rate' = more
      \/ rate' = [s \in some |-> more[s]]
  BY <1>3 DEF Rated
<1> HIDE DEF before, more
<1>7. /\ \A s \in DOMAIN rate' : s \in DOMAIN rate \/ s = second
      /\ \A s \in DOMAIN rate' : s # second => rate'[s] = rate[s]
      /\ \A s \in DOMAIN rate : s # second /\ s + RateKeep >= second => s \in DOMAIN rate'
      /\ second \in DOMAIN rate' => rate'[second] = before + delta
      /\ second \notin DOMAIN rate' => before = 0 /\ delta = 0
  <2>1. second + RateKeep >= second
    BY <1>0
  <2>2. CASE delta = 0 /\ rate' = rate
    <3>1. second \in DOMAIN rate => before = rate[second]
      BY DEF before
    <3>2. second \notin DOMAIN rate => before = 0
      BY DEF before
    <3> QED BY <1>4, <2>2, <3>1, <3>2
  <2>3. CASE rate' = more
    BY <1>5, <2>3
  <2>4. CASE rate' = [s \in some |-> more[s]]
    BY <1>5, <2>1, <2>4
  <2> QED BY <1>6, <2>2, <2>3, <2>4
<1>8. RateOK'
  <2>1. ASSUME NEW s \in DOMAIN rate' PROVE s \in 0 .. second /\ rate'[s] \in Nat
    <3>1. before + delta \in Nat /\ second \in 0 .. second
      BY <1>0, <1>2, <1>4
    <3> QED BY <1>0, <1>7, <3>1
  <2>2. second' \in Nat
    BY <1>0, <1>3
  <2> QED BY <1>3, <2>1, <2>2 DEF RateOK
<1>9. /\ wire' \in [0 .. MaxSecond -> Nat] /\ wire'[second] = wire[second] + n
      /\ \A s \in 0 .. MaxSecond : s # second => wire'[s] = wire[s]
  BY <1>0, <1>3
<1>10. \A s \in 0 .. MaxSecond : s > second => wire'[s] = 0
  BY <1>0, <1>9 DEF RateInv
<1>11. ASSUME torn' = {}, NEW s \in 0 .. MaxSecond, s + RateKeep >= second
       PROVE  wire'[s] = IF s \in DOMAIN rate' THEN rate'[s] ELSE 0
  <2>1. wire[s] = IF s \in DOMAIN rate THEN rate[s] ELSE 0
    BY <1>0, <1>3, <1>11 DEF RateInv
  <2>2. CASE s # second
    BY <1>7, <1>9, <1>11, <2>1, <2>2
  <2>3. CASE s = second
    <3>1. wire[second] = before
      BY <2>1, <2>3 DEF before
    <3>2. wire'[second] = before + delta
      BY <1>2, <1>9, <1>11, <3>1
    <3> QED BY <1>7, <2>3, <3>2
  <2> QED BY <2>2, <2>3
<1> QED BY <1>0, <1>3, <1>8, <1>9, <1>10, <1>11 DEF RateInv

\* The rows stay rows, and few.
LEMMA TablesAfter ==
  ASSUME TrafficInv, NEW n \in Nat, NEW frames \in [1 .. n -> Frames], NEW last, NEW readings,
         ChunkRead(n, frames, last, readings), NEW t \in Tables
  PROVE  /\ IsTable(tables'[t])
         /\ "crowded" \notin lost' /\ t # "dhcp" => Len(tables'[t]) <= TableCap
         /\ \A k, v : CountOf(tables'[t], k, v)
              <= CountOf(tables[t], k, v)
                   + TimesRead(readings, n + 1, <<t, k, v>>)
         /\ lost' = {} => \A k, v : CountOf(tables'[t], k, v)
              = CountOf(tables[t], k, v)
                  + TimesRead(readings, n + 1, <<t, k, v>>)
<1>0. /\ UnreadInv /\ TablesInv
      /\ LastOK(n, frames, last) /\ Chunk(n, frames, last, readings)
  BY DEF TrafficInv, ChunkRead
<1>1. Len(readings) = n + 1
  BY <1>0 DEF Chunk
<1>2. \A i \in 1 .. n + 1 : readings[i] \in Readings
  BY <1>0, ChunkReads
<1>3. \A u \in Tables : IsTable(tables[u])
  BY <1>0 DEF TablesInv
<1>4. PICK full : full = EnterEach(tables, readings)[t]
  OBVIOUS
<1>5. /\ IsTable(full)
      /\ \A k, v : CountOf(full, k, v)
           = CountOf(tables[t], k, v)
               + TimesRead(readings, n + 1, <<t, k, v>>)
  <2>1. Len(readings) \in Nat /\ \A i \in 1 .. Len(readings) : readings[i] \in Readings
    BY <1>1, <1>2
  <2>2. /\ IsTable(EnterEach(tables, readings)[t])
        /\ \A k, v : CountOf(EnterEach(tables, readings)[t], k, v)
             = CountOf(tables[t], k, v)
                 + Cardinality({i \in 1 .. Len(readings) : <<t, k, v>> \in readings[i].notes})
    BY <1>3, <2>1, EachEntered
  <2> QED BY <1>1, <1>4, <2>2 DEF TimesRead
<1>6. /\ tables'[t] = Bounded(t, full)
      /\ lost' = {} => tables'[t] = full
      /\ "crowded" \notin lost' => "crowded" \notin lost /\ ~(Len(full) - Len(tables[t]) > TableBatch)
  BY <1>4 DEF ChunkRead
<1>7. /\ IsTable(Bounded(t, full))
      /\ \A k, v : CountOf(Bounded(t, full), k, v) <= CountOf(full, k, v)
      /\ t # "dhcp" /\ Len(full) <= TableCap + TableBatch => Len(Bounded(t, full)) <= TableCap
  BY <1>5, BoundedCounts
<1>8. "crowded" \notin lost' /\ t # "dhcp" => Len(tables'[t]) <= TableCap
  <2> SUFFICES ASSUME "crowded" \notin lost', t # "dhcp" PROVE Len(tables'[t]) <= TableCap
    OBVIOUS
  <2>1. Len(tables[t]) <= TableCap
    BY <1>0, <1>6 DEF TablesInv
  <2>2. Len(tables[t]) \in Nat /\ Len(full) \in Nat /\ TableCap \in Nat /\ TableBatch \in Nat
    BY <1>3, <1>5, TrafficAssumption DEF IsTable
  <2>3. Len(full) <= TableCap + TableBatch
    BY <1>6, <2>1, <2>2
  <2> QED BY <1>6, <1>7, <2>3
<1>9. ASSUME NEW k, NEW v
      PROVE  CountOf(tables'[t], k, v)
               <= CountOf(tables[t], k, v)
                    + TimesRead(readings, n + 1, <<t, k, v>>)
  BY <1>5, <1>6, <1>7
<1> QED BY <1>5, <1>6, <1>7, <1>8, <1>9

\* The counts of a table are those on the wire, or fewer.
LEMMA CountsAfter ==
  ASSUME TrafficInv, NEW n \in Nat, NEW frames \in [1 .. n -> Frames], NEW last, NEW readings,
         ChunkRead(n, frames, last, readings)
  PROVE  CountsInv'
<1>0. /\ UnreadInv /\ TablesInv /\ CountsInv /\ WireInv
      /\ LastOK(n, frames, last) /\ Chunk(n, frames, last, readings)
  BY DEF TrafficInv, ChunkRead
<1>1. ASSUME NEW x
      PROVE  OnWire(x)' = OnWire(x) + OnLines(frames, n, x)
  BY <1>0, HeardIs DEF ChunkRead
<1>2. ASSUME NEW x PROVE OnWire(x) \in Nat
  BY <1>0 DEF WireInv, OnWire
<1>3. torn' = {} => /\ torn = {} /\ \A x : x \notin unread.notes
                    /\ n > 0 => last[1] = Line(frames[n])
  <2>1. Unheard.notes = {}
    BY DEF Unheard
  <2> QED BY <1>0, <2>1 DEF ChunkRead, UnreadInv
<1>4. ASSUME NEW t \in Tables, Untouched(t)', NEW k, NEW v
      PROVE  /\ Untouched(t)
             /\ <<t, k, v>> \notin unread.notes
             /\ n > 0 => (<<t, k, v>> \in last[1].notes => <<t, k, v>> \in Line(frames[n]).notes)
  <2>1. CASE torn' = {}
    BY <1>3, <2>1 DEF Untouched
  <2>2. CASE t = "bindings" /\ NoRequest(torn')
    <3>1. NoRequest(torn)
      BY <2>2 DEF ChunkRead
    <3>2. <<t, k, v>> \notin unread.notes
      BY <1>0, <2>2 DEF UnreadInv
    <3>3. ASSUME n > 0, <<t, k, v>> \in last[1].notes PROVE <<t, k, v>> \in Line(frames[n]).notes
      <4>1. last = <<Line(frames[n]), Unheard>> \/ frames[n].kind # "request"
        BY <2>2, <3>3 DEF ChunkRead
      <4>2. CASE last = <<Line(frames[n]), Unheard>>
        BY <3>3, <4>2
      <4>3. CASE frames[n].kind # "request" /\ last # <<Line(frames[n]), Unheard>>
        <5>1. \A x \in last[1].notes : x[1] = "bindings" => x \in Line(frames[n]).notes
          BY <1>0, <3>3, <4>3 DEF LastOK
        <5> QED BY <2>2, <3>3, <5>1
      <4> QED BY <4>1, <4>2, <4>3
    <3> QED BY <2>2, <3>1, <3>2, <3>3 DEF Untouched
  <2> QED BY <1>4, <2>1, <2>2 DEF Untouched
<1>5. ASSUME NEW t \in Tables, Untouched(t)', NEW k, NEW v
      PROVE  CountOf(tables'[t], k, v) <= OnWire(<<t, k, v>>)'
  <2>1. PICK x : x = <<t, k, v>>
    OBVIOUS
  <2>2. PICK a : a = TimesRead(readings, n + 1, x)
    OBVIOUS
  <2>3. PICK b : b = OnLines(frames, n, x)
    OBVIOUS
  <2>4. a \in Nat /\ b \in Nat /\ a <= b
    <3>1. x \notin unread.notes /\ (n > 0 => (x \in last[1].notes => x \in Line(frames[n]).notes))
      BY <1>4, <1>5, <2>1
    <3> QED BY <1>0, <2>2, <2>3, <3>1, ChunkTimes
  <2>5. CountOf(tables'[t], k, v) <= CountOf(tables[t], k, v) + a
    BY <2>1, <2>2, TablesAfter
  <2>6. CountOf(tables[t], k, v) <= OnWire(x)
    BY <1>0, <1>4, <1>5, <2>1 DEF CountsInv
  <2>7. OnWire(x)' = OnWire(x) + b /\ OnWire(x) \in Nat
    BY <1>1, <1>2, <2>3
  <2>8. CountOf(tables[t], k, v) \in Nat /\ CountOf(tables'[t], k, v) \in Nat
    <3>1. IsTable(tables[t]) /\ IsTable(tables'[t])
      BY <1>0, TablesAfter DEF TablesInv
    <3> QED BY <3>1, CountType
  <2>9. CountOf(tables'[t], k, v) <= OnWire(x)'
    BY <2>4, <2>5, <2>6, <2>7, <2>8
  <2> QED BY <2>1, <2>9
<1>6. ASSUME torn' = {}, lost' = {}, NEW t \in Tables, NEW k, NEW v
      PROVE  CountOf(tables'[t], k, v) = OnWire(<<t, k, v>>)'
  <2>1. PICK x : x = <<t, k, v>>
    OBVIOUS
  <2>2. PICK a : a = TimesRead(readings, n + 1, x)
    OBVIOUS
  <2>3. PICK b : b = OnLines(frames, n, x)
    OBVIOUS
  <2>4. a = b
    <3>1. x \notin unread.notes /\ (n > 0 => last[1] = Line(frames[n]))
      BY <1>3, <1>6
    <3> QED BY <1>0, <2>2, <2>3, <3>1, ChunkTimes
  <2>5. CountOf(tables'[t], k, v) = CountOf(tables[t], k, v) + a
    BY <1>6, <2>1, <2>2, TablesAfter
  <2>6. CountOf(tables[t], k, v) = OnWire(x)
    <3>1. torn = {} /\ lost = {}
      BY <1>3, <1>6 DEF ChunkRead
    <3> QED BY <1>0, <2>1, <3>1 DEF CountsInv
  <2>7. OnWire(x)' = OnWire(x) + b
    BY <1>1, <2>3
  <2> QED BY <2>1, <2>4, <2>5, <2>6, <2>7
<1>7. \A t \in Tables : Untouched(t)' =>
        \A k, v : CountOf(tables'[t], k, v) <= OnWire(<<t, k, v>>)'
  BY <1>5
<1>8. torn' = {} /\ lost' = {} =>
        \A t \in Tables : \A k, v : CountOf(tables'[t], k, v) = OnWire(<<t, k, v>>)'
  BY <1>6
<1> QED BY <1>7, <1>8 DEF CountsInv

\* Those who are seen to talk do.
LEMMA SeenAfter ==
  ASSUME TrafficInv, NEW n \in Nat, NEW frames \in [1 .. n -> Frames], NEW last, NEW readings,
         ChunkRead(n, frames, last, readings)
  PROVE  SeenInv' /\ UnreadInv'
<1>0. /\ UnreadInv /\ WireInv /\ SeenInv
      /\ LastOK(n, frames, last) /\ Chunk(n, frames, last, readings)
  BY DEF TrafficInv, ChunkRead
<1>1. /\ Talkers \subseteq Talkers'
      /\ \A i \in 1 .. n : Addresses(Line(frames[i]).notes) \subseteq Talkers'
      /\ \A a \in Talkers' : a \in Talkers \/ \E i \in 1 .. n : a \in Addresses(Line(frames[i]).notes)
  BY <1>0, HeardIs DEF ChunkRead
<1>a. /\ Invented \subseteq Invented'
      /\ n > 0 => last = <<Line(frames[n]), Unheard>> \/ Invents(frames[n]) \subseteq Invented'
  <2>1. torn \subseteq torn' /\ (n > 0 => last = <<Line(frames[n]), Unheard>> \/ frames[n] \in torn')
    BY DEF ChunkRead
  <2>2. Invented \subseteq Invented'
    BY <2>1 DEF Invented
  <2>3. ASSUME n > 0, frames[n] \in torn' PROVE Invents(frames[n]) \subseteq Invented'
    BY <2>3 DEF Invented, Invents
  <2> QED BY <2>1, <2>2, <2>3
<1>2. \A a : a \in seen' <=> a \in seen \/ \E i \in 1 .. n + 1 : a \in Addresses(readings[i].notes)
  <2>1. DOMAIN readings = 1 .. n + 1
    BY <1>0 DEF Chunk
  <2> QED BY <2>1 DEF ChunkRead
<1>3. ASSUME NEW i \in 1 .. n + 1, NEW a \in Addresses(readings[i].notes)
      PROVE  a \in Talkers' \/ a \in Invented'
  <2>1. CASE i = 1
    <3>1. a \in Talkers \/ a \in Invented
      BY <1>0, <1>3, <2>1 DEF UnreadInv, Chunk
    <3> QED BY <1>1, <1>a, <3>1
  <2>2. ASSUME NEW j \in 1 .. n, i = j + 1 PROVE a \in Talkers'
    <3>1. readings[i] = IF j = n THEN last[1] ELSE Line(frames[j])
      BY <1>0, <2>2 DEF Chunk
    <3>2. j = n => Addresses(last[1].notes) \subseteq Addresses(Line(frames[n]).notes)
      BY <1>0 DEF LastOK
    <3>3. a \in Addresses(Line(frames[j]).notes)
      BY <1>3, <3>1, <3>2
    <3> QED BY <1>1, <3>3
  <2>3. i = 1 \/ \E j \in 1 .. n : i = j + 1
    <3>1. i # 1 => i - 1 \in 1 .. n /\ i = (i - 1) + 1
      OBVIOUS
    <3> QED BY <3>1
  <2> QED BY <2>1, <2>2, <2>3
<1>4. /\ seen' \subseteq Talkers' \union Invented'
      /\ torn' = {} => seen' \subseteq Talkers'
  <2>1. seen' \subseteq Talkers' \union Invented'
    BY <1>0, <1>1, <1>a, <1>2, <1>3 DEF SeenInv
  <2>2. torn' = {} => Invented' = {}
    BY DEF Invented
  <2> QED BY <2>1, <2>2
<1>5. ASSUME torn' = {}, NEW a \in Talkers' PROVE a \in seen'
  <2>1. torn = {} /\ (n > 0 => last[1] = Line(frames[n]))
    BY <1>5 DEF ChunkRead
  <2>2. CASE a \in Talkers
    BY <1>0, <1>2, <2>1, <2>2 DEF SeenInv
  <2>3. ASSUME NEW i \in 1 .. n, a \in Addresses(Line(frames[i]).notes) PROVE a \in seen'
    <3>1. readings[i + 1] = Line(frames[i]) /\ i + 1 \in 1 .. n + 1
      BY <1>0, <2>1 DEF Chunk
    <3> QED BY <1>2, <2>3, <3>1
  <2> QED BY <1>1, <2>2, <2>3
<1>6. SeenInv'
  <2>1. torn' = {} => seen' = Talkers'
    BY <1>4, <1>5
  <2> QED BY <1>4, <2>1 DEF SeenInv
<1>7. unread' \in Readings /\ \A x \in unread'.notes : x[1] # "bindings"
  BY <1>0 DEF ChunkRead, LastOK
<1>8. Addresses(unread'.notes) \subseteq Talkers' \union Invented'
  <2>1. CASE n = 0
    <3>1. unread' = Unheard
      BY <1>0, <2>1 DEF ChunkRead, LastOK
    <3> QED BY <3>1, NothingReads
  <2>2. CASE n > 0
    <3>1. unread' = last[2] /\ n \in 1 .. n
      BY <1>0, <2>2 DEF ChunkRead
    <3>2. CASE last = <<Line(frames[n]), Unheard>>
      <4>1. unread' = Unheard
        BY <3>1, <3>2
      <4> QED BY <4>1, NothingReads
    <3>3. CASE last # <<Line(frames[n]), Unheard>>
      <4>1. Addresses(unread'.notes) \subseteq Addresses(Line(frames[n]).notes) \union Invents(frames[n])
        BY <1>0, <2>2, <3>1, <3>3 DEF LastOK
      <4> QED BY <1>1, <1>a, <2>2, <3>1, <3>3, <4>1
    <3> QED BY <3>2, <3>3
  <2> QED BY <2>1, <2>2
<1>9. torn' = {} => unread' = Unheard
  <2>1. n = 0 => unread' = Unheard
    BY <1>0 DEF ChunkRead, LastOK
  <2>2. torn' = {} /\ n > 0 => unread' = Unheard
    BY DEF ChunkRead
  <2> QED BY <2>1, <2>2
<1>10. UnreadInv'
  <2>1. Addresses(unread.notes)' = Addresses(unread'.notes)
    BY DEF Addresses
  <2> QED BY <1>7, <1>8, <1>9, <2>1 DEF UnreadInv
<1> QED BY <1>6, <1>10

\* The invariant of the traffic holds at first,
LEMMA TrafficBegins == TrafficInit => TrafficInv
<1> SUFFICES ASSUME TrafficInit PROVE TrafficInv
  OBVIOUS
<1>0. /\ tables = [t \in Tables |-> << >>] /\ seen = {} /\ onWire = << >>
      /\ rate = << >> /\ second = 0 /\ unread = Unheard
      /\ wire = [s \in 0 .. MaxSecond |-> 0] /\ torn = {} /\ lost = {}
      /\ MaxSecond \in Nat /\ TableCap \in Nat
  BY TrafficAssumption DEF TrafficInit
<1>1. DOMAIN rate = {} /\ DOMAIN onWire = {}
  BY <1>0
<1>2. RateInv
  BY <1>0, <1>1 DEF RateInv, RateOK
<1>3. \A t \in Tables : tables[t] = << >>
  BY <1>0
<1>4. IsTable(<< >>)
  BY DEF IsTable
<1>5. TablesInv
  <2>1. Len(<< >>) = 0 /\ 0 <= TableCap
    BY <1>0
  <2> QED BY <1>3, <1>4, <2>1 DEF TablesInv
<1>6. WireInv
  BY <1>1 DEF WireInv
<1>7. Addresses(unread.notes) = {} /\ unread \in Readings /\ unread.notes = {}
  <2>1. Unheard \in Readings /\ Unheard.notes = {}
    BY DEF Readings, Unheard
  <2> QED BY <1>0, <2>1, NothingReads
<1>8. UnreadInv
  BY <1>0, <1>7 DEF UnreadInv
<1>9. CountsInv
  <2>1. \A k, v : CountOf(<< >>, k, v) = 0
    BY CountNone
  <2>2. \A x : OnWire(x) = 0
    BY <1>1 DEF OnWire
  <2> QED BY <1>3, <2>1, <2>2 DEF CountsInv
<1>10. SeenInv
  <2>1. \A a : a \notin Talkers
    BY <1>1, TalkersAre
  <2> QED BY <1>0, <2>1 DEF SeenInv
<1> QED BY <1>2, <1>5, <1>6, <1>8, <1>9, <1>10 DEF TrafficInv

\* and every step keeps it.
LEMMA TrafficStays ==
  ASSUME TrafficInv, TrafficNext \/ UNCHANGED trafficVars
  PROVE  TrafficInv'
<1>1. CASE TcpdumpSays
  <2>0. PICK n \in Nat : \E frames \in [1 .. n -> Frames] : \E last, readings :
          ChunkRead(n, frames, last, readings)
    BY <1>1, SaidIsRead
  <2>a. PICK frames \in [1 .. n -> Frames] : \E last, readings : ChunkRead(n, frames, last, readings)
    BY <2>0
  <2>1. PICK last, readings : ChunkRead(n, frames, last, readings)
    BY <2>a
  <2>2. RateInv'
    BY <2>1, RateAfter
  <2>3. TablesInv'
    <3>1. \A t \in Tables : IsTable(tables'[t])
      BY <2>1, TablesAfter
    <3>2. "crowded" \notin lost' => \A t \in Tables \ {"dhcp"} : Len(tables'[t]) <= TableCap
      BY <2>1, TablesAfter
    <3> QED BY <3>1, <3>2 DEF TablesInv
  <2>4. WireInv'
    BY <2>1, HeardIs DEF TrafficInv, ChunkRead
  <2>5. CountsInv'
    BY <2>1, CountsAfter
  <2>6. SeenInv' /\ UnreadInv'
    BY <2>1, SeenAfter
  <2> QED BY <2>2, <2>3, <2>4, <2>5, <2>6 DEF TrafficInv
<1>2. CASE ASecondPasses
  <2>0. /\ second < MaxSecond /\ second' = second + 1
        /\ tables' = tables /\ seen' = seen /\ rate' = rate /\ unread' = unread
        /\ onWire' = onWire /\ wire' = wire /\ torn' = torn /\ lost' = lost
    BY <1>2 DEF ASecondPasses
  <2>1. RateInv'
    <3>1. /\ RateInv /\ RateKeep \in Nat /\ MaxSecond \in Nat
      BY TrafficAssumption DEF TrafficInv
    <3>2. RateOK' /\ second' \in 0 .. MaxSecond
      BY <2>0, <3>1 DEF RateInv, RateOK
    <3>3. ASSUME NEW s \in 0 .. MaxSecond, s > second' PROVE wire[s] = 0
      BY <2>0, <3>1, <3>3 DEF RateInv
    <3>4. ASSUME torn = {}, NEW s \in 0 .. MaxSecond, s + RateKeep >= second'
          PROVE  wire[s] = IF s \in DOMAIN rate THEN rate[s] ELSE 0
      BY <2>0, <3>1, <3>4 DEF RateInv
    <3> QED BY <2>0, <3>1, <3>2, <3>3, <3>4 DEF RateInv
  <2>2. (TablesInv /\ WireInv /\ CountsInv /\ SeenInv /\ UnreadInv)'
    BY <2>0 DEF TrafficInv, TablesInv, WireInv, CountsInv, SeenInv, UnreadInv, Untouched, OnWire,
       Talkers, Invented, Addresses
  <2> QED BY <2>1, <2>2 DEF TrafficInv
<1>3. CASE StartedAgain
  <2>0. /\ unread' = Unheard /\ second' = second
        /\ tables' = tables /\ seen' = seen /\ rate' = rate
        /\ onWire' = onWire /\ wire' = wire /\ torn' = torn /\ lost' = lost
    BY <1>3 DEF StartedAgain
  <2>1. UnreadInv'
    <3>1. unread' \in Readings /\ unread'.notes = {} /\ Addresses(unread'.notes) = {}
      BY <2>0, NothingReads DEF Readings, Unheard
    <3> QED BY <2>0, <3>1 DEF UnreadInv, Addresses, Invented
  <2>2. (RateInv /\ TablesInv /\ WireInv /\ CountsInv /\ SeenInv)'
    BY <2>0 DEF TrafficInv, RateInv, RateOK, TablesInv, WireInv, CountsInv, SeenInv, Untouched,
       OnWire, Talkers, Invented
  <2> QED BY <2>1, <2>2 DEF TrafficInv
<1>4. CASE UNCHANGED trafficVars
  <2>0. /\ unread' = unread /\ second' = second
        /\ tables' = tables /\ seen' = seen /\ rate' = rate
        /\ onWire' = onWire /\ wire' = wire /\ torn' = torn /\ lost' = lost
    BY <1>4 DEF trafficVars
  <2> QED BY <2>0 DEF TrafficInv, RateInv, RateOK, TablesInv, WireInv, CountsInv, SeenInv,
         UnreadInv, Untouched, OnWire, Talkers, Invented, Addresses
<1> QED BY <1>1, <1>2, <1>3, <1>4 DEF TrafficNext

\* While no line was cut the tables count what was on the wire, and everything until they
\* give up rows, the packets of the last seconds are exact, and the graph is that of the
\* headline; a cut line invents no host but the private address its public sender's ends
\* with: for any frames, limits and chunks (TrafficKept).
THEOREM TrafficIsCounted == TrafficSpec => []TrafficKept
<1>1. TrafficInv /\ [TrafficNext]_trafficVars => TrafficInv'
  BY TrafficStays
<1> QED BY <1>1, TrafficBegins, TrafficIsKept, PTL DEF TrafficSpec

-----------------------------------------------------------------------------
(* The parts together.                                                     *)

ReadingsInv == CaptureInv /\ TrafficInv /\ PostureInv

\* What the pages are told of the wire and of a scan is so (ReadingsRight): of the parts
\* side by side, for any processes, frames, limits, versions and facts.
THEOREM ReadingsAreRight == MCSpec => []ReadingsRight
<1>1. MCInit => ReadingsInv
  BY CaptureBegins, TrafficBegins, PostureBegins DEF MCInit, ReadingsInv
<1>2. ReadingsInv /\ [MCNext]_vars => ReadingsInv'
  <2> SUFFICES ASSUME ReadingsInv, [MCNext]_vars PROVE ReadingsInv'
    OBVIOUS
  <2>1. [CaptureNext]_captureVars
    BY DEF MCNext, vars, ScannerStep, CaptureStep, TrafficStep, FeedsStep, SocketsStep,
       RegistryStep, DirectoryStep, VulnStep, PostureStep, ForwardStep, BaselineStep, IntelStep
  <2>2. [TrafficNext]_trafficVars
    BY DEF MCNext, vars, ScannerStep, CaptureStep, TrafficStep, FeedsStep, SocketsStep,
       RegistryStep, DirectoryStep, VulnStep, PostureStep, ForwardStep, BaselineStep, IntelStep
  <2>3. [PostureNext]_postureVars
    BY DEF MCNext, vars, ScannerStep, CaptureStep, TrafficStep, FeedsStep, SocketsStep,
       RegistryStep, DirectoryStep, VulnStep, PostureStep, ForwardStep, BaselineStep, IntelStep
  <2>4. CaptureInv'
    BY <2>1, CaptureStays DEF ReadingsInv
  <2>5. TrafficInv'
    BY <2>2, TrafficStays DEF ReadingsInv
  <2>6. PostureInv'
    BY <2>3, PostureStays DEF ReadingsInv
  <2> QED BY <2>4, <2>5, <2>6 DEF ReadingsInv
<1>3. ReadingsInv => ReadingsRight
  <2>1. CaptureInv => CaptureKept
    BY DEF CaptureInv
  <2> QED BY <2>1, TrafficIsKept, PostureIsSound DEF ReadingsInv, ReadingsRight
<1> QED BY <1>1, <1>2, <1>3, PTL DEF MCSpec
=============================================================================

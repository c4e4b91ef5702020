------------------------------ MODULE Scanner ------------------------------
(***************************************************************************)
(* Vulnerability scans: security/scan.ts.  A scan is a child process       *)
(* (nmap).  startScan and cancelScan return at once; what the child did is *)
(* reported later, by its 'close' event, to a callback that reads the      *)
(* module's variables as they are then, not as they were when the child    *)
(* was started.                                                            *)
(***************************************************************************)
EXTENDS FiniteSets

CONSTANTS
  ScanIds,    \* names of scans (randomUUID); one that left no trace is reused
  NoScan

ASSUME ScansAssumption == NoScan \notin ScanIds

VARIABLES
  running,    \* the flag that refuses a second scan
  cancelled,  \* set by cancelScan, cleared by startScan
  shown,      \* lastScan: whose record it is, its state, whose hosts it lists
  child,      \* the nmap process of each scan whose 'close' has not come yet
  killed,     \* children sent SIGKILL
  current,    \* currentProc, by the scan it works for
  schedule,   \* the scheduled scan: switched on, and due
  crossed     \* history: the scan shown was started while a child was left

scanVars == <<running, cancelled, shown, child, killed, current, schedule, crossed>>

Record == [scan : ScanIds \union {NoScan},
           state : {"none", "running", "cancelled", "done"},
           hosts : ScanIds \union {NoScan}]

\* "first": with raw sockets; "retry": the connect scan after that was refused;
\* "failed": the process could not be started, 'error' reported, 'close' to come
ChildStates == {"none", "first", "retry", "failed"}

NoRecord == [scan |-> NoScan, state |-> "none", hosts |-> NoScan]

ScannerInit ==
  /\ running = FALSE
  /\ cancelled = FALSE
  /\ shown = NoRecord
  /\ child = [s \in ScanIds |-> "none"]
  /\ killed = {}
  /\ current = NoScan
  /\ schedule \in [on : BOOLEAN, due : BOOLEAN]
  /\ crossed = FALSE

Unreported == {s \in ScanIds : child[s] # "none"}

-----------------------------------------------------------------------------
StartScan(s) ==
  /\ ~running
  /\ s \notin Unreported /\ s # shown.scan
  /\ running' = TRUE
  /\ cancelled' = FALSE
  /\ shown' = [scan |-> s, state |-> "running", hosts |-> NoScan]
  /\ child' = [child EXCEPT ![s] = "first"]
  /\ current' = s
  /\ crossed' = (Unreported # {})
  /\ UNCHANGED killed

OperatorScan(s) == StartScan(s) /\ UNCHANGED schedule

SchedulerTick(s) ==
  /\ schedule.on /\ schedule.due
  /\ StartScan(s)
  /\ schedule' = [schedule EXCEPT !.due = FALSE]

SetSchedule ==
  /\ \E on \in BOOLEAN : schedule' = [on |-> on, due |-> FALSE]
  /\ UNCHANGED <<running, cancelled, shown, child, killed, current, crossed>>

IntervalElapses ==
  /\ schedule.on
  /\ schedule' = [schedule EXCEPT !.due = TRUE]
  /\ UNCHANGED <<running, cancelled, shown, child, killed, current, crossed>>

CancelScan ==
  /\ cancelled' = TRUE
  /\ killed' = killed \union ({current} \intersect Unreported)
  /\ current' = NoScan
  /\ running' = FALSE
  /\ shown' = IF shown.state = "running" THEN [shown EXCEPT !.state = "cancelled"] ELSE shown
  /\ UNCHANGED <<child, schedule, crossed>>

\* finish, in the closure of scan s: it writes into whichever record is shown.
Finish(s) ==
  /\ running' = FALSE
  /\ shown' = [shown EXCEPT !.state = "done", !.hosts = s]

\* Bugs to be caught: results of a cancelled scan are recorded; the second process
\* is not remembered, so that a cancel misses it.
ReportAlways(s, gone) ==
  /\ Finish(s)
  /\ child' = [child EXCEPT ![s] = gone]
  /\ UNCHANGED current

ReportForgetsRetry(s, gone) ==
  \/ /\ cancelled
     /\ child' = [child EXCEPT ![s] = gone]
     /\ UNCHANGED <<running, shown, current>>
  \/ /\ ~cancelled /\ child[s] = "first" /\ gone = "none"
     /\ child' = [child EXCEPT ![s] = "retry"]
     /\ current' = NoScan
     /\ UNCHANGED <<running, shown>>
  \/ /\ ~cancelled
     /\ Finish(s)
     /\ child' = [child EXCEPT ![s] = gone]
     /\ UNCHANGED current

\* What a child of scan s reports, onDone: the raw-socket scan may have been
\* refused (privErr), and is repeated without.  "gone" is what child[s] is then.
Report(s, gone) ==
  \/ /\ cancelled
     /\ child' = [child EXCEPT ![s] = gone]
     /\ UNCHANGED <<running, shown, current>>
  \/ /\ ~cancelled /\ child[s] = "first" /\ gone = "none"
     /\ child' = [child EXCEPT ![s] = "retry"]
     /\ current' = s
     /\ UNCHANGED <<running, shown>>
  \/ /\ ~cancelled
     /\ Finish(s)
     /\ child' = [child EXCEPT ![s] = gone]
     /\ UNCHANGED current

\* The child ended: by itself, killed, or at its limit of 600 s.
Closed(s) ==
  /\ s \in Unreported
  /\ Report(s, "none")
  /\ killed' = killed \ {s}
  /\ UNCHANGED <<cancelled, schedule, crossed>>

\* nmap cannot be started: 'error' reports first, 'close' reports again.
SpawnFailed(s) ==
  /\ child[s] \in {"first", "retry"} /\ s \notin killed
  /\ Report(s, "failed")
  /\ UNCHANGED <<cancelled, killed, schedule, crossed>>

\* The control plane restarts: nobody hears of the children any more, and the
\* schedule comes from its file.
ScannerRestart ==
  /\ running' = FALSE
  /\ cancelled' = FALSE
  /\ shown' = NoRecord
  /\ child' = [s \in ScanIds |-> "none"]
  /\ killed' = {}
  /\ current' = NoScan
  /\ crossed' = FALSE
  /\ UNCHANGED schedule

ScannerNext ==
  \/ \E s \in ScanIds : OperatorScan(s) \/ SchedulerTick(s) \/ Closed(s) \/ SpawnFailed(s)
  \/ SetSchedule
  \/ IntervalElapses
  \/ CancelScan
  \/ ScannerRestart

ScannerSpec == ScannerInit /\ [][ScannerNext]_scanVars

-----------------------------------------------------------------------------
ScannerTypeOK ==
  /\ running \in BOOLEAN /\ cancelled \in BOOLEAN /\ crossed \in BOOLEAN
  /\ shown \in Record
  /\ child \in [ScanIds -> ChildStates]
  /\ killed \subseteq ScanIds
  /\ current \in ScanIds \union {NoScan}
  /\ schedule \in [on : BOOLEAN, due : BOOLEAN]

\* While the flag refuses other scans, a child of the scan shown is still to
\* report, nobody has killed it and its report will count: nothing else clears
\* the flag, and "a scan is already running" would be for ever.
RunningHasChild ==
  running => /\ shown.state = "running" /\ shown.scan \in Unreported
             /\ shown.scan \notin killed /\ ~cancelled

Alive == {s \in ScanIds : child[s] \in {"first", "retry"}} \ killed

\* As long as each scan is started after the children of the last one have
\* reported: the hosts shown are of the scan shown, the one process alive is
\* the one a cancel would kill, and it is alive only while the scan runs.
InStep ==
  ~crossed => /\ shown.state = "done" => shown.hosts = shown.scan
              /\ Alive \subseteq {current}
              /\ running <=> Alive # {}

\* "killed by the operator - don't fall back or overwrite" (scan.ts:302): a scan
\* shown as cancelled is shown so until another one is started.
CancelledStays ==
  [][shown.state = "cancelled" => shown' = shown \/ shown'.scan # shown.scan]_scanVars

\* A scan ends (if nmap does), also when cancels, refused starts and second
\* attempts come in between.
ScanEnds == running ~> ~running

\* Together: "a scan is already running" is true when it is said, and what the
\* page shows, what a cancel would kill and what runs are one scan.
ScansConsistent == RunningHasChild /\ InStep
=============================================================================

------------------------------- MODULE Gateway -------------------------------
(***************************************************************************)
(* Inline-gateway mode: the control plane (security/gateway.ts), the root  *)
(* helper it runs through sudo (deploy/nexrelm-gateway.sh) and the         *)
(* watchdogs the helper leaves behind.                                     *)
(*                                                                         *)
(* Every run of the helper and every watchdog is a process of its own, and *)
(* a step here is one command of the script: they interleave freely.  The  *)
(* kernel's table and ip_forward, and the files under /run/nexrelm-gw, are *)
(* what they share.  A tick is one heartbeat interval.                     *)
(***************************************************************************)
EXTENDS Integers, FiniteSets

CONSTANTS
  Helpers,     \* runs of the helper that may be in progress at once
  Dog,         \* watchdogs that may be alive at once
  Off,         \* the idle value of a process
  NoFile,      \* a file that does not exist
  Original,    \* ip_forward before the gateway was ever enabled
  StaleAge,    \* ticks after which a heartbeat is stale
  MaxEnables,  \* bound: enables in a behaviour
  Calm,        \* TRUE: enable starts when earlier sessions are wound up
  Aborts       \* TRUE: a command of enable may fail, or its timeout kill it

ASSUME GatewayAssumption ==
  /\ Original \in {0, 1} /\ StaleAge \in Nat \ {0} /\ MaxEnables \in Nat
  /\ Calm \in BOOLEAN /\ Aborts \in BOOLEAN
  /\ NoFile \notin Nat

VARIABLES
  table,      \* whether the nft table nexrelm_gw exists
  forward,    \* net.ipv4.ip_forward
  rundir,     \* whether /run/nexrelm-gw exists
  saved,      \* saved_ip_forward
  alive,      \* age of the heartbeat file
  call,       \* call[h]: what helper run h does, and what it does next
  dog,        \* dog[w]: where watchdog w is
  up,         \* whether the control plane runs
  mode,       \* its idea of the gateway
  heartbeat,  \* whether its heartbeat timer is set
  beaten,     \* whether the timer has fired since the last tick
  enables,    \* enables so far
  broken      \* an enable broke off and nothing has reverted it since

os == <<table, forward, rundir, saved, alive, broken>>
plane == <<up, mode, heartbeat, beaten, enables>>
gatewayVars == <<os, call, dog, plane>>

Command == {"enable", "disable", "heartbeat", "status"}
EnableStep == {"mkdir", "save", "forward", "flush", "load", "touch", "watch"}
RevertStep == {"delete", "restore", "remove"}
HelperRun == [cmd : Command, at : EnableStep \cup RevertStep \cup {"read", "ok", "failed"},
            ours : BOOLEAN, saw : BOOLEAN]

ASSUME IdleAssumption == Off \notin HelperRun \cup RevertStep \cup {"sleep"}

GatewayTypeOK ==
  /\ table \in BOOLEAN /\ forward \in {0, 1} /\ rundir \in BOOLEAN
  /\ saved \in {0, 1, NoFile}
  /\ alive \in 0..(StaleAge + 1) \cup {NoFile}
  /\ call \in [Helpers -> HelperRun \cup {Off}]
  /\ dog \in [Dog -> {"sleep"} \cup RevertStep \cup {Off}]
  /\ up \in BOOLEAN /\ mode \in {"on", "off"} /\ heartbeat \in BOOLEAN
  /\ beaten \in BOOLEAN /\ enables \in 0..MaxEnables
  /\ broken \in BOOLEAN

GatewayInit ==
  /\ table = FALSE /\ forward = Original /\ rundir = FALSE
  /\ saved = NoFile /\ alive = NoFile
  /\ call = [h \in Helpers |-> Off]
  /\ dog = [w \in Dog |-> Off]
  /\ up = TRUE /\ mode = "off" /\ heartbeat = FALSE /\ beaten = FALSE
  /\ enables = 0 /\ broken = FALSE

-----------------------------------------------------------------------------
(* The control plane starts a run of the helper and takes its result.      *)

Busy(cmds) == \E h \in Helpers : call[h] # Off /\ call[h].cmd \in cmds

Run(h, cmd, at) ==
  /\ up /\ call[h] = Off
  /\ call' = [call EXCEPT ![h] = [cmd |-> cmd, at |-> at, ours |-> TRUE, saw |-> FALSE]]

\* No session is being set up or taken down, and no watchdog is about to act.
WoundUp ==
  /\ ~Busy({"enable", "disable"})
  /\ \A w \in Dog : dog[w] \in {Off, "sleep"}
  /\ (\E w \in Dog : dog[w] = "sleep") => alive \in 0..StaleAge

Enable(h) ==
  /\ Run(h, "enable", "mkdir")
  /\ enables < MaxEnables /\ enables' = enables + 1
  /\ Calm => WoundUp
  /\ UNCHANGED <<os, dog, up, mode, heartbeat, beaten>>

\* The timer goes first, then the helper is called.
Disable(h) ==
  /\ Run(h, "disable", "delete")
  /\ Calm => ~Busy({"enable", "disable"})
  /\ heartbeat' = FALSE
  /\ UNCHANGED <<os, dog, up, mode, beaten, enables>>

\* sudo refuses or times out before the helper does anything.
DisableUnheard ==
  /\ up /\ heartbeat /\ (Calm => ~Busy({"enable", "disable"}))
  /\ heartbeat' = FALSE /\ mode' = "off"
  /\ UNCHANGED <<os, call, dog, up, beaten, enables>>

Beat(h) ==
  /\ heartbeat /\ ~beaten
  /\ Run(h, "heartbeat", "touch")
  /\ beaten' = TRUE
  /\ UNCHANGED <<os, dog, up, mode, heartbeat, enables>>

Status(h) ==
  /\ Run(h, "status", "read")
  /\ UNCHANGED <<os, dog, plane>>

\* The awaited run is over.  A run started before a crash has no one waiting.
Result(h) ==
  /\ call[h] # Off /\ call[h].at \in {"ok", "failed"}
  /\ call' = [call EXCEPT ![h] = Off]
  /\ LET started == call[h].ours /\ call[h].cmd = "enable" /\ call[h].at = "ok"
         stopped == call[h].ours /\ \/ call[h].cmd = "disable"
                                    \/ call[h].cmd = "status" /\ ~call[h].saw
     IN  /\ mode' = IF started THEN "on" ELSE IF stopped THEN "off" ELSE mode
         /\ heartbeat' = (heartbeat \/ started)
         /\ beaten' = (beaten \/ started)
  /\ UNCHANGED <<os, dog, up, enables>>

\* mode, client and timer are in memory only; running helpers live on.
Crash ==
  /\ up /\ up' = FALSE
  /\ mode' = "off" /\ heartbeat' = FALSE /\ beaten' = FALSE
  /\ call' = [h \in Helpers |-> IF call[h] = Off THEN Off ELSE [call[h] EXCEPT !.ours = FALSE]]
  /\ UNCHANGED <<os, dog, enables>>

Restart == ~up /\ up' = TRUE /\ UNCHANGED <<os, call, dog, mode, heartbeat, beaten, enables>>

-----------------------------------------------------------------------------
(* The helper, one command at a time.                                      *)

HelperAt(h, cmd, at) == call[h] # Off /\ call[h].cmd = cmd /\ call[h].at = at
Goto(h, at) == call' = [call EXCEPT ![h].at = at]

MakeDir(h) ==
  /\ HelperAt(h, "enable", "mkdir") /\ Goto(h, "save")
  /\ rundir' = TRUE
  /\ UNCHANGED <<broken, table, forward, saved, alive, dog, plane>>

\* A bug to be caught: every enable saves the current value.
SaveForwardAnew(h) ==
  /\ HelperAt(h, "enable", "save")
  /\ Goto(h, IF rundir THEN "forward" ELSE "failed")
  /\ saved' = IF rundir THEN forward ELSE saved
  /\ UNCHANGED <<broken, table, forward, rundir, alive, dog, plane>>

\* Kept from the session before, if its file is still there.
SaveForward(h) ==
  /\ HelperAt(h, "enable", "save")
  /\ Goto(h, IF rundir THEN "forward" ELSE "failed")
  /\ saved' = IF rundir /\ saved = NoFile THEN forward ELSE saved
  /\ UNCHANGED <<broken, table, forward, rundir, alive, dog, plane>>

SetForward(h) ==
  /\ HelperAt(h, "enable", "forward") /\ Goto(h, "flush")
  /\ forward' = 1
  /\ UNCHANGED <<broken, table, rundir, saved, alive, dog, plane>>

FlushTable(h) ==
  /\ HelperAt(h, "enable", "flush") /\ Goto(h, "load")
  /\ table' = FALSE
  /\ UNCHANGED <<broken, forward, rundir, saved, alive, dog, plane>>

LoadTable(h) ==
  /\ HelperAt(h, "enable", "load") /\ Goto(h, "touch")
  /\ table' = TRUE
  /\ UNCHANGED <<broken, forward, rundir, saved, alive, dog, plane>>

\* A bug to be caught: the heartbeat command leaves the file as old as it is.
TouchOnEnable(h) ==
  /\ \/ HelperAt(h, "enable", "touch") /\ Goto(h, IF rundir THEN "watch" ELSE "failed")
     \/ HelperAt(h, "heartbeat", "touch") /\ Goto(h, IF rundir THEN "ok" ELSE "failed")
  /\ alive' = IF rundir /\ HelperAt(h, "enable", "touch") THEN 0 ELSE alive
  /\ broken' = (broken \/ (HelperAt(h, "enable", "touch") /\ ~rundir))
  /\ UNCHANGED <<table, forward, rundir, saved, dog, plane>>

\* date +%s > alive: fails when the directory is gone, and set -e ends enable.
Touch(h) ==
  /\ \/ HelperAt(h, "enable", "touch") /\ Goto(h, IF rundir THEN "watch" ELSE "failed")
     \/ HelperAt(h, "heartbeat", "touch") /\ Goto(h, IF rundir THEN "ok" ELSE "failed")
  /\ alive' = IF rundir THEN 0 ELSE alive
  /\ broken' = (broken \/ (HelperAt(h, "enable", "touch") /\ ~rundir))
  /\ UNCHANGED <<table, forward, rundir, saved, dog, plane>>

\* A bug to be caught: no watchdog is left behind.
StartNoWatchdog(h) ==
  /\ HelperAt(h, "enable", "watch") /\ Goto(h, "ok")
  /\ broken' = FALSE
  /\ UNCHANGED <<table, forward, rundir, saved, alive, dog, plane>>

StartWatchdog(h) ==
  /\ HelperAt(h, "enable", "watch") /\ Goto(h, "ok")
  /\ \E w \in Dog : dog[w] = Off /\ dog' = [dog EXCEPT ![w] = "sleep"]
  /\ broken' = FALSE
  /\ UNCHANGED <<table, forward, rundir, saved, alive, plane>>

\* set -e after a failed nft, or the 8 s timeout of execFile.
Abort(h) ==
  /\ Aborts /\ call[h] # Off /\ call[h].cmd = "enable"
  /\ call[h].at \in EnableStep \ {"mkdir"}
  /\ Goto(h, "failed")
  /\ broken' = TRUE
  /\ UNCHANGED <<table, forward, rundir, saved, alive, dog, plane>>

ReadStatus(h) ==
  /\ HelperAt(h, "status", "read")
  /\ call' = [call EXCEPT ![h].at = "ok", ![h].saw = table]
  /\ UNCHANGED <<os, dog, plane>>

\* revert, shared by disable and the watchdog.
DeleteTable == table' = FALSE /\ UNCHANGED <<broken, forward, rundir, saved, alive>>
RestoreForward == /\ forward' = IF saved = NoFile THEN forward ELSE saved
                  /\ UNCHANGED <<broken, table, rundir, saved, alive>>
RemoveDir == /\ rundir' = FALSE /\ saved' = NoFile /\ alive' = NoFile
             /\ broken' = FALSE
             /\ UNCHANGED <<table, forward>>

Revert(h) ==
  /\ \/ HelperAt(h, "disable", "delete") /\ DeleteTable /\ Goto(h, "restore")
     \/ HelperAt(h, "disable", "restore") /\ RestoreForward /\ Goto(h, "remove")
     \/ HelperAt(h, "disable", "remove") /\ RemoveDir /\ Goto(h, "ok")
  /\ UNCHANGED <<dog, plane>>

Helper(h) ==
  \/ MakeDir(h) \/ SaveForward(h) \/ SetForward(h) \/ FlushTable(h) \/ LoadTable(h)
  \/ Touch(h) \/ StartWatchdog(h) \/ ReadStatus(h) \/ Revert(h)

-----------------------------------------------------------------------------
(* The watchdog.                                                           *)

Stale == alive \in {NoFile, StaleAge + 1}

Wake(w) ==
  /\ dog[w] = "sleep" /\ Stale
  /\ dog' = [dog EXCEPT ![w] = "delete"]
  /\ UNCHANGED <<os, call, plane>>

DogReverts(w) ==
  /\ \/ dog[w] = "delete" /\ DeleteTable /\ dog' = [dog EXCEPT ![w] = "restore"]
     \/ dog[w] = "restore" /\ RestoreForward /\ dog' = [dog EXCEPT ![w] = "remove"]
     \/ dog[w] = "remove" /\ RemoveDir /\ dog' = [dog EXCEPT ![w] = Off]
  /\ UNCHANGED <<call, plane>>

\* A heartbeat interval passes; the timer, when set, fires in each.  A calm
\* helper is done within one.
GatewayTick ==
  /\ heartbeat => beaten
  /\ Calm => ~Busy({"enable", "disable", "heartbeat"})
  /\ alive' = IF Stale THEN alive ELSE alive + 1
  /\ beaten' = FALSE
  /\ UNCHANGED <<broken, table, forward, rundir, saved, call, dog, up, mode, heartbeat, enables>>

GatewayNext ==
  \/ \E h \in Helpers : \/ Enable(h) \/ Disable(h) \/ Beat(h) \/ Status(h)
                        \/ Result(h) \/ Helper(h) \/ Abort(h)
  \/ DisableUnheard \/ Crash \/ Restart
  \/ \E w \in Dog : Wake(w) \/ DogReverts(w)
  \/ GatewayTick

GatewaySpec == GatewayInit /\ [][GatewayNext]_gatewayVars

\* Processes the system runs make progress, time passes, the timer fires.
GatewayLiveSpec ==
  /\ GatewaySpec
  /\ \A h \in Helpers : WF_gatewayVars(Helper(h) \/ Result(h))
  /\ \A w \in Dog : WF_gatewayVars(Wake(w) \/ DogReverts(w))
  /\ WF_gatewayVars(\E h \in Helpers : Beat(h))
  /\ WF_gatewayVars(GatewayTick)

-----------------------------------------------------------------------------
(* Properties.                                                             *)

Reverted == ~table /\ forward = Original

\* A crash never strands the network (nexrelm-gateway.sh:7): with no helper
\* at work and no watchdog left, all is as before.
NeverStranded ==
  ~Busy({"enable", "disable"}) /\ (\A w \in Dog : dog[w] = Off) => Reverted

\* Wherever enable breaks off, ip_forward can be put back: as long as it is
\* changed, its old value is on file; and that value survives re-enabling,
\* crashes and restarts.
Recoverable == /\ GatewayTypeOK
               /\ saved \in {NoFile, Original}
               /\ forward # Original => saved = Original

\* While the control plane keeps the gateway on, no watchdog takes it down.
WatchdogSparesLive ==
  [][\A w \in Dog : Wake(w) => ~(heartbeat /\ mode = "on" /\ table)]_gatewayVars

\* As long as no enable broke off half way, nothing is left routed with nobody to
\* revert it, and when the control plane says on, the traffic is routed (a second
\* enable that breaks off leaves the mode as it was, gateway.ts:139-140).
RoutingWatched ==
  broken \/ (NeverStranded
             /\ (mode = "on" /\ ~Busy({"enable", "disable"}) => table /\ forward = 1))

\* Once nothing refreshes the heartbeat, everything is reverted in the end,
\* unless an enable broke off.
DeadMan == ~heartbeat ~> (Reverted \/ heartbeat \/ broken)
=============================================================================

---------------------------- MODULE Gateway_proofs ----------------------------
(***************************************************************************)
(* What is proved of the scripts that run with the rights of root.  The    *)
(* inline gateway, for any number of helpers and watchdogs: as long as a   *)
(* session is set up only when earlier ones are wound up (Calm), no crash, *)
(* restart or failing command strands the network, ip_forward can be put   *)
(* back, and no watchdog takes a gateway down that the control plane keeps *)
(* on.  The installer and the admin command, for any directories and any   *)
(* number of scripts: no data is lost and what they promise is kept.       *)
(***************************************************************************)
EXTENDS Gateway, Installation, SequenceTheorems, TLAPS

-----------------------------------------------------------------------------
(* The inductive invariant.                                                *)

Enabling(h) == call[h] # Off /\ call[h].cmd = "enable"
Disabling(h) == call[h] # Off /\ call[h].cmd = "disable"

\* The value before, as long as it is needed.
OnFile == saved \in {NoFile, Original} /\ (forward # Original => saved = Original)

\* One session is set up or taken down at a time.
Alone ==
  \A g, h \in Helpers :
    (Enabling(g) \/ Disabling(g)) /\ (Enabling(h) \/ Disabling(h)) => g = h

\* How far an enable has come; no watchdog takes anything down meanwhile, or will
\* before the next tick.
EnableSoFar ==
  \A h \in Helpers : Enabling(h) =>
    /\ call[h].at \in EnableStep \union {"ok", "failed"}
    /\ \A w \in Dog : dog[w] = Off \/ (dog[w] = "sleep" /\ alive \in 0 .. StaleAge)
    /\ call[h].at \notin {"mkdir", "failed"} => rundir
    /\ call[h].at \in {"forward", "flush", "load", "touch", "watch", "ok"} => saved = Original
    /\ call[h].at \in {"flush", "load", "touch", "watch", "ok"} => forward = 1
    /\ call[h].at \in {"touch", "watch", "ok"} => table
    /\ call[h].at \in {"watch", "ok"} => alive = 0
    /\ call[h].at = "failed" => broken

\* How far a disable and a watchdog have come.
DisableSoFar ==
  \A h \in Helpers : Disabling(h) =>
    /\ ~heartbeat /\ (~call[h].ours => mode = "off")
    /\ call[h].at \in RevertStep \union {"ok"}
    /\ call[h].at # "delete" => ~table
    /\ call[h].at \in {"remove", "ok"} => forward = Original

DogSoFar ==
  \A w \in Dog : /\ dog[w] \in {"restore", "remove"} => ~table
                 /\ dog[w] = "remove" => forward = Original

\* As long as the timer is set the heartbeat is fresh, and the traffic is routed unless
\* an enable is at work or broke off.
BeatsInTime ==
  heartbeat =>
    /\ \A w \in Dog : dog[w] \in {Off, "sleep"}
    /\ rundir /\ alive \in {0, 1}
    /\ beaten => alive = 0 \/ \E h \in Helpers : HelperAt(h, "heartbeat", "touch")
    /\ \/ broken
       \/ \E h \in Helpers : Enabling(h) /\ call[h].at \in EnableStep
       \/ table /\ forward = 1

OnMeansBeating == mode = "on" => heartbeat \/ \E h \in Helpers : Disabling(h) /\ call[h].ours

\* Somebody is there who will take the table, and the forwarding, away again.
TableWatched ==
  table => \/ broken
           \/ \E w \in Dog : dog[w] \in {"sleep", "delete"}
           \/ \E h \in Helpers : Enabling(h) /\ call[h].at \in EnableStep
           \/ \E h \in Helpers : Disabling(h) /\ call[h].at = "delete"
ForwardWatched ==
  forward # Original =>
    \/ broken
    \/ \E w \in Dog : dog[w] \in {"sleep", "delete", "restore"}
    \/ \E h \in Helpers : Enabling(h) /\ call[h].at \in EnableStep
    \/ \E h \in Helpers : Disabling(h) /\ call[h].at \in {"delete", "restore"}

GatewayInv ==
  /\ GatewayTypeOK /\ OnFile /\ Alone /\ EnableSoFar /\ DisableSoFar /\ DogSoFar
  /\ BeatsInTime /\ OnMeansBeating /\ TableWatched /\ ForwardWatched

-----------------------------------------------------------------------------
(* What a run of the helper does to call.                                  *)

Point == EnableStep \union RevertStep \union {"read", "ok", "failed"}

\* One command of run h leads to the next; the other runs stay where they are.
LEMMA GotoIs ==
  ASSUME GatewayTypeOK, NEW h \in Helpers, call[h] # Off, NEW at \in Point, Goto(h, at)
  PROVE  /\ call' \in [Helpers -> HelperRun \union {Off}]
         /\ call'[h] # Off /\ call'[h].at = at
         /\ call'[h].cmd = call[h].cmd /\ call'[h].ours = call[h].ours
         /\ \A g \in Helpers : g # h => call'[g] = call[g]
<1>1. call[h] \in HelperRun
  BY DEF GatewayTypeOK
<1> DEFINE r == [call[h] EXCEPT !.at = at]
<1>2. r \in HelperRun /\ r.at = at /\ r.cmd = call[h].cmd /\ r.ours = call[h].ours
  BY <1>1 DEF HelperRun, Point
<1>3. call' = [call EXCEPT ![h] = r]
  BY DEF Goto
<1> HIDE DEF r
<1> QED BY <1>2, <1>3, IdleAssumption DEF GatewayTypeOK

\* A run begins; it is the control plane's own.
LEMMA RunIs ==
  ASSUME GatewayTypeOK, NEW h \in Helpers, NEW cmd \in Command, NEW at \in Point, Run(h, cmd, at)
  PROVE  /\ call' \in [Helpers -> HelperRun \union {Off}] /\ up /\ call[h] = Off
         /\ call'[h] # Off /\ call'[h].at = at /\ call'[h].cmd = cmd /\ call'[h].ours
         /\ \A g \in Helpers : g # h => call'[g] = call[g]
<1> DEFINE r == [cmd |-> cmd, at |-> at, ours |-> TRUE, saw |-> FALSE]
<1>1. r \in HelperRun /\ r.at = at /\ r.cmd = cmd /\ r.ours
  BY DEF HelperRun, Point
<1>2. call' = [call EXCEPT ![h] = r] /\ up /\ call[h] = Off
  BY DEF Run
<1> HIDE DEF r
<1> QED BY <1>1, <1>2, IdleAssumption DEF GatewayTypeOK

-----------------------------------------------------------------------------
(* The helper.                                                             *)

LEMMA MakeDirKeeps ==
  ASSUME GatewayInv, NEW h \in Helpers, MakeDir(h)
  PROVE  GatewayInv'
<1> USE DEF GatewayInv
<1>1. /\ call' \in [Helpers -> HelperRun \union {Off}] /\ call[h] # Off /\ call'[h] # Off
      /\ call'[h].cmd = call[h].cmd /\ call'[h].ours = call[h].ours
      /\ call'[h].at = "save"
      /\ \A g \in Helpers : g # h => call'[g] = call[g]
  BY GotoIs DEF MakeDir, HelperAt, Point, EnableStep, RevertStep
<1>2. /\ call[h].cmd = "enable" /\ call[h].at = "mkdir" /\ rundir'
      /\ UNCHANGED <<broken, table, forward, saved, alive, dog, up, mode, heartbeat, beaten, enables>>
  BY DEF MakeDir, HelperAt, plane, os, EnableSoFar, Enabling
<1>3. GatewayTypeOK'
  BY <1>1, <1>2, GatewayAssumption DEF GatewayTypeOK
<1>4. (OnFile /\ Alone /\ DisableSoFar /\ DogSoFar /\ OnMeansBeating)'
  BY <1>1, <1>2, <1>3 DEF OnFile, Alone, DisableSoFar, DogSoFar, OnMeansBeating, Enabling,
     Disabling
<1>5. EnableSoFar'
  BY <1>1, <1>2, <1>3, IdleAssumption DEF EnableSoFar, Enabling, Disabling, EnableStep,
     RevertStep
<1>6. BeatsInTime'
  BY <1>1, <1>2, <1>3, GatewayAssumption, IdleAssumption DEF BeatsInTime, Enabling,
     Disabling, EnableSoFar, HelperAt, EnableStep, RevertStep
<1>7. TableWatched'
  BY <1>1, <1>2, <1>3, IdleAssumption DEF TableWatched, Enabling, Disabling, EnableSoFar,
     EnableStep, RevertStep
<1>8. ForwardWatched'
  BY <1>1, <1>2, <1>3, IdleAssumption DEF ForwardWatched, Enabling, Disabling, EnableSoFar,
     EnableStep, RevertStep
<1> QED BY <1>1, <1>2, <1>3, <1>4, <1>5, <1>6, <1>7, <1>8

\* The value on file is the one of before the first session, also when there is one already.
LEMMA SaveForwardKeeps ==
  ASSUME GatewayInv, NEW h \in Helpers, SaveForward(h)
  PROVE  GatewayInv'
<1> USE DEF GatewayInv
<1>1. /\ call' \in [Helpers -> HelperRun \union {Off}] /\ call[h] # Off /\ call'[h] # Off
      /\ call'[h].cmd = call[h].cmd /\ call'[h].ours = call[h].ours
      /\ call'[h].at = (IF rundir THEN "forward" ELSE "failed")
      /\ \A g \in Helpers : g # h => call'[g] = call[g]
  BY GotoIs DEF SaveForward, HelperAt, Point, EnableStep, RevertStep
<1>2. /\ call[h].cmd = "enable" /\ call[h].at = "save" /\ rundir
      /\ saved' = IF saved = NoFile THEN forward ELSE saved
      /\ UNCHANGED <<broken, table, forward, rundir, alive, dog, up, mode, heartbeat, beaten, enables>>
  BY DEF SaveForward, HelperAt, plane, os, EnableSoFar, Enabling
<1>3. GatewayTypeOK'
  BY <1>1, <1>2, GatewayAssumption DEF GatewayTypeOK
<1>4. (Alone /\ DisableSoFar /\ DogSoFar /\ OnMeansBeating)'
  BY <1>1, <1>2, <1>3 DEF Alone, DisableSoFar, DogSoFar, OnMeansBeating, Enabling, Disabling
<1>5. OnFile'
  BY <1>1, <1>2, <1>3, GatewayAssumption, IdleAssumption DEF OnFile, Enabling, Disabling,
     EnableSoFar, BeatsInTime, HelperAt, EnableStep, RevertStep
<1>6. EnableSoFar'
  BY <1>1, <1>2, <1>3, GatewayAssumption, IdleAssumption DEF EnableSoFar, Enabling,
     Disabling, OnFile, DisableSoFar, DogSoFar, EnableStep, RevertStep
<1>7. BeatsInTime'
  BY <1>1, <1>2, <1>3, GatewayAssumption, IdleAssumption DEF BeatsInTime, Enabling,
     Disabling, EnableSoFar, HelperAt, EnableStep, RevertStep
<1>8. TableWatched'
  BY <1>1, <1>2, <1>3, IdleAssumption DEF TableWatched, Enabling, Disabling, EnableSoFar,
     EnableStep, RevertStep
<1>9. ForwardWatched'
  BY <1>1, <1>2, <1>3, IdleAssumption DEF ForwardWatched, Enabling, Disabling, EnableSoFar,
     EnableStep, RevertStep
<1> QED BY <1>1, <1>2, <1>3, <1>4, <1>5, <1>6, <1>7, <1>8, <1>9

LEMMA SetForwardKeeps ==
  ASSUME GatewayInv, NEW h \in Helpers, SetForward(h)
  PROVE  GatewayInv'
<1> USE DEF GatewayInv
<1>1. /\ call' \in [Helpers -> HelperRun \union {Off}] /\ call[h] # Off /\ call'[h] # Off
      /\ call'[h].cmd = call[h].cmd /\ call'[h].ours = call[h].ours
      /\ call'[h].at = "flush"
      /\ \A g \in Helpers : g # h => call'[g] = call[g]
  BY GotoIs DEF SetForward, HelperAt, Point, EnableStep, RevertStep
<1>2. /\ call[h].cmd = "enable" /\ call[h].at = "forward" /\ forward' = 1
      /\ UNCHANGED <<broken, table, rundir, saved, alive, dog, up, mode, heartbeat, beaten, enables>>
  BY DEF SetForward, HelperAt, plane, os, EnableSoFar, Enabling
<1>3. GatewayTypeOK'
  BY <1>1, <1>2, GatewayAssumption DEF GatewayTypeOK
<1>4. (Alone /\ OnMeansBeating)'
  BY <1>1, <1>2, <1>3 DEF Alone, OnMeansBeating, Enabling, Disabling
<1>5. OnFile'
  BY <1>1, <1>2, <1>3, IdleAssumption DEF OnFile, Enabling, Disabling, EnableSoFar,
     EnableStep, RevertStep
<1>6. EnableSoFar'
  BY <1>1, <1>2, <1>3, IdleAssumption DEF EnableSoFar, Enabling, Disabling, EnableStep,
     RevertStep
<1>7. DisableSoFar'
  BY <1>1, <1>2, <1>3, IdleAssumption DEF DisableSoFar, Enabling, Disabling, OnFile, Alone,
     EnableSoFar, DogSoFar, EnableStep, RevertStep
<1>8. DogSoFar'
  BY <1>1, <1>2, <1>3, IdleAssumption DEF DogSoFar, Enabling, Disabling, EnableSoFar,
     EnableStep, RevertStep
<1>9. BeatsInTime'
  BY <1>1, <1>2, <1>3, GatewayAssumption, IdleAssumption DEF BeatsInTime, Enabling,
     Disabling, EnableSoFar, HelperAt, EnableStep, RevertStep
<1>10. TableWatched'
  BY <1>1, <1>2, <1>3, IdleAssumption DEF TableWatched, Enabling, Disabling, EnableSoFar,
     EnableStep, RevertStep
<1>11. ForwardWatched'
  BY <1>1, <1>2, <1>3, IdleAssumption DEF ForwardWatched, Enabling, Disabling, EnableSoFar,
     EnableStep, RevertStep
<1> QED BY <1>1, <1>2, <1>3, <1>4, <1>5, <1>6, <1>7, <1>8, <1>9, <1>10, <1>11

LEMMA FlushTableKeeps ==
  ASSUME GatewayInv, NEW h \in Helpers, FlushTable(h)
  PROVE  GatewayInv'
<1> USE DEF GatewayInv
<1>1. /\ call' \in [Helpers -> HelperRun \union {Off}] /\ call[h] # Off /\ call'[h] # Off
      /\ call'[h].cmd = call[h].cmd /\ call'[h].ours = call[h].ours
      /\ call'[h].at = "load"
      /\ \A g \in Helpers : g # h => call'[g] = call[g]
  BY GotoIs DEF FlushTable, HelperAt, Point, EnableStep, RevertStep
<1>2. /\ call[h].cmd = "enable" /\ call[h].at = "flush" /\ table' = FALSE
      /\ UNCHANGED <<broken, forward, rundir, saved, alive, dog, up, mode, heartbeat, beaten, enables>>
  BY DEF FlushTable, HelperAt, plane, os, EnableSoFar, Enabling
<1>3. GatewayTypeOK'
  BY <1>1, <1>2, GatewayAssumption DEF GatewayTypeOK
<1>4. (OnFile /\ Alone /\ DisableSoFar /\ DogSoFar /\ OnMeansBeating /\ TableWatched)'
  BY <1>1, <1>2, <1>3 DEF OnFile, Alone, DisableSoFar, DogSoFar, OnMeansBeating,
     TableWatched, Enabling, Disabling
<1>5. EnableSoFar'
  BY <1>1, <1>2, <1>3, IdleAssumption DEF EnableSoFar, Enabling, Disabling, OnFile, Alone,
     DisableSoFar, DogSoFar, EnableStep, RevertStep
<1>6. BeatsInTime'
  BY <1>1, <1>2, <1>3, GatewayAssumption, IdleAssumption DEF BeatsInTime, Enabling,
     Disabling, EnableSoFar, HelperAt, EnableStep, RevertStep
<1>7. ForwardWatched'
  BY <1>1, <1>2, <1>3, IdleAssumption DEF ForwardWatched, Enabling, Disabling, EnableSoFar,
     EnableStep, RevertStep
<1> QED BY <1>1, <1>2, <1>3, <1>4, <1>5, <1>6, <1>7

LEMMA LoadTableKeeps ==
  ASSUME GatewayInv, NEW h \in Helpers, LoadTable(h)
  PROVE  GatewayInv'
<1> USE DEF GatewayInv
<1>1. /\ call' \in [Helpers -> HelperRun \union {Off}] /\ call[h] # Off /\ call'[h] # Off
      /\ call'[h].cmd = call[h].cmd /\ call'[h].ours = call[h].ours
      /\ call'[h].at = "touch"
      /\ \A g \in Helpers : g # h => call'[g] = call[g]
  BY GotoIs DEF LoadTable, HelperAt, Point, EnableStep, RevertStep
<1>2. /\ call[h].cmd = "enable" /\ call[h].at = "load" /\ table'
      /\ UNCHANGED <<broken, forward, rundir, saved, alive, dog, up, mode, heartbeat, beaten, enables>>
  BY DEF LoadTable, HelperAt, plane, os, EnableSoFar, Enabling
<1>3. GatewayTypeOK'
  BY <1>1, <1>2, GatewayAssumption DEF GatewayTypeOK
<1>4. (OnFile /\ Alone /\ OnMeansBeating)'
  BY <1>1, <1>2, <1>3 DEF OnFile, Alone, OnMeansBeating, Enabling, Disabling
<1>5. EnableSoFar'
  BY <1>1, <1>2, <1>3, IdleAssumption DEF EnableSoFar, Enabling, Disabling, EnableStep,
     RevertStep
<1>6. DisableSoFar'
  BY <1>1, <1>2, <1>3, IdleAssumption DEF DisableSoFar, Enabling, Disabling, OnFile, Alone,
     EnableSoFar, DogSoFar, EnableStep, RevertStep
<1>7. DogSoFar'
  BY <1>1, <1>2, <1>3, IdleAssumption DEF DogSoFar, Enabling, Disabling, EnableSoFar,
     EnableStep, RevertStep
<1>8. BeatsInTime'
  BY <1>1, <1>2, <1>3, GatewayAssumption, IdleAssumption DEF BeatsInTime, Enabling,
     Disabling, EnableSoFar, HelperAt, EnableStep, RevertStep
<1>9. TableWatched'
  BY <1>1, <1>2, <1>3, IdleAssumption DEF TableWatched, Enabling, Disabling, EnableSoFar,
     EnableStep, RevertStep
<1>10. ForwardWatched'
  BY <1>1, <1>2, <1>3, IdleAssumption DEF ForwardWatched, Enabling, Disabling, EnableSoFar,
     EnableStep, RevertStep
<1> QED BY <1>1, <1>2, <1>3, <1>4, <1>5, <1>6, <1>7, <1>8, <1>9, <1>10

\* The directory is there, as no one removes it during an enable.
LEMMA TouchKeeps ==
  ASSUME GatewayInv, NEW h \in Helpers, Touch(h), call[h].cmd = "enable"
  PROVE  GatewayInv'
<1> USE DEF GatewayInv
<1>1. /\ call' \in [Helpers -> HelperRun \union {Off}] /\ call[h] # Off /\ call'[h] # Off
      /\ call'[h].cmd = "enable" /\ call'[h].ours = call[h].ours
      /\ call'[h].at = (IF rundir THEN "watch" ELSE "failed") /\ call[h].at = "touch"
      /\ \A g \in Helpers : g # h => call'[g] = call[g]
  BY GotoIs DEF Touch, HelperAt, Point, EnableStep, RevertStep
<1>2. /\ alive' = (IF rundir THEN 0 ELSE alive)
      /\ broken' = (broken \/ ~rundir)
      /\ UNCHANGED <<table, forward, rundir, saved, dog, up, mode, heartbeat, beaten, enables>>
  BY <1>1 DEF Touch, HelperAt, plane, GatewayTypeOK
<1>3. GatewayTypeOK'
  BY <1>1, <1>2, GatewayAssumption DEF GatewayTypeOK
<1>4. (OnFile /\ Alone /\ DisableSoFar /\ DogSoFar /\ OnMeansBeating)'
  BY <1>1, <1>2, <1>3 DEF OnFile, Alone, DisableSoFar, DogSoFar, OnMeansBeating, Enabling,
     Disabling
<1>5. EnableSoFar'
  BY <1>1, <1>2, <1>3, GatewayAssumption, IdleAssumption DEF EnableSoFar, OnFile, Alone,
     DisableSoFar, DogSoFar, BeatsInTime, OnMeansBeating, TableWatched, ForwardWatched,
     Enabling, Disabling, HelperAt, EnableStep, RevertStep
<1>6. BeatsInTime'
  BY <1>1, <1>2, <1>3, IdleAssumption DEF BeatsInTime, Enabling, Disabling, EnableSoFar,
     EnableStep, RevertStep
<1>7. TableWatched'
  BY <1>1, <1>2, <1>3, IdleAssumption DEF TableWatched, Enabling, Disabling, EnableSoFar,
     EnableStep, RevertStep
<1>8. ForwardWatched'
  BY <1>1, <1>2, <1>3, IdleAssumption DEF ForwardWatched, Enabling, Disabling, EnableSoFar,
     EnableStep, RevertStep
<1> QED BY <1>1, <1>2, <1>3, <1>4, <1>5, <1>6, <1>7, <1>8

LEMMA BeatTouchKeeps ==
  ASSUME GatewayInv, NEW h \in Helpers, Touch(h), call[h].cmd = "heartbeat"
  PROVE  GatewayInv'
<1> USE DEF GatewayInv
<1>1. /\ call' \in [Helpers -> HelperRun \union {Off}] /\ call[h] # Off /\ call'[h] # Off
      /\ call'[h].cmd = "heartbeat" /\ call'[h].ours = call[h].ours
      /\ call'[h].at = (IF rundir THEN "ok" ELSE "failed") /\ call[h].at = "touch"
      /\ \A g \in Helpers : g # h => call'[g] = call[g]
  BY GotoIs DEF Touch, HelperAt, Point, EnableStep, RevertStep
<1>2. /\ alive' = (IF rundir THEN 0 ELSE alive)
      /\ broken' = broken
      /\ UNCHANGED <<table, forward, rundir, saved, dog, up, mode, heartbeat, beaten, enables>>
  BY <1>1 DEF Touch, HelperAt, plane, GatewayTypeOK
<1>3. GatewayTypeOK'
  BY <1>1, <1>2, GatewayAssumption DEF GatewayTypeOK
<1>4. (OnFile /\ Alone /\ DisableSoFar /\ DogSoFar
      /\ BeatsInTime /\ OnMeansBeating /\ TableWatched /\ ForwardWatched)'
  BY <1>1, <1>2, <1>3 DEF OnFile, Alone, DisableSoFar, DogSoFar, BeatsInTime, OnMeansBeating,
     TableWatched, ForwardWatched, Enabling, Disabling
<1>5. EnableSoFar'
  BY <1>1, <1>2, <1>3, GatewayAssumption, IdleAssumption DEF EnableSoFar, Enabling,
     Disabling, BeatsInTime, HelperAt, EnableStep, RevertStep
<1> QED BY <1>1, <1>2, <1>3, <1>4, <1>5

\* The new watchdog keeps what the enable has set up from being left alone.
LEMMA StartWatchdogKeeps ==
  ASSUME GatewayInv, NEW h \in Helpers, StartWatchdog(h)
  PROVE  GatewayInv'
<1> USE DEF GatewayInv
<1>1. /\ call' \in [Helpers -> HelperRun \union {Off}] /\ call[h] # Off /\ call'[h] # Off
      /\ call'[h].cmd = call[h].cmd /\ call'[h].ours = call[h].ours /\ call'[h].at = "ok"
      /\ \A g \in Helpers : g # h => call'[g] = call[g]
  BY GotoIs DEF StartWatchdog, HelperAt, Point, EnableStep, RevertStep
<1>2. /\ call[h].cmd = "enable" /\ call[h].at = "watch" /\ broken' = FALSE
      /\ UNCHANGED <<table, forward, rundir, saved, alive, up, mode, heartbeat, beaten, enables>>
  BY DEF StartWatchdog, HelperAt, plane
<1>3. PICK w \in Dog : dog[w] = Off /\ dog' = [dog EXCEPT ![w] = "sleep"]
  BY DEF StartWatchdog
<1>4. GatewayTypeOK' /\ dog'[w] = "sleep"
  BY <1>1, <1>2, <1>3, GatewayAssumption DEF GatewayTypeOK
<1>5. (OnFile /\ Alone /\ DisableSoFar /\ DogSoFar
      /\ OnMeansBeating /\ TableWatched /\ ForwardWatched)'
  BY <1>1, <1>2, <1>3, <1>4 DEF OnFile, Alone, DisableSoFar, DogSoFar, OnMeansBeating,
     TableWatched, ForwardWatched, Enabling, Disabling
<1>6. EnableSoFar'
  BY <1>1, <1>2, <1>3, <1>4, GatewayAssumption, IdleAssumption DEF EnableSoFar, OnFile,
     Alone, DisableSoFar, DogSoFar, BeatsInTime, OnMeansBeating, TableWatched,
     ForwardWatched, Enabling, Disabling, HelperAt, EnableStep, RevertStep
<1>7. BeatsInTime'
  BY <1>1, <1>2, <1>3, <1>4, IdleAssumption DEF BeatsInTime, Enabling, Disabling,
     EnableSoFar, EnableStep, RevertStep
<1> QED BY <1>1, <1>2, <1>3, <1>4, <1>5, <1>6, <1>7

LEMMA AbortKeeps ==
  ASSUME GatewayInv, NEW h \in Helpers, Abort(h)
  PROVE  GatewayInv'
<1> USE DEF GatewayInv
<1>1. /\ call' \in [Helpers -> HelperRun \union {Off}] /\ call[h] # Off /\ call'[h] # Off
      /\ call'[h].cmd = call[h].cmd /\ call'[h].ours = call[h].ours
      /\ call'[h].at = "failed"
      /\ \A g \in Helpers : g # h => call'[g] = call[g]
  BY GotoIs DEF Abort, HelperAt, Point, EnableStep, RevertStep
<1>2. /\ call[h].cmd = "enable" /\ call[h].at \in EnableStep \ {"mkdir"} /\ broken'
      /\ UNCHANGED <<table, forward, rundir, saved, alive, dog, up, mode, heartbeat, beaten, enables>>
  BY DEF Abort, HelperAt, plane, os, EnableSoFar, Enabling
<1>3. GatewayTypeOK'
  BY <1>1, <1>2, GatewayAssumption DEF GatewayTypeOK
<1>4. (OnFile /\ Alone /\ EnableSoFar /\ DisableSoFar /\ DogSoFar
      /\ OnMeansBeating /\ TableWatched /\ ForwardWatched)'
  BY <1>1, <1>2, <1>3 DEF OnFile, Alone, EnableSoFar, DisableSoFar, DogSoFar, OnMeansBeating,
     TableWatched, ForwardWatched, Enabling, Disabling
<1>5. BeatsInTime'
  BY <1>1, <1>2, <1>3, GatewayAssumption, IdleAssumption DEF BeatsInTime, Enabling,
     Disabling, EnableSoFar, HelperAt, EnableStep, RevertStep
<1> QED BY <1>1, <1>2, <1>3, <1>4, <1>5

LEMMA ReadStatusKeeps ==
  ASSUME GatewayInv, NEW h \in Helpers, ReadStatus(h)
  PROVE  GatewayInv'
<1> USE DEF GatewayInv
<1>1. /\ call' \in [Helpers -> HelperRun \union {Off}] /\ call[h] # Off /\ call'[h] # Off
      /\ call'[h].cmd = "status" /\ call[h].cmd = "status"
      /\ \A g \in Helpers : g # h => call'[g] = call[g]
  <2> DEFINE r == [call[h] EXCEPT !.at = "ok", !.saw = table]
  <2>1. r \in HelperRun /\ r.cmd = call[h].cmd
    BY DEF GatewayTypeOK, HelperRun, ReadStatus, HelperAt
  <2>2. call' = [call EXCEPT ![h] = r] /\ call[h] # Off /\ call[h].cmd = "status"
    BY DEF ReadStatus, HelperAt
  <2> HIDE DEF r
  <2> QED BY <2>1, <2>2, IdleAssumption DEF GatewayTypeOK
<1>2. UNCHANGED <<broken, table, forward, rundir, saved, alive, dog, up, mode, heartbeat, beaten, enables>>
  BY DEF ReadStatus, os, plane
<1>3. GatewayTypeOK'
  BY <1>1, <1>2, GatewayAssumption DEF GatewayTypeOK
<1>4. (OnFile /\ Alone /\ EnableSoFar /\ DisableSoFar /\ DogSoFar
      /\ OnMeansBeating /\ TableWatched /\ ForwardWatched)'
  BY <1>1, <1>2, <1>3 DEF OnFile, Alone, EnableSoFar, DisableSoFar, DogSoFar, OnMeansBeating,
     TableWatched, ForwardWatched, Enabling, Disabling
<1>5. BeatsInTime'
  BY <1>1, <1>2, <1>3, GatewayAssumption, IdleAssumption DEF BeatsInTime, Enabling,
     Disabling, EnableSoFar, HelperAt, EnableStep, RevertStep
<1> QED BY <1>1, <1>2, <1>3, <1>4, <1>5

LEMMA DeleteKeeps ==
  ASSUME GatewayInv, NEW h \in Helpers, Revert(h), call[h].at = "delete"
  PROVE  GatewayInv'
<1> USE DEF GatewayInv
<1>1. /\ call' \in [Helpers -> HelperRun \union {Off}] /\ call[h] # Off /\ call'[h] # Off
      /\ call'[h].cmd = "disable" /\ call[h].cmd = "disable" /\ call'[h].ours = call[h].ours
      /\ call'[h].at = "restore" /\ call[h].at = "delete"
      /\ \A g \in Helpers : g # h => call'[g] = call[g]
  BY GotoIs DEF Revert, HelperAt, Point, EnableStep, RevertStep
<1>2. DeleteTable /\ UNCHANGED <<dog, up, mode, heartbeat, beaten, enables>>
  BY DEF Revert, HelperAt, plane
<1>3. GatewayTypeOK'
  BY <1>1, <1>2, GatewayAssumption DEF GatewayTypeOK, DeleteTable
<1>4. (OnFile /\ Alone /\ DogSoFar /\ OnMeansBeating /\ TableWatched /\ ForwardWatched)'
  BY <1>1, <1>2, <1>3 DEF OnFile, Alone, DogSoFar, OnMeansBeating, TableWatched,
     ForwardWatched, Enabling, Disabling, DeleteTable
<1>5. EnableSoFar'
  BY <1>1, <1>2, <1>3, IdleAssumption DEF EnableSoFar, Enabling, Disabling, OnFile, Alone,
     DisableSoFar, DogSoFar, EnableStep, RevertStep, DeleteTable
<1>6. DisableSoFar'
  BY <1>1, <1>2, <1>3, IdleAssumption DEF DisableSoFar, Enabling, Disabling, EnableSoFar,
     EnableStep, RevertStep, DeleteTable
<1>7. BeatsInTime'
  BY <1>1, <1>2, <1>3, IdleAssumption DEF BeatsInTime, Enabling, Disabling, OnFile, Alone,
     EnableSoFar, DisableSoFar, DogSoFar, EnableStep, RevertStep, DeleteTable
<1> QED BY <1>1, <1>2, <1>3, <1>4, <1>5, <1>6, <1>7

LEMMA RestoreKeeps ==
  ASSUME GatewayInv, NEW h \in Helpers, Revert(h), call[h].at = "restore"
  PROVE  GatewayInv'
<1> USE DEF GatewayInv
<1>1. /\ call' \in [Helpers -> HelperRun \union {Off}] /\ call[h] # Off /\ call'[h] # Off
      /\ call'[h].cmd = "disable" /\ call[h].cmd = "disable" /\ call'[h].ours = call[h].ours
      /\ call'[h].at = "remove" /\ call[h].at = "restore"
      /\ \A g \in Helpers : g # h => call'[g] = call[g]
  BY GotoIs DEF Revert, HelperAt, Point, EnableStep, RevertStep
<1>2. RestoreForward /\ UNCHANGED <<dog, up, mode, heartbeat, beaten, enables>>
  BY DEF Revert, HelperAt, plane
<1>3. GatewayTypeOK'
  BY <1>1, <1>2, GatewayAssumption DEF GatewayTypeOK, RestoreForward
<1>4. (OnFile /\ Alone /\ DogSoFar /\ OnMeansBeating /\ TableWatched)'
  BY <1>1, <1>2, <1>3 DEF OnFile, Alone, DogSoFar, OnMeansBeating, TableWatched, Enabling,
     Disabling, RestoreForward
<1>5. EnableSoFar'
  BY <1>1, <1>2, <1>3, IdleAssumption DEF EnableSoFar, Enabling, Disabling, OnFile, Alone,
     DisableSoFar, DogSoFar, EnableStep, RevertStep, RestoreForward
<1>6. DisableSoFar'
  BY <1>1, <1>2, <1>3, GatewayAssumption, IdleAssumption DEF DisableSoFar, Enabling,
     Disabling, OnFile, EnableSoFar, DogSoFar, EnableStep, RevertStep, RestoreForward
<1>7. BeatsInTime'
  BY <1>1, <1>2, <1>3, IdleAssumption DEF BeatsInTime, Enabling, Disabling, OnFile, Alone,
     EnableSoFar, DisableSoFar, DogSoFar, EnableStep, RevertStep, RestoreForward
<1>8. ForwardWatched'
  BY <1>1, <1>2, <1>3, GatewayAssumption, IdleAssumption DEF ForwardWatched, Enabling,
     Disabling, OnFile, EnableSoFar, DisableSoFar, DogSoFar, EnableStep, RevertStep,
     RestoreForward
<1> QED BY <1>1, <1>2, <1>3, <1>4, <1>5, <1>6, <1>7, <1>8

\* What a disable removes is no longer needed: ip_forward is back.
LEMMA RemoveKeeps ==
  ASSUME GatewayInv, NEW h \in Helpers, Revert(h), call[h].at = "remove"
  PROVE  GatewayInv'
<1> USE DEF GatewayInv
<1>1. /\ call' \in [Helpers -> HelperRun \union {Off}] /\ call[h] # Off /\ call'[h] # Off
      /\ call'[h].cmd = "disable" /\ call[h].cmd = "disable" /\ call'[h].ours = call[h].ours
      /\ call'[h].at = "ok" /\ call[h].at = "remove"
      /\ \A g \in Helpers : g # h => call'[g] = call[g]
  BY GotoIs DEF Revert, HelperAt, Point, EnableStep, RevertStep
<1>2. RemoveDir /\ UNCHANGED <<dog, up, mode, heartbeat, beaten, enables>>
  BY DEF Revert, HelperAt, plane
<1>3. GatewayTypeOK'
  BY <1>1, <1>2, GatewayAssumption DEF GatewayTypeOK, RemoveDir
<1>4. (Alone /\ DisableSoFar /\ DogSoFar /\ OnMeansBeating)'
  BY <1>1, <1>2, <1>3 DEF Alone, DisableSoFar, DogSoFar, OnMeansBeating, Enabling, Disabling,
     RemoveDir
<1>5. OnFile'
  BY <1>1, <1>2, <1>3, IdleAssumption DEF OnFile, Enabling, Disabling, Alone, EnableSoFar,
     DisableSoFar, DogSoFar, EnableStep, RevertStep, RemoveDir
<1>6. EnableSoFar'
  BY <1>1, <1>2, <1>3, IdleAssumption DEF EnableSoFar, Enabling, Disabling, OnFile, Alone,
     DisableSoFar, DogSoFar, EnableStep, RevertStep, RemoveDir
<1>7. BeatsInTime'
  BY <1>1, <1>2, <1>3, IdleAssumption DEF BeatsInTime, Enabling, Disabling, OnFile, Alone,
     EnableSoFar, DisableSoFar, DogSoFar, EnableStep, RevertStep, RemoveDir
<1>8. TableWatched'
  BY <1>1, <1>2, <1>3, IdleAssumption DEF TableWatched, Enabling, Disabling, OnFile, Alone,
     EnableSoFar, DisableSoFar, DogSoFar, EnableStep, RevertStep, RemoveDir
<1>9. ForwardWatched'
  BY <1>1, <1>2, <1>3, IdleAssumption DEF ForwardWatched, Enabling, Disabling, OnFile, Alone,
     EnableSoFar, DisableSoFar, DogSoFar, EnableStep, RevertStep, RemoveDir
<1> QED BY <1>1, <1>2, <1>3, <1>4, <1>5, <1>6, <1>7, <1>8, <1>9

-----------------------------------------------------------------------------
(* The control plane.                                                      *)

\* Earlier sessions are wound up, so no watchdog is about to act.
LEMMA EnableKeeps ==
  ASSUME GatewayInv, Calm, NEW h \in Helpers, Enable(h)
  PROVE  GatewayInv'
<1> USE DEF GatewayInv
<1>1. /\ call' \in [Helpers -> HelperRun \union {Off}] /\ up /\ call[h] = Off
      /\ call'[h] # Off /\ call'[h].at = "mkdir" /\ call'[h].cmd = "enable" /\ call'[h].ours
      /\ \A g \in Helpers : g # h => call'[g] = call[g]
  BY RunIs DEF Enable, Command, Point, EnableStep, RevertStep
<1>2. /\ enables < MaxEnables /\ enables' = enables + 1
      /\ \A g \in Helpers : ~Enabling(g) /\ ~Disabling(g)
      /\ \A w \in Dog : dog[w] = Off \/ (dog[w] = "sleep" /\ alive \in 0 .. StaleAge)
      /\ UNCHANGED <<table, forward, rundir, saved, alive, broken, dog, up, mode, heartbeat, beaten>>
  BY DEF Enable, os, plane, WoundUp, Busy, Enabling, Disabling
<1>3. GatewayTypeOK'
  BY <1>1, <1>2, GatewayAssumption DEF GatewayTypeOK
<1>4. (OnFile /\ Alone /\ DisableSoFar /\ DogSoFar
      /\ OnMeansBeating /\ TableWatched /\ ForwardWatched)'
  BY <1>1, <1>2, <1>3 DEF OnFile, Alone, DisableSoFar, DogSoFar, OnMeansBeating,
     TableWatched, ForwardWatched, Enabling, Disabling
<1>5. EnableSoFar'
  BY <1>1, <1>2, <1>3, IdleAssumption DEF EnableSoFar, Enabling, Disabling, EnableStep,
     RevertStep
<1>6. BeatsInTime'
  BY <1>1, <1>2, <1>3, GatewayAssumption, IdleAssumption DEF BeatsInTime, Enabling,
     Disabling, EnableSoFar, HelperAt, EnableStep, RevertStep
<1> QED BY <1>1, <1>2, <1>3, <1>4, <1>5, <1>6

\* The timer stops first: from now on nobody expects traffic to be routed.
LEMMA DisableKeeps ==
  ASSUME GatewayInv, Calm, NEW h \in Helpers, Disable(h)
  PROVE  GatewayInv'
<1> USE DEF GatewayInv
<1>1. /\ call' \in [Helpers -> HelperRun \union {Off}] /\ up /\ call[h] = Off
      /\ call'[h] # Off /\ call'[h].at = "delete" /\ call'[h].cmd = "disable" /\ call'[h].ours
      /\ \A g \in Helpers : g # h => call'[g] = call[g]
  BY RunIs DEF Disable, Command, Point, EnableStep, RevertStep
<1>2. /\ heartbeat' = FALSE
      /\ \A g \in Helpers : ~Enabling(g) /\ ~Disabling(g)
      /\ UNCHANGED <<table, forward, rundir, saved, alive, broken, dog, up, mode, beaten, enables>>
  BY DEF Disable, os, plane, WoundUp, Busy, Enabling, Disabling
<1>3. GatewayTypeOK'
  BY <1>1, <1>2, GatewayAssumption DEF GatewayTypeOK
<1>4. (OnFile /\ Alone /\ EnableSoFar /\ DogSoFar
      /\ BeatsInTime /\ OnMeansBeating /\ TableWatched /\ ForwardWatched)'
  BY <1>1, <1>2, <1>3 DEF OnFile, Alone, EnableSoFar, DogSoFar, BeatsInTime, OnMeansBeating,
     TableWatched, ForwardWatched, Enabling, Disabling
<1>5. DisableSoFar'
  BY <1>1, <1>2, <1>3, IdleAssumption DEF DisableSoFar, Enabling, Disabling, EnableSoFar,
     EnableStep, RevertStep
<1> QED BY <1>1, <1>2, <1>3, <1>4, <1>5

LEMMA BeatKeeps ==
  ASSUME GatewayInv, NEW h \in Helpers, Beat(h)
  PROVE  GatewayInv'
<1> USE DEF GatewayInv
<1>1. /\ call' \in [Helpers -> HelperRun \union {Off}] /\ up /\ call[h] = Off
      /\ call'[h] # Off /\ call'[h].at = "touch" /\ call'[h].cmd = "heartbeat" /\ call'[h].ours
      /\ \A g \in Helpers : g # h => call'[g] = call[g]
  BY RunIs DEF Beat, Command, Point, EnableStep, RevertStep
<1>2. /\ heartbeat /\ beaten'
      /\ UNCHANGED <<table, forward, rundir, saved, alive, broken, dog, up, mode, heartbeat, enables>>
  BY DEF Beat, os, plane, WoundUp, Busy, Enabling, Disabling
<1>3. GatewayTypeOK'
  BY <1>1, <1>2, GatewayAssumption DEF GatewayTypeOK
<1>4. (OnFile /\ Alone /\ EnableSoFar /\ DisableSoFar /\ DogSoFar
      /\ OnMeansBeating /\ TableWatched /\ ForwardWatched)'
  BY <1>1, <1>2, <1>3 DEF OnFile, Alone, EnableSoFar, DisableSoFar, DogSoFar, OnMeansBeating,
     TableWatched, ForwardWatched, Enabling, Disabling
<1>5. BeatsInTime'
  BY <1>1, <1>2, <1>3, GatewayAssumption, IdleAssumption DEF BeatsInTime, Enabling,
     Disabling, EnableSoFar, HelperAt, EnableStep, RevertStep
<1> QED BY <1>1, <1>2, <1>3, <1>4, <1>5

LEMMA StatusKeeps ==
  ASSUME GatewayInv, NEW h \in Helpers, Status(h)
  PROVE  GatewayInv'
<1> USE DEF GatewayInv
<1>1. /\ call' \in [Helpers -> HelperRun \union {Off}] /\ up /\ call[h] = Off
      /\ call'[h] # Off /\ call'[h].at = "read" /\ call'[h].cmd = "status" /\ call'[h].ours
      /\ \A g \in Helpers : g # h => call'[g] = call[g]
  BY RunIs DEF Status, Command, Point, EnableStep, RevertStep
<1>2. UNCHANGED <<table, forward, rundir, saved, alive, broken, dog, up, mode, heartbeat, beaten, enables>>
  BY DEF Status, os, plane, WoundUp, Busy, Enabling, Disabling
<1>3. GatewayTypeOK'
  BY <1>1, <1>2, GatewayAssumption DEF GatewayTypeOK
<1>4. (OnFile /\ Alone /\ EnableSoFar /\ DisableSoFar /\ DogSoFar
      /\ OnMeansBeating /\ TableWatched /\ ForwardWatched)'
  BY <1>1, <1>2, <1>3 DEF OnFile, Alone, EnableSoFar, DisableSoFar, DogSoFar, OnMeansBeating,
     TableWatched, ForwardWatched, Enabling, Disabling
<1>5. BeatsInTime'
  BY <1>1, <1>2, <1>3, GatewayAssumption, IdleAssumption DEF BeatsInTime, Enabling,
     Disabling, EnableSoFar, HelperAt, EnableStep, RevertStep
<1> QED BY <1>1, <1>2, <1>3, <1>4, <1>5

\* A watchdog, left alone, will do what the helper did not.
LEMMA UnheardKeeps ==
  ASSUME GatewayInv, Calm, DisableUnheard
  PROVE  GatewayInv'
<1> USE DEF GatewayInv
<1>1. /\ heartbeat /\ heartbeat' = FALSE /\ mode' = "off"
      /\ UNCHANGED <<table, forward, rundir, saved, alive, broken, call, dog, up, beaten, enables>>
      /\ \A g \in Helpers : ~Enabling(g) /\ ~Disabling(g)
  BY DEF DisableUnheard, os, Busy, Enabling, Disabling
<1>2. GatewayTypeOK'
  BY <1>1 DEF GatewayTypeOK
<1>3. (OnFile /\ Alone /\ EnableSoFar /\ DisableSoFar /\ DogSoFar
      /\ BeatsInTime /\ OnMeansBeating /\ TableWatched /\ ForwardWatched)'
  BY <1>1, <1>2 DEF OnFile, Alone, EnableSoFar, DisableSoFar, DogSoFar, BeatsInTime,
     OnMeansBeating, TableWatched, ForwardWatched, Enabling, Disabling
<1> QED BY <1>1, <1>2, <1>3

\* The timer starts only when the helper has done everything.
LEMMA ResultKeeps ==
  ASSUME GatewayInv, NEW h \in Helpers, Result(h)
  PROVE  GatewayInv'
<1> USE DEF GatewayInv
<1>1. /\ call' \in [Helpers -> HelperRun \union {Off}] /\ call[h] # Off /\ call'[h] = Off
      /\ call[h].at \in {"ok", "failed"}
      /\ \A g \in Helpers : g # h => call'[g] = call[g]
  BY DEF Result, GatewayTypeOK
<1> DEFINE started == call[h].ours /\ call[h].cmd = "enable" /\ call[h].at = "ok"
           stopped == call[h].ours /\ \/ call[h].cmd = "disable"
                                      \/ call[h].cmd = "status" /\ ~call[h].saw
<1>2. /\ mode' = (IF started THEN "on" ELSE IF stopped THEN "off" ELSE mode)
      /\ heartbeat' = (heartbeat \/ started) /\ beaten' = (beaten \/ started)
      /\ UNCHANGED <<table, forward, rundir, saved, alive, broken, dog, up, enables>>
  BY DEF Result, os
<1>3. GatewayTypeOK'
  BY <1>1, <1>2, GatewayAssumption DEF GatewayTypeOK
<1>4. (OnFile /\ Alone /\ EnableSoFar /\ DogSoFar)'
  BY <1>1, <1>2, <1>3 DEF OnFile, Alone, EnableSoFar, DogSoFar, Enabling, Disabling
<1>5. DisableSoFar'
  BY <1>1, <1>2, <1>3, IdleAssumption, ZenonT(40) DEF DisableSoFar, Enabling, Disabling, OnFile, Alone,
     EnableSoFar, DogSoFar, EnableStep, RevertStep
<1>6. BeatsInTime'
  BY <1>1, <1>2, <1>3, GatewayAssumption, IdleAssumption, ZenonT(40) DEF BeatsInTime, Enabling,
     Disabling, EnableSoFar, HelperAt, EnableStep, RevertStep
<1>7. OnMeansBeating'
  BY <1>1, <1>2, <1>3, IdleAssumption DEF OnMeansBeating, Enabling, Disabling, EnableSoFar,
     EnableStep, RevertStep
<1>8. TableWatched'
  BY <1>1, <1>2, <1>3, IdleAssumption DEF TableWatched, Enabling, Disabling, EnableSoFar,
     EnableStep, RevertStep
<1>9. ForwardWatched'
  BY <1>1, <1>2, <1>3, IdleAssumption DEF ForwardWatched, Enabling, Disabling, EnableSoFar,
     EnableStep, RevertStep
<1> QED BY <1>1, <1>2, <1>3, <1>4, <1>5, <1>6, <1>7, <1>8, <1>9

\* Runs of the helper outlive the control plane, and no one waits for them.
LEMMA CrashKeeps ==
  ASSUME GatewayInv, Crash
  PROVE  GatewayInv'
<1> USE DEF GatewayInv
<1>1. /\ call' \in [Helpers -> HelperRun \union {Off}]
      /\ \A g \in Helpers : /\ (call'[g] = Off) <=> (call[g] = Off)
                            /\ call[g] # Off => /\ call'[g].cmd = call[g].cmd
                                                /\ call'[g].at = call[g].at /\ ~call'[g].ours
  <2>1. ASSUME NEW g \in Helpers, call[g] # Off
        PROVE  /\ [call[g] EXCEPT !.ours = FALSE] \in HelperRun
               /\ [call[g] EXCEPT !.ours = FALSE].cmd = call[g].cmd
               /\ [call[g] EXCEPT !.ours = FALSE].at = call[g].at
               /\ ~[call[g] EXCEPT !.ours = FALSE].ours
    BY <2>1 DEF GatewayTypeOK, HelperRun
  <2>2. call' = [h \in Helpers |-> IF call[h] = Off THEN Off ELSE [call[h] EXCEPT !.ours = FALSE]]
    BY DEF Crash
  <2> QED BY <2>1, <2>2, IdleAssumption
<1>2. /\ up /\ up' = FALSE /\ mode' = "off" /\ heartbeat' = FALSE /\ beaten' = FALSE
      /\ UNCHANGED <<table, forward, rundir, saved, alive, broken, dog, enables>>
  BY DEF Crash, os
<1>3. GatewayTypeOK'
  BY <1>1, <1>2, GatewayAssumption DEF GatewayTypeOK
<1>4. (OnFile /\ Alone /\ EnableSoFar /\ DisableSoFar /\ DogSoFar
      /\ BeatsInTime /\ OnMeansBeating /\ TableWatched /\ ForwardWatched)'
  BY <1>1, <1>2, <1>3 DEF OnFile, Alone, EnableSoFar, DisableSoFar, DogSoFar, BeatsInTime,
     OnMeansBeating, TableWatched, ForwardWatched, Enabling, Disabling
<1> QED BY <1>1, <1>2, <1>3, <1>4

LEMMA RestartKeeps ==
  ASSUME GatewayInv, Restart
  PROVE  GatewayInv'
<1> USE DEF GatewayInv
<1>1. up' /\ UNCHANGED <<table, forward, rundir, saved, alive, broken, call, dog, mode, heartbeat, beaten, enables>>
  BY DEF Restart, os
<1>2. GatewayTypeOK'
  BY <1>1 DEF GatewayTypeOK
<1>3. (OnFile /\ Alone /\ EnableSoFar /\ DisableSoFar /\ DogSoFar
      /\ OnMeansBeating /\ TableWatched /\ ForwardWatched)'
  BY <1>1, <1>2 DEF OnFile, Alone, EnableSoFar, DisableSoFar, DogSoFar, OnMeansBeating,
     TableWatched, ForwardWatched, Enabling, Disabling
<1>4. BeatsInTime'
  BY <1>1, <1>2, GatewayAssumption, IdleAssumption DEF BeatsInTime, Enabling, Disabling,
     EnableSoFar, HelperAt, EnableStep, RevertStep
<1> QED BY <1>1, <1>2, <1>3, <1>4

-----------------------------------------------------------------------------
(* The watchdogs and the clock.                                            *)

\* Only a heartbeat that is not beaten any more gets stale.
LEMMA WakeKeeps ==
  ASSUME GatewayInv, NEW w \in Dog, Wake(w)
  PROVE  GatewayInv'
<1> USE DEF GatewayInv
<1>1. /\ dog' = [dog EXCEPT ![w] = "delete"] /\ dog[w] = "sleep" /\ alive \in {NoFile, StaleAge + 1}
      /\ UNCHANGED <<table, forward, rundir, saved, alive, broken, call, up, mode, heartbeat, beaten, enables>>
  BY DEF Wake, Stale, os, plane
<1>2. ~heartbeat
  BY <1>1, GatewayAssumption DEF BeatsInTime
<1>3. GatewayTypeOK'
  BY <1>1 DEF GatewayTypeOK, RevertStep
<1>4. (OnFile /\ Alone /\ DisableSoFar /\ DogSoFar
      /\ BeatsInTime /\ OnMeansBeating /\ TableWatched /\ ForwardWatched)'
  BY <1>1, <1>2, <1>3 DEF OnFile, Alone, DisableSoFar, DogSoFar, BeatsInTime, OnMeansBeating,
     TableWatched, ForwardWatched, Enabling, Disabling
<1>5. EnableSoFar'
  BY <1>1, <1>2, <1>3, GatewayAssumption, IdleAssumption DEF EnableSoFar, Enabling,
     Disabling, BeatsInTime, HelperAt, EnableStep, RevertStep
<1> QED BY <1>1, <1>2, <1>3, <1>4, <1>5

LEMMA DogDeletes ==
  ASSUME GatewayInv, NEW w \in Dog, DogReverts(w), dog[w] = "delete"
  PROVE  GatewayInv'
<1> USE DEF GatewayInv
<1>1. DeleteTable /\ dog' = [dog EXCEPT ![w] = "restore"] /\ UNCHANGED <<call, up, mode, heartbeat, beaten, enables>>
  BY DEF DogReverts, plane
<1>2. GatewayTypeOK'
  BY <1>1, GatewayAssumption DEF GatewayTypeOK, RevertStep, DeleteTable
<1>3. ~heartbeat /\ \A g \in Helpers : ~Enabling(g)
  BY IdleAssumption DEF BeatsInTime, EnableSoFar, RevertStep
<1>4. (OnFile /\ Alone /\ EnableSoFar /\ DisableSoFar /\ DogSoFar
      /\ BeatsInTime /\ OnMeansBeating /\ TableWatched /\ ForwardWatched)'
  BY <1>1, <1>2, <1>3 DEF OnFile, Alone, EnableSoFar, DisableSoFar, DogSoFar, BeatsInTime,
     OnMeansBeating, TableWatched, ForwardWatched, Enabling, Disabling, DeleteTable
<1> QED BY <1>1, <1>2, <1>3, <1>4

LEMMA DogRestores ==
  ASSUME GatewayInv, NEW w \in Dog, DogReverts(w), dog[w] = "restore"
  PROVE  GatewayInv'
<1> USE DEF GatewayInv
<1>1. RestoreForward /\ dog' = [dog EXCEPT ![w] = "remove"] /\ UNCHANGED <<call, up, mode, heartbeat, beaten, enables>>
  BY DEF DogReverts, plane
<1>2. GatewayTypeOK'
  BY <1>1, GatewayAssumption DEF GatewayTypeOK, RevertStep, RestoreForward
<1>3. ~heartbeat /\ \A g \in Helpers : ~Enabling(g)
  BY IdleAssumption DEF BeatsInTime, EnableSoFar, RevertStep
<1>4. (OnFile /\ Alone /\ EnableSoFar /\ DisableSoFar
      /\ BeatsInTime /\ OnMeansBeating /\ TableWatched)'
  BY <1>1, <1>2, <1>3 DEF OnFile, Alone, EnableSoFar, DisableSoFar, BeatsInTime,
     OnMeansBeating, TableWatched, Enabling, Disabling, RestoreForward
<1>5. DogSoFar'
  BY <1>1, <1>2, <1>3, GatewayAssumption, IdleAssumption DEF DogSoFar, Enabling, Disabling,
     OnFile, EnableSoFar, DisableSoFar, EnableStep, RevertStep, RestoreForward
<1>6. ForwardWatched'
  BY <1>1, <1>2, <1>3, GatewayAssumption, IdleAssumption DEF ForwardWatched, Enabling,
     Disabling, OnFile, EnableSoFar, DisableSoFar, DogSoFar, EnableStep, RevertStep,
     RestoreForward
<1> QED BY <1>1, <1>2, <1>3, <1>4, <1>5, <1>6

\* A watchdog removes the files of its own session only: no other is being set up.
LEMMA DogRemoves ==
  ASSUME GatewayInv, NEW w \in Dog, DogReverts(w), dog[w] = "remove"
  PROVE  GatewayInv'
<1> USE DEF GatewayInv
<1>1. RemoveDir /\ dog' = [dog EXCEPT ![w] = Off] /\ UNCHANGED <<call, up, mode, heartbeat, beaten, enables>>
  BY DEF DogReverts, plane
<1>2. GatewayTypeOK'
  BY <1>1, GatewayAssumption DEF GatewayTypeOK, RevertStep, RemoveDir
<1>3. ~heartbeat /\ \A g \in Helpers : ~Enabling(g)
  BY IdleAssumption DEF BeatsInTime, EnableSoFar, RevertStep
<1>4. (Alone /\ EnableSoFar /\ DisableSoFar /\ DogSoFar /\ BeatsInTime /\ OnMeansBeating)'
  BY <1>1, <1>2, <1>3 DEF Alone, EnableSoFar, DisableSoFar, DogSoFar, BeatsInTime,
     OnMeansBeating, Enabling, Disabling, RemoveDir
<1>5. OnFile'
  BY <1>1, <1>2, <1>3, IdleAssumption DEF OnFile, Enabling, Disabling, Alone, EnableSoFar,
     DisableSoFar, DogSoFar, EnableStep, RevertStep, RemoveDir
<1>6. TableWatched'
  BY <1>1, <1>2, <1>3, IdleAssumption DEF TableWatched, Enabling, Disabling, OnFile, Alone,
     EnableSoFar, DisableSoFar, DogSoFar, EnableStep, RevertStep, RemoveDir
<1>7. ForwardWatched'
  BY <1>1, <1>2, <1>3, IdleAssumption DEF ForwardWatched, Enabling, Disabling, OnFile, Alone,
     EnableSoFar, DisableSoFar, DogSoFar, EnableStep, RevertStep, RemoveDir
<1> QED BY <1>1, <1>2, <1>3, <1>4, <1>5, <1>6, <1>7

\* The timer has fired, or the timer is not set.
LEMMA TickKeeps ==
  ASSUME GatewayInv, Calm, GatewayTick
  PROVE  GatewayInv'
<1> USE DEF GatewayInv
<1>1. /\ heartbeat => beaten
      /\ \A h \in Helpers : call[h] # Off => call[h].cmd = "status"
      /\ alive' = (IF Stale THEN alive ELSE alive + 1) /\ beaten' = FALSE
      /\ UNCHANGED <<broken, table, forward, rundir, saved, call, dog, up, mode, heartbeat, enables>>
  BY DEF GatewayTick, Busy, GatewayTypeOK, HelperRun, Command
<1>2. GatewayTypeOK'
  <2>1. alive \in 0 .. StaleAge + 1 /\ ~Stale => alive + 1 \in 0 .. StaleAge + 1
    BY GatewayAssumption DEF Stale
  <2>2. alive' \in 0 .. StaleAge + 1 \union {NoFile}
    BY <1>1, <2>1 DEF GatewayTypeOK, Stale
  <2> QED BY <1>1, <2>2 DEF GatewayTypeOK
<1>3. alive \in {0, 1} /\ ~Stale => alive' = alive + 1
  BY <1>1
<1>4. (OnFile /\ Alone /\ EnableSoFar /\ DisableSoFar /\ DogSoFar
      /\ OnMeansBeating /\ TableWatched /\ ForwardWatched)'
  BY <1>1, <1>2, <1>3 DEF OnFile, Alone, EnableSoFar, DisableSoFar, DogSoFar, OnMeansBeating,
     TableWatched, ForwardWatched, Enabling, Disabling, Stale
<1>5. BeatsInTime'
  BY <1>1, <1>2, <1>3, GatewayAssumption, IdleAssumption DEF BeatsInTime, Enabling,
     Disabling, EnableSoFar, HelperAt, EnableStep, RevertStep, Stale
<1> QED BY <1>1, <1>2, <1>3, <1>4, <1>5

-----------------------------------------------------------------------------
(* Every step.                                                             *)

LEMMA InitGateway == GatewayInit => GatewayInv
<1> SUFFICES ASSUME GatewayInit PROVE GatewayInv
  OBVIOUS
<1>1. GatewayTypeOK
  <2>1. /\ call \in [Helpers -> HelperRun \union {Off}]
        /\ dog \in [Dog -> {"sleep"} \union RevertStep \union {Off}]
    BY DEF GatewayInit
  <2>2. enables \in 0 .. MaxEnables
    BY GatewayAssumption DEF GatewayInit
  <2> QED BY <2>1, <2>2, GatewayAssumption DEF GatewayInit, GatewayTypeOK
<1>2. \A h \in Helpers : ~Enabling(h) /\ ~Disabling(h)
  BY DEF GatewayInit, Enabling, Disabling
<1>3. \A w \in Dog : dog[w] = Off /\ Off \notin RevertStep
  BY IdleAssumption DEF GatewayInit
<1> QED BY <1>1, <1>2, <1>3 DEF GatewayInit, GatewayInv, OnFile, Alone, EnableSoFar, DisableSoFar,
        DogSoFar, BeatsInTime, OnMeansBeating, TableWatched, ForwardWatched, RevertStep

LEMMA GatewayStays == Calm /\ GatewayInv /\ [GatewayNext]_gatewayVars => GatewayInv'
<1> SUFFICES ASSUME Calm, GatewayInv, [GatewayNext]_gatewayVars PROVE GatewayInv'
  OBVIOUS
<1>1. CASE UNCHANGED gatewayVars
  BY <1>1 DEF gatewayVars, os, plane, GatewayInv, OnFile, GatewayTypeOK, Alone, EnableSoFar,
              DisableSoFar, DogSoFar, BeatsInTime, OnMeansBeating, TableWatched, ForwardWatched,
              Enabling, Disabling, HelperAt
<1>2. ASSUME NEW h \in Helpers, Helper(h) PROVE GatewayInv'
  <2>1. CASE Touch(h)
    <3>1. call[h].cmd \in {"enable", "heartbeat"}
      BY <2>1 DEF Touch, HelperAt
    <3> QED BY <2>1, <3>1, TouchKeeps, BeatTouchKeeps
  <2>2. CASE Revert(h)
    <3>1. call[h].at \in {"delete", "restore", "remove"}
      BY <2>2 DEF Revert, HelperAt
    <3> QED BY <2>2, <3>1, DeleteKeeps, RestoreKeeps, RemoveKeeps
  <2> QED BY <1>2, <2>1, <2>2, MakeDirKeeps, SaveForwardKeeps, SetForwardKeeps, FlushTableKeeps,
             LoadTableKeeps, StartWatchdogKeeps, ReadStatusKeeps DEF Helper
<1>3. ASSUME NEW w \in Dog, DogReverts(w) PROVE GatewayInv'
  <2>1. dog[w] \in {"delete", "restore", "remove"}
    BY <1>3 DEF DogReverts
  <2> QED BY <1>3, <2>1, DogDeletes, DogRestores, DogRemoves
<1> QED
  BY <1>1, <1>2, <1>3, EnableKeeps, DisableKeeps, BeatKeeps, StatusKeeps, UnheardKeeps,
     ResultKeeps, AbortKeeps, CrashKeeps, RestartKeeps, WakeKeeps, TickKeeps DEF GatewayNext

-----------------------------------------------------------------------------
(* The theorems.                                                           *)

\* Whatever a crash, a restart or a failing command leaves behind, as long as
\* ip_forward is changed the value it had is on file (nexrelm-gateway.sh:25-26).
THEOREM ForwardIsRecoverable ==
  ASSUME Calm
  PROVE  GatewaySpec => []Recoverable
<1>1. GatewayInv => Recoverable
  BY DEF GatewayInv, OnFile, Recoverable
<1> QED BY <1>1, InitGateway, GatewayStays, PTL DEF GatewaySpec

\* Unless an enable broke off, nothing is left routed with no helper and no watchdog to
\* revert it, and what the control plane calls on is routed.
THEOREM RoutingIsWatched ==
  ASSUME Calm
  PROVE  GatewaySpec => []RoutingWatched
<1>1. GatewayInv => RoutingWatched
  <2> SUFFICES ASSUME GatewayInv, ~broken, ~Busy({"enable", "disable"})
               PROVE  /\ (\A w \in Dog : dog[w] = Off) => Reverted
                      /\ mode = "on" => table /\ forward = 1
    BY DEF RoutingWatched, NeverStranded
  <2>1. \A h \in Helpers : ~Enabling(h) /\ ~Disabling(h)
    BY DEF Busy, Enabling, Disabling
  <2>2. (\A w \in Dog : dog[w] = Off) => Reverted
    BY <2>1, IdleAssumption DEF GatewayInv, TableWatched, ForwardWatched, Reverted, RevertStep
  <2>3. mode = "on" => table /\ forward = 1
    BY <2>1 DEF GatewayInv, OnMeansBeating, BeatsInTime
  <2> QED BY <2>2, <2>3
<1> QED BY <1>1, InitGateway, GatewayStays, PTL DEF GatewaySpec

\* While the timer is set the heartbeat is at most a tick old, so no watchdog finds it
\* stale and takes down what the control plane keeps on.
THEOREM WatchdogWaits ==
  ASSUME Calm
  PROVE  GatewaySpec => WatchdogSparesLive
<1>1. GatewayInv => \A w \in Dog : Wake(w) => ~(heartbeat /\ mode = "on" /\ table)
  BY GatewayAssumption DEF GatewayInv, BeatsInTime, Wake, Stale
<1>2. GatewaySpec => [][\A w \in Dog : Wake(w) => ~(heartbeat /\ mode = "on" /\ table)]_gatewayVars
  BY <1>1, InitGateway, GatewayStays, PTL DEF GatewaySpec
<1> QED BY <1>2 DEF WatchdogSparesLive

-----------------------------------------------------------------------------
(* The installer and the admin command.                                    *)

\* What a script has still to do, by what it had to do when it was begun.
InstallPlan ==
  {<< >>, <<"files", "pin", "reload", "start", "setup">>, <<"pin", "reload", "start", "setup">>,
   <<"reload", "start", "setup">>, <<"start", "setup">>, <<"setup">>}
MovePlan ==
  {<< >>, <<"stop", "move", "pin", "reload", "start">>, <<"move", "pin", "reload", "start">>,
   <<"pin", "reload", "start">>, <<"reload", "start">>, <<"start">>}
ResetPlan ==
  {<< >>, <<"stop", "setAside", "fresh", "start">>, <<"setAside", "fresh", "start">>,
   <<"fresh", "start">>, <<"start">>}
RestorePlan ==
  {<< >>, <<"stop", "setAside", "extract", "start">>, <<"setAside", "extract", "start">>,
   <<"extract", "start">>, <<"start">>}
UninstallPlan ==
  {<< >>, <<"resolve", "stop", "units", "ungateway", "uncli">>,
   <<"stop", "units", "ungateway", "uncli">>, <<"units", "ungateway", "uncli">>,
   <<"ungateway", "uncli">>, <<"uncli">>}
PurgePlan ==
  {<< >>, <<"resolve", "stop", "units", "ungateway", "uncli", "delete">>,
   <<"stop", "units", "ungateway", "uncli", "delete">>,
   <<"units", "ungateway", "uncli", "delete">>, <<"ungateway", "uncli", "delete">>,
   <<"uncli", "delete">>, <<"delete">>}

Plan(name) ==
  CASE name = "install" -> InstallPlan [] name = "move" -> MovePlan
    [] name = "reset" -> ResetPlan [] name = "restore" -> RestorePlan
    [] name = "uninstall" -> UninstallPlan [] name = "purge" -> PurgePlan
    [] OTHER -> {<< >>}

Left == Len(script.steps)

Scripts == {"install", "move", "reset", "restore", "uninstall", "purge"}

\* Which step a script takes when so many are left.
Order ==
  {<<"install", 5, "files">>, <<"install", 4, "pin">>, <<"install", 3, "reload">>, <<"install", 2, "start">>, <<"install", 1, "setup">>,
   <<"move", 5, "stop">>, <<"move", 4, "move">>, <<"move", 3, "pin">>, <<"move", 2, "reload">>, <<"move", 1, "start">>,
   <<"reset", 4, "stop">>, <<"reset", 3, "setAside">>, <<"reset", 2, "fresh">>, <<"reset", 1, "start">>,
   <<"restore", 4, "stop">>, <<"restore", 3, "setAside">>, <<"restore", 2, "extract">>, <<"restore", 1, "start">>,
   <<"uninstall", 5, "resolve">>, <<"uninstall", 4, "stop">>, <<"uninstall", 3, "units">>, <<"uninstall", 2, "ungateway">>, <<"uninstall", 1, "uncli">>,
   <<"purge", 6, "resolve">>, <<"purge", 5, "stop">>, <<"purge", 4, "units">>, <<"purge", 3, "ungateway">>, <<"purge", 2, "uncli">>, <<"purge", 1, "delete">>}

LEMMA InstallPlanStep ==
  ASSUME NEW s \in InstallPlan, s # << >>
  PROVE  <<"install", Len(s), Head(s)>> \in Order /\ Tail(s) \in InstallPlan /\ Len(Tail(s)) = Len(s) - 1
<1>1. CASE s = <<"files", "pin", "reload", "start", "setup">>
  <2>1. Len(s) = 5 /\ Head(s) = "files"
    BY <1>1
  <2>2. Tail(s) = <<"pin", "reload", "start", "setup">> /\ Len(Tail(s)) = 4
    BY <1>1
  <2> QED BY <2>1, <2>2 DEF Order, InstallPlan
<1>2. CASE s = <<"pin", "reload", "start", "setup">>
  <2>1. Len(s) = 4 /\ Head(s) = "pin"
    BY <1>2
  <2>2. Tail(s) = <<"reload", "start", "setup">> /\ Len(Tail(s)) = 3
    BY <1>2
  <2> QED BY <2>1, <2>2 DEF Order, InstallPlan
<1>3. CASE s = <<"reload", "start", "setup">>
  <2>1. Len(s) = 3 /\ Head(s) = "reload"
    BY <1>3
  <2>2. Tail(s) = <<"start", "setup">> /\ Len(Tail(s)) = 2
    BY <1>3
  <2> QED BY <2>1, <2>2 DEF Order, InstallPlan
<1>4. CASE s = <<"start", "setup">>
  <2>1. Len(s) = 2 /\ Head(s) = "start"
    BY <1>4
  <2>2. Tail(s) = <<"setup">> /\ Len(Tail(s)) = 1
    BY <1>4
  <2> QED BY <2>1, <2>2 DEF Order, InstallPlan
<1>5. CASE s = <<"setup">>
  <2>1. Len(s) = 1 /\ Head(s) = "setup"
    BY <1>5
  <2>2. Tail(s) = << >> /\ Len(Tail(s)) = 0
    BY <1>5
  <2> QED BY <2>1, <2>2 DEF Order, InstallPlan
<1> QED BY <1>1, <1>2, <1>3, <1>4, <1>5 DEF InstallPlan

LEMMA MovePlanStep ==
  ASSUME NEW s \in MovePlan, s # << >>
  PROVE  <<"move", Len(s), Head(s)>> \in Order /\ Tail(s) \in MovePlan /\ Len(Tail(s)) = Len(s) - 1
<1>1. CASE s = <<"stop", "move", "pin", "reload", "start">>
  <2>1. Len(s) = 5 /\ Head(s) = "stop"
    BY <1>1
  <2>2. Tail(s) = <<"move", "pin", "reload", "start">> /\ Len(Tail(s)) = 4
    BY <1>1
  <2> QED BY <2>1, <2>2 DEF Order, MovePlan
<1>2. CASE s = <<"move", "pin", "reload", "start">>
  <2>1. Len(s) = 4 /\ Head(s) = "move"
    BY <1>2
  <2>2. Tail(s) = <<"pin", "reload", "start">> /\ Len(Tail(s)) = 3
    BY <1>2
  <2> QED BY <2>1, <2>2 DEF Order, MovePlan
<1>3. CASE s = <<"pin", "reload", "start">>
  <2>1. Len(s) = 3 /\ Head(s) = "pin"
    BY <1>3
  <2>2. Tail(s) = <<"reload", "start">> /\ Len(Tail(s)) = 2
    BY <1>3
  <2> QED BY <2>1, <2>2 DEF Order, MovePlan
<1>4. CASE s = <<"reload", "start">>
  <2>1. Len(s) = 2 /\ Head(s) = "reload"
    BY <1>4
  <2>2. Tail(s) = <<"start">> /\ Len(Tail(s)) = 1
    BY <1>4
  <2> QED BY <2>1, <2>2 DEF Order, MovePlan
<1>5. CASE s = <<"start">>
  <2>1. Len(s) = 1 /\ Head(s) = "start"
    BY <1>5
  <2>2. Tail(s) = << >> /\ Len(Tail(s)) = 0
    BY <1>5
  <2> QED BY <2>1, <2>2 DEF Order, MovePlan
<1> QED BY <1>1, <1>2, <1>3, <1>4, <1>5 DEF MovePlan

LEMMA ResetPlanStep ==
  ASSUME NEW s \in ResetPlan, s # << >>
  PROVE  <<"reset", Len(s), Head(s)>> \in Order /\ Tail(s) \in ResetPlan /\ Len(Tail(s)) = Len(s) - 1
<1>1. CASE s = <<"stop", "setAside", "fresh", "start">>
  <2>1. Len(s) = 4 /\ Head(s) = "stop"
    BY <1>1
  <2>2. Tail(s) = <<"setAside", "fresh", "start">> /\ Len(Tail(s)) = 3
    BY <1>1
  <2> QED BY <2>1, <2>2 DEF Order, ResetPlan
<1>2. CASE s = <<"setAside", "fresh", "start">>
  <2>1. Len(s) = 3 /\ Head(s) = "setAside"
    BY <1>2
  <2>2. Tail(s) = <<"fresh", "start">> /\ Len(Tail(s)) = 2
    BY <1>2
  <2> QED BY <2>1, <2>2 DEF Order, ResetPlan
<1>3. CASE s = <<"fresh", "start">>
  <2>1. Len(s) = 2 /\ Head(s) = "fresh"
    BY <1>3
  <2>2. Tail(s) = <<"start">> /\ Len(Tail(s)) = 1
    BY <1>3
  <2> QED BY <2>1, <2>2 DEF Order, ResetPlan
<1>4. CASE s = <<"start">>
  <2>1. Len(s) = 1 /\ Head(s) = "start"
    BY <1>4
  <2>2. Tail(s) = << >> /\ Len(Tail(s)) = 0
    BY <1>4
  <2> QED BY <2>1, <2>2 DEF Order, ResetPlan
<1> QED BY <1>1, <1>2, <1>3, <1>4 DEF ResetPlan

LEMMA RestorePlanStep ==
  ASSUME NEW s \in RestorePlan, s # << >>
  PROVE  <<"restore", Len(s), Head(s)>> \in Order /\ Tail(s) \in RestorePlan /\ Len(Tail(s)) = Len(s) - 1
<1>1. CASE s = <<"stop", "setAside", "extract", "start">>
  <2>1. Len(s) = 4 /\ Head(s) = "stop"
    BY <1>1
  <2>2. Tail(s) = <<"setAside", "extract", "start">> /\ Len(Tail(s)) = 3
    BY <1>1
  <2> QED BY <2>1, <2>2 DEF Order, RestorePlan
<1>2. CASE s = <<"setAside", "extract", "start">>
  <2>1. Len(s) = 3 /\ Head(s) = "setAside"
    BY <1>2
  <2>2. Tail(s) = <<"extract", "start">> /\ Len(Tail(s)) = 2
    BY <1>2
  <2> QED BY <2>1, <2>2 DEF Order, RestorePlan
<1>3. CASE s = <<"extract", "start">>
  <2>1. Len(s) = 2 /\ Head(s) = "extract"
    BY <1>3
  <2>2. Tail(s) = <<"start">> /\ Len(Tail(s)) = 1
    BY <1>3
  <2> QED BY <2>1, <2>2 DEF Order, RestorePlan
<1>4. CASE s = <<"start">>
  <2>1. Len(s) = 1 /\ Head(s) = "start"
    BY <1>4
  <2>2. Tail(s) = << >> /\ Len(Tail(s)) = 0
    BY <1>4
  <2> QED BY <2>1, <2>2 DEF Order, RestorePlan
<1> QED BY <1>1, <1>2, <1>3, <1>4 DEF RestorePlan

LEMMA UninstallPlanStep ==
  ASSUME NEW s \in UninstallPlan, s # << >>
  PROVE  <<"uninstall", Len(s), Head(s)>> \in Order /\ Tail(s) \in UninstallPlan /\ Len(Tail(s)) = Len(s) - 1
<1>1. CASE s = <<"resolve", "stop", "units", "ungateway", "uncli">>
  <2>1. Len(s) = 5 /\ Head(s) = "resolve"
    BY <1>1
  <2>2. Tail(s) = <<"stop", "units", "ungateway", "uncli">> /\ Len(Tail(s)) = 4
    BY <1>1
  <2> QED BY <2>1, <2>2 DEF Order, UninstallPlan
<1>2. CASE s = <<"stop", "units", "ungateway", "uncli">>
  <2>1. Len(s) = 4 /\ Head(s) = "stop"
    BY <1>2
  <2>2. Tail(s) = <<"units", "ungateway", "uncli">> /\ Len(Tail(s)) = 3
    BY <1>2
  <2> QED BY <2>1, <2>2 DEF Order, UninstallPlan
<1>3. CASE s = <<"units", "ungateway", "uncli">>
  <2>1. Len(s) = 3 /\ Head(s) = "units"
    BY <1>3
  <2>2. Tail(s) = <<"ungateway", "uncli">> /\ Len(Tail(s)) = 2
    BY <1>3
  <2> QED BY <2>1, <2>2 DEF Order, UninstallPlan
<1>4. CASE s = <<"ungateway", "uncli">>
  <2>1. Len(s) = 2 /\ Head(s) = "ungateway"
    BY <1>4
  <2>2. Tail(s) = <<"uncli">> /\ Len(Tail(s)) = 1
    BY <1>4
  <2> QED BY <2>1, <2>2 DEF Order, UninstallPlan
<1>5. CASE s = <<"uncli">>
  <2>1. Len(s) = 1 /\ Head(s) = "uncli"
    BY <1>5
  <2>2. Tail(s) = << >> /\ Len(Tail(s)) = 0
    BY <1>5
  <2> QED BY <2>1, <2>2 DEF Order, UninstallPlan
<1> QED BY <1>1, <1>2, <1>3, <1>4, <1>5 DEF UninstallPlan

LEMMA PurgePlanStep ==
  ASSUME NEW s \in PurgePlan, s # << >>
  PROVE  <<"purge", Len(s), Head(s)>> \in Order /\ Tail(s) \in PurgePlan /\ Len(Tail(s)) = Len(s) - 1
<1>1. CASE s = <<"resolve", "stop", "units", "ungateway", "uncli", "delete">>
  <2>1. Len(s) = 6 /\ Head(s) = "resolve"
    BY <1>1
  <2>2. Tail(s) = <<"stop", "units", "ungateway", "uncli", "delete">> /\ Len(Tail(s)) = 5
    BY <1>1
  <2> QED BY <2>1, <2>2 DEF Order, PurgePlan
<1>2. CASE s = <<"stop", "units", "ungateway", "uncli", "delete">>
  <2>1. Len(s) = 5 /\ Head(s) = "stop"
    BY <1>2
  <2>2. Tail(s) = <<"units", "ungateway", "uncli", "delete">> /\ Len(Tail(s)) = 4
    BY <1>2
  <2> QED BY <2>1, <2>2 DEF Order, PurgePlan
<1>3. CASE s = <<"units", "ungateway", "uncli", "delete">>
  <2>1. Len(s) = 4 /\ Head(s) = "units"
    BY <1>3
  <2>2. Tail(s) = <<"ungateway", "uncli", "delete">> /\ Len(Tail(s)) = 3
    BY <1>3
  <2> QED BY <2>1, <2>2 DEF Order, PurgePlan
<1>4. CASE s = <<"ungateway", "uncli", "delete">>
  <2>1. Len(s) = 3 /\ Head(s) = "ungateway"
    BY <1>4
  <2>2. Tail(s) = <<"uncli", "delete">> /\ Len(Tail(s)) = 2
    BY <1>4
  <2> QED BY <2>1, <2>2 DEF Order, PurgePlan
<1>5. CASE s = <<"uncli", "delete">>
  <2>1. Len(s) = 2 /\ Head(s) = "uncli"
    BY <1>5
  <2>2. Tail(s) = <<"delete">> /\ Len(Tail(s)) = 1
    BY <1>5
  <2> QED BY <2>1, <2>2 DEF Order, PurgePlan
<1>6. CASE s = <<"delete">>
  <2>1. Len(s) = 1 /\ Head(s) = "delete"
    BY <1>6
  <2>2. Tail(s) = << >> /\ Len(Tail(s)) = 0
    BY <1>6
  <2> QED BY <2>1, <2>2 DEF Order, PurgePlan
<1> QED BY <1>1, <1>2, <1>3, <1>4, <1>5, <1>6 DEF PurgePlan

LEMMA UninstallBegins ==
  /\ UninstallSteps(FALSE) \in UninstallPlan /\ Len(UninstallSteps(FALSE)) = 5
  /\ UninstallSteps(TRUE) \in PurgePlan /\ Len(UninstallSteps(TRUE)) = 6
<1> DEFINE a == <<"resolve", "stop", "units", "ungateway", "uncli">>
           b == <<"resolve", "stop", "units", "ungateway", "uncli", "delete">>
<1>1. UninstallSteps(FALSE) = a /\ Len(a) = 5
  <2>1. UninstallSteps(FALSE) = a \o << >>
    BY DEF UninstallSteps
  <2>2. a \o << >> = a
    OBVIOUS
  <2> QED BY <2>1, <2>2
<1>2. UninstallSteps(TRUE) = b /\ Len(b) = 6
  <2>1. UninstallSteps(TRUE) = a \o <<"delete">>
    BY DEF UninstallSteps
  <2> DEFINE T == {"resolve", "stop", "units", "ungateway", "uncli", "delete"}
             d == <<"delete">>
  <2>3. a \in Seq(T) /\ d \in Seq(T) /\ b \in Seq(T)
    OBVIOUS
  <2>4. Len(a) = 5 /\ Len(d) = 1 /\ Len(b) = 6
    OBVIOUS
  <2>5. a \o d \in Seq(T) /\ Len(a \o d) = 6
    BY <2>3, <2>4
  <2>6. \A i \in 1 .. 6 : (a \o d)[i] = b[i]
    <3>1. \A i \in 1 .. 5 : (a \o d)[i] = a[i]
      BY <2>3, <2>4
    <3>2. (a \o d)[6] = "delete"
      BY <2>3, <2>4
    <3>3. \A i \in 1 .. 5 : a[i] = b[i]
      OBVIOUS
    <3> QED BY <3>1, <3>2, <3>3
  <2>2. a \o <<"delete">> = b
    BY <2>3, <2>4, <2>5, <2>6, SeqEqual
  <2> QED BY <2>1, <2>2
<1> QED BY <1>1, <1>2 DEF UninstallPlan, PurgePlan

-----------------------------------------------------------------------------
InstallTypes ==
  /\ made \in 0 .. MaxData /\ dir \in [Places -> (0 .. made) \union {NoDir}]
  /\ service \in Places \union {NoPlace}
  /\ host \in [cli : BOOLEAN, unit : {"none", "good", "raw"}, pinned : Places \union {NoPlace},
               env : Places, gateway : {"none", "on", "off"}]
  /\ keep \in [aside : SUBSET (1 .. made), purged : SUBSET (1 .. made),
               backup : [data : 0 .. made, name : Places \union {NoPlace}]]
  /\ past \in [wanted : 0 .. made, ended : Scripts \union {"none"}, count : Nat,
               went : {"well", "rerun", "wrong"}]
  /\ script \in [steps : UNION {Plan(n) : n \in Scripts}, name : Scripts \union {"none"},
                 to : Places \union {NoPlace}]
  /\ script.steps \in Plan(script.name)

\* The script of a name runs, and so many steps of it are left.
On(name, least, most) == script.name = name /\ Left \in least .. most

\* The scripts that have stopped the control plane and not started it yet.
Halted ==
  \/ On("move", 1, 4) \/ On("reset", 1, 3) \/ On("restore", 1, 3)
  \/ On("uninstall", 1, 3) \/ On("purge", 1, 4)

\* What holds whatever breaks off.
AnyWay ==
  /\ NothingLost
  /\ Running => Data(service)
  /\ Halted => ~Running
  /\ On("install", 1, 1) => service = host.env
  /\ On("uninstall", 1, 1) \/ On("purge", 1, 2) => host.gateway = "none"
  /\ On("reset", 2, 2) \/ On("restore", 2, 2) => dir[host.env] = NoDir
  /\ keep.backup = NoBackup \/ keep.backup.data # 0
  /\ On("restore", 2, 4) => keep.backup.data # 0
  /\ On("move", 1, 5) \/ On("uninstall", 1, 4) \/ On("purge", 1, 5) => script.to \in Places
  /\ On("install", 1, 5) => script.to = Home
  /\ past.ended # "none" => Idle
  /\ past.ended \in {"uninstall", "purge"} => ~Running /\ host.gateway = "none"

\* A directory has the data that was used before, if there is such data.
Fits(p) == past.wanted \notin keep.purged \union {0} => dir[p] = past.wanted

NoData == \A p \in Places : ~Data(p)

\* Between scripts, and in them where nothing has moved yet or all has moved.
Settled ==
  \/ Idle /\ host.cli
  \/ On("move", 4, 5) \/ On("reset", 3, 4) \/ On("restore", 3, 4)
  \/ On("move", 1, 1) \/ On("reset", 1, 1) \/ On("restore", 1, 1) \/ On("install", 1, 2)

\* One directory at most has data, and it is the data in use.
OneData ==
  /\ \A p \in Places : Data(p) => dir[p] = past.wanted /\ past.wanted \notin keep.purged
  /\ \A p, q \in Places : Data(p) /\ Data(q) => p = q

\* Where the data is while a script moves or deletes it, or begins anew.
KnowsWhere ==
  /\ On("move", 2, 3) => Fits(script.to)
  /\ On("move", 2, 2) => host.pinned = script.to
  /\ On("reset", 2, 2) \/ On("restore", 2, 2) => host.env = Target /\ NoData
  /\ On("reset", 2, 2) => past.wanted = 0
  /\ On("purge", 6, 6) => Fits(host.env)
  /\ On("purge", 1, 5) => Fits(script.to)
  /\ On("install", 3, 3) => Fits(Home) /\ host.pinned = Home

\* The unit and the command come and go together.
Equipped ==
  /\ Idle /\ host.unit = "good" => host.cli
  /\ On("move", 1, 5) \/ On("reset", 1, 4) \/ On("restore", 1, 4) \/ On("install", 1, 4) => host.cli
  /\ On("uninstall", 1, 2) \/ On("purge", 1, 3) => host.unit = "none"
  /\ On("purge", 1, 1) => ~host.cli

\* What holds as long as nothing broke off or went wrong.
WentWell ==
  /\ OneData /\ KnowsWhere /\ Equipped
  /\ Running => dir[service] = past.wanted
  /\ Settled => host.env = Target /\ Fits(host.env)
  /\ past.ended = "purge" => NoData

InstallInv == InstallTypes /\ AnyWay /\ (past.went = "well" => WentWell)

LEMMA InstallInitInv == InstallationInit => InstallInv
<1> SUFFICES ASSUME InstallationInit PROVE InstallInv
  OBVIOUS
<1>1. Len(<< >>) = 0 /\ << >> \in Plan("none") /\ << >> \in Plan("install")
  BY DEF Plan, InstallPlan
<1>2. InstallTypes
  BY <1>1, InstallationAssumption
     DEF InstallationInit, InstallTypes, NoBackup, Nobody, Scripts
<1>4. AnyWay
  <2>1. Idle /\ script.name = "none"
    BY DEF InstallationInit, Idle, Nobody
  <2> QED BY <2>1 DEF InstallationInit, AnyWay, On, Halted, NothingLost, Running
<1>5. WentWell
  <2>1. Idle /\ script.name = "none" /\ ~host.cli /\ ~Running /\ NoData
    BY DEF InstallationInit, Idle, Nobody, Running, NoData, Data
  <2>2. Nobody.name = "none" /\ (\A name, a, b : name # "none" => ~On(name, a, b))
    BY <2>1 DEF Nobody, On
  <2>3. OneData /\ KnowsWhere /\ Equipped /\ ~Settled
    BY <2>1, <2>2 DEF InstallationInit, OneData, KnowsWhere, Equipped, Settled, NoData
  <2> QED BY <2>1, <2>3 DEF InstallationInit, WentWell
<1> QED BY <1>2, <1>4, <1>5 DEF InstallInv

\* Where a script is when it is to take a step.
LEMMA AtPlace ==
  ASSUME InstallTypes, ~Idle
  PROVE  /\ <<script.name, Left, Head(script.steps)>> \in Order
         /\ Tail(script.steps) \in Plan(script.name) /\ Len(Tail(script.steps)) = Left - 1
         /\ script.name \in Scripts
<1>1. script.steps \in Plan(script.name) /\ script.steps # << >>
  BY DEF InstallTypes, Idle
<1>2. script.name \in Scripts
  BY <1>1 DEF InstallTypes, Plan, Scripts
<1> QED BY <1>1, <1>2, InstallPlanStep, MovePlanStep, ResetPlanStep, RestorePlanStep,
           UninstallPlanStep, PurgePlanStep DEF Scripts, Plan, Left

LEMMA IdleLeft == InstallTypes => (Idle <=> Left = 0) /\ Left \in Nat
<1> SUFFICES ASSUME InstallTypes PROVE (Idle <=> Left = 0) /\ Left \in Nat
  OBVIOUS
<1>1. CASE Idle
  BY <1>1 DEF Idle, Left
<1>2. CASE ~Idle
  <2>1. <<script.name, Left, Head(script.steps)>> \in Order
    BY <1>2, AtPlace
  <2> QED BY <1>2, <2>1 DEF Order
<1> QED BY <1>1, <1>2

\* A script that takes a step has one less to take.
LEMMA ScriptGoesOn ==
  ASSUME InstallTypes, ~Idle,
         script'.steps = Tail(script.steps), script'.name = script.name
  PROVE  /\ script'.steps \in Plan(script'.name) /\ Left' = Left - 1 /\ Left \in 1 .. 6
         /\ script'.steps \in UNION {Plan(n) : n \in Scripts}
         /\ <<script.name, Left, Head(script.steps)>> \in Order
         /\ (Idle' <=> Left' = 0)
<1>1. /\ <<script.name, Left, Head(script.steps)>> \in Order
      /\ Tail(script.steps) \in Plan(script.name) /\ Len(Tail(script.steps)) = Left - 1
      /\ script.name \in Scripts
  BY AtPlace
<1>2. Left \in 1 .. 6
  BY <1>1 DEF Order
<1>3. ASSUME NEW rest \in Plan(script.name), rest # << >> PROVE Len(rest) # 0
  <2>1. <<script.name, Len(rest), Head(rest)>> \in Order
    BY <1>1, <1>3, InstallPlanStep, MovePlanStep, ResetPlanStep, RestorePlanStep,
       UninstallPlanStep, PurgePlanStep DEF Scripts, Plan
  <2> QED BY <2>1 DEF Order
<1>4. Idle' <=> Left' = 0
  <2>1. Len(<< >>) = 0
    OBVIOUS
  <2> QED BY <1>1, <1>3, <2>1 DEF Idle, Left
<1> QED BY <1>1, <1>2, <1>4 DEF Left

-----------------------------------------------------------------------------
\* A script is begun.
LEMMA BeginKeeps ==
  ASSUME InstallInv, NEW name \in Scripts, NEW to \in Places \union {NoPlace},
         NEW steps \in Plan(name), Begin(name, to, steps),
         <<name, Len(steps)>> \in {<<"install", 5>>, <<"move", 5>>, <<"reset", 4>>,
                                   <<"restore", 4>>, <<"uninstall", 5>>, <<"purge", 6>>},
         name = "install" => to = Home, name = "move" => to \in Places,
         name # "install" => host.cli, name = "restore" => keep.backup.data # 0
  PROVE  InstallInv'
<1>1. /\ script' = [steps |-> steps, name |-> name, to |-> to] /\ Left' = Len(steps)
      /\ UNCHANGED <<dir, service, host, keep, made>> /\ Idle /\ Left = 0
      /\ past'.wanted = past.wanted /\ past'.ended = "none" /\ past'.went = past.went
  BY IdleLeft DEF Begin, Left, InstallInv, InstallTypes
<1>5. \/ name \in {"install", "move", "uninstall"} /\ Left' = 5
      \/ name \in {"reset", "restore"} /\ Left' = 4
      \/ name = "purge" /\ Left' = 6
  BY <1>1
<1>6. script'.name = name /\ script'.to = to
  BY <1>1
<1>2. InstallTypes'
  <2>1. past' \in [wanted : 0 .. made, ended : Scripts \union {"none"}, count : Nat,
                   went : {"well", "rerun", "wrong"}]
    <3>1. past \in [wanted : 0 .. made, ended : Scripts \union {"none"}, count : Nat,
                     went : {"well", "rerun", "wrong"}]
      BY DEF InstallInv, InstallTypes
    <3>2. past' = [past EXCEPT !.ended = "none", !.count = @ + 1]
      BY DEF Begin
    <3>3. past.count + 1 \in Nat
      BY <3>1
    <3> QED BY <1>1, <3>1, <3>2, <3>3
  <2>2. script' \in [steps : UNION {Plan(n) : n \in Scripts}, name : Scripts \union {"none"},
                     to : Places \union {NoPlace}]
    BY <1>1
  <2> QED BY <1>1, <2>1, <2>2 DEF InstallInv, InstallTypes
<1>3. AnyWay'
  <2>1. AnyWay
    BY DEF InstallInv
  <2>2. NothingLost' /\ (Running => Data(service))'
    BY <1>1, <2>1 DEF AnyWay, NothingLost, Running, Data
  <2>6. ~Halted'
    BY <1>5, <1>6 DEF On, Halted
  <2>3. (On("restore", 2, 4) => keep.backup.data # 0)'
    BY <1>1, <1>5, <1>6 DEF On
  <2>4. /\ (On("install", 1, 1) => service = host.env)'
        /\ (On("uninstall", 1, 1) \/ On("purge", 1, 2) => host.gateway = "none")'
        /\ (On("reset", 2, 2) \/ On("restore", 2, 2) => dir[host.env] = NoDir)'
    BY <1>5, <1>6 DEF On
  <2>5. /\ (On("move", 1, 5) \/ On("uninstall", 1, 4) \/ On("purge", 1, 5) => script.to \in Places)'
        /\ (On("install", 1, 5) => script.to = Home)'
    BY <1>5, <1>6 DEF On
  <2> QED BY <1>1, <2>1, <2>2, <2>3, <2>4, <2>5, <2>6 DEF AnyWay
<1>4. ASSUME past.went = "well" PROVE WentWell'
  <2>1. WentWell
    BY <1>4 DEF InstallInv
  <2>2. host.cli => host.env = Target /\ Fits(host.env)
    BY <1>1, <2>1 DEF WentWell, OneData, KnowsWhere, Equipped, Settled
  <2>9. ~Idle'
    BY <1>1, <1>5 DEF Idle, Left
  <2>3. Settled' => name # "install"
    BY <1>5, <1>6, <2>9 DEF On, Settled
  <2>4. (Settled => host.env = Target /\ Fits(host.env))'
    BY <1>1, <2>2, <2>3 DEF Target, Fits
  <2>5. /\ ~On("move", 2, 3)' /\ ~On("move", 2, 2)' /\ ~On("reset", 2, 2)'
        /\ ~On("restore", 2, 2)' /\ ~On("purge", 1, 5)' /\ ~On("install", 3, 3)'
        /\ ~On("uninstall", 1, 2)' /\ ~On("purge", 1, 3)' /\ ~On("install", 1, 4)'
        /\ ~On("purge", 1, 1)'
    BY <1>5, <1>6 DEF On
  <2>6. (On("purge", 6, 6) => Fits(host.env))'
    BY <1>1, <1>6, <2>2 DEF On, Fits
  <2>7. /\ \A p \in Places : Data(p)' => dir'[p] = past'.wanted /\ past'.wanted \notin keep'.purged
        /\ \A p, q \in Places : Data(p)' /\ Data(q)' => p = q
        /\ Running' => dir'[service'] = past'.wanted
    BY <1>1, <2>1 DEF WentWell, OneData, KnowsWhere, Equipped, Data, Running
  <2>8. (On("move", 1, 5) \/ On("reset", 1, 4) \/ On("restore", 1, 4) => host.cli)'
    BY <1>1, <1>6 DEF On
  <2> QED BY <1>1, <2>4, <2>5, <2>6, <2>7, <2>8, <2>9 DEF WentWell, OneData, KnowsWhere, Equipped
<1> QED BY <1>1, <1>2, <1>3, <1>4 DEF InstallInv

LEMMA BeginsKeep ==
  ASSUME InstallInv,
         Install \/ Reset \/ Restore \/ (\E p \in Places : MoveData(p))
           \/ \E purge \in BOOLEAN : Uninstall(purge)
  PROVE  InstallInv'
<1> USE InstallationAssumption
<1>1. CASE Install
  <2>1. <<"files", "pin", "reload", "start", "setup">> \in Plan("install")
        /\ Len(<<"files", "pin", "reload", "start", "setup">>) = 5
    BY DEF Plan, InstallPlan
  <2> QED BY <1>1, <2>1, BeginKeeps DEF Install, Scripts
<1>2. CASE Reset
  <2>1. <<"stop", "setAside", "fresh", "start">> \in Plan("reset")
        /\ Len(<<"stop", "setAside", "fresh", "start">>) = 4
    BY DEF Plan, ResetPlan
  <2> QED BY <1>2, <2>1, BeginKeeps DEF Reset, Scripts
<1>3. CASE Restore
  <2>1. <<"stop", "setAside", "extract", "start">> \in Plan("restore")
        /\ Len(<<"stop", "setAside", "extract", "start">>) = 4
    BY DEF Plan, RestorePlan
  <2>2. keep.backup.data # 0
    BY <1>3 DEF Restore, InstallInv, AnyWay
  <2> QED BY <1>3, <2>1, <2>2, BeginKeeps DEF Restore, Scripts
<1>4. ASSUME NEW p \in Places, MoveData(p) PROVE InstallInv'
  <2>1. MoveSteps \in Plan("move") /\ Len(MoveSteps) = 5
    BY DEF Plan, MovePlan, MoveSteps
  <2> QED BY <1>4, <2>1, BeginKeeps DEF MoveData, Scripts
<1>5. ASSUME Uninstall(TRUE) PROVE InstallInv'
  BY <1>5, UninstallBegins, BeginKeeps DEF Uninstall, Scripts, Plan
<1>6. ASSUME Uninstall(FALSE) PROVE InstallInv'
  BY <1>6, UninstallBegins, BeginKeeps DEF Uninstall, Scripts, Plan
<1> QED BY <1>1, <1>2, <1>3, <1>4, <1>5, <1>6


-----------------------------------------------------------------------------
\* The data of the directories and what is known of it stay as they are.
DataStays == UNCHANGED <<dir, keep, made>> /\ past'.wanted = past.wanted

\* A step of a script by which no data moves: what is known of the data stays.
LEMMA StillThere ==
  ASSUME DataStays
  PROVE  /\ NothingLost => NothingLost'
         /\ OneData => OneData'
         /\ \A p : (Data(p)' <=> Data(p)) /\ (Fits(p)' <=> Fits(p))
         /\ NoData' <=> NoData
  BY DEF DataStays, NothingLost, OneData, Data, Fits, NoData

\* What the types say of a record, before it is changed.
LEMMA InstallTyped ==
  ASSUME InstallTypes
  PROVE  /\ past'.wanted \in 0 .. made' /\ past'.ended \in Scripts \union {"none"}
             /\ past'.count = past.count /\ past'.went \in {"well", "rerun", "wrong"}
             /\ past' = [past EXCEPT !.wanted = past'.wanted, !.ended = past'.ended,
                                     !.went = past'.went]
           => past' \in [wanted : 0 .. made', ended : Scripts \union {"none"}, count : Nat,
                         went : {"well", "rerun", "wrong"}]
         /\ past.wanted \in 0 .. made /\ past.ended \in Scripts \union {"none"}
         /\ past.went \in {"well", "rerun", "wrong"} /\ host.env \in Places
  BY DEF InstallTypes

LEMMA Goes ==
  ASSUME InstallTypes, ~Idle, Then
  PROVE  /\ script'.name = script.name /\ script'.to = script.to
         /\ script' \in [steps : UNION {Plan(n) : n \in Scripts}, name : Scripts \union {"none"},
                         to : Places \union {NoPlace}]
         /\ script'.steps \in Plan(script'.name)
         /\ <<script.name, Left, Head(script.steps)>> \in Order
         /\ Left' = Left - 1 /\ (Idle' <=> Left' = 0)
         /\ Ended \in Scripts \union {"none"}
         /\ (Ended = IF Left = 1 THEN script.name ELSE past.ended)
<1>1. script' = [script EXCEPT !.steps = Tail(@)]
  BY DEF Then
<1>2. script \in [steps : UNION {Plan(n) : n \in Scripts}, name : Scripts \union {"none"},
                  to : Places \union {NoPlace}]
  BY DEF InstallTypes
<1>3. script'.steps = Tail(script.steps) /\ script'.name = script.name /\ script'.to = script.to
  BY <1>1, <1>2
<1>4. /\ script'.steps \in Plan(script'.name) /\ Left' = Left - 1
      /\ script'.steps \in UNION {Plan(n) : n \in Scripts}
      /\ <<script.name, Left, Head(script.steps)>> \in Order /\ (Idle' <=> Left' = 0)
  BY <1>3, ScriptGoesOn
<1>5. Ended \in Scripts \union {"none"}
  BY <1>2, InstallTyped DEF Ended
<1>6. Ended = IF Left = 1 THEN script.name ELSE past.ended
  BY DEF Ended, Left
<1> QED BY <1>1, <1>2, <1>3, <1>4, <1>5, <1>6

\* The control plane is stopped.
LEMMA StopKeeps ==
  ASSUME InstallInv, StepStop
  PROVE  InstallInv'
<1> USE DEF InstallInv
<1>1. /\ ~Idle /\ Head(script.steps) = "stop" /\ Then
      /\ service' = NoPlace /\ UNCHANGED <<dir, host, keep, made, past>>
  BY DEF StepStop, AtStep
<1>2. /\ script'.name = script.name /\ script'.to = script.to
      /\ Left' = Left - 1 /\ (Idle' <=> Left' = 0) /\ <<script.name, Left, "stop">> \in Order
  BY <1>1, Goes
<1>4. \/ script.name = "move" /\ Left = 5
      \/ script.name \in {"reset", "restore", "uninstall"} /\ Left = 4
      \/ script.name = "purge" /\ Left = 5
  BY <1>2 DEF Order
<1>5. InstallTypes'
  BY <1>1, Goes DEF InstallTypes
<1>6. ~Running' /\ DataStays
  BY <1>1 DEF Running, DataStays
<1>7. AnyWay'
  <2>1. /\ NothingLost' /\ ~On("install", 1, 1)' /\ ~On("uninstall", 1, 1)' /\ ~On("purge", 1, 2)'
        /\ ~On("reset", 2, 2)' /\ ~On("restore", 2, 2)' /\ ~On("install", 1, 5)'
    BY <1>2, <1>4, <1>6, StillThere DEF On, AnyWay
  <2>2. (On("restore", 2, 4) => keep.backup.data # 0)'
    BY <1>1, <1>2, <1>4 DEF On, AnyWay
  <2>3. (On("move", 1, 5) \/ On("uninstall", 1, 4) \/ On("purge", 1, 5) => script.to \in Places)'
    BY <1>2, <1>4 DEF On, AnyWay
  <2> QED BY <1>1, <1>6, <2>1, <2>2, <2>3 DEF AnyWay
<1>8. ASSUME past.went = "well" PROVE WentWell'
  <2>1. OneData /\ KnowsWhere /\ Equipped /\ (Settled => host.env = Target /\ Fits(host.env))
    BY <1>8 DEF WentWell
  <2>2. OneData' /\ \A p : (Data(p)' <=> Data(p)) /\ (Fits(p)' <=> Fits(p))
    BY <1>6, <2>1, StillThere
  <2>4. ~Idle' /\ (Settled' => Settled)
    BY <1>2, <1>4 DEF On, Settled
  <2>5. (Settled => host.env = Target /\ Fits(host.env))'
    BY <1>1, <2>1, <2>2, <2>4 DEF Target
  <2>6. /\ ~On("move", 2, 3)' /\ ~On("move", 2, 2)' /\ ~On("reset", 2, 2)'
        /\ ~On("restore", 2, 2)' /\ ~On("purge", 6, 6)' /\ ~On("install", 3, 3)'
        /\ ~On("uninstall", 1, 2)' /\ ~On("purge", 1, 3)' /\ ~On("install", 1, 4)' /\ ~On("purge", 1, 1)'
    BY <1>2, <1>4 DEF On
  <2>7. (On("purge", 1, 5) => Fits(script.to))'
    BY <1>2, <1>4, <2>1, <2>2 DEF On, KnowsWhere
  <2>8. (On("move", 1, 5) \/ On("reset", 1, 4) \/ On("restore", 1, 4) => host.cli)'
    BY <1>1, <1>2, <1>4, <2>1 DEF On, Equipped
  <2>9. past'.ended # "purge"
    BY <1>1 DEF AnyWay
  <2> QED BY <1>6, <2>2, <2>4, <2>5, <2>6, <2>7, <2>8, <2>9 DEF WentWell, KnowsWhere, Equipped
<1> QED BY <1>1, <1>5, <1>7, <1>8

\* The installer writes the command and the unit.
LEMMA FilesKeep ==
  ASSUME InstallInv, StepFiles, AtStep("files")
  PROVE  InstallInv'
<1> USE DEF InstallInv
<1>1. /\ ~Idle /\ Head(script.steps) = "files" /\ Then
      /\ UNCHANGED <<dir, service, keep, made>>
      /\ host' = [host EXCEPT !.cli = TRUE, !.unit = "good"]
      /\ past' = [past EXCEPT !.ended = Ended]
  BY DEF StepFiles, AtStep
<1>2. /\ script'.name = script.name /\ script'.to = script.to
      /\ Left' = Left - 1 /\ (Idle' <=> Left' = 0) /\ <<script.name, Left, "files">> \in Order
  BY <1>1, Goes
<1>3. script.name = "install" /\ Left = 5 /\ Left' = 4 /\ ~Idle'
  BY <1>2 DEF Order
<1>4. /\ host'.cli /\ host'.env = host.env /\ host'.pinned = host.pinned /\ host'.gateway = host.gateway
      /\ past'.wanted = past.wanted /\ past'.went = past.went /\ past'.ended = past.ended
  BY <1>1, <1>3, Goes DEF InstallTypes
<1>5. InstallTypes'
  BY <1>1, Goes DEF InstallTypes
<1>6. DataStays
  BY <1>1, <1>4 DEF DataStays
<1>7. AnyWay'
  <2>1. ~Halted' /\ NothingLost'
    BY <1>2, <1>3, <1>6, StillThere DEF Halted, On, AnyWay
  <2>2. past'.ended = "none" /\ script'.to = Home
    BY <1>1, <1>2, <1>3, <1>4 DEF AnyWay, On
  <2>3. (Running => Data(service))'
    BY <1>1, <1>6, StillThere DEF Running, AnyWay, Data
  <2>4. (keep.backup = NoBackup \/ keep.backup.data # 0)'
    BY <1>1 DEF AnyWay
  <2> QED BY <1>2, <1>3, <2>1, <2>2, <2>3, <2>4 DEF AnyWay, On
<1>8. ASSUME past'.went = "well" PROVE WentWell'
  <2>1. WentWell
    BY <1>4, <1>8
  <2>2. OneData' /\ ~Settled' /\ past'.ended # "purge"
    BY <1>1, <1>2, <1>3, <1>4, <1>6, <2>1, StillThere DEF Settled, On, WentWell, AnyWay
  <2>3. KnowsWhere' /\ Equipped'
    BY <1>2, <1>3, <1>4 DEF KnowsWhere, Equipped, On
  <2>4. (Running => dir[service] = past.wanted)'
    BY <1>1, <1>4, <2>1 DEF WentWell, Running
  <2> QED BY <2>2, <2>3, <2>4 DEF WentWell
<1> QED BY <1>4, <1>5, <1>7, <1>8

\* A script pins the directory of the data.
LEMMA PinKeeps ==
  ASSUME InstallInv, StepFiles, AtStep("pin")
  PROVE  InstallInv'
<1> USE DEF InstallInv
<1>1. /\ ~Idle /\ Head(script.steps) = "pin" /\ Then
      /\ UNCHANGED <<dir, service, keep, made>>
      /\ host' = [host EXCEPT !.pinned = script.to]
      /\ past' = [past EXCEPT !.ended = Ended,
                              !.went = IF /\ script.name = "install" /\ @ = "well"
                                          /\ Wanted(dir[Home]) # dir[Home]
                                       THEN "rerun" ELSE @]
  BY DEF StepFiles, AtStep
<1>2. /\ script'.name = script.name /\ script'.to = script.to
      /\ Left' = Left - 1 /\ (Idle' <=> Left' = 0) /\ <<script.name, Left, "pin">> \in Order
  BY <1>1, Goes
<1>3. /\ \/ script.name = "install" /\ Left = 4
         \/ script.name = "move" /\ Left = 3
      /\ ~Idle'
  BY <1>2 DEF Order
<1>4. /\ host'.cli = host.cli /\ host'.env = host.env /\ host'.pinned = script.to /\ host'.gateway = host.gateway
      /\ host'.unit = host.unit /\ past'.wanted = past.wanted /\ past'.ended = past.ended
  BY <1>1, <1>3, Goes DEF InstallTypes
<1>5. InstallTypes'
  <2>1. script.to \in Places \union {NoPlace}
    BY DEF InstallTypes
  <2>2. host' \in [cli : BOOLEAN, unit : {"none", "good", "raw"}, pinned : Places \union {NoPlace},
                   env : Places, gateway : {"none", "on", "off"}]
    BY <1>1, <2>1 DEF InstallTypes
  <2>3. past' \in [wanted : 0 .. made, ended : Scripts \union {"none"}, count : Nat,
                   went : {"well", "rerun", "wrong"}]
    BY <1>1, Goes DEF InstallTypes
  <2> QED BY <1>1, <2>2, <2>3, Goes DEF InstallTypes
<1>6. DataStays
  BY <1>1, <1>4 DEF DataStays
<1>7. AnyWay'
  <2>1. NothingLost' /\ (Halted' => ~Running')
    BY <1>1, <1>2, <1>3, <1>6, StillThere DEF Halted, On, AnyWay, Running
  <2>2. past'.ended = "none"
    BY <1>1, <1>4 DEF AnyWay
  <2>5. /\ (On("install", 1, 5) => script.to = Home)'
        /\ (On("move", 1, 5) \/ On("uninstall", 1, 4) \/ On("purge", 1, 5) => script.to \in Places)'
    BY <1>2, <1>3 DEF AnyWay, On
  <2>3. (Running => Data(service))'
    BY <1>1, <1>6, StillThere DEF Running, AnyWay, Data
  <2>4. (keep.backup = NoBackup \/ keep.backup.data # 0)'
    BY <1>1 DEF AnyWay
  <2> QED BY <1>2, <1>3, <2>1, <2>2, <2>3, <2>4, <2>5 DEF AnyWay, On
<1>8. ASSUME past'.went = "well" PROVE WentWell'
  <2>0. past.went = "well" /\ (script.name = "install" => Wanted(dir[Home]) = dir[Home])
    BY <1>1, <1>8 DEF InstallTypes
  <2>1. WentWell
    BY <2>0
  <2>2. OneData' /\ ~Settled' /\ past'.ended # "purge"
    BY <1>1, <1>2, <1>3, <1>4, <1>6, <2>1, StillThere DEF Settled, On, WentWell, AnyWay
  <2>6. script.name = "install" => Fits(Home)' /\ script.to = Home
    BY <1>3, <1>6, <2>0, StillThere DEF Fits, Wanted, On, AnyWay
  <2>7. script.name = "move" => Fits(script.to)
    BY <1>3, <2>1 DEF WentWell, KnowsWhere, On
  <2>8. script.name = "move" => Fits(script.to)'
    BY <1>2, <1>6, <2>7, StillThere DEF Fits, DataStays
  <2>3. KnowsWhere'
    <3>1. (On("move", 2, 3) => Fits(script.to))' /\ (On("move", 2, 2) => host.pinned = script.to)'
      BY <1>2, <1>4, <2>8 DEF On
    <3>2. (On("install", 3, 3) => Fits(Home) /\ host.pinned = Home)'
      BY <1>2, <1>4, <2>6 DEF On, Fits
    <3> QED BY <1>2, <1>3, <3>1, <3>2 DEF KnowsWhere, On
  <2>5. Equipped'
    BY <1>2, <1>3, <1>4, <2>1 DEF WentWell, Equipped, On
  <2>4. (Running => dir[service] = past.wanted)'
    BY <1>1, <1>4, <2>1 DEF WentWell, Running
  <2> QED BY <2>2, <2>3, <2>4, <2>5 DEF WentWell
<1> QED BY <1>5, <1>7, <1>8

\* systemd reads the files.
LEMMA ReloadKeeps ==
  ASSUME InstallInv, StepFiles, AtStep("reload")
  PROVE  InstallInv'
<1> USE DEF InstallInv
<1>1. /\ ~Idle /\ Head(script.steps) = "reload" /\ Then
      /\ UNCHANGED <<dir, service, keep, made>>
      /\ host' = [host EXCEPT !.env = Target]
      /\ past' = [past EXCEPT !.ended = Ended]
  BY DEF StepFiles, AtStep, Target
<1>2. /\ script'.name = script.name /\ script'.to = script.to
      /\ Left' = Left - 1 /\ (Idle' <=> Left' = 0) /\ <<script.name, Left, "reload">> \in Order
  BY <1>1, Goes
<1>3. /\ \/ script.name = "install" /\ Left = 3
         \/ script.name = "move" /\ Left = 2
      /\ ~Idle'
  BY <1>2 DEF Order
<1>0. Target \in Places
  BY InstallationAssumption DEF Target, InstallTypes
<1>4. /\ host'.cli = host.cli /\ host'.env = Target /\ host'.pinned = host.pinned /\ host'.gateway = host.gateway
      /\ host'.unit = host.unit /\ past'.wanted = past.wanted /\ past'.ended = past.ended /\ past'.went = past.went
      /\ Target' = Target
  BY <1>1, <1>3, Goes DEF InstallTypes, Target
<1>5. InstallTypes'
  <2>2. host' \in [cli : BOOLEAN, unit : {"none", "good", "raw"}, pinned : Places \union {NoPlace},
                   env : Places, gateway : {"none", "on", "off"}]
    BY <1>0, <1>1 DEF InstallTypes
  <2>3. past' \in [wanted : 0 .. made, ended : Scripts \union {"none"}, count : Nat,
                   went : {"well", "rerun", "wrong"}]
    BY <1>1, Goes DEF InstallTypes
  <2> QED BY <1>1, <2>2, <2>3, Goes DEF InstallTypes
<1>6. DataStays
  BY <1>1, <1>4 DEF DataStays
<1>7. AnyWay'
  <2>1. NothingLost' /\ (Halted' => ~Running')
    BY <1>1, <1>2, <1>3, <1>6, StillThere DEF Halted, On, AnyWay, Running
  <2>2. past'.ended = "none"
    BY <1>1, <1>4 DEF AnyWay
  <2>5. /\ (On("install", 1, 5) => script.to = Home)'
        /\ (On("move", 1, 5) \/ On("uninstall", 1, 4) \/ On("purge", 1, 5) => script.to \in Places)'
    BY <1>2, <1>3 DEF AnyWay, On
  <2>3. (Running => Data(service))'
    BY <1>1, <1>6, StillThere DEF Running, AnyWay, Data
  <2>4. (keep.backup = NoBackup \/ keep.backup.data # 0)'
    BY <1>1 DEF AnyWay
  <2> QED BY <1>2, <1>3, <2>1, <2>2, <2>3, <2>4, <2>5 DEF AnyWay, On
<1>8. ASSUME past'.went = "well" PROVE WentWell'
  <2>1. WentWell
    BY <1>4, <1>8
  <2>2. OneData' /\ past'.ended # "purge"
    BY <1>1, <1>4, <1>6, <2>1, StillThere DEF WentWell, AnyWay
  <2>6. Fits(Target)
    <3>1. CASE script.name = "install"
      <4>1. Fits(Home) /\ host.pinned = Home
        BY <1>3, <2>1, <3>1 DEF WentWell, KnowsWhere, On
      <4> QED BY <4>1, InstallationAssumption DEF Target
    <3>2. CASE script.name = "move"
      <4>1. Fits(script.to) /\ host.pinned = script.to /\ script.to \in Places
        BY <1>3, <2>1, <3>2 DEF WentWell, KnowsWhere, On, AnyWay
      <4> QED BY <4>1, InstallationAssumption DEF Target
    <3> QED BY <1>3, <3>1, <3>2
  <2>7. (Settled => host.env = Target /\ Fits(host.env))'
    BY <1>4, <1>6, <2>6, StillThere DEF Fits, DataStays
  <2>3. KnowsWhere'
    BY <1>2, <1>3 DEF KnowsWhere, On
  <2>5. Equipped'
    BY <1>2, <1>3, <1>4, <2>1 DEF WentWell, Equipped, On
  <2>4. (Running => dir[service] = past.wanted)'
    BY <1>1, <1>4, <2>1 DEF WentWell, Running
  <2> QED BY <2>2, <2>3, <2>4, <2>5, <2>7 DEF WentWell
<1> QED BY <1>4, <1>5, <1>7, <1>8

\* The uninstaller takes the command away.
LEMMA UncliKeeps ==
  ASSUME InstallInv, StepFiles, AtStep("uncli")
  PROVE  InstallInv'
<1> USE DEF InstallInv
<1>1. /\ ~Idle /\ Head(script.steps) = "uncli" /\ Then
      /\ UNCHANGED <<dir, service, keep, made>>
      /\ host' = [host EXCEPT !.cli = FALSE]
      /\ past' = [past EXCEPT !.ended = Ended]
  BY DEF StepFiles, AtStep
<1>2. /\ script'.name = script.name /\ script'.to = script.to
      /\ Left' = Left - 1 /\ (Idle' <=> Left' = 0) /\ <<script.name, Left, "uncli">> \in Order
  BY <1>1, Goes
<1>3. \/ script.name = "uninstall" /\ Left = 1 /\ Idle'
      \/ script.name = "purge" /\ Left = 2 /\ ~Idle'
  BY <1>2 DEF Order
<1>4. /\ ~host'.cli /\ host'.env = host.env /\ host'.pinned = host.pinned /\ host'.gateway = host.gateway
      /\ host'.unit = host.unit /\ past'.wanted = past.wanted /\ past'.went = past.went
      /\ past'.ended = (IF script.name = "uninstall" THEN "uninstall" ELSE past.ended)
  BY <1>1, <1>3, Goes DEF InstallTypes
<1>5. InstallTypes'
  <2>2. host' \in [cli : BOOLEAN, unit : {"none", "good", "raw"}, pinned : Places \union {NoPlace},
                   env : Places, gateway : {"none", "on", "off"}]
    BY <1>1 DEF InstallTypes
  <2>3. past' \in [wanted : 0 .. made, ended : Scripts \union {"none"}, count : Nat,
                   went : {"well", "rerun", "wrong"}]
    BY <1>1, Goes DEF InstallTypes
  <2> QED BY <1>1, <2>2, <2>3, Goes DEF InstallTypes
<1>6. DataStays
  BY <1>1, <1>4 DEF DataStays
<1>7. AnyWay'
  <2>1. NothingLost' /\ ~Running' /\ host'.gateway = "none"
    BY <1>1, <1>3, <1>4, <1>6, StillThere DEF Halted, On, AnyWay, Running
  <2>2. past'.ended # "none" => Idle'
    BY <1>1, <1>3, <1>4 DEF AnyWay
  <2>5. (On("purge", 1, 5) => script.to \in Places)'
    BY <1>2, <1>3 DEF AnyWay, On
  <2>6. ~On("uninstall", 1, 5)'
    BY <1>2, <1>3 DEF On
  <2>4. (keep.backup = NoBackup \/ keep.backup.data # 0)'
    BY <1>1 DEF AnyWay
  <2> QED BY <1>2, <1>3, <2>1, <2>2, <2>4, <2>5, <2>6 DEF AnyWay, On
<1>8. ASSUME past'.went = "well" PROVE WentWell'
  <2>1. WentWell
    BY <1>4, <1>8
  <2>2. OneData' /\ ~Settled' /\ ~Running'
    BY <1>1, <1>2, <1>3, <1>4, <1>6, <2>1, StillThere DEF WentWell, AnyWay, Settled, On, Halted, Running
  <2>9. past'.ended # "purge"
    BY <1>1, <1>4 DEF AnyWay
  <2>6. script.name = "purge" => Fits(script.to)'
    <3>1. script.name = "purge" => Fits(script.to)
      BY <1>3, <2>1 DEF WentWell, KnowsWhere, On
    <3> QED BY <1>2, <1>6, <3>1, StillThere DEF Fits, DataStays
  <2>3. KnowsWhere'
    BY <1>2, <1>3, <2>6 DEF KnowsWhere, On
  <2>5. Equipped'
    <3>1. host.unit = "none"
      BY <1>3, <2>1 DEF WentWell, Equipped, On
    <3> QED BY <1>2, <1>3, <1>4, <3>1 DEF Equipped, On
  <2> QED BY <2>2, <2>3, <2>5, <2>9 DEF WentWell
<1> QED BY <1>4, <1>5, <1>7, <1>8

\* A program that finds no data makes its own: none is lost, and there is one.
LEMMA FilledKeeps ==
  ASSUME InstallTypes, NEW p \in Places, Filled(p), UNCHANGED keep
  PROVE  /\ made' \in 0 .. MaxData /\ made \in 0 .. made'
         /\ dir' \in [Places -> (0 .. made') \union {NoDir}]
         /\ NothingLost => NothingLost'
         /\ dir'[p] \in 1 .. made'
         /\ \A q \in Places : q # p => dir'[q] = dir[q]
         /\ Wanted(dir'[p]) \in 0 .. made'
         /\ OneData /\ Fits(p) =>
              /\ Wanted(dir'[p]) = dir'[p] /\ dir'[p] \notin keep.purged
              /\ \A q \in Places : dir'[q] \notin {NoDir, 0} => q = p
<1> USE InstallationAssumption
<1>1. /\ made \in 0 .. MaxData /\ dir \in [Places -> (0 .. made) \union {NoDir}]
      /\ past.wanted \in 0 .. made /\ keep.purged \subseteq 1 .. made
  BY DEF InstallTypes
<1>2. CASE Data(p)
  <2>1. UNCHANGED <<dir, made>>
    BY <1>2 DEF Filled
  <2>2. dir[p] \in 1 .. made
    BY <1>1, <1>2 DEF Data
  <2>3. NothingLost => NothingLost'
    BY <2>1 DEF NothingLost
  <2>4. ASSUME OneData, Fits(p)
        PROVE  Wanted(dir[p]) = dir[p] /\ dir[p] \notin keep.purged
               /\ \A q \in Places : dir[q] \notin {NoDir, 0} => q = p
    BY <1>2, <2>2, <2>4 DEF OneData, Wanted, Data
  <2> QED BY <1>1, <2>1, <2>2, <2>3, <2>4 DEF Wanted
<1>3. CASE ~Data(p)
  <2>1. /\ made < MaxData /\ made' = made + 1
        /\ dir' = [dir EXCEPT ![p] = made + 1]
    BY <1>3 DEF Filled
  <2>2. dir'[p] = made + 1 /\ \A q \in Places : q # p => dir'[q] = dir[q]
    BY <1>1, <2>1
  <2>6. made' \in 0 .. MaxData /\ made \in 0 .. made' /\ dir'[p] \in 1 .. made'
    BY <1>1, <2>1, <2>2
  <2>7. 0 .. made \subseteq 0 .. made' /\ made + 1 \in 0 .. made'
    BY <1>1, <2>1
  <2>8. dir' \in [Places -> (0 .. made') \union {NoDir}]
    BY <1>1, <2>1, <2>7
  <2>3. ASSUME NothingLost PROVE NothingLost'
    <3> SUFFICES ASSUME NEW d \in 1 .. made'
                 PROVE  d \in keep.aside \union keep.purged \/ \E q \in Places : dir'[q] = d
      BY DEF NothingLost
    <3>1. CASE d = made + 1
      BY <2>2, <3>1
    <3>2. CASE d # made + 1
      <4>1. d \in 1 .. made /\ d \notin {NoDir, 0}
        BY <1>1, <2>1, <3>2
      <4>2. \A q \in Places : dir[q] = d => q # p
        BY <1>3, <4>1 DEF Data
      <4> QED BY <2>2, <2>3, <4>1, <4>2 DEF NothingLost
    <3> QED BY <3>1, <3>2
  <2>4. ASSUME OneData, Fits(p)
        PROVE  Wanted(dir'[p]) = dir'[p] /\ dir'[p] \notin keep.purged
               /\ \A q \in Places : dir'[q] \notin {NoDir, 0} => q = p
    <3>1. past.wanted \in keep.purged \union {0}
      <4>1. past.wanted # NoDir
        BY <1>1
      <4> QED BY <1>3, <2>4, <4>1 DEF Fits, Data
    <3>2. made + 1 \notin keep.purged
      BY <1>1
    <3>3. \A q \in Places : ~Data(q)
      BY <1>1, <2>4, <3>1 DEF OneData, Data
    <3> QED BY <2>2, <3>1, <3>2, <3>3 DEF Wanted, Data
  <2>5. Wanted(dir'[p]) \in 0 .. made'
    BY <1>1, <2>6, <2>7 DEF Wanted
  <2> QED BY <2>2, <2>3, <2>4, <2>5, <2>6, <2>8
<1> QED BY <1>2, <1>3

\* What is typed stays typed when there is more data.
LEMMA MoreData ==
  ASSUME InstallTypes, made' \in Nat, made \in 0 .. made'
  PROVE  /\ keep \in [aside : SUBSET (1 .. made'), purged : SUBSET (1 .. made'),
                      backup : [data : 0 .. made', name : Places \union {NoPlace}]]
         /\ past \in [wanted : 0 .. made', ended : Scripts \union {"none"}, count : Nat,
                      went : {"well", "rerun", "wrong"}]
<1>1. 0 .. made \subseteq 0 .. made' /\ 1 .. made \subseteq 1 .. made'
  BY InstallationAssumption DEF InstallTypes
<1>2. keep.backup \in [data : 0 .. made', name : Places \union {NoPlace}]
  BY <1>1 DEF InstallTypes
<1> QED BY <1>1, <1>2 DEF InstallTypes

\* The control plane is started.
LEMMA StartKeeps ==
  ASSUME InstallInv, StepStart
  PROVE  InstallInv'
<1> USE InstallationAssumption DEF InstallInv
<1>1. /\ ~Idle /\ Head(script.steps) = "start" /\ Then
      /\ Filled(host.env) /\ service' = host.env /\ host.unit = "good"
      /\ past' = [past EXCEPT !.wanted = Wanted(dir'[host.env]), !.ended = Ended]
      /\ UNCHANGED <<host, keep, admin>>
  BY DEF StepStart, AtStep
<1>2. /\ script'.name = script.name /\ script'.to = script.to
      /\ Left' = Left - 1 /\ (Idle' <=> Left' = 0) /\ <<script.name, Left, "start">> \in Order
  BY <1>1, Goes
<1>3. \/ script.name = "install" /\ Left = 2 /\ ~Idle'
      \/ script.name \in {"move", "reset", "restore"} /\ Left = 1 /\ Idle'
  BY <1>2 DEF Order
<1>4. /\ past'.wanted = Wanted(dir'[host.env]) /\ past'.went = past.went
      /\ past'.ended \in {past.ended, "move", "reset", "restore"}
      /\ (past'.ended # past.ended => Idle')
  BY <1>1, <1>3, Goes DEF InstallTypes
<1>0. host.env \in Places
  BY DEF InstallTypes
<1>f. /\ made' \in 0 .. MaxData /\ made \in 0 .. made'
      /\ dir' \in [Places -> (0 .. made') \union {NoDir}]
      /\ NothingLost => NothingLost'
      /\ dir'[host.env] \in 1 .. made'
      /\ \A q \in Places : q # host.env => dir'[q] = dir[q]
      /\ Wanted(dir'[host.env]) \in 0 .. made'
      /\ OneData /\ Fits(host.env) =>
           /\ Wanted(dir'[host.env]) = dir'[host.env] /\ dir'[host.env] \notin keep.purged
           /\ \A q \in Places : dir'[q] \notin {NoDir, 0} => q = host.env
  BY <1>0, <1>1, FilledKeeps
<1>5. InstallTypes'
  <2>1. made' \in Nat
    BY <1>f
  <2>2. /\ keep \in [aside : SUBSET (1 .. made'), purged : SUBSET (1 .. made'),
                     backup : [data : 0 .. made', name : Places \union {NoPlace}]]
        /\ past \in [wanted : 0 .. made', ended : Scripts \union {"none"}, count : Nat,
                     went : {"well", "rerun", "wrong"}]
    BY <1>f, <2>1, MoreData
  <2>3. past' \in [wanted : 0 .. made', ended : Scripts \union {"none"}, count : Nat,
                   went : {"well", "rerun", "wrong"}]
    BY <1>1, <1>f, <2>2, Goes
  <2>4. service' \in Places \union {NoPlace} /\ host' = host
    BY <1>0, <1>1
  <2> QED BY <1>1, <1>f, <2>2, <2>3, <2>4, Goes DEF InstallTypes
<1>6. Running' /\ Data(service)' /\ service' = host'.env
  BY <1>0, <1>1, <1>f DEF Running, Data
<1>7. AnyWay'
  <2>1. NothingLost' /\ ~Halted'
    BY <1>f, <1>2, <1>3 DEF Halted, On, AnyWay
  <2>2. /\ past'.ended # "none" => Idle'
        /\ past'.ended \notin {"uninstall", "purge"}
    BY <1>1, <1>4 DEF AnyWay
  <2>5. /\ ~On("uninstall", 1, 1)' /\ ~On("purge", 1, 2)' /\ ~On("reset", 2, 2)'
        /\ ~On("restore", 2, 4)' /\ ~On("restore", 2, 2)' /\ ~On("move", 1, 5)' /\ ~On("uninstall", 1, 4)'
        /\ ~On("purge", 1, 5)'
    BY <1>2, <1>3 DEF On
  <2>6. (On("install", 1, 5) => script.to = Home)'
    BY <1>2, <1>3 DEF AnyWay, On
  <2>4. (keep.backup = NoBackup \/ keep.backup.data # 0)'
    BY <1>1 DEF AnyWay
  <2> QED BY <1>6, <2>1, <2>2, <2>4, <2>5, <2>6 DEF AnyWay
<1>8. ASSUME past'.went = "well" PROVE WentWell'
  <2>1. WentWell /\ Settled
    BY <1>3, <1>4, <1>8 DEF Settled, On
  <2>2. OneData /\ host.env = Target /\ Fits(host.env) /\ host.cli
    BY <1>3, <2>1 DEF WentWell, Equipped, On
  <2>3. past'.wanted = dir'[host.env]
    BY <1>4, <1>f, <2>2
  <2>4. OneData'
    BY <1>0, <1>1, <1>f, <2>2, <2>3 DEF OneData, Data
  <2>5. (host.env = Target /\ Fits(host.env))'
    BY <1>1, <2>2, <2>3 DEF Target, Fits
  <2>6. KnowsWhere' /\ Equipped'
    BY <1>1, <1>2, <1>3, <2>2 DEF KnowsWhere, Equipped, On
  <2>7. past'.ended # "purge" /\ dir'[service'] = past'.wanted
    BY <1>1, <1>4, <2>3 DEF AnyWay
  <2> QED BY <2>4, <2>5, <2>6, <2>7 DEF WentWell
<1> QED BY <1>4, <1>5, <1>7, <1>8

\* A unit that names no user fails to start.
LEMMA StartFails ==
  ASSUME InstallInv, StepStartFails
  PROVE  InstallInv'
<1> USE InstallationAssumption DEF InstallInv
<1>1. /\ ~Idle /\ Head(script.steps) = "start" /\ host.unit # "good"
      /\ service' = NoPlace /\ script' = Nobody
      /\ UNCHANGED <<dir, host, keep, admin, made, past>>
  BY DEF StepStartFails, AtStep
<1>2. <<script.name, Left, "start">> \in Order
  BY <1>1, AtPlace
<1>3. \/ script.name = "install" /\ Left = 2
      \/ script.name \in {"move", "reset", "restore"} /\ Left = 1
  BY <1>2 DEF Order
<1>4. /\ script'.name = "none" /\ script'.steps = << >> /\ script'.to = NoPlace
      /\ Idle' /\ ~Running' /\ << >> \in Plan("none") /\ << >> \in Plan("install")
  BY <1>1 DEF Nobody, Idle, Running, Plan, InstallPlan
<1>n. \A name \in Scripts : \A a, b : ~On(name, a, b)'
  BY <1>4 DEF On, Scripts
<1>5. InstallTypes'
  BY <1>1, <1>4 DEF InstallTypes, Scripts, Nobody
<1>6. DataStays
  BY <1>1 DEF DataStays
<1>7. AnyWay'
  BY <1>1, <1>4, <1>6, <1>n, StillThere DEF AnyWay, Halted, Scripts
<1>8. ASSUME past'.went = "well" PROVE WentWell'
  <2>1. WentWell /\ Settled
    BY <1>1, <1>3, <1>8 DEF Settled, On
  <2>2. OneData /\ host.env = Target /\ Fits(host.env)
    BY <2>1 DEF WentWell
  <2>3. OneData' /\ (host.env = Target /\ Fits(host.env))'
    BY <1>1, <1>6, <2>2, StillThere DEF Target
  <2>4. KnowsWhere' /\ Equipped'
    BY <1>1, <1>n DEF KnowsWhere, Equipped, Scripts
  <2>5. past'.ended # "purge"
    BY <1>1 DEF AnyWay
  <2> QED BY <1>4, <2>3, <2>4, <2>5 DEF WentWell
<1> QED BY <1>1, <1>5, <1>7, <1>8

\* `nexrelm setup` finds the data of the control plane that was just started.
LEMMA SetupKeeps ==
  ASSUME InstallInv, StepSetup
  PROVE  InstallInv'
<1> USE InstallationAssumption DEF InstallInv
<1>1. /\ ~Idle /\ Head(script.steps) = "setup" /\ Then
      /\ Filled(host.env) /\ past' = [past EXCEPT !.ended = Ended]
      /\ UNCHANGED <<service, host, keep>>
  BY DEF StepSetup, AtStep
<1>2. /\ script'.name = script.name /\ script'.to = script.to
      /\ Left' = Left - 1 /\ (Idle' <=> Left' = 0) /\ <<script.name, Left, "setup">> \in Order
  BY <1>1, Goes
<1>3. script.name = "install" /\ Left = 1 /\ Idle'
  BY <1>2 DEF Order
<1>0. host.env \in Places /\ service = host.env /\ Running
  BY <1>3 DEF InstallTypes, AnyWay, On, Running
<1>f. UNCHANGED <<dir, made>>
  BY <1>0, <1>1 DEF AnyWay, Filled
<1>4. past'.wanted = past.wanted /\ past'.went = past.went /\ past'.ended = "install"
  BY <1>1, <1>3, Goes DEF InstallTypes
<1>5. InstallTypes'
  <2>3. past' \in [wanted : 0 .. made, ended : Scripts \union {"none"}, count : Nat,
                   went : {"well", "rerun", "wrong"}]
    BY <1>1, Goes DEF InstallTypes
  <2> QED BY <1>1, <1>f, <2>3, Goes DEF InstallTypes
<1>6. DataStays
  BY <1>1, <1>4, <1>f DEF DataStays
<1>n. \A name \in Scripts : \A a, b \in 1 .. 6 : ~On(name, a, b)'
  BY <1>2, <1>3 DEF On
<1>7. AnyWay'
  <2>1. Running' /\ Data(service)' /\ NothingLost'
    BY <1>0, <1>1, <1>f, <1>6, StillThere DEF Running, AnyWay, Data
  <2>2. (keep.backup = NoBackup \/ keep.backup.data # 0)'
    BY <1>1 DEF AnyWay
  <2> QED BY <1>3, <1>4, <1>n, <2>1, <2>2 DEF AnyWay, Halted, Scripts
<1>8. ASSUME past'.went = "well" PROVE WentWell'
  <2>1. WentWell /\ Settled
    BY <1>3, <1>4, <1>8 DEF Settled, On
  <2>2. OneData /\ host.env = Target /\ Fits(host.env) /\ host.cli
    BY <1>3, <2>1 DEF WentWell, Equipped, On
  <2>3. OneData' /\ (host.env = Target /\ Fits(host.env))'
    BY <1>1, <1>6, <2>2, StillThere DEF Target
  <2>4. KnowsWhere' /\ Equipped'
    BY <1>1, <1>n, <2>2 DEF KnowsWhere, Equipped, Scripts
  <2>5. (Running => dir[service] = past.wanted)'
    BY <1>1, <1>4, <1>f, <2>1 DEF WentWell, Running
  <2> QED BY <1>4, <2>3, <2>4, <2>5 DEF WentWell
<1> QED BY <1>4, <1>5, <1>7, <1>8

\* The data moves to the directory that is to be used.
LEMMA MoveKeeps ==
  ASSUME InstallInv, StepMove
  PROVE  InstallInv'
<1> USE InstallationAssumption DEF InstallInv
<1>1. /\ ~Idle /\ Head(script.steps) = "move" /\ Then
      /\ UNCHANGED <<service, host, made>>
  BY DEF StepMove, AtStep
<1>2. /\ script'.name = script.name /\ script'.to = script.to
      /\ Left' = Left - 1 /\ (Idle' <=> Left' = 0) /\ <<script.name, Left, "move">> \in Order
  BY <1>1, Goes
<1>3. script.name = "move" /\ Left = 4 /\ ~Idle'
  BY <1>2 DEF Order
<1>0. host.env \in Places /\ script.to \in Places /\ dir \in [Places -> (0 .. made) \union {NoDir}]
      /\ made \in 0 .. MaxData
  BY <1>3 DEF InstallTypes, AnyWay, On
<1>c. \/ dir[host.env] = NoDir
         /\ dir' = [dir EXCEPT ![script.to] = IF @ = NoDir THEN 0 ELSE @] /\ UNCHANGED <<keep, past>>
      \/ dir[host.env] # NoDir /\ dir[script.to] = NoDir
         /\ dir' = [dir EXCEPT ![script.to] = dir[host.env], ![host.env] = NoDir]
         /\ UNCHANGED <<keep, past>>
      \/ dir[host.env] # NoDir /\ dir[script.to] # NoDir
         /\ dir' = [dir EXCEPT ![host.env] = NoDir]
         /\ keep' = [keep EXCEPT !.aside = @ \union ({dir[host.env]} \ {0})]
         /\ past' = [past EXCEPT !.went = "wrong"]
  BY DEF StepMove
<1>d. /\ dir' \in [Places -> (0 .. made) \union {NoDir}]
      /\ keep' \in [aside : SUBSET (1 .. made), purged : SUBSET (1 .. made),
                    backup : [data : 0 .. made, name : Places \union {NoPlace}]]
      /\ past' \in [wanted : 0 .. made, ended : Scripts \union {"none"}, count : Nat,
                    went : {"well", "rerun", "wrong"}]
      /\ keep'.purged = keep.purged /\ keep'.backup = keep.backup
      /\ past'.wanted = past.wanted /\ past'.ended = past.ended
  <2>1. /\ keep \in [aside : SUBSET (1 .. made), purged : SUBSET (1 .. made),
                    backup : [data : 0 .. made, name : Places \union {NoPlace}]]
        /\ past \in [wanted : 0 .. made, ended : Scripts \union {"none"}, count : Nat,
                    went : {"well", "rerun", "wrong"}]
    BY DEF InstallTypes
  <2>2. dir' \in [Places -> (0 .. made) \union {NoDir}]
    BY <1>0, <1>c
  <2>3. dir[host.env] # NoDir => keep.aside \union ({dir[host.env]} \ {0}) \in SUBSET (1 .. made)
    BY <1>0, <2>1
  <2> QED BY <1>c, <2>1, <2>2, <2>3
<1>5. InstallTypes'
  BY <1>1, <1>d, Goes DEF InstallTypes
<1>l. NothingLost'
  <2> SUFFICES ASSUME NEW d \in 1 .. made
               PROVE  d \in keep'.aside \union keep'.purged \/ \E p \in Places : dir'[p] = d
    BY <1>1 DEF NothingLost
  <2>1. d \in keep.aside \union keep.purged \/ \E p \in Places : dir[p] = d
    BY DEF AnyWay, NothingLost
  <2>2. d # 0 /\ d # NoDir /\ keep.aside \subseteq keep'.aside
    BY <1>0, <1>c DEF InstallTypes
  <2>3. ASSUME NEW p \in Places, dir[p] = d
        PROVE  d \in keep'.aside \/ \E q \in Places : dir'[q] = d
    <3>1. CASE p = host.env
      <4>1. dir[host.env] # NoDir
        BY <2>2, <2>3, <3>1
      <4>2. CASE dir[script.to] = NoDir
        <5>1. dir' = [dir EXCEPT ![script.to] = dir[host.env], ![host.env] = NoDir]
          BY <1>c, <4>1, <4>2
        <5>2. script.to # host.env
          BY <4>1, <4>2
        <5> QED BY <1>0, <2>3, <3>1, <5>1, <5>2
      <4>3. CASE dir[script.to] # NoDir
        <5>1. keep' = [keep EXCEPT !.aside = @ \union ({dir[host.env]} \ {0})]
          BY <1>c, <4>1, <4>3
        <5>2. dir[host.env] \in keep'.aside
          BY <2>2, <2>3, <3>1, <5>1 DEF InstallTypes
        <5> QED BY <2>3, <3>1, <5>2
      <4> QED BY <4>2, <4>3
    <3>2. CASE p # host.env
      <4>1. dir'[p] = dir[p]
        BY <1>0, <1>c, <2>2, <2>3, <3>2
      <4> QED BY <2>3, <4>1
    <3> QED BY <3>1, <3>2
  <2> QED BY <1>d, <2>1, <2>2, <2>3
<1>6. ~Running'
  BY <1>1, <1>3 DEF Running, AnyWay, Halted, On
<1>7. AnyWay'
  <2>1. /\ ~On("install", 1, 1)' /\ ~On("uninstall", 1, 1)' /\ ~On("purge", 1, 2)'
        /\ ~On("reset", 2, 2)' /\ ~On("restore", 2, 2)' /\ ~On("install", 1, 5)' /\ ~On("restore", 2, 4)'
    BY <1>2, <1>3 DEF On
  <2>2. past'.ended = "none" /\ script'.to \in Places
    BY <1>0, <1>1, <1>2, <1>d DEF AnyWay
  <2>4. (keep.backup = NoBackup \/ keep.backup.data # 0)'
    BY <1>d DEF AnyWay
  <2> QED BY <1>l, <1>6, <2>1, <2>2, <2>4 DEF AnyWay
<1>8. ASSUME past'.went = "well" PROVE WentWell'
  <2>0. past.went = "well" /\ past' = past /\ keep' = keep
    BY <1>c, <1>8 DEF InstallTypes
  <2>1. WentWell /\ Settled
    BY <1>3, <2>0 DEF Settled, On
  <2>2. OneData /\ Fits(host.env)
    BY <2>1 DEF WentWell
  <2>3. OneData' /\ Fits(script.to)'
    <3>1. CASE dir[host.env] = NoDir
      <4>1. dir' = [dir EXCEPT ![script.to] = IF @ = NoDir THEN 0 ELSE @]
        BY <1>c, <3>1
      <4>2. past.wanted \in keep.purged \union {0}
        <5>1. past.wanted # NoDir
          BY <1>0 DEF InstallTypes
        <5> QED BY <2>2, <3>1, <5>1 DEF Fits
      <4>3. \A p \in Places : Data(p)' => Data(p) /\ dir'[p] = dir[p]
        BY <1>0, <4>1 DEF Data
      <4> QED BY <2>0, <2>2, <4>2, <4>3 DEF OneData, Fits
    <3>2. CASE dir[host.env] # NoDir
      <4>1. dir[script.to] = NoDir
        BY <1>c, <1>8, <3>2 DEF InstallTypes
      <4>2. dir' = [dir EXCEPT ![script.to] = dir[host.env], ![host.env] = NoDir] /\ script.to # host.env
        BY <1>c, <3>2, <4>1
      <4>3. /\ dir'[script.to] = dir[host.env] /\ dir'[host.env] = NoDir
            /\ \A p \in Places : p \notin {script.to, host.env} => dir'[p] = dir[p]
        BY <1>0, <4>2
      <4>4. Fits(script.to)'
        BY <1>2, <2>0, <2>2, <4>3 DEF Fits
      <4>5. CASE Data(host.env)
        <5>1. dir[host.env] = past.wanted /\ past.wanted \notin keep.purged
              /\ \A p \in Places : Data(p) => p = host.env
          BY <1>0, <2>2, <4>5 DEF OneData
        <5>2. \A p \in Places : Data(p)' => p = script.to
          BY <4>3, <5>1 DEF Data
        <5> QED BY <2>0, <4>3, <4>4, <5>1, <5>2 DEF OneData
      <4>6. CASE ~Data(host.env)
        <5>1. \A p \in Places : Data(p)' => Data(p) /\ dir'[p] = dir[p]
          BY <1>0, <4>3, <4>6 DEF Data
        <5> QED BY <2>0, <2>2, <4>4, <5>1 DEF OneData
      <4> QED BY <4>5, <4>6
    <3> QED BY <3>1, <3>2
  <2>4. ~Settled' /\ past'.ended # "purge"
    BY <1>1, <1>2, <1>3, <2>0 DEF Settled, On, AnyWay
  <2>5. KnowsWhere'
    BY <1>2, <1>3, <2>3 DEF KnowsWhere, On
  <2>6. Equipped'
    BY <1>1, <1>2, <1>3, <2>1 DEF WentWell, Equipped, On
  <2> QED BY <1>6, <2>3, <2>4, <2>5, <2>6 DEF WentWell
<1>9. past'.went = "well" => past.went = "well"
  BY <1>c DEF InstallTypes
<1> QED BY <1>5, <1>7, <1>8

\* reset and restore rename the directory.
LEMMA SetAsideKeeps ==
  ASSUME InstallInv, StepSetAside
  PROVE  InstallInv'
<1> USE InstallationAssumption DEF InstallInv
<1>1. /\ ~Idle /\ Head(script.steps) = "setAside" /\ Then
      /\ keep' = [keep EXCEPT !.aside = @ \union ({dir[host.env]} \ {0, NoDir})]
      /\ dir' = [dir EXCEPT ![host.env] = NoDir]
      /\ past' = IF script.name = "reset" THEN [past EXCEPT !.wanted = 0] ELSE past
      /\ UNCHANGED <<service, host, made>>
  BY DEF StepSetAside, AtStep
<1>2. /\ script'.name = script.name /\ script'.to = script.to
      /\ Left' = Left - 1 /\ (Idle' <=> Left' = 0) /\ <<script.name, Left, "setAside">> \in Order
  BY <1>1, Goes
<1>3. script.name \in {"reset", "restore"} /\ Left = 3 /\ ~Idle'
  BY <1>2 DEF Order
<1>0. /\ host.env \in Places /\ dir \in [Places -> (0 .. made) \union {NoDir}] /\ made \in 0 .. MaxData
      /\ past.wanted \in 0 .. made
  BY DEF InstallTypes
<1>4. /\ past'.wanted = (IF script.name = "reset" THEN 0 ELSE past.wanted)
      /\ past'.ended = past.ended /\ past'.went = past.went
      /\ keep'.purged = keep.purged /\ keep'.backup = keep.backup
      /\ keep'.aside = keep.aside \union ({dir[host.env]} \ {0, NoDir})
  BY <1>1 DEF InstallTypes
<1>d. /\ dir'[host.env] = NoDir /\ \A p \in Places : p # host.env => dir'[p] = dir[p]
      /\ dir' \in [Places -> (0 .. made) \union {NoDir}]
  BY <1>0, <1>1
<1>5. InstallTypes'
  <2>1. /\ keep \in [aside : SUBSET (1 .. made), purged : SUBSET (1 .. made),
                    backup : [data : 0 .. made, name : Places \union {NoPlace}]]
        /\ past \in [wanted : 0 .. made, ended : Scripts \union {"none"}, count : Nat,
                    went : {"well", "rerun", "wrong"}]
    BY DEF InstallTypes
  <2>2. {dir[host.env]} \ {0, NoDir} \in SUBSET (1 .. made)
    BY <1>0
  <2>3. past' \in [wanted : 0 .. made, ended : Scripts \union {"none"}, count : Nat,
                   went : {"well", "rerun", "wrong"}]
    BY <1>0, <1>1, <2>1
  <2>4. keep' \in [aside : SUBSET (1 .. made), purged : SUBSET (1 .. made),
                   backup : [data : 0 .. made, name : Places \union {NoPlace}]]
    BY <1>1, <2>1, <2>2
  <2> QED BY <1>1, <1>d, <2>3, <2>4, Goes DEF InstallTypes
<1>l. NothingLost'
  <2> SUFFICES ASSUME NEW d \in 1 .. made
               PROVE  d \in keep'.aside \union keep'.purged \/ \E p \in Places : dir'[p] = d
    BY <1>1 DEF NothingLost
  <2>1. d \in keep.aside \union keep.purged \/ \E p \in Places : dir[p] = d
    BY DEF AnyWay, NothingLost
  <2>2. d # 0 /\ d # NoDir
    BY <1>0
  <2> QED BY <1>4, <1>d, <2>1, <2>2
<1>6. ~Running'
  BY <1>1, <1>3 DEF Running, AnyWay, Halted, On
<1>7. AnyWay'
  <2>1. /\ ~On("install", 1, 1)' /\ ~On("uninstall", 1, 1)' /\ ~On("purge", 1, 2)'
        /\ ~On("install", 1, 5)' /\ ~On("move", 1, 5)' /\ ~On("uninstall", 1, 4)' /\ ~On("purge", 1, 5)'
    BY <1>2, <1>3 DEF On
  <2>2. past'.ended = "none" /\ dir'[host'.env] = NoDir
    BY <1>1, <1>4, <1>d DEF AnyWay
  <2>3. (On("restore", 2, 4) => keep.backup.data # 0)'
    BY <1>2, <1>3, <1>4 DEF AnyWay, On
  <2>4. (keep.backup = NoBackup \/ keep.backup.data # 0)'
    BY <1>4 DEF AnyWay
  <2> QED BY <1>l, <1>6, <2>1, <2>2, <2>3, <2>4 DEF AnyWay
<1>8. ASSUME past'.went = "well" PROVE WentWell'
  <2>1. WentWell /\ Settled
    BY <1>3, <1>4, <1>8 DEF Settled, On
  <2>2. OneData /\ Fits(host.env) /\ host.env = Target
    BY <2>1 DEF WentWell
  <2>3. NoData'
    <3> SUFFICES ASSUME NEW q \in Places, q # host.env, Data(q) PROVE FALSE
      BY <1>d DEF NoData, Data
    <3>1. dir[q] = past.wanted /\ past.wanted \notin keep.purged \union {0} /\ past.wanted # NoDir
      BY <2>2 DEF OneData, Data
    <3>2. Data(host.env)
      BY <2>2, <3>1, <1>0 DEF Fits, Data
    <3> QED BY <1>0, <2>2, <3>2 DEF OneData
  <2>4. OneData'
    BY <2>3 DEF NoData, OneData
  <2>5. ~Settled' /\ past'.ended # "purge"
    BY <1>1, <1>2, <1>3, <1>4 DEF Settled, On, AnyWay
  <2>6. KnowsWhere'
    <3>1. /\ ~On("move", 2, 3)' /\ ~On("move", 2, 2)' /\ ~On("purge", 6, 6)' /\ ~On("purge", 1, 5)'
          /\ ~On("install", 3, 3)'
      BY <1>2, <1>3 DEF On
    <3>2. (On("reset", 2, 2) => past.wanted = 0)' /\ (host.env = Target)'
      BY <1>1, <1>2, <1>4, <2>2 DEF On, Target
    <3> QED BY <2>3, <3>1, <3>2 DEF KnowsWhere
  <2>7. Equipped'
    BY <1>1, <1>2, <1>3, <2>1 DEF WentWell, Equipped, On
  <2> QED BY <1>6, <2>4, <2>5, <2>6, <2>7 DEF WentWell
<1> QED BY <1>4, <1>5, <1>7, <1>8

\* reset makes a directory that is empty.
LEMMA FreshKeeps ==
  ASSUME InstallInv, StepFresh
  PROVE  InstallInv'
<1> USE InstallationAssumption DEF InstallInv
<1>1. /\ ~Idle /\ Head(script.steps) = "fresh" /\ Then
      /\ dir' = [dir EXCEPT ![host.env] = 0]
      /\ UNCHANGED <<service, host, keep, made, past>>
  BY DEF StepFresh, AtStep
<1>2. /\ script'.name = script.name /\ script'.to = script.to
      /\ Left' = Left - 1 /\ (Idle' <=> Left' = 0) /\ <<script.name, Left, "fresh">> \in Order
  BY <1>1, Goes
<1>3. script.name = "reset" /\ Left = 2 /\ ~Idle'
  BY <1>2 DEF Order
<1>0. /\ host.env \in Places /\ dir \in [Places -> (0 .. made) \union {NoDir}] /\ made \in 0 .. MaxData
      /\ dir[host.env] = NoDir
  BY <1>3 DEF InstallTypes, AnyWay, On
<1>d. /\ dir'[host.env] = 0 /\ \A p \in Places : p # host.env => dir'[p] = dir[p]
      /\ dir' \in [Places -> (0 .. made) \union {NoDir}]
  BY <1>0, <1>1
<1>5. InstallTypes'
  BY <1>1, <1>d, Goes DEF InstallTypes
<1>l. NothingLost'
  <2> SUFFICES ASSUME NEW d \in 1 .. made
               PROVE  d \in keep'.aside \union keep'.purged \/ \E p \in Places : dir'[p] = d
    BY <1>1 DEF NothingLost
  <2>1. d \in keep.aside \union keep.purged \/ \E p \in Places : dir[p] = d
    BY DEF AnyWay, NothingLost
  <2>2. d # 0 /\ d # NoDir
    BY <1>0
  <2> QED BY <1>0, <1>1, <1>d, <2>1, <2>2
<1>6. ~Running'
  BY <1>1, <1>3 DEF Running, AnyWay, Halted, On
<1>7. AnyWay'
  <2>1. /\ ~On("install", 1, 1)' /\ ~On("uninstall", 1, 1)' /\ ~On("purge", 1, 2)'
        /\ ~On("install", 1, 5)' /\ ~On("move", 1, 5)' /\ ~On("uninstall", 1, 4)' /\ ~On("purge", 1, 5)'
        /\ ~On("reset", 2, 2)' /\ ~On("restore", 2, 2)' /\ ~On("restore", 2, 4)'
    BY <1>2, <1>3 DEF On
  <2>2. past'.ended = "none"
    BY <1>1 DEF AnyWay
  <2>4. (keep.backup = NoBackup \/ keep.backup.data # 0)'
    BY <1>1 DEF AnyWay
  <2> QED BY <1>l, <1>6, <2>1, <2>2, <2>4 DEF AnyWay
<1>8. ASSUME past'.went = "well" PROVE WentWell'
  <2>1. WentWell /\ On("reset", 2, 2)
    BY <1>1, <1>3, <1>8 DEF On
  <2>2. NoData /\ past.wanted = 0 /\ host.env = Target
    BY <2>1 DEF WentWell, KnowsWhere
  <2>3. NoData' /\ OneData'
    BY <1>d, <2>2 DEF NoData, OneData, Data
  <2>4. (host.env = Target /\ Fits(host.env))'
    BY <1>1, <2>2 DEF Target, Fits
  <2>5. past'.ended # "purge"
    BY <1>1 DEF AnyWay
  <2>6. KnowsWhere'
    BY <1>2, <1>3 DEF KnowsWhere, On
  <2>7. Equipped'
    BY <1>1, <1>2, <1>3, <2>1 DEF WentWell, Equipped, On
  <2> QED BY <1>6, <2>3, <2>4, <2>5, <2>6, <2>7 DEF WentWell
<1> QED BY <1>1, <1>5, <1>7, <1>8

\* The archive is unpacked: in the directory in use, or beside it.
LEMMA ExtractKeeps ==
  ASSUME InstallInv, StepExtract
  PROVE  InstallInv'
<1> USE InstallationAssumption DEF InstallInv
<1>1. /\ ~Idle /\ Head(script.steps) = "extract" /\ Then
      /\ IF keep.backup.name = host.env
         THEN /\ dir' = [dir EXCEPT ![host.env] = keep.backup.data]
              /\ past' = [past EXCEPT !.wanted = keep.backup.data]
              /\ keep' = [keep EXCEPT !.purged = @ \ {keep.backup.data}]
         ELSE past' = [past EXCEPT !.went = "wrong"] /\ UNCHANGED <<dir, keep>>
      /\ UNCHANGED <<service, host, made>>
  BY DEF StepExtract, AtStep
<1>2. /\ script'.name = script.name /\ script'.to = script.to
      /\ Left' = Left - 1 /\ (Idle' <=> Left' = 0) /\ <<script.name, Left, "extract">> \in Order
  BY <1>1, Goes
<1>3. script.name = "restore" /\ Left = 2 /\ ~Idle'
  BY <1>2 DEF Order
<1>0. /\ host.env \in Places /\ dir \in [Places -> (0 .. made) \union {NoDir}] /\ made \in 0 .. MaxData
      /\ dir[host.env] = NoDir /\ keep.backup.data \in 1 .. made
      /\ keep \in [aside : SUBSET (1 .. made), purged : SUBSET (1 .. made),
                   backup : [data : 0 .. made, name : Places \union {NoPlace}]]
      /\ past \in [wanted : 0 .. made, ended : Scripts \union {"none"}, count : Nat,
                   went : {"well", "rerun", "wrong"}]
  BY <1>3 DEF InstallTypes, AnyWay, On
<1>c. \/ /\ dir'[host.env] = keep.backup.data /\ \A p \in Places : p # host.env => dir'[p] = dir[p]
         /\ past'.wanted = keep.backup.data /\ past'.went = past.went
         /\ keep'.purged = keep.purged \ {keep.backup.data}
      \/ past'.went = "wrong" /\ UNCHANGED <<dir, keep>> /\ past'.wanted = past.wanted
  BY <1>0, <1>1
<1>4. keep'.aside = keep.aside /\ keep'.backup = keep.backup /\ past'.ended = past.ended
  BY <1>0, <1>1
<1>5. InstallTypes'
  <2>1. dir' \in [Places -> (0 .. made) \union {NoDir}]
    BY <1>0, <1>1
  <2>2. past' \in [wanted : 0 .. made, ended : Scripts \union {"none"}, count : Nat,
                   went : {"well", "rerun", "wrong"}]
    BY <1>0, <1>1
  <2>3. keep' \in [aside : SUBSET (1 .. made), purged : SUBSET (1 .. made),
                   backup : [data : 0 .. made, name : Places \union {NoPlace}]]
    BY <1>0, <1>1
  <2> QED BY <1>1, <2>1, <2>2, <2>3, Goes DEF InstallTypes
<1>l. NothingLost'
  <2> SUFFICES ASSUME NEW d \in 1 .. made
               PROVE  d \in keep'.aside \union keep'.purged \/ \E p \in Places : dir'[p] = d
    BY <1>1 DEF NothingLost
  <2>1. d \in keep.aside \union keep.purged \/ \E p \in Places : dir[p] = d
    BY DEF AnyWay, NothingLost
  <2>2. d # 0 /\ d # NoDir
    BY <1>0
  <2> QED BY <1>0, <1>4, <1>c, <2>1, <2>2
<1>6. ~Running'
  BY <1>1, <1>3 DEF Running, AnyWay, Halted, On
<1>7. AnyWay'
  <2>1. /\ ~On("install", 1, 1)' /\ ~On("uninstall", 1, 1)' /\ ~On("purge", 1, 2)'
        /\ ~On("install", 1, 5)' /\ ~On("move", 1, 5)' /\ ~On("uninstall", 1, 4)' /\ ~On("purge", 1, 5)'
        /\ ~On("reset", 2, 2)' /\ ~On("restore", 2, 2)' /\ ~On("restore", 2, 4)'
    BY <1>2, <1>3 DEF On
  <2>2. past'.ended = "none"
    BY <1>1, <1>4 DEF AnyWay
  <2>4. (keep.backup = NoBackup \/ keep.backup.data # 0)'
    BY <1>4 DEF AnyWay
  <2> QED BY <1>l, <1>6, <2>1, <2>2, <2>4 DEF AnyWay
<1>8. ASSUME past'.went = "well" PROVE WentWell'
  <2>0. /\ dir'[host.env] = keep.backup.data /\ \A p \in Places : p # host.env => dir'[p] = dir[p]
        /\ past'.wanted = keep.backup.data /\ past.went = "well"
        /\ keep'.purged = keep.purged \ {keep.backup.data}
    BY <1>c, <1>8
  <2>1. WentWell /\ On("restore", 2, 2)
    BY <1>3, <2>0 DEF On
  <2>2. NoData /\ host.env = Target
    BY <2>1 DEF WentWell, KnowsWhere
  <2>3. OneData'
    BY <2>0, <2>2 DEF NoData, OneData, Data
  <2>4. (host.env = Target /\ Fits(host.env))'
    BY <1>1, <2>0, <2>2 DEF Target, Fits
  <2>5. past'.ended # "purge"
    BY <1>1, <1>4 DEF AnyWay
  <2>6. KnowsWhere'
    BY <1>2, <1>3 DEF KnowsWhere, On
  <2>7. Equipped'
    BY <1>1, <1>2, <1>3, <2>1 DEF WentWell, Equipped, On
  <2> QED BY <1>6, <2>3, <2>4, <2>5, <2>6, <2>7 DEF WentWell
<1> QED BY <1>5, <1>7, <1>8, <1>c

\* The uninstaller looks up the directory of the data.
LEMMA ResolveKeeps ==
  ASSUME InstallInv, StepResolve
  PROVE  InstallInv'
<1> USE InstallationAssumption DEF InstallInv
<1>1. /\ ~Idle /\ Head(script.steps) = "resolve"
      /\ script' = [script EXCEPT !.steps = Tail(@), !.to = host.env]
      /\ UNCHANGED <<dir, service, host, keep, made, past>>
  BY DEF StepResolve, AtStep
<1>2. script'.steps = Tail(script.steps) /\ script'.name = script.name /\ script'.to = host.env
  BY <1>1 DEF InstallTypes
<1>g. /\ script'.steps \in Plan(script'.name) /\ Left' = Left - 1
      /\ script'.steps \in UNION {Plan(n) : n \in Scripts}
      /\ <<script.name, Left, "resolve">> \in Order /\ (Idle' <=> Left' = 0)
  BY <1>1, <1>2, ScriptGoesOn
<1>3. /\ \/ script.name = "uninstall" /\ Left = 5
         \/ script.name = "purge" /\ Left = 6
      /\ ~Idle'
  BY <1>g DEF Order
<1>0. host.env \in Places
  BY DEF InstallTypes
<1>5. InstallTypes'
  <2>1. script' \in [steps : UNION {Plan(n) : n \in Scripts}, name : Scripts \union {"none"},
                     to : Places \union {NoPlace}]
    <3>1. script \in [steps : UNION {Plan(n) : n \in Scripts}, name : Scripts \union {"none"},
                      to : Places \union {NoPlace}]
      BY DEF InstallTypes
    <3> QED BY <1>0, <1>1, <1>2, <1>g, <3>1
  <2> QED BY <1>1, <1>g, <2>1 DEF InstallTypes
<1>6. DataStays
  BY <1>1 DEF DataStays
<1>7. AnyWay'
  <2>1. /\ ~Halted' /\ ~On("install", 1, 1)' /\ ~On("uninstall", 1, 1)' /\ ~On("purge", 1, 2)'
        /\ ~On("install", 1, 5)' /\ ~On("reset", 2, 2)' /\ ~On("restore", 2, 2)' /\ ~On("restore", 2, 4)'
    BY <1>2, <1>3, <1>g DEF On, Halted
  <2>2. past'.ended = "none" /\ script'.to \in Places
    BY <1>0, <1>1, <1>2 DEF AnyWay
  <2>3. NothingLost' /\ (Running => Data(service))'
    BY <1>1, <1>6, StillThere DEF AnyWay, Running, Data
  <2>4. (keep.backup = NoBackup \/ keep.backup.data # 0)'
    BY <1>1 DEF AnyWay
  <2> QED BY <2>1, <2>2, <2>3, <2>4 DEF AnyWay
<1>8. ASSUME past'.went = "well" PROVE WentWell'
  <2>1. WentWell
    BY <1>1, <1>8
  <2>2. script.name = "purge" => Fits(host.env)
    BY <1>3, <2>1 DEF WentWell, KnowsWhere, On
  <2>3. script.name = "purge" => Fits(script.to)'
    BY <1>1, <1>2, <2>2 DEF Fits
  <2>4. OneData' /\ ~Settled' /\ past'.ended # "purge"
    BY <1>1, <1>2, <1>3, <1>g, <1>6, <2>1, StillThere DEF WentWell, Settled, On, AnyWay
  <2>5. KnowsWhere'
    BY <1>2, <1>3, <1>g, <2>3 DEF KnowsWhere, On
  <2>6. Equipped'
    BY <1>2, <1>3, <1>g DEF Equipped, On
  <2>7. (Running => dir[service] = past.wanted)'
    BY <1>1, <2>1 DEF WentWell, Running
  <2> QED BY <2>4, <2>5, <2>6, <2>7 DEF WentWell
<1> QED BY <1>1, <1>5, <1>7, <1>8

\* The uninstaller takes the units away, and the pinned directory with them.
LEMMA UnitsKeep ==
  ASSUME InstallInv, StepUnits
  PROVE  InstallInv'
<1> USE InstallationAssumption DEF InstallInv
<1>1. /\ ~Idle /\ Head(script.steps) = "units" /\ Then
      /\ host' = [host EXCEPT !.unit = "none", !.pinned = NoPlace, !.env = Home]
      /\ UNCHANGED <<dir, service, keep, made, past>>
  BY DEF StepUnits, AtStep
<1>2. /\ script'.name = script.name /\ script'.to = script.to
      /\ Left' = Left - 1 /\ (Idle' <=> Left' = 0) /\ <<script.name, Left, "units">> \in Order
  BY <1>1, Goes
<1>3. /\ \/ script.name = "uninstall" /\ Left = 3
         \/ script.name = "purge" /\ Left = 4
      /\ ~Idle'
  BY <1>2 DEF Order
<1>4. host'.unit = "none" /\ host'.gateway = host.gateway
  BY <1>1 DEF InstallTypes
<1>5. InstallTypes'
  <2>1. host' \in [cli : BOOLEAN, unit : {"none", "good", "raw"}, pinned : Places \union {NoPlace},
                   env : Places, gateway : {"none", "on", "off"}]
    BY <1>1 DEF InstallTypes
  <2> QED BY <1>1, <2>1, Goes DEF InstallTypes
<1>6. DataStays /\ ~Running'
  BY <1>1, <1>3 DEF DataStays, Running, AnyWay, Halted, On
<1>7. AnyWay'
  <2>1. /\ ~On("install", 1, 1)' /\ ~On("install", 1, 5)' /\ ~On("reset", 2, 2)' /\ ~On("restore", 2, 2)'
        /\ ~On("restore", 2, 4)' /\ ~On("move", 1, 5)'
    BY <1>2, <1>3 DEF On
  <2>2. past'.ended = "none" /\ script'.to \in Places
    BY <1>1, <1>2, <1>3 DEF AnyWay, On
  <2>3. NothingLost'
    BY <1>6, StillThere DEF AnyWay
  <2>5. (On("uninstall", 1, 1) \/ On("purge", 1, 2) => host.gateway = "none")'
    BY <1>2, <1>3, <1>4 DEF On
  <2>4. (keep.backup = NoBackup \/ keep.backup.data # 0)'
    BY <1>1 DEF AnyWay
  <2> QED BY <1>6, <2>1, <2>2, <2>3, <2>4, <2>5 DEF AnyWay
<1>8. ASSUME past'.went = "well" PROVE WentWell'
  <2>1. WentWell
    BY <1>1, <1>8
  <2>2. script.name = "purge" => Fits(script.to)
    BY <1>3, <2>1 DEF WentWell, KnowsWhere, On
  <2>3. script.name = "purge" => Fits(script.to)'
    BY <1>1, <1>2, <2>2 DEF Fits
  <2>4. OneData' /\ ~Settled' /\ past'.ended # "purge"
    BY <1>1, <1>2, <1>3, <1>6, <2>1, StillThere DEF WentWell, Settled, On, AnyWay
  <2>5. KnowsWhere'
    BY <1>2, <1>3, <2>3 DEF KnowsWhere, On
  <2>6. Equipped'
    BY <1>2, <1>3, <1>4, <2>1 DEF WentWell, Equipped, On
  <2> QED BY <1>6, <2>4, <2>5, <2>6 DEF WentWell
<1> QED BY <1>1, <1>5, <1>7, <1>8

\* The uninstaller takes the gateway's helper away.
LEMMA UngatewayKeeps ==
  ASSUME InstallInv, StepUngateway
  PROVE  InstallInv'
<1> USE InstallationAssumption DEF InstallInv
<1>1. /\ ~Idle /\ Head(script.steps) = "ungateway" /\ Then
      /\ host' = [host EXCEPT !.gateway = "none"]
      /\ UNCHANGED <<dir, service, keep, made, past>>
  BY DEF StepUngateway, AtStep
<1>2. /\ script'.name = script.name /\ script'.to = script.to
      /\ Left' = Left - 1 /\ (Idle' <=> Left' = 0) /\ <<script.name, Left, "ungateway">> \in Order
  BY <1>1, Goes
<1>3. /\ \/ script.name = "uninstall" /\ Left = 2
         \/ script.name = "purge" /\ Left = 3
      /\ ~Idle'
  BY <1>2 DEF Order
<1>4. host'.unit = host.unit /\ host'.gateway = "none"
  BY <1>1 DEF InstallTypes
<1>5. InstallTypes'
  <2>1. host' \in [cli : BOOLEAN, unit : {"none", "good", "raw"}, pinned : Places \union {NoPlace},
                   env : Places, gateway : {"none", "on", "off"}]
    BY <1>1 DEF InstallTypes
  <2> QED BY <1>1, <2>1, Goes DEF InstallTypes
<1>6. DataStays /\ ~Running'
  BY <1>1, <1>3 DEF DataStays, Running, AnyWay, Halted, On
<1>7. AnyWay'
  <2>1. /\ ~On("install", 1, 1)' /\ ~On("install", 1, 5)' /\ ~On("reset", 2, 2)' /\ ~On("restore", 2, 2)'
        /\ ~On("restore", 2, 4)' /\ ~On("move", 1, 5)'
    BY <1>2, <1>3 DEF On
  <2>2. past'.ended = "none" /\ script'.to \in Places
    BY <1>1, <1>2, <1>3 DEF AnyWay, On
  <2>3. NothingLost'
    BY <1>6, StillThere DEF AnyWay
  <2>5. (On("uninstall", 1, 1) \/ On("purge", 1, 2) => host.gateway = "none")'
    BY <1>2, <1>3, <1>4 DEF On
  <2>4. (keep.backup = NoBackup \/ keep.backup.data # 0)'
    BY <1>1 DEF AnyWay
  <2> QED BY <1>6, <2>1, <2>2, <2>3, <2>4, <2>5 DEF AnyWay
<1>8. ASSUME past'.went = "well" PROVE WentWell'
  <2>1. WentWell
    BY <1>1, <1>8
  <2>2. script.name = "purge" => Fits(script.to)
    BY <1>3, <2>1 DEF WentWell, KnowsWhere, On
  <2>3. script.name = "purge" => Fits(script.to)'
    BY <1>1, <1>2, <2>2 DEF Fits
  <2>4. OneData' /\ ~Settled' /\ past'.ended # "purge"
    BY <1>1, <1>2, <1>3, <1>6, <2>1, StillThere DEF WentWell, Settled, On, AnyWay
  <2>5. KnowsWhere'
    BY <1>2, <1>3, <2>3 DEF KnowsWhere, On
  <2>6. Equipped'
    BY <1>2, <1>3, <1>4, <2>1 DEF WentWell, Equipped, On
  <2> QED BY <1>6, <2>4, <2>5, <2>6 DEF WentWell
<1> QED BY <1>1, <1>5, <1>7, <1>8

\* uninstall --purge deletes the data that was in use.
LEMMA PurgeKeeps ==
  ASSUME InstallInv, StepDelete
  PROVE  InstallInv'
<1> USE InstallationAssumption DEF InstallInv
<1>1. /\ ~Idle /\ Head(script.steps) = "delete" /\ Then
      /\ keep' = [keep EXCEPT !.purged = @ \union ({dir[script.to]} \ {0, NoDir})]
      /\ dir' = [dir EXCEPT ![script.to] = NoDir]
      /\ past' = [past EXCEPT !.ended = Ended]
      /\ UNCHANGED <<service, host, made>>
  BY DEF StepDelete, AtStep
<1>2. /\ script'.name = script.name /\ script'.to = script.to
      /\ Left' = Left - 1 /\ (Idle' <=> Left' = 0) /\ <<script.name, Left, "delete">> \in Order
  BY <1>1, Goes
<1>3. script.name = "purge" /\ Left = 1 /\ Idle'
  BY <1>2 DEF Order
<1>0. /\ script.to \in Places /\ dir \in [Places -> (0 .. made) \union {NoDir}] /\ made \in 0 .. MaxData
      /\ past.wanted \in 0 .. made /\ host.gateway = "none"
      /\ keep \in [aside : SUBSET (1 .. made), purged : SUBSET (1 .. made),
                   backup : [data : 0 .. made, name : Places \union {NoPlace}]]
  BY <1>3 DEF InstallTypes, AnyWay, On
<1>4. /\ past'.wanted = past.wanted /\ past'.ended = "purge" /\ past'.went = past.went
      /\ keep'.aside = keep.aside /\ keep'.backup = keep.backup
      /\ keep'.purged = keep.purged \union ({dir[script.to]} \ {0, NoDir})
  BY <1>0, <1>1, <1>3, Goes DEF InstallTypes
<1>d. /\ dir'[script.to] = NoDir /\ \A p \in Places : p # script.to => dir'[p] = dir[p]
      /\ dir' \in [Places -> (0 .. made) \union {NoDir}]
  BY <1>0, <1>1
<1>5. InstallTypes'
  <2>1. past' \in [wanted : 0 .. made, ended : Scripts \union {"none"}, count : Nat,
                   went : {"well", "rerun", "wrong"}]
    BY <1>1, Goes DEF InstallTypes
  <2>2. {dir[script.to]} \ {0, NoDir} \in SUBSET (1 .. made)
    BY <1>0
  <2>3. keep' \in [aside : SUBSET (1 .. made), purged : SUBSET (1 .. made),
                   backup : [data : 0 .. made, name : Places \union {NoPlace}]]
    BY <1>0, <1>1, <2>2
  <2> QED BY <1>1, <1>d, <2>1, <2>3, Goes DEF InstallTypes
<1>l. NothingLost'
  <2> SUFFICES ASSUME NEW d \in 1 .. made
               PROVE  d \in keep'.aside \union keep'.purged \/ \E p \in Places : dir'[p] = d
    BY <1>1 DEF NothingLost
  <2>1. d \in keep.aside \union keep.purged \/ \E p \in Places : dir[p] = d
    BY DEF AnyWay, NothingLost
  <2>2. d # 0 /\ d # NoDir
    BY <1>0
  <2> QED BY <1>4, <1>d, <2>1, <2>2
<1>6. ~Running'
  BY <1>1, <1>3 DEF Running, AnyWay, Halted, On
<1>n. \A name \in Scripts : \A a, b \in 1 .. 6 : ~On(name, a, b)'
  BY <1>2, <1>3 DEF On
<1>7. AnyWay'
  <2>4. (keep.backup = NoBackup \/ keep.backup.data # 0)' /\ host'.gateway = "none"
    BY <1>0, <1>1, <1>4 DEF AnyWay
  <2> QED BY <1>3, <1>6, <1>l, <1>n, <2>4 DEF AnyWay, Scripts, Halted
<1>8. ASSUME past'.went = "well" PROVE WentWell'
  <2>1. WentWell
    BY <1>4, <1>8
  <2>2. OneData /\ Fits(script.to) /\ host.unit = "none" /\ ~host.cli
    BY <1>3, <2>1 DEF WentWell, KnowsWhere, Equipped, On
  <2>3. NoData'
    <3> SUFFICES ASSUME NEW q \in Places, q # script.to, Data(q) PROVE FALSE
      BY <1>d DEF NoData, Data
    <3>1. dir[q] = past.wanted /\ past.wanted \notin keep.purged \union {0} /\ past.wanted # NoDir
      BY <2>2 DEF OneData, Data
    <3>2. Data(script.to)
      BY <2>2, <3>1, <1>0 DEF Fits, Data
    <3> QED BY <1>0, <2>2, <3>2 DEF OneData
  <2>4. OneData'
    BY <2>3 DEF NoData, OneData
  <2>5. ~host'.cli /\ host'.unit = "none"
    BY <1>1, <2>2
  <2>6. ~Settled' /\ KnowsWhere' /\ Equipped'
    BY <1>n, <2>5 DEF Settled, KnowsWhere, Equipped, Scripts
  <2> QED BY <1>6, <2>3, <2>4, <2>6 DEF WentWell
<1> QED BY <1>4, <1>5, <1>7, <1>8

LEMMA StepsKeep ==
  ASSUME InstallInv, ScriptStep
  PROVE  InstallInv'
<1>1. CASE StepFiles
  <2>1. AtStep("files") \/ AtStep("pin") \/ AtStep("reload") \/ AtStep("uncli")
    BY <1>1 DEF StepFiles
  <2> QED BY <1>1, <2>1, FilesKeep, PinKeeps, ReloadKeeps, UncliKeeps
<1> QED BY <1>1, StopKeeps, StartKeeps, StartFails, SetupKeeps, MoveKeeps, SetAsideKeeps, FreshKeeps,
           ExtractKeeps, ResolveKeeps, UnitsKeep, UngatewayKeeps, PurgeKeeps DEF ScriptStep

-----------------------------------------------------------------------------
LEMMA EmptyPlan == << >> \in Plan("none") /\ << >> \in Plan("install")
  BY DEF Plan, InstallPlan

\* A script breaks off.
LEMMA BreaksOffKeeps ==
  ASSUME InstallInv, BreaksOff
  PROVE  InstallInv'
<1> USE InstallationAssumption DEF InstallInv
<1>1. /\ ~Idle /\ script' = Nobody /\ past' = [past EXCEPT !.went = "wrong"]
      /\ UNCHANGED <<dir, service, host, keep, made>>
  BY DEF BreaksOff
<1>2. /\ past'.wanted = past.wanted /\ past'.ended = past.ended /\ past'.went = "wrong"
      /\ past' \in [wanted : 0 .. made, ended : Scripts \union {"none"}, count : Nat,
                    went : {"well", "rerun", "wrong"}]
  BY <1>1 DEF InstallTypes
<1>4. /\ Idle' /\ \A name \in Scripts : \A a, b : ~On(name, a, b)'
      /\ script' \in [steps : UNION {Plan(n) : n \in Scripts}, name : Scripts \union {"none"},
                      to : Places \union {NoPlace}]
      /\ script'.steps \in Plan(script'.name)
  BY <1>1, EmptyPlan DEF Nobody, Idle, On, Scripts
<1>5. InstallTypes'
  BY <1>1, <1>2, <1>4 DEF InstallTypes
<1>6. DataStays
  BY <1>1, <1>2 DEF DataStays
<1>7. AnyWay'
  <2>1. NothingLost' /\ (Running => Data(service))'
    BY <1>1, <1>6, StillThere DEF AnyWay, Running, Data
  <2>2. past'.ended = "none" /\ (keep.backup = NoBackup \/ keep.backup.data # 0)'
    BY <1>1, <1>2 DEF AnyWay
  <2> QED BY <1>4, <2>1, <2>2 DEF AnyWay, Scripts, Halted
<1> QED BY <1>2, <1>5, <1>7

\* Between scripts, a step that leaves the data and the pinned directory alone.
LEMMA QuietKeeps ==
  ASSUME InstallInv, Idle, DataStays, UNCHANGED <<service, script>>,
         host' \in [cli : BOOLEAN, unit : {"none", "good", "raw"}, pinned : Places \union {NoPlace},
                    env : Places, gateway : {"none", "on", "off"}],
         past' \in [wanted : 0 .. made, ended : Scripts \union {"none"}, count : Nat,
                    went : {"well", "rerun", "wrong"}],
         past'.went = past.went, past'.ended \in {"none", past.ended},
         host'.cli = host.cli, host'.env \in {host.env, Target}, host'.pinned = host.pinned,
         host'.unit \in {host.unit, "raw"},
         past'.ended \in {"uninstall", "purge"} => host'.gateway = "none"
  PROVE  InstallInv'
<1> USE DEF InstallInv
<1>1. Left = 0 /\ Left' = 0 /\ Idle'
  BY IdleLeft DEF Left, Idle
<1>n. /\ \A name \in Scripts : \A a, b \in 1 .. 6 : ~On(name, a, b)
      /\ \A name \in Scripts : \A a, b \in 1 .. 6 : ~On(name, a, b)'
  BY <1>1 DEF On
<1>5. InstallTypes'
  BY DEF InstallTypes, DataStays
<1>7. AnyWay'
  <2>1. NothingLost' /\ (Running => Data(service))'
    BY StillThere DEF AnyWay, Running, Data, DataStays
  <2>2. (keep.backup = NoBackup \/ keep.backup.data # 0)'
    BY DEF AnyWay, DataStays
  <2>3. past'.ended \in {"uninstall", "purge"} => ~Running' /\ host'.gateway = "none"
    BY DEF AnyWay, Running
  <2> QED BY <1>1, <1>n, <2>1, <2>2, <2>3 DEF AnyWay, Scripts, Halted
<1>8. ASSUME past'.went = "well" PROVE WentWell'
  <2>1. WentWell
    BY <1>8
  <2>2. OneData' /\ (Running => dir[service] = past.wanted)' /\ (past.ended = "purge" => NoData)'
    BY <2>1, StillThere DEF WentWell, DataStays, Running
  <2>3. (Settled => host.env = Target /\ Fits(host.env))'
    BY <1>1, <1>n, <2>1, StillThere DEF WentWell, Settled, Target, Scripts, Fits, DataStays
  <2>4. KnowsWhere' /\ Equipped'
    BY <1>1, <1>n, <2>1 DEF WentWell, KnowsWhere, Equipped, Scripts
  <2> QED BY <2>2, <2>3, <2>4 DEF WentWell
<1> QED BY <1>5, <1>7, <1>8

\* Gateway and resolver are installed, removed or switched beside the scripts.
LEMMA BesideKeeps ==
  ASSUME InstallInv, (\E remove \in BOOLEAN : InstallGateway(remove)) \/ SetupDns
  PROVE  InstallInv'
<1> USE DEF InstallInv
<1>1. ASSUME NEW remove \in BOOLEAN, InstallGateway(remove) PROVE InstallInv'
  <2>1. /\ Idle /\ DataStays /\ UNCHANGED <<service, script>>
    BY <1>1 DEF InstallGateway, DataStays, InstallTypes
  <2>2. /\ host' \in [cli : BOOLEAN, unit : {"none", "good", "raw"}, pinned : Places \union {NoPlace},
                      env : Places, gateway : {"none", "on", "off"}]
        /\ host'.cli = host.cli /\ host'.env = host.env /\ host'.pinned = host.pinned
        /\ host'.unit = host.unit
    BY <1>1 DEF InstallGateway, InstallTypes
  <2>3. /\ past' \in [wanted : 0 .. made, ended : Scripts \union {"none"}, count : Nat,
                      went : {"well", "rerun", "wrong"}]
        /\ past'.went = past.went /\ past'.ended = "none"
    BY <1>1 DEF InstallGateway, InstallTypes
  <2> QED BY <2>1, <2>2, <2>3, QuietKeeps
<1>2. CASE SetupDns
  <2>1. /\ Idle /\ DataStays /\ UNCHANGED <<service, script>>
    BY <1>2 DEF SetupDns, DataStays, InstallTypes
  <2>2. /\ host' \in [cli : BOOLEAN, unit : {"none", "good", "raw"}, pinned : Places \union {NoPlace},
                      env : Places, gateway : {"none", "on", "off"}]
        /\ host'.cli = host.cli /\ host'.env \in {host.env, Target} /\ host'.pinned = host.pinned
        /\ host'.unit = "raw"
    <3>1. PICK env \in {host.env, Target} : host' = [host EXCEPT !.unit = "raw", !.env = env]
      BY <1>2 DEF SetupDns
    <3>2. env \in Places
      BY InstallationAssumption DEF InstallTypes, Target
    <3> QED BY <3>1, <3>2 DEF InstallTypes
  <2>3. /\ past' \in [wanted : 0 .. made, ended : Scripts \union {"none"}, count : Nat,
                      went : {"well", "rerun", "wrong"}]
        /\ past'.went = past.went /\ past'.ended = "none"
    <3>1. past' = [past EXCEPT !.ended = "none", !.count = @ + 1]
      BY <1>2 DEF SetupDns
    <3>2. past \in [wanted : 0 .. made, ended : Scripts \union {"none"}, count : Nat,
                    went : {"well", "rerun", "wrong"}]
      BY DEF InstallTypes
    <3>3. past.count + 1 \in Nat
      BY <3>2
    <3> QED BY <3>1, <3>2, <3>3
  <2> QED BY <2>1, <2>2, <2>3, QuietKeeps
<1> QED BY <1>1, <1>2

LEMMA SwitchKeeps ==
  ASSUME InstallInv, GatewaySwitches
  PROVE  InstallInv'
<1> USE DEF InstallInv
<1>1. /\ UNCHANGED <<dir, service, keep, made, script, past>>
      /\ host.gateway # "none" /\ DataStays
      /\ host' \in [cli : BOOLEAN, unit : {"none", "good", "raw"}, pinned : Places \union {NoPlace},
                    env : Places, gateway : {"none", "on", "off"}]
      /\ host'.cli = host.cli /\ host'.env = host.env /\ host'.pinned = host.pinned
      /\ host'.unit = host.unit
  BY DEF GatewaySwitches, InstallTypes, DataStays
<1>2. (Left' = Left) /\ (\A name, a, b : On(name, a, b)' <=> On(name, a, b)) /\ (Idle' <=> Idle)
  BY <1>1 DEF Left, On, Idle
<1>3. (Halted' <=> Halted) /\ (Settled' <=> Settled) /\ Target' = Target
  BY <1>1, <1>2 DEF Halted, Settled, Target
<1>5. InstallTypes'
  BY <1>1 DEF InstallTypes
<1>7. AnyWay'
  <2>1. NothingLost' /\ (Running' <=> Running) /\ (Data(service)' <=> Data(service))
    BY <1>1, StillThere DEF AnyWay, Running, Data
  <2> QED BY <1>1, <1>2, <1>3, <2>1 DEF AnyWay
<1>8. ASSUME past'.went = "well" PROVE WentWell'
  <2>1. WentWell
    BY <1>1, <1>8
  <2>2. OneData' /\ (NoData' <=> NoData) /\ (Fits(host.env)' <=> Fits(host.env))
        /\ (Fits(script.to)' <=> Fits(script.to)) /\ (Fits(Home)' <=> Fits(Home)) /\ (Running' <=> Running)
    BY <1>1, <2>1, StillThere DEF WentWell, Fits, Running
  <2>3. KnowsWhere'
    BY <1>1, <1>2, <1>3, <2>1, <2>2 DEF WentWell, KnowsWhere
  <2>4. Equipped'
    BY <1>1, <1>2, <2>1 DEF WentWell, Equipped
  <2> QED BY <1>1, <1>3, <2>1, <2>2, <2>3, <2>4 DEF WentWell
<1> QED BY <1>1, <1>5, <1>7, <1>8

\* A backup is taken of data that is there.
LEMMA BackupKeeps ==
  ASSUME InstallInv, Backup
  PROVE  InstallInv'
<1> USE InstallationAssumption DEF InstallInv
<1>1. /\ Idle /\ Data(host.env)
      /\ keep' = [keep EXCEPT !.backup = [data |-> dir[host.env], name |-> host.env]]
      /\ UNCHANGED <<dir, service, host, made, script, past>>
  BY DEF Backup
<1>0. /\ host.env \in Places /\ dir[host.env] \in 1 .. made
      /\ keep \in [aside : SUBSET (1 .. made), purged : SUBSET (1 .. made),
                   backup : [data : 0 .. made, name : Places \union {NoPlace}]]
  BY <1>1 DEF InstallTypes, Data
<1>4. /\ keep'.aside = keep.aside /\ keep'.purged = keep.purged /\ keep'.backup.data # 0
      /\ keep' \in [aside : SUBSET (1 .. made), purged : SUBSET (1 .. made),
                    backup : [data : 0 .. made, name : Places \union {NoPlace}]]
  BY <1>0, <1>1
<1>2. Left = 0 /\ Left' = 0 /\ Idle'
  BY <1>1, IdleLeft DEF Left, Idle
<1>n. /\ \A name \in Scripts : \A a, b \in 1 .. 6 : ~On(name, a, b)
      /\ \A name \in Scripts : \A a, b \in 1 .. 6 : ~On(name, a, b)'
  BY <1>2 DEF On
<1>5. InstallTypes'
  BY <1>1, <1>4 DEF InstallTypes
<1>7. AnyWay'
  <2>1. NothingLost' /\ (Running => Data(service))'
        /\ (past.ended \in {"uninstall", "purge"} => ~Running /\ host.gateway = "none")'
    BY <1>1, <1>4 DEF AnyWay, NothingLost, Running, Data
  <2> QED BY <1>2, <1>4, <1>n, <2>1 DEF AnyWay, Scripts, Halted
<1>8. ASSUME past'.went = "well" PROVE WentWell'
  <2>1. WentWell
    BY <1>1, <1>8
  <2>2. OneData' /\ (Running => dir[service] = past.wanted)' /\ (past.ended = "purge" => NoData)'
    BY <1>1, <1>4, <2>1 DEF WentWell, OneData, Running, NoData, Data
  <2>3. (Settled => host.env = Target /\ Fits(host.env))'
    BY <1>1, <1>2, <1>4, <1>n, <2>1 DEF WentWell, Settled, Target, Scripts, Fits
  <2>4. KnowsWhere' /\ Equipped'
    BY <1>1, <1>2, <1>n, <2>1 DEF WentWell, KnowsWhere, Equipped, Scripts
  <2> QED BY <2>2, <2>3, <2>4 DEF WentWell
<1> QED BY <1>1, <1>5, <1>7, <1>8

\* After a reboot the control plane that is enabled starts on the data of before.
LEMMA RebootKeeps ==
  ASSUME InstallInv, Reboot
  PROVE  InstallInv'
<1> USE InstallationAssumption DEF InstallInv
<1> DEFINE before == [past EXCEPT !.ended = "none", !.count = @ + 1,
                                  !.went = IF Idle THEN @ ELSE "wrong"]
<1>0. /\ past \in [wanted : 0 .. made, ended : Scripts \union {"none"}, count : Nat,
                   went : {"well", "rerun", "wrong"}]
      /\ Target \in Places
  BY DEF InstallTypes, Target
<1>1. /\ script' = Nobody /\ UNCHANGED keep
      /\ host' = [host EXCEPT !.env = Target, !.gateway = IF @ = "on" THEN "off" ELSE @]
      /\ \/ /\ host.unit = "good" /\ Filled(Target) /\ service' = Target
            /\ past' = [before EXCEPT !.wanted = Wanted(dir'[Target])]
         \/ /\ host.unit # "good" /\ service' = NoPlace /\ past' = before
            /\ UNCHANGED <<dir, made>>
  BY DEF Reboot, Target
<1>2. /\ host' \in [cli : BOOLEAN, unit : {"none", "good", "raw"}, pinned : Places \union {NoPlace},
                    env : Places, gateway : {"none", "on", "off"}]
      /\ host'.cli = host.cli /\ host'.env = Target /\ host'.pinned = host.pinned
      /\ host'.unit = host.unit
  BY <1>0, <1>1 DEF InstallTypes
<1>3. /\ before.wanted = past.wanted /\ before.ended = "none" /\ before.count \in Nat
      /\ before.went = IF Idle THEN past.went ELSE "wrong"
      /\ before \in [wanted : 0 .. made, ended : Scripts \union {"none"}, count : Nat,
                     went : {"well", "rerun", "wrong"}]
  <2>1. past.count + 1 \in Nat
    BY <1>0
  <2> QED BY <1>0, <2>1
<1> HIDE DEF before
<1>4. past'.ended = "none" /\ past'.went = before.went
  BY <1>1, <1>3
<1>n. /\ Idle' /\ \A name \in Scripts : \A a, b : ~On(name, a, b)'
      /\ script' \in [steps : UNION {Plan(n) : n \in Scripts}, name : Scripts \union {"none"},
                      to : Places \union {NoPlace}]
      /\ script'.steps \in Plan(script'.name)
  BY <1>1, EmptyPlan DEF Nobody, Idle, On, Scripts
<1>w. past'.went = "well" => WentWell /\ (host.cli => Settled /\ host.env = Target /\ Fits(Target))
                             /\ (host.unit = "good" => host.cli)
  BY <1>3, <1>4 DEF WentWell, Settled, Equipped
<1>k. KnowsWhere'
  BY <1>n DEF KnowsWhere, Scripts
<1>e. past'.went = "well" => Equipped'
  BY <1>2, <1>n, <1>w DEF Equipped, Scripts
<1>b. (keep.backup = NoBackup \/ keep.backup.data # 0)'
  BY <1>1 DEF AnyWay
<1>5. CASE host.unit # "good"
  <2>1. service' = NoPlace /\ past' = before /\ UNCHANGED <<dir, made>> /\ past'.wanted = past.wanted
    BY <1>1, <1>3, <1>5
  <2>2. ~Running' /\ DataStays
    BY <1>1, <2>1 DEF Running, DataStays
  <2>3. InstallTypes'
    BY <1>1, <1>2, <1>3, <1>n, <2>1 DEF InstallTypes
  <2>4. AnyWay'
    BY <1>4, <1>b, <1>n, <2>2, StillThere DEF AnyWay, Scripts, Halted
  <2>5. ASSUME past'.went = "well" PROVE WentWell'
    <3>1. OneData'
      BY <1>w, <2>2, <2>5, StillThere DEF WentWell
    <3>2. (Settled => host.env = Target /\ Fits(host.env))'
      BY <1>2, <1>n, <1>w, <2>2, <2>5, StillThere DEF Settled, Target, Fits, DataStays, Scripts
    <3> QED BY <1>4, <1>e, <1>k, <2>2, <2>5, <3>1, <3>2 DEF WentWell
  <2> QED BY <2>3, <2>4, <2>5
<1>6. CASE host.unit = "good"
  <2>1. /\ Filled(Target) /\ service' = Target /\ past' = [before EXCEPT !.wanted = Wanted(dir'[Target])]
    BY <1>1, <1>6
  <2>f. /\ made' \in 0 .. MaxData /\ made \in 0 .. made'
        /\ dir' \in [Places -> (0 .. made') \union {NoDir}]
        /\ NothingLost => NothingLost'
        /\ dir'[Target] \in 1 .. made'
        /\ Wanted(dir'[Target]) \in 0 .. made'
        /\ OneData /\ Fits(Target) =>
             /\ Wanted(dir'[Target]) = dir'[Target] /\ dir'[Target] \notin keep.purged
             /\ \A q \in Places : dir'[q] \notin {NoDir, 0} => q = Target
    BY <1>0, <1>1, <2>1, FilledKeeps
  <2>2. past'.wanted = Wanted(dir'[Target])
    BY <1>3, <2>1
  <2>3. InstallTypes'
    <3>1. made' \in Nat
      BY <2>f
    <3>2. keep \in [aside : SUBSET (1 .. made'), purged : SUBSET (1 .. made'),
                    backup : [data : 0 .. made', name : Places \union {NoPlace}]]
      BY <2>f, <3>1, MoreData
    <3>3. past' \in [wanted : 0 .. made', ended : Scripts \union {"none"}, count : Nat,
                     went : {"well", "rerun", "wrong"}]
      BY <1>3, <2>1, <2>f
    <3> QED BY <1>0, <1>1, <1>2, <1>n, <2>1, <2>f, <3>2, <3>3 DEF InstallTypes
  <2>4. Running' /\ Data(service)'
    BY <1>0, <2>1, <2>f DEF Running, Data
  <2>5. AnyWay'
    BY <1>4, <1>b, <1>n, <2>4, <2>f DEF AnyWay, Scripts, Halted
  <2>6. ASSUME past'.went = "well" PROVE WentWell'
    <3>1. OneData /\ Fits(Target)
      BY <1>6, <1>w, <2>6 DEF WentWell
    <3>2. past'.wanted = dir'[Target]
      BY <2>2, <2>f, <3>1
    <3>3. OneData'
      BY <1>0, <1>1, <2>f, <3>1, <3>2 DEF OneData, Data
    <3>4. (host.env = Target /\ Fits(host.env))'
      BY <1>2, <3>2 DEF Target, Fits
    <3>5. dir'[service'] = past'.wanted
      BY <2>1, <3>2
    <3> QED BY <1>4, <1>e, <1>k, <2>6, <3>3, <3>4, <3>5 DEF WentWell
  <2> QED BY <2>3, <2>5, <2>6
<1> QED BY <1>5, <1>6

LEMMA InstallStays ==
  ASSUME InstallInv, UNCHANGED installVars
  PROVE  InstallInv'
  BY DEF InstallInv, installVars, InstallTypes, AnyWay, WentWell, OneData, KnowsWhere, Equipped, Settled,
         Halted, On, Left, Idle, Running, Data, Fits, Target, NoData, NothingLost

\* Whatever scripts are run, break off or race with a reboot: no data is lost, the
\* control plane serves the data it served before unless a script broke off or went
\* wrong, and what uninstall promises to take away is gone.
THEOREM InstallationIsKept == InstallationSpec => []InstallationKept
<1>1. InstallInv /\ [InstallationNext]_installVars => InstallInv'
  <2> SUFFICES ASSUME InstallInv, [InstallationNext]_installVars PROVE InstallInv'
    OBVIOUS
  <2>1. CASE InstallationNext
    <3>1. CASE Install \/ Reset \/ Restore \/ (\E p \in Places : MoveData(p))
                 \/ \E purge \in BOOLEAN : Uninstall(purge)
      BY <3>1, BeginsKeep
    <3>2. CASE (\E remove \in BOOLEAN : InstallGateway(remove)) \/ SetupDns
      BY <3>2, BesideKeeps
    <3>3. CASE ScriptStep \/ BreaksOff \/ Reboot \/ Backup \/ GatewaySwitches
      BY <3>3, StepsKeep, BreaksOffKeeps, RebootKeeps, BackupKeeps, SwitchKeeps
    <3> QED BY <2>1, <3>1, <3>2, <3>3 DEF InstallationNext
  <2> QED BY <2>1, InstallStays
<1>2. InstallInv => InstallationKept
  <2> SUFFICES ASSUME InstallInv PROVE InstallationKept
    OBVIOUS
  <2>1. NothingLost
    BY DEF InstallInv, AnyWay
  <2>2. ServesItsData
    BY DEF InstallInv, WentWell, ServesItsData
  <2>3. NothingLeft
    BY DEF InstallInv, AnyWay, WentWell, NothingLeft, NoData
  <2> QED BY <2>1, <2>2, <2>3 DEF InstallationKept
<1> QED BY <1>1, <1>2, InstallInitInv, PTL DEF InstallationSpec
=============================================================================

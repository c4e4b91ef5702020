------------------------------ MODULE VmFleet ------------------------------
(***************************************************************************)
(* The machines the operator manages over SSH: a list in memory and in a   *)
(* file, passwords encrypted under a key in a file of its own, and         *)
(* telemetry that is collected while the list is edited (vms/store.ts,     *)
(* vms/collect.ts, net/ssh.ts, security/vault.ts, routes/vms.ts).          *)
(***************************************************************************)
EXTENDS Naturals, FiniteSets

CONSTANTS Vms, NoVm, Refreshing, NoKey, TornFile, MaxKeys

ASSUME FleetAssumption == NoVm \notin Vms /\ MaxKeys \in Nat \ {0} /\ {NoKey, TornFile} \cap (1 .. MaxKeys) = {}

VARIABLES
  fleet,      \* the list in memory: what is kept of each machine
  fleetFile,  \* vms.json
  removed,    \* ids that were removed; an id is used once
  key,        \* the key in memory
  keyFile,    \* secret.key
  keys,       \* how many keys were generated
  refreshing  \* each collection: of which machine, how far its SSH connection is

fleetVars == <<fleet, fleetFile, removed, key, keyFile, keys, refreshing>>

\* Without a password, or with one under some key; with the last statistics.
Machine == [password : 0 .. MaxKeys, stats : {"none", "reachable", "unreachable"}]
NotRefreshing == [vm |-> NoVm, at |-> "none"]
NoMachines == [v \in Vms |-> NoVm]

FleetInit ==
  /\ fleet = NoMachines /\ fleetFile = NoMachines /\ removed = {}
  /\ key = NoKey /\ keyFile = NoKey /\ keys = 0
  /\ refreshing = [r \in Refreshing |-> NotRefreshing]

Known(v) == fleet[v] # NoVm

-----------------------------------------------------------------------------
(* The vault.                                                              *)

\* A bug to be caught: a key that is not written to its file.
GenerateUnwritten == key' = keys + 1 /\ UNCHANGED keyFile

Generate == key' = keys + 1 /\ keyFile' = keys + 1

\* key: the one in memory, that of the file if it has its length, or a new one.
WithKey ==
  \/ key # NoKey /\ UNCHANGED <<key, keyFile, keys>>
  \/ key = NoKey /\ keyFile \notin {NoKey, TornFile} /\ key' = keyFile /\ UNCHANGED <<keyFile, keys>>
  \/ /\ key = NoKey /\ keyFile \in {NoKey, TornFile} /\ keys < MaxKeys
     /\ Generate /\ keys' = keys + 1

\* encryptSecret, or no password at all.
Encrypted(given, kept) == IF given THEN key' ELSE kept

-----------------------------------------------------------------------------
(* The store.                                                              *)

Persist == fleetFile' = fleet'

\* refresh: nothing to do without a target; decryptSecret gives none for a
\* password under another key.
Asks(v, f) ==
  IF f[v] = NoVm \/ f[v].password = 0 \/ key' # f[v].password THEN UNCHANGED refreshing
  ELSE \E r \in Refreshing : /\ refreshing[r] = NotRefreshing
                            /\ refreshing' = [refreshing EXCEPT ![r] = [vm |-> v, at |-> "dialling"]]

\* POST /api/vms: the machine is kept, and asked for its telemetry.
AddVm(v, given) ==
  /\ ~Known(v) /\ v \notin removed
  /\ IF given THEN WithKey ELSE UNCHANGED <<key, keyFile, keys>>
  /\ fleet' = [fleet EXCEPT ![v] = [password |-> Encrypted(given, 0), stats |-> "none"]]
  /\ Persist
  /\ Asks(v, fleet')
  /\ UNCHANGED removed

UpdateVm(v, given) ==
  /\ Known(v)
  /\ IF given THEN WithKey ELSE UNCHANGED <<key, keyFile, keys>>
  /\ fleet' = [fleet EXCEPT ![v].password = Encrypted(given, @)]
  /\ Persist
  /\ UNCHANGED <<removed, refreshing>>

RemoveVm(v) ==
  /\ Known(v)
  /\ fleet' = [fleet EXCEPT ![v] = NoVm] /\ removed' = removed \union {v}
  /\ Persist
  /\ UNCHANGED <<key, keyFile, keys, refreshing>>

\* One machine, or each of them in turn.
RefreshVm(v) ==
  /\ Known(v)
  /\ IF fleet[v].password # 0 THEN WithKey ELSE UNCHANGED <<key, keyFile, keys>>
  /\ Asks(v, fleet)
  /\ UNCHANGED <<fleet, fleetFile, removed>>

\* A bug to be caught: statistics are kept of a machine that is not there.
SetStatsOfAny(v, stats) ==
  /\ fleet' = [fleet EXCEPT ![v] = [password |-> IF @ = NoVm THEN 0 ELSE @.password, stats |-> stats]]
  /\ Persist

SetStats(v, stats) ==
  IF Known(v) THEN fleet' = [fleet EXCEPT ![v].stats = stats] /\ Persist
  ELSE UNCHANGED <<fleet, fleetFile>>

-----------------------------------------------------------------------------
(* runSshCommand: whichever comes first of the end of the probe, an error  *)
(* and the timer settles it.                                               *)

SshReady(r) ==
  /\ refreshing[r].at = "dialling"
  /\ refreshing' = [refreshing EXCEPT ![r].at = "probing"]
  /\ UNCHANGED <<fleet, fleetFile, removed, key, keyFile, keys>>

Settled(r, stats) ==
  /\ SetStats(refreshing[r].vm, stats)
  /\ refreshing' = [refreshing EXCEPT ![r] = NotRefreshing]
  /\ UNCHANGED <<removed, key, keyFile, keys>>

ProbeEnds(r) == refreshing[r].at = "probing" /\ Settled(r, "reachable")
SshFails(r) == refreshing[r].at \in {"dialling", "probing"} /\ Settled(r, "unreachable")

\* A bug to be caught: only the dialling has a timer.
SshTimerDials(r) == refreshing[r].at = "dialling" /\ Settled(r, "unreachable")

SshTimer(r) == refreshing[r].at \in {"dialling", "probing"} /\ Settled(r, "unreachable")

\* The process dies; a file that was being written is left torn, the key's only
\* when there was none, and the list's whenever it is written.
FleetKilled ==
  /\ \/ UNCHANGED <<fleetFile, keyFile>>
     \/ fleetFile' = TornFile /\ UNCHANGED keyFile
     \/ keyFile \in {NoKey, TornFile} /\ keyFile' = TornFile /\ UNCHANGED fleetFile
  /\ fleet' = IF fleetFile' = TornFile THEN NoMachines ELSE fleetFile'
  /\ key' = NoKey
  /\ refreshing' = [r \in Refreshing |-> NotRefreshing]
  /\ UNCHANGED <<removed, keys>>

FleetNext ==
  \/ \E v \in Vms : \/ \E given \in BOOLEAN : AddVm(v, given) \/ UpdateVm(v, given)
                    \/ RemoveVm(v) \/ RefreshVm(v)
  \/ \E r \in Refreshing : SshReady(r) \/ ProbeEnds(r) \/ SshFails(r) \/ SshTimer(r)
  \/ FleetKilled

-----------------------------------------------------------------------------
(* Properties.                                                             *)

\* A machine that was removed does not come back, in memory or after a restart,
\* whatever was still being collected of it.
RemovedStays == [][\A v \in removed : ~Known(v) => fleet'[v] = NoVm]_fleetVars

\* Every password that is kept can be read again: the key it is under is in its
\* file, whenever the process dies.
SecretsReadable == \A v \in Vms : Known(v) => fleet[v].password \in {0, keyFile}

\* A refresh ends, whatever the machine does.
RefreshOfVmEnds == \A r \in Refreshing : refreshing[r] # NotRefreshing ~> refreshing[r] = NotRefreshing
=============================================================================

-------------------------- MODULE DeviceRegistry --------------------------
(***************************************************************************)
(* The devices seen on the network: the inventory by address that          *)
(* security/inventory.ts keeps in a file, the registry by MAC that         *)
(* security/registry.ts keeps in SQLite, the tick of security/events.ts    *)
(* that feeds one from the other and raises an alert for a new device, and *)
(* the sweep that looks for devices.  inventory() waits for `ip neigh`, so *)
(* ticks and requests overlap.                                             *)
(***************************************************************************)
EXTENDS Naturals

CONSTANTS
  Ips, Macs, NoMac,
  MaxAwaited    \* how many ticks, starts and sweeps may be waited for at once

ASSUME RegistryAssumption == NoMac \notin Macs /\ MaxAwaited \in Nat \ {0}

VARIABLES
  store,        \* security-devices.json: the MAC last seen at each address
  trust,        \* the table devices
  alerts,       \* history: the new_device alerts raised for each MAC
  unheard,      \* history: MACs whose alert a kill has prevented
  syncs,        \* ticks that wait for the neighbours
  discovering,  \* discovery.running
  asking,       \* starts of a discovery that wait for the subnet
  sweeps        \* sweeps (nmap, then the neighbours) that have yet to end

registryVars ==
  <<store, trust, alerts, unheard, syncs, discovering, asking, sweeps>>

Neighbours == [Ips -> Macs \union {NoMac}]
Nothing == [i \in Ips |-> NoMac]

RegistryInit ==
  /\ store \in Neighbours
  /\ trust = [m \in Macs |-> "absent"]
  /\ alerts = [m \in Macs |-> 0]
  /\ unheard = {}
  /\ syncs = 0
  /\ discovering = FALSE /\ asking = 0 /\ sweeps = 0

\* touch for every neighbour (and DNS client) n knows the MAC of.
Touched(n) == [i \in Ips |-> IF n[i] = NoMac THEN store[i] ELSE n[i]]
InStore(s) == {s[i] : i \in Ips} \ {NoMac}

-----------------------------------------------------------------------------
\* syncDevicesTick, every 30 s unless monitoring is paused, up to its await ...
SyncTick ==
  /\ syncs < MaxAwaited
  /\ syncs' = syncs + 1
  /\ UNCHANGED <<store, trust, alerts, unheard, discovering, asking, sweeps>>

\* A bug to be caught: a MAC counts as new when the inventory had no row for its
\* address.
NewcomersByAddress(n) == {m \in Macs : \E i \in Ips : n[i] = m /\ store[i] # m}

\* ... and behind it: inventory() and syncDevices, which looks up and inserts each
\* MAC in one go, and an alert for each MAC inserted.
Newcomers(n) == {m \in InStore(Touched(n)) : trust[m] = "absent"}

\* A bug to be caught: a device that is seen again is written anew.
SyncRewrites(n) ==
  /\ syncs > 0
  /\ syncs' = syncs - 1
  /\ store' = Touched(n)
  /\ trust' = [m \in Macs |-> IF m \in InStore(Touched(n)) THEN "pending" ELSE trust[m]]
  /\ alerts' = [m \in Macs |-> IF m \in Newcomers(n) THEN alerts[m] + 1 ELSE alerts[m]]
  /\ UNCHANGED <<unheard, discovering, asking, sweeps>>

SyncDone(n) ==
  /\ syncs > 0
  /\ syncs' = syncs - 1
  /\ store' = Touched(n)
  /\ trust' = [m \in Macs |-> IF m \in Newcomers(n) THEN "pending" ELSE trust[m]]
  /\ alerts' = [m \in Macs |-> IF m \in Newcomers(n) THEN alerts[m] + 1 ELSE alerts[m]]
  /\ UNCHANGED <<unheard, discovering, asking, sweeps>>

\* ... or the file cannot be written, and the tick ends there.
SyncFails(n) ==
  /\ syncs > 0
  /\ syncs' = syncs - 1
  /\ store' = Touched(n)
  /\ UNCHANGED <<trust, alerts, unheard, discovering, asking, sweeps>>

\* GET /devices and the end of a sweep write the inventory and no more.
ListDevices(n) ==
  /\ store' = Touched(n)
  /\ UNCHANGED <<trust, alerts, unheard, syncs, discovering, asking, sweeps>>

\* The operator's verdict, on one device, a selection, or by unblock: only rows
\* that exist are updated.
SetTrust(ms, t) ==
  /\ trust' = [m \in Macs |-> IF m \in ms /\ trust[m] # "absent" THEN t ELSE trust[m]]
  /\ UNCHANGED <<store, alerts, unheard, syncs, discovering, asking, sweeps>>

Verdict == \E ms \in SUBSET Macs, t \in {"pending", "known", "blocked"} : SetTrust(ms, t)

\* startDiscovery: the check, the await of localSubnet (unless the request names
\* the subnet), the effect without a second check.
AskDiscovery ==
  /\ ~discovering
  /\ asking + sweeps < MaxAwaited
  /\ asking' = asking + 1
  /\ UNCHANGED <<store, trust, alerts, unheard, syncs, discovering, sweeps>>

BeginSweep ==
  /\ asking > 0
  /\ asking' = asking - 1
  /\ discovering' = TRUE
  /\ sweeps' = sweeps + 1
  /\ UNCHANGED <<store, trust, alerts, unheard, syncs>>

\* execFile throws at once, for want of memory: the flag is set by then, and with no
\* other sweep under way only a restart clears it.
SweepNotStarted ==
  /\ asking > 0
  /\ asking' = asking - 1
  /\ discovering' = TRUE
  /\ UNCHANGED <<store, trust, alerts, unheard, syncs, sweeps>>

\* A bug to be caught: a sweep that finds nobody leaves the flag.
EndSweepIfFound(n) ==
  /\ sweeps > 0
  /\ sweeps' = sweeps - 1
  /\ discovering' = (discovering /\ n = Nothing)
  /\ store' = Touched(n)
  /\ UNCHANGED <<trust, alerts, unheard, syncs, asking>>

\* nmap ends, is killed or was not found.  If the write fails, the exception ends the
\* process: see RegistryKilled.
EndSweep(n) ==
  /\ sweeps > 0
  /\ sweeps' = sweeps - 1
  /\ discovering' = FALSE
  /\ store' = Touched(n)
  /\ UNCHANGED <<trust, alerts, unheard, syncs, asking>>

\* The control plane ends and starts again: killed between the inserts of a tick, or
\* inside writeFileSync, which empties the file first; or by the exception of a write
\* that fails at the end of a sweep.
RegistryKilled(new) ==
  /\ \/ new = {} /\ store' \in {store, Nothing}
     \/ /\ syncs > 0
        /\ \E n \in Neighbours : new \subseteq Newcomers(n) /\ store' = Touched(n)
  /\ trust' = [m \in Macs |-> IF m \in new THEN "pending" ELSE trust[m]]
  /\ unheard' = unheard \union new
  /\ syncs' = 0
  /\ discovering' = FALSE /\ asking' = 0 /\ sweeps' = 0
  /\ UNCHANGED alerts

RegistryNext ==
  \/ SyncTick
  \/ \E n \in Neighbours : SyncDone(n) \/ SyncFails(n) \/ ListDevices(n) \/ EndSweep(n)
  \/ Verdict
  \/ AskDiscovery
  \/ BeginSweep \/ SweepNotStarted
  \/ \E new \in SUBSET Macs : RegistryKilled(new)

RegistrySpec == RegistryInit /\ [][RegistryNext]_registryVars

-----------------------------------------------------------------------------
RegistryTypeOK ==
  /\ store \in Neighbours
  /\ trust \in [Macs -> {"absent", "pending", "known", "blocked"}]
  /\ alerts \in [Macs -> Nat]
  /\ unheard \subseteq Macs
  /\ discovering \in BOOLEAN
  /\ syncs \in 0 .. MaxAwaited
  /\ asking \in Nat /\ sweeps \in Nat /\ asking + sweeps <= MaxAwaited

\* A device raises one alert in its life: when it enters the registry, not when it
\* comes back, changes its address, takes another's, or is seen by two ticks at
\* once; none only if the process was killed between the row and the alert.
OneAlertPerDevice ==
  \A m \in Macs : alerts[m] = IF trust[m] = "absent" \/ m \in unheard THEN 0 ELSE 1

\* What the operator decided of a device, only the operator changes.
TrustIsTheOperators ==
  [][\A m \in Macs : trust[m] # "absent" /\ trust'[m] # trust[m] => Verdict]_registryVars

\* The page that shows a discovery under way comes to an end, also when two of them
\* were started together, and however the sweep ends; but for one that could not even
\* be started.
DiscoveryEnds == discovering /\ sweeps > 0 ~> ~discovering
=============================================================================

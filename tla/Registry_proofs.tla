--------------------------- MODULE Registry_proofs ---------------------------
(***************************************************************************)
(* What is proved of the device registry (DeviceRegistry) and of the bind  *)
(* to the domain controller (DirectorySession).                            *)
(***************************************************************************)
EXTENDS DeviceRegistry, DirectorySession, TLAPS

-----------------------------------------------------------------------------
(* The device registry.                                                    *)

\* The inductive invariant: an alert that a kill has prevented is one of a device that
\* has its row, so that the device never counts as new again.
RegistryInv ==
  /\ RegistryTypeOK
  /\ OneAlertPerDevice
  /\ \A m \in unheard : trust[m] # "absent"

\* What a tick or a listing writes to the inventory is an inventory.
LEMMA TouchedType ==
  ASSUME RegistryTypeOK, NEW n \in Neighbours
  PROVE  Touched(n) \in Neighbours
BY DEF RegistryTypeOK, Touched, Neighbours

LEMMA RegistryInitInv == RegistryInit => RegistryInv
<1> SUFFICES ASSUME RegistryInit PROVE RegistryInv
  OBVIOUS
<1> USE RegistryAssumption DEF RegistryInit
<1>1. RegistryTypeOK
  <2>1. /\ syncs \in 0 .. MaxAwaited /\ asking \in Nat /\ sweeps \in Nat
        /\ asking + sweeps <= MaxAwaited
    OBVIOUS
  <2> QED BY <2>1 DEF RegistryTypeOK
<1>2. OneAlertPerDevice
  BY DEF OneAlertPerDevice
<1> QED BY <1>1, <1>2 DEF RegistryInv

\* A tick: the devices it inserts had no row, hence no alert, and none was prevented.
LEMMA SyncDoneKeeps ==
  ASSUME RegistryInv, NEW n \in Neighbours, SyncDone(n)
  PROVE  RegistryInv'
<1> USE DEF RegistryInv, RegistryTypeOK, SyncDone
<1>1. RegistryTypeOK'
  <2>1. syncs' \in 0 .. MaxAwaited
    BY RegistryAssumption
  <2> QED BY <2>1, TouchedType
<1>2. \A m \in Newcomers(n) : m \in Macs /\ trust[m] = "absent" /\ m \notin unheard
  BY TouchedType DEF Newcomers, InStore, Neighbours
<1>3. OneAlertPerDevice'
  BY <1>2 DEF OneAlertPerDevice
<1>4. \A m \in unheard' : trust'[m] # "absent"
  OBVIOUS
<1> QED BY <1>1, <1>3, <1>4

\* A kill: the devices that got their rows and not their alerts are remembered.
LEMMA RegistryKilledKeeps ==
  ASSUME RegistryInv, NEW new \in SUBSET Macs, RegistryKilled(new)
  PROVE  RegistryInv'
<1> USE DEF RegistryInv, RegistryTypeOK, RegistryKilled
<1>1. store' \in Neighbours
  BY TouchedType DEF Nothing, Neighbours
<1>2. \A m \in new : trust[m] = "absent"
  BY DEF Newcomers
<1>3. OneAlertPerDevice'
  BY <1>2 DEF OneAlertPerDevice
<1>4. \A m \in unheard' : trust'[m] # "absent"
  OBVIOUS
<1>5. /\ syncs' \in 0 .. MaxAwaited /\ asking' \in Nat /\ sweeps' \in Nat
      /\ asking' + sweeps' <= MaxAwaited
  BY RegistryAssumption
<1>6. trust' \in [Macs -> {"absent", "pending", "known", "blocked"}]
  OBVIOUS
<1> QED BY <1>1, <1>3, <1>4, <1>5, <1>6

LEMMA RegistryStep == RegistryInv /\ [RegistryNext]_registryVars => RegistryInv'
<1> SUFFICES ASSUME RegistryInv, [RegistryNext]_registryVars PROVE RegistryInv'
  OBVIOUS
<1> USE DEF RegistryInv, RegistryTypeOK, OneAlertPerDevice
<1>1. CASE SyncTick
  BY <1>1, RegistryAssumption DEF SyncTick
<1>2. ASSUME NEW n \in Neighbours, SyncDone(n) PROVE RegistryInv'
  BY <1>2, SyncDoneKeeps
<1>3. ASSUME NEW n \in Neighbours, ListDevices(n) PROVE RegistryInv'
  BY <1>3, TouchedType DEF ListDevices
<1>4. ASSUME NEW n \in Neighbours, EndSweep(n) PROVE RegistryInv'
  <2>1. sweeps' \in Nat /\ asking + sweeps' <= MaxAwaited
    BY <1>4, RegistryAssumption DEF EndSweep
  <2> QED BY <1>4, <2>1, TouchedType DEF EndSweep
<1>5. CASE Verdict
  BY <1>5 DEF Verdict, SetTrust
<1>6. CASE AskDiscovery
  BY <1>6, RegistryAssumption DEF AskDiscovery
<1>7. CASE BeginSweep
  BY <1>7, RegistryAssumption DEF BeginSweep
<1>8. ASSUME NEW new \in SUBSET Macs, RegistryKilled(new) PROVE RegistryInv'
  BY <1>8, RegistryKilledKeeps
<1>9. ASSUME NEW n \in Neighbours, SyncFails(n) PROVE RegistryInv'
  <2>1. syncs' \in 0 .. MaxAwaited
    BY <1>9, RegistryAssumption DEF SyncFails
  <2> QED BY <1>9, <2>1, TouchedType DEF SyncFails
<1>10. CASE SweepNotStarted
  BY <1>10, RegistryAssumption DEF SweepNotStarted
<1>11. CASE UNCHANGED registryVars
  BY <1>11 DEF registryVars
<1> QED
  BY <1>1, <1>2, <1>3, <1>4, <1>5, <1>6, <1>7, <1>8, <1>9, <1>10, <1>11 DEF RegistryNext

LEMMA RegistryInvariant == RegistrySpec => []RegistryInv
BY RegistryInitInv, RegistryStep, PTL DEF RegistrySpec

\* Every device that entered the registry has raised one alert, unless the process was
\* killed between its row and the alert; no device has raised two, however ticks,
\* listings, verdicts and restarts follow one another.
THEOREM OneAlertEver == RegistrySpec => []OneAlertPerDevice
<1>1. RegistryInv => OneAlertPerDevice
  BY DEF RegistryInv
<1> QED BY <1>1, RegistryInvariant, PTL

\* No tick, sweep or restart changes what the operator decided of a device: a row that
\* is there changes only by a verdict.
THEOREM TrustStays == RegistrySpec => TrustIsTheOperators
<1> DEFINE Decided == \A m \in Macs : trust[m] # "absent" /\ trust'[m] # trust[m] => Verdict
<1>1. RegistryInv /\ [RegistryNext]_registryVars => [Decided]_registryVars
  <2> SUFFICES ASSUME RegistryInv, RegistryNext PROVE Decided
    OBVIOUS
  <2> USE DEF RegistryInv, RegistryTypeOK
  <2>1. CASE SyncTick \/ AskDiscovery \/ BeginSweep \/ SweepNotStarted \/ Verdict
    BY <2>1 DEF SyncTick, AskDiscovery, BeginSweep, SweepNotStarted
  <2>2. ASSUME NEW n \in Neighbours, SyncDone(n) PROVE Decided
    BY <2>2 DEF SyncDone, Newcomers
  <2>3. ASSUME NEW n \in Neighbours, SyncFails(n) \/ ListDevices(n) \/ EndSweep(n) PROVE Decided
    BY <2>3 DEF SyncFails, ListDevices, EndSweep
  <2>4. ASSUME NEW new \in SUBSET Macs, RegistryKilled(new) PROVE Decided
    <3>1. \A m \in new : trust[m] = "absent"
      BY <2>4 DEF RegistryKilled, Newcomers
    <3> QED BY <2>4, <3>1 DEF RegistryKilled
  <2> QED BY <2>1, <2>2, <2>3, <2>4 DEF RegistryNext
<1> QED BY <1>1, RegistryInvariant, PTL DEF RegistrySpec, TrustIsTheOperators

-----------------------------------------------------------------------------
(* The bind to the domain controller.                                      *)

\* A call under way that is to bind has an account to bind; one that disconnects never
\* comes to a bind.
CallsWell ==
  \A c \in Busy : IF call[c].by = "disconnect" THEN call[c].at = "unbinding"
                  ELSE call[c].account \in Accounts

\* As long as no call has overlapped another: one is under way at most, and a bound
\* connection is the client in use, or the one that this call is unbinding.
OneByOne ==
  ~tangled =>
    /\ \A c, d \in Busy : c = d
    /\ bound \subseteq {client}
    /\ \A c \in Busy : IF call[c].at = "unbinding" THEN bound \subseteq {call[c].old}
                       ELSE bound = {}

\* An operator who has disconnected waits for the unbind, or has nothing left.
Forgetting ==
  wish = "disconnected" /\ ~tangled =>
    \/ \E c \in Busy : call[c].by = "disconnect" /\ call[c].at = "unbinding"
    \/ Busy = {} /\ file = NoAccount /\ ~remembered /\ client = NoCall /\ bound = {}

DirectoryInv ==
  /\ DirectoryTypeOK
  /\ CallsWell
  /\ RememberedIsInUse
  /\ OneByOne
  /\ Forgetting

LEMMA DirectoryInitInv == DirectoryInit => DirectoryInv
<1> SUFFICES ASSUME DirectoryInit PROVE DirectoryInv
  OBVIOUS
<1> USE DirectoryAssumption DEF DirectoryInit, NoWork
<1>1. DirectoryTypeOK
  BY DEF DirectoryTypeOK, Work
<1>2. CallsWell /\ RememberedIsInUse
  BY DEF CallsWell, RememberedIsInUse, Busy
<1>3. OneByOne
  BY DEF OneByOne, Busy
<1>4. Forgetting
  BY DEF Forgetting
<1> QED BY <1>1, <1>2, <1>3, <1>4 DEF DirectoryInv

\* A call begins: it is the only one, or calls overlap from now on.
LEMMA BeginKeeps ==
  ASSUME DirectoryInv, NEW c \in Calls, NEW work \in Work, Begin(c, work),
         IF work.by = "disconnect" THEN client # NoCall ELSE work.account \in Accounts
  PROVE  /\ call' \in [Calls -> Work] /\ tangled' \in BOOLEAN
         /\ CallsWell' /\ OneByOne'
         /\ Busy' = Busy \union {c}
         /\ call'[c].by = work.by /\ (client # NoCall => call'[c].at = "unbinding")
         /\ ~tangled' => Busy = {} /\ ~tangled
<1> USE DirectoryAssumption DEF DirectoryInv, DirectoryTypeOK
<1> DEFINE w == [work EXCEPT !.at = IF client # NoCall THEN "unbinding" ELSE "binding",
                             !.old = client]
<1>1. /\ w \in Work /\ w.by = work.by /\ w.account = work.account /\ w.old = client
      /\ w.at = IF client # NoCall THEN "unbinding" ELSE "binding"
  BY DEF Work
<1> HIDE DEF w
<1>2. call' = [call EXCEPT ![c] = w]
  BY DEF Begin, w
<1>4. call' \in [Calls -> Work] /\ call'[c] = w /\ \A d \in Calls \ {c} : call'[d] = call[d]
  BY <1>1, <1>2
<1>5. Busy' = Busy \union {c}
  BY <1>1, <1>4 DEF Busy
<1>6. CallsWell'
  BY <1>1, <1>4, <1>5 DEF CallsWell, Busy
<1>7. tangled' \in BOOLEAN
  BY DEF Begin
<1>8. ~tangled' => Busy = {} /\ ~tangled
  BY DEF Begin
<1>9. OneByOne'
  <2> SUFFICES ASSUME ~tangled' PROVE OneByOne'
    BY DEF OneByOne
  <2>1. Busy' = {c} /\ bound \subseteq {client} /\ UNCHANGED <<bound, client>>
    BY <1>5, <1>8 DEF OneByOne, Begin
  <2>2. client = NoCall => bound = {}
    BY <2>1
  <2> QED BY <1>1, <1>4, <2>1, <2>2 DEF OneByOne
<1> QED BY <1>1, <1>4, <1>5, <1>6, <1>7, <1>8, <1>9

\* Connect and restore begin a call with an account, a disconnect one with a client.
LEMMA ConnectKeeps ==
  ASSUME DirectoryInv, NEW c \in Calls, NEW account \in Accounts, NEW keep \in BOOLEAN,
         DirectoryConnect(c, account, keep)
  PROVE  DirectoryInv'
<1> DEFINE work == [NoWork EXCEPT !.account = account, !.keep = keep]
<1>1. work \in Work /\ work.by = "connect" /\ work.account = account
  BY DEF NoWork, Work
<1> HIDE DEF work
<1>2. Begin(c, work)
  BY DEF DirectoryConnect, work
<1>3. call' \in [Calls -> Work] /\ tangled' \in BOOLEAN /\ CallsWell' /\ OneByOne'
  BY <1>1, <1>2, BeginKeeps
<1>4. UNCHANGED <<client, creds, bound, file, remembered, restoreDue>> /\ wish' = "connected"
  BY <1>2 DEF DirectoryConnect, Begin
<1> QED BY <1>3, <1>4 DEF DirectoryInv, DirectoryTypeOK, RememberedIsInUse, Forgetting

LEMMA DisconnectKeeps ==
  ASSUME DirectoryInv, NEW c \in Calls, DirectoryDisconnect(c)
  PROVE  DirectoryInv'
<1> DEFINE work == [NoWork EXCEPT !.by = "disconnect"]
<1>1. work \in Work /\ work.by = "disconnect"
  BY DEF NoWork, Work
<1> HIDE DEF work
<1>2. CASE client # NoCall /\ Begin(c, work) /\ UNCHANGED <<file, remembered>>
  <2>1. /\ call' \in [Calls -> Work] /\ tangled' \in BOOLEAN /\ CallsWell' /\ OneByOne'
        /\ Busy' = Busy \union {c} /\ call'[c].by = "disconnect" /\ call'[c].at = "unbinding"
    BY <1>1, <1>2, BeginKeeps
  <2>2. UNCHANGED <<client, creds, bound, file, remembered, restoreDue>> /\ wish' = "disconnected"
    BY <1>2 DEF DirectoryDisconnect, Begin
  <2>3. Forgetting'
    BY <2>1 DEF Forgetting
  <2> QED BY <2>1, <2>2, <2>3 DEF DirectoryInv, DirectoryTypeOK, RememberedIsInUse
<1>3. CASE /\ client = NoCall /\ ClearSession /\ tangled' = (tangled \/ Busy # {})
           /\ UNCHANGED <<call, client, creds, bound>>
  <2> USE <1>3 DEF ClearSession, DirectoryInv
  <2>1. UNCHANGED restoreDue /\ wish' = "disconnected"
    BY DEF DirectoryDisconnect
  <2>2. DirectoryTypeOK'
    BY <2>1 DEF DirectoryTypeOK
  <2>3. CallsWell' /\ RememberedIsInUse' /\ Busy' = Busy
    BY DEF CallsWell, RememberedIsInUse, Busy
  <2>4. ~tangled' => ~tangled /\ Busy = {}
    OBVIOUS
  <2>5. OneByOne'
    BY <2>3, <2>4 DEF OneByOne
  <2>6. Forgetting'
    <3>1. ASSUME ~tangled' PROVE bound = {}
      <4>1. bound \subseteq {client}
        BY <2>4, <3>1, Zenon DEF OneByOne
      <4> QED BY <4>1, DirectoryAssumption DEF DirectoryTypeOK
    <3> QED BY <2>3, <2>4, <3>1 DEF Forgetting
  <2> QED BY <2>2, <2>3, <2>5, <2>6
<1> QED BY <1>2, <1>3 DEF DirectoryDisconnect, work

LEMMA RestoreKeeps ==
  ASSUME DirectoryInv, NEW c \in Calls, RestoreSession(c)
  PROVE  DirectoryInv'
<1> DEFINE work == [NoWork EXCEPT !.by = "restore", !.account = file, !.keep = TRUE]
<1>1. UNCHANGED <<client, creds, bound, file, remembered, wish>> /\ restoreDue' = FALSE
  BY DEF RestoreSession, Begin
<1>2. CASE file # NoAccount /\ Begin(c, work)
  <2>1. work \in Work /\ work.by = "restore" /\ work.account \in Accounts
    BY <1>2 DEF NoWork, Work, DirectoryInv, DirectoryTypeOK
  <2> HIDE DEF work
  <2>2. /\ call' \in [Calls -> Work] /\ tangled' \in BOOLEAN /\ CallsWell' /\ OneByOne'
        /\ ~tangled' => Busy = {} /\ ~tangled
    BY <1>2, <2>1, BeginKeeps
  <2>3. ~tangled' => wish # "disconnected"
    BY <1>2, <2>2 DEF DirectoryInv, Forgetting
  <2> QED BY <1>1, <2>2, <2>3 DEF DirectoryInv, DirectoryTypeOK, RememberedIsInUse, Forgetting
<1>3. CASE UNCHANGED <<call, client, creds, bound, tangled>>
  BY <1>1, <1>3 DEF DirectoryInv, DirectoryTypeOK, CallsWell, RememberedIsInUse, OneByOne,
                    Forgetting, Busy
<1> QED BY <1>2, <1>3 DEF RestoreSession

-----------------------------------------------------------------------------
\* The call c ends: the others go on as they were.
LEMMA CallEnds ==
  ASSUME DirectoryInv, NEW c \in Calls, c \in Busy, call' = [call EXCEPT ![c] = NoWork]
  PROVE  /\ call' \in [Calls -> Work] /\ CallsWell' /\ Busy' = Busy \ {c}
         /\ \A d \in Calls : call'[d].at # "idle" => call'[d] = call[d]
         /\ ~tangled => Busy' = {}
<1> USE DEF DirectoryInv, DirectoryTypeOK
<1>1. NoWork \in Work /\ NoWork.at = "idle"
  BY DEF NoWork, Work
<1>2. call' \in [Calls -> Work] /\ call'[c] = NoWork /\ \A d \in Calls \ {c} : call'[d] = call[d]
  BY <1>1
<1>3. Busy' = Busy \ {c}
  BY <1>1, <1>2 DEF Busy
<1>4. CallsWell'
  BY <1>1, <1>2, <1>3 DEF CallsWell, Busy
<1>5. ~tangled => Busy' = {}
  BY <1>3 DEF OneByOne
<1> QED BY <1>1, <1>2, <1>3, <1>4, <1>5

LEMMA UnboundKeeps ==
  ASSUME DirectoryInv, NEW c \in Calls, Unbound(c)
  PROVE  DirectoryInv'
<1> USE DEF DirectoryInv, DirectoryTypeOK
<1>1. /\ call[c].at = "unbinding" /\ bound' = bound \ {call[c].old}
      /\ client' = NoCall /\ creds' = NoAccount /\ UNCHANGED <<restoreDue, wish, tangled>>
  BY DEF Unbound
<1>2. c \in Busy
  BY <1>1 DEF Busy
<1>3. ASSUME ~tangled PROVE bound' = {}
  <2>1. bound \subseteq {call[c].old}
    BY <1>1, <1>2, <1>3 DEF OneByOne
  <2> QED BY <1>1, <2>1
<1>4. CASE call[c].by = "disconnect" /\ ClearSession /\ call' = [call EXCEPT ![c] = NoWork]
  <2>1. /\ call' \in [Calls -> Work] /\ CallsWell'
        /\ \A d \in Calls : call'[d].at # "idle" => call'[d] = call[d]
        /\ ~tangled => Busy' = {}
    BY <1>2, <1>4, CallEnds
  <2>2. DirectoryTypeOK'
    BY <1>1, <1>4, <2>1 DEF ClearSession
  <2>3. RememberedIsInUse'
    BY <1>4 DEF ClearSession, RememberedIsInUse
  <2>4. OneByOne'
    BY <1>1, <1>3, <2>1 DEF OneByOne
  <2>5. Forgetting'
    BY <1>1, <1>3, <1>4, <2>1 DEF Forgetting, ClearSession
  <2> QED BY <2>1, <2>2, <2>3, <2>4, <2>5
<1>5. CASE /\ call[c].by # "disconnect" /\ call' = [call EXCEPT ![c].at = "binding"]
           /\ UNCHANGED <<file, remembered>>
  <2>1. call'[c] = [at |-> "binding", by |-> call[c].by, account |-> call[c].account,
                    keep |-> call[c].keep, old |-> call[c].old]
    BY <1>5 DEF Work
  <2>2. call' \in [Calls -> Work] /\ \A d \in Calls \ {c} : call'[d] = call[d]
    <3>1. call'[c] \in Work
      BY <2>1 DEF Work
    <3> QED BY <1>5, <3>1
  <2>3. Busy' = Busy
    BY <1>2, <2>1, <2>2 DEF Busy
  <2>4. CallsWell'
    <3>1. call'[c].by # "disconnect" /\ call'[c].account \in Accounts
      BY <1>2, <1>5, <2>1 DEF CallsWell
    <3> QED BY <2>2, <2>3, <3>1 DEF CallsWell, Busy
  <2>5. RememberedIsInUse'
    BY <1>1, <1>5 DEF RememberedIsInUse
  <2>6. OneByOne'
    <3>1. ~tangled => bound' = {} /\ \A d, e \in Busy' : d = e
      BY <1>3, <2>3 DEF OneByOne
    <3> QED BY <1>1, <3>1 DEF OneByOne
  <2>7. wish = "disconnected" => tangled
    BY <1>2, <1>5 DEF Forgetting, OneByOne
  <2>8. Forgetting'
    BY <1>1, <2>7 DEF Forgetting
  <2> QED BY <1>1, <1>5, <2>2, <2>4, <2>5, <2>6, <2>8
<1> QED BY <1>4, <1>5 DEF Unbound

LEMMA BindsKeeps ==
  ASSUME DirectoryInv, NEW c \in Calls, Binds(c)
  PROVE  DirectoryInv'
<1> USE DEF DirectoryInv, DirectoryTypeOK
<1>1. /\ call[c].at = "binding" /\ client' = c /\ creds' = call[c].account
      /\ bound' = bound \union {c} /\ UNCHANGED <<restoreDue, wish, tangled>>
      /\ call' = [call EXCEPT ![c] = NoWork] /\ Keep(call[c].account, call[c].keep)
  BY DEF Binds
<1>2. c \in Busy /\ call[c].by # "disconnect" /\ call[c].account \in Accounts
  BY <1>1 DEF Busy, CallsWell
<1>3. /\ call' \in [Calls -> Work] /\ CallsWell'
      /\ \A d \in Calls : call'[d].at # "idle" => call'[d] = call[d]
      /\ ~tangled => Busy' = {}
  BY <1>1, <1>2, CallEnds
<1>4. DirectoryTypeOK'
  BY <1>1, <1>2, <1>3 DEF Keep, ClearSession
<1>5. RememberedIsInUse'
  BY <1>1, <1>2, DirectoryAssumption DEF RememberedIsInUse, Keep, ClearSession
<1>6. OneByOne'
  <2>1. ASSUME ~tangled PROVE bound' = {c}
    <3>1. bound = {}
      BY <1>1, <1>2, <2>1 DEF OneByOne
    <3> QED BY <1>1, <3>1
  <2> QED BY <1>1, <1>3, <2>1 DEF OneByOne, Busy
<1>7. wish = "disconnected" => tangled
  BY <1>1, <1>2 DEF Forgetting, OneByOne
<1>8. Forgetting'
  BY <1>1, <1>7 DEF Forgetting
<1> QED BY <1>3, <1>4, <1>5, <1>6, <1>8

LEMMA BindRefusedKeeps ==
  ASSUME DirectoryInv, NEW c \in Calls, BindRefused(c)
  PROVE  DirectoryInv'
<1> USE DEF DirectoryInv, DirectoryTypeOK
<1>1. /\ call[c].at = "binding" /\ UNCHANGED <<client, creds, bound, restoreDue, wish, tangled>>
      /\ call' = [call EXCEPT ![c] = NoWork]
  BY DEF BindRefused
<1>2. c \in Busy /\ call[c].by # "disconnect"
  BY <1>1 DEF Busy, CallsWell
<1>3. /\ call' \in [Calls -> Work] /\ CallsWell'
      /\ \A d \in Calls : call'[d].at # "idle" => call'[d] = call[d]
      /\ ~tangled => Busy' = {}
  BY <1>1, <1>2, CallEnds
<1>4. ClearSession \/ UNCHANGED <<file, remembered>>
  BY DEF BindRefused
<1>5. DirectoryTypeOK' /\ RememberedIsInUse'
  <2>1. CASE ClearSession
    BY <1>1, <1>3, <2>1 DEF RememberedIsInUse, ClearSession
  <2>2. CASE UNCHANGED <<file, remembered>>
    BY <1>1, <1>3, <2>2 DEF RememberedIsInUse
  <2> QED BY <1>4, <2>1, <2>2
<1>6. OneByOne'
  BY <1>1, <1>3 DEF OneByOne, Busy
<1>7. wish = "disconnected" => tangled
  BY <1>1, <1>2 DEF Forgetting, OneByOne
<1>8. Forgetting'
  BY <1>1, <1>7 DEF Forgetting
<1> QED BY <1>3, <1>5, <1>6, <1>8

LEMMA DroppedKeeps ==
  ASSUME DirectoryInv, Dropped
  PROVE  DirectoryInv'
<1> USE DEF DirectoryInv, DirectoryTypeOK
<1>1. /\ client # NoCall /\ client' = NoCall
      /\ UNCHANGED <<call, creds, file, remembered, restoreDue, wish>>
      /\ (bound' = bound \ {client} /\ tangled' = tangled) \/ (tangled' = TRUE /\ bound' = bound)
  BY DEF Dropped
<1>2. DirectoryTypeOK' /\ CallsWell' /\ RememberedIsInUse' /\ Busy' = Busy
  BY <1>1 DEF CallsWell, RememberedIsInUse, Busy
<1>3. ~tangled' => ~tangled /\ bound' = {}
  BY <1>1 DEF OneByOne
<1>4. OneByOne'
  BY <1>1, <1>2, <1>3 DEF OneByOne
<1>5. Forgetting'
  BY <1>1, <1>2, <1>3 DEF Forgetting
<1> QED BY <1>2, <1>4, <1>5

LEMMA DirectoryStep == DirectoryInv /\ [DirectoryNext]_directoryVars => DirectoryInv'
<1> SUFFICES ASSUME DirectoryInv, [DirectoryNext]_directoryVars PROVE DirectoryInv'
  OBVIOUS
<1>1. ASSUME NEW c \in Calls, NEW account \in Accounts, NEW keep \in BOOLEAN,
             DirectoryConnect(c, account, keep)
      PROVE  DirectoryInv'
  BY <1>1, ConnectKeeps
<1>2. ASSUME NEW c \in Calls,
             DirectoryDisconnect(c) \/ RestoreSession(c) \/ Unbound(c) \/ Binds(c) \/ BindRefused(c)
      PROVE  DirectoryInv'
  BY <1>2, DisconnectKeeps, RestoreKeeps, UnboundKeeps, BindsKeeps, BindRefusedKeeps
<1>3. CASE Dropped
  BY <1>3, DroppedKeeps
<1>4. CASE DirectoryRestart
  <2> USE <1>4 DEF DirectoryRestart, DirectoryInv
  <2>1. NoWork \in Work /\ NoWork.at = "idle"
    BY DEF NoWork, Work
  <2>2. DirectoryTypeOK'
    BY <2>1 DEF DirectoryTypeOK
  <2>3. Busy' = {}
    BY <2>1 DEF Busy
  <2>4. CallsWell' /\ RememberedIsInUse' /\ Forgetting'
    BY <2>3 DEF CallsWell, RememberedIsInUse, Forgetting
  <2>5. OneByOne'
    BY <2>3 DEF OneByOne
  <2> QED BY <2>2, <2>4, <2>5
<1>5. CASE UNCHANGED directoryVars
  BY <1>5 DEF directoryVars, DirectoryInv, DirectoryTypeOK, CallsWell, RememberedIsInUse, OneByOne,
              Forgetting, Busy
<1> QED BY <1>1, <1>2, <1>3, <1>4, <1>5 DEF DirectoryNext

LEMMA DirectoryInvariant == DirectorySpec => []DirectoryInv
BY DirectoryInitInv, DirectoryStep, PTL DEF DirectorySpec

\* The retained session is the one in use, a disconnect that no other call overlaps
\* leaves neither password nor connection behind, and calls that wait for one another
\* lose no connection.
THEOREM SessionIsKept == DirectorySpec => []SessionKept
<1>1. DirectoryInv => SessionKept
  <2> SUFFICES ASSUME DirectoryInv PROVE SessionKept
    OBVIOUS
  <2>1. ForgottenForGood
    BY DEF DirectoryInv, Forgetting, ForgottenForGood
  <2>2. NoLostConnection
    BY DEF DirectoryInv, OneByOne, NoLostConnection
  <2> QED BY <2>1, <2>2 DEF DirectoryInv, SessionKept
<1> QED BY <1>1, DirectoryInvariant, PTL
=============================================================================

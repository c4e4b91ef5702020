--------------------------- MODULE Resolver_proofs ---------------------------
(***************************************************************************)
(* What is proved of the resolver's sockets (ResolverSockets), of the      *)
(* threat feeds it refuses names by (ThreatFeeds), of how it asks its      *)
(* upstreams and limits its clients (Forwarding), and of the lookups of    *)
(* the suspicious names in its log (AutoIntel).                            *)
(***************************************************************************)
EXTENDS ResolverSockets, ThreatFeeds, Forwarding, AutoIntel, WellFoundedInduction, TLAPS

-----------------------------------------------------------------------------
(* The resolver's sockets.                                                 *)

\* The inductive invariant.  As long as no start was called while another one
\* waited, at most one waits; it has closed everything, and it will bind where the
\* table says.  Only the listener that start waits for is still referred to.
SocketsInv ==
  /\ SocketsTypeOK
  /\ closing => waiting # <<>>
  /\ ~overlapped => /\ Len(waiting) <= 1
                    /\ waiting = <<>> => tcp = udp
                    /\ waiting # <<>> => /\ udp = NoPort /\ open = {}
                                         /\ Head(waiting) = asked
                                         /\ ~closing => tcp = NoPort
  /\ SocketsKept

LEMMA SocketsInitInv == SocketsInit => SocketsInv
<1> SUFFICES ASSUME SocketsInit PROVE SocketsInv
  OBVIOUS
<1>1. SocketsTypeOK
  <2>1. waiting \in Seq(Asked) /\ Len(waiting) = 0 /\ 0 <= MaxWaiting
    BY SocketsAssumption DEF SocketsInit
  <2> QED BY <2>1 DEF SocketsInit, SocketsTypeOK
<1> QED
  BY <1>1 DEF SocketsInit, SocketsInv, SocketsKept, NoForgottenSocket, WhereAsked

\* A start, of boot or of changed settings: it closes what the references refer to,
\* and waits for the port that is asked for now.
LEMMA StartKeeps ==
  ASSUME SocketsInv, NEW p \in Asked, Start(p), asked' = p, up' \in BOOLEAN
  PROVE  SocketsInv'
<1> USE DEF SocketsInv, SocketsTypeOK, Start
<1>1. /\ waiting' \in Seq(Asked) /\ Len(waiting') = Len(waiting) + 1
      /\ waiting' # <<>>
      /\ waiting = <<>> => Len(waiting') = 1 /\ Head(waiting') = p
  <2>1. waiting \in Seq(Asked) /\ waiting' = Append(waiting, p)
    OBVIOUS
  <2>2. waiting' \in Seq(Asked) /\ Len(waiting') = Len(waiting) + 1
    BY <2>1
  <2>3. waiting' # <<>>
    BY <2>1, <2>2
  <2>4. waiting = <<>> => Len(waiting') = 1 /\ Head(waiting') = p
    BY <2>1, <2>2
  <2> QED BY <2>2, <2>3, <2>4
<1>2. SocketsTypeOK'
  <2>1. Len(waiting') <= MaxWaiting
    BY <1>1, SocketsAssumption
  <2>2. tcp' \in Ports \union {NoPort} /\ udp' \in Ports \union {NoPort}
    BY DEF Ports
  <2> QED BY <1>1, <2>1, <2>2
<1>3. ~overlapped' => ~overlapped /\ waiting = <<>>
  OBVIOUS
<1>4. ASSUME ~overlapped'
      PROVE  /\ Len(waiting') <= 1 /\ Head(waiting') = asked'
             /\ udp' = NoPort /\ open' = {}
             /\ ~closing' => tcp' = NoPort
  <2>1. open = {udp} \ {NoPort} /\ Len(waiting') <= 1 /\ Head(waiting') = asked'
    BY <1>1, <1>3, <1>4 DEF SocketsKept, NoForgottenSocket
  <2>2. udp' = NoPort /\ open' = {} /\ (~closing' => tcp' = NoPort)
    BY <2>1
  <2> QED BY <2>1, <2>2
<1>5. SocketsKept'
  BY <1>1, <1>4 DEF SocketsKept, NoForgottenSocket, WhereAsked
<1> QED BY <1>1, <1>2, <1>4, <1>5

LEMMA GoneKeeps ==
  ASSUME SocketsInv, Gone
  PROVE  SocketsInv'
<1>1. SocketsTypeOK'
  <2>1. waiting' \in Seq(Asked) /\ Len(waiting') = 0 /\ 0 <= MaxWaiting
    BY SocketsAssumption DEF Gone
  <2> QED BY <2>1 DEF Gone, SocketsInv, SocketsTypeOK
<1> QED BY <1>1 DEF Gone, SocketsInv, SocketsKept, NoForgottenSocket, WhereAsked

\* The start that has waited longest binds a port that was free: the only one, if
\* none was called meanwhile.
LEMMA BindKeeps ==
  ASSUME SocketsInv, NEW p \in Ports, Bind(p)
  PROVE  SocketsInv'
<1> USE DEF SocketsInv, SocketsTypeOK, Bind
<1>1. /\ waiting' \in Seq(Asked) /\ Len(waiting') = Len(waiting) - 1
      /\ Len(waiting) <= 1 => waiting' = <<>>
  OBVIOUS
<1>2. SocketsTypeOK'
  <2>1. Len(waiting') <= MaxWaiting
    BY <1>1, SocketsAssumption
  <2> QED BY <1>1, <2>1
<1>3. ASSUME ~overlapped'
      PROVE  /\ waiting' = <<>> /\ tcp' = udp' /\ open' = {udp'} \ {NoPort}
             /\ udp' \in {asked', Fallback}
  <2>1. waiting' = <<>> /\ open = {} /\ Head(waiting) = asked
    BY <1>1, <1>3
  <2>2. p # NoPort
    BY SocketsAssumption DEF Ports
  <2>3. p \in {asked', Fallback}
    BY <2>1
  <2> QED BY <2>1, <2>2, <2>3
<1>4. SocketsKept'
  BY <1>3 DEF SocketsKept, NoForgottenSocket, WhereAsked
<1> QED BY <1>1, <1>2, <1>3, <1>4

\* A start that is refused leaves the resolver off.
LEMMA BindFailsKeeps ==
  ASSUME SocketsInv, BindFails
  PROVE  SocketsInv'
<1> USE DEF SocketsInv, SocketsTypeOK, BindFails
<1>1. /\ waiting' \in Seq(Asked) /\ Len(waiting') = Len(waiting) - 1
      /\ Len(waiting) <= 1 => waiting' = <<>>
  OBVIOUS
<1>2. SocketsTypeOK'
  <2>1. Len(waiting') <= MaxWaiting
    BY <1>1, SocketsAssumption
  <2> QED BY <1>1, <2>1
<1>3. ASSUME ~overlapped'
      PROVE  /\ waiting' = <<>> /\ tcp' = udp' /\ open' = {udp'} \ {NoPort}
             /\ udp' = NoPort
  BY <1>1, <1>3
<1>4. SocketsKept'
  BY <1>3 DEF SocketsKept, NoForgottenSocket, WhereAsked
<1> QED BY <1>1, <1>2, <1>3, <1>4

\* The last connection of a listener that start waits for ends: nothing refers to it.
LEMMA DisconnectKeeps ==
  ASSUME SocketsInv, NEW q \in Ports, Disconnect(q)
  PROVE  SocketsInv'
<1> USE DEF SocketsInv, SocketsTypeOK, Disconnect
<1>1. SocketsTypeOK'
  OBVIOUS
<1>2. SocketsKept'
  BY DEF SocketsKept, NoForgottenSocket, WhereAsked
<1>3. closing => waiting # <<>>
  OBVIOUS
<1>4. /\ ~closing' /\ waiting' # <<>> /\ ~overlapped' => tcp' = NoPort
      /\ waiting' = <<>> /\ ~overlapped' => tcp' = udp'
  BY <1>3
<1> QED BY <1>1, <1>2, <1>3, <1>4

LEMMA SocketsStep == SocketsInv /\ [SocketsNext]_socketVars => SocketsInv'
<1> SUFFICES ASSUME SocketsInv, [SocketsNext]_socketVars PROVE SocketsInv'
  OBVIOUS
<1>1. CASE Boot
  <2>1. asked \in Asked /\ asked' = asked /\ Start(asked) /\ up' \in BOOLEAN
    BY <1>1 DEF Boot, SocketsInv, SocketsTypeOK
  <2> QED BY <2>1, StartKeeps
<1>2. CASE Crash
  BY <1>2, GoneKeeps DEF Crash
<1>3. ASSUME NEW p \in Asked, Apply(p) PROVE SocketsInv'
  <2>1. asked' = p /\ Start(p) /\ up' \in BOOLEAN
    BY <1>3 DEF Apply, SocketsInv, SocketsTypeOK
  <2> QED BY <2>1, StartKeeps
<1>4. ASSUME NEW q \in Ports, Talks(q) \/ FallsSilent(q) PROVE SocketsInv'
  BY <1>4 DEF Talks, FallsSilent, SocketsInv, SocketsTypeOK, SocketsKept, NoForgottenSocket, WhereAsked
<1>5. ASSUME NEW q \in Ports, Disconnect(q) PROVE SocketsInv'
  BY <1>5, DisconnectKeeps
<1>6. ASSUME NEW q \in Ports, Foreign(q) PROVE SocketsInv'
  BY <1>6 DEF Foreign, SocketsInv, SocketsTypeOK, SocketsKept, NoForgottenSocket, WhereAsked
<1>7. CASE BindFails
  BY <1>7, BindFailsKeeps
<1>8. ASSUME NEW p \in Ports, Bind(p) PROVE SocketsInv'
  BY <1>8, BindKeeps
<1>9. ASSUME NEW p \in Ports, BindDies(p) PROVE SocketsInv'
  BY <1>9, GoneKeeps DEF BindDies
<1>10. CASE UNCHANGED socketVars
  BY <1>10 DEF socketVars, SocketsInv, SocketsTypeOK, SocketsKept, NoForgottenSocket, WhereAsked
<1> QED
  BY <1>1, <1>2, <1>3, <1>4, <1>5, <1>6, <1>7, <1>8, <1>9, <1>10 DEF SocketsNext, Binding

\* As long as no settings are applied while a start waits, the resolver forgets no
\* socket and listens where the settings say, whatever takes and frees the ports, for
\* any ports and any number of waiting starts.
THEOREM NoSocketIsLost == SocketsSpec => []SocketsKept
<1>1. SocketsSpec => []SocketsInv
  BY SocketsInitInv, SocketsStep, PTL DEF SocketsSpec
<1>2. SocketsInv => SocketsKept
  BY DEF SocketsInv
<1> QED BY <1>1, <1>2, PTL

-----------------------------------------------------------------------------
(* The threat feeds.                                                       *)

Precedes == {s \in Nat \X Nat : s[1] < s[2]}

\* The natural numbers are well ordered; so a set of them has a least one.
LEMMA PrecedesWF == IsWellFoundedOn(Precedes, Nat)
BY NatLessThanWellFounded DEF OpToRel, Precedes

LEMMA NatMin ==
  ASSUME NEW T \in SUBSET Nat, T # {}
  PROVE  \E x \in T : \A y \in T : x <= y
<1>1. PICK x \in T : \A y \in T : ~(<<y, x>> \in Precedes)
  BY PrecedesWF, WFMin
<1>2. ASSUME NEW y \in T PROVE ~(y < x)
  <2>1. <<y, x>> \in Nat \X Nat
    OBVIOUS
  <2> QED BY <1>1, <2>1 DEF Precedes
<1> QED BY <1>2

\* The next feed is a feed that is switched on, not before i; without one it is 0.
LEMMA NextFeedIs ==
  ASSUME enabled \subseteq Feeds, NEW i \in Nat
  PROVE  /\ NextFeed(i) \in Feeds \union {0}
         /\ NextFeed(i) # 0 => NextFeed(i) >= i
<1> DEFINE T == {f \in enabled : f >= i}
<1>1. CASE T = {}
  BY <1>1 DEF NextFeed
<1>2. CASE T # {}
  <2>1. T \subseteq enabled /\ Feeds \subseteq Nat /\ T \in SUBSET Nat
    <3>1. Feeds \subseteq Nat
      BY FeedsAssumption DEF Feeds
    <3>2. T \subseteq enabled
      OBVIOUS
    <3> QED BY <3>1, <3>2
  <2>2. PICK x \in T : \A y \in T : x <= y
    BY <1>2, <2>1, NatMin
  <2>3. \E f \in enabled : f >= i /\ \A g \in enabled : g >= i => f <= g
    BY <2>1, <2>2
  <2>4. NextFeed(i) = CHOOSE f \in enabled : f >= i /\ \A g \in enabled : g >= i => f <= g
    BY <2>3 DEF NextFeed
  <2>5. NextFeed(i) \in enabled /\ NextFeed(i) >= i
    BY <2>3, <2>4
  <2> QED BY <2>5
<1> QED BY <1>1, <1>2

\* The feeds that the loop passes from i on are not before i.
LEMMA PassedAreBehind ==
  ASSUME NEW i \in Nat, NEW f \in Passed(i)
  PROVE  f \in Feeds /\ f >= i
BY DEF Passed

\* The inductive invariant: as long as no refresh started while another one was under
\* way, only the latest is under way, and what is in force is of feeds that it has
\* passed.
FeedsInv ==
  /\ FeedsTypeOK
  /\ ~crowded => \A r \in Refreshes :
       at[r] # 0 => r = latest /\ \A i \in bad : i[1] < at[r]
  /\ FeedsInForce

LEMMA FeedsInitInv == FeedsInit => FeedsInv
<1> SUFFICES ASSUME FeedsInit PROVE FeedsInv
  OBVIOUS
<1>1. FeedsTypeOK
  BY DEF FeedsInit, FeedsTypeOK, Feeds, Indicators
<1> QED BY <1>1 DEF FeedsInit, FeedsInv, FeedsInForce, LatestInForce, NothingElse

LEMMA StartRefreshKeeps ==
  ASSUME FeedsInv, NEW r \in Refreshes, StartRefresh(r)
  PROVE  FeedsInv'
<1> USE DEF FeedsInv, FeedsTypeOK, StartRefresh
<1>1. NextFeed(1) \in Feeds \union {0}
  BY NextFeedIs
<1>2. FeedsTypeOK'
  BY <1>1 DEF Idle, Indicators
<1>3. ASSUME ~crowded', NEW q \in Refreshes, at'[q] # 0 PROVE q = latest'
  BY <1>3 DEF Idle
<1>4. FeedsInForce'
  BY DEF FeedsInForce, LatestInForce, NothingElse
<1> QED BY <1>2, <1>3, <1>4

\* The loop goes on: behind the feed it has dealt with.
LEMMA ContinueGoesOn ==
  ASSUME FeedsTypeOK, NEW r \in Refreshes, at[r] # 0,
         NEW counted \in SUBSET Feeds, Continue(r, counted)
  PROVE  /\ at' \in [Refreshes -> Feeds \union {0}]
         /\ \A q \in Refreshes \ {r} : at'[q] = at[q]
         /\ at'[r] # 0 => at'[r] > at[r]
         /\ entries' \subseteq Feeds
         /\ \A f \in counted : f <= at[r] => f \in entries'
<1>1. at \in [Refreshes -> Feeds \union {0}] /\ enabled \subseteq Feeds
  BY DEF FeedsTypeOK
<1>2. at[r] \in Nat /\ at[r] + 1 \in Nat
  BY <1>1, FeedsAssumption DEF Feeds
<1>3. /\ NextFeed(at[r] + 1) \in Feeds \union {0}
      /\ NextFeed(at[r] + 1) # 0 => NextFeed(at[r] + 1) >= at[r] + 1
  BY <1>1, <1>2, NextFeedIs
<1>4. at' = [at EXCEPT ![r] = NextFeed(at[r] + 1)] /\ entries' = counted \ Passed(at[r] + 1)
  BY DEF Continue
<1>5. at'[r] # 0 => at'[r] > at[r]
  <2>1. at'[r] = NextFeed(at[r] + 1)
    BY <1>1, <1>4
  <2>2. NextFeed(at[r] + 1) \in Int
    BY <1>3, FeedsAssumption DEF Feeds
  <2> QED BY <1>2, <1>3, <2>1, <2>2
<1>6. ASSUME NEW f \in counted, f <= at[r] PROVE f \in entries'
  <2>1. f \in Feeds /\ f \in Int
    BY FeedsAssumption DEF Feeds
  <2>2. ~(f >= at[r] + 1)
    BY <1>2, <1>6, <2>1
  <2> QED BY <1>2, <1>4, <2>2, PassedAreBehind
<1> QED BY <1>1, <1>3, <1>4, <1>5, <1>6

LEMMA DownloadKeeps ==
  ASSUME FeedsInv, NEW r \in Refreshes, NEW v \in Versions, Download(r, v)
  PROVE  FeedsInv'
<1> USE DEF FeedsInv, Download
<1>1. at[r] \in Feeds /\ FeedsTypeOK
  BY DEF FeedsTypeOK
<1>2. entries \union {at[r]} \in SUBSET Feeds
  BY <1>1 DEF FeedsTypeOK
<1>3. /\ at' \in [Refreshes -> Feeds \union {0}]
      /\ \A q \in Refreshes \ {r} : at'[q] = at[q]
      /\ at'[r] # 0 => at'[r] > at[r]
      /\ entries' \subseteq Feeds
      /\ \A f \in entries \union {at[r]} : f <= at[r] => f \in entries'
  BY <1>1, <1>2, ContinueGoesOn
<1>4. FeedsTypeOK'
  BY <1>1, <1>3 DEF FeedsTypeOK, Indicators
<1>5. LatestInForce'
  BY DEF FeedsInForce, LatestInForce
<1>6. ASSUME ~crowded'
      PROVE  /\ r = latest /\ bad' = got'
             /\ \A i \in bad' : i[1] <= at[r] /\ i[1] \in entries'
             /\ \A q \in Refreshes : at'[q] # 0 => q = latest' /\ \A i \in bad' : i[1] < at'[q]
  <2>1. r = latest /\ ~crowded /\ bad = got
    BY <1>6 DEF FeedsInForce, NothingElse
  <2>2. \A i \in bad : i[1] < at[r] /\ i[1] \in entries
    BY <1>6 DEF FeedsInForce, NothingElse
  <2>3. bad' = bad \union {<<at[r], v>>} /\ got' = got \union {<<at[r], v>>}
    BY <2>1
  <2>4. ASSUME NEW i \in bad' PROVE i[1] \in entries \union {at[r]} /\ i[1] <= at[r]
    <3>1. CASE i \in bad
      <4>1. i[1] \in Int /\ at[r] \in Int
        BY <1>1, <3>1, FeedsAssumption DEF FeedsTypeOK, Indicators, Feeds
      <4> QED BY <2>2, <3>1, <4>1
    <3>2. CASE i = <<at[r], v>>
      BY <1>1, <3>2, FeedsAssumption DEF Feeds
    <3> QED BY <2>3, <3>1, <3>2
  <2>5. \A i \in bad' : i[1] \in entries'
    BY <1>3, <2>4
  <2>6. ASSUME NEW q \in Refreshes, at'[q] # 0
        PROVE  q = latest' /\ \A i \in bad' : i[1] < at'[q]
    <3>1. q = r
      BY <1>3, <1>6, <2>1, <2>6
    <3>2. at'[q] > at[r] /\ at'[q] \in Int /\ at[r] \in Int
      BY <1>1, <1>3, <2>6, <3>1, FeedsAssumption DEF Feeds
    <3>3. \A i \in bad' : i[1] \in Int
      BY <1>4, FeedsAssumption DEF FeedsTypeOK, Indicators, Feeds
    <3> QED BY <2>1, <2>4, <3>1, <3>2, <3>3
  <2> QED BY <2>1, <2>3, <2>4, <2>5, <2>6
<1> QED BY <1>4, <1>5, <1>6 DEF FeedsInForce, NothingElse

LEMMA DownloadFailsKeeps ==
  ASSUME FeedsInv, NEW r \in Refreshes, DownloadFails(r)
  PROVE  FeedsInv'
<1> USE DEF FeedsInv, DownloadFails
<1>1. at[r] \in Feeds /\ entries \in SUBSET Feeds /\ FeedsTypeOK
  BY DEF FeedsTypeOK
<1>2. /\ at' \in [Refreshes -> Feeds \union {0}]
      /\ \A q \in Refreshes \ {r} : at'[q] = at[q]
      /\ at'[r] # 0 => at'[r] > at[r]
      /\ entries' \subseteq Feeds
      /\ \A f \in entries : f <= at[r] => f \in entries'
  BY <1>1, ContinueGoesOn
<1>3. FeedsTypeOK'
  BY <1>1, <1>2 DEF FeedsTypeOK
<1>4. LatestInForce'
  BY DEF FeedsInForce, LatestInForce
<1>5. ASSUME ~crowded'
      PROVE  /\ bad' = got' /\ \A i \in bad' : i[1] \in entries'
             /\ \A q \in Refreshes : at'[q] # 0 => q = latest' /\ \A i \in bad' : i[1] < at'[q]
  <2>1. r = latest /\ ~crowded /\ bad = got /\ bad' = bad
    BY <1>5 DEF FeedsInForce, NothingElse
  <2>2. \A i \in bad : i[1] < at[r] /\ i[1] \in entries
    BY <1>5 DEF FeedsInForce, NothingElse
  <2>3. \A i \in bad : i[1] \in Int
    BY <1>1, FeedsAssumption DEF FeedsTypeOK, Indicators, Feeds
  <2>4. at[r] \in Int
    BY <1>1, FeedsAssumption DEF Feeds
  <2>5. \A i \in bad' : i[1] \in entries'
    BY <1>2, <2>1, <2>2, <2>3, <2>4
  <2>6. ASSUME NEW q \in Refreshes, at'[q] # 0
        PROVE  q = latest' /\ \A i \in bad' : i[1] < at'[q]
    <3>1. q = r
      BY <1>2, <1>5, <2>1, <2>6
    <3>2. at'[q] > at[r] /\ at'[q] \in Int
      BY <1>2, <2>6, <3>1, FeedsAssumption DEF Feeds
    <3> QED BY <2>1, <2>2, <2>3, <2>4, <3>1, <3>2
  <2> QED BY <2>1, <2>5, <2>6
<1> QED BY <1>3, <1>4, <1>5 DEF FeedsInForce, NothingElse

LEMMA FeedsStep == FeedsInv /\ [FeedsNext]_feedVars => FeedsInv'
<1> SUFFICES ASSUME FeedsInv, [FeedsNext]_feedVars PROVE FeedsInv'
  OBVIOUS
<1> USE DEF FeedsInv, FeedsTypeOK, FeedsInForce, LatestInForce, NothingElse
<1>1. ASSUME NEW r \in Refreshes, StartRefresh(r) PROVE FeedsInv'
  BY <1>1, StartRefreshKeeps
<1>2. ASSUME NEW r \in Refreshes, NEW v \in Versions, Download(r, v) PROVE FeedsInv'
  BY <1>2, DownloadKeeps
<1>3. ASSUME NEW r \in Refreshes, DownloadFails(r) PROVE FeedsInv'
  BY <1>3, DownloadFailsKeeps
<1>4. ASSUME NEW f \in Feeds, SetFeedEnabled(f) PROVE FeedsInv'
  BY <1>4 DEF SetFeedEnabled
<1>5. CASE SwitchSinkhole
  BY <1>5 DEF SwitchSinkhole
<1>6. CASE ReloadSinkhole
  BY <1>6 DEF ReloadSinkhole
<1>7. CASE FeedsRestart
  BY <1>7 DEF FeedsRestart, Indicators
<1>8. CASE UNCHANGED feedVars
  BY <1>8 DEF feedVars
<1> QED BY <1>1, <1>2, <1>3, <1>4, <1>5, <1>6, <1>7, <1>8 DEF FeedsNext, FeedStep

\* What the refresh that was started last has fetched is in force, and unless another
\* one was under way when it started nothing else is; for any feeds, any downloads
\* under way at once and any order in which they end.
THEOREM LastRefreshIsInForce == FeedsSpec => []FeedsInForce
<1>1. FeedsSpec => []FeedsInv
  BY FeedsInitInv, FeedsStep, PTL DEF FeedsSpec
<1>2. FeedsInv => FeedsInForce
  BY DEF FeedsInv
<1> QED BY <1>1, <1>2, PTL

-----------------------------------------------------------------------------
(* The upstreams.  The counter of turns is kept modulo a multiple of the   *)
(* length of every list, so the turn goes round each of them; as many      *)
(* ticks as a window has meet two windows at most.                         *)

LEMMA DivMod ==
  ASSUME NEW a \in Nat, NEW n \in Nat \ {0}
  PROVE  a \div n \in Nat /\ a = n * (a \div n) + (a % n)
  OBVIOUS

LEMMA ModIs ==
  ASSUME NEW a \in Nat, NEW n \in Nat \ {0}
  PROVE  a % n \in 0 .. n - 1
  OBVIOUS

LEMMA ModMod ==
  ASSUME NEW c \in Nat \ {0}, NEW n \in Nat \ {0}, c % n = 0, NEW a \in 0 .. c
  PROVE  (a % c) % n = a % n
<1>1. CASE a < c
  <2>1. a % c = a
    BY <1>1
  <2> QED BY <2>1
<1>2. CASE a = c
  <2>1. a % c = 0
    BY <1>2
  <2>2. 0 % n = 0
    OBVIOUS
  <2> QED BY <1>2, <2>1, <2>2
<1> QED BY <1>1, <1>2

LEMMA ModUnique ==
  ASSUME NEW n \in Nat \ {0}, NEW q \in Nat, NEW r \in 0 .. n - 1
  PROVE  (n * q + r) % n = r
<1> DEFINE a == n * q + r
           d == a \div n
           s == a % n
<1>1. n * q \in Nat /\ a \in Nat
  OBVIOUS
<1>2. d \in Nat /\ s \in 0 .. n - 1 /\ a = n * d + s
  BY <1>1, DivMod
<1> HIDE DEF d, s
<1>3. d \in Int /\ q \in Int /\ n * (d - q) = n * d - n * q
  BY <1>2
<1>4. n * (d - q) = r - s
  BY <1>2, <1>3
<1>5. d - q >= 1 => n * (d - q) >= n
  BY <1>3
<1>6. d - q <= -1 => n * (d - q) <= -n
  BY <1>3
<1>7. d - q = 0
  BY <1>2, <1>3, <1>4, <1>5, <1>6
<1>8. n * (d - q) = 0
  BY <1>7
<1> QED BY <1>2, <1>4, <1>8 DEF s

LEMMA ModNext ==
  ASSUME NEW a \in Nat, NEW n \in Nat \ {0}
  PROVE  (a + 1) % n = IF (a % n) + 1 = n THEN 0 ELSE (a % n) + 1
<1> DEFINE q == a \div n
           r == a % n
<1>1. q \in Nat /\ r \in 0 .. n - 1 /\ a = n * q + r
  BY DivMod
<1> HIDE DEF q, r
<1>2. CASE r + 1 = n
  <2>1. a + 1 = n * (q + 1) + 0
    BY <1>1, <1>2
  <2>2. (n * (q + 1) + 0) % n = 0
    BY <1>1, ModUnique
  <2> QED BY <1>2, <2>1, <2>2 DEF r
<1>3. CASE r + 1 # n
  <2>1. a + 1 = n * q + (r + 1) /\ r + 1 \in 0 .. n - 1
    BY <1>1, <1>3
  <2>2. (n * q + (r + 1)) % n = r + 1
    BY <1>1, <2>1, ModUnique
  <2> QED BY <1>3, <2>1, <2>2 DEF r
<1> QED BY <1>2, <1>3

-----------------------------------------------------------------------------
QueryRec == [state : {"idle", "asking", "servfail"}, list : Seq(Upstreams),
             order : Seq(Upstreams), tried : SUBSET Upstreams,
             cond : BOOLEAN, old : BOOLEAN]

\* The parts of the state by their types.
ForwardTypes ==
  /\ upstreams \in Lists /\ upstreams \in Seq(Upstreams) /\ rr \in 0 .. Cycle - 1
  /\ query \in [Queries -> QueryRec]
  /\ turns \in [Upstreams -> Nat]

\* A query that is under way has whom it has still to ask and whom it has tried; those
\* it has still to ask are of the list in force, unless it is one of a rule or older
\* than the list.
QueryWell(q) ==
  /\ query[q].state = "asking" =>
       /\ query[q].order # << >>
       /\ SetOf(query[q].order) \union query[q].tried = SetOf(query[q].list)
       /\ ~query[q].cond /\ ~query[q].old => SetOf(query[q].order) \subseteq SetOf(upstreams)
  /\ query[q].state = "servfail" => query[q].tried = SetOf(query[q].list)

QueriesWell == \A q \in Queries : QueryWell(q)

\* In turn is the whole list, begun somewhere else.
LEMMA InTurnIs ==
  ASSUME NEW list \in Seq(Upstreams), NEW turn \in Nat, list # << >>
  PROVE  LET n == Len(list)
             k == turn % n
         IN  /\ InTurn(list, turn) \in Seq(Upstreams)
             /\ Len(InTurn(list, turn)) = n
             /\ k \in 0 .. n - 1 /\ n \in Nat \ {0}
             /\ \A i \in 1 .. n : InTurn(list, turn)[i] =
                  IF i <= n - k THEN list[k + i] ELSE list[i - (n - k)]
<1> DEFINE n == Len(list)
           k == turn % n
           a == SubSeq(list, k + 1, n)
           b == SubSeq(list, 1, k)
<1>1. n \in Nat \ {0} /\ k \in 0 .. n - 1
  <2>1. n \in Nat \ {0}
    OBVIOUS
  <2> QED BY <2>1, ModIs
<1>2. InTurn(list, turn) = a \o b
  BY DEF InTurn
<1> HIDE DEF k
<1>3. a \in Seq(Upstreams) /\ Len(a) = n - k /\ \A i \in 1 .. n - k : a[i] = list[k + i]
  BY <1>1
<1>4. b \in Seq(Upstreams) /\ Len(b) = k /\ \A i \in 1 .. k : b[i] = list[i]
  BY <1>1
<1> HIDE DEF a, b
<1>5. /\ a \o b \in Seq(Upstreams) /\ Len(a \o b) = n
      /\ \A i \in 1 .. n : (a \o b)[i] = IF i <= n - k THEN a[i] ELSE b[i - (n - k)]
  BY <1>1, <1>3, <1>4
<1>6. \A i \in 1 .. n : (a \o b)[i] = IF i <= n - k THEN list[k + i] ELSE list[i - (n - k)]
  BY <1>1, <1>3, <1>4, <1>5
<1> QED BY <1>1, <1>2, <1>5, <1>6 DEF k

LEMMA InTurnAll ==
  ASSUME NEW list \in Seq(Upstreams), NEW turn \in Nat
  PROVE  /\ InTurn(list, turn) \in Seq(Upstreams)
         /\ SetOf(InTurn(list, turn)) = SetOf(list)
         /\ InTurn(list, turn) = << >> => list = << >>
<1>1. CASE list = << >>
  <2>1. InTurn(list, turn) = << >>
    BY <1>1 DEF InTurn
  <2> QED BY <1>1, <2>1
<1>2. CASE list # << >>
  <2> DEFINE n == Len(list)
             k == turn % n
             s == InTurn(list, turn)
  <2>1. /\ s \in Seq(Upstreams) /\ Len(s) = n /\ k \in 0 .. n - 1 /\ n \in Nat \ {0}
        /\ \A i \in 1 .. n : s[i] = IF i <= n - k THEN list[k + i] ELSE list[i - (n - k)]
    BY <1>2, InTurnIs
  <2> HIDE DEF k, s
  <2>2. ASSUME NEW i \in 1 .. n PROVE s[i] \in SetOf(list)
    <3>1. DOMAIN list = 1 .. n
      BY <2>1
    <3>2. CASE i <= n - k
      <4>1. k + i \in 1 .. n /\ s[i] = list[k + i]
        BY <2>1, <3>2
      <4> QED BY <3>1, <4>1 DEF SetOf
    <3>3. CASE ~(i <= n - k)
      <4>1. i - (n - k) \in 1 .. n /\ s[i] = list[i - (n - k)]
        BY <2>1, <3>3
      <4> QED BY <3>1, <4>1 DEF SetOf
    <3> QED BY <3>2, <3>3
  <2>3. ASSUME NEW j \in 1 .. n PROVE list[j] \in SetOf(s)
    <3>1. CASE j > k
      <4>1. j - k \in 1 .. n /\ j - k <= n - k /\ k + (j - k) = j
        BY <2>1, <3>1
      <4>2. s[j - k] = list[j]
        BY <2>1, <4>1
      <4> QED BY <2>1, <4>1, <4>2 DEF SetOf
    <3>2. CASE ~(j > k)
      <4>1. j + (n - k) \in 1 .. n /\ ~(j + (n - k) <= n - k) /\ (j + (n - k)) - (n - k) = j
        BY <2>1, <3>2
      <4>2. s[j + (n - k)] = list[j]
        BY <2>1, <4>1
      <4> QED BY <2>1, <4>1, <4>2 DEF SetOf
    <3> QED BY <3>1, <3>2
  <2>4. DOMAIN s = 1 .. n /\ DOMAIN list = 1 .. n
    BY <2>1
  <2>5. SetOf(s) = SetOf(list)
    BY <2>2, <2>3, <2>4 DEF SetOf
  <2>6. s # << >>
    BY <2>1
  <2> QED BY <2>1, <2>5, <2>6 DEF s
<1> QED BY <1>1, <1>2

\* A query that is asked, of the whole list in turn or of one server.
LEMMA AskKeeps ==
  ASSUME ForwardTypes, QueriesWell,
         NEW q \in Queries, NEW order \in Seq(Upstreams), NEW cond \in BOOLEAN,
         Ask(q, order, cond), upstreams' = upstreams, ~cond => SetOf(order) = SetOf(upstreams)
  PROVE  query' \in [Queries -> QueryRec] /\ QueriesWell'
<1> DEFINE new == [state |-> IF order = << >> THEN "servfail" ELSE "asking",
                   list |-> IF cond THEN order ELSE upstreams,
                   order |-> order, tried |-> {}, cond |-> cond, old |-> FALSE]
<1>1. new \in QueryRec
  BY DEF QueryRec, ForwardTypes
<1>2. query' = [query EXCEPT ![q] = new]
  BY DEF Ask
<1>3. /\ new.state = IF order = << >> THEN "servfail" ELSE "asking"
      /\ SetOf(new.list) = SetOf(order) /\ new.order = order /\ new.tried = {}
      /\ new.cond = cond
  OBVIOUS
<1>4. order = << >> => SetOf(order) = {}
  BY DEF SetOf
<1> HIDE DEF new
<1>5. query' \in [Queries -> QueryRec]
  BY <1>1, <1>2 DEF ForwardTypes
<1>6. query'[q] = new
  BY <1>2 DEF ForwardTypes
<1>7. QueryWell(q)'
  <2>1. new.state = "asking" => order # << >> /\ SetOf(order) \union {} = SetOf(new.list)
    BY <1>3
  <2>2. new.state = "servfail" => {} = SetOf(new.list)
    BY <1>3, <1>4
  <2>3. ~new.cond => SetOf(new.order) \subseteq SetOf(upstreams')
    BY <1>3
  <2> QED BY <1>3, <1>6, <2>1, <2>2, <2>3 DEF QueryWell
<1>8. ASSUME NEW r \in Queries \ {q} PROVE QueryWell(r)'
  <2>1. query'[r] = query[r]
    BY <1>2 DEF ForwardTypes
  <2> QED BY <2>1 DEF QueriesWell, QueryWell
<1> QED BY <1>5, <1>7, <1>8 DEF QueriesWell

\* An answer ends a query; a failure leaves one server less to ask and one more tried.
LEMMA AnsweredKeeps ==
  ASSUME ForwardTypes, QueriesWell, NEW q \in Queries, Answered(q)
  PROVE  query' \in [Queries -> QueryRec] /\ QueriesWell'
<1>1. NoQuery \in QueryRec /\ NoQuery.state = "idle"
  BY DEF NoQuery, QueryRec
<1>2. query' = [query EXCEPT ![q] = NoQuery] /\ upstreams' = upstreams
  BY DEF Answered
<1>3. query' \in [Queries -> QueryRec]
  BY <1>1, <1>2 DEF ForwardTypes
<1>4. ASSUME NEW r \in Queries PROVE QueryWell(r)'
  <2>1. r = q => query'[r].state = "idle"
    BY <1>1, <1>2 DEF ForwardTypes
  <2>2. r # q => query'[r] = query[r]
    BY <1>2 DEF ForwardTypes
  <2> QED BY <1>2, <2>1, <2>2 DEF QueriesWell, QueryWell
<1> QED BY <1>3, <1>4 DEF QueriesWell

LEMMA TailSet ==
  ASSUME NEW s \in Seq(Upstreams), s # << >>
  PROVE  /\ SetOf(s) = {s[1]} \union SetOf(Tail(s)) /\ s[1] \in Upstreams
         /\ Tail(s) \in Seq(Upstreams) /\ Len(s) = 1 <=> Tail(s) = << >>
<1>1. /\ Len(s) \in Nat \ {0} /\ Tail(s) \in Seq(Upstreams) /\ Len(Tail(s)) = Len(s) - 1
      /\ \A i \in 1 .. Len(s) - 1 : Tail(s)[i] = s[i + 1]
  OBVIOUS
<1>2. DOMAIN s = 1 .. Len(s) /\ DOMAIN Tail(s) = 1 .. Len(s) - 1
  BY <1>1
<1>3. ASSUME NEW i \in DOMAIN s PROVE s[i] \in {s[1]} \union SetOf(Tail(s))
  <2>1. CASE i = 1
    BY <2>1
  <2>2. CASE i # 1
    <3>1. i - 1 \in 1 .. Len(s) - 1 /\ (i - 1) + 1 = i
      BY <1>1, <1>2, <2>2
    <3>2. Tail(s)[i - 1] = s[i]
      BY <1>1, <3>1
    <3> QED BY <1>2, <3>1, <3>2 DEF SetOf
  <2> QED BY <2>1, <2>2
<1>4. ASSUME NEW i \in DOMAIN Tail(s) PROVE Tail(s)[i] \in SetOf(s)
  <2>1. i + 1 \in 1 .. Len(s) /\ Tail(s)[i] = s[i + 1]
    BY <1>1, <1>2
  <2> QED BY <1>2, <2>1 DEF SetOf
<1>5. 1 \in DOMAIN s /\ s[1] \in Upstreams
  BY <1>1, <1>2
<1>6. SetOf(s) = {s[1]} \union SetOf(Tail(s))
  BY <1>3, <1>4, <1>5 DEF SetOf
<1>7. Len(s) = 1 <=> Tail(s) = << >>
  <2>1. \A t \in Seq(Upstreams) : Len(t) = 0 <=> t = << >>
    OBVIOUS
  <2>2. Tail(s) \in Seq(Upstreams) /\ Len(Tail(s)) = Len(s) - 1 /\ Len(s) \in Nat
    BY <1>1
  <2>3. Len(Tail(s)) = 0 <=> Tail(s) = << >>
    BY <2>1, <2>2
  <2> QED BY <2>2, <2>3
<1> QED BY <1>1, <1>5, <1>6, <1>7

LEMMA TimedOutKeeps ==
  ASSUME ForwardTypes, QueriesWell, NEW q \in Queries, TimedOut(q)
  PROVE  query' \in [Queries -> QueryRec] /\ QueriesWell'
<1> DEFINE was == query[q]
           new == [was EXCEPT !.state = IF Len(was.order) = 1 THEN "servfail" ELSE "asking",
                              !.order = Tail(was.order),
                              !.tried = @ \union {was.order[1]}]
<1>1. was \in QueryRec /\ was.state = "asking"
  BY DEF TimedOut, Asking, ForwardTypes
<1>2. QueryWell(q)
  BY DEF QueriesWell
<1>3. query' = [query EXCEPT ![q] = new] /\ upstreams' = upstreams
  BY DEF TimedOut, ForwardTypes
<1>4. was.order \in Seq(Upstreams) /\ was.order # << >>
  BY <1>1, <1>2 DEF QueryWell, QueryRec
<1>5. /\ new.state = IF Len(was.order) = 1 THEN "servfail" ELSE "asking"
      /\ new.order = Tail(was.order) /\ new.tried = was.tried \union {was.order[1]}
      /\ new.list = was.list /\ new.cond = was.cond /\ new.old = was.old
  BY <1>1 DEF QueryRec
<1>6. new \in QueryRec
  <2>1. was.order[1] \in Upstreams /\ Tail(was.order) \in Seq(Upstreams)
    BY <1>4, TailSet
  <2> QED BY <1>1, <2>1 DEF QueryRec
<1> HIDE DEF new
<1>7. query' \in [Queries -> QueryRec] /\ query'[q] = new
  BY <1>3, <1>6 DEF ForwardTypes
<1>8. QueryWell(q)'
  <2>1. SetOf(was.order) \union was.tried = SetOf(was.list)
    BY <1>1, <1>2 DEF QueryWell
  <2>2. SetOf(was.order) = {was.order[1]} \union SetOf(Tail(was.order))
    BY <1>4, TailSet
  <2>3. SetOf(new.order) \union new.tried = SetOf(new.list)
    BY <1>5, <2>1, <2>2
  <2>4. new.state = "asking" => new.order # << >>
    BY <1>4, <1>5, TailSet
  <2>5. new.state = "servfail" => new.tried = SetOf(new.list)
    <3>1. new.state = "servfail" => new.order = << >>
      BY <1>4, <1>5, TailSet
    <3>2. SetOf(<< >>) = {}
      BY DEF SetOf
    <3> QED BY <2>3, <3>1, <3>2
  <2>6. ~new.cond /\ ~new.old => SetOf(new.order) \subseteq SetOf(upstreams')
    BY <1>1, <1>2, <1>3, <1>5, <2>2 DEF QueryWell
  <2> QED BY <1>7, <2>3, <2>4, <2>5, <2>6 DEF QueryWell
<1>9. ASSUME NEW r \in Queries \ {q} PROVE QueryWell(r)'
  <2>1. query'[r] = query[r]
    BY <1>3 DEF ForwardTypes
  <2> QED BY <1>3, <2>1 DEF QueriesWell, QueryWell
<1> QED BY <1>7, <1>8, <1>9 DEF QueriesWell

\* Other upstreams make every query under way one of an older list.
LEMMA ConfigureKeepsQueries ==
  ASSUME ForwardTypes, QueriesWell, ForwardConfigure
  PROVE  query' \in [Queries -> QueryRec] /\ QueriesWell'
<1>1. ASSUME NEW r \in Queries PROVE query'[r] \in QueryRec /\ QueryWell(r)'
  <2> DEFINE new == [query[r] EXCEPT !.old = TRUE]
  <2>1. query[r] \in QueryRec /\ QueryWell(r)
    BY DEF ForwardTypes, QueriesWell
  <2>2. /\ new \in QueryRec /\ new.old /\ new.state = query[r].state
        /\ new.order = query[r].order /\ new.tried = query[r].tried /\ new.list = query[r].list
    BY <2>1 DEF QueryRec
  <2>3. query'[r] = IF r \in Asking THEN new ELSE query[r]
    BY DEF ForwardConfigure
  <2>4. r \notin Asking => query[r].state # "asking"
    BY DEF Asking
  <2> HIDE DEF new
  <2>5. CASE r \in Asking
    BY <2>1, <2>2, <2>3, <2>5 DEF QueryWell
  <2>6. CASE r \notin Asking
    BY <2>1, <2>3, <2>4, <2>6 DEF QueryWell
  <2> QED BY <2>5, <2>6
<1>2. query' = [r \in Queries |-> query'[r]]
  BY DEF ForwardConfigure
<1> QED BY <1>1, <1>2 DEF QueriesWell

-----------------------------------------------------------------------------
\* No upstream is on a list twice.
DistinctLists == \A l \in Lists : \A i, j \in DOMAIN l : l[i] = l[j] => i = j

\* Going round from one place to another, the places that are passed: from the first
\* on, up to the other.
Between(i, from, to) ==
  IF from <= to THEN from <= i /\ i < to ELSE from <= i \/ i < to

\* The upstreams that had a turn more are those from some place of the list up to the
\* one whose turn it is.
TurnsWell ==
  upstreams # << >> =>
    \E s \in 0 .. Len(upstreams) - 1 :
      \A i \in 1 .. Len(upstreams) :
        turns[upstreams[i]] = IF Between(i - 1, s, rr % Len(upstreams)) THEN 1 ELSE 0

LEMMA TurnsWellShared == ForwardTypes /\ TurnsWell => TurnsShared
<1> SUFFICES ASSUME ForwardTypes, TurnsWell, NEW u \in SetOf(upstreams), NEW v \in SetOf(upstreams)
             PROVE  turns[u] <= turns[v] + 1
  BY DEF TurnsShared
<1>1. upstreams \in Seq(Upstreams)
  BY DEF ForwardTypes
<1>2. PICK i \in 1 .. Len(upstreams), j \in 1 .. Len(upstreams) :
        u = upstreams[i] /\ v = upstreams[j]
  BY <1>1 DEF SetOf
<1>3. turns[u] \in {0, 1} /\ turns[v] \in {0, 1}
  BY <1>2 DEF TurnsWell
<1> QED BY <1>3

\* Round the places 0 .. n - 1: the place whose turn it is has not been passed, and when
\* it is, all have been exactly if the next one is where the round began.
LEMMA RoundStep ==
  ASSUME NEW n \in Nat \ {0}, NEW s \in 0 .. n - 1, NEW k \in 0 .. n - 1,
         NEW k1 \in 0 .. n - 1, k1 = IF k + 1 = n THEN 0 ELSE k + 1
  PROVE  /\ ~Between(k, s, k)
         /\ k1 = s => \A i \in 0 .. n - 1 : i = k \/ Between(i, s, k)
         /\ k1 # s => /\ \A i \in 0 .. n - 1 : Between(i, s, k1) <=> i = k \/ Between(i, s, k)
                      /\ \E i \in 0 .. n - 1 : ~(i = k \/ Between(i, s, k))
<1>1. ~Between(k, s, k)
  BY DEF Between
<1>2. ASSUME k1 = s, NEW i \in 0 .. n - 1 PROVE i = k \/ Between(i, s, k)
  BY <1>2 DEF Between
<1>3. ASSUME k1 # s, NEW i \in 0 .. n - 1 PROVE Between(i, s, k1) <=> i = k \/ Between(i, s, k)
  BY <1>3 DEF Between
<1>4. ASSUME k1 # s PROVE ~(k1 = k \/ Between(k1, s, k))
  BY <1>4 DEF Between
<1> QED BY <1>1, <1>2, <1>3, <1>4

\* A query asked in turn.
LEMMA ForwardShares ==
  ASSUME ForwardTypes, TurnsWell, DistinctLists, NEW q \in Queries, Forward(q),
         upstreams' = upstreams
  PROVE  rr' \in 0 .. Cycle - 1 /\ turns' \in [Upstreams -> Nat] /\ TurnsWell'
<1> DEFINE n == Len(upstreams)
           k == rr % n
           k1 == rr' % n
           order == InTurn(upstreams, rr)
<1>1. rr \in Nat /\ upstreams \in Seq(Upstreams) /\ turns \in [Upstreams -> Nat]
  BY ForwardingAssumption DEF ForwardTypes
<1>2. rr' = (rr + 1) % Cycle /\ rr' \in 0 .. Cycle - 1 /\ turns' = Counted(order)
  BY <1>1, ForwardingAssumption, ModIs DEF Forward
<1>3. CASE upstreams = << >>
  <2>1. order = << >>
    BY <1>3 DEF InTurn
  <2> QED BY <1>1, <1>2, <1>3, <2>1 DEF Counted, TurnsWell
<1>4. CASE upstreams # << >>
  <2>1. n \in Nat \ {0} /\ k \in 0 .. n - 1 /\ DOMAIN upstreams = 1 .. n
    <3>1. n \in Nat \ {0} /\ DOMAIN upstreams = 1 .. n
      BY <1>1, <1>4
    <3> QED BY <1>1, <3>1, ModIs
  <2>2. k1 = (IF k + 1 = n THEN 0 ELSE k + 1) /\ k1 \in 0 .. n - 1
    <3>1. Cycle % n = 0 /\ Cycle \in Nat \ {0} /\ rr + 1 \in 0 .. Cycle
      BY <2>1, ForwardingAssumption DEF ForwardTypes
    <3>2. k1 = (rr + 1) % n
      BY <1>2, <2>1, <3>1, ModMod, ZenonT(40)
    <3>3. (rr + 1) % n = IF k + 1 = n THEN 0 ELSE k + 1
      BY <1>1, <2>1, ModNext
    <3> QED BY <2>1, <3>2, <3>3
  <2>3. order # << >> /\ order[1] = upstreams[k + 1] /\ SetOf(order) = SetOf(upstreams)
    <3>1. 1 \in 1 .. n /\ 1 <= n - k
      BY <2>1
    <3> QED BY <1>1, <1>4, <2>1, <3>1, InTurnIs, InTurnAll
  <2>4. PICK s \in 0 .. n - 1 :
          \A i \in 1 .. n : turns[upstreams[i]] = IF Between(i - 1, s, k) THEN 1 ELSE 0
    BY <1>4 DEF TurnsWell
  <2> DEFINE first == upstreams[k + 1]
             new == [turns EXCEPT ![first] = @ + 1]
  <2> HIDE DEF k, k1
  <2>round. /\ ~Between(k, s, k)
            /\ k1 = s => \A i \in 0 .. n - 1 : i = k \/ Between(i, s, k)
            /\ k1 # s => /\ \A i \in 0 .. n - 1 : Between(i, s, k1) <=> i = k \/ Between(i, s, k)
                         /\ \E i \in 0 .. n - 1 : ~(i = k \/ Between(i, s, k))
    BY <2>1, <2>2, RoundStep
  <2>5. k + 1 \in 1 .. n /\ first \in Upstreams
    BY <1>1, <2>1
  <2>6. new \in [Upstreams -> Nat]
    BY <1>1, <2>5
  <2>7. \A i \in 1 .. n : (upstreams[i] = first <=> i = k + 1) /\ upstreams[i] \in Upstreams
    BY <1>1, <2>1, <2>5 DEF DistinctLists, ForwardTypes
  <2>8. ASSUME NEW i \in 1 .. n
        PROVE  new[upstreams[i]] = IF i - 1 = k \/ Between(i - 1, s, k) THEN 1 ELSE 0
    <3>1. CASE i = k + 1
      <4>1. i - 1 = k /\ ~Between(i - 1, s, k)
        <5>1. i - 1 = k
          BY <2>1, <3>1
        <5> QED BY <2>round, <5>1
      <4> QED BY <1>1, <2>4, <2>5, <3>1, <4>1
    <3>2. CASE i # k + 1
      <4>1. i - 1 # k /\ upstreams[i] # first
        BY <2>1, <2>7, <3>2
      <4> QED BY <1>1, <2>4, <2>7, <4>1
    <3> QED BY <3>1, <3>2
  <2> HIDE DEF new
  <2>9. turns' = IF \A u \in SetOf(upstreams) : new[u] > 0
                 THEN [u \in Upstreams |-> IF u \in SetOf(upstreams) THEN new[u] - 1 ELSE 0]
                 ELSE new
    BY <1>2, <2>3 DEF Counted, new
  <2>10. \A u \in SetOf(upstreams) : \E i \in 1 .. n : u = upstreams[i]
    BY <2>1 DEF SetOf
  <2>11. \A i \in 1 .. n : upstreams[i] \in SetOf(upstreams)
    BY <2>1 DEF SetOf
  <2>12. CASE k1 = s
    <3>1. \A i \in 1 .. n : new[upstreams[i]] = 1
      <4> SUFFICES ASSUME NEW i \in 1 .. n PROVE new[upstreams[i]] = 1
        OBVIOUS
      <4>1. i - 1 \in 0 .. n - 1
        OBVIOUS
      <4>2. i - 1 = k \/ Between(i - 1, s, k)
        BY <2>round, <2>12, <4>1
      <4> QED BY <2>8, <4>2
    <3>2. \A u \in SetOf(upstreams) : new[u] = 1
      BY <2>10, <3>1
    <3>3. turns' = [u \in Upstreams |-> IF u \in SetOf(upstreams) THEN new[u] - 1 ELSE 0]
      BY <2>9, <3>2
    <3>4. turns' = [u \in Upstreams |-> 0]
      BY <3>2, <3>3
    <3>5. \A i \in 1 .. n : turns'[upstreams[i]] = IF Between(i - 1, k1, k1) THEN 1 ELSE 0
      <4>1. \A i \in 1 .. n : ~Between(i - 1, k1, k1)
        BY <2>2 DEF Between
      <4> QED BY <2>7, <3>4, <4>1
    <3>6. TurnsWell'
      BY <2>2, <3>5 DEF TurnsWell, k1
    <3>7. turns' \in [Upstreams -> Nat]
      BY <3>4
    <3> QED BY <1>2, <3>6, <3>7
  <2>13. CASE k1 # s
    <3>1. PICK i \in 1 .. n : new[upstreams[i]] = 0
      <4>1. PICK j \in 0 .. n - 1 : ~(j = k \/ Between(j, s, k))
        BY <2>round, <2>13
      <4>2. j + 1 \in 1 .. n /\ (j + 1) - 1 = j
        BY <2>1
      <4> QED BY <2>8, <4>1, <4>2
    <3>2. turns' = new
      BY <2>9, <2>11, <3>1
    <3>3. ASSUME NEW j \in 1 .. n
          PROVE  turns'[upstreams[j]] = IF Between(j - 1, s, k1) THEN 1 ELSE 0
      <4>1. j - 1 \in 0 .. n - 1
        BY <2>1
      <4>2. Between(j - 1, s, k1) <=> j - 1 = k \/ Between(j - 1, s, k)
        BY <2>round, <2>13, <4>1
      <4> QED BY <2>8, <3>2, <4>2
    <3>4. TurnsWell'
      BY <3>3 DEF TurnsWell, k1
    <3> QED BY <1>2, <2>6, <3>2, <3>4
  <2> QED BY <2>12, <2>13
<1> QED BY <1>3, <1>4

-----------------------------------------------------------------------------
(* The limit on one client.                                                *)

\* How many were let through in the last t ticks.
IsCount(f, of) ==
  /\ f \in [0 .. RateWindow -> Nat] /\ f[0] = 0
  /\ \A t \in 1 .. RateWindow : f[t] = f[t - 1] + of[t]

Least(a, b) == IF a <= b THEN a ELSE b

\* In the ticks since the window in force began no more were let through than it has
\* counted, and than the limit; before it, those of one window at most.
RateWell ==
  /\ bucket \in [n : 0 .. RateCount + 1, age : 0 .. RateWindow + 1]
  /\ passed \in [1 .. RateWindow -> Nat]
  /\ bucket.age = RateWindow + 1 => passed[1] = 0
  /\ \E f \in [0 .. RateWindow -> Nat] :
       LET since == Least(bucket.age + 1, RateWindow)
       IN  /\ IsCount(f, passed)
           /\ f[since] <= bucket.n /\ f[since] <= RateCount
           /\ f[RateWindow] <= f[since] + RateCount
           /\ bucket.n = 0 => \A t \in 0 .. RateWindow : f[t] = 0

\* What is counted is determined by what was let through.
LEMMA OneCount ==
  ASSUME NEW of, NEW f, NEW g, IsCount(f, of),
         g = [t \in 0 .. RateWindow |-> IF t = 0 THEN 0 ELSE g[t - 1] + of[t]]
  PROVE  g[RateWindow] = f[RateWindow]
<1> DEFINE W == RateWindow
           T == {t \in 0 .. W : g[t] # f[t]}
<1>1. W \in Nat \ {0}
  BY ForwardingAssumption
<1>2. CASE T = {}
  <2>1. W \in 0 .. W /\ W \notin T
    BY <1>1, <1>2
  <2> QED BY <2>1
<1>3. CASE T # {}
  <2>1. PICK t \in T : \A y \in T : t <= y
    <3>1. T \in SUBSET Nat
      BY <1>1
    <3> QED BY <1>3, <3>1, NatMin
  <2>2. t \in 0 .. W /\ g[t] # f[t]
    OBVIOUS
  <2>3. t # 0
    BY <1>1, <2>2 DEF IsCount
  <2>4. t - 1 \in 0 .. W /\ t \in 1 .. W
    BY <1>1, <2>2, <2>3
  <2>5. g[t - 1] = f[t - 1]
    BY <1>1, <2>1, <2>4
  <2>6. g[t] = g[t - 1] + of[t]
    BY <2>2, <2>3
  <2>7. f[t] = f[t - 1] + of[t]
    BY <2>4 DEF IsCount
  <2> QED BY <2>2, <2>5, <2>6, <2>7
<1> QED BY <1>2, <1>3

LEMMA RateWellHolds == RateWell => RateHolds
<1> SUFFICES ASSUME RateWell PROVE RateHolds
  OBVIOUS
<1> DEFINE through[t \in 0 .. RateWindow] == IF t = 0 THEN 0 ELSE through[t - 1] + passed[t]
<1>1. RateWindow \in Nat \ {0} /\ RateCount \in Nat \ {0}
  BY ForwardingAssumption
<1>2. PICK f \in [0 .. RateWindow -> Nat] :
        /\ IsCount(f, passed) /\ f[RateWindow] <= 2 * RateCount
  <2> DEFINE since == Least(bucket.age + 1, RateWindow)
  <2>1. PICK f \in [0 .. RateWindow -> Nat] :
          IsCount(f, passed) /\ f[since] <= RateCount /\ f[RateWindow] <= f[since] + RateCount
    BY DEF RateWell
  <2>2. since \in 0 .. RateWindow
    <3>1. bucket.age \in 0 .. RateWindow + 1
      BY DEF RateWell
    <3> QED BY <1>1, <3>1 DEF Least
  <2>3. f[RateWindow] \in Nat /\ f[since] \in Nat
    BY <1>1, <2>2
  <2> QED BY <1>1, <2>1, <2>3
<1>3. f = [t \in 0 .. RateWindow |-> IF t = 0 THEN 0 ELSE f[t - 1] + passed[t]]
  BY <1>1, <1>2 DEF IsCount
<1>4. through = [t \in 0 .. RateWindow |-> IF t = 0 THEN 0 ELSE through[t - 1] + passed[t]]
  BY <1>3
<1> HIDE DEF through
<1>5. through[RateWindow] = f[RateWindow]
  BY <1>2, <1>4, OneCount
<1> QED BY <1>2, <1>5 DEF RateHolds, through

\* A tick: what was let through is a tick older.
LEMMA TickRate ==
  ASSUME RateWell, ForwardTick
  PROVE  RateWell'
<1> DEFINE W == RateWindow
           since == Least(bucket.age + 1, W)
<1>1. W \in Nat \ {0} /\ RateCount \in Nat \ {0}
  BY ForwardingAssumption
<1>2. PICK f \in [0 .. W -> Nat] :
        /\ IsCount(f, passed) /\ f[since] <= bucket.n /\ f[since] <= RateCount
        /\ f[W] <= f[since] + RateCount /\ (bucket.n = 0 => \A t \in 0 .. W : f[t] = 0)
  BY DEF RateWell
<1>3. bucket.n \in 0 .. RateCount + 1 /\ bucket.age \in 0 .. W + 1 /\ passed \in [1 .. W -> Nat]
  BY DEF RateWell
<1>4. /\ bucket'.n = bucket.n
      /\ bucket'.age = IF bucket.age > W THEN bucket.age ELSE bucket.age + 1
      /\ bucket' \in [n : 0 .. RateCount + 1, age : 0 .. W + 1]
  <2>1. bucket \in [n : 0 .. RateCount + 1, age : 0 .. W + 1]
    BY DEF RateWell
  <2>2. bucket' = [bucket EXCEPT !.age = IF bucket.age > W THEN bucket.age ELSE bucket.age + 1]
    BY DEF ForwardTick
  <2>3. (IF bucket.age > W THEN bucket.age ELSE bucket.age + 1) \in 0 .. W + 1
    BY <1>1, <1>3
  <2> QED BY <2>1, <2>2, <2>3
<1>5. /\ passed' \in [1 .. W -> Nat] /\ passed'[1] = 0
      /\ \A t \in 2 .. W : passed'[t] = passed[t - 1]
  BY <1>1, <1>3 DEF ForwardTick
<1> DEFINE g == [t \in 0 .. W |-> IF t = 0 THEN 0 ELSE f[t - 1]]
           since1 == Least(bucket'.age + 1, W)
<1>6. g \in [0 .. W -> Nat] /\ g[0] = 0 /\ \A t \in 1 .. W : g[t] = f[t - 1]
  BY <1>1
<1> HIDE DEF g
<1>7. IsCount(g, passed')
  <2>1. ASSUME NEW t \in 1 .. W PROVE g[t] = g[t - 1] + passed'[t]
    <3>1. CASE t = 1
      BY <1>2, <1>5, <1>6, <3>1 DEF IsCount
    <3>2. CASE t # 1
      <4>1. t - 1 \in 1 .. W /\ t \in 2 .. W /\ (t - 1) - 1 = t - 2
        BY <1>1, <3>2
      <4>2. g[t] = f[t - 1] /\ g[t - 1] = f[t - 2] /\ passed'[t] = passed[t - 1]
        BY <1>5, <1>6, <4>1
      <4>3. f[t - 1] = f[t - 2] + passed[t - 1]
        BY <1>2, <4>1 DEF IsCount
      <4> QED BY <4>2, <4>3
    <3> QED BY <3>1, <3>2
  <2> QED BY <1>6, <2>1 DEF IsCount
<1>8. f[W - 1] <= f[W] /\ f[W] \in Nat /\ f[W - 1] \in Nat
  <2>1. f[W] = f[W - 1] + passed[W] /\ passed[W] \in Nat /\ W - 1 \in 0 .. W
    BY <1>1, <1>2, <1>3 DEF IsCount
  <2> QED BY <1>1, <2>1
<1>9. g[W] = f[W - 1]
  BY <1>1, <1>6
<1>10. bucket'.n = 0 => \A t \in 0 .. W : g[t] = 0
  <2> SUFFICES ASSUME bucket.n = 0, NEW t \in 0 .. W PROVE g[t] = 0
    BY <1>4
  <2>1. t # 0 => t \in 1 .. W /\ t - 1 \in 0 .. W
    BY <1>1
  <2> QED BY <1>2, <1>6, <2>1
<1>11. CASE bucket.age + 1 < W
  <2>1. since = bucket.age + 1 /\ since1 = since + 1 /\ since + 1 \in 1 .. W /\ (since + 1) - 1 = since
    <3>1. bucket.age \in Nat /\ bucket'.age = bucket.age + 1
      BY <1>1, <1>3, <1>4, <1>11
    <3> QED BY <1>1, <1>11, <3>1 DEF Least
  <2>2. g[since1] = f[since]
    BY <1>6, <2>1
  <2>3. f[since] \in Nat
    <3>1. bucket.age + 1 \in 0 .. W
      BY <1>1, <1>3, <1>11, SMTT(20)
    <3>2. f[bucket.age + 1] \in Nat
      BY <3>1
    <3> QED BY <2>1, <3>2
  <2>4. /\ g[since1] <= bucket'.n /\ g[since1] <= RateCount /\ g[W] <= g[since1] + RateCount
    BY <1>1, <1>2, <1>3, <1>4, <1>8, <1>9, <2>2, <2>3, SMTT(20)
  <2> QED BY <1>1, <1>4, <1>5, <1>6, <1>7, <1>10, <2>4 DEF RateWell
<1>12. CASE ~(bucket.age + 1 < W)
  <2>1. since = W /\ since1 = W
    <3>1. bucket.age \in Nat /\ bucket'.age \in Nat /\ bucket'.age >= bucket.age
      BY <1>1, <1>3, <1>4
    <3> QED BY <1>1, <1>12, <3>1 DEF Least
  <2>2. /\ g[since1] <= bucket'.n /\ g[since1] <= RateCount /\ g[W] <= g[since1] + RateCount
    <3>1. f[W] <= bucket'.n /\ f[W] <= RateCount /\ bucket'.n \in Nat
      BY <1>1, <1>2, <1>3, <1>4, <2>1
    <3>2. g[since1] = f[W - 1] /\ g[W] = f[W - 1]
      BY <1>9, <2>1
    <3> QED BY <1>1, <1>8, <3>1, <3>2
  <2> QED BY <1>1, <1>4, <1>5, <1>6, <1>7, <1>10, <2>2 DEF RateWell
<1> QED BY <1>11, <1>12

\* A query that comes: it begins a window, or counts in the one in force, and is let
\* through if that is within the limit.
LEMMA LimitedRate ==
  ASSUME RateWell, Limited,
         \/ bucket'.n > RateCount /\ passed' = passed
         \/ bucket'.n <= RateCount /\ passed' = [passed EXCEPT ![1] = @ + 1]
  PROVE  RateWell'
<1> DEFINE W == RateWindow
           since == Least(bucket.age + 1, W)
           since1 == Least(bucket'.age + 1, W)
           fresh == bucket.n = 0 \/ bucket.age > W
<1>1. W \in Nat \ {0} /\ RateCount \in Nat \ {0}
  BY ForwardingAssumption
<1>2. PICK f \in [0 .. W -> Nat] :
        /\ IsCount(f, passed) /\ f[since] <= bucket.n /\ f[since] <= RateCount
        /\ f[W] <= f[since] + RateCount /\ (bucket.n = 0 => \A t \in 0 .. W : f[t] = 0)
  BY DEF RateWell
<1>3. /\ bucket.n \in 0 .. RateCount + 1 /\ bucket.age \in 0 .. W + 1 /\ passed \in [1 .. W -> Nat]
      /\ bucket.age = W + 1 => passed[1] = 0
  BY DEF RateWell
<1>4. /\ fresh => bucket'.n = 1 /\ bucket'.age = 0
      /\ ~fresh => /\ bucket'.n = IF bucket.n > RateCount THEN bucket.n ELSE bucket.n + 1
                   /\ bucket'.age = bucket.age
      /\ bucket' \in [n : 0 .. RateCount + 1, age : 0 .. W + 1]
  <2>1. CASE fresh
    BY <1>1, <2>1 DEF Limited
  <2>2. CASE ~fresh
    BY <1>1, <1>3, <2>2 DEF Limited, RateWell
  <2> QED BY <2>1, <2>2
<1>5. since \in 1 .. W /\ since1 \in 1 .. W /\ (~fresh => since1 = since) /\ (fresh => since1 = 1)
  <2>1. bucket.age \in Nat /\ bucket'.age \in Nat
    BY <1>1, <1>3, <1>4
  <2>2. since \in 1 .. W /\ since1 \in 1 .. W
    BY <1>1, <2>1, SMTT(20) DEF Least
  <2>3. fresh => since1 = 1
    BY <1>1, <1>4 DEF Least
  <2>4. ~fresh => since1 = since
    BY <1>4
  <2> QED BY <2>2, <2>3, <2>4
<1>6. f[since] \in Nat /\ f[W] \in Nat
  BY <1>1, <1>5
<1>7. CASE bucket'.n > RateCount
  <2>1. passed' = passed /\ ~fresh
    BY <1>1, <1>4, <1>7
  <2>2. bucket'.age # W + 1
    BY <1>1, <1>3, <1>4, <2>1
  <2>3. f[since1] <= bucket'.n /\ f[since1] <= RateCount /\ f[W] <= f[since1] + RateCount
    <3>1. since1 = since /\ f[since] <= bucket.n /\ f[since] <= RateCount
          /\ f[W] <= f[since] + RateCount
      BY <1>2, <1>5, <2>1
    <3>2. bucket.n \in Nat /\ bucket.n <= bucket'.n
      BY <1>1, <1>3, <1>4, <2>1
    <3>3. f[since] <= bucket'.n
      BY <1>4, <1>6, <3>1, <3>2
    <3> QED BY <3>1, <3>3
  <2>9. bucket'.n # 0
    BY <1>1, <1>4, <1>7
  <2>4. IsCount(f, passed')
    BY <1>2, <2>1
  <2>5. passed' \in [1 .. W -> Nat]
    BY <1>3, <2>1
  <2> QED BY <1>1, <1>4, <2>2, <2>3, <2>4, <2>5, <2>9 DEF RateWell
<1>8. CASE bucket'.n <= RateCount
  <2>1. passed' = [passed EXCEPT ![1] = @ + 1]
    BY <1>1, <1>4, <1>8
  <2>2. /\ passed' \in [1 .. W -> Nat] /\ passed'[1] = passed[1] + 1
        /\ \A t \in 2 .. W : passed'[t] = passed[t]
    BY <1>1, <1>3, <2>1
  <2> DEFINE g == [t \in 0 .. W |-> IF t = 0 THEN 0 ELSE f[t] + 1]
  <2>3. g \in [0 .. W -> Nat] /\ g[0] = 0 /\ \A t \in 1 .. W : g[t] = f[t] + 1
    BY <1>1
  <2> HIDE DEF g
  <2>4. ASSUME NEW t \in 1 .. W PROVE g[t] = g[t - 1] + passed'[t]
    <3>1. CASE t = 1
      <4>1. f[1] = f[0] + passed[1] /\ f[0] = 0
        BY <1>1, <1>2 DEF IsCount
      <4>2. passed[1] \in Nat
        BY <1>1, <1>3
      <4>3. g[1] = f[1] + 1 /\ g[1 - 1] = 0
        BY <1>1, <2>3
      <4> QED BY <2>2, <3>1, <4>1, <4>2, <4>3
    <3>2. CASE t # 1
      <4>1. t \in 2 .. W /\ t - 1 \in 1 .. W
        BY <1>1, <3>2
      <4>2. f[t] = f[t - 1] + passed[t] /\ f[t - 1] \in Nat /\ passed[t] \in Nat
        BY <1>2, <1>3, <4>1 DEF IsCount
      <4> QED BY <2>2, <2>3, <4>1, <4>2
    <3> QED BY <3>1, <3>2
  <2>5. IsCount(g, passed')
    BY <2>3, <2>4 DEF IsCount
  <2>6. g[W] = f[W] + 1 /\ g[since] = f[since] + 1 /\ g[1] = f[1] + 1
    BY <1>1, <1>5, <2>3
  <2>7. CASE ~fresh
    <3>1. bucket'.n = bucket.n + 1 /\ bucket'.age = bucket.age /\ since1 = since
      BY <1>1, <1>3, <1>4, <1>5, <1>8, <2>7
    <3>2. /\ g[since1] <= bucket'.n /\ g[since1] <= RateCount /\ g[W] <= g[since1] + RateCount
          /\ bucket'.n # 0
      <4>1. g[since] = f[since] + 1 /\ g[W] = f[W] + 1 /\ f[since] <= bucket.n
        BY <1>2, <2>6
      <4>2. bucket.n + 1 <= RateCount /\ bucket.n \in Nat
        BY <1>1, <1>3, <1>8, <3>1
      <4>3. f[W] <= f[since] + RateCount
        BY <1>2
      <4> QED BY <1>1, <1>6, <3>1, <4>1, <4>2, <4>3, SMTT(20)
    <3>3. bucket'.age # W + 1
      BY <1>1, <1>3, <2>7, <3>1
    <3> QED BY <1>1, <1>4, <2>2, <2>3, <2>5, <3>2, <3>3 DEF RateWell
  <2>8. CASE fresh
    <3>1. bucket'.n = 1 /\ bucket'.age = 0 /\ since1 = 1
      BY <1>4, <1>5, <2>8
    <3>2. f[1] = passed[1] /\ passed[1] \in Nat
      <4>1. f[1] = f[0] + passed[1] /\ f[0] = 0
        BY <1>1, <1>2 DEF IsCount
      <4>2. passed[1] \in Nat
        BY <1>1, <1>3
      <4> QED BY <4>1, <4>2
    <3>5. ASSUME g[1] = 1, g[W] <= g[1] + RateCount PROVE RateWell'
      <4>1. g[since1] <= bucket'.n /\ g[since1] <= RateCount /\ g[W] <= g[since1] + RateCount
        BY <1>1, <3>1, <3>5
      <4>2. bucket'.n # 0 /\ bucket'.age # W + 1
        BY <1>1, <3>1
      <4> QED BY <1>4, <2>2, <2>3, <2>5, <4>1, <4>2 DEF RateWell
    <3>3. CASE bucket.n # 0
      <4>1. bucket.age = W + 1 /\ since = W
        BY <1>1, <1>3, <2>8, <3>3 DEF Least
      <4>2. f[1] = 0 /\ f[W] <= RateCount
        BY <1>2, <1>3, <3>2, <4>1
      <4>3. g[1] = 1 /\ g[W] <= g[1] + RateCount
        BY <1>1, <1>6, <2>6, <4>2
      <4> QED BY <3>5, <4>3
    <3>4. CASE bucket.n = 0
      <4>1. f[since] = 0 /\ f[W] = 0
        BY <1>1, <1>2, <1>5, <3>4
      <4>2. f[1] = 0
        BY <1>1, <1>2, <3>4
      <4>3. g[1] = 1 /\ g[W] <= g[1] + RateCount
        BY <1>1, <1>6, <2>6, <4>1, <4>2
      <4> QED BY <3>5, <4>3
    <3> QED BY <3>3, <3>4
  <2> QED BY <2>7, <2>8
<1> QED BY <1>1, <1>4, <1>7, <1>8

-----------------------------------------------------------------------------
ForwardInv ==
  ForwardTypes /\ QueriesWell /\ TurnsWell /\ HealthOfThisList /\ RateWell

LEMMA ForwardInitInv == DistinctLists /\ ForwardInit => ForwardInv
<1> SUFFICES ASSUME ForwardInit PROVE ForwardInv
  OBVIOUS
<1>1. RateWindow \in Nat \ {0} /\ RateCount \in Nat \ {0} /\ Cycle \in Nat \ {0}
  BY ForwardingAssumption
<1>2. ForwardTypes
  <2>1. NoQuery \in QueryRec
    BY DEF NoQuery, QueryRec
  <2>2. rr \in 0 .. Cycle - 1
    BY <1>1 DEF ForwardInit
  <2> QED BY <2>1, <2>2, ForwardingAssumption DEF ForwardInit, ForwardTypes
<1>3. QueriesWell /\ HealthOfThisList
  BY DEF ForwardInit, QueriesWell, QueryWell, NoQuery, HealthOfThisList
<1>4. TurnsWell
  <2> SUFFICES ASSUME upstreams # << >> PROVE TurnsWell
    BY DEF TurnsWell
  <2>1. upstreams \in Seq(Upstreams)
    BY <1>2 DEF ForwardTypes
  <2>2. Len(upstreams) \in Nat \ {0} /\ DOMAIN upstreams = 1 .. Len(upstreams)
    BY <2>1
  <2>3. rr % Len(upstreams) = 0
    BY <2>2 DEF ForwardInit
  <2>4. \A i \in 1 .. Len(upstreams) : ~Between(i - 1, 0, 0) /\ turns[upstreams[i]] = 0
    BY <2>1, <2>2 DEF Between, ForwardInit
  <2>5. 0 \in 0 .. Len(upstreams) - 1
    BY <2>2
  <2> QED BY <2>3, <2>4, <2>5 DEF TurnsWell
<1>5. RateWell
  <2> DEFINE f == [t \in 0 .. RateWindow |-> 0]
  <2>1. f \in [0 .. RateWindow -> Nat] /\ \A t \in 0 .. RateWindow : f[t] = 0
    OBVIOUS
  <2>2. passed \in [1 .. RateWindow -> Nat] /\ passed[1] = 0
        /\ \A t \in 1 .. RateWindow : passed[t] = 0
    BY <1>1 DEF ForwardInit
  <2> HIDE DEF f
  <2>3. IsCount(f, passed)
    <3>1. \A t \in 1 .. RateWindow : t \in 0 .. RateWindow /\ t - 1 \in 0 .. RateWindow
      BY <1>1
    <3>2. 0 \in 0 .. RateWindow
      BY <1>1
    <3> QED BY <2>1, <2>2, <3>1, <3>2 DEF IsCount
  <2>4. bucket \in [n : 0 .. RateCount + 1, age : 0 .. RateWindow + 1] /\ bucket.n = 0 /\ bucket.age = 0
    BY <1>1 DEF ForwardInit
  <2>5. Least(bucket.age + 1, RateWindow) \in 0 .. RateWindow /\ RateWindow \in 0 .. RateWindow
    BY <1>1, <2>4 DEF Least
  <2>6. f[Least(bucket.age + 1, RateWindow)] = 0 /\ f[RateWindow] = 0
    BY <2>1, <2>5
  <2> QED BY <1>1, <2>1, <2>2, <2>3, <2>4, <2>6 DEF RateWell
<1> QED BY <1>2, <1>3, <1>4, <1>5 DEF ForwardInv

LEMMA ArriveKeeps ==
  ASSUME DistinctLists, ForwardInv, NEW q \in Queries, Arrive(q)
  PROVE  ForwardInv'
<1> USE DEF ForwardInv
<1>1. RateWell'
  BY LimitedRate DEF Arrive
<1>2. UNCHANGED <<upstreams, down>> /\ HealthOfThisList'
  BY DEF Arrive, HealthOfThisList
<1>3. CASE UNCHANGED <<query, rr, turns>>
  BY <1>1, <1>2, <1>3 DEF ForwardTypes, QueriesWell, QueryWell, TurnsWell
<1>4. CASE Forward(q)
  <2>1. upstreams \in Seq(Upstreams) /\ rr \in Nat
    BY ForwardingAssumption DEF ForwardTypes
  <2>2. /\ InTurn(upstreams, rr) \in Seq(Upstreams) /\ Ask(q, InTurn(upstreams, rr), FALSE)
        /\ SetOf(InTurn(upstreams, rr)) = SetOf(upstreams)
    BY <1>4, <2>1, InTurnAll DEF Forward
  <2>3. query' \in [Queries -> QueryRec] /\ QueriesWell'
    BY <1>2, <2>2, AskKeeps
  <2>4. rr' \in 0 .. Cycle - 1 /\ turns' \in [Upstreams -> Nat] /\ TurnsWell'
    BY <1>2, <1>4, ForwardShares
  <2>5. ForwardTypes'
    BY <1>2, <2>3, <2>4 DEF ForwardTypes
  <2> QED BY <1>1, <1>2, <2>3, <2>4, <2>5
<1>5. ASSUME NEW u \in Upstreams, Ask(q, <<u>>, TRUE), UNCHANGED <<rr, turns>> PROVE ForwardInv'
  <2>1. <<u>> \in Seq(Upstreams)
    OBVIOUS
  <2>2. query' \in [Queries -> QueryRec] /\ QueriesWell'
    BY <1>2, <1>5, <2>1, AskKeeps
  <2>3. ForwardTypes' /\ TurnsWell'
    BY <1>2, <1>5, <2>2 DEF ForwardTypes, TurnsWell
  <2> QED BY <1>1, <1>2, <2>2, <2>3
<1> QED BY <1>3, <1>4, <1>5 DEF Arrive

LEMMA ConfigureKeeps ==
  ASSUME DistinctLists, ForwardInv, ForwardConfigure
  PROVE  ForwardInv'
<1> USE DEF ForwardInv
<1>1. query' \in [Queries -> QueryRec] /\ QueriesWell'
  BY ConfigureKeepsQueries
<1>2. /\ upstreams' \in Lists /\ upstreams' \in Seq(Upstreams)
      /\ rr' = rr /\ turns' = [u \in Upstreams |-> 0]
      /\ UNCHANGED <<bucket, passed>> /\ down' = {}
  BY ForwardingAssumption DEF ForwardConfigure
<1>3. ForwardTypes'
  BY <1>1, <1>2 DEF ForwardTypes
<1>4. TurnsWell'
  <2> DEFINE n == Len(upstreams')
             k == rr' % n
  <2> SUFFICES ASSUME upstreams' # << >> PROVE TurnsWell'
    BY DEF TurnsWell
  <2>1. n \in Nat \ {0}
    BY <1>2
  <2>2. rr' \in Nat
    BY <1>2, ForwardingAssumption DEF ForwardTypes
  <2>3. k \in 0 .. n - 1
    BY <2>1, <2>2, ModIs
  <2> HIDE DEF k
  <2>4. \A i \in 1 .. n : ~Between(i - 1, k, k) /\ turns'[upstreams'[i]] = 0
    BY <1>2, <2>1, <2>3 DEF Between
  <2> QED BY <2>3, <2>4 DEF TurnsWell, k
<1>5. RateWell'
  BY <1>2 DEF RateWell, IsCount
<1> QED BY <1>1, <1>2, <1>3, <1>4, <1>5 DEF HealthOfThisList

\* What an answer or a failure says of the server's health is noted on the list in
\* force or not at all.
LEMMA NotedHere ==
  ASSUME ForwardTypes, QueriesWell, HealthOfThisList, NEW q \in Asking, NEW well \in BOOLEAN,
         Noted(q, well), upstreams' = upstreams
  PROVE  HealthOfThisList'
<1>1. query[q] \in QueryRec /\ QueryWell(q) /\ query[q].state = "asking"
  BY DEF Asking, ForwardTypes, QueriesWell
<1>2. query[q].order \in Seq(Upstreams) /\ query[q].order # << >>
  BY <1>1 DEF QueryWell, QueryRec
<1>3. query[q].order[1] \in SetOf(query[q].order)
  BY <1>2, TailSet
<1> QED BY <1>1, <1>3 DEF QueryWell, Noted, HealthOfThisList

LEMMA ForwardStep == DistinctLists /\ ForwardInv /\ [ForwardNext]_forwardVars => ForwardInv'
<1> SUFFICES ASSUME DistinctLists, ForwardInv, [ForwardNext]_forwardVars PROVE ForwardInv'
  OBVIOUS
<1>1. ASSUME NEW q \in Queries, Arrive(q) PROVE ForwardInv'
  BY <1>1, ArriveKeeps
<1>2. ASSUME NEW q \in Queries, Answered(q) PROVE ForwardInv'
  <2>1. q \in Asking /\ Noted(q, TRUE) /\ UNCHANGED <<upstreams, rr, turns, bucket, passed>>
    BY <1>2 DEF Answered
  <2>2. query' \in [Queries -> QueryRec] /\ QueriesWell'
    BY <1>2, AnsweredKeeps DEF ForwardInv
  <2>3. HealthOfThisList'
    BY <2>1, NotedHere DEF ForwardInv
  <2> QED BY <2>1, <2>2, <2>3 DEF ForwardInv, ForwardTypes, TurnsWell, RateWell, IsCount
<1>3. ASSUME NEW q \in Queries, TimedOut(q) PROVE ForwardInv'
  <2>1. q \in Asking /\ Noted(q, FALSE) /\ UNCHANGED <<upstreams, rr, turns, bucket, passed>>
    BY <1>3 DEF TimedOut
  <2>2. query' \in [Queries -> QueryRec] /\ QueriesWell'
    BY <1>3, TimedOutKeeps DEF ForwardInv
  <2>3. HealthOfThisList'
    BY <2>1, NotedHere DEF ForwardInv
  <2> QED BY <2>1, <2>2, <2>3 DEF ForwardInv, ForwardTypes, TurnsWell, RateWell, IsCount
<1>4. CASE ForwardConfigure
  BY <1>4, ConfigureKeeps
<1>5. CASE ForwardTick
  <2>1. RateWell'
    BY <1>5, TickRate DEF ForwardInv
  <2>2. UNCHANGED <<upstreams, rr, query, down, turns>>
    BY <1>5 DEF ForwardTick
  <2> QED BY <2>1, <2>2 DEF ForwardInv, ForwardTypes, QueriesWell, QueryWell, TurnsWell,
                            HealthOfThisList
<1>6. CASE UNCHANGED forwardVars
  BY <1>6 DEF ForwardInv, forwardVars, ForwardTypes, QueriesWell, QueryWell, TurnsWell,
              HealthOfThisList, RateWell, IsCount
<1> QED BY <1>1, <1>2, <1>3, <1>4, <1>5, <1>6 DEF ForwardNext

\* For any lists without repetitions, any number of queries under way at once, any
\* changes of the list among them, and any limit on a client: SERVFAIL comes after all
\* have been asked, the upstreams take turns, their health is that of the list in force,
\* and one client gets at most twice the limit through in any window.
THEOREM UpstreamsAreFair ==
  ASSUME DistinctLists
  PROVE  ForwardSpec => []ForwardingFair
<1>1. ForwardInit => ForwardInv
  BY ForwardInitInv
<1>2. ForwardInv /\ [ForwardNext]_forwardVars => ForwardInv'
  BY ForwardStep
<1>3. ForwardInv => ForwardingFair
  BY TurnsWellShared, RateWellHolds
     DEF ForwardInv, QueriesWell, QueryWell, ForwardingFair, ServfailAfterAll
<1> QED BY <1>1, <1>2, <1>3, PTL DEF ForwardSpec

-----------------------------------------------------------------------------
(* The queue of lookups.                                                   *)

IntelTypes ==
  /\ suspect \in Seq(Suspects) /\ queue \in Seq(Suspects) /\ verdicts \subseteq Suspects
  /\ \A l \in DOMAIN looking : looking[l] \in Suspects

\* The inductive invariant: with the queue well-formed, what is added to it is new.
IntelInv == IntelTypes /\ QueueSound

\* What is added stands behind what is queued without a repetition.
AddsTo(s) == IsInjective(s) /\ ToSet(s) \cap ToSet(queue) = {}

\* A sequence of additions is one that the loop may have made.
LEMMA AddsOne ==
  ASSUME NEW s \in Seq(Suspects), AddsTo(s), NEW i \in Suspects, i \notin ToSet(s) \union ToSet(queue)
  PROVE  Append(s, i) \in Seq(Suspects) /\ AddsTo(Append(s, i))
<1> DEFINE t == Append(s, i)
<1>1. /\ t \in Seq(Suspects) /\ Len(t) = Len(s) + 1 /\ DOMAIN t = 1 .. Len(t)
      /\ DOMAIN s = 1 .. Len(s) /\ Len(s) \in Nat
      /\ t[Len(t)] = i /\ \A j \in 1 .. Len(s) : t[j] = s[j]
  OBVIOUS
<1>2. \A j \in 1 .. Len(s) : s[j] # i
  BY <1>1 DEF ToSet
<1>3. IsInjective(t)
  <2> SUFFICES ASSUME NEW a \in DOMAIN t, NEW b \in DOMAIN t, t[a] = t[b] PROVE a = b
    BY DEF IsInjective
  <2>1. a \in 1 .. Len(s) \/ a = Len(t)
    BY <1>1
  <2>2. b \in 1 .. Len(s) \/ b = Len(t)
    BY <1>1
  <2> HIDE DEF t
  <2> QED BY <1>1, <1>2, <2>1, <2>2 DEF AddsTo, IsInjective
<1>4. ToSet(t) = ToSet(s) \union {i}
  <2> HIDE DEF t
  <2> QED BY <1>1 DEF ToSet
<1> QED BY <1>1, <1>3, <1>4 DEF AddsTo

\* The loop of enqueueSuspicious, after n queries.
Loop(n, f) ==
  \A k \in 0 .. n :
    f[k] = IF k = 0 THEN << >>
           ELSE IF suspect[k] \in verdicts \union ToSet(queue) \union ToSet(f[k - 1])
                THEN f[k - 1] ELSE Append(f[k - 1], suspect[k])

\* Whatever the queries are, the loop has a result, one query after the other, and adds
\* nothing twice.
LEMMA LoopRuns ==
  ASSUME IntelTypes, NEW n \in 0 .. Len(suspect)
  PROVE  \E f \in [0 .. n -> Seq(Suspects)] : Loop(n, f) /\ AddsTo(f[n])
<1> DEFINE Runs(m) == \E f \in [0 .. m -> Seq(Suspects)] : Loop(m, f) /\ AddsTo(f[m])
           T == {m \in 0 .. Len(suspect) : ~Runs(m)}
<1>1. Len(suspect) \in Nat /\ \A k \in 1 .. Len(suspect) : suspect[k] \in Suspects
  BY DEF IntelTypes
<1>2. Runs(0)
  <2> DEFINE f == [k \in 0 .. 0 |-> << >>]
  <2>1. f \in [0 .. 0 -> Seq(Suspects)] /\ f[0] = << >> /\ \A k \in 0 .. 0 : k = 0
    OBVIOUS
  <2>2. AddsTo(<< >>)
    BY DEF AddsTo, IsInjective, ToSet
  <2>3. Loop(0, f) /\ AddsTo(f[0])
    BY <2>1, <2>2 DEF Loop
  <2> QED BY <2>1, <2>3
<1>3. ASSUME NEW m \in 1 .. Len(suspect), Runs(m - 1) PROVE Runs(m)
  <2>1. PICK f \in [0 .. m - 1 -> Seq(Suspects)] : Loop(m - 1, f) /\ AddsTo(f[m - 1])
    BY <1>3
  <2> DEFINE s == f[m - 1]
             known == verdicts \union ToSet(queue) \union ToSet(s)
             next == IF suspect[m] \in known THEN s ELSE Append(s, suspect[m])
             g == [k \in 0 .. m |-> IF k = m THEN next ELSE f[k]]
  <2>2. m \in Nat /\ m - 1 \in 0 .. m - 1 /\ s \in Seq(Suspects) /\ suspect[m] \in Suspects
    BY <1>1, <2>1
  <2>3. next \in Seq(Suspects) /\ AddsTo(next)
    BY <2>1, <2>2, AddsOne
  <2> HIDE DEF next
  <2>4. /\ g \in [0 .. m -> Seq(Suspects)] /\ g[m] = next
        /\ \A k \in 0 .. m - 1 : g[k] = f[k]
    BY <2>1, <2>2, <2>3
  <2> HIDE DEF g
  <2>5. ASSUME NEW k \in 0 .. m
        PROVE  g[k] = IF k = 0 THEN << >>
                      ELSE IF suspect[k] \in verdicts \union ToSet(queue) \union ToSet(g[k - 1])
                           THEN g[k - 1] ELSE Append(g[k - 1], suspect[k])
    <3>1. CASE k = m
      <4>1. g[k - 1] = s /\ k # 0
        BY <2>2, <2>4, <3>1
      <4> QED BY <2>4, <3>1, <4>1 DEF next
    <3>2. CASE k # m
      <4>1. k \in 0 .. m - 1 /\ (k # 0 => k - 1 \in 0 .. m - 1)
        BY <2>2, <3>2
      <4>2. g[k] = f[k] /\ (k # 0 => g[k - 1] = f[k - 1])
        BY <2>4, <4>1
      <4> QED BY <2>1, <4>1, <4>2 DEF Loop
    <3> QED BY <3>1, <3>2
  <2>6. Loop(m, g)
    BY <2>5 DEF Loop
  <2> QED BY <2>3, <2>4, <2>6
<1> HIDE DEF Runs
<1>4. CASE T = {}
  BY <1>4 DEF Runs
<1>5. CASE T # {}
  <2>1. T \in SUBSET Nat
    BY <1>1
  <2>2. PICK m \in T : \A y \in T : m <= y
    BY <1>5, <2>1, NatMin
  <2>3. m # 0 /\ m \in 1 .. Len(suspect) /\ m - 1 \in 0 .. Len(suspect)
    BY <1>1, <1>2, <2>2
  <2>4. ~(m <= m - 1)
    BY <2>3
  <2>5. Runs(m - 1)
    BY <2>2, <2>3, <2>4
  <2> QED BY <1>3, <2>2, <2>3, <2>5
<1> QED BY <1>4, <1>5

\* It is what the model adds: the function it is defined by can be no other.
LEMMA FreshIs ==
  ASSUME IntelTypes
  PROVE  Fresh \in Seq(Suspects) /\ AddsTo(Fresh)
<1> DEFINE N == Len(suspect)
           added[n \in 0 .. N] ==
             IF n = 0 THEN << >>
             ELSE IF suspect[n] \in verdicts \union ToSet(queue) \union ToSet(added[n - 1])
                  THEN added[n - 1] ELSE Append(added[n - 1], suspect[n])
<1>1. N \in Nat /\ N \in 0 .. N
  BY DEF IntelTypes
<1>2. PICK f \in [0 .. N -> Seq(Suspects)] : Loop(N, f) /\ AddsTo(f[N])
  BY <1>1, LoopRuns
<1>3. f = [n \in 0 .. N |-> IF n = 0 THEN << >>
                           ELSE IF suspect[n] \in verdicts \union ToSet(queue) \union ToSet(f[n - 1])
                                THEN f[n - 1] ELSE Append(f[n - 1], suspect[n])]
  BY <1>2 DEF Loop
<1>4. added = [n \in 0 .. N |-> IF n = 0 THEN << >>
                           ELSE IF suspect[n] \in verdicts \union ToSet(queue) \union ToSet(added[n - 1])
                                THEN added[n - 1] ELSE Append(added[n - 1], suspect[n])]
  BY <1>3
<1> HIDE DEF added
<1> DEFINE T == {n \in 0 .. N : added[n] # f[n]}
<1>5. T = {}
  <2> SUFFICES ASSUME T # {} PROVE FALSE
    OBVIOUS
  <2>1. PICK t \in T : \A y \in T : t <= y
    <3>1. T \in SUBSET Nat
      BY <1>1
    <3> QED BY <3>1, NatMin
  <2>2. t \in 0 .. N /\ added[t] # f[t]
    OBVIOUS
  <2>3. t # 0
    BY <1>3, <1>4, <2>2
  <2>4. t - 1 \in 0 .. N /\ ~(t <= t - 1)
    BY <1>1, <2>2, <2>3
  <2>5. added[t - 1] = f[t - 1]
    BY <2>1, <2>4
  <2> QED BY <1>3, <1>4, <2>2, <2>3, <2>5
<1>6. added[N] = f[N]
  BY <1>1, <1>5
<1>7. Fresh = added[N]
  BY DEF Fresh, added
<1> QED BY <1>1, <1>2, <1>6, <1>7

\* What is kept of a queue is the end of it.
LEMMA NewerKeeps ==
  ASSUME NEW s \in Seq(Suspects), IsInjective(s)
  PROVE  Newer(s) \in Seq(Suspects) /\ IsInjective(Newer(s)) /\ Len(Newer(s)) <= QueueCap
<1>1. QueueCap \in Nat \ {0} /\ Len(s) \in Nat /\ DOMAIN s = 1 .. Len(s)
  BY IntelAssumption
<1>2. CASE Len(s) <= QueueCap
  BY <1>1, <1>2 DEF Newer
<1>3. CASE Len(s) > QueueCap
  <2> DEFINE d == Len(s) - QueueCap
             t == SubSeq(s, d + 1, Len(s))
  <2>1. d \in Nat /\ d + 1 \in 1 .. Len(s)
    BY <1>1, <1>3
  <2>2. /\ t \in Seq(Suspects) /\ Len(t) = QueueCap /\ DOMAIN t = 1 .. QueueCap
        /\ \A j \in 1 .. QueueCap : t[j] = s[d + j] /\ d + j \in 1 .. Len(s)
    BY <1>1, <1>3, <2>1
  <2>3. Newer(s) = t
    BY <1>1, <1>3 DEF Newer
  <2> HIDE DEF t
  <2>4. IsInjective(t)
    <3> SUFFICES ASSUME NEW a \in 1 .. QueueCap, NEW b \in 1 .. QueueCap, t[a] = t[b] PROVE a = b
      BY <2>2 DEF IsInjective
    <3>1. s[d + a] = s[d + b] /\ d + a \in DOMAIN s /\ d + b \in DOMAIN s
      BY <1>1, <2>2
    <3>2. d + a = d + b
      BY <3>1 DEF IsInjective
    <3> QED BY <1>1, <2>1, <3>2
  <2> QED BY <1>1, <2>2, <2>3, <2>4
<1> QED BY <1>1, <1>2, <1>3

\* The queue with what was added, cut from the front.
LEMMA EnqueuedIs ==
  ASSUME IntelInv
  PROVE  Enqueued \in Seq(Suspects) /\ IsInjective(Enqueued) /\ Len(Enqueued) <= QueueCap
<1> DEFINE t == queue \o Fresh
<1>1. /\ queue \in Seq(Suspects) /\ IsInjective(queue)
      /\ Fresh \in Seq(Suspects) /\ IsInjective(Fresh) /\ ToSet(Fresh) \cap ToSet(queue) = {}
  BY FreshIs DEF IntelInv, IntelTypes, QueueSound, AddsTo
<1>2. /\ Len(queue) \in Nat /\ Len(Fresh) \in Nat /\ DOMAIN queue = 1 .. Len(queue)
      /\ DOMAIN Fresh = 1 .. Len(Fresh)
  BY <1>1
<1>3. /\ t \in Seq(Suspects) /\ DOMAIN t = 1 .. Len(queue) + Len(Fresh)
      /\ \A i \in 1 .. Len(queue) : t[i] = queue[i]
      /\ \A i \in DOMAIN t : i > Len(queue) => t[i] = Fresh[i - Len(queue)]
  BY <1>1, <1>2
<1> HIDE DEF t
<1>4. ASSUME NEW a \in DOMAIN t, NEW b \in DOMAIN t, t[a] = t[b], a <= Len(queue), b > Len(queue)
      PROVE  FALSE
  <2>1. /\ a \in DOMAIN queue /\ t[a] = queue[a]
        /\ b - Len(queue) \in DOMAIN Fresh /\ t[b] = Fresh[b - Len(queue)]
    BY <1>2, <1>3, <1>4
  <2>2. t[a] \in ToSet(queue) /\ t[b] \in ToSet(Fresh)
    BY <2>1 DEF ToSet
  <2> QED BY <1>1, <1>4, <2>2
<1>5. IsInjective(t)
  <2> SUFFICES ASSUME NEW a \in DOMAIN t, NEW b \in DOMAIN t, t[a] = t[b] PROVE a = b
    BY DEF IsInjective
  <2>1. a \in Nat /\ b \in Nat
    BY <1>2, <1>3
  <2>2. CASE a <= Len(queue) /\ b <= Len(queue)
    <3>1. a \in DOMAIN queue /\ b \in DOMAIN queue /\ queue[a] = queue[b]
      BY <1>2, <1>3, <2>2
    <3> QED BY <1>1, <3>1 DEF IsInjective
  <2>3. CASE a > Len(queue) /\ b > Len(queue)
    <3>1. /\ a - Len(queue) \in DOMAIN Fresh /\ b - Len(queue) \in DOMAIN Fresh
          /\ Fresh[a - Len(queue)] = Fresh[b - Len(queue)]
      BY <1>2, <1>3, <2>3
    <3>2. a - Len(queue) = b - Len(queue)
      BY <1>1, <3>1 DEF IsInjective
    <3> QED BY <1>2, <2>1, <3>2
  <2> QED BY <1>2, <1>4, <2>1, <2>2, <2>3
<1> QED BY <1>3, <1>5, NewerKeeps DEF Enqueued, t

\* Each step keeps it.
LEMMA IntelStays == IntelInv /\ [IntelNext]_intelVars => IntelInv'
<1> SUFFICES ASSUME IntelInv, [IntelNext]_intelVars PROVE IntelInv'
  OBVIOUS
<1>0. QueueCap \in Nat \ {0} /\ queue \in Seq(Suspects) /\ MaxSeen \in Nat
  BY IntelAssumption DEF IntelInv, IntelTypes
<1>1. ASSUME NEW w \in Windows, Seen(w) PROVE IntelInv'
  <2>1. w \in Seq(Suspects)
    <3>1. PICK n \in 0 .. MaxSeen : w \in [1 .. n -> Suspects]
      BY DEF Windows
    <3> QED BY <1>0, <3>1
  <2> QED BY <1>1, <2>1 DEF IntelInv, IntelTypes, QueueSound, Seen
<1>2. ASSUME NEW l \in Lookups, LookupBegins(l) PROVE IntelInv'
  <2> DEFINE e == Enqueued
  <2>1. e \in Seq(Suspects) /\ IsInjective(e) /\ Len(e) <= QueueCap
    BY EnqueuedIs
  <2>2. e # << >> /\ queue' = Tail(e) /\ looking' = Named(looking, l, Head(e))
        /\ suspect' = suspect /\ verdicts' = verdicts
    BY <1>2 DEF LookupBegins, Taken
  <2> HIDE DEF e
  <2>3. /\ Head(e) \in Suspects /\ Tail(e) \in Seq(Suspects) /\ Len(Tail(e)) = Len(e) - 1
        /\ DOMAIN Tail(e) = 1 .. Len(e) - 1 /\ Len(e) \in Nat /\ DOMAIN e = 1 .. Len(e)
        /\ \A i \in 1 .. Len(e) - 1 : Tail(e)[i] = e[i + 1]
    BY <2>1, <2>2
  <2>4. IsInjective(Tail(e))
    <3> SUFFICES ASSUME NEW a \in 1 .. Len(e) - 1, NEW b \in 1 .. Len(e) - 1, Tail(e)[a] = Tail(e)[b]
                 PROVE  a = b
      BY <2>3 DEF IsInjective
    <3>1. e[a + 1] = e[b + 1] /\ a + 1 \in DOMAIN e /\ b + 1 \in DOMAIN e
      BY <2>3
    <3>2. a + 1 = b + 1
      BY <2>1, <3>1 DEF IsInjective
    <3> QED BY <2>3, <3>2
  <2>5. QueueSound'
    BY <1>0, <2>1, <2>2, <2>3, <2>4 DEF QueueSound
  <2>6. \A m \in DOMAIN looking' : looking'[m] \in Suspects
    BY <2>2, <2>3 DEF Named, IntelInv, IntelTypes
  <2> QED BY <2>2, <2>3, <2>5, <2>6 DEF IntelInv, IntelTypes
<1>3. ASSUME NEW l \in Lookups, LookupAnswered(l) \/ LookupFails(l) PROVE IntelInv'
  BY <1>3 DEF LookupAnswered, LookupFails, Unnamed, IntelInv, IntelTypes, QueueSound
<1>4. CASE IntelRestart
  BY <1>0, <1>4 DEF IntelRestart, IntelInv, IntelTypes, QueueSound, IsInjective
<1>5. CASE UNCHANGED intelVars
  BY <1>5 DEF intelVars, IntelInv, IntelTypes, QueueSound
<1> QED BY <1>1, <1>2, <1>3, <1>4, <1>5 DEF IntelNext

\* The queue of lookups stays within its bound, and no indicator waits in it twice,
\* for any indicators, any log and any lookups that fail or overlap (QueueSound).
THEOREM QueueIsSound == IntelSpec => []QueueSound
<1>1. IntelInit => IntelInv
  BY IntelAssumption DEF IntelInit, IntelInv, IntelTypes, QueueSound, IsInjective
<1>2. IntelInv => QueueSound
  BY DEF IntelInv
<1> QED BY <1>1, <1>2, IntelStays, PTL DEF IntelSpec
=============================================================================

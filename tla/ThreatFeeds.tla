---------------------------- MODULE ThreatFeeds ----------------------------
(***************************************************************************)
(* The threat feeds, security/intel-feeds.ts, and the copy of their names  *)
(* in the DNS sinkhole, dns/sinkhole.ts.  A refresh empties the set and    *)
(* then downloads feed after feed; nothing keeps a second refresh (the six *)
(* hours timer, the button) from starting meanwhile.                       *)
(***************************************************************************)
EXTENDS Naturals

CONSTANTS
  NFeeds,      \* feeds are 1..NFeeds, in the order of DEFAULTS
  Versions,    \* what a feed may list: it changes between downloads
  Refreshes,   \* refreshes that may be under way at once
  NoRefresh

ASSUME FeedsAssumption == NFeeds \in Nat \ {0} /\ NoRefresh \notin Refreshes

Feeds == 1 .. NFeeds
Indicators == Feeds \X Versions

VARIABLES
  enabled,     \* the feeds switched on
  bad,         \* badDomains() and badIps(): the indicators in force
  entries,     \* the feeds whose count on the page is not 0
  at,          \* the feed each refresh downloads now; 0: it is not under way
  sinkOn,      \* the sinkhole is switched on
  sink,        \* its copy of bad
  latest,      \* history: the refresh that was started last ...
  got,         \* ... what it has downloaded ...
  crowded      \* ... and whether another one was under way since

feedVars == <<enabled, bad, entries, at, sinkOn, sink, latest, got, crowded>>

Idle == \A r \in Refreshes : at[r] = 0

\* The next feed from i on that is switched on as the loop passes it, 0 if none;
\* those it passes are shown with no entries.
NextFeed(i) ==
  IF \E f \in enabled : f >= i
  THEN CHOOSE f \in enabled : f >= i /\ \A g \in enabled : g >= i => f <= g
  ELSE 0
Passed(i) == {f \in Feeds : f >= i /\ (NextFeed(i) = 0 \/ f < NextFeed(i))}

FeedsInit ==
  /\ enabled \in SUBSET Feeds
  /\ bad = {} /\ entries = {}
  /\ at = [r \in Refreshes |-> 0]
  /\ sinkOn = FALSE /\ sink = {}
  /\ latest = NoRefresh /\ got = {} /\ crowded = FALSE

StartRefresh(r) ==
  /\ at[r] = 0
  /\ bad' = {}
  /\ at' = [at EXCEPT ![r] = NextFeed(1)]
  /\ entries' = entries \ Passed(1)
  /\ latest' = r /\ got' = {} /\ crowded' = ~Idle
  /\ UNCHANGED <<enabled, sinkOn, sink>>

\* The loop goes on behind the feed that refresh r has just dealt with.
Continue(r, counted) ==
  /\ at' = [at EXCEPT ![r] = NextFeed(at[r] + 1)]
  /\ entries' = counted \ Passed(at[r] + 1)

\* A bug to be caught: each refresh collects a set of its own, which replaces the
\* one in force.
DownloadOwnSet(r, v) ==
  /\ at[r] # 0
  /\ bad' = (IF r = latest THEN got ELSE {}) \union {<<at[r], v>>}
  /\ got' = IF r = latest THEN got \union {<<at[r], v>>} ELSE got
  /\ Continue(r, entries \union {at[r]})
  /\ UNCHANGED <<enabled, sinkOn, sink, latest, crowded>>

\* The feed in hand lists v; that it was switched off meanwhile is not noticed.
Download(r, v) ==
  /\ at[r] # 0
  /\ bad' = bad \union {<<at[r], v>>}
  /\ got' = IF r = latest THEN got \union {<<at[r], v>>} ELSE got
  /\ Continue(r, entries \union {at[r]})
  /\ UNCHANGED <<enabled, sinkOn, sink, latest, crowded>>

\* Time-out after 15 s, or an error: only the message is kept.
DownloadFails(r) ==
  /\ at[r] # 0
  /\ Continue(r, entries)
  /\ UNCHANGED <<enabled, bad, sinkOn, sink, latest, got, crowded>>

SetFeedEnabled(f) ==
  /\ \/ enabled' = enabled \union {f}
     \/ enabled' = enabled \ {f}
  /\ UNCHANGED <<bad, entries, at, sinkOn, sink, latest, got, crowded>>

\* The route that switches the sinkhole also fills it.
SwitchSinkhole ==
  /\ \/ sinkOn' = TRUE /\ sink' = bad
     \/ sinkOn' = FALSE /\ UNCHANGED sink
  /\ UNCHANGED <<enabled, bad, entries, at, latest, got, crowded>>

\* Every ten minutes.
ReloadSinkhole ==
  /\ sinkOn
  /\ sink' = bad
  /\ UNCHANGED <<enabled, bad, entries, at, sinkOn, latest, got, crowded>>

\* The control plane restarts: only the switches of the feeds are in a file.
FeedsRestart ==
  /\ bad' = {} /\ entries' = {}
  /\ at' = [r \in Refreshes |-> 0]
  /\ sinkOn' = FALSE /\ sink' = {}
  /\ latest' = NoRefresh /\ got' = {} /\ crowded' = FALSE
  /\ UNCHANGED enabled

FeedStep(r) == (\E v \in Versions : Download(r, v)) \/ DownloadFails(r)

FeedsNext ==
  \/ \E r \in Refreshes : StartRefresh(r) \/ FeedStep(r)
  \/ \E f \in Feeds : SetFeedEnabled(f)
  \/ SwitchSinkhole
  \/ ReloadSinkhole
  \/ FeedsRestart

FeedsSpec == FeedsInit /\ [][FeedsNext]_feedVars

-----------------------------------------------------------------------------
FeedsTypeOK ==
  /\ enabled \subseteq Feeds /\ entries \subseteq Feeds
  /\ bad \subseteq Indicators /\ sink \subseteq Indicators /\ got \subseteq Indicators
  /\ at \in [Refreshes -> Feeds \union {0}]
  /\ latest \in Refreshes \union {NoRefresh}
  /\ sinkOn \in BOOLEAN /\ crowded \in BOOLEAN

\* What the refresh that was started last has downloaded is in force, whatever
\* older refreshes, still under way, do to the same set.
LatestInForce == got \subseteq bad

\* Without an older one under way nothing else is in force, and the page counts
\* entries for every feed that has some.
NothingElse ==
  ~crowded => /\ bad = got
              /\ \A i \in bad : i[1] \in entries

\* Once no refresh starts or is under way and the sinkhole stays on, the resolver
\* comes to refuse exactly the names that are in force: a copy taken in the
\* middle of a refresh does not last.
SinkholeCatchesUp == <>[](Idle /\ sinkOn) => <>[](sink = bad)

\* Together: what is in force is what the last refresh has fetched so far.
FeedsInForce == LatestInForce /\ NothingElse
=============================================================================

------------------------------ MODULE AutoIntel ------------------------------
(***************************************************************************)
(* Indicators that look suspicious in the log of queries are looked up at  *)
(* VirusTotal by themselves, one every 20 s: security/autointel.ts.  A     *)
(* lookup has no timer of its own, so several may be under way, also of    *)
(* one indicator.                                                          *)
(***************************************************************************)
EXTENDS Integers, Sequences, SequencesExt, FiniteSets

CONSTANTS
  Suspects,     \* names and addresses that may look suspicious
  QueueCap,     \* entries the queue keeps
  Lookups,      \* names of lookups under way: bounds how many there are
  MaxSeen       \* bound on the suspicious queries of five minutes

ASSUME IntelAssumption == QueueCap \in Nat \ {0} /\ MaxSeen \in Nat

VARIABLES
  suspect,      \* those of the queries of the last five minutes, newest first
  queue,        \* waiting to be looked up
  looking,      \* the indicators of the lookups under way, by name
  verdicts      \* the indicators that have an entry in the cache

intelVars == <<suspect, queue, looking, verdicts>>

Windows == UNION {[1 .. n -> Suspects] : n \in 0 .. MaxSeen}

IntelInit == suspect = << >> /\ queue = << >> /\ looking = << >> /\ verdicts = {}

Named(f, x, v) == [y \in DOMAIN f \union {x} |-> IF y = x THEN v ELSE f[y]]
Unnamed(f, x) == [y \in DOMAIN f \ {x} |-> f[y]]

\* A bug to be caught: off by one.
NewerAndOne(s) == IF Len(s) > QueueCap + 1 THEN SubSeq(s, Len(s) - QueueCap, Len(s)) ELSE s

Newer(s) == IF Len(s) > QueueCap THEN SubSeq(s, Len(s) - QueueCap + 1, Len(s)) ELSE s

-----------------------------------------------------------------------------
\* The log moves on.
Seen(w) ==
  /\ suspect' = w
  /\ UNCHANGED <<queue, looking, verdicts>>

\* What enqueueSuspicious adds, query by query: what has no entry in the cache, is not
\* queued, and was not added before.  An entry of the cache is never looked up again:
\* those in the cache are excluded before their age is asked for.
Fresh ==
  LET added[n \in 0 .. Len(suspect)] ==
        IF n = 0 THEN << >>
        ELSE IF suspect[n] \in verdicts \union ToSet(queue) \union ToSet(added[n - 1])
             THEN added[n - 1] ELSE Append(added[n - 1], suspect[n])
  IN  added[Len(suspect)]

\* Of too many the oldest go.
Enqueued == Newer(queue \o Fresh)

\* A bug to be caught: the newest is taken first.
TakenNewest(q) == <<Last(q), Front(q)>>

\* The indicator that is looked up next, and the queue without it.
Taken(q) == <<Head(q), Tail(q)>>

\* tick, unless monitoring is paused or there is no key: it is out of the queue
\* before the answer is there.
LookupBegins(l) ==
  /\ l \in Lookups \ DOMAIN looking
  /\ Enqueued # << >>
  /\ queue' = Taken(Enqueued)[2]
  /\ looking' = Named(looking, l, Taken(Enqueued)[1])
  /\ UNCHANGED <<suspect, verdicts>>

\* The entry that is made stays: whether it is more than 30 min old is never asked.
LookupAnswered(l) ==
  /\ l \in DOMAIN looking
  /\ verdicts' = verdicts \union {looking[l]}
  /\ looking' = Unnamed(looking, l)
  /\ UNCHANGED <<suspect, queue>>

\* An error, which is also what an indicator unknown to VirusTotal gives.
LookupFails(l) ==
  /\ l \in DOMAIN looking
  /\ looking' = Unnamed(looking, l)
  /\ UNCHANGED <<suspect, queue, verdicts>>

\* Queue and cache are in memory only.
IntelRestart ==
  /\ queue' = << >> /\ looking' = << >> /\ verdicts' = {}
  /\ UNCHANGED suspect

IntelNext ==
  \/ \E w \in Windows : Seen(w)
  \/ \E l \in Lookups : LookupBegins(l) \/ LookupAnswered(l) \/ LookupFails(l)
  \/ IntelRestart

\* The timer runs, and VirusTotal answers or the connection ends.
IntelFairness ==
  /\ WF_intelVars(\E l \in Lookups : LookupBegins(l))
  /\ \A l \in Lookups : WF_intelVars(LookupAnswered(l) \/ LookupFails(l))

IntelSpec == IntelInit /\ [][IntelNext]_intelVars /\ IntelFairness

-----------------------------------------------------------------------------
(* Properties.                                                             *)

\* The queue is bounded, and nothing waits in it twice, whatever comes back to it.
QueueSound == Len(queue) < QueueCap /\ IsInjective(queue)

\* Each of the indicators that stay in the log comes to its turn, though lookups of
\* the others fail again and again, as long as they fit the queue: none is queued
\* behind those that come back.
EachGetsItsTurn ==
  \A i \in Suspects :
    <>[][UNCHANGED suspect /\ ~IntelRestart]_intelVars
      /\ <>[](i \in ToSet(suspect) /\ Cardinality(ToSet(suspect)) <= QueueCap)
    => []<>(i \in verdicts \/ \E l \in DOMAIN looking : looking[l] = i)
=============================================================================

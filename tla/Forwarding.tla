----------------------------- MODULE Forwarding -----------------------------
(***************************************************************************)
(* How the resolver asks its upstreams, dns/resolver.ts forward,           *)
(* forwardTo, forwardVia, and how it limits what one client may ask,       *)
(* isRateLimited.  Several queries are under way at once; configure may    *)
(* replace the list of upstreams in between.                               *)
(***************************************************************************)
EXTENDS Integers, Sequences, FiniteSets

CONSTANTS
  Upstreams,    \* addresses of upstream servers
  Lists,        \* the lists of them an operator may set
  Queries,      \* names of queries, used again once answered
  Cycle,        \* rr is kept modulo this multiple of the lengths of the lists
  RateCount, RateWindow

ASSUME ForwardingAssumption ==
  /\ Lists \subseteq Seq(Upstreams)
  /\ Cycle \in Nat \ {0} /\ \A l \in Lists : Len(l) > 0 => Cycle % Len(l) = 0
  /\ RateCount \in Nat \ {0} /\ RateWindow \in Nat \ {0}

VARIABLES
  upstreams,    \* the list in force
  rr,           \* how many queries have been forwarded
  query,        \* each query: whom it asks, in which order, or that it failed
  down,         \* upstreams of the list in force that are shown as unhealthy
  turns,        \* history: queries each was asked first, less those all were
  bucket,       \* the client's entry in the rate table: count and age
  passed        \* history: queries let through in each of the last ticks

forwardVars == <<upstreams, rr, query, down, turns, bucket, passed>>

NoQuery == [state |-> "idle", list |-> << >>, order |-> << >>, tried |-> {},
         cond |-> FALSE, old |-> FALSE]

Asking == {q \in Queries : query[q].state = "asking"}

SetOf(s) == {s[n] : n \in DOMAIN s}

ForwardInit ==
  /\ upstreams \in Lists
  /\ rr = 0
  /\ query = [q \in Queries |-> NoQuery]
  /\ down = {}
  /\ turns = [u \in Upstreams |-> 0]
  /\ bucket = [n |-> 0, age |-> 0]
  /\ passed = [t \in 1 .. RateWindow |-> 0]

-----------------------------------------------------------------------------

\* A bug to be caught: the second part ends one too early.
InTurnShort(list, turn) ==
  IF list = << >> THEN << >>
  ELSE SubSeq(list, (turn % Len(list)) + 1, Len(list)) \o SubSeq(list, 1, (turn % Len(list)) - 1)

\* The list, begun at the place whose turn it is.
InTurn(list, turn) ==
  IF list = << >> THEN << >>
  ELSE SubSeq(list, (turn % Len(list)) + 1, Len(list)) \o SubSeq(list, 1, turn % Len(list))

\* isRateLimited.  n = 0: the client has no entry.
Limited ==
  IF bucket.n = 0 \/ bucket.age > RateWindow THEN bucket' = [n |-> 1, age |-> 0]
  ELSE bucket' = [bucket EXCEPT !.n = IF @ > RateCount THEN @ ELSE @ + 1]

Ask(q, order, cond) ==
  query' = [query EXCEPT ![q] = [state |-> IF order = << >> THEN "servfail" ELSE "asking",
                                 list |-> IF cond THEN order ELSE upstreams,
                                 order |-> order, tried |-> {}, cond |-> cond, old |-> FALSE]]

\* History: the first of the order has had its turn.
Counted(order) ==
  IF order = << >> THEN turns
  ELSE LET new == [turns EXCEPT ![order[1]] = @ + 1]
       IN  IF \A u \in SetOf(order) : new[u] > 0
           THEN [u \in Upstreams |-> IF u \in SetOf(order) THEN new[u] - 1 ELSE 0]
           ELSE new

Forward(q) ==
  LET order == InTurn(upstreams, rr)
  IN  /\ Ask(q, order, FALSE)
      /\ rr' = (rr + 1) % Cycle
      /\ turns' = Counted(order)

\* A query comes: it is refused, or sent to the target of a rule, or to the
\* upstreams.
Arrive(q) ==
  /\ q \notin Asking
  /\ Limited
  /\ \/ /\ bucket'.n > RateCount
        /\ UNCHANGED <<query, rr, turns, passed>>
     \/ /\ bucket'.n <= RateCount
        /\ passed' = [passed EXCEPT ![1] = @ + 1]
        /\ \/ Forward(q)
           \/ \E u \in Upstreams : Ask(q, <<u>>, TRUE) /\ UNCHANGED <<rr, turns>>
  /\ UNCHANGED <<upstreams, down>>

\* up.healthy is noted on the list the query was asked with.
Noted(q, well) ==
  down' = IF query[q].cond \/ query[q].old THEN down
          ELSE IF well THEN down \ {query[q].order[1]} ELSE down \union {query[q].order[1]}

Answered(q) ==
  /\ q \in Asking
  /\ query' = [query EXCEPT ![q] = NoQuery]
  /\ Noted(q, TRUE)
  /\ UNCHANGED <<upstreams, rr, turns, bucket, passed>>

\* Three seconds without an answer, or an error of the socket: the next one.
TimedOut(q) ==
  /\ q \in Asking
  /\ query' = [query EXCEPT
       ![q].state = IF Len(query[q].order) = 1 THEN "servfail" ELSE "asking",
       ![q].order = Tail(query[q].order),
       ![q].tried = @ \union {query[q].order[1]}]
  /\ Noted(q, FALSE)
  /\ UNCHANGED <<upstreams, rr, turns, bucket, passed>>

\* configure: other upstreams, all taken to be healthy.
ForwardConfigure ==
  /\ upstreams' \in Lists
  /\ down' = {}
  /\ turns' = [u \in Upstreams |-> 0]
  /\ query' = [q \in Queries |-> IF q \in Asking THEN [query[q] EXCEPT !.old = TRUE]
                                 ELSE query[q]]
  /\ UNCHANGED <<rr, bucket, passed>>

ForwardTick ==
  /\ bucket' = [bucket EXCEPT !.age = IF @ > RateWindow THEN @ ELSE @ + 1]
  /\ passed' = [t \in 1 .. RateWindow |-> IF t = 1 THEN 0 ELSE passed[t - 1]]
  /\ UNCHANGED <<upstreams, rr, query, down, turns>>

ForwardNext ==
  \/ \E q \in Queries : Arrive(q) \/ Answered(q) \/ TimedOut(q)
  \/ ForwardConfigure
  \/ ForwardTick

ForwardSpec == ForwardInit /\ [][ForwardNext]_forwardVars

-----------------------------------------------------------------------------
ForwardTypeOK ==
  /\ upstreams \in Lists /\ rr \in 0 .. Cycle - 1
  /\ \A q \in Queries :
       /\ query[q].state \in {"idle", "asking", "servfail"}
       /\ query[q].state = "asking" => query[q].order # << >>
       /\ SetOf(query[q].order) \union query[q].tried \subseteq Upstreams
  /\ down \subseteq Upstreams
  /\ bucket \in [n : 0 .. RateCount + 1, age : 0 .. RateWindow + 1]

\* A client is told SERVFAIL only when each upstream that was in force when it
\* asked has been tried and has not answered, wherever the turn began and
\* whatever was configured in between.
ServfailAfterAll ==
  \A q \in Queries : query[q].state = "servfail" => query[q].tried = SetOf(query[q].list)

\* Since the list was set, no upstream was asked first more than once more than
\* another, also when queries overlap and upstreams fail.
TurnsShared ==
  \A u, v \in SetOf(upstreams) : turns[u] <= turns[v] + 1

\* The upstreams shown as unhealthy are of the list in force, whatever queries
\* of an earlier list find out.
HealthOfThisList == down \subseteq SetOf(upstreams)

\* In as many ticks as the window has, one client gets at most twice the count
\* through: the end of one window and the start of the next.
RateHolds ==
  LET through[t \in 0 .. RateWindow] == IF t = 0 THEN 0 ELSE through[t - 1] + passed[t]
  IN  through[RateWindow] <= 2 * RateCount

\* Each query is answered, by SERVFAIL at worst: every attempt has its timer.
QueriesEnd == \A q \in Queries : q \in Asking ~> q \notin Asking

\* Together: the upstreams share the queries and their failures are counted
\* right, and one client's share of them is bounded.
ForwardingFair == ServfailAfterAll /\ TurnsShared /\ HealthOfThisList /\ RateHolds
=============================================================================

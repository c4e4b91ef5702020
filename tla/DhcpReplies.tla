----------------------------- MODULE DhcpReplies -----------------------------
(***************************************************************************)
(* What a DHCP client is told, and how the servers of a network are found: *)
(* the options of a reply from the levels that configure them              *)
(* (dhcp/server.ts, buildOptions), their bytes on the wire                 *)
(* (dhcp/options.ts, dhcp/packet.ts), and the probe that plays a client    *)
(* to see who answers (dhcp/probe.ts).  A configured value is its bytes,   *)
(* or the list of its addresses; << >> is the empty value.                 *)
(***************************************************************************)
EXTENDS Naturals, SequencesExt

CONSTANTS
  Hosts,         \* clients, each with the vendor and user class it names
  ServerIp,      \* the address of this server, four bytes
  Mask,          \* the mask of every scope
  OptionSets,    \* what a level may configure: values by code
  DnsLists,      \* lists of DNS servers
  MaxChanges,    \* settings changed: a bound on the behaviours
  Probes,        \* requests to probe the network
  Own, Rogues,   \* the servers on it: this one and others
  PoolSize       \* free addresses of this one

Bytes == 256
Pad == 0
End == 255

CodesOf(t) == DOMAIN t
AddressList(code) == code \in {3, 6, 42, 44}

FourBytes == [1 .. 4 -> 0 .. Bytes - 1]

\* Four bytes of a number, the highest first.
U32(n) == [k \in 1 .. 4 |-> (n \div Bytes ^ (4 - k)) % Bytes]

EncodeOptionValue(code, value) ==
  CASE AddressList(code) -> FlattenSeq(value)
    [] code = 46         -> <<Head(value) % Bytes>>
    [] OTHER             -> value

\* The codes are those of the catalog, which goes from 1 to 252, and the length of an
\* option is sent in one byte.
ASSUME ValuesFit ==
  /\ {ServerIp, Mask} \subseteq FourBytes
  /\ \A t \in OptionSets : \A c \in CodesOf(t) :
        /\ c \in Pad + 1 .. End - 1
        /\ t[c] \in (IF AddressList(c) THEN Seq(FourBytes) ELSE Seq(Nat))
        /\ t[c] = << >> \/ Len(EncodeOptionValue(c, t[c])) < Bytes
  /\ \A l \in DnsLists : l \in Seq(FourBytes) /\ Len(FlattenSeq(l)) < Bytes

MSG == [offer |-> 2, ack |-> 5, nak |-> 6]

VARIABLES
  levels,     \* the options of the server, each scope, the reservation and policies
  naming,     \* who the clients are sent to for DNS, and the name of the domain
  admission,  \* the filters
  changes,
  answer      \* the reply that was sent last; NoAnswer

replyVars == <<levels, naming, admission, changes, answer>>

NoAnswer == << >>

ScopeIds == {1, 2}       \* in the order of their subnets; the server is in that of 1
Direct == 0              \* no relay; otherwise a relay in the subnet of that scope

NoReservation == [host |-> << >>, options |-> << >>]

RepliesInit ==
  /\ levels = [server |-> << >>,
               scope |-> [s \in ScopeIds |-> [on |-> TRUE, options |-> << >>]],
               reservation |-> NoReservation,
               policies |-> << >>]
  /\ naming = [own |-> TRUE, custom |-> << >>, domain |-> << >>,
               mode |-> [s \in ScopeIds |-> "inherit"],
               servers |-> [s \in ScopeIds |-> << >>]]
  /\ admission = [allow |-> {}, deny |-> {}, allowOn |-> FALSE, denyOn |-> FALSE]
  /\ changes = 0 /\ answer = NoAnswer

-----------------------------------------------------------------------------
(* A reply.                                                                *)

PickScope(via) ==
  LET active == {s \in ScopeIds : levels.scope[s].on}
      there  == {s \in active : s = (IF via = Direct THEN 1 ELSE via)}
  IN  IF there # {} \/ via # Direct THEN there
      ELSE {s \in active : \A t \in active : s <= t}

FilterAllows(h) ==
  /\ admission.denyOn => h \notin admission.deny
  /\ admission.allowOn => h \in admission.allow

\* The options for a client from the least to the most specific: the reservation
\* of its MAC, whatever its scope, and the policies of the scope; one that does not
\* match it has nothing for it.
PolicyMatches(p, s, h) == p.on /\ p.scope = s /\ h \in p.hosts

LevelsFor(s, h) ==
  <<levels.server, levels.scope[s].options,
    IF levels.reservation.host = h THEN levels.reservation.options ELSE << >>>>
  \o [n \in DOMAIN levels.policies |->
        IF PolicyMatches(levels.policies[n], s, h) THEN levels.policies[n].options ELSE << >>]

Over(high, low) ==
  [c \in CodesOf(high) \union CodesOf(low) |-> IF c \in CodesOf(high) THEN high[c] ELSE low[c]]

\* A bug to be caught: what is set first stays.
MergeFirst(lists) ==
  LET Merged[n \in 0 .. Len(lists)] == IF n = 0 THEN << >> ELSE Over(Merged[n - 1], lists[n])
  IN  Merged[Len(lists)]

MergeOptions(lists) ==
  LET Merged[n \in 0 .. Len(lists)] == IF n = 0 THEN << >> ELSE Over(lists[n], Merged[n - 1])
  IN  Merged[Len(lists)]

ValueIn(table, code, otherwise) ==
  IF code \in CodesOf(table) /\ table[code] # << >> THEN table[code] ELSE otherwise

DnsValue(s, merged) ==
  CASE naming.mode[s] = "nexrelm" -> <<ServerIp>>
    [] naming.mode[s] = "custom"  -> naming.servers[s]
    [] OTHER -> IF naming.own THEN <<ServerIp>> ELSE ValueIn(merged, 6, naming.custom)

\* A bug to be caught: the name servers of the levels are not held back.
ComputedButDns == {1, 15, 51, 53, 54}

Computed == {1, 6, 15, 51, 53, 54}

Option(code, data) == [code |-> code, data |-> data]
Given(code, value) ==
  IF value = << >> THEN << >> ELSE <<Option(code, EncodeOptionValue(code, value))>>

LeaseSeconds == 86400

BuildOptions(msgType, s, h) ==
  LET merged == MergeOptions(LevelsFor(s, h))
      rest   == SetToSeq({c \in CodesOf(merged) \ Computed : merged[c] # << >>})
  IN  <<Option(53, <<msgType>>), Option(54, ServerIp),
        Option(51, U32(LeaseSeconds)), Option(1, Mask)>>
      \o Given(6, DnsValue(s, merged))
      \o Given(15, ValueIn(merged, 15, naming.domain))
      \o [n \in DOMAIN rest |-> Option(rest[n], EncodeOptionValue(rest[n], merged[rest[n]]))]

\* The options of a datagram; the header before them and zeros after them.
EncodeReply(options) ==
  FlattenSeq([n \in DOMAIN options |->
                <<options[n].code, Len(options[n].data) % Bytes>> \o options[n].data])
  \o <<End, Pad, Pad>>

\* One turn of the loop of decode: where it stands, and what it has got.
NextOption(datagram, read) ==
  LET last == Len(datagram)
      at   == read.at
      len  == IF at = last THEN 0 ELSE datagram[at + 1]
      stop == IF at + 1 + len < last THEN at + 1 + len ELSE last
  IN  IF at > last \/ datagram[at] = End THEN read
      ELSE IF datagram[at] = Pad THEN [read EXCEPT !.at = at + 1]
      ELSE [at  |-> stop + 1,
            got |-> Over([c \in {datagram[at]} |-> SubSeq(datagram, at + 2, stop)], read.got)]

\* As this server reads those of a client, and a client those of this server.
Decode(datagram) ==
  LET Read[n \in 0 .. Len(datagram)] ==
        IF n = 0 THEN [at |-> 1, got |-> << >>] ELSE NextOption(datagram, Read[n - 1])
  IN  Read[Len(datagram)].got

\* An INFORM is answered like a REQUEST, but for the address.
Ask(h, via, type) ==
  /\ FilterAllows(h)
  /\ \E s \in PickScope(via) :
       answer' = [host |-> h, via |-> via, scope |-> s, type |-> type,
                  datagram |-> EncodeReply(IF type = MSG.nak
                                 THEN <<Option(53, <<type>>), Option(54, ServerIp)>>
                                 ELSE BuildOptions(type, s, h))]
  /\ UNCHANGED <<levels, naming, admission, changes>>

-----------------------------------------------------------------------------
(* The operator.                                                           *)

Edit ==
  /\ changes < MaxChanges /\ changes' = changes + 1
  /\ answer' = NoAnswer

SetLevels ==
  /\ \E options \in OptionSets :
       \/ levels' = [levels EXCEPT !.server = options]
       \/ \E s \in ScopeIds : levels' = [levels EXCEPT !.scope[s].options = options]
       \/ \E h \in Hosts :
            levels' = [levels EXCEPT !.reservation = [host |-> h, options |-> options]]
       \/ \E s \in ScopeIds, hosts \in (SUBSET Hosts) \ {{}} :
            levels' = [levels EXCEPT !.policies =
                         Append(@, [scope |-> s, on |-> TRUE, hosts |-> hosts, options |-> options])]
  /\ Edit /\ UNCHANGED <<naming, admission>>

Switch ==
  /\ \/ \E s \in ScopeIds : levels' = [levels EXCEPT !.scope[s].on = ~@]
     \/ \E n \in DOMAIN levels.policies : levels' = [levels EXCEPT !.policies[n].on = ~@]
  /\ Edit /\ UNCHANGED <<naming, admission>>

SetNaming ==
  /\ \/ naming' = [naming EXCEPT !.own = ~@]
     \/ \E l \in DnsLists : naming' = [naming EXCEPT !.custom = l]
     \/ \E s \in ScopeIds, m \in {"inherit", "nexrelm", "custom"}, l \in DnsLists :
          naming' = [naming EXCEPT !.mode[s] = m, !.servers[s] = l]
  /\ Edit /\ UNCHANGED <<levels, admission>>

SetFilters ==
  /\ \/ \E h \in Hosts, list \in {"allow", "deny"} : admission' = [admission EXCEPT ![list] = @ \union {h}]
     \/ \E switch \in {"allowOn", "denyOn"} : admission' = [admission EXCEPT ![switch] = ~@]
  /\ Edit /\ UNCHANGED <<levels, naming>>

RepliesNext ==
  \/ \E h \in Hosts, via \in ScopeIds \union {Direct}, m \in DOMAIN MSG : Ask(h, via, MSG[m])
  \/ SetLevels \/ Switch \/ SetNaming \/ SetFilters

-----------------------------------------------------------------------------
(* The probe: a DISCOVER of its own, and the offers to it until a timer    *)
(* runs out.                                                               *)

VARIABLES
  up,          \* the servers that run
  probing,     \* of each probe: its socket, its timer, and the servers it has seen
  offers,      \* offers on their way
  setAside,    \* the probes this server keeps an address for
  lastProbe,   \* the latest result; NoProbe
  begun        \* the probes, in the order they began

probeVars == <<up, probing, offers, setAside, lastProbe, begun>>

Servers == {Own} \union Rogues
NoProbe == << >>

ProbesInit ==
  /\ up \in SUBSET Servers
  /\ probing = [p \in Probes |-> [socket |-> "none", timer |-> FALSE, seen |-> {}]]
  /\ offers = {} /\ setAside = {} /\ lastProbe = NoProbe /\ begun = << >>

ProbeBegins(p) ==
  /\ p \notin ToSet(begun) /\ begun' = Append(begun, p)
  /\ probing' = [probing EXCEPT ![p].socket = "bound", ![p].timer = TRUE]
  /\ UNCHANGED <<up, offers, setAside, lastProbe>>

\* The DISCOVER reaches a server that runs, and it makes an offer; this one if it has
\* an address for the MAC of the probe, which it then keeps for a lease time.
Offers(s, p) ==
  /\ s \in up /\ probing[p].socket = "bound" /\ <<p, s>> \notin offers
  /\ s = Own => p \in setAside \/ Cardinality(setAside) < PoolSize
  /\ setAside' = IF s = Own THEN setAside \union {p} ELSE setAside
  /\ offers' = offers \union {<<p, s>>}
  /\ UNCHANGED <<up, probing, lastProbe, begun>>

\* A bug to be caught: an offer to another probe counts.
HeardBy(p, o) == TRUE

\* An offer is broadcast: every socket gets it, a probe goes by its transaction id.
IsFor(p, o) == o[1] = p

Heard(o) ==
  /\ o \in offers
  /\ probing' = [p \in Probes |->
                   IF probing[p].socket = "bound" /\ IsFor(p, o)
                   THEN [probing[p] EXCEPT !.seen = @ \union {o[2]}] ELSE probing[p]]
  /\ UNCHANGED <<up, offers, setAside, lastProbe, begun>>

\* A bug to be caught: a probe that has ended is not ended again.
FinishOnce(p) ==
  /\ probing' = [probing EXCEPT ![p].socket = "closed", ![p].timer = FALSE]
  /\ lastProbe' = IF probing[p].socket = "closed" THEN lastProbe
                  ELSE [by |-> p, servers |-> probing[p].seen]

\* finish: at an error of the socket, and at the timer whether there was one or not.
Finish(p) ==
  /\ probing' = [probing EXCEPT ![p].socket = "closed", ![p].timer = FALSE]
  /\ lastProbe' = [by |-> p, servers |-> probing[p].seen]

SocketFails(p) ==
  /\ probing[p].socket = "bound"
  /\ probing' = [probing EXCEPT ![p].socket = "closed"]
  /\ lastProbe' = [by |-> p, servers |-> probing[p].seen]
  /\ UNCHANGED <<up, offers, setAside, begun>>

\* All wait for the same time.
ProbeTimer(p) ==
  /\ probing[p].timer
  /\ \A k, n \in DOMAIN begun : begun[n] = p /\ k < n => ~probing[begun[k]].timer
  /\ Finish(p)
  /\ UNCHANGED <<up, offers, setAside, begun>>

\* A server is started or stopped; leases run out.
Elsewhere ==
  /\ \/ \E s \in Servers : up' = (IF s \in up THEN up \ {s} ELSE up \union {s}) /\ UNCHANGED setAside
     \/ \E p \in setAside : setAside' = setAside \ {p} /\ UNCHANGED up
  /\ UNCHANGED <<probing, offers, lastProbe, begun>>

ProbesNext ==
  \/ \E p \in Probes : ProbeBegins(p) \/ SocketFails(p) \/ ProbeTimer(p)
  \/ \E p \in Probes, s \in Servers : Offers(s, p)
  \/ \E o \in offers : Heard(o)
  \/ Elsewhere

\* heuristics.ts raises an alarm.
RogueAlarm == lastProbe # NoProbe /\ Cardinality(lastProbe.servers) > 1

-----------------------------------------------------------------------------
(* Properties.                                                             *)

\* What the most specific level that names a code has for it.
Configured(s, h, code) ==
  LET naming_ == {n \in DOMAIN LevelsFor(s, h) : code \in CodesOf(LevelsFor(s, h)[n])}
  IN  IF naming_ = {} THEN << >>
      ELSE LevelsFor(s, h)[CHOOSE n \in naming_ : \A k \in naming_ : k <= n][code]

\* A client reads each option with the value of the most specific level that
\* configures it; the name servers are those of its scope's mode, whatever a level
\* says; behind a relay it is told of a scope of the relay's subnet.
ReadAsConfigured ==
  answer # NoAnswer /\ answer.type # MSG.nak =>
    LET got == Decode(answer.datagram)
        s   == answer.scope
        Reads(code, value) == IF value = << >> THEN code \notin DOMAIN got
                              ELSE code \in DOMAIN got /\ got[code] = EncodeOptionValue(code, value)
    IN  /\ \A code \in (UNION {CodesOf(t) : t \in OptionSets}) \ Computed :
              Reads(code, Configured(s, answer.host, code))
        /\ naming.mode[s] = "nexrelm" => Reads(6, <<ServerIp>>)
        /\ naming.mode[s] = "custom" => Reads(6, naming.servers[s])
        /\ naming.mode[s] = "inherit" /\ ~naming.own /\ Configured(s, answer.host, 6) # << >> =>
              Reads(6, Configured(s, answer.host, 6))
        /\ answer.via # Direct => s = answer.via
        /\ got[53] = <<answer.type>> /\ got[54] = ServerIp

\* An alarm about a second server comes from two that answered the same probe; and
\* when all probes have ended the result that is kept is the one of the last begun.
VerdictFair ==
  /\ lastProbe # NoProbe => {<<lastProbe.by, s>> : s \in lastProbe.servers} \subseteq offers
  /\ begun # << >> /\ (\A p \in Probes : ~probing[p].timer) => lastProbe.by = Last(begun)

ToldAsMeant == ReadAsConfigured /\ VerdictFair
=============================================================================

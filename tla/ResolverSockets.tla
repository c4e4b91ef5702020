-------------------------- MODULE ResolverSockets --------------------------
(***************************************************************************)
(* The sockets of the DNS resolver: start and stop of dns/resolver.ts, as  *)
(* startDns and applyDnsSettings of dns/index.ts call them.  stop waits    *)
(* for one thing only, the end of the connections that are open on the TCP *)
(* listener.  Those end after 10 s in which nothing was sent; a client     *)
(* that goes on asking keeps its own.  UDP sockets are closed, and all     *)
(* sockets bound, before another request is served.  A port stands for an  *)
(* address and a port.                                                     *)
(***************************************************************************)
EXTENDS Naturals, Sequences

CONSTANTS
  Asked,       \* the ports the settings may ask for
  Fallback,    \* the port start tries when the one asked for is taken
  NoPort,
  MaxWaiting   \* how many starts may wait for the listener at once

ASSUME SocketsAssumption ==
  /\ Fallback \notin Asked /\ NoPort \notin Asked \union {Fallback}
  /\ MaxWaiting \in Nat

Ports == Asked \union {Fallback}

VARIABLES
  up,          \* the control plane runs
  asked,       \* the port in the settings table
  udp,         \* this.udp; this.udp6 goes with it
  tcp,         \* this.tcp
  open,        \* the ports on which this process has sockets
  closing,     \* this.tcp is closed and waits for its connections
  conns,       \* ports whose listener has a connection
  busy,        \* those of them on which a client asks again before 10 s are over
  waiting,     \* the port of each start that has yet to bind, in their order
  foreign,     \* what other programs have taken of a port
  overlapped   \* history: a start was called while another one waited

socketVars ==
  <<up, asked, udp, tcp, open, closing, conns, busy, waiting, foreign, overlapped>>

SocketsInit ==
  /\ up = FALSE
  /\ asked \in Asked
  /\ udp = NoPort /\ tcp = NoPort
  /\ open = {} /\ conns = {} /\ busy = {}
  /\ closing = FALSE /\ waiting = <<>>
  /\ foreign \in [Ports -> {"none", "tcp", "both"}]
  /\ overlapped = FALSE

\* Between the close of the listener and the last bind no request is served.
AtRest == waiting = <<>> \/ closing

-----------------------------------------------------------------------------

\* A bug to be caught: stop closes the UDP sockets only.
StartKeepsListener(p) ==
  /\ Len(waiting) < MaxWaiting
  /\ open' = IF tcp = NoPort THEN open \ {udp} ELSE open
  /\ udp' = NoPort
  /\ closing' = FALSE
  /\ tcp' = NoPort
  /\ waiting' = Append(waiting, p)
  /\ overlapped' = (overlapped \/ waiting # <<>>)
  /\ UNCHANGED <<conns, busy, foreign>>

\* start up to the end of stop, or to its wait for the listener.
Start(p) ==
  /\ Len(waiting) < MaxWaiting
  /\ open' = open \ {udp, tcp}
  /\ udp' = NoPort
  /\ closing' = (tcp \in conns)
  /\ tcp' = IF tcp \in conns THEN tcp ELSE NoPort
  /\ waiting' = Append(waiting, p)
  /\ overlapped' = (overlapped \/ waiting # <<>>)
  /\ UNCHANGED <<conns, busy, foreign>>

Boot == ~up /\ up' = TRUE /\ Start(asked) /\ UNCHANGED asked

\* applyDnsSettings with another port, or other upstreams (p is asked then).
\* Without either it only configures, and the sockets stay.
Apply(p) ==
  /\ up /\ AtRest
  /\ asked' = p
  /\ Start(p)
  /\ UNCHANGED up

\* A client connects, or asks on the connection it has: each message starts the
\* 10 s anew, also while stop waits.
Talks(q) ==
  /\ AtRest
  /\ q \in open \union conns
  /\ conns' = conns \union {q} /\ busy' = busy \union {q}
  /\ UNCHANGED <<up, asked, udp, tcp, open, closing, waiting, foreign, overlapped>>

FallsSilent(q) ==
  /\ AtRest
  /\ q \in busy
  /\ busy' = busy \ {q}
  /\ UNCHANGED <<up, asked, udp, tcp, open, closing, conns, waiting, foreign, overlapped>>

\* A bug to be caught: nobody is told that the listener has closed.
DisconnectUnheard(q) ==
  /\ AtRest
  /\ q \in conns
  /\ conns' = conns \ {q} /\ busy' = busy \ {q}
  /\ UNCHANGED <<up, asked, udp, tcp, open, closing, waiting, foreign, overlapped>>

\* The last connection ends; if stop waited for it, so does its wait.
Disconnect(q) ==
  /\ AtRest
  /\ q \in conns
  /\ conns' = conns \ {q} /\ busy' = busy \ {q}
  /\ closing' = (closing /\ q # tcp)
  /\ tcp' = IF closing /\ q = tcp THEN NoPort ELSE tcp
  /\ UNCHANGED <<up, asked, udp, open, waiting, foreign, overlapped>>

\* The timer of a connection on which nothing is sent.
IdleOut(q) == q \notin busy /\ Disconnect(q)

\* The process ends, and all its sockets with it.
Gone ==
  /\ up' = FALSE
  /\ udp' = NoPort /\ tcp' = NoPort
  /\ open' = {} /\ conns' = {} /\ busy' = {}
  /\ closing' = FALSE /\ waiting' = <<>>
  /\ overlapped' = FALSE
  /\ UNCHANGED <<asked, foreign>>

Crash == up /\ AtRest /\ Gone

Free(p) == p \notin open /\ foreign[p] # "both"

\* The rest of the start that has waited longest, on port p: it overwrites the
\* references of a start that has bound before it.
Bind(p) ==
  /\ waiting # <<>> /\ ~closing
  /\ Free(p)
  /\ p = Head(waiting) \/ (p = Fallback /\ ~Free(Head(waiting)))
  /\ foreign[p] = "none"
  /\ waiting' = Tail(waiting)
  /\ open' = open \union {p} /\ udp' = p /\ tcp' = p
  /\ UNCHANGED <<up, asked, closing, conns, busy, foreign, overlapped>>

\* Another program listens on the TCP port only: net.Server reports that to
\* nobody, which ends the process.
BindDies(p) ==
  /\ waiting # <<>> /\ ~closing
  /\ Free(p)
  /\ p = Head(waiting) \/ (p = Fallback /\ ~Free(Head(waiting)))
  /\ foreign[p] = "tcp"
  /\ Gone

\* Neither port can be had: the start is refused, and the resolver is left off.
BindFails ==
  /\ waiting # <<>> /\ ~closing
  /\ ~Free(Head(waiting)) /\ ~Free(Fallback)
  /\ waiting' = Tail(waiting)
  /\ UNCHANGED <<up, asked, udp, tcp, open, closing, conns, busy, foreign, overlapped>>

\* Other programs come and go.
Foreign(q) ==
  /\ AtRest
  /\ q \notin open
  /\ \E use \in {"none", "tcp", "both"} : foreign' = [foreign EXCEPT ![q] = use]
  /\ UNCHANGED <<up, asked, udp, tcp, open, closing, conns, busy, waiting, overlapped>>

Binding == BindFails \/ \E p \in Ports : Bind(p) \/ BindDies(p)

SocketsNext ==
  \/ Boot
  \/ Crash
  \/ \E p \in Asked : Apply(p)
  \/ \E q \in Ports : Talks(q) \/ FallsSilent(q) \/ Disconnect(q) \/ Foreign(q)
  \/ Binding

SocketsSpec == SocketsInit /\ [][SocketsNext]_socketVars

-----------------------------------------------------------------------------
SocketsTypeOK ==
  /\ up \in BOOLEAN /\ closing \in BOOLEAN /\ overlapped \in BOOLEAN
  /\ asked \in Asked
  /\ udp \in Ports \union {NoPort} /\ tcp \in Ports \union {NoPort}
  /\ open \subseteq Ports /\ conns \subseteq Ports /\ busy \subseteq conns
  /\ waiting \in Seq(Asked) /\ Len(waiting) <= MaxWaiting
  /\ foreign \in [Ports -> {"none", "tcp", "both"}]

\* As long as no settings are applied while others wait for the listener, every
\* socket of the process is one that the next stop will close.
NoForgottenSocket == ~overlapped => open = {udp} \ {NoPort}

\* Likewise, when no start is under way the resolver is off or listens where the
\* settings in the table say, or on the fallback port.
WhereAsked ==
  ~overlapped /\ waiting = <<>> => udp \in {asked, Fallback, NoPort}

\* A resolver that was switched off to be bound again comes back, unless a client
\* keeps the old listener's connection busy; as long as the fallback port is left to it.
Serves ==
  [](up => ~overlapped /\ foreign[Fallback] = "none")
    => (up /\ udp = NoPort ~> udp # NoPort \/ ~up \/ (closing /\ tcp \in busy))

\* Together: the program's references are its sockets, where the settings say.
SocketsKept == NoForgottenSocket /\ WhereAsked
=============================================================================

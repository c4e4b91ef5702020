----------------------------- MODULE PageHooks -----------------------------
(***************************************************************************)
(* What a page of the interface keeps open towards the control plane: the  *)
(* polling of a path, and a terminal.                                      *)
(***************************************************************************)
EXTENDS Naturals, FiniteSets

(***************************************************************************)
(* useDns, by which every page of the interface reads the control plane:   *)
(* it fetches a path, again at each interval and on request, and takes an  *)
(* answer only from the latest fetch (lib/dns.ts).                         *)
(***************************************************************************)

CONSTANTS Paths, NoPath, MaxFetches, MaxVersion

ASSUME PollAssumption == NoPath \notin Paths /\ MaxFetches \in Nat /\ MaxVersion \in Nat

VARIABLES
  path,      \* the path of the page that is shown, NoPath when it reads nothing
  tick,      \* the number of the latest fetch
  fetches,   \* fetches on their way: number, path, and what the server answered
  version,   \* how often the server's state has changed
  data,      \* what is shown: of which path, how old
  loading, failed

pollVars == <<path, tick, fetches, version, data, loading, failed>>

Unanswered == MaxVersion + 1
Nothing_ == [path |-> NoPath, version |-> 0]

PollInit ==
  /\ path = NoPath /\ tick = 0 /\ fetches = {} /\ version = 0
  /\ data = Nothing_ /\ loading = TRUE /\ failed = FALSE

\* load: a path that is null is not fetched, and does not count.
Loaded(p) ==
  IF p = NoPath THEN UNCHANGED <<tick, fetches>>
  ELSE /\ tick' = tick + 1
       /\ fetches' = fetches \union {[n |-> tick + 1, path |-> p, version |-> Unanswered]}

\* The page shows another path; the old interval is cleared.
ShowPath(p) ==
  /\ p # path /\ tick < MaxFetches
  /\ path' = p /\ loading' = TRUE
  /\ Loaded(p)
  /\ UNCHANGED <<version, data, failed>>

\* The interval fires, or refresh is called.
Poll ==
  /\ path # NoPath /\ tick < MaxFetches
  /\ Loaded(path)
  /\ UNCHANGED <<path, version, data, loading, failed>>

ServerChanges ==
  /\ version < MaxVersion /\ version' = version + 1
  /\ UNCHANGED <<path, tick, fetches, data, loading, failed>>

ServerAnswers(f) ==
  /\ f.version = Unanswered
  /\ fetches' = (fetches \ {f}) \union {[f EXCEPT !.version = version]}
  /\ UNCHANGED <<path, tick, version, data, loading, failed>>

\* A bug to be caught: answers are taken as they come.
TakenAsItComes(f) == TRUE
Latest(f) == f.n = tick

\* An answer, or an error in its place, arrives.
Arrives(f) ==
  /\ fetches' = fetches \ {f}
  /\ \/ /\ f.version # Unanswered /\ Latest(f)
        /\ data' = [path |-> f.path, version |-> f.version]
        /\ failed' = FALSE /\ loading' = FALSE
     \/ /\ Latest(f) /\ failed' = TRUE /\ loading' = FALSE
        /\ UNCHANGED data
     \/ /\ ~Latest(f) /\ UNCHANGED <<data, failed, loading>>
  /\ UNCHANGED <<path, tick, version>>

PollNext ==
  \/ \E p \in Paths \union {NoPath} : ShowPath(p)
  \/ Poll \/ ServerChanges
  \/ \E f \in fetches : ServerAnswers(f) \/ Arrives(f)

-----------------------------------------------------------------------------
(* Properties.                                                             *)

\* What is shown as loaded is of the path that is shown, however the answers of
\* earlier fetches and pages come in (the old path's data may stand while loading).
ShownIsAsked == ~loading /\ ~failed /\ path # NoPath => data.path = path

\* An older state never comes back on the page over a newer one of the same path.
NeverOlder == [][data'.path = data.path => data'.version >= data.version]_pollVars

-----------------------------------------------------------------------------
(***************************************************************************)
(* A terminal in the browser: the page opens a socket after it has loaded  *)
(* the terminal's code, the control plane opens an SSH connection for the  *)
(* socket, and whichever end goes takes the others with it                 *)
(* (components/directory/Shell.tsx, components/vms/VmTerminal.tsx,         *)
(* routes/directory.ts, routes/vms.ts, net/ssh.ts).                        *)
(***************************************************************************)

CONSTANTS Sockets, NoSocket, MaxLoads

ASSUME TerminalsAssumption == NoSocket \notin Sockets /\ MaxLoads \in Nat \ {0}

VARIABLES
  mounted,     \* the page with the terminal is shown
  loads,       \* calls of connect that wait for the terminal's code
  current,     \* the socket the page knows of (wsRef)
  phase,       \* what the page says
  sock,        \* the page's side of each socket
  served,      \* the server's side of it
  ssh,         \* the SSH connection behind it
  overlapped   \* two calls of connect have waited at once

terminalVars == <<mounted, loads, current, phase, sock, served, ssh, overlapped>>

TerminalsInit ==
  /\ mounted = FALSE /\ loads = 0 /\ current = NoSocket /\ phase = "idle"
  /\ sock = [s \in Sockets |-> "unused"]
  /\ served = [s \in Sockets |-> "none"]
  /\ ssh = [s \in Sockets |-> "none"]
  /\ overlapped = FALSE

-----------------------------------------------------------------------------
(* The page.                                                               *)

\* A bug to be caught: the socket is forgotten and not closed.
ForgetSocket == current' = NoSocket /\ UNCHANGED sock

Teardown ==
  /\ current' = NoSocket
  /\ sock' = IF current # NoSocket /\ sock[current] \in {"opening", "open"}
             THEN [sock EXCEPT ![current] = "closing"] ELSE sock

Connect ==
  /\ loads < MaxLoads
  /\ Teardown /\ mounted' = TRUE /\ phase' = "connecting"
  /\ loads' = loads + 1 /\ overlapped' = (overlapped \/ loads > 0)
  /\ UNCHANGED <<served, ssh>>

Unmount ==
  /\ mounted /\ mounted' = FALSE /\ Teardown
  /\ UNCHANGED <<loads, phase, served, ssh, overlapped>>

\* The code is loaded: nothing to do when the page has gone meanwhile.
Loaded_ ==
  /\ loads > 0 /\ loads' = loads - 1
  /\ \/ ~mounted /\ UNCHANGED <<current, sock>>
     \/ \E s \in Sockets :
          /\ mounted /\ sock[s] = "unused"
          /\ current' = s /\ sock' = [sock EXCEPT ![s] = "opening"]
  /\ UNCHANGED <<mounted, phase, served, ssh, overlapped>>

OnOpen(s) ==
  /\ sock[s] = "opening"
  /\ sock' = [sock EXCEPT ![s] = "open"] /\ served' = [served EXCEPT ![s] = "open"]
  /\ phase' = "open"
  /\ UNCHANGED <<mounted, loads, current, ssh, overlapped>>

\* The close is heard, of a socket of old as well; or the network broke.
OnClose(s) ==
  /\ sock[s] \in {"opening", "open", "closing"}
  /\ sock' = [sock EXCEPT ![s] = "closed"]
  /\ phase' = "closed"
  /\ UNCHANGED <<mounted, loads, current, served, ssh, overlapped>>

-----------------------------------------------------------------------------
(* The control plane.                                                      *)

\* The first `auth` frame: a target is known and dialled, or (of a VM) it is not,
\* and the socket is closed.
Auth(s) ==
  /\ served[s] = "open" /\ ssh[s] = "none" /\ sock[s] # "unused"
  /\ \/ ssh' = [ssh EXCEPT ![s] = "dialling"] /\ UNCHANGED served
     \/ served' = [served EXCEPT ![s] = "closed"] /\ UNCHANGED ssh
  /\ UNCHANGED <<mounted, loads, current, phase, sock, overlapped>>

Ready(s) ==
  /\ ssh[s] = "dialling" /\ ssh' = [ssh EXCEPT ![s] = "shell"]
  /\ UNCHANGED <<mounted, loads, current, phase, sock, served, overlapped>>

\* An error, the end of the shell or of the connection, whichever is first.
SshCloses(s) ==
  /\ ssh[s] \in {"dialling", "shell"}
  /\ ssh' = [ssh EXCEPT ![s] = "ended"] /\ served' = [served EXCEPT ![s] = "closed"]
  /\ UNCHANGED <<mounted, loads, current, phase, sock, overlapped>>

\* A bug to be caught: an SSH connection that is still being made is not ended.
SocketClosesLate(s) ==
  /\ served[s] = "open" /\ sock[s] \in {"closing", "closed"}
  /\ served' = [served EXCEPT ![s] = "closed"]
  /\ ssh' = IF ssh[s] = "shell" THEN [ssh EXCEPT ![s] = "ended"] ELSE ssh
  /\ UNCHANGED <<mounted, loads, current, phase, sock, overlapped>>

\* The server hears that the browser's end is closed.
SocketCloses(s) ==
  /\ served[s] = "open" /\ sock[s] \in {"closing", "closed"}
  /\ served' = [served EXCEPT ![s] = "closed"]
  /\ ssh' = IF ssh[s] # "none" THEN [ssh EXCEPT ![s] = "ended"] ELSE ssh
  /\ UNCHANGED <<mounted, loads, current, phase, sock, overlapped>>

TerminalsNext ==
  \/ Connect \/ Unmount \/ Loaded_
  \/ \E s \in Sockets : \/ OnOpen(s) \/ OnClose(s) \/ Auth(s) \/ Ready(s)
                        \/ SshCloses(s) \/ SocketCloses(s)

-----------------------------------------------------------------------------
(* Properties.                                                             *)

Alive(s) == ssh[s] \in {"dialling", "shell"}

\* A socket and the SSH connection behind it end together; the page has one socket,
\* and says it is open only when it is, as long as its calls of connect have not
\* waited for the terminal's code at the same time.
TerminalKept ==
  /\ \A s \in Sockets : Alive(s) => served[s] = "open"
  /\ overlapped \/
       /\ \A s \in Sockets : sock[s] \in {"opening", "open"} => s = current
       /\ phase = "open" => current = NoSocket \/ sock[current] = "open"

\* When the page is left, no SSH connection stays behind it (unless its calls of
\* connect have overlapped: then a socket is open that the page does not know).
ShellsEnd == ~mounted /\ loads = 0 ~> mounted \/ overlapped \/ \A s \in Sockets : ~Alive(s)

=============================================================================

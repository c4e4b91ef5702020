------------------------------- MODULE SignIn -------------------------------
(***************************************************************************)
(* Which page a browser comes to: the gate around every page asks whether  *)
(* the account exists and whom the token belongs to, and sends the browser *)
(* to the setup page, the sign-in page or on to the page (AuthGate.tsx,    *)
(* app/login, app/setup, lib/auth.ts, the guard of server.ts).             *)
(***************************************************************************)
EXTENDS Naturals, FiniteSets

CONSTANT MaxMoves   \* moves of the user and of others, to bound the model

ASSUME SignInAssumption == MaxMoves \in Nat

VARIABLES
  url,       \* the page the browser is at
  ready,     \* the gate lets the page be seen
  checks,    \* effects of the gate that wait for an answer
  form,      \* what the sign-in page asks for
  token,     \* in localStorage: none, of a session that lives, of one that ended
  account,   \* none, with a password to be changed, or in use
  vouched,   \* the server has said of this visit that the session is good
  moves

signVars == <<url, ready, checks, form, token, account, vouched, moves>>

Urls == {"/", "/login", "/setup"}
Check == [url : Urls, at : {"status", "me"}, alive : BOOLEAN]

\* The gate's effect runs for the page it is at; those of other pages are dead.
Visit(u) ==
  /\ url' = u /\ ready' = FALSE /\ vouched' = FALSE /\ form' = "signin"
  /\ checks' = {[c EXCEPT !.alive = FALSE] : c \in checks} \union
               {[url |-> u, at |-> "status", alive |-> TRUE]}

\* The browser loads a page anew: nothing of the old one is left.
Load(u) ==
  /\ url' = u /\ ready' = FALSE /\ vouched' = FALSE /\ form' = "signin"
  /\ checks' = {[url |-> u, at |-> "status", alive |-> TRUE]}

SignInInit ==
  /\ url \in Urls /\ ready = FALSE /\ vouched = FALSE /\ form = "signin"
  /\ checks = {[url |-> url, at |-> "status", alive |-> TRUE]}
  /\ token = "none" /\ account \in {"none", "fresh", "used"} /\ moves = 0

Done(c) == checks' = checks \ {c} /\ UNCHANGED <<url, vouched, form>>

\* A bug to be caught: the check of a page that was left has its say.
HeededAlways(c) == TRUE

\* An answer counts for the page the check was made for.
Heeded(c) == c.alive

-----------------------------------------------------------------------------
(* The gate.                                                               *)

\* The answer about the account.
StatusAnswered(c) ==
  /\ c.at = "status"
  /\ CASE ~Heeded(c) -> Done(c) /\ UNCHANGED ready
       [] Heeded(c) /\ account = "none" /\ c.url = "/setup" -> Done(c) /\ ready' = TRUE
       [] Heeded(c) /\ account = "none" /\ c.url # "/setup" -> Visit("/setup")
       [] Heeded(c) /\ account # "none" /\ c.url = "/setup" -> Visit("/login")
       [] Heeded(c) /\ account # "none" /\ c.url = "/login" -> Done(c) /\ ready' = TRUE
       [] Heeded(c) /\ account # "none" /\ c.url = "/" /\ token = "none" -> Visit("/login")
       [] OTHER -> /\ checks' = (checks \ {c}) \union {[c EXCEPT !.at = "me"]}
                   /\ UNCHANGED <<url, ready, vouched, form>>
  /\ UNCHANGED <<token, account, moves>>

\* A bug to be caught: a password still to be changed sends one back to the start.
ChangeFirstAtHome(c) == Visit("/")

ChangeFirst(c) == Visit("/login")

\* The answer about the session.  A dead one ends the visit, whoever asked, unless
\* the browser is at the sign-in or setup page by now.
MeAnswered(c) ==
  /\ c.at = "me"
  /\ \/ /\ token = "live" /\ ~Heeded(c) /\ Done(c) /\ UNCHANGED <<ready, token>>
     \/ /\ token = "live" /\ Heeded(c) /\ account = "fresh"
        /\ ChangeFirst(c) /\ UNCHANGED token
     \/ /\ token = "live" /\ Heeded(c) /\ account = "used"
        /\ ready' = TRUE /\ vouched' = (c.url = url)
        /\ checks' = checks \ {c} /\ UNCHANGED <<url, form, token>>
     \/ /\ token # "live" /\ url = "/" /\ token' = "none" /\ Load("/login")
     \/ /\ token # "live" /\ url # "/" /\ Done(c) /\ UNCHANGED <<ready, token>>
  /\ UNCHANGED <<account, moves>>

\* The control plane does not answer: the sign-in and setup pages are shown anyway.
NoAnswer(c) ==
  /\ CASE Heeded(c) /\ c.url = "/" -> Visit("/login")
       [] Heeded(c) /\ c.url # "/" -> Done(c) /\ ready' = TRUE
       [] OTHER -> Done(c) /\ UNCHANGED ready
  /\ UNCHANGED <<token, account, moves>>

-----------------------------------------------------------------------------
(* The pages.                                                              *)

Moved == moves < MaxMoves /\ moves' = moves + 1

\* The right password at the sign-in page.
SignedIn ==
  /\ url = "/login" /\ ready /\ form = "signin" /\ account # "none"
  /\ token' = "live"
  /\ IF account = "fresh" THEN form' = "change" /\ UNCHANGED <<url, ready, checks, vouched>>
     ELSE Load("/")
  /\ Moved /\ UNCHANGED account

\* The password is changed: every other session ends, this one goes on.
PasswordChanged ==
  /\ url = "/login" /\ ready /\ form = "change" /\ token = "live"
  /\ account' = "used" /\ Load("/")
  /\ Moved /\ UNCHANGED token

\* The poll of the setup page finds the account.
SetupPolls ==
  /\ url = "/setup" /\ ready /\ account # "none"
  /\ Visit("/login")
  /\ UNCHANGED <<token, account, moves>>

\* A request of the page is answered with 401.
Unauthorized ==
  /\ url = "/" /\ ready /\ token # "live"
  /\ token' = "none" /\ Load("/login")
  /\ UNCHANGED <<account, moves>>

SignOut ==
  /\ url = "/" /\ ready /\ token # "none"
  /\ token' = "none" /\ Load("/login")
  /\ Moved /\ UNCHANGED account

\* Back and forward stay within the loaded page; an address typed in does not.
Browse(u) == u # url /\ Visit(u) /\ Moved /\ UNCHANGED <<token, account>>
Enter(u) == Load(u) /\ Moved /\ UNCHANGED <<token, account>>

\* The session ends: by time, another browser, or `nexrelm reset-password`, which
\* also makes the next sign-in change the password; the installer adds the account.
SessionEnds(now) ==
  /\ account # "none" /\ now \in {account, "fresh"}
  /\ token' = (IF token = "live" THEN "dead" ELSE token)
  /\ account' = now
  /\ Moved /\ UNCHANGED <<url, ready, checks, form, vouched>>

AccountAdded ==
  /\ account = "none" /\ account' = "fresh"
  /\ Moved /\ UNCHANGED <<url, ready, checks, form, token, vouched>>

Gate == \E c \in checks : StatusAnswered(c) \/ MeAnswered(c) \/ NoAnswer(c)

SignInNext ==
  \/ Gate \/ SignedIn \/ PasswordChanged \/ SetupPolls \/ Unauthorized \/ SignOut
  \/ \E u \in Urls : Browse(u) \/ Enter(u)
  \/ \E now \in {"fresh", "used"} : SessionEnds(now)
  \/ AccountAdded

-----------------------------------------------------------------------------
(* Properties.                                                             *)

\* No page behind the gate is seen on the word of a check that was made for
\* another visit (AuthGate.tsx, alive); and one check at most is heeded.
GateHolds ==
  /\ url = "/" /\ ready => vouched /\ token # "none"
  /\ Cardinality({c \in checks : c.alive}) <= 1
  /\ \A c \in checks : c.alive => c.url = url

\* The redirects of the gate and the pages come to an end: some page is shown,
\* whatever state account, token and control plane are in.
PageShown == ~ready ~> ready
=============================================================================

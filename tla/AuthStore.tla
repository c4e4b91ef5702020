------------------------------ MODULE AuthStore ------------------------------
(***************************************************************************)
(* The administrator's account and sessions (core/auth.ts): one JSON file  *)
(* that every operation reads whole, changes and writes whole.  The        *)
(* control plane and the nexrelm CLI are two processes over that file.     *)
(*                                                                         *)
(* In the control plane an operation runs to its save without a break,     *)
(* with one exception: a failed sign-in reads the file, sleeps 400 ms, and *)
(* then saves what it read with its own failure added.  Sleeps are all     *)
(* equally long, so they end in the order they began.  The other process   *)
(* can step in between any read and its save.                              *)
(*                                                                         *)
(* Fields that hold a moment in the file hold the time left here; Tick is  *)
(* minutes long and takes a unit from each while nobody sleeps or saves.   *)
(***************************************************************************)
EXTENDS Integers, Sequences, FiniteSets

CONSTANTS
  MaxFails,      \* failed sign-ins before lockout
  FailWindow,    \* ticks a failure counts
  LockTime,      \* ticks a lockout lasts
  Lifetime,      \* ticks a session lives at most
  IdleTime,      \* ticks it lives unused
  MaxSessions,   \* sessions kept in the file
  MaxTokens,     \* bound: sessions issued in a behaviour
  MaxPassword,   \* bound: passwords set in a behaviour
  MaxAsleep,     \* bound: failed sign-ins asleep at once
  Overlap,       \* FALSE: nothing starts while a sign-in sleeps or a save waits
  Ops,           \* the operations that happen
  Crashes        \* TRUE: a process may be killed in the middle of an operation

OpNames == {"setup", "right", "wrong", "verify", "logout", "change", "reset", "tick"}

ASSUME BoundsAssumption ==
  /\ MaxFails \in Nat \ {0} /\ FailWindow \in Nat \ {0} /\ LockTime \in Nat \ {0}
  /\ Lifetime \in Nat \ {0} /\ IdleTime \in Nat \ {0} /\ MaxSessions \in Nat \ {0}
  /\ MaxTokens \in Nat /\ MaxPassword \in Nat /\ MaxAsleep \in Nat
ASSUME SwitchAssumption ==
  Overlap \in BOOLEAN /\ Crashes \in BOOLEAN /\ Ops \subseteq OpNames

Token == 1..MaxTokens
Process == {"server", "cli"}

VARIABLES
  file,      \* auth.json; None before setup, Torn after a broken write
  asleep,    \* what the sleeping failed sign-ins read, oldest first
  write,     \* write[p]: what process p is about to save
  issued,    \* sessions handed out: 1..issued
  chosen,    \* passwords chosen so far: 1..chosen
  password,  \* the password whose setting was last reported done
  ended,     \* sessions that were signed out, revoked, evicted or pruned
  badRun     \* failed sign-ins since a success, a reset or a lockout

vars == <<file, asleep, write, issued, chosen, password, ended, badRun>>

None == [kind |-> "none"]
Torn == [kind |-> "torn"]
NoWrite == [kind |-> "none"]

\* The sessions in the file, by their tokens: they are appended in that order.
Session == [life : 0..Lifetime, idle : 0..IdleTime]
Sessions == UNION {[S -> Session] : S \in SUBSET Token}
Account == [kind : {"account"}, pw : 0..MaxPassword, sessions : Sessions,
            fails : 0..MaxFails, window : 0..FailWindow, lock : 0..LockTime]
\* A save, and what the operation reports when it is done: the session issued
\* (0: none), the sessions ended, the password set (0: none), and whether the
\* count of failures starts again.
Write == [kind : {"save"}, rec : Account, token : 0..MaxTokens, ends : SUBSET Token,
          sets : 0..MaxPassword, clears : BOOLEAN]

TypeOK ==
  /\ file \in Account \cup {None, Torn}
  /\ asleep \in Seq(Account)
  /\ Len(asleep) <= MaxAsleep
  /\ write \in [Process -> Write \cup {NoWrite}]
  /\ issued \in 0..MaxTokens
  /\ chosen \in 0..MaxPassword
  /\ password \in 0..chosen
  /\ ended \subseteq Token
  /\ badRun \in 0..MaxFails

Init ==
  /\ file = None
  /\ asleep = <<>>
  /\ write = [p \in Process |-> NoWrite]
  /\ issued = 0 /\ chosen = 0 /\ password = 0
  /\ ended = {} /\ badRun = 0

-----------------------------------------------------------------------------
IsAuthInitialized == file \notin {None, Torn}

Tokens(a) == DOMAIN a.sessions
Live(s) == s.life > 0 /\ s.idle > 0
Only(a, S) == [a EXCEPT !.sessions = [t \in Tokens(a) \cap S |-> @[t]]]
Without(a, S) == Only(a, Token \ S)

LiveTokens(a) == {t \in Tokens(a) : Live(a.sessions[t])}

\* A bug to be caught: the oldest sessions are kept.
PruneNewest(a) == Only(a, {t \in LiveTokens(a) : Cardinality({u \in LiveTokens(a) : u < t}) < MaxSessions})

\* The live sessions, and of those the MaxSessions newest.
PruneSessions(a) == Only(a, {t \in LiveTokens(a) : Cardinality({u \in LiveTokens(a) : u > t}) < MaxSessions})

Locked == IsAuthInitialized /\ file.lock > 0

\* An operation may start: the event loop is free and, without Overlap,
\* nobody is in the middle of one.
MayStart(p, op) ==
  /\ op \in Ops
  /\ write[p] = NoWrite
  /\ Overlap \/ (asleep = <<>> /\ \A q \in Process : write[q] = NoWrite)

Prepare(p, w) == write' = [write EXCEPT ![p] = w]

\* A password no one had before.
ChooseNew == chosen < MaxPassword /\ chosen' = chosen + 1

-----------------------------------------------------------------------------
(* The operations, up to the save.                                         *)

\* The account is created with an empty session list.
SetupAuth ==
  /\ MayStart("cli", "setup") /\ ~IsAuthInitialized
  /\ ChooseNew
  /\ Prepare("cli", [kind |-> "save",
       rec |-> [kind |-> "account", pw |-> chosen', sessions |-> << >>,
                fails |-> 0, window |-> 0, lock |-> 0],
       token |-> 0, ends |-> 1..issued, sets |-> chosen', clears |-> TRUE])
  /\ UNCHANGED <<file, asleep, issued, password, ended, badRun>>

ResetPassword ==
  /\ MayStart("cli", "reset") /\ IsAuthInitialized
  /\ ChooseNew
  /\ Prepare("cli", [kind |-> "save",
       rec |-> [file EXCEPT !.pw = chosen', !.sessions = << >>, !.fails = 0, !.lock = 0],
       token |-> 0, ends |-> Token, sets |-> chosen', clears |-> TRUE])
  /\ UNCHANGED <<file, asleep, issued, password, ended, badRun>>

\* A wrong password: what was read is kept through the sleep.
LoginWrong ==
  /\ MayStart("server", "wrong") /\ IsAuthInitialized /\ ~Locked
  /\ Len(asleep) < MaxAsleep
  /\ asleep' = Append(asleep, file)
  /\ UNCHANGED <<file, write, issued, chosen, password, ended, badRun>>

\* The sessions in the file and a new one.
WithNew(new) ==
  [t \in Tokens(file) \cup {new} |->
     IF t = new THEN [life |-> Lifetime, idle |-> IdleTime] ELSE file.sessions[t]]

\* The right password: the failures are cleared and a session is added.
LoginRight ==
  /\ MayStart("server", "right") /\ IsAuthInitialized /\ ~Locked
  /\ issued < MaxTokens
  /\ LET new == issued + 1
         rec == PruneSessions([file EXCEPT !.sessions = WithNew(new), !.fails = 0, !.lock = 0])
     IN  Prepare("server", [kind |-> "save", rec |-> rec, token |-> new,
                            ends |-> Tokens(file) \ Tokens(rec), sets |-> 0, clears |-> TRUE])
  /\ UNCHANGED <<file, asleep, issued, chosen, password, ended, badRun>>

\* A request of a live session whose last-seen time is due to be refreshed.
VerifyToken ==
  /\ MayStart("server", "verify") /\ IsAuthInitialized
  /\ \E t \in LiveTokens(file) :
       /\ Prepare("server", [kind |-> "save",
            rec |-> [file EXCEPT !.sessions[t].idle = IdleTime],
            token |-> 0, ends |-> {}, sets |-> 0, clears |-> FALSE])
  /\ UNCHANGED <<file, asleep, issued, chosen, password, ended, badRun>>

Logout(t) ==
  /\ MayStart("server", "logout") /\ IsAuthInitialized
  /\ t <= issued
  /\ Prepare("server", [kind |-> "save", rec |-> Without(file, {t}),
                        token |-> 0, ends |-> {t}, sets |-> 0, clears |-> FALSE])
  /\ UNCHANGED <<file, asleep, issued, chosen, password, ended, badRun>>

\* A bug to be caught: the sessions are revoked, the old hash is kept.
ChangeNothing(t) ==
  /\ MayStart("server", "change") /\ IsAuthInitialized
  /\ t \in LiveTokens(file)
  /\ ChooseNew
  /\ Prepare("server", [kind |-> "save", rec |-> Without(file, Tokens(file) \ {t}),
                        token |-> 0, ends |-> 1..issued \ {t}, sets |-> chosen', clears |-> FALSE])
  /\ UNCHANGED <<file, asleep, issued, password, ended, badRun>>

\* Only a live session changes the password; every other one is revoked.
ChangePassword(t) ==
  /\ MayStart("server", "change") /\ IsAuthInitialized
  /\ t \in LiveTokens(file)
  /\ ChooseNew
  /\ Prepare("server", [kind |-> "save",
       rec |-> [Without(file, Tokens(file) \ {t}) EXCEPT !.pw = chosen'],
       token |-> 0, ends |-> 1..issued \ {t}, sets |-> chosen', clears |-> FALSE])
  /\ UNCHANGED <<file, asleep, issued, password, ended, badRun>>

-----------------------------------------------------------------------------
(* The saves.                                                              *)

\* The session is handed out when the sign-in has saved it.
Save(p) ==
  /\ write[p] # NoWrite
  /\ file' = write[p].rec
  /\ issued' = IF write[p].token > 0 THEN write[p].token ELSE issued
  /\ ended' = ended \cup (write[p].ends \cap 1..issued)
  /\ badRun' = IF write[p].clears THEN 0 ELSE badRun
  /\ password' = IF write[p].sets > 0 THEN write[p].sets ELSE password
  /\ Prepare(p, NoWrite)
  /\ UNCHANGED <<asleep, chosen>>

\* Bugs to be caught: the threshold is one off, or the time of the failure is
\* not kept.
CountOneMore(a) ==
  LET n == (IF a.window > 0 THEN a.fails ELSE 0) + 1
  IN  [a EXCEPT !.window = FailWindow,
                !.fails = IF n > MaxFails THEN 0 ELSE n,
                !.lock = IF n > MaxFails THEN LockTime ELSE @]
CountUndated(a) ==
  LET n == (IF a.window > 0 THEN a.fails ELSE 0) + 1
  IN  [a EXCEPT !.fails = IF n >= MaxFails THEN 0 ELSE n,
                !.lock = IF n >= MaxFails THEN LockTime ELSE @]

\* The failed sign-in a, with its failure counted.
CountFailure(a) ==
  LET n == (IF a.window > 0 THEN a.fails ELSE 0) + 1
  IN  [a EXCEPT !.window = FailWindow,
                !.fails = IF n >= MaxFails THEN 0 ELSE n,
                !.lock = IF n >= MaxFails THEN LockTime ELSE @]

\* A bug to be caught: sleeps of different lengths, so that any may end first.
LoginFailsInAnyOrder ==
  /\ asleep # <<>>
  /\ write["server"] = NoWrite
  /\ \E i \in 1..Len(asleep) :
       /\ file' = CountFailure(asleep[i])
       /\ asleep' = SubSeq(asleep, 1, i - 1) \o SubSeq(asleep, i + 1, Len(asleep))
  /\ badRun' = IF file'.lock > 0 THEN 0
               ELSE IF badRun < MaxFails THEN badRun + 1 ELSE badRun
  /\ UNCHANGED <<write, issued, chosen, password, ended>>

\* The sleep of a failed sign-in ends.
LoginFails ==
  /\ asleep # <<>>
  /\ write["server"] = NoWrite
  /\ file' = CountFailure(Head(asleep))
  /\ asleep' = Tail(asleep)
  /\ badRun' = IF file'.lock > 0 THEN 0
               ELSE IF badRun < MaxFails THEN badRun + 1 ELSE badRun
  /\ UNCHANGED <<write, issued, chosen, password, ended>>

\* The process dies while it sleeps or saves: before it opens the file, or
\* after it emptied it and before it filled it again (writeFileSync).
Killed(p) ==
  /\ Crashes
  /\ write[p] # NoWrite \/ (p = "server" /\ asleep # <<>>)
  /\ file' \in {file, Torn}
  /\ Prepare(p, NoWrite)
  /\ asleep' = IF p = "server" THEN <<>> ELSE asleep
  /\ UNCHANGED <<issued, chosen, password, ended, badRun>>

-----------------------------------------------------------------------------
Less(n) == IF n > 0 THEN n - 1 ELSE 0

\* A run of failures ends when the last one stops counting.
Tick ==
  /\ "tick" \in Ops /\ IsAuthInitialized
  /\ asleep = <<>> /\ \A p \in Process : write[p] = NoWrite
  /\ file' = [file EXCEPT !.window = Less(@), !.lock = Less(@),
       !.sessions = [t \in DOMAIN @ |-> [life |-> Less(@[t].life), idle |-> Less(@[t].idle)]]]
  /\ badRun' = IF file'.window = 0 THEN 0 ELSE badRun
  /\ UNCHANGED <<asleep, write, issued, chosen, password, ended>>

Next ==
  \/ SetupAuth \/ ResetPassword
  \/ LoginWrong \/ LoginRight \/ VerifyToken
  \/ \E t \in Token : Logout(t) \/ ChangePassword(t)
  \/ \E p \in Process : Save(p) \/ Killed(p)
  \/ LoginFails
  \/ Tick

Spec == Init /\ [][Next]_vars

-----------------------------------------------------------------------------
(* Properties.                                                             *)

\* The file is an account's, and holds exactly the sessions that were handed out
\* and have not ended: none comes back (revoke every other session), none is lost.
SessionsExact == TypeOK /\ (IsAuthInitialized => Tokens(file) = (1..issued) \ ended)

\* A session that was signed out or revoked stays so (auth.ts:231, cli.ts:65).
EndedStaysEnded == IsAuthInitialized => Tokens(file) \cap ended = {}

\* MaxFails failed sign-ins in a row lock the account (auth.ts:9).
LockoutThreshold == badRun < MaxFails

\* The password in force is the one whose setting was last reported done.
PasswordInForce == IsAuthInitialized => file.pw = password

\* A lockout is not undone by sign-ins that failed around it: it lasts its
\* time, as long as nobody signs in with the right password or resets it.
LockSticks == [][Locked => Locked' \/ (file.lock = 1 /\ Tick)]_vars

\* Wrong passwords that keep coming lock the account, however they overlap.
LiveSpec == Spec /\ WF_vars(SetupAuth) /\ WF_vars(LoginWrong) /\ WF_vars(LoginFails)
            /\ \A p \in Process : WF_vars(Save(p))
EventuallyLocked == <>Locked
=============================================================================

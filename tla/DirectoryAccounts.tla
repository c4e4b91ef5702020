------------------------- MODULE DirectoryAccounts -------------------------
(***************************************************************************)
(* Accounts made in the domain through the control plane.  To add a user   *)
(* takes three requests to the directory, and between any two of them      *)
(* other operators add, change and delete accounts, and requests fail      *)
(* (directory/ldap.ts, routes/directory.ts).  The directory itself is      *)
(* external: a new account is off and stays off while it has no password.  *)
(***************************************************************************)
EXTENDS Naturals, FiniteSets

CONSTANTS Names, Adds, NoUser, Operator, NoPassword

ASSUME AccountsAssumption ==
  NoUser \notin Names /\ Operator \notin Adds /\ NoPassword \notin Adds \union {Operator}

VARIABLES
  users,      \* the accounts of the domain
  adding,     \* each call of addUser: for whom, what was asked, how far it is
  disturbed   \* calls whose account others changed, or that swallowed a failure

accountVars == <<users, adding, disturbed>>

\* Whose password it has, and which call made it.
User == [by : Adds, password : Adds \union {Operator, NoPassword}, on : BOOLEAN]
ASSUME NoUserAssumption == NoUser \notin User
At == {"idle", "add", "password", "enable", "done", "failed"}
Call == [name : Names \union {NoUser}, password : BOOLEAN, on : BOOLEAN, at : At]

AccountsInit ==
  /\ users = [n \in Names |-> NoUser]
  /\ adding = [a \in Adds |-> [name |-> NoUser, password |-> FALSE, on |-> FALSE, at |-> "idle"]]
  /\ disturbed = {}

Exists(n) == users[n] # NoUser

-----------------------------------------------------------------------------
AddUser(a, n, password, on) ==
  /\ adding[a].at = "idle"
  /\ adding' = [adding EXCEPT ![a] = [name |-> n, password |-> password, on |-> on, at |-> "add"]]
  /\ UNCHANGED <<users, disturbed>>

\* A bug to be caught: the account is enabled before it has its password.
NextOf(c) == IF c.at = "add" /\ c.password THEN "password"
             ELSE IF c.at \in {"add", "password"} THEN "enable" ELSE "done"
EnabledFirst(c) == CASE c.at = "add" -> "enable"
                     [] c.at = "enable" /\ c.password -> "password"
                     [] OTHER -> "done"

Step(c) == NextOf(c)

\* c.add: refused when there is an account of that name, and then the call ends.
\* An answer that is lost ends it, too, with the account made.
Added(a) ==
  LET c == adding[a]
  IN  /\ c.at = "add"
      /\ \/ /\ ~Exists(c.name)
            /\ users' = [users EXCEPT ![c.name] = [by |-> a, password |-> NoPassword, on |-> FALSE]]
            /\ \E at \in {Step(c), "failed"} : adding' = [adding EXCEPT ![a].at = at]
         \/ /\ UNCHANGED users
            /\ adding' = [adding EXCEPT ![a].at = "failed"]
      /\ UNCHANGED disturbed

\* setPassword, whose failure is swallowed.  The name may be another account's by
\* now, if this call's was deleted.
PasswordSet(a) ==
  LET c == adding[a]
  IN  /\ c.at = "password"
      /\ \/ /\ Exists(c.name)
            /\ users' = [users EXCEPT ![c.name].password = a]
            /\ disturbed' = disturbed \union ({users[c.name].by} \ {a})
         \/ UNCHANGED users /\ disturbed' = disturbed \union {a}
      /\ adding' = [adding EXCEPT ![a].at = Step(c)]

\* What the directory makes of a request to enable or disable.
Allowed(n, on) == Exists(n) /\ (on => users[n].password # NoPassword)

\* setEnabled, whose failure is swallowed.
EnabledSet(a) ==
  LET c == adding[a]
  IN  /\ c.at = "enable"
      /\ \/ /\ Allowed(c.name, c.on)
            /\ users' = [users EXCEPT ![c.name].on = c.on]
            /\ disturbed' = disturbed \union ({users[c.name].by} \ {a})
         \/ /\ ~Allowed(c.name, c.on) /\ UNCHANGED <<users, disturbed>>
         \/ UNCHANGED users /\ disturbed' = disturbed \union {a}
      /\ adding' = [adding EXCEPT ![a].at = Step(c)]

\* Another operator's edit disturbs the calls at work on the account or done with it.
Disturbs(n) == disturbed' = disturbed \union {a \in Adds : adding[a].name = n}

SetPassword(n) ==
  /\ Exists(n) /\ users' = [users EXCEPT ![n].password = Operator]
  /\ Disturbs(n) /\ UNCHANGED adding

SetEnabled(n, on) ==
  /\ Allowed(n, on) /\ users' = [users EXCEPT ![n].on = on]
  /\ Disturbs(n) /\ UNCHANGED adding

DeleteUser(n) ==
  /\ Exists(n) /\ users' = [users EXCEPT ![n] = NoUser]
  /\ Disturbs(n) /\ UNCHANGED adding

AccountsNext ==
  \/ \E a \in Adds : \/ \E n \in Names, p, on \in BOOLEAN : AddUser(a, n, p, on)
                     \/ Added(a) \/ PasswordSet(a) \/ EnabledSet(a)
  \/ \E n \in Names : SetPassword(n) \/ DeleteUser(n) \/ \E on \in BOOLEAN : SetEnabled(n, on)

-----------------------------------------------------------------------------
(* Properties.                                                             *)

\* Two operators who add the same name at once do not get into each other's way:
\* an account has the password of the call that made it, or one set on purpose, and
\* a call that reports success has made what it was asked for, on when it has a
\* password (unless others changed the account, or a failure was swallowed).
AddedAsAsked ==
  \A a \in Adds \ disturbed :
    /\ \A n \in Names : Exists(n) /\ users[n].password = a => users[n].by = a
    /\ adding[a].at = "done" =>
         LET c == adding[a]
         IN  users[c.name] = [by |-> a, password |-> IF c.password THEN a ELSE NoPassword,
                              on |-> c.on /\ c.password]
=============================================================================

-------------------------- MODULE DirectorySession --------------------------
(***************************************************************************)
(* The bind to a domain controller and the retained credentials:           *)
(* directory/ldap.ts and directory/session.ts.  connect and disconnect     *)
(* wait for the controller, nothing keeps two of them apart, and           *)
(* restoreSession is called at boot, when the routes already answer.  A    *)
(* call, and the client it makes, is named by a member of Calls.           *)
(***************************************************************************)
CONSTANTS Calls, NoCall, Accounts, NoAccount

ASSUME DirectoryAssumption == NoCall \notin Calls /\ NoAccount \notin Accounts

VARIABLES
  call,        \* each call under way: what it is, for whom, where it waits
  client,      \* the client in use, by the call that made it
  creds,       \* what shellCreds and topology take
  bound,       \* clients the controller holds a bound connection of
  file,        \* the account in directory-session.enc
  remembered,
  restoreDue,  \* the boot has not come to restoreSession yet
  wish,        \* history: the last thing an operator asked for
  tangled      \* history: calls overlapped, or a client was given up unclosed

directoryVars ==
  <<call, client, creds, bound, file, remembered, restoreDue, wish, tangled>>

NoWork == [at |-> "idle", by |-> "connect", account |-> NoAccount, keep |-> FALSE,
           old |-> NoCall]

Work == [at : {"idle", "unbinding", "binding"},
         by : {"connect", "restore", "disconnect"},
         account : Accounts \union {NoAccount}, keep : BOOLEAN,
         old : Calls \union {NoCall}]

Busy == {c \in Calls : call[c].at # "idle"}

DirectoryInit ==
  /\ call = [c \in Calls |-> NoWork]
  /\ client = NoCall /\ creds = NoAccount /\ bound = {}
  /\ file \in Accounts \union {NoAccount}
  /\ remembered = FALSE /\ restoreDue = TRUE
  /\ wish = "nothing" /\ tangled = FALSE

-----------------------------------------------------------------------------
ClearSession == file' = NoAccount /\ remembered' = FALSE

\* A bug to be caught: a client in use is replaced without being closed.
BeginAtOnce(c, work) ==
  /\ c \notin Busy \union bound \union {client}
  /\ tangled' = (tangled \/ Busy # {})
  /\ UNCHANGED <<client, creds, bound>>
  /\ call' = [call EXCEPT ![c] = [work EXCEPT !.at = "binding"]]

\* Up to the first await: a client in use is unbound first.
Begin(c, work) ==
  /\ c \notin Busy \union bound \union {client}
  /\ tangled' = (tangled \/ Busy # {})
  /\ UNCHANGED <<client, creds, bound>>
  /\ call' = [call EXCEPT ![c] =
                [work EXCEPT !.at = IF client # NoCall THEN "unbinding" ELSE "binding",
                             !.old = client]]

DirectoryConnect(c, account, keep) ==
  /\ Begin(c, [NoWork EXCEPT !.account = account, !.keep = keep])
  /\ wish' = "connected"
  /\ UNCHANGED <<file, remembered, restoreDue>>

\* With no client there is nothing to wait for, and what is in creds stays.
DirectoryDisconnect(c) ==
  /\ wish' = "disconnected"
  /\ UNCHANGED restoreDue
  /\ \/ /\ client # NoCall
        /\ Begin(c, [NoWork EXCEPT !.by = "disconnect"])
        /\ UNCHANGED <<file, remembered>>
     \/ /\ client = NoCall
        /\ ClearSession
        /\ tangled' = (tangled \/ Busy # {})
        /\ UNCHANGED <<call, client, creds, bound>>

RestoreSession(c) ==
  /\ restoreDue /\ restoreDue' = FALSE
  /\ UNCHANGED <<file, remembered, wish>>
  /\ \/ /\ file # NoAccount
        /\ Begin(c, [NoWork EXCEPT !.by = "restore", !.account = file, !.keep = TRUE])
     \/ file = NoAccount /\ UNCHANGED <<call, client, creds, bound, tangled>>

\* The unbind of the client found at the start has ended, well or not; the
\* client in use now is forgotten, the same one or another.
Unbound(c) ==
  /\ call[c].at = "unbinding"
  /\ bound' = bound \ {call[c].old}
  /\ client' = NoCall /\ creds' = NoAccount
  /\ UNCHANGED <<restoreDue, wish, tangled>>
  /\ \/ /\ call[c].by = "disconnect"
        /\ ClearSession
        /\ call' = [call EXCEPT ![c] = NoWork]
     \/ /\ call[c].by # "disconnect"
        /\ call' = [call EXCEPT ![c].at = "binding"]
        /\ UNCHANGED <<file, remembered>>

\* saveSession may fail, and leaves what was there; without "remember" the file
\* is removed.
Keep(account, keep) ==
  \/ keep /\ file' = account /\ remembered' = TRUE
  \/ keep /\ remembered' = FALSE /\ UNCHANGED file
  \/ ~keep /\ ClearSession

Binds(c) ==
  /\ call[c].at = "binding"
  /\ client' = c /\ creds' = call[c].account /\ bound' = bound \union {c}
  /\ Keep(call[c].account, call[c].keep)
  /\ call' = [call EXCEPT ![c] = NoWork]
  /\ UNCHANGED <<restoreDue, wish, tangled>>

\* A restore that fails, whatever the reason, forgets the retained session.
BindRefused(c) ==
  /\ call[c].at = "binding"
  /\ call' = [call EXCEPT ![c] = NoWork]
  /\ \/ call[c].by = "restore" /\ ClearSession
     \/ call[c].by # "restore" /\ UNCHANGED <<file, remembered>>
  /\ UNCHANGED <<client, creds, bound, restoreDue, wish, tangled>>

\* find met an error that looks like a lost connection: the client in use is
\* forgotten, and it only.  The connection may be gone, or it is open still: the
\* controller was unwilling, or the search was one of an earlier client.
Dropped ==
  /\ client # NoCall
  /\ client' = NoCall
  /\ \/ bound' = bound \ {client} /\ UNCHANGED tangled
     \/ tangled' = TRUE /\ UNCHANGED bound
  /\ UNCHANGED <<call, creds, file, remembered, restoreDue, wish>>

DirectoryRestart ==
  /\ call' = [c \in Calls |-> NoWork]
  /\ client' = NoCall /\ creds' = NoAccount /\ bound' = {}
  /\ remembered' = FALSE /\ restoreDue' = TRUE
  /\ wish' = "nothing" /\ tangled' = FALSE
  /\ UNCHANGED file

DirectoryNext ==
  \/ \E c \in Calls :
       \/ \E account \in Accounts, keep \in BOOLEAN : DirectoryConnect(c, account, keep)
       \/ DirectoryDisconnect(c)
       \/ RestoreSession(c)
       \/ Unbound(c)
       \/ Binds(c)
       \/ BindRefused(c)
  \/ Dropped
  \/ DirectoryRestart

DirectorySpec == DirectoryInit /\ [][DirectoryNext]_directoryVars

-----------------------------------------------------------------------------
DirectoryTypeOK ==
  /\ call \in [Calls -> Work]
  /\ client \in Calls \union {NoCall}
  /\ creds \in Accounts \union {NoAccount}
  /\ bound \subseteq Calls
  /\ file \in Accounts \union {NoAccount}
  /\ remembered \in BOOLEAN /\ restoreDue \in BOOLEAN /\ tangled \in BOOLEAN
  /\ wish \in {"nothing", "connected", "disconnected"}

\* However calls overlap: the retained session is the one in use.  After a
\* restart the operator is never bound silently to another domain than the one
\* that the page said is remembered.
RememberedIsInUse ==
  remembered => /\ file # NoAccount
                /\ client # NoCall => file = creds

\* "forget also wipes the retained session" (ldap.ts:166): when the operator has
\* disconnected and no call overlapped another, no password is left on disk, no
\* connection is left open, and a restore that is still to come finds nothing.
ForgottenForGood ==
  wish = "disconnected" /\ ~tangled /\ Busy = {}
    => file = NoAccount /\ ~remembered /\ client = NoCall /\ bound = {}

\* Calls that wait for one another leave one bound connection at most, and it is
\* the one in use, which a disconnect would close.
NoLostConnection == ~tangled => bound \subseteq {client}

\* Together: what is on disk, what is bound and what the operator asked for agree.
SessionKept == RememberedIsInUse /\ ForgottenForGood /\ NoLostConnection
=============================================================================

---------------------------- MODULE Console_proofs ----------------------------
(***************************************************************************)
(* What is proved of the part the operator meets (MCConsole).              *)
(***************************************************************************)
EXTENDS MCConsole, FiniteSetTheorems, TLAPS

-----------------------------------------------------------------------------
(* The account, one operation at a time.                                   *)

\* The failures that still count.
Counted(a) == IF a.window > 0 THEN a.fails ELSE 0

\* What is to be saved: it is true of the file when the save is made.
WriteGood(w) ==
  /\ Tokens(w.rec) = (1 .. issued \union {w.token}) \ ({0} \union ended \union (w.ends \cap 1 .. issued))
  /\ w.rec.pw = IF w.sets > 0 THEN w.sets ELSE password
  /\ w.token > 0 => w.token = issued + 1
  /\ w.rec.fails < MaxFails
  /\ ~w.clears => Counted(w.rec) >= badRun

\* The inductive invariant while one operation runs at a time.
AccountInv ==
  /\ SessionsExact /\ LockoutThreshold /\ PasswordInForce
  /\ ended \subseteq 1 .. issued
  /\ IsAuthInitialized => file.fails < MaxFails /\ Counted(file) >= badRun
  /\ asleep # << >> => /\ asleep = << file >> /\ IsAuthInitialized
                       /\ file.lock = 0 /\ \A p \in Process : write[p] = NoWrite
  /\ \A p \in Process : write[p] # NoWrite => WriteGood(write[p]) /\ write[p].sets <= chosen
  /\ \A p, q \in Process : write[p] # NoWrite /\ write[q] # NoWrite => p = q

LEMMA InitAccount == Init => AccountInv
<1> SUFFICES ASSUME Init PROVE AccountInv
  OBVIOUS
<1>1. TypeOK
  <2>1. asleep \in Seq(Account) /\ Len(asleep) = 0 /\ 0 <= MaxAsleep
    BY BoundsAssumption DEF Init
  <2> QED BY <2>1, BoundsAssumption DEF Init, TypeOK
<1> QED BY <1>1, BoundsAssumption DEF Init, AccountInv, SessionsExact, LockoutThreshold, PasswordInForce,
        IsAuthInitialized

\* A record of an account is none of the other two.
LEMMA AccountIsFile ==
  /\ \A a \in Account : a.kind = "account" /\ a # None /\ a # Torn
  /\ \A w \in Write : w.kind = "save" /\ w # NoWrite
BY DEF Account, Write, None, Torn, NoWrite

\* Dropping sessions drops nothing else.
LEMMA OnlyIs ==
  ASSUME NEW a \in Account, NEW S
  PROVE  /\ Only(a, S) \in Account
         /\ Tokens(Only(a, S)) = Tokens(a) \cap S
         /\ \A t \in Tokens(a) \cap S : Only(a, S).sessions[t] = a.sessions[t]
         /\ Only(a, S).pw = a.pw /\ Only(a, S).fails = a.fails
         /\ Only(a, S).window = a.window /\ Only(a, S).lock = a.lock
<1>1. PICK D \in SUBSET Token : a.sessions \in [D -> Session]
  BY DEF Account, Sessions
<1> DEFINE f == [t \in Tokens(a) \cap S |-> a.sessions[t]]
<1>2. Tokens(a) = D
  BY <1>1 DEF Tokens
<1>3. f \in [D \cap S -> Session] /\ D \cap S \in SUBSET Token
  BY <1>1, <1>2
<1>4. f \in Sessions
  BY <1>3 DEF Sessions
<1>5. Only(a, S) = [a EXCEPT !.sessions = f]
  BY DEF Only
<1> HIDE DEF f
<1>6. Only(a, S) \in Account /\ Only(a, S).sessions = f
      /\ Only(a, S).pw = a.pw /\ Only(a, S).fails = a.fails
      /\ Only(a, S).window = a.window /\ Only(a, S).lock = a.lock
  BY <1>4, <1>5 DEF Account
<1> QED BY <1>2, <1>3, <1>6 DEF Tokens, f

\* An operation up to its save: what it will save is true of the file at hand, and
\* nothing else is under way.
LEMMA PrepareKeeps ==
  ASSUME AccountInv, ~Overlap, NEW p \in Process, NEW op, MayStart(p, op),
         NEW w \in Write, WriteGood(w), w.sets <= chosen', Prepare(p, w),
         chosen' \in chosen .. MaxPassword,
         UNCHANGED <<file, asleep, issued, password, ended, badRun>>
  PROVE  AccountInv'
<1> USE DEF AccountInv
<1>1. asleep = << >> /\ \A q \in Process : write[q] = NoWrite
  BY DEF MayStart
<1>2. write' \in [Process -> Write \union {NoWrite}] /\ write'[p] = w
      /\ \A q \in Process \ {p} : write'[q] = NoWrite
  BY <1>1 DEF Prepare, SessionsExact, TypeOK
<1>3. TypeOK'
  <2>1. chosen \in Nat /\ password \in Nat /\ chosen' \in 0 .. MaxPassword /\ password \in 0 .. chosen'
    BY BoundsAssumption DEF SessionsExact, TypeOK
  <2> QED BY <1>2, <2>1 DEF SessionsExact, TypeOK
<1>4. (SessionsExact /\ LockoutThreshold /\ PasswordInForce)'
  BY <1>3 DEF SessionsExact, LockoutThreshold, PasswordInForce, IsAuthInitialized
<1>5. \A q \in Process : write'[q] # NoWrite => q = p /\ WriteGood(w)' /\ write'[q].sets <= chosen'
  BY <1>2 DEF WriteGood
<1> QED BY <1>1, <1>2, <1>4, <1>5 DEF WriteGood, IsAuthInitialized

LEMMA SetupKeeps ==
  ASSUME AccountInv, ~Overlap, SetupAuth
  PROVE  AccountInv'
<1> DEFINE a == [kind |-> "account", pw |-> chosen', sessions |-> << >>,
                 fails |-> 0, window |-> 0, lock |-> 0]
           w == [kind |-> "save", rec |-> a, token |-> 0, ends |-> 1 .. issued,
                 sets |-> chosen', clears |-> TRUE]
<1>1. chosen \in Nat /\ issued \in 0 .. MaxTokens /\ ended \subseteq 1 .. issued
  BY DEF AccountInv, SessionsExact, TypeOK
<1>2. chosen' = chosen + 1 /\ chosen' \in 1 .. MaxPassword /\ chosen' \in chosen .. MaxPassword
  BY <1>1, BoundsAssumption DEF SetupAuth, ChooseNew
<1>3. a \in Account
  <2>1. << >> \in Sessions
    BY DEF Sessions
  <2> QED BY <1>2, <2>1, BoundsAssumption DEF Account
<1>4. w \in Write
  BY <1>1, <1>2, <1>3, BoundsAssumption DEF Write, Token
<1>5. WriteGood(w)
  <2>1. Tokens(w.rec) = {}
    BY DEF Tokens
  <2> QED BY <1>1, <1>2, <2>1, BoundsAssumption DEF WriteGood
<1>6. /\ MayStart("cli", "setup") /\ Prepare("cli", w)
      /\ UNCHANGED <<file, asleep, issued, password, ended, badRun>>
  BY DEF SetupAuth
<1>7. w.sets <= chosen'
  BY <1>2
<1> HIDE DEF w
<1> QED BY <1>2, <1>4, <1>5, <1>6, <1>7, PrepareKeeps DEF Process

\* What a reset writes is an account.
LEMMA ResetType ==
  ASSUME NEW a \in Account, NEW x \in Sessions, NEW y \in 0 .. MaxPassword,
         NEW z \in 0 .. MaxFails, NEW l \in 0 .. LockTime
  PROVE  [a EXCEPT !.pw = y, !.sessions = x, !.fails = z, !.lock = l] \in Account
BY DEF Account

LEMMA ResetKeeps ==
  ASSUME AccountInv, ~Overlap, ResetPassword
  PROVE  AccountInv'
<1> DEFINE a == [file EXCEPT !.pw = chosen', !.sessions = << >>, !.fails = 0, !.lock = 0]
           w == [kind |-> "save", rec |-> a, token |-> 0, ends |-> Token,
                 sets |-> chosen', clears |-> TRUE]
<1>1. chosen \in Nat /\ issued \in 0 .. MaxTokens /\ ended \subseteq 1 .. issued /\ file \in Account
  BY DEF AccountInv, SessionsExact, TypeOK, ResetPassword, IsAuthInitialized
<1>2. chosen' = chosen + 1 /\ chosen' \in 1 .. MaxPassword /\ chosen' \in chosen .. MaxPassword
  BY <1>1, BoundsAssumption DEF ResetPassword, ChooseNew
<1>3. a \in Account /\ a.sessions = << >> /\ a.pw = chosen' /\ a.fails = 0
  <2>1. << >> \in Sessions
    BY DEF Sessions
  <2>2. 0 \in 0 .. MaxFails /\ 0 \in 0 .. LockTime /\ chosen' \in 0 .. MaxPassword
    BY <1>2, BoundsAssumption
  <2>3. file \in Account
    BY <1>1
  <2>4. a \in Account
    BY <2>1, <2>2, <2>3, ResetType
  <2>5. a.sessions = << >> /\ a.pw = chosen' /\ a.fails = 0
    BY <2>3 DEF Account
  <2> QED BY <2>4, <2>5
<1>4. w \in Write
  BY <1>1, <1>2, <1>3, BoundsAssumption DEF Write
<1>5. WriteGood(w)
  <2>1. Tokens(a) = {}
    <3> HIDE DEF a
    <3> QED BY <1>3 DEF Tokens
  <2>2. 1 .. issued \subseteq Token
    BY <1>1, BoundsAssumption DEF Token
  <2>3. w.rec = a /\ w.token = 0 /\ w.ends = Token /\ w.sets = chosen' /\ w.clears = TRUE
    OBVIOUS
  <2> HIDE DEF w, a
  <2>4. (1 .. issued \union {0}) \ ({0} \union ended \union (Token \cap 1 .. issued)) = {}
    BY <2>2
  <2> QED BY <1>1, <1>2, <1>3, <2>1, <2>3, <2>4, BoundsAssumption DEF WriteGood
<1>6. /\ MayStart("cli", "reset") /\ Prepare("cli", w)
      /\ UNCHANGED <<file, asleep, issued, password, ended, badRun>>
  BY DEF ResetPassword
<1>7. w.sets <= chosen'
  BY <1>2
<1> HIDE DEF w
<1> QED BY <1>2, <1>4, <1>5, <1>6, <1>7, PrepareKeeps DEF Process

\* What a sign-in writes, before the sessions that are over are left out.
LEMMA SignedInType ==
  ASSUME NEW a \in Account, NEW x \in Sessions, NEW z \in 0 .. MaxFails, NEW l \in 0 .. LockTime
  PROVE  [a EXCEPT !.sessions = x, !.fails = z, !.lock = l] \in Account
BY DEF Account

\* The new session is among the newest.
LEMMA LoginRightKeeps ==
  ASSUME AccountInv, ~Overlap, LoginRight
  PROVE  AccountInv'
<1> DEFINE new == issued + 1
           b == [file EXCEPT !.sessions = WithNew(new), !.fails = 0, !.lock = 0]
           S == {t \in LiveTokens(b) : Cardinality({u \in LiveTokens(b) : u > t}) < MaxSessions}
           rec == PruneSessions(b)
           w == [kind |-> "save", rec |-> rec, token |-> new,
                 ends |-> Tokens(file) \ Tokens(rec), sets |-> 0, clears |-> TRUE]
<1>1. /\ chosen \in 0 .. MaxPassword /\ issued \in 0 .. MaxTokens /\ ended \subseteq 1 .. issued
      /\ file \in Account /\ IsAuthInitialized /\ file.pw = password
      /\ issued < MaxTokens /\ Tokens(file) = (1 .. issued) \ ended
  BY DEF AccountInv, SessionsExact, PasswordInForce, TypeOK, LoginRight, IsAuthInitialized
<1>2. /\ MayStart("server", "right") /\ Prepare("server", w)
      /\ UNCHANGED <<file, asleep, issued, chosen, password, ended, badRun>>
  BY DEF LoginRight
<1>3. new \in Token /\ new \notin 1 .. issued /\ new \in Nat
  BY <1>1, BoundsAssumption DEF Token
<1>4. PICK D \in SUBSET Token : file.sessions \in [D -> Session]
  BY <1>1 DEF Account, Sessions
<1>5. WithNew(new) \in [D \union {new} -> Session]
      /\ WithNew(new)[new] = [life |-> Lifetime, idle |-> IdleTime]
  <2>1. [life |-> Lifetime, idle |-> IdleTime] \in Session
    BY BoundsAssumption DEF Session
  <2> QED BY <1>4, <2>1 DEF WithNew, Tokens
<1>6. WithNew(new) \in Sessions
  BY <1>3, <1>4, <1>5 DEF Sessions
<1>7. b \in Account
  <2>1. 0 \in 0 .. MaxFails /\ 0 \in 0 .. LockTime
    BY BoundsAssumption
  <2> QED BY <1>1, <1>6, <2>1, SignedInType
<1>8. b.sessions = WithNew(new) /\ b.pw = file.pw /\ b.fails = 0
  BY <1>1 DEF Account
<1> HIDE DEF b
<1>9. Tokens(b) = Tokens(file) \union {new}
  BY <1>4, <1>5, <1>8 DEF Tokens
<1>10. new \in S
  <2>1. new \in LiveTokens(b)
    BY <1>5, <1>8, <1>9, BoundsAssumption DEF LiveTokens, Live
  <2>2. {u \in LiveTokens(b) : u > new} = {}
    BY <1>1, <1>3, <1>9 DEF LiveTokens
  <2>3. Cardinality({u \in LiveTokens(b) : u > new}) = 0
    BY <2>2, FS_EmptySet
  <2> QED BY <2>1, <2>3, BoundsAssumption
<1>11. rec = Only(b, S)
  BY DEF PruneSessions
<1> HIDE DEF S
<1>12. /\ rec \in Account /\ Tokens(rec) = Tokens(b) \cap S
       /\ rec.pw = b.pw /\ rec.fails = b.fails
  BY <1>7, <1>11, OnlyIs
<1> HIDE DEF rec
<1>13. w \in Write
  <2>1. Tokens(file) \subseteq Token
    BY <1>4 DEF Tokens
  <2>2. new \in 0 .. MaxTokens /\ 0 \in 0 .. MaxPassword
    BY <1>1, BoundsAssumption
  <2> QED BY <1>12, <2>1, <2>2 DEF Write
<1>14. WriteGood(w)
  <2>1. w.rec = rec /\ w.token = new /\ w.ends = Tokens(file) \ Tokens(rec) /\ w.sets = 0 /\ w.clears
    OBVIOUS
  <2>2. Tokens(rec) = (1 .. issued \union {new})
                        \ ({0} \union ended \union ((Tokens(file) \ Tokens(rec)) \cap 1 .. issued))
    BY <1>1, <1>3, <1>9, <1>10, <1>12
  <2>3. rec.pw = password /\ rec.fails < MaxFails
    BY <1>1, <1>8, <1>12, BoundsAssumption
  <2> HIDE DEF w
  <2> QED BY <1>1, <2>1, <2>2, <2>3 DEF WriteGood
<1>15. w.sets <= chosen' /\ chosen' \in chosen .. MaxPassword
  BY <1>1, <1>2
<1> HIDE DEF w
<1> QED BY <1>2, <1>13, <1>14, <1>15, PrepareKeeps DEF Process

\* A save that keeps the password and the failures, and ends some sessions.
LEMMA KeptIsGood ==
  ASSUME AccountInv, IsAuthInitialized, NEW w \in Write,
         w.token = 0, w.sets = 0, ~w.clears,
         Tokens(w.rec) = Tokens(file) \ w.ends, w.rec.pw = file.pw,
         w.rec.fails = file.fails, w.rec.window = file.window
  PROVE  WriteGood(w)
<1>1. issued \in Nat /\ Tokens(file) = (1 .. issued) \ ended /\ file.pw = password
  BY DEF AccountInv, SessionsExact, PasswordInForce, TypeOK
<1>2. file.fails < MaxFails /\ Counted(w.rec) >= badRun
  BY DEF AccountInv, Counted
<1>3. Tokens(w.rec) = (1 .. issued \union {w.token}) \ ({0} \union ended \union (w.ends \cap 1 .. issued))
  BY <1>1
<1> QED BY <1>1, <1>2, <1>3 DEF WriteGood

LEMMA VerifyKeeps ==
  ASSUME AccountInv, ~Overlap, VerifyToken
  PROVE  AccountInv'
<1>1. PICK t \in LiveTokens(file) :
        Prepare("server", [kind |-> "save", rec |-> [file EXCEPT !.sessions[t].idle = IdleTime],
                           token |-> 0, ends |-> {}, sets |-> 0, clears |-> FALSE])
  BY DEF VerifyToken
<1> DEFINE x == [file.sessions EXCEPT ![t].idle = IdleTime]
           rec == [file EXCEPT !.sessions = x]
           w == [kind |-> "save", rec |-> rec, token |-> 0, ends |-> {}, sets |-> 0, clears |-> FALSE]
<1>2. /\ MayStart("server", "verify") /\ IsAuthInitialized
      /\ UNCHANGED <<file, asleep, issued, chosen, password, ended, badRun>>
  BY DEF VerifyToken
<1>3. chosen \in 0 .. MaxPassword /\ file \in Account
  BY <1>2 DEF AccountInv, SessionsExact, TypeOK, IsAuthInitialized
<1>4. PICK D \in SUBSET Token : file.sessions \in [D -> Session]
  BY <1>3 DEF Account, Sessions
<1>5. x \in [D -> Session]
  <2>1. t \in D
    BY <1>4 DEF LiveTokens, Tokens
  <2>2. file.sessions[t] \in Session
    BY <1>4, <2>1
  <2>3. [file.sessions[t] EXCEPT !.idle = IdleTime] \in Session
    BY <2>2, BoundsAssumption DEF Session
  <2> QED BY <1>4, <2>1, <2>3
<1>6. x \in Sessions
  BY <1>4, <1>5 DEF Sessions
<1>7. Prepare("server", w)
  BY <1>1
<1> HIDE DEF x
<1>8. rec \in Account /\ rec.sessions = x /\ rec.pw = file.pw
      /\ rec.fails = file.fails /\ rec.window = file.window
  BY <1>3, <1>6 DEF Account
<1>9. Tokens(rec) = Tokens(file)
  BY <1>4, <1>5, <1>8 DEF Tokens
<1> HIDE DEF rec
<1>10. w \in Write
  BY <1>8, BoundsAssumption DEF Write
<1>11. /\ w.rec = rec /\ w.token = 0 /\ w.sets = 0 /\ ~w.clears /\ w.ends = {}
  OBVIOUS
<1> HIDE DEF w
<1>12. WriteGood(w)
  BY <1>2, <1>8, <1>9, <1>10, <1>11, KeptIsGood
<1> QED BY <1>2, <1>3, <1>7, <1>10, <1>11, <1>12, PrepareKeeps DEF Process

LEMMA LogoutKeeps ==
  ASSUME AccountInv, ~Overlap, NEW t \in Token, Logout(t)
  PROVE  AccountInv'
<1> DEFINE rec == Without(file, {t})
           w == [kind |-> "save", rec |-> rec, token |-> 0, ends |-> {t}, sets |-> 0, clears |-> FALSE]
<1>1. /\ MayStart("server", "logout") /\ IsAuthInitialized /\ Prepare("server", w)
      /\ UNCHANGED <<file, asleep, issued, chosen, password, ended, badRun>>
  BY DEF Logout
<1>2. chosen \in 0 .. MaxPassword /\ file \in Account
  BY <1>1 DEF AccountInv, SessionsExact, TypeOK, IsAuthInitialized
<1>3. Tokens(file) \subseteq Token
  BY <1>2 DEF Account, Sessions, Tokens
<1>4. /\ rec \in Account /\ Tokens(rec) = Tokens(file) \ {t}
      /\ rec.pw = file.pw /\ rec.fails = file.fails /\ rec.window = file.window
  BY <1>2, <1>3, OnlyIs DEF Without
<1> HIDE DEF rec
<1>5. w \in Write
  BY <1>4, BoundsAssumption DEF Write
<1>6. /\ w.rec = rec /\ w.token = 0 /\ w.sets = 0 /\ ~w.clears /\ w.ends = {t}
  OBVIOUS
<1> HIDE DEF w
<1>7. WriteGood(w)
  BY <1>1, <1>4, <1>5, <1>6, KeptIsGood
<1> QED BY <1>1, <1>2, <1>5, <1>6, <1>7, PrepareKeeps DEF Process

LEMMA ChangeKeeps ==
  ASSUME AccountInv, ~Overlap, NEW t \in Token, ChangePassword(t)
  PROVE  AccountInv'
<1> DEFINE b == Without(file, Tokens(file) \ {t})
           rec == [b EXCEPT !.pw = chosen']
           w == [kind |-> "save", rec |-> rec, token |-> 0, ends |-> 1 .. issued \ {t},
                 sets |-> chosen', clears |-> FALSE]
<1>1. /\ MayStart("server", "change") /\ IsAuthInitialized /\ Prepare("server", w)
      /\ t \in Tokens(file)
      /\ UNCHANGED <<file, asleep, issued, password, ended, badRun>>
  BY DEF ChangePassword, LiveTokens
<1>2. /\ chosen \in 0 .. MaxPassword /\ file \in Account /\ issued \in 0 .. MaxTokens
      /\ Tokens(file) = (1 .. issued) \ ended
  BY <1>1 DEF AccountInv, SessionsExact, TypeOK, IsAuthInitialized
<1>3. chosen' = chosen + 1 /\ chosen' \in 1 .. MaxPassword /\ chosen' \in chosen .. MaxPassword
  BY <1>2, BoundsAssumption DEF ChangePassword, ChooseNew
<1>4. Tokens(file) \subseteq Token
  BY <1>2 DEF Account, Sessions, Tokens
<1>5. /\ b \in Account /\ Tokens(b) = {t}
      /\ b.fails = file.fails /\ b.window = file.window
  BY <1>1, <1>2, <1>4, OnlyIs DEF Without
<1> HIDE DEF b
<1>6. rec \in Account /\ rec.pw = chosen' /\ rec.sessions = b.sessions
      /\ rec.fails = b.fails /\ rec.window = b.window
  BY <1>3, <1>5 DEF Account
<1>7. Tokens(rec) = {t}
  BY <1>5, <1>6 DEF Tokens
<1> HIDE DEF rec
<1>8. w \in Write
  <2>1. 1 .. issued \ {t} \subseteq Token
    BY <1>2, BoundsAssumption DEF Token
  <2> QED BY <1>3, <1>6, <2>1, BoundsAssumption DEF Write
<1>9. /\ w.rec = rec /\ w.token = 0 /\ w.sets = chosen' /\ ~w.clears /\ w.ends = 1 .. issued \ {t}
  OBVIOUS
<1> HIDE DEF w
<1>10. WriteGood(w)
  <2>1. file.fails < MaxFails /\ Counted(w.rec) >= badRun
    BY <1>1, <1>5, <1>6, <1>9 DEF AccountInv, Counted
  <2>2. {t} = (1 .. issued \union {0}) \ ({0} \union ended \union ((1 .. issued \ {t}) \cap 1 .. issued))
    BY <1>1, <1>2
  <2> QED BY <1>3, <1>5, <1>6, <1>7, <1>9, <2>1, <2>2 DEF WriteGood
<1> QED BY <1>1, <1>3, <1>8, <1>9, <1>10, PrepareKeeps DEF Process

LEMMA LoginWrongKeeps ==
  ASSUME AccountInv, ~Overlap, LoginWrong
  PROVE  AccountInv'
<1> USE DEF AccountInv
<1>1. /\ asleep = << >> /\ asleep' = Append(asleep, file) /\ \A p \in Process : write[p] = NoWrite
      /\ IsAuthInitialized /\ ~Locked /\ Len(asleep) < MaxAsleep
      /\ UNCHANGED <<file, write, issued, chosen, password, ended, badRun>>
  BY DEF LoginWrong, MayStart
<1>2. file \in Account /\ file.lock = 0
  BY <1>1 DEF SessionsExact, TypeOK, IsAuthInitialized, Locked, Account
<1>3. asleep' = << file >> /\ asleep' \in Seq(Account) /\ Len(asleep') = 1
  BY <1>1, <1>2
<1>4. 1 <= MaxAsleep
  BY <1>1, BoundsAssumption
<1>5. TypeOK'
  BY <1>1, <1>3, <1>4 DEF SessionsExact, TypeOK
<1> QED
  BY <1>1, <1>2, <1>3, <1>5 DEF SessionsExact, LockoutThreshold, PasswordInForce, IsAuthInitialized, WriteGood

\* The failure is counted on the file that was read, which is still the file.
LEMMA LoginFailsKeeps ==
  ASSUME AccountInv, ~Overlap, LoginFails
  PROVE  AccountInv'
<1> USE DEF AccountInv
<1>1. /\ asleep = << file >> /\ IsAuthInitialized /\ file.lock = 0
      /\ \A p \in Process : write[p] = NoWrite
  BY DEF LoginFails
<1>2. /\ file' = CountFailure(file) /\ asleep' = << >>
      /\ UNCHANGED <<write, issued, chosen, password, ended>>
  BY <1>1 DEF LoginFails
<1>3. file \in Account /\ badRun \in 0 .. MaxFails /\ file.fails < MaxFails /\ Counted(file) >= badRun
  BY <1>1 DEF SessionsExact, TypeOK, IsAuthInitialized
<1> DEFINE n == Counted(file) + 1
<1>4. Counted(file) \in 0 .. MaxFails - 1 /\ n \in 1 .. MaxFails
  BY <1>3, BoundsAssumption DEF Counted, Account
<1>5. file' = [file EXCEPT !.window = FailWindow,
                           !.fails = IF n >= MaxFails THEN 0 ELSE n,
                           !.lock = IF n >= MaxFails THEN LockTime ELSE @]
  BY <1>2 DEF CountFailure, Counted
<1> HIDE DEF n
<1>6. (IF n >= MaxFails THEN 0 ELSE n) \in 0 .. MaxFails - 1
  BY <1>4, BoundsAssumption
<1>7. /\ file'.pw = file.pw /\ file'.sessions = file.sessions /\ file'.window = FailWindow
      /\ file'.fails = (IF n >= MaxFails THEN 0 ELSE n)
      /\ file'.lock = (IF n >= MaxFails THEN LockTime ELSE 0)
  BY <1>1, <1>3, <1>5 DEF Account
<1>8. file' \in Account
  <2>1. \A x \in 0 .. FailWindow, z \in 0 .. MaxFails, l \in 0 .. LockTime :
          [file EXCEPT !.window = x, !.fails = z, !.lock = l] \in Account
    BY <1>3 DEF Account
  <2>2. FailWindow \in 0 .. FailWindow /\ (IF n >= MaxFails THEN 0 ELSE n) \in 0 .. MaxFails
    BY <1>6, BoundsAssumption
  <2>3. (IF n >= MaxFails THEN LockTime ELSE file.lock) \in 0 .. LockTime
    BY <1>1, BoundsAssumption
  <2> QED BY <1>5, <2>1, <2>2, <2>3
<1>9. badRun' < MaxFails /\ badRun' \in 0 .. MaxFails /\ Counted(file') >= badRun'
  <2>1. badRun' = IF file'.lock > 0 THEN 0 ELSE IF badRun < MaxFails THEN badRun + 1 ELSE badRun
    BY DEF LoginFails
  <2>2. CASE n >= MaxFails
    <3>1. file'.lock > 0 /\ badRun' = 0
      BY <1>7, <2>1, <2>2, BoundsAssumption
    <3> QED BY <1>6, <1>7, <3>1, BoundsAssumption DEF Counted
  <2>3. CASE ~(n >= MaxFails)
    <3>1. file'.lock = 0 /\ badRun' \in {badRun, badRun + 1} /\ file'.fails = n
      BY <1>7, <2>1, <2>3
    <3>2. Counted(file') = n /\ n >= badRun + 1
      BY <1>3, <1>4, <1>7, <3>1, BoundsAssumption DEF Counted, n
    <3> QED BY <1>3, <1>4, <2>3, <3>1, <3>2, BoundsAssumption
  <2> QED BY <2>2, <2>3
<1>10. TypeOK'
  <2>1. asleep' \in Seq(Account) /\ Len(asleep') = 0 /\ 0 <= MaxAsleep
    BY <1>2, BoundsAssumption
  <2> QED BY <1>2, <1>8, <1>9, <2>1 DEF SessionsExact, TypeOK
<1>11. Tokens(file') = Tokens(file) /\ IsAuthInitialized'
  BY <1>1, <1>7, <1>8, AccountIsFile DEF Tokens, IsAuthInitialized
<1>12. file'.fails < MaxFails
  BY <1>6, <1>7, BoundsAssumption
<1>13. (SessionsExact /\ LockoutThreshold /\ PasswordInForce)'
  BY <1>1, <1>2, <1>7, <1>9, <1>10, <1>11
     DEF SessionsExact, LockoutThreshold, PasswordInForce, Tokens
<1> QED BY <1>1, <1>2, <1>9, <1>11, <1>12, <1>13

\* What was true of the file when the save was prepared is true of it now.
LEMMA SaveKeeps ==
  ASSUME AccountInv, NEW p \in Process, Save(p)
  PROVE  AccountInv'
<1> USE DEF AccountInv
<1> DEFINE w == write[p]
<1>1. /\ w # NoWrite /\ file' = w.rec
      /\ issued' = IF w.token > 0 THEN w.token ELSE issued
      /\ ended' = ended \union (w.ends \cap 1 .. issued)
      /\ badRun' = IF w.clears THEN 0 ELSE badRun
      /\ password' = IF w.sets > 0 THEN w.sets ELSE password
      /\ write' = [write EXCEPT ![p] = NoWrite]
      /\ UNCHANGED <<asleep, chosen>>
  BY DEF Save, Prepare
<1>2. w \in Write /\ WriteGood(w) /\ w.sets <= chosen /\ w.rec \in Account
  BY <1>1 DEF SessionsExact, TypeOK, Write
<1>3. /\ issued \in 0 .. MaxTokens /\ chosen \in 0 .. MaxPassword /\ password \in 0 .. chosen
      /\ badRun \in 0 .. MaxFails /\ badRun < MaxFails /\ ended \subseteq 1 .. issued
      /\ w.token \in 0 .. MaxTokens /\ w.sets \in 0 .. MaxPassword /\ w.ends \subseteq Token
      /\ w.clears \in BOOLEAN
  BY <1>2 DEF SessionsExact, TypeOK, LockoutThreshold, Write
<1>4. asleep = << >>
  BY <1>1
<1> HIDE DEF w
<1>5. /\ issued' \in 0 .. MaxTokens /\ 1 .. issued' = 1 .. issued \union ({w.token} \ {0})
  BY <1>1, <1>2, <1>3, BoundsAssumption DEF WriteGood
<1>6. /\ ended' \subseteq 1 .. issued' /\ ended' \subseteq Token
  <2>1. ended' \subseteq 1 .. issued'
    BY <1>1, <1>3, <1>5
  <2>2. 1 .. issued' \subseteq Token
    BY <1>5, BoundsAssumption DEF Token
  <2> QED BY <2>1, <2>2
<1>7. /\ write' \in [Process -> Write \union {NoWrite}] /\ \A q \in Process : write'[q] = NoWrite
  BY <1>1 DEF SessionsExact, TypeOK, w
<1>8. TypeOK'
  <2>1. badRun' \in 0 .. MaxFails
    BY <1>1, <1>3, BoundsAssumption
  <2>2. password' \in 0 .. chosen'
    BY <1>1, <1>2, <1>3, BoundsAssumption
  <2>3. file' \in Account /\ asleep' \in Seq(Account) /\ Len(asleep') <= MaxAsleep /\ chosen' \in 0 .. MaxPassword
    BY <1>1, <1>2, <1>3 DEF SessionsExact, TypeOK
  <2> QED BY <1>5, <1>6, <1>7, <2>1, <2>2, <2>3 DEF TypeOK
<1>9. IsAuthInitialized'
  BY <1>1, <1>2, AccountIsFile DEF IsAuthInitialized
<1>10. Tokens(file') = (1 .. issued') \ ended'
  BY <1>1, <1>2, <1>3, <1>5 DEF WriteGood
<1>11. PasswordInForce' /\ LockoutThreshold'
  BY <1>1, <1>2, <1>3, BoundsAssumption DEF WriteGood, PasswordInForce, LockoutThreshold
<1>12. file'.fails < MaxFails /\ Counted(file') >= badRun'
  <2>1. Counted(w.rec) \in Nat
    BY <1>2, BoundsAssumption DEF Counted, Account
  <2> QED BY <1>1, <1>2, <1>3, <2>1 DEF WriteGood
<1> QED BY <1>1, <1>4, <1>6, <1>7, <1>8, <1>9, <1>10, <1>11, <1>12 DEF SessionsExact

LEMMA KilledKeeps ==
  ASSUME AccountInv, NEW p \in Process, Killed(p)
  PROVE  AccountInv'
<1> USE DEF AccountInv
<1>1. /\ file' \in {file, Torn} /\ write' = [write EXCEPT ![p] = NoWrite]
      /\ UNCHANGED <<issued, chosen, password, ended, badRun>>
      /\ asleep' = IF p = "server" THEN << >> ELSE asleep
      /\ write[p] # NoWrite \/ p = "server"
  BY DEF Killed, Prepare
<1>2. asleep' = << >>
  BY <1>1
<1>3. write' \in [Process -> Write \union {NoWrite}]
      /\ \A q \in Process : write'[q] # NoWrite => q # p /\ write'[q] = write[q]
  BY <1>1 DEF SessionsExact, TypeOK
<1>4. TypeOK'
  <2>1. asleep' \in Seq(Account) /\ Len(asleep') = 0 /\ 0 <= MaxAsleep
    BY <1>2, BoundsAssumption
  <2> QED BY <1>1, <1>3, <2>1 DEF SessionsExact, TypeOK
<1>5. IsAuthInitialized' => file' = file /\ IsAuthInitialized
  BY <1>1 DEF IsAuthInitialized
<1>6. (SessionsExact /\ LockoutThreshold /\ PasswordInForce)'
  BY <1>1, <1>4, <1>5 DEF SessionsExact, LockoutThreshold, PasswordInForce, Tokens
<1>7. \A q \in Process : write'[q] # NoWrite => WriteGood(write[q])' /\ write'[q].sets <= chosen'
  BY <1>1, <1>3 DEF WriteGood
<1> QED BY <1>1, <1>2, <1>3, <1>5, <1>6, <1>7

LEMMA TickKeeps ==
  ASSUME AccountInv, Tick
  PROVE  AccountInv'
<1> USE DEF AccountInv
<1>1. /\ IsAuthInitialized /\ asleep = << >> /\ \A p \in Process : write[p] = NoWrite
      /\ file' = [file EXCEPT !.window = Less(file.window), !.lock = Less(file.lock),
            !.sessions = [t \in DOMAIN file.sessions |->
               [life |-> Less(file.sessions[t].life), idle |-> Less(file.sessions[t].idle)]]]
      /\ badRun' = IF file'.window = 0 THEN 0 ELSE badRun
      /\ UNCHANGED <<asleep, write, issued, chosen, password, ended>>
  BY DEF Tick
<1>2. file \in Account /\ badRun \in 0 .. MaxFails /\ file.fails < MaxFails /\ Counted(file) >= badRun
  BY <1>1 DEF SessionsExact, TypeOK, IsAuthInitialized
<1>3. PICK D \in SUBSET Token : file.sessions \in [D -> Session]
  BY <1>2 DEF Account, Sessions
<1> DEFINE x == [t \in DOMAIN file.sessions |->
               [life |-> Less(file.sessions[t].life), idle |-> Less(file.sessions[t].idle)]]
<1>4. x \in [D -> Session]
  <2>1. ASSUME NEW t \in D
        PROVE  [life |-> Less(file.sessions[t].life), idle |-> Less(file.sessions[t].idle)] \in Session
    <3>1. file.sessions[t] \in Session
      BY <1>3
    <3>2. /\ Less(file.sessions[t].life) \in 0 .. Lifetime
          /\ Less(file.sessions[t].idle) \in 0 .. IdleTime
      BY <3>1, BoundsAssumption DEF Less, Session
    <3> QED BY <3>2 DEF Session
  <2> QED BY <1>3, <2>1
<1>5. x \in Sessions
  BY <1>3, <1>4 DEF Sessions
<1>6. file' = [file EXCEPT !.window = Less(file.window), !.lock = Less(file.lock), !.sessions = x]
  BY <1>1
<1> HIDE DEF x
<1>7. Less(file.window) \in 0 .. FailWindow /\ Less(file.lock) \in 0 .. LockTime
  BY <1>2, BoundsAssumption DEF Less, Account
<1>8. /\ file' \in Account /\ file'.sessions = x /\ file'.pw = file.pw /\ file'.fails = file.fails
      /\ file'.window = Less(file.window)
  BY <1>2, <1>5, <1>6, <1>7 DEF Account
<1>9. Tokens(file') = Tokens(file) /\ IsAuthInitialized'
  BY <1>3, <1>4, <1>8, AccountIsFile DEF Tokens, IsAuthInitialized
<1>10. badRun' \in 0 .. MaxFails /\ badRun' < MaxFails /\ Counted(file') >= badRun'
  <2>1. file'.window \in Nat /\ file.window \in Nat /\ file'.fails \in Nat
    BY <1>2, <1>7, <1>8, BoundsAssumption DEF Account
  <2>2. CASE file'.window = 0
    BY <1>1, <2>1, <2>2, BoundsAssumption DEF Counted
  <2>3. CASE file'.window # 0
    <3>1. file.window > 0 /\ badRun' = badRun
      BY <1>1, <1>8, <2>1, <2>3 DEF Less
    <3>2. Counted(file') = file'.fails /\ Counted(file) = file.fails
      BY <2>1, <2>3, <3>1 DEF Counted
    <3> QED BY <1>2, <1>8, <3>1, <3>2 DEF LockoutThreshold
  <2> QED BY <2>2, <2>3
<1>11. TypeOK'
  BY <1>1, <1>8, <1>10 DEF SessionsExact, TypeOK
<1>12. (SessionsExact /\ LockoutThreshold /\ PasswordInForce)'
  BY <1>1, <1>8, <1>9, <1>10, <1>11 DEF SessionsExact, LockoutThreshold, PasswordInForce
<1> QED BY <1>1, <1>2, <1>8, <1>9, <1>10, <1>12

LEMMA AccountStays == ~Overlap /\ AccountInv /\ [Next]_vars => AccountInv'
<1> SUFFICES ASSUME ~Overlap, AccountInv, [Next]_vars PROVE AccountInv'
  OBVIOUS
<1>1. CASE UNCHANGED vars
  BY <1>1 DEF vars, AccountInv, SessionsExact, TypeOK, LockoutThreshold, PasswordInForce,
              IsAuthInitialized, WriteGood, Tokens
<1> QED
  BY <1>1, SetupKeeps, ResetKeeps, LoginWrongKeeps, LoginRightKeeps, VerifyKeeps, LogoutKeeps,
     ChangeKeeps, SaveKeeps, KilledKeeps, LoginFailsKeeps, TickKeeps DEF Next

\* With one operation at a time auth.json is what the reported operations make of it,
\* through any number of sign-ins, sign-outs, changes of the password, lockouts and
\* crashes, for any of the limits of auth.ts.
THEOREM AccountIsExact ==
  ASSUME ~Overlap
  PROVE  MCSpec => []AccountExact
<1>1. MCInit => (part = "account" => AccountInv)
  BY InitAccount DEF MCInit
<1>2. (part = "account" => AccountInv) /\ [MCNext]_consoleVars => (part = "account" => AccountInv)'
  <2> SUFFICES ASSUME part = "account" => AccountInv, [MCNext]_consoleVars, part' = "account"
               PROVE  AccountInv'
    OBVIOUS
  <2>1. part = "account" /\ [Next]_vars
    BY DEF MCNext, consoleVars, AuthStep, SignInStep, LiveStep, SimulatorStep, PollStep, TerminalStep,
           AccountStep, FleetStep, InstallationStep, GatewayStep, SettingsStep, PagesRest
  <2> QED BY <2>1, AccountStays
<1>3. (part = "account" => AccountInv) => AccountExact
  BY DEF AccountInv, AccountExact
<1> QED BY <1>1, <1>2, <1>3, PTL DEF MCSpec

-----------------------------------------------------------------------------
(* The account, with failed sign-ins that overlap.                         *)

\* What the file holds when nobody has signed in.
Unopened == [kind : {"account"}, pw : Nat, sessions : {<< >>}, fails : 0 .. MaxFails - 1,
             window : 0 .. FailWindow, lock : 0 .. LockTime]

\* The inductive invariant: what the sleeping sign-ins have read counts no more
\* failures the earlier it was read, and at most one less than the file; once the
\* account is locked, each of them is the one that makes it MaxFails.
LockoutInv ==
  /\ file \in Unopened \union {None} /\ chosen \in Nat
  /\ DOMAIN write = Process /\ write["server"] = NoWrite
  /\ file # None => write["cli"] = NoWrite
  /\ file = None /\ write["cli"] # NoWrite =>
       write["cli"].rec \in Unopened /\ write["cli"].rec.lock = 0
  /\ asleep \in Seq(Unopened)
  /\ file = None => asleep = << >>
  /\ \A i \in 1 .. Len(asleep) :
       /\ asleep[i].lock = 0
       /\ \A j \in 1 .. i : Counted(asleep[j]) <= Counted(asleep[i])
       /\ IF file.lock > 0 THEN Counted(asleep[i]) = MaxFails - 1
          ELSE /\ Counted(asleep[i]) <= Counted(file)
               /\ Counted(file) <= Counted(asleep[i]) + 1

LEMMA UnopenedIs ==
  \A a \in Unopened : /\ a # None /\ a # Torn /\ a.kind = "account"
                      /\ a.fails \in 0 .. MaxFails - 1 /\ a.window \in 0 .. FailWindow
                      /\ a.lock \in 0 .. LockTime /\ Counted(a) \in 0 .. MaxFails - 1
BY BoundsAssumption DEF Unopened, None, Torn, Counted

LEMMA InitLockout == Init => LockoutInv
BY DEF Init, LockoutInv, Process, None, NoWrite

\* None of the other operations happens here.
LEMMA OnlyGuesses ==
  ASSUME Overlapping!Next
  PROVE  \/ Overlapping!SetupAuth \/ Overlapping!LoginWrong \/ Overlapping!LoginFails
         \/ \E p \in Process : Overlapping!Save(p)
<1> USE DEF Overlapping!MayStart
<1>1. ~Overlapping!ResetPassword /\ ~Overlapping!LoginRight /\ ~Overlapping!VerifyToken
  BY DEF Overlapping!ResetPassword, Overlapping!LoginRight, Overlapping!VerifyToken
<1>2. \A t : ~Overlapping!Logout(t) /\ ~Overlapping!ChangePassword(t)
  BY DEF Overlapping!Logout, Overlapping!ChangePassword
<1>3. ~Overlapping!Tick /\ \A p : ~Overlapping!Killed(p)
  BY DEF Overlapping!Tick, Overlapping!Killed
<1> QED BY <1>1, <1>2, <1>3 DEF Overlapping!Next, Overlapping!Process, Process

LEMMA LockoutSetupKeeps ==
  ASSUME LockoutInv, Overlapping!SetupAuth
  PROVE  LockoutInv'
<1> DEFINE a == [kind |-> "account", pw |-> chosen', sessions |-> << >>,
                 fails |-> 0, window |-> 0, lock |-> 0]
           w == [kind |-> "save", rec |-> a, token |-> 0, ends |-> 1 .. issued,
                 sets |-> chosen', clears |-> TRUE]
<1>1. file = None /\ UNCHANGED <<file, asleep>>
  BY UnopenedIs DEF LockoutInv, Overlapping!SetupAuth, Overlapping!IsAuthInitialized,
     Overlapping!None, Overlapping!Torn, None, Torn
<1>2. chosen' \in Nat
  BY DEF LockoutInv, Overlapping!SetupAuth, Overlapping!ChooseNew
<1>3. a \in Unopened /\ a.lock = 0
  BY <1>2, BoundsAssumption DEF Unopened
<1>4. write' = [write EXCEPT !["cli"] = w]
  BY DEF Overlapping!SetupAuth, Overlapping!Prepare
<1>5. w.rec = a
  OBVIOUS
<1> HIDE DEF a, w
<1>6. DOMAIN write' = Process /\ write'["server"] = NoWrite /\ write'["cli"] = w
  BY <1>4 DEF LockoutInv, Process
<1>7. asleep = << >> /\ Len(asleep) = 0
  BY <1>1 DEF LockoutInv
<1> QED BY <1>1, <1>2, <1>3, <1>5, <1>6, <1>7 DEF LockoutInv

\* A guess reads a file that is not locked, and so at least what those before it read.
LEMMA LockoutWrongKeeps ==
  ASSUME LockoutInv, Overlapping!LoginWrong
  PROVE  LockoutInv'
<1> USE DEF LockoutInv
<1>1. /\ asleep' = Append(asleep, file) /\ UNCHANGED <<file, write, chosen>>
      /\ file \in Unopened /\ ~(file.lock > 0)
  BY UnopenedIs DEF Overlapping!LoginWrong, Overlapping!IsAuthInitialized, Overlapping!Locked,
     Overlapping!None, Overlapping!Torn, None, Torn
<1>2. file.lock = 0 /\ Counted(file) \in 0 .. MaxFails - 1
  BY <1>1, UnopenedIs
<1>3. asleep' \in Seq(Unopened) /\ Len(asleep') = Len(asleep) + 1
      /\ asleep'[Len(asleep) + 1] = file /\ \A i \in 1 .. Len(asleep) : asleep'[i] = asleep[i]
  BY <1>1
<1>4. ASSUME NEW i \in 1 .. Len(asleep')
      PROVE  /\ asleep'[i].lock = 0 /\ Counted(asleep'[i]) <= Counted(file)
             /\ Counted(file) <= Counted(asleep'[i]) + 1
             /\ \A j \in 1 .. i : Counted(asleep'[j]) <= Counted(asleep'[i])
  <2>1. CASE i \in 1 .. Len(asleep)
    <3>1. 1 .. i \subseteq 1 .. Len(asleep)
      BY <2>1
    <3> QED BY <1>1, <1>3, <2>1, <3>1
  <2>2. CASE i = Len(asleep) + 1
    <3>1. asleep'[i] = file
      BY <1>3, <2>2
    <3>2. ASSUME NEW j \in 1 .. i PROVE Counted(asleep'[j]) <= Counted(file)
      <4>1. j \in 1 .. Len(asleep) \/ j = Len(asleep) + 1
        BY <2>2, <1>3
      <4> QED BY <1>1, <1>2, <1>3, <4>1
    <3> QED BY <1>2, <3>1, <3>2
  <2> QED BY <1>3, <2>1, <2>2
<1>5. file # None
  BY <1>1, UnopenedIs
<1> QED BY <1>1, <1>3, <1>4, <1>5

\* A sleep ends: either that failure makes it MaxFails, and the others that still
\* sleep do so as well, or the file counts one more than it did when it was read.
LEMMA LockoutFailsKeeps ==
  ASSUME LockoutInv, Overlapping!LoginFails
  PROVE  LockoutInv' /\ (Locked => Locked')
<1> USE DEF LockoutInv
<1> DEFINE h == Head(asleep)
           n == Counted(h) + 1
<1>1. /\ asleep # << >> /\ file' = Overlapping!CountFailure(h) /\ asleep' = Tail(asleep)
      /\ UNCHANGED <<write, chosen>>
  BY DEF Overlapping!LoginFails
<1>2. /\ h \in Unopened /\ h = asleep[1] /\ Len(asleep) \in Nat /\ Len(asleep) >= 1
      /\ asleep' \in Seq(Unopened) /\ Len(asleep') = Len(asleep) - 1
      /\ \A i \in 1 .. Len(asleep') : asleep'[i] = asleep[i + 1] /\ i + 1 \in 1 .. Len(asleep)
  BY <1>1
<1>3. /\ h.lock = 0 /\ Counted(h) \in 0 .. MaxFails - 1 /\ file \in Unopened
  BY <1>1, <1>2, UnopenedIs
<1>4. file' = [h EXCEPT !.window = FailWindow,
                        !.fails = IF n >= MaxFails THEN 0 ELSE n,
                        !.lock = IF n >= MaxFails THEN LockTime ELSE @]
  BY <1>1 DEF Overlapping!CountFailure, Counted
<1> HIDE DEF h, n
<1>5. n = Counted(h) + 1 /\ n \in 1 .. MaxFails /\ (IF n >= MaxFails THEN 0 ELSE n) \in 0 .. MaxFails - 1
  BY <1>3, BoundsAssumption DEF n
<1>6. /\ file'.window = FailWindow
      /\ file'.fails = (IF n >= MaxFails THEN 0 ELSE n)
      /\ file'.lock = (IF n >= MaxFails THEN LockTime ELSE 0)
  BY <1>2, <1>3, <1>4 DEF Unopened
<1>7. file' \in Unopened
  <2>1. \A x \in 0 .. FailWindow, z \in 0 .. MaxFails - 1, l \in 0 .. LockTime :
          [h EXCEPT !.window = x, !.fails = z, !.lock = l] \in Unopened
    BY <1>2 DEF Unopened
  <2>2. FailWindow \in 0 .. FailWindow /\ (IF n >= MaxFails THEN LockTime ELSE h.lock) \in 0 .. LockTime
    BY <1>3, BoundsAssumption
  <2> QED BY <1>4, <1>5, <2>1, <2>2
<1>8. ASSUME NEW i \in 1 .. Len(asleep')
      PROVE  /\ asleep'[i].lock = 0 /\ Counted(asleep'[i]) \in 0 .. MaxFails - 1
             /\ Counted(h) <= Counted(asleep'[i])
             /\ \A j \in 1 .. i : Counted(asleep'[j]) <= Counted(asleep'[i])
  <2>1. asleep'[i] = asleep[i + 1] /\ i + 1 \in 1 .. Len(asleep) /\ asleep[i + 1] \in Unopened
    BY <1>2
  <2>2. ASSUME NEW j \in 1 .. i PROVE Counted(asleep'[j]) <= Counted(asleep'[i])
    <3>1. j \in 1 .. Len(asleep') /\ j + 1 \in 1 .. i + 1
      BY <1>2
    <3> QED BY <1>2, <2>1, <3>1
  <2>3. 1 \in 1 .. i + 1
    BY <2>1
  <2> QED BY <1>2, <2>1, <2>2, <2>3, UnopenedIs
<1>9. CASE n >= MaxFails
  <2>1. file'.lock > 0 /\ Counted(h) = MaxFails - 1
    BY <1>3, <1>5, <1>6, <1>9, BoundsAssumption
  <2>2. \A i \in 1 .. Len(asleep') : Counted(asleep'[i]) = MaxFails - 1
    BY <1>8, <2>1, BoundsAssumption
  <2>3. file # None /\ file' # None
    BY <1>3, <1>7, UnopenedIs
  <2>4. Locked'
    BY <1>7, <2>1, UnopenedIs DEF Locked, IsAuthInitialized
  <2> QED BY <1>1, <1>2, <1>7, <1>8, <2>1, <2>2, <2>3, <2>4
<1>10. CASE ~(n >= MaxFails)
  <2>1. file'.lock = 0 /\ Counted(file') = n
    BY <1>5, <1>6, <1>10, BoundsAssumption DEF Counted
  <2>2. ~(file.lock > 0)
    BY <1>2, <1>5, <1>10, BoundsAssumption
  <2>3. Counted(file) \in 0 .. MaxFails - 1 /\ Counted(file) <= n
    BY <1>2, <1>3, <1>5, <2>2, UnopenedIs
  <2>4. ASSUME NEW i \in 1 .. Len(asleep')
        PROVE  Counted(asleep'[i]) <= n /\ n <= Counted(asleep'[i]) + 1
    <3>1. asleep'[i] = asleep[i + 1] /\ i + 1 \in 1 .. Len(asleep)
      BY <1>2
    <3>2. Counted(asleep'[i]) <= Counted(file)
      BY <2>2, <3>1
    <3> QED BY <1>3, <1>5, <1>8, <2>3, <3>2, BoundsAssumption
  <2>5. file # None /\ file' # None /\ ~Locked
    BY <1>3, <1>7, <2>2, UnopenedIs DEF Locked
  <2> QED BY <1>1, <1>2, <1>7, <1>8, <2>1, <2>4, <2>5
<1> QED BY <1>9, <1>10

LEMMA LockoutSaveKeeps ==
  ASSUME LockoutInv, NEW p \in Process, Overlapping!Save(p)
  PROVE  LockoutInv' /\ ~Locked
<1> USE DEF LockoutInv
<1>1. /\ write[p] # NoWrite /\ file' = write[p].rec /\ write' = [write EXCEPT ![p] = NoWrite]
      /\ UNCHANGED <<asleep, chosen>>
  BY DEF Overlapping!Save, Overlapping!Prepare, Overlapping!NoWrite, NoWrite
<1>2. p = "cli" /\ file = None
  BY <1>1, UnopenedIs DEF Process
<1>3. file' \in Unopened /\ asleep = << >>
  BY <1>1, <1>2
<1>4. write'["server"] = NoWrite /\ write'["cli"] = NoWrite
  BY <1>1, <1>2 DEF Process
<1>5. file' # None /\ ~Locked /\ DOMAIN write' = Process
  BY <1>1, <1>2, <1>3, UnopenedIs DEF Locked, IsAuthInitialized
<1> QED BY <1>1, <1>3, <1>4, <1>5

LEMMA LockoutStays == LockoutInv /\ [Overlapping!Next]_vars => LockoutInv' /\ (Locked => Locked')
<1> SUFFICES ASSUME LockoutInv, [Overlapping!Next]_vars PROVE LockoutInv' /\ (Locked => Locked')
  OBVIOUS
<1>1. CASE UNCHANGED vars
  BY <1>1 DEF vars, LockoutInv, Locked, IsAuthInitialized
<1>2. CASE Overlapping!SetupAuth
  <2>1. UNCHANGED file
    BY <1>2 DEF Overlapping!SetupAuth
  <2> QED BY <1>2, <2>1, LockoutSetupKeeps DEF Locked, IsAuthInitialized
<1>3. CASE Overlapping!LoginWrong
  <2>1. UNCHANGED file
    BY <1>3 DEF Overlapping!LoginWrong
  <2> QED BY <1>3, <2>1, LockoutWrongKeeps DEF Locked, IsAuthInitialized
<1>4. CASE Overlapping!LoginFails
  BY <1>4, LockoutFailsKeeps
<1>5. ASSUME NEW p \in Process, Overlapping!Save(p) PROVE LockoutInv' /\ (Locked => Locked')
  BY <1>5, LockoutSaveKeeps
<1> QED BY <1>1, <1>2, <1>3, <1>4, <1>5, OnlyGuesses

\* A lockout is not undone by sign-ins that failed around it and end after it: each of
\* them locks the account anew, whatever number of failures locks it.
THEOREM LockoutIsKept == MCSpec => LockoutSticks
<1> DEFINE I == part = "lockout" => LockoutInv
<1>1. MCInit => I
  BY InitLockout DEF MCInit
<1>2. I /\ [MCNext]_consoleVars => I' /\ (part = "lockout" => (Locked => Locked'))
  <2> SUFFICES ASSUME I, [MCNext]_consoleVars
               PROVE  /\ part' = part
                      /\ part = "lockout" => LockoutInv' /\ (Locked => Locked')
    OBVIOUS
  <2>1. part' = part
    BY DEF MCNext, consoleVars, AuthStep, SignInStep, LiveStep, SimulatorStep, PollStep, TerminalStep,
           AccountStep, FleetStep, InstallationStep, GatewayStep, SettingsStep, PagesRest
  <2>2. part = "lockout" => [Overlapping!Next]_vars
    BY DEF MCNext, consoleVars, AuthStep, SignInStep, LiveStep, SimulatorStep, PollStep, TerminalStep,
           AccountStep, FleetStep, InstallationStep, GatewayStep, SettingsStep, PagesRest
  <2> QED BY <2>1, <2>2, LockoutStays
<1>3. MCSpec => [][part = "lockout" => (Locked => Locked')]_consoleVars
  BY <1>1, <1>2, PTL DEF MCSpec
<1> QED BY <1>3 DEF LockoutSticks

-----------------------------------------------------------------------------
(* What a page shows.                                                      *)

Fetch == [n : Nat, path : Paths \union {NoPath}, version : 0 .. Unanswered]

\* The inductive invariant: a fetch that may still be taken is the latest, and was
\* answered after what is shown, or is not answered yet.
PollInv ==
  /\ path \in Paths \union {NoPath}
  /\ version \in 0 .. MaxVersion /\ tick \in Nat /\ data.version \in 0 .. version
  /\ fetches \subseteq Fetch
  /\ \A f \in fetches : /\ f.n <= tick
                        /\ f.version = Unanswered \/ f.version <= version
                        /\ f.n = tick => f.version >= data.version
  /\ \A f, g \in fetches : f.n = g.n => f = g

LEMMA InitPoll == PollInit => PollInv
BY PollAssumption DEF PollInit, PollInv, Nothing_

\* A fetch that is sent is the latest, and not answered.
LEMMA LoadKeeps ==
  ASSUME PollInv, NEW p \in Paths \union {NoPath}, Loaded(p), UNCHANGED <<version, data>>,
         path' \in Paths \union {NoPath}
  PROVE  PollInv'
<1>1. CASE p = NoPath
  BY <1>1 DEF Loaded, PollInv
<1>2. CASE p # NoPath
  <2> DEFINE new == [n |-> tick + 1, path |-> p, version |-> Unanswered]
  <2>1. tick' = tick + 1 /\ fetches' = fetches \union {new}
    BY <1>2 DEF Loaded
  <2>2. new \in Fetch /\ new.n = tick + 1 /\ new.version = Unanswered
    BY PollAssumption DEF Fetch, Unanswered, PollInv
  <2> HIDE DEF new
  <2>3. tick' \in Nat /\ fetches' \subseteq Fetch
    BY <2>1, <2>2 DEF PollInv
  <2>4. \A f \in fetches : f.n \in Nat /\ f.n <= tick
    BY DEF PollInv, Fetch
  <2>5. ASSUME NEW f \in fetches'
        PROVE  /\ f.n <= tick' /\ (f.version = Unanswered \/ f.version <= version)
               /\ f.n = tick' => f.version >= data.version
    BY <2>1, <2>2, <2>4, <2>5, PollAssumption DEF PollInv, Unanswered
  <2>6. ASSUME NEW f \in fetches', NEW g \in fetches', f.n = g.n PROVE f = g
    BY <2>1, <2>2, <2>4, <2>6 DEF PollInv
  <2> QED BY <2>3, <2>5, <2>6 DEF PollInv
<1> QED BY <1>1, <1>2

LEMMA AnswerKeeps ==
  ASSUME PollInv, NEW f \in fetches, ServerAnswers(f)
  PROVE  PollInv'
<1> DEFINE g == [f EXCEPT !.version = version]
<1>1. /\ f.version = Unanswered /\ fetches' = (fetches \ {f}) \union {g}
      /\ UNCHANGED <<path, tick, version, data>>
  BY DEF ServerAnswers
<1>2. f \in Fetch /\ version \in 0 .. MaxVersion
  BY DEF PollInv
<1>3. g \in Fetch /\ g.n = f.n /\ g.version = version
  <2>1. version \in 0 .. Unanswered
    BY <1>2, PollAssumption DEF Unanswered
  <2> QED BY <1>2, <2>1 DEF Fetch
<1> HIDE DEF g
<1>4. fetches' \subseteq Fetch
  BY <1>1, <1>3 DEF PollInv
<1>5. \A x \in fetches' : /\ x.n <= tick /\ (x.version = Unanswered \/ x.version <= version)
                          /\ x.n = tick => x.version >= data.version
  BY <1>1, <1>2, <1>3 DEF PollInv
<1>6. \A x, y \in fetches' : x.n = y.n => x = y
  BY <1>1, <1>3 DEF PollInv
<1> QED BY <1>1, <1>4, <1>5, <1>6 DEF PollInv

LEMMA ArriveKeeps ==
  ASSUME PollInv, NEW f \in fetches, Arrives(f)
  PROVE  PollInv' /\ data'.version >= data.version
<1>1. fetches' = fetches \ {f} /\ UNCHANGED <<path, tick, version>>
  BY DEF Arrives
<1>2. CASE UNCHANGED data
  BY <1>1, <1>2 DEF PollInv
<1>3. CASE /\ f.version # Unanswered /\ f.n = tick
           /\ data' = [path |-> f.path, version |-> f.version]
  <2>1. data'.version = f.version /\ f.version \in 0 .. version /\ f.version >= data.version
    BY <1>3 DEF PollInv, Fetch
  <2>2. \A g \in fetches' : g.n # tick
    BY <1>1, <1>3 DEF PollInv
  <2> QED BY <1>1, <2>1, <2>2 DEF PollInv
<1> QED BY <1>2, <1>3 DEF Arrives, Latest

LEMMA PollStays == PollInv /\ [PollNext]_pollVars => PollInv' /\ data'.version >= data.version
<1> SUFFICES ASSUME PollInv, [PollNext]_pollVars
             PROVE  PollInv' /\ data'.version >= data.version
  OBVIOUS
<1>1. CASE UNCHANGED pollVars
  BY <1>1 DEF pollVars, PollInv
<1>2. ASSUME NEW p \in Paths \union {NoPath}, ShowPath(p)
      PROVE  PollInv' /\ data'.version >= data.version
  <2>1. Loaded(p) /\ UNCHANGED <<version, data>> /\ path' \in Paths \union {NoPath}
    BY <1>2 DEF ShowPath
  <2> QED BY <2>1, LoadKeeps DEF PollInv
<1>3. CASE Poll
  <2>1. PICK p \in Paths \union {NoPath} : p = path
    BY DEF PollInv
  <2>2. Loaded(p) /\ UNCHANGED <<version, data>> /\ path' \in Paths \union {NoPath}
    BY <1>3, <2>1 DEF Poll, Loaded
  <2> QED BY <2>2, LoadKeeps DEF PollInv
<1>4. CASE ServerChanges
  <2>1. version' = version + 1 /\ version < MaxVersion /\ UNCHANGED <<path, tick, fetches, data>>
    BY <1>4 DEF ServerChanges
  <2>2. version' \in 0 .. MaxVersion /\ data.version \in 0 .. version'
    BY <2>1, PollAssumption DEF PollInv
  <2>3. \A f \in fetches : f.version = Unanswered \/ f.version <= version'
    BY <2>1, PollAssumption DEF PollInv, Fetch, Unanswered
  <2> QED BY <2>1, <2>2, <2>3 DEF PollInv
<1>5. ASSUME NEW f \in fetches, ServerAnswers(f)
      PROVE  PollInv' /\ data'.version >= data.version
  BY <1>5, AnswerKeeps DEF ServerAnswers, PollInv
<1> QED BY <1>1, <1>2, <1>3, <1>4, <1>5, ArriveKeeps DEF PollNext

-----------------------------------------------------------------------------
(* The machines, and the key of their passwords.                           *)

\* The inductive invariant: what can be read of a file is what is in memory, no id
\* that was removed is in either, and what is encrypted is under the key on file.
FleetInv ==
  /\ fleet \in [Vms -> Machine \union {NoVm}]
  /\ fleetFile # TornFile => fleetFile = fleet
  /\ removed \subseteq Vms /\ \A v \in removed : fleet[v] = NoVm
  /\ keys \in Nat
  /\ keyFile \in {NoKey, TornFile} \union 1 .. MaxKeys
  /\ key # NoKey => key = keyFile /\ key \in 1 .. MaxKeys
  /\ SecretsReadable

\* A connection is about a machine.
AskedOf ==
  refreshing \in [Refreshing -> [vm : Vms, at : {"dialling", "probing"}] \union {NotRefreshing}]

LEMMA InitFleet == FleetInit => FleetInv /\ AskedOf
BY FleetAssumption DEF FleetInit, FleetInv, AskedOf, NoMachines, SecretsReadable, Known

\* The key at hand is that of the file, and of every password there is.
LEMMA KeyIs ==
  ASSUME FleetInv, WithKey
  PROVE  /\ key' \in 1 .. MaxKeys /\ keyFile' = key' /\ keys' \in Nat
         /\ \A v \in Vms : Known(v) => fleet[v].password \in {0, keyFile'}
<1>1. CASE UNCHANGED keyFile
  BY <1>1, FleetAssumption DEF WithKey, FleetInv, SecretsReadable, Generate
<1>2. CASE /\ key = NoKey /\ keyFile \in {NoKey, TornFile} /\ keys < MaxKeys
           /\ Generate /\ keys' = keys + 1
  <2>1. ASSUME NEW v \in Vms, Known(v) PROVE fleet[v].password = 0
    <3>1. fleet[v] \in Machine
      BY <2>1 DEF FleetInv, Known
    <3>2. fleet[v].password \in 0 .. MaxKeys /\ fleet[v].password \in {0, keyFile}
      BY <2>1, <3>1 DEF FleetInv, SecretsReadable, Machine
    <3> QED BY <1>2, <3>2, FleetAssumption
  <2> QED BY <1>2, <2>1, FleetAssumption DEF Generate, FleetInv
<1> QED BY <1>1, <1>2 DEF WithKey

\* A change of the list that is written at once, by which no machine that was removed
\* comes back and every password can be read.
LEMMA PersistKeeps ==
  ASSUME FleetInv, fleet' \in [Vms -> Machine \union {NoVm}], Persist,
         removed' \subseteq Vms, \A v \in removed' : fleet'[v] = NoVm,
         \A v \in Vms : fleet'[v] # NoVm => fleet'[v].password \in {0, keyFile'},
         \/ UNCHANGED <<key, keyFile, keys>>
         \/ key' \in 1 .. MaxKeys /\ keyFile' = key' /\ keys' \in Nat
  PROVE  FleetInv'
BY DEF FleetInv, Persist, SecretsReadable, Known

LEMMA AddVmKeeps ==
  ASSUME FleetInv, NEW v \in Vms, NEW given \in BOOLEAN, AddVm(v, given)
  PROVE  FleetInv' /\ \A u \in removed : fleet'[u] = NoVm
<1> DEFINE new == [password |-> Encrypted(given, 0), stats |-> "none"]
<1>1. /\ v \notin removed /\ fleet' = [fleet EXCEPT ![v] = new] /\ Persist /\ UNCHANGED removed
      /\ IF given THEN WithKey ELSE UNCHANGED <<key, keyFile, keys>>
  BY DEF AddVm
<1>2. new.password = (IF given THEN key' ELSE 0) /\ new.stats = "none"
  BY DEF Encrypted
<1>3. new \in Machine /\ new.password \in {0, keyFile'}
  BY <1>1, KeyIs, FleetAssumption DEF Encrypted, Machine
<1> HIDE DEF new
<1>4. fleet' \in [Vms -> Machine \union {NoVm}] /\ \A u \in removed' : fleet'[u] = NoVm
  BY <1>1, <1>3 DEF FleetInv
<1>5. \A u \in Vms : fleet'[u] # NoVm => fleet'[u].password \in {0, keyFile'}
  BY <1>1, <1>3, KeyIs DEF FleetInv, SecretsReadable, Known
<1>6. \/ UNCHANGED <<key, keyFile, keys>>
      \/ key' \in 1 .. MaxKeys /\ keyFile' = key' /\ keys' \in Nat
  BY <1>1, KeyIs
<1>7. removed' \subseteq Vms
  BY <1>1 DEF FleetInv
<1> QED BY <1>1, <1>4, <1>5, <1>6, <1>7, PersistKeeps

LEMMA UpdateVmKeeps ==
  ASSUME FleetInv, NEW v \in Vms, NEW given \in BOOLEAN, UpdateVm(v, given)
  PROVE  FleetInv' /\ \A u \in removed : fleet'[u] = NoVm
<1> DEFINE new == [fleet[v] EXCEPT !.password = Encrypted(given, @)]
<1>1. /\ Known(v) /\ fleet' = [fleet EXCEPT ![v] = new] /\ Persist /\ UNCHANGED removed
      /\ IF given THEN WithKey ELSE UNCHANGED <<key, keyFile, keys>>
  BY DEF UpdateVm
<1>2. fleet[v] \in Machine /\ v \notin removed /\ fleet[v].password \in {0, keyFile'}
  BY <1>1, KeyIs DEF FleetInv, SecretsReadable, Known
<1>3. new \in Machine /\ new.password \in {0, keyFile'}
  <2>1. \A x \in 0 .. MaxKeys : /\ [fleet[v] EXCEPT !.password = x] \in Machine
                                /\ [fleet[v] EXCEPT !.password = x].password = x
    BY <1>2 DEF Machine
  <2>2. fleet[v].password \in 0 .. MaxKeys
    BY <1>2 DEF Machine
  <2>3. given => key' \in 0 .. MaxKeys /\ key' = keyFile'
    BY <1>1, KeyIs
  <2> QED BY <1>2, <2>1, <2>2, <2>3 DEF Encrypted
<1> HIDE DEF new
<1>4. fleet' \in [Vms -> Machine \union {NoVm}] /\ \A u \in removed' : fleet'[u] = NoVm
  BY <1>1, <1>2, <1>3 DEF FleetInv
<1>5. \A u \in Vms : fleet'[u] # NoVm => fleet'[u].password \in {0, keyFile'}
  BY <1>1, <1>3, KeyIs DEF FleetInv, SecretsReadable, Known
<1>6. \/ UNCHANGED <<key, keyFile, keys>>
      \/ key' \in 1 .. MaxKeys /\ keyFile' = key' /\ keys' \in Nat
  BY <1>1, KeyIs
<1>7. removed' \subseteq Vms
  BY <1>1 DEF FleetInv
<1> QED BY <1>1, <1>4, <1>5, <1>6, <1>7, PersistKeeps

LEMMA RemoveVmKeeps ==
  ASSUME FleetInv, NEW v \in Vms, RemoveVm(v)
  PROVE  FleetInv' /\ \A u \in removed : fleet'[u] = NoVm
<1>1. /\ fleet' = [fleet EXCEPT ![v] = NoVm] /\ removed' = removed \union {v} /\ Persist
      /\ UNCHANGED <<key, keyFile, keys>>
  BY DEF RemoveVm
<1>2. /\ fleet' \in [Vms -> Machine \union {NoVm}] /\ removed' \subseteq Vms
      /\ \A u \in removed' : fleet'[u] = NoVm
  BY <1>1 DEF FleetInv
<1>3. \A u \in Vms : fleet'[u] # NoVm => fleet'[u].password \in {0, keyFile'}
  BY <1>1 DEF FleetInv, SecretsReadable, Known
<1> QED BY <1>1, <1>2, <1>3, PersistKeeps

LEMMA SettledKeeps ==
  ASSUME FleetInv, NEW v, NEW stats \in {"reachable", "unreachable"}, SetStats(v, stats),
         fleet[v] # NoVm => v \in Vms,
         UNCHANGED <<removed, key, keyFile, keys>>
  PROVE  FleetInv' /\ \A u \in removed : fleet'[u] = NoVm
<1>1. CASE ~Known(v)
  BY <1>1 DEF SetStats, FleetInv, SecretsReadable, Known
<1>2. CASE Known(v)
  <2> DEFINE new == [fleet[v] EXCEPT !.stats = stats]
  <2>1. v \in Vms /\ fleet[v] \in Machine /\ v \notin removed
    BY <1>2 DEF Known, FleetInv
  <2>2. new \in Machine /\ new.password = fleet[v].password
    BY <2>1 DEF Machine
  <2>3. fleet' = [fleet EXCEPT ![v] = new] /\ Persist
    BY <1>2 DEF SetStats
  <2> HIDE DEF new
  <2>4. /\ fleet' \in [Vms -> Machine \union {NoVm}] /\ removed' \subseteq Vms
        /\ \A u \in removed' : fleet'[u] = NoVm
    BY <2>1, <2>2, <2>3 DEF FleetInv
  <2>5. \A u \in Vms : fleet'[u] # NoVm => fleet'[u].password \in {0, keyFile'}
    BY <1>2, <2>1, <2>2, <2>3 DEF FleetInv, SecretsReadable, Known
  <2> QED BY <2>3, <2>4, <2>5, PersistKeeps
<1> QED BY <1>1, <1>2

\* A restart reads what can be read of the list and of the key.
LEMMA FleetKilledKeeps ==
  ASSUME FleetInv, FleetKilled
  PROVE  FleetInv' /\ \A u \in removed : fleet'[u] = NoVm
<1>1. /\ fleet' = (IF fleetFile' = TornFile THEN NoMachines ELSE fleetFile')
      /\ key' = NoKey /\ UNCHANGED <<removed, keys>>
      /\ fleetFile' # TornFile => fleetFile' = fleet
      /\ keyFile' = keyFile \/ (keyFile' = TornFile /\ keyFile \in {NoKey, TornFile})
  BY DEF FleetKilled, FleetInv
<1>2. /\ fleet' \in [Vms -> Machine \union {NoVm}] /\ \A u \in removed : fleet'[u] = NoVm
      /\ fleetFile' # TornFile => fleetFile' = fleet'
  BY <1>1 DEF FleetInv, NoMachines
<1>3. ASSUME NEW v \in Vms, fleet'[v] # NoVm PROVE fleet'[v].password \in {0, keyFile'}
  <2>1. fleet' = fleet /\ fleet[v] \in Machine
    BY <1>1, <1>3 DEF NoMachines, FleetInv
  <2>2. fleet[v].password \in {0, keyFile} /\ fleet[v].password \in 0 .. MaxKeys
    BY <1>3, <2>1 DEF FleetInv, SecretsReadable, Known, Machine
  <2> QED BY <1>1, <2>1, <2>2, FleetAssumption
<1> QED BY <1>1, <1>2, <1>3 DEF FleetInv, SecretsReadable, Known

LEMMA AskedOfStays == AskedOf /\ [FleetNext]_fleetVars => AskedOf'
<1> SUFFICES ASSUME AskedOf, [FleetNext]_fleetVars PROVE AskedOf'
  OBVIOUS
<1>1. CASE UNCHANGED refreshing
  BY <1>1 DEF AskedOf
<1>2. ASSUME NEW r \in Refreshing, SshReady(r) PROVE AskedOf'
  <2>1. refreshing[r] \in [vm : Vms, at : {"dialling", "probing"}]
    BY <1>2 DEF SshReady, AskedOf, NotRefreshing
  <2>2. [refreshing[r] EXCEPT !.at = "probing"] \in [vm : Vms, at : {"dialling", "probing"}]
    BY <2>1
  <2> QED BY <1>2, <2>2 DEF SshReady, AskedOf
<1>3. ASSUME NEW r \in Refreshing, refreshing' = [refreshing EXCEPT ![r] = NotRefreshing]
      PROVE  AskedOf'
  BY <1>3 DEF AskedOf
<1>4. CASE FleetKilled
  BY <1>4 DEF FleetKilled, AskedOf
<1>5. ASSUME NEW v \in Vms, NEW given \in BOOLEAN, AddVm(v, given) PROVE AskedOf'
  BY <1>5 DEF AddVm, Asks, AskedOf
<1>6. ASSUME NEW v \in Vms, RefreshVm(v) PROVE AskedOf'
  BY <1>6 DEF RefreshVm, Asks, AskedOf
<1> QED
  BY <1>1, <1>2, <1>3, <1>4, <1>5, <1>6 DEF FleetNext, fleetVars, UpdateVm, RemoveVm, ProbeEnds,
     SshFails, SshTimer, Settled

LEMMA FleetStays ==
  FleetInv /\ AskedOf /\ [FleetNext]_fleetVars => FleetInv' /\ \A u \in removed : fleet'[u] = NoVm
<1> SUFFICES ASSUME FleetInv, AskedOf, [FleetNext]_fleetVars
             PROVE  FleetInv' /\ \A u \in removed : fleet'[u] = NoVm
  OBVIOUS
<1>1. CASE UNCHANGED <<fleet, fleetFile, removed, key, keyFile, keys>>
  BY <1>1 DEF FleetInv, SecretsReadable, Known
<1>2. ASSUME NEW v \in Vms, RefreshVm(v) PROVE FleetInv'
  BY <1>2, KeyIs DEF RefreshVm, FleetInv, SecretsReadable, Known
<1>3. ASSUME NEW r \in Refreshing, NEW stats \in {"reachable", "unreachable"}, Settled(r, stats),
             refreshing[r].at \in {"dialling", "probing"}
      PROVE  FleetInv' /\ \A u \in removed : fleet'[u] = NoVm
  <2>1. refreshing[r].vm \in Vms
    BY <1>3 DEF AskedOf, NotRefreshing
  <2>2. PICK v \in Vms : v = refreshing[r].vm
    BY <2>1
  <2>3. SetStats(v, stats) /\ UNCHANGED <<removed, key, keyFile, keys>>
    BY <1>3, <2>2 DEF Settled, SetStats, Known
  <2> QED BY <2>3, SettledKeeps
<1>4. ASSUME NEW r \in Refreshing, ProbeEnds(r) \/ SshFails(r) \/ SshTimer(r)
      PROVE  FleetInv' /\ \A u \in removed : fleet'[u] = NoVm
  BY <1>3, <1>4 DEF ProbeEnds, SshFails, SshTimer
<1>5. ASSUME NEW v \in Vms, RefreshVm(v) PROVE \A u \in removed : fleet'[u] = NoVm
  BY <1>5 DEF RefreshVm, FleetInv
<1>6. CASE FleetNext
  BY <1>1, <1>2, <1>4, <1>5, <1>6, AddVmKeeps, UpdateVmKeeps, RemoveVmKeeps, FleetKilledKeeps
     DEF FleetNext, SshReady
<1> QED BY <1>1, <1>6 DEF fleetVars

\* Neither comes back what was replaced: an older state on a page, however its answers
\* come in, nor a machine that was removed, whatever is collected or restarted.
THEOREM NothingIsUndone == MCSpec => NothingComesBack
<1> DEFINE I == PollInv /\ FleetInv /\ AskedOf
           Newer == data'.path = data.path => data'.version >= data.version
           Gone == \A v \in removed : ~Known(v) => fleet'[v] = NoVm
<1>1. MCInit => I
  BY InitPoll, InitFleet DEF MCInit
<1>2. I /\ [MCNext]_consoleVars => I' /\ [Newer]_pollVars /\ [Gone]_fleetVars
  <2> SUFFICES ASSUME I, [MCNext]_consoleVars PROVE I' /\ Newer /\ Gone
    OBVIOUS
  <2>1. [PollNext]_pollVars /\ [FleetNext]_fleetVars
    BY DEF MCNext, consoleVars, AuthStep, SignInStep, LiveStep, SimulatorStep, PollStep, TerminalStep,
           AccountStep, FleetStep, InstallationStep, GatewayStep, SettingsStep, PagesRest, pageVars, hostVars
  <2> QED BY <2>1, PollStays, FleetStays, AskedOfStays
<1>3. MCSpec => [][Newer]_pollVars /\ [][Gone]_fleetVars
  BY <1>1, <1>2, PTL DEF MCSpec
<1> QED BY <1>3 DEF NothingComesBack, NeverOlder, RemovedStays

-----------------------------------------------------------------------------
(* The accounts of the domain, and the settings.                           *)

\* The inductive invariant: an account is made by a call for its name; as long as
\* nobody disturbs the call, the account is what the call has asked for so far.
AddedInv ==
  /\ users \in [Names -> User \union {NoUser}] /\ disturbed \subseteq Adds
  /\ adding \in [Adds -> Call]
  /\ \A a \in Adds : adding[a].at # "idle" => adding[a].name \in Names
  /\ \A n \in Names : Exists(n) => /\ adding[users[n].by].name = n
                                   /\ adding[users[n].by].at \notin {"idle", "add"}
  /\ \A a \in Adds \ disturbed :
       /\ \A n \in Names : Exists(n) /\ users[n].password = a => users[n].by = a
       /\ adding[a].at \in {"password", "enable", "done"} =>
            LET c == adding[a]
                u == users[c.name]
            IN  /\ u # NoUser /\ u.by = a
                /\ u.password = IF c.password /\ c.at # "password" THEN a ELSE NoPassword
                /\ c.at = "password" => c.password
                /\ u.on = (c.at = "done" /\ c.on /\ c.password)

LEMMA InitAdded == AccountsInit => AddedInv
BY DEF AccountsInit, AddedInv, Exists, Call, At

LEMMA AddUserKeeps ==
  ASSUME AddedInv, NEW a \in Adds, NEW n \in Names, NEW p \in BOOLEAN, NEW on \in BOOLEAN,
         AddUser(a, n, p, on)
  PROVE  AddedInv'
<1> DEFINE c == [name |-> n, password |-> p, on |-> on, at |-> "add"]
<1>1. /\ adding[a].at = "idle" /\ adding' = [adding EXCEPT ![a] = c] /\ UNCHANGED <<users, disturbed>>
  BY DEF AddUser
<1>2. c \in Call /\ c.name = n /\ c.at = "add"
  BY DEF Call, At
<1> HIDE DEF c
<1> QED BY <1>1, <1>2 DEF AddedInv, Exists, User

\* How a call goes on.
LEMMA GoesOn ==
  ASSUME AddedInv, NEW a \in Adds, NEW at \in At, adding' = [adding EXCEPT ![a].at = at]
  PROVE  /\ adding' \in [Adds -> Call] /\ adding'[a].at = at
         /\ adding'[a].name = adding[a].name /\ adding'[a].password = adding[a].password
         /\ adding'[a].on = adding[a].on
         /\ \A b \in Adds : b # a => adding'[b] = adding[b]
<1> DEFINE c == [adding[a] EXCEPT !.at = at]
<1>1. adding[a] \in Call
  BY DEF AddedInv
<1>2. /\ c \in Call /\ c.at = at /\ c.name = adding[a].name /\ c.password = adding[a].password
      /\ c.on = adding[a].on
  BY <1>1 DEF Call
<1>3. adding' = [adding EXCEPT ![a] = c]
  OBVIOUS
<1> HIDE DEF c
<1> QED BY <1>2, <1>3 DEF AddedInv

\* What is kept of an account when its password or its state is changed.
LEMMA UserChanged ==
  ASSUME NEW u \in User
  PROVE  /\ \A p \in Adds \union {Operator, NoPassword} :
              LET v == [u EXCEPT !.password = p]
              IN  v \in User /\ v.password = p /\ v.by = u.by /\ v.on = u.on
         /\ \A on \in BOOLEAN :
              LET v == [u EXCEPT !.on = on]
              IN  v \in User /\ v.on = on /\ v.by = u.by /\ v.password = u.password
BY DEF User

LEMMA AddedKeeps ==
  ASSUME AddedInv, NEW a \in Adds, Added(a)
  PROVE  AddedInv'
<1> DEFINE c == adding[a]
           u == [by |-> a, password |-> NoPassword, on |-> FALSE]
<1>1. c \in Call /\ c.name \in Names /\ c.at = "add" /\ UNCHANGED disturbed
  BY DEF Added, AddedInv
<1>2. CASE /\ ~Exists(c.name) /\ users' = [users EXCEPT ![c.name] = u]
           /\ \E at \in {Step(c), "failed"} : adding' = [adding EXCEPT ![a].at = at]
  <2>1. PICK at \in {IF c.password THEN "password" ELSE "enable", "failed"} :
          adding' = [adding EXCEPT ![a].at = at]
    BY <1>1, <1>2 DEF Step, NextOf
  <2>2. at \in At
    BY DEF At
  <2>3. /\ adding' \in [Adds -> Call] /\ adding'[a].at = at
        /\ adding'[a].name = adding[a].name /\ adding'[a].password = adding[a].password
        /\ \A b \in Adds : b # a => adding'[b] = adding[b]
    BY <2>1, <2>2, GoesOn
  <2>4. u \in User /\ u # NoUser /\ u.by = a /\ u.password = NoPassword /\ u.on = FALSE
    <3>1. u \in User /\ u.by = a /\ u.password = NoPassword /\ u.on = FALSE
      BY DEF User
    <3> HIDE DEF u
    <3> QED BY <3>1, NoUserAssumption
  <2> HIDE DEF u
  <2>5. /\ users' \in [Names -> User \union {NoUser}] /\ users'[c.name] = u
        /\ \A n \in Names : n # c.name => users'[n] = users[n]
    BY <1>1, <1>2, <2>4 DEF AddedInv
  <2>6. \A b \in Adds : b # a /\ b \notin disturbed /\ adding[b].at \in {"password", "enable", "done"} =>
           adding[b].name # c.name
    BY <1>2 DEF AddedInv, Exists
  <2> QED BY <1>1, <2>1, <2>3, <2>4, <2>5, <2>6, AccountsAssumption DEF AddedInv, Exists, User, Call
<1>3. CASE UNCHANGED users /\ adding' = [adding EXCEPT ![a].at = "failed"]
  <2>1. "failed" \in At
    BY DEF At
  <2>2. /\ adding' \in [Adds -> Call] /\ adding'[a].at = "failed" /\ adding'[a].name = adding[a].name
        /\ \A b \in Adds : b # a => adding'[b] = adding[b]
    BY <1>3, <2>1, GoesOn
  <2> QED BY <1>1, <1>3, <2>2 DEF AddedInv, Exists, User
<1> QED BY <1>2, <1>3 DEF Added

\* The account of another call, which made it anew, is noted as disturbed.
LEMMA PasswordSetKeeps ==
  ASSUME AddedInv, NEW a \in Adds, PasswordSet(a)
  PROVE  AddedInv'
<1> DEFINE c == adding[a]
           n == c.name
<1>1. c \in Call /\ n \in Names /\ c.at = "password" /\ Step(c) = "enable"
  BY DEF PasswordSet, AddedInv, Step, NextOf
<1>2. /\ adding' \in [Adds -> Call] /\ adding'[a].at = "enable"
      /\ adding'[a].name = adding[a].name /\ adding'[a].password = adding[a].password
      /\ adding'[a].on = adding[a].on
      /\ \A b \in Adds : b # a => adding'[b] = adding[b]
  <2>1. adding' = [adding EXCEPT ![a].at = "enable"] /\ "enable" \in At
    BY <1>1 DEF PasswordSet, At
  <2> QED BY <2>1, GoesOn
<1>3. CASE Exists(n) /\ users' = [users EXCEPT ![n].password = a]
           /\ disturbed' = disturbed \union ({users[n].by} \ {a})
  <2> DEFINE v == [users[n] EXCEPT !.password = a]
  <2>1. users[n] \in User
    BY <1>1, <1>3 DEF AddedInv, Exists
  <2>2. v \in User /\ v.password = a /\ v.by = users[n].by /\ v.on = users[n].on
    BY <2>1, UserChanged
  <2> HIDE DEF v
  <2>3. /\ users' \in [Names -> User \union {NoUser}] /\ users'[n] = v /\ v # NoUser
        /\ \A m \in Names : m # n => users'[m] = users[m]
    <3>1. users' = [users EXCEPT ![n] = v]
      BY <1>3 DEF v
    <3> QED BY <1>1, <2>2, <3>1, NoUserAssumption DEF AddedInv
  <2>4. disturbed' \subseteq Adds /\ disturbed \subseteq disturbed' /\ (users[n].by = a \/ users[n].by \in disturbed')
    BY <1>3, <2>1 DEF AddedInv, User
  <2> HIDE DEF n, c
  <2>5. \A b \in Adds : adding'[b].at # "idle" => adding'[b].name \in Names
    BY <1>1, <1>2 DEF AddedInv, c
  <2>6. \A m \in Names : Exists(m)' => /\ adding'[users'[m].by].name = m
                                       /\ adding'[users'[m].by].at \notin {"idle", "add"}
    BY <1>1, <1>2, <1>3, <2>1, <2>2, <2>3 DEF AddedInv, Exists, c, User
  <2>7. ASSUME NEW b \in Adds \ disturbed', NEW m \in Names, Exists(m)', users'[m].password = b
        PROVE  users'[m].by = b
    BY <1>1, <1>3, <2>1, <2>2, <2>3, <2>4, <2>7 DEF AddedInv, Exists, c, n
  <2>8. ASSUME NEW b \in Adds \ disturbed', adding'[b].at \in {"password", "enable", "done"}
        PROVE  LET d == adding'[b]
                   u == users'[d.name]
               IN  /\ u # NoUser /\ u.by = b
                   /\ u.password = IF d.password /\ d.at # "password" THEN b ELSE NoPassword
                   /\ d.at = "password" => d.password
                   /\ u.on = (d.at = "done" /\ d.on /\ d.password)
    <3>1. CASE b = a
      BY <1>1, <1>2, <1>3, <2>2, <2>3, <2>4, <2>8, <3>1 DEF AddedInv, c, n
    <3>2. CASE b # a
      <4>1. adding[b].name \in Names /\ adding[b] = adding'[b] /\ b \notin disturbed
        BY <1>2, <2>4, <2>8, <3>2 DEF AddedInv
      <4>2. adding[b].name # n
        BY <2>4, <2>8, <3>2, <4>1 DEF AddedInv
      <4> QED BY <2>3, <2>8, <4>1, <4>2 DEF AddedInv
    <3> QED BY <3>1, <3>2
  <2> QED BY <1>2, <2>3, <2>4, <2>5, <2>6, <2>7, <2>8 DEF AddedInv
<1>4. CASE UNCHANGED users /\ disturbed' = disturbed \union {a}
  BY <1>1, <1>2, <1>4 DEF AddedInv, Exists, User
<1> QED BY <1>3, <1>4 DEF PasswordSet

\* The directory enables no account that has no password.
LEMMA EnabledSetKeeps ==
  ASSUME AddedInv, NEW a \in Adds, EnabledSet(a)
  PROVE  AddedInv'
<1> DEFINE c == adding[a]
           n == c.name
<1>1. c \in Call /\ n \in Names /\ c.at = "enable" /\ Step(c) = "done"
  BY DEF EnabledSet, AddedInv, Step, NextOf
<1>2. /\ adding' \in [Adds -> Call] /\ adding'[a].at = "done"
      /\ adding'[a].name = adding[a].name /\ adding'[a].password = adding[a].password
      /\ adding'[a].on = adding[a].on
      /\ \A b \in Adds : b # a => adding'[b] = adding[b]
  <2>1. adding' = [adding EXCEPT ![a].at = "done"] /\ "done" \in At
    BY <1>1 DEF EnabledSet, At
  <2> QED BY <2>1, GoesOn
<1>3. CASE Allowed(n, c.on) /\ users' = [users EXCEPT ![n].on = c.on]
           /\ disturbed' = disturbed \union ({users[n].by} \ {a})
  <2> DEFINE v == [users[n] EXCEPT !.on = c.on]
  <2>1. users[n] \in User /\ Exists(n) /\ (c.on => users[n].password # NoPassword) /\ c.on \in BOOLEAN
    BY <1>1, <1>3 DEF AddedInv, Exists, Allowed, Call
  <2>2. v \in User /\ v.on = c.on /\ v.by = users[n].by /\ v.password = users[n].password
    BY <2>1, UserChanged
  <2> HIDE DEF v
  <2>3. /\ users' \in [Names -> User \union {NoUser}] /\ users'[n] = v /\ v # NoUser
        /\ \A m \in Names : m # n => users'[m] = users[m]
    <3>1. users' = [users EXCEPT ![n] = v]
      BY <1>3 DEF v
    <3> QED BY <1>1, <2>2, <3>1, NoUserAssumption DEF AddedInv
  <2>4. disturbed' \subseteq Adds /\ disturbed \subseteq disturbed' /\ (users[n].by = a \/ users[n].by \in disturbed')
    BY <1>3, <2>1 DEF AddedInv, User
  <2> HIDE DEF n, c
  <2>5. \A b \in Adds : adding'[b].at # "idle" => adding'[b].name \in Names
    BY <1>1, <1>2 DEF AddedInv, c
  <2>6. \A m \in Names : Exists(m)' => /\ adding'[users'[m].by].name = m
                                       /\ adding'[users'[m].by].at \notin {"idle", "add"}
    BY <1>1, <1>2, <2>1, <2>2, <2>3 DEF AddedInv, Exists, c, User
  <2>7. ASSUME NEW b \in Adds \ disturbed', NEW m \in Names, Exists(m)', users'[m].password = b
        PROVE  users'[m].by = b
    BY <1>1, <2>1, <2>2, <2>3, <2>4, <2>7 DEF AddedInv, Exists
  <2>8. ASSUME NEW b \in Adds \ disturbed', adding'[b].at \in {"password", "enable", "done"}
        PROVE  LET d == adding'[b]
                   u == users'[d.name]
               IN  /\ u # NoUser /\ u.by = b
                   /\ u.password = IF d.password /\ d.at # "password" THEN b ELSE NoPassword
                   /\ d.at = "password" => d.password
                   /\ u.on = (d.at = "done" /\ d.on /\ d.password)
    <3>1. CASE b = a
      <4>1. /\ users[n].by = a
            /\ users[n].password = IF c.password THEN a ELSE NoPassword
        BY <1>1, <2>4, <2>8, <3>1 DEF AddedInv, c, n
      <4>2. v.on = (c.on /\ c.password)
        BY <1>1, <2>1, <2>2, <4>1 DEF Call
      <4> QED BY <1>1, <1>2, <2>2, <2>3, <3>1, <4>1, <4>2 DEF c, n
    <3>2. CASE b # a
      <4>1. adding[b].name \in Names /\ adding[b] = adding'[b] /\ b \notin disturbed
        BY <1>2, <2>4, <2>8, <3>2 DEF AddedInv
      <4>2. adding[b].name # n
        BY <2>4, <2>8, <3>2, <4>1 DEF AddedInv
      <4> QED BY <2>3, <2>8, <4>1, <4>2 DEF AddedInv
    <3> QED BY <3>1, <3>2
  <2> QED BY <1>2, <2>3, <2>4, <2>5, <2>6, <2>7, <2>8 DEF AddedInv
<1>4. CASE ~Allowed(n, c.on) /\ UNCHANGED <<users, disturbed>>
  <2>1. ASSUME a \notin disturbed PROVE users[n].on = (c.on /\ c.password)
    <3>1. /\ users[n] # NoUser /\ users[n].on = FALSE
          /\ users[n].password = IF c.password THEN a ELSE NoPassword
      BY <1>1, <2>1 DEF AddedInv
    <3>2. c.on /\ ~c.password
      BY <1>1, <1>4, <3>1, AccountsAssumption DEF Allowed, Exists, Call
    <3> QED BY <3>1, <3>2
  <2> QED BY <1>1, <1>2, <1>4, <2>1 DEF AddedInv, Exists, User
<1>5. CASE UNCHANGED users /\ disturbed' = disturbed \union {a}
  BY <1>1, <1>2, <1>5 DEF AddedInv, Exists, User
<1> QED BY <1>3, <1>4, <1>5 DEF EnabledSet

\* Another operator's edit of an account, or its end.
LEMMA OperatorKeeps ==
  ASSUME AddedInv, NEW n \in Names, NEW v \in User \union {NoUser}, Exists(n),
         v # NoUser => v.by = users[n].by /\ (v.password \in Adds => v.password = users[n].password),
         users' = [users EXCEPT ![n] = v], Disturbs(n), UNCHANGED adding
  PROVE  AddedInv'
<1>1. /\ users' \in [Names -> User \union {NoUser}] /\ users'[n] = v
      /\ \A m \in Names : m # n => users'[m] = users[m]
  BY DEF AddedInv
<1>2. /\ disturbed' \subseteq Adds /\ disturbed \subseteq disturbed'
      /\ \A a \in Adds : adding[a].name = n => a \in disturbed'
  BY DEF Disturbs, AddedInv
<1>3. \A m \in Names : Exists(m)' => /\ adding[users'[m].by].name = m
                                     /\ adding[users'[m].by].at \notin {"idle", "add"}
  BY <1>1 DEF AddedInv, Exists
<1>4. ASSUME NEW b \in Adds \ disturbed', NEW m \in Names, Exists(m)', users'[m].password = b
      PROVE  users'[m].by = b
  BY <1>1, <1>2, <1>4 DEF AddedInv, Exists
<1>5. \A b \in Adds \ disturbed' :
         adding[b].at \in {"password", "enable", "done"} => users'[adding[b].name] = users[adding[b].name]
  BY <1>1, <1>2 DEF AddedInv
<1> QED BY <1>1, <1>2, <1>3, <1>4, <1>5 DEF AddedInv

LEMMA AddedStays == AddedInv /\ [AccountsNext]_accountVars => AddedInv'
<1> SUFFICES ASSUME AddedInv, [AccountsNext]_accountVars PROVE AddedInv'
  OBVIOUS
<1>1. CASE UNCHANGED accountVars
  BY <1>1 DEF accountVars, AddedInv, Exists
<1>2. ASSUME NEW n \in Names, SetPassword(n) PROVE AddedInv'
  <2> DEFINE v == [users[n] EXCEPT !.password = Operator]
  <2>1. users[n] \in User /\ Exists(n) /\ Disturbs(n) /\ UNCHANGED adding
    BY <1>2 DEF SetPassword, AddedInv, Exists
  <2>2. v \in User /\ v.by = users[n].by /\ v.password = Operator
    BY <2>1, UserChanged
  <2>3. users' = [users EXCEPT ![n] = v]
    BY <1>2 DEF SetPassword
  <2> HIDE DEF v
  <2>4. PICK w \in User \union {NoUser} : w = v
    BY <2>2
  <2> QED BY <2>1, <2>2, <2>3, <2>4, OperatorKeeps, AccountsAssumption
<1>3. ASSUME NEW n \in Names, NEW on \in BOOLEAN, SetEnabled(n, on) PROVE AddedInv'
  <2> DEFINE v == [users[n] EXCEPT !.on = on]
  <2>1. users[n] \in User /\ Exists(n) /\ Disturbs(n) /\ UNCHANGED adding
    BY <1>3 DEF SetEnabled, Allowed, AddedInv, Exists
  <2>2. v \in User /\ v.by = users[n].by /\ v.password = users[n].password
    BY <2>1, UserChanged
  <2>3. users' = [users EXCEPT ![n] = v]
    BY <1>3 DEF SetEnabled
  <2> HIDE DEF v
  <2>4. PICK w \in User \union {NoUser} : w = v
    BY <2>2
  <2> QED BY <2>1, <2>2, <2>3, <2>4, OperatorKeeps
<1>4. ASSUME NEW n \in Names, DeleteUser(n) PROVE AddedInv'
  BY <1>4, OperatorKeeps DEF DeleteUser
<1> QED
  BY <1>1, <1>2, <1>3, <1>4, AddUserKeeps, AddedKeeps, PasswordSetKeeps, EnabledSetKeeps DEF AccountsNext

\* The inductive invariant of the settings.
SettingsInv ==
  settings \in Settings /\ settingsFile \in Settings \union {TornSettings} /\ SettingsStored

LEMMA InitSettings == SettingsInit => SettingsInv
BY DEF SettingsInit, SettingsInv, SettingsStored, LoadedSettings, NoSettings, Settings

LEMMA SettingsStay == SettingsInv /\ [SettingsNext]_settingsVars => SettingsInv'
<1> SUFFICES ASSUME SettingsInv, [SettingsNext]_settingsVars PROVE SettingsInv'
  OBVIOUS
<1>1. CASE UNCHANGED settingsVars
  BY <1>1 DEF settingsVars, SettingsInv, SettingsStored
<1>2. ASSUME NEW given \in BOOLEAN, SetVtKey(given) PROVE SettingsInv'
  <2>1. [settings EXCEPT !.key = given] \in Settings
    BY DEF SettingsInv, Settings
  <2> QED BY <1>2, <2>1, TornAssumption DEF SetVtKey, Persisted, SettingsInv, SettingsStored, LoadedSettings
<1>3. ASSUME NEW c \in Connects, NEW u \in ScannerUrls, NEW given \in BOOLEAN, ConnectScanner(c, u, given)
      PROVE  SettingsInv'
  <2>1. [settings EXCEPT !.url = u, !.token = given \/ @, !.reachable = FALSE] \in Settings
    BY DEF SettingsInv, Settings
  <2>2. probing' # {}
    BY <1>3 DEF ConnectScanner
  <2> QED BY <1>3, <2>1, <2>2 DEF ConnectScanner, SettingsInv, SettingsStored
<1>4. ASSUME NEW c \in Connects, NEW answered \in BOOLEAN, Probed(c, answered) PROVE SettingsInv'
  <2>1. [settings EXCEPT !.reachable = answered] \in Settings
    BY DEF SettingsInv, Settings
  <2> QED BY <1>4, <2>1, TornAssumption DEF Probed, Persisted, SettingsInv, SettingsStored, LoadedSettings
<1>5. CASE SettingsRestart
  BY <1>5 DEF SettingsRestart, SettingsInv, SettingsStored, LoadedSettings, NoSettings, Settings
<1> QED BY <1>1, <1>2, <1>3, <1>4, <1>5 DEF SettingsNext

\* Accounts of the domain are as they were asked for, however calls of one name
\* interleave; every password that is kept can be read, whenever the process dies; and
\* a restart reads the settings that are shown.
THEOREM SecretsAreKept == MCSpec => []SecretsKept
<1> DEFINE I == FleetInv /\ AskedOf /\ AddedInv /\ SettingsInv
<1>1. MCInit => I
  BY InitFleet, InitAdded, InitSettings DEF MCInit
<1>2. I /\ [MCNext]_consoleVars => I'
  <2> SUFFICES ASSUME I, [MCNext]_consoleVars PROVE I'
    OBVIOUS
  <2>1. [FleetNext]_fleetVars /\ [AccountsNext]_accountVars /\ [SettingsNext]_settingsVars
    BY DEF MCNext, consoleVars, AuthStep, SignInStep, LiveStep, SimulatorStep, PollStep, TerminalStep,
           AccountStep, FleetStep, InstallationStep, GatewayStep, SettingsStep, PagesRest, hostVars
  <2> QED BY <2>1, FleetStays, AskedOfStays, AddedStays, SettingsStay
<1>3. I => SecretsKept
  <2> SUFFICES ASSUME I PROVE AddedAsAsked
    BY DEF SecretsKept, FleetInv, SettingsInv
  <2>1. ASSUME NEW a \in Adds \ disturbed, adding[a].at = "done"
        PROVE  LET c == adding[a]
               IN  users[c.name] = [by |-> a, password |-> IF c.password THEN a ELSE NoPassword,
                                    on |-> c.on /\ c.password]
    <3> DEFINE c == adding[a]
               u == users[c.name]
    <3>1. c.name \in Names /\ u \in User /\ u.by = a /\ u.on = (c.on /\ c.password)
          /\ u.password = IF c.password THEN a ELSE NoPassword
      BY <2>1 DEF AddedInv
    <3> HIDE DEF u
    <3>2. u = [by |-> u.by, password |-> u.password, on |-> u.on]
      BY <3>1 DEF User
    <3> QED BY <3>1, <3>2 DEF u
  <2> QED BY <2>1 DEF AddedAsAsked, AddedInv
<1> QED BY <1>1, <1>2, <1>3, PTL DEF MCSpec

-----------------------------------------------------------------------------
(* The gate.                                                               *)

\* The inductive invariant: the check that is heeded is the only one and of the page the
\* browser is at, and a page that is seen waits for none.
GateInv ==
  /\ url \in Urls /\ checks \subseteq Check /\ ready \in BOOLEAN
  /\ url = "/" /\ ready => vouched /\ token # "none"
  /\ \A c, d \in checks : c.alive /\ d.alive => c = d
  /\ \A c \in checks : c.alive => c.url = url /\ ~ready

LEMMA InitGate == SignInInit => GateInv
<1> SUFFICES ASSUME SignInInit PROVE GateInv
  OBVIOUS
<1> DEFINE own == [url |-> url, at |-> "status", alive |-> TRUE]
<1>1. own \in Check /\ own.url = url
  BY DEF SignInInit, Check
<1>2. checks = {own} /\ url \in Urls /\ ready = FALSE
  BY DEF SignInInit
<1> HIDE DEF own
<1> QED BY <1>1, <1>2 DEF GateInv

\* A page that is visited has one check that is heeded, its own.
LEMMA VisitKeeps ==
  ASSUME GateInv, NEW u \in Urls, Visit(u) \/ Load(u)
  PROVE  GateInv'
<1> DEFINE own == [url |-> u, at |-> "status", alive |-> TRUE]
<1>1. own \in Check /\ own.alive /\ own.url = u
  BY DEF Check
<1>2. \A c \in checks : [c EXCEPT !.alive = FALSE] \in Check /\ ~[c EXCEPT !.alive = FALSE].alive
  BY DEF Check, GateInv
<1>3. url' = u /\ ready' = FALSE
  BY DEF Visit, Load
<1>4. \A c \in checks' : c \in Check /\ (c.alive => c = own)
  <2>1. CASE Visit(u)
    <3>1. checks' = {[c EXCEPT !.alive = FALSE] : c \in checks} \union {own}
      BY <2>1 DEF Visit
    <3> HIDE DEF own
    <3> QED BY <1>1, <1>2, <3>1
  <2>2. CASE Load(u)
    <3>1. checks' = {own}
      BY <2>2 DEF Load
    <3> HIDE DEF own
    <3> QED BY <1>1, <3>1
  <2> QED BY <2>1, <2>2
<1> HIDE DEF own
<1> QED BY <1>1, <1>3, <1>4 DEF GateInv

\* A check that has its answer is taken away.
LEMMA DoneKeeps ==
  ASSUME GateInv, NEW c \in checks, Done(c), ready' = ready, token' = token
  PROVE  GateInv'
BY DEF GateInv, Done

LEMMA HeededKeeps ==
  ASSUME GateInv, NEW c \in checks, c.alive, checks' = checks \ {c}, url' = url, ready' = TRUE,
         c.url = "/" => vouched' /\ token' # "none"
  PROVE  GateInv'
BY DEF GateInv

LEMMA StatusKeeps ==
  ASSUME GateInv, NEW c \in checks, StatusAnswered(c)
  PROVE  GateInv'
<1> USE DEF Heeded
<1>1. c.url \in Urls /\ c \in Check
  BY DEF GateInv, Check
<1>2. CASE ~c.alive
  <2>1. Done(c) /\ ready' = ready /\ token' = token
    BY <1>2, Zenon DEF StatusAnswered
  <2> QED BY <2>1, DoneKeeps
<1>3. CASE c.alive /\ account = "none" /\ c.url = "/setup"
  <2>1. Done(c) /\ ready' = TRUE
    BY <1>3 DEF StatusAnswered
  <2> QED BY <1>3, <2>1, HeededKeeps DEF Done
<1>4. CASE c.alive /\ account = "none" /\ c.url # "/setup"
  <2>1. Visit("/setup")
    BY <1>4 DEF StatusAnswered
  <2> QED BY <2>1, VisitKeeps DEF Urls
<1>5. CASE c.alive /\ account # "none" /\ (c.url = "/setup" \/ (c.url = "/" /\ token = "none"))
  <2>1. Visit("/login")
    BY <1>5 DEF StatusAnswered
  <2> QED BY <2>1, VisitKeeps DEF Urls
<1>6. CASE c.alive /\ account # "none" /\ c.url = "/login"
  <2>1. Done(c) /\ ready' = TRUE
    BY <1>6 DEF StatusAnswered
  <2> QED BY <1>6, <2>1, HeededKeeps DEF Done
<1>7. CASE c.alive /\ account # "none" /\ c.url = "/" /\ token # "none"
  <2> DEFINE d == [c EXCEPT !.at = "me"]
  <2>1. /\ checks' = (checks \ {c}) \union {d} /\ UNCHANGED <<url, ready, vouched, token>>
    BY <1>7 DEF StatusAnswered
  <2>2. d \in Check /\ d.alive = c.alive /\ d.url = c.url
    BY <1>1 DEF Check
  <2> HIDE DEF d
  <2> QED BY <1>7, <2>1, <2>2 DEF GateInv
<1> QED BY <1>1, <1>2, <1>3, <1>4, <1>5, <1>6, <1>7 DEF Urls

LEMMA MeKeeps ==
  ASSUME GateInv, NEW c \in checks, MeAnswered(c)
  PROVE  GateInv'
<1> USE DEF Heeded
<1>1. CASE token = "live" /\ ~Heeded(c) /\ Done(c) /\ UNCHANGED <<ready, token>>
  BY <1>1, DoneKeeps
<1>2. CASE ChangeFirst(c)
  BY <1>2, VisitKeeps DEF ChangeFirst, Urls
<1>3. CASE /\ token = "live" /\ Heeded(c) /\ ready' = TRUE /\ vouched' = (c.url = url)
           /\ checks' = checks \ {c} /\ UNCHANGED <<url, form, token>>
  <2>1. c.url = url
    BY <1>3 DEF GateInv
  <2>2. vouched' /\ token' # "none"
    BY <1>3, <2>1
  <2> QED BY <1>3, <2>2, HeededKeeps
<1>4. CASE Load("/login")
  BY <1>4, VisitKeeps DEF Urls
<1>5. CASE Done(c) /\ UNCHANGED <<ready, token>>
  BY <1>5, DoneKeeps
<1> QED BY <1>1, <1>2, <1>3, <1>4, <1>5 DEF MeAnswered

LEMMA NoAnswerKeeps ==
  ASSUME GateInv, NEW c \in checks, NoAnswer(c)
  PROVE  GateInv'
<1> USE DEF Heeded
<1>1. CASE c.alive /\ c.url = "/"
  <2>1. Visit("/login")
    BY <1>1 DEF NoAnswer
  <2> QED BY <2>1, VisitKeeps DEF Urls
<1>2. CASE c.alive /\ c.url # "/"
  <2>1. Done(c) /\ ready' = TRUE
    BY <1>2 DEF NoAnswer
  <2> QED BY <1>2, <2>1, HeededKeeps DEF Done
<1>3. CASE ~c.alive
  <2>1. Done(c) /\ ready' = ready /\ token' = token
    BY <1>3, Zenon DEF NoAnswer
  <2> QED BY <2>1, DoneKeeps
<1> QED BY <1>1, <1>2, <1>3

LEMMA GateStays == GateInv /\ [SignInNext]_signVars => GateInv'
<1> SUFFICES ASSUME GateInv, [SignInNext]_signVars PROVE GateInv'
  OBVIOUS
<1>0. {"/", "/login", "/setup"} = Urls
  BY DEF Urls
<1>1. CASE Gate
  BY <1>1, StatusKeeps, MeKeeps, NoAnswerKeeps DEF Gate
<1>2. CASE SignedIn
  <2>1. CASE UNCHANGED <<url, ready, checks, vouched>>
    BY <1>2, <2>1 DEF GateInv, SignedIn
  <2>2. CASE Load("/")
    BY <1>0, <2>2, VisitKeeps
  <2> QED BY <1>2, <2>1, <2>2 DEF SignedIn
<1>3. CASE PasswordChanged \/ SetupPolls \/ Unauthorized \/ SignOut
  BY <1>0, <1>3, VisitKeeps DEF PasswordChanged, SetupPolls, Unauthorized, SignOut
<1>4. ASSUME NEW u \in Urls, Browse(u) \/ Enter(u) PROVE GateInv'
  BY <1>4, VisitKeeps DEF Browse, Enter
<1>5. ASSUME NEW now, SessionEnds(now) PROVE GateInv'
  BY <1>5 DEF SessionEnds, GateInv
<1>6. CASE AccountAdded
  BY <1>6 DEF AccountAdded, GateInv
<1>7. CASE UNCHANGED signVars
  BY <1>7 DEF signVars, GateInv
<1> QED BY <1>1, <1>2, <1>3, <1>4, <1>5, <1>6, <1>7 DEF SignInNext

LEMMA GateInvHolds == GateInv => GateHolds
<1> SUFFICES ASSUME GateInv PROVE Cardinality({c \in checks : c.alive}) <= 1
  BY DEF GateInv, GateHolds
<1> DEFINE H == {c \in checks : c.alive}
<1>1. CASE H = {}
  BY <1>1, FS_EmptySet
<1>2. CASE H # {}
  <2>1. PICK c \in H : TRUE
    BY <1>2
  <2>2. H = {c}
    BY <2>1 DEF GateInv
  <2> QED BY <2>2, FS_Singleton
<1> QED BY <1>1, <1>2

-----------------------------------------------------------------------------
(* Whose answer a page shows, and its terminal.                            *)

\* The fetch that may still be taken is of the path that is shown.
AskedInv ==
  /\ ShownIsAsked
  /\ path # NoPath => \A f \in fetches : f.n = tick => f.path = path

LEMMA InitAsked == PollInit => AskedInv
BY DEF PollInit, AskedInv, ShownIsAsked

LEMMA AskedLoad ==
  ASSUME PollInv, NEW p, p # NoPath, Loaded(p), path' = p
  PROVE  \A f \in fetches' : f.n = tick' => f.path = path'
<1> DEFINE new == [n |-> tick + 1, path |-> p, version |-> Unanswered]
<1>1. tick' = tick + 1 /\ fetches' = fetches \union {new}
  BY DEF Loaded
<1>2. new.path = p
  OBVIOUS
<1> HIDE DEF new
<1>3. \A f \in fetches : f.n # tick + 1
  BY DEF PollInv, Fetch
<1> QED BY <1>1, <1>2, <1>3

LEMMA AskedStays == PollInv /\ AskedInv /\ [PollNext]_pollVars => AskedInv'
<1> SUFFICES ASSUME PollInv, AskedInv, [PollNext]_pollVars PROVE AskedInv'
  OBVIOUS
<1>1. CASE UNCHANGED pollVars
  BY <1>1 DEF pollVars, AskedInv, ShownIsAsked
<1>2. ASSUME NEW p \in Paths \union {NoPath}, ShowPath(p) PROVE AskedInv'
  <2>1. loading' = TRUE /\ path' = p /\ Loaded(p)
    BY <1>2 DEF ShowPath
  <2> QED BY <2>1, AskedLoad DEF AskedInv, ShownIsAsked
<1>3. CASE Poll
  <2>1. path # NoPath /\ Loaded(path) /\ UNCHANGED <<path, data, loading, failed>>
    BY <1>3 DEF Poll
  <2> QED BY <2>1, AskedLoad DEF AskedInv, ShownIsAsked
<1>4. CASE ServerChanges
  BY <1>4 DEF ServerChanges, AskedInv, ShownIsAsked
<1>5. ASSUME NEW f \in fetches, ServerAnswers(f) PROVE AskedInv'
  <2> DEFINE g == [f EXCEPT !.version = version]
  <2>1. fetches' = (fetches \ {f}) \union {g} /\ UNCHANGED <<path, tick, data, loading, failed>>
    BY <1>5 DEF ServerAnswers
  <2>2. g.n = f.n /\ g.path = f.path
    BY DEF PollInv, Fetch
  <2> HIDE DEF g
  <2> QED BY <2>1, <2>2 DEF AskedInv, ShownIsAsked
<1>6. ASSUME NEW f \in fetches, Arrives(f) PROVE AskedInv'
  <2>1. fetches' = fetches \ {f} /\ UNCHANGED <<path, tick>>
    BY <1>6 DEF Arrives
  <2>2. CASE f.n = tick /\ data' = [path |-> f.path, version |-> f.version]
    <3>1. path # NoPath => data'.path = path
      BY <2>2 DEF AskedInv
    <3> QED BY <2>1, <3>1 DEF AskedInv, ShownIsAsked
  <2>3. CASE failed' = TRUE
    BY <2>1, <2>3 DEF AskedInv, ShownIsAsked
  <2>4. CASE UNCHANGED <<data, failed, loading>>
    BY <2>1, <2>4 DEF AskedInv, ShownIsAsked
  <2> QED BY <1>6, <2>2, <2>3, <2>4 DEF Arrives, Latest
<1> QED BY <1>1, <1>2, <1>3, <1>4, <1>5, <1>6 DEF PollNext

\* The inductive invariant: a connection behind a socket is one the server still serves,
\* and while one call of connect waits there is no socket.
TerminalInv ==
  /\ loads \in Nat /\ overlapped \in BOOLEAN /\ current \in Sockets \union {NoSocket}
  /\ sock \in [Sockets -> {"unused", "opening", "open", "closing", "closed"}]
  /\ served \in [Sockets -> {"none", "open", "closed"}]
  /\ ssh \in [Sockets -> {"none", "dialling", "shell", "ended"}]
  /\ TerminalKept
  /\ loads > 0 => overlapped \/ (loads = 1 /\ current = NoSocket /\ phase # "open")

LEMMA InitTerminal == TerminalsInit => TerminalInv
<1> SUFFICES ASSUME TerminalsInit PROVE TerminalInv
  OBVIOUS
<1>1. /\ sock \in [Sockets -> {"unused", "opening", "open", "closing", "closed"}]
      /\ \A s \in Sockets : sock[s] = "unused"
  BY DEF TerminalsInit
<1>2. served \in [Sockets -> {"none", "open", "closed"}]
  BY DEF TerminalsInit
<1>3. /\ ssh \in [Sockets -> {"none", "dialling", "shell", "ended"}]
      /\ \A s \in Sockets : ssh[s] = "none"
  BY DEF TerminalsInit
<1>4. loads = 0 /\ overlapped = FALSE /\ current = NoSocket /\ phase = "idle"
  BY DEF TerminalsInit
<1>5. TerminalKept
  BY <1>1, <1>3, <1>4 DEF TerminalKept, Alive
<1>6. overlapped \in BOOLEAN
  BY <1>4
<1> QED BY <1>1, <1>2, <1>3, <1>4, <1>5, <1>6 DEF TerminalInv

LEMMA TeardownIs ==
  ASSUME TerminalInv, Teardown
  PROVE  /\ current' = NoSocket
         /\ sock' \in [Sockets -> {"unused", "opening", "open", "closing", "closed"}]
         /\ ~overlapped => \A s \in Sockets : sock'[s] \notin {"opening", "open"}
<1>1. CASE current # NoSocket /\ sock[current] \in {"opening", "open"}
  <2>1. sock' = [sock EXCEPT ![current] = "closing"] /\ current \in Sockets
    BY <1>1 DEF Teardown, TerminalInv
  <2> QED BY <2>1 DEF Teardown, TerminalInv, TerminalKept
<1>2. CASE ~(current # NoSocket /\ sock[current] \in {"opening", "open"})
  <2>1. sock' = sock
    BY <1>2 DEF Teardown
  <2> QED BY <1>2, <2>1, TerminalsAssumption DEF Teardown, TerminalInv, TerminalKept
<1> QED BY <1>1, <1>2

LEMMA TerminalStays == TerminalInv /\ [TerminalsNext]_terminalVars => TerminalInv'
<1> SUFFICES ASSUME TerminalInv, [TerminalsNext]_terminalVars PROVE TerminalInv'
  OBVIOUS
<1>0. NoSocket \notin Sockets
  BY TerminalsAssumption
<1>1. CASE Connect
  <2>1. /\ Teardown /\ phase' = "connecting" /\ loads' = loads + 1 /\ UNCHANGED <<served, ssh>>
        /\ overlapped' = (overlapped \/ loads > 0)
    BY <1>1 DEF Connect
  <2>2. overlapped' \in BOOLEAN /\ (~overlapped' => ~overlapped /\ loads = 0)
    <3>1. overlapped' \in BOOLEAN
      BY <2>1, Zenon
    <3>2. ~overlapped' => ~overlapped /\ ~(loads > 0)
      BY <2>1, Zenon
    <3> QED BY <3>1, <3>2 DEF TerminalInv
  <2> QED BY <2>1, <2>2, TeardownIs DEF TerminalInv, TerminalKept, Alive
<1>2. CASE Unmount
  <2>1. Teardown /\ UNCHANGED <<loads, phase, served, ssh, overlapped>>
    BY <1>2 DEF Unmount
  <2> QED BY <2>1, TeardownIs DEF TerminalInv, TerminalKept, Alive
<1>3. CASE Loaded_
  <2>1. loads > 0 /\ loads' = loads - 1 /\ UNCHANGED <<phase, served, ssh, overlapped>>
    BY <1>3 DEF Loaded_
  <2>2. CASE UNCHANGED <<current, sock>>
    BY <2>1, <2>2 DEF TerminalInv, TerminalKept, Alive
  <2>3. ASSUME NEW s \in Sockets, current' = s, sock' = [sock EXCEPT ![s] = "opening"]
        PROVE  TerminalInv'
    BY <1>0, <2>1, <2>3 DEF TerminalInv, TerminalKept, Alive
  <2> QED BY <1>3, <2>2, <2>3 DEF Loaded_
<1>4. ASSUME NEW s \in Sockets, OnOpen(s) PROVE TerminalInv'
  BY <1>0, <1>4 DEF OnOpen, TerminalInv, TerminalKept, Alive
<1>5. ASSUME NEW s \in Sockets, OnClose(s) PROVE TerminalInv'
  BY <1>0, <1>5 DEF OnClose, TerminalInv, TerminalKept, Alive
<1>6. ASSUME NEW s \in Sockets, Auth(s) PROVE TerminalInv'
  BY <1>6 DEF Auth, TerminalInv, TerminalKept, Alive
<1>7. ASSUME NEW s \in Sockets, Ready(s) PROVE TerminalInv'
  BY <1>7 DEF Ready, TerminalInv, TerminalKept, Alive
<1>8. ASSUME NEW s \in Sockets, SshCloses(s) PROVE TerminalInv'
  BY <1>8 DEF SshCloses, TerminalInv, TerminalKept, Alive
<1>9. ASSUME NEW s \in Sockets, SocketCloses(s) PROVE TerminalInv'
  BY <1>9 DEF SocketCloses, TerminalInv, TerminalKept, Alive
<1>10. CASE UNCHANGED terminalVars
  BY <1>10 DEF terminalVars, TerminalInv, TerminalKept, Alive
<1> QED BY <1>1, <1>2, <1>3, <1>4, <1>5, <1>6, <1>7, <1>8, <1>9, <1>10 DEF TerminalsNext

-----------------------------------------------------------------------------
(* The live view.                                                          *)

\* The lower of two numbers.
Lower(a, b) == IF a <= b THEN a ELSE b

\* What is kept of a list when one comes to its front,
WithFront(new, cap, f, list) ==
  /\ new \in Seq(Fact) /\ Len(new) = Lower(cap, Len(list) + 1)
  /\ \A i \in 1 .. Lower(cap, Len(list) + 1) : new[i] = IF i = 1 THEN f ELSE list[i - 1]

LEMMA NewestIs ==
  ASSUME NEW cap \in Nat \ {0}, NEW f \in Fact, NEW list \in Seq(Fact)
  PROVE  WithFront(Newest(cap, f, list), cap, f, list)
<1> DEFINE longer == <<f>> \o list
           n == Lower(cap, Len(list) + 1)
<1>1. Len(list) \in Nat /\ n \in Nat /\ n <= Len(list) + 1
  BY DEF Lower
<1>2. /\ longer \in Seq(Fact) /\ Len(longer) = Len(list) + 1
      /\ \A i \in 1 .. Len(list) + 1 : longer[i] = IF i = 1 THEN f ELSE list[i - 1]
  OBVIOUS
<1>3. Newest(cap, f, list) = SubSeq(longer, 1, n)
  BY <1>1, <1>2 DEF Newest, Lower
<1> HIDE DEF longer, n
<1>4. /\ SubSeq(longer, 1, n) \in Seq(Fact) /\ Len(SubSeq(longer, 1, n)) = n
      /\ \A i \in 1 .. n : SubSeq(longer, 1, n)[i] = longer[i]
  BY <1>1, <1>2
<1> QED BY <1>1, <1>2, <1>3, <1>4 DEF n, WithFront

\* and of a list that is too long.
LEMMA FirstOfIs ==
  ASSUME NEW cap \in Nat \ {0}, NEW list \in Seq(Fact)
  PROVE  /\ First(cap, list) \in Seq(Fact) /\ Len(First(cap, list)) = Lower(cap, Len(list))
         /\ \A i \in 1 .. Lower(cap, Len(list)) : First(cap, list)[i] = list[i]
<1>1. First(cap, list) = SubSeq(list, 1, Lower(cap, Len(list)))
  BY DEF First, Lower
<1>2. Lower(cap, Len(list)) \in Nat /\ Lower(cap, Len(list)) <= Len(list)
  BY DEF Lower
<1> QED BY <1>1, <1>2

\* A short list of a list with one more is a list with one more of a short list.
LEMMA FirstOfNewest ==
  ASSUME NEW f \in Fact, NEW list \in Seq(Fact)
  PROVE  First(AlertCap, Newest(EventCap, f, list)) = Newest(AlertCap, f, First(AlertCap, list))
<1> DEFINE n == Len(list)
<1>1. /\ EventCap \in Nat \ {0} /\ AlertCap \in Nat \ {0} /\ AlertCap <= EventCap /\ n \in Nat
  BY LiveAssumption
<1>2. PICK long : long = Newest(EventCap, f, list) /\ WithFront(long, EventCap, f, list)
  BY <1>1, NewestIs
<1>3. PICK short \in Seq(Fact) :
        /\ short = First(AlertCap, list) /\ Len(short) = Lower(AlertCap, n)
        /\ \A i \in 1 .. Lower(AlertCap, n) : short[i] = list[i]
  BY <1>1, FirstOfIs
<1>4. PICK a \in Seq(Fact) :
        /\ a = First(AlertCap, long) /\ Len(a) = Lower(AlertCap, Len(long))
        /\ \A i \in 1 .. Lower(AlertCap, Len(long)) : a[i] = long[i]
  BY <1>1, <1>2, FirstOfIs DEF WithFront
<1>5. PICK b : b = Newest(AlertCap, f, short) /\ WithFront(b, AlertCap, f, short)
  BY <1>1, NewestIs
<1> HIDE DEF n
<1>6. Len(a) = Lower(AlertCap, n + 1) /\ Len(b) = Lower(AlertCap, n + 1)
  <2>1. Len(long) = Lower(EventCap, n + 1)
    BY <1>2 DEF WithFront, n
  <2>2. Lower(AlertCap, Lower(EventCap, n + 1)) = Lower(AlertCap, n + 1)
    BY <1>1 DEF Lower
  <2>3. Len(b) = Lower(AlertCap, Lower(AlertCap, n) + 1)
    BY <1>3, <1>5 DEF WithFront
  <2>4. Lower(AlertCap, Lower(AlertCap, n) + 1) = Lower(AlertCap, n + 1)
    BY <1>1 DEF Lower
  <2> QED BY <1>4, <2>1, <2>2, <2>3, <2>4
<1>7. ASSUME NEW i \in 1 .. Lower(AlertCap, n + 1) PROVE a[i] = b[i]
  <2>1. i \in 1 .. Lower(EventCap, n + 1) /\ a[i] = long[i]
    BY <1>1, <1>2, <1>4, <1>6 DEF Lower
  <2>2. b[i] = IF i = 1 THEN f ELSE short[i - 1]
    BY <1>5, <1>6 DEF WithFront
  <2>3. i # 1 => i - 1 \in 1 .. Lower(AlertCap, n)
    BY <1>1 DEF Lower
  <2>4. long[i] = IF i = 1 THEN f ELSE list[i - 1]
    BY <1>2, <2>1 DEF WithFront, n
  <2> QED BY <1>3, <2>1, <2>2, <2>3, <2>4
<1>8. a = b
  BY <1>4, <1>5, <1>6, <1>7 DEF WithFront
<1> QED BY <1>2, <1>3, <1>4, <1>5, <1>8

\* Newer than all of a list; a list stays in order when such a one comes to its front.
AllBelow(list, n) == \A i \in 1 .. Len(list) : list[i].n < n

LEMMA StaysSorted ==
  ASSUME NEW cap \in Nat \ {0}, NEW f \in Fact, NEW list \in Seq(Fact),
         NewestFirst(list), AllBelow(list, f.n)
  PROVE  /\ Newest(cap, f, list) \in Seq(Fact)
         /\ NewestFirst(Newest(cap, f, list))
         /\ \A m \in Nat : f.n < m => AllBelow(Newest(cap, f, list), m)
<1> DEFINE new == Newest(cap, f, list)
           n == Lower(cap, Len(list) + 1)
<1>1. /\ new \in Seq(Fact) /\ Len(new) = n /\ n \in Nat /\ n <= Len(list) + 1 /\ Len(list) \in Nat
      /\ \A i \in 1 .. n : new[i] = IF i = 1 THEN f ELSE list[i - 1]
  <2>1. n \in Nat /\ n <= Len(list) + 1 /\ Len(list) \in Nat
    BY DEF Lower
  <2> QED BY <2>1, NewestIs DEF WithFront
<1> HIDE DEF new, n
<1>2. \A i \in 1 .. Len(list) : list[i].n \in Nat /\ list[i].n < f.n
  <2>1. \A i \in 1 .. Len(list) : list[i] \in Fact
    OBVIOUS
  <2> QED BY <2>1, LiveAssumption DEF AllBelow, Fact
<1>3. f.n \in Nat
  BY LiveAssumption DEF Fact
<1>4. NewestFirst(new)
  <2> SUFFICES ASSUME NEW i \in 1 .. n, NEW j \in 1 .. n, i < j PROVE new[i].n > new[j].n
    BY <1>1 DEF NewestFirst
  <2>1. j # 1 /\ j - 1 \in 1 .. Len(list) /\ new[j] = list[j - 1]
    BY <1>1, SMTT(20)
  <2>2. CASE i = 1
    BY <1>1, <1>2, <1>3, <2>1, <2>2
  <2>3. CASE i # 1
    <3>1. i - 1 \in 1 .. Len(list) /\ new[i] = list[i - 1] /\ i - 1 < j - 1
      BY <1>1, <2>3
    <3> QED BY <2>1, <3>1 DEF NewestFirst
  <2> QED BY <2>2, <2>3
<1>5. ASSUME NEW m \in Nat, f.n < m PROVE AllBelow(new, m)
  <2> SUFFICES ASSUME NEW i \in 1 .. n PROVE new[i].n < m
    BY <1>1 DEF AllBelow
  <2>1. CASE i = 1
    BY <1>1, <1>5, <2>1
  <2>2. CASE i # 1
    <3>1. i - 1 \in 1 .. Len(list) /\ new[i] = list[i - 1]
      BY <1>1, <2>2
    <3> QED BY <1>2, <1>3, <1>5, <3>1
  <2> QED BY <2>1, <2>2
<1> QED BY <1>1, <1>4, <1>5 DEF new

\* A list of the server, of what was fetched of it, or of what is shown.
Listed(list, last) == list \in Seq(Fact) /\ NewestFirst(list) /\ AllBelow(list, last + 1)

\* What is on the wire came in order, and after all that is shown.
Pending(w, last, lists) ==
  /\ w \in Seq(Fact)
  /\ \A i, j \in 1 .. Len(w) : i < j => w[i].n < w[j].n
  /\ \A i \in 1 .. Len(w) : w[i].n <= last /\ \A k \in Kinds : AllBelow(lists[k], w[i].n)

Current(c) == conn[c] \in {"opening", "open"}

\* The inductive invariant: at most one connection is current, and what it has not
\* delivered is newer than what the page shows.
LiveInv ==
  /\ world \in [alert : Seq(Fact), lease : Seq(Fact), active : {Severe(world.alert)}, last : Nat]
  /\ \A k \in Kinds : Listed(world[k], world.last)
  /\ DOMAIN fetched \subseteq Kinds /\ fetched \in [DOMAIN fetched -> Seq(Fact)]
  /\ \A k \in DOMAIN fetched : Listed(fetched[k], world.last)
  /\ snapshot \in [Kinds -> Seq(Fact)] /\ \A k \in Kinds : Listed(snapshot[k], world.last)
  /\ alerts = First(AlertCap, snapshot["alert"])
  /\ page \in {"loading", "live", "demo", "gone"}
  /\ conn \in [Conns -> {"unused", "opening", "open", "closed"}]
  /\ \A c, d \in Conns : Current(c) /\ Current(d) => c = d
  /\ retry \in BOOLEAN /\ (retry => page \in {"live", "demo"})
  /\ retry \/ page \in {"loading", "gone"} => \A c \in Conns : ~Current(c)
  /\ wire \in [Conns -> Seq(Fact)]
  /\ \A c \in Conns : conn[c] # "open" => wire[c] = << >>
  /\ \A c \in Conns : Pending(wire[c], world.last, snapshot)

LEMMA ListedLonger ==
  ASSUME NEW list, NEW m \in Nat, NEW n \in Nat, m <= n, Listed(list, m)
  PROVE  Listed(list, n)
<1> SUFFICES ASSUME NEW i \in 1 .. Len(list) PROVE list[i].n < n + 1
  BY DEF Listed, AllBelow
<1>1. list[i] \in Fact /\ list[i].n < m + 1
  BY DEF Listed, AllBelow
<1> QED BY <1>1, LiveAssumption DEF Fact

LEMMA NothingPending ==
  ASSUME NEW last, NEW lists PROVE Pending(<< >>, last, lists)
BY DEF Pending

\* Something happens: the server keeps it, and it comes after all that was sent.
LEMMA PendingLonger ==
  ASSUME NEW w, NEW last \in Nat, NEW lists, Pending(w, last, lists)
  PROVE  Pending(w, last + 1, lists)
<1>1. \A i \in 1 .. Len(w) : w[i] \in Fact
  BY DEF Pending
<1> QED BY <1>1, LiveAssumption DEF Pending, Fact

LEMMA PendingAppend ==
  ASSUME NEW w, NEW last \in Nat, NEW lists, Pending(w, last, lists),
         \A k \in Kinds : AllBelow(lists[k], last + 1), NEW f \in Fact, f.n = last + 1
  PROVE  Pending(Append(w, f), last + 1, lists)
<1> DEFINE v == Append(w, f)
           n == Len(w)
<1>1. /\ v \in Seq(Fact) /\ Len(v) = n + 1 /\ n \in Nat /\ v[n + 1] = f
      /\ \A i \in 1 .. n : v[i] = w[i] /\ v[i] \in Fact
  BY DEF Pending
<1>2. \A i, j \in 1 .. n : i < j => w[i].n < w[j].n
  BY DEF Pending
<1>3. \A i \in 1 .. n : w[i].n <= last /\ \A k \in Kinds : AllBelow(lists[k], w[i].n)
  BY DEF Pending
<1> HIDE DEF v, n
<1>4. \A i \in 1 .. n : v[i].n \in Nat /\ v[i].n <= last
  BY <1>1, <1>3, LiveAssumption, SMTT(20) DEF Fact
<1>5. ASSUME NEW i \in 1 .. n + 1, NEW j \in 1 .. n + 1, i < j PROVE v[i].n < v[j].n
  <2>1. CASE j = n + 1
    BY <1>1, <1>4, <1>5, <2>1
  <2>2. CASE j # n + 1
    BY <1>1, <1>2, <1>5, <2>2
  <2> QED BY <2>1, <2>2
<1>6. ASSUME NEW i \in 1 .. n + 1
      PROVE  v[i].n <= last + 1 /\ \A k \in Kinds : AllBelow(lists[k], v[i].n)
  <2>1. CASE i = n + 1
    BY <1>1, <2>1
  <2>2. CASE i # n + 1
    <3>1. i \in 1 .. n
      BY <1>1, <2>2
    <3> QED BY <1>1, <1>3, <1>4, <3>1
  <2> QED BY <2>1, <2>2
<1>7. Pending(v, last + 1, lists)
  BY <1>1, <1>5, <1>6 DEF Pending
<1> QED BY <1>7 DEF v

\* The first is read: the rest came after it.
LEMMA PendingTail ==
  ASSUME NEW w, w # << >>, NEW last \in Nat, NEW lists, Pending(w, last, lists), NEW more,
         \A k \in Kinds : more[k] = lists[k]
                            \/ \A m \in Nat : Head(w).n < m => AllBelow(more[k], m)
  PROVE  Pending(Tail(w), last, more)
<1> DEFINE v == Tail(w)
           n == Len(w)
<1>1. /\ v \in Seq(Fact) /\ n \in Nat /\ n > 0 /\ Len(v) = n - 1 /\ Head(w) = w[1]
      /\ \A i \in 1 .. n - 1 : v[i] = w[i + 1] /\ v[i] \in Fact
  BY DEF Pending
<1>2. \A i, j \in 1 .. n : i < j => w[i].n < w[j].n
  BY DEF Pending
<1>3. \A i \in 1 .. n : w[i].n <= last /\ \A k \in Kinds : AllBelow(lists[k], w[i].n)
  BY DEF Pending
<1> HIDE DEF v, n
<1>4. ASSUME NEW i \in 1 .. n - 1
      PROVE  v[i].n \in Nat /\ i + 1 \in 1 .. n /\ w[1].n < v[i].n
  <2>1. i + 1 \in 1 .. n /\ 1 \in 1 .. n /\ 1 < i + 1
    BY <1>1
  <2>2. v[i] \in Fact /\ v[i] = w[i + 1]
    BY <1>1
  <2> QED BY <1>2, <2>1, <2>2, LiveAssumption DEF Fact
<1>5. ASSUME NEW i \in 1 .. n - 1, NEW j \in 1 .. n - 1, i < j PROVE v[i].n < v[j].n
  <2>1. i + 1 \in 1 .. n /\ j + 1 \in 1 .. n /\ i + 1 < j + 1
    BY <1>1, <1>5
  <2>2. w[i + 1].n < w[j + 1].n
    BY <1>2, <2>1
  <2> QED BY <1>1, <2>2
<1>6. ASSUME NEW i \in 1 .. n - 1
      PROVE  v[i].n <= last /\ \A k \in Kinds : AllBelow(more[k], v[i].n)
  BY <1>1, <1>3, <1>4
<1>7. Pending(v, last, more)
  BY <1>1, <1>5, <1>6 DEF Pending
<1> QED BY <1>7 DEF v

\* A new connection is the first that is left, if one is.
LEMMA OpenedIs ==
  ASSUME NEW cs
  PROVE  \/ Opened(cs) = cs
         \/ \E c \in Conns : cs[c] = "unused" /\ Opened(cs) = [cs EXCEPT ![c] = "opening"]
<1>1. CASE \E c \in Conns : cs[c] = "unused"
  <2>1. PICK c : c = CHOOSE d \in Conns : cs[d] = "unused"
    OBVIOUS
  <2>2. c \in Conns /\ cs[c] = "unused"
    BY <1>1, <2>1
  <2>3. Opened(cs) = [cs EXCEPT ![c] = "opening"]
    BY <1>1, <2>1 DEF Opened
  <2> QED BY <2>2, <2>3
<1>2. CASE ~\E c \in Conns : cs[c] = "unused"
  BY <1>2 DEF Opened
<1> QED BY <1>1, <1>2

LEMMA InitLive == LiveInit => LiveInv
<1> SUFFICES ASSUME LiveInit PROVE LiveInv
  OBVIOUS
<1>1. << >> \in Seq(Fact) /\ Len(<< >>) = 0
  OBVIOUS
<1>2. Severe(<< >>) = 0
  <2>1. {i \in 1 .. Len(<< >>) : << >>[i].severe} = {}
    BY <1>1
  <2> QED BY <2>1, FS_EmptySet DEF Severe
<1>3. Listed(<< >>, 0) /\ \A last, lists : Pending(<< >>, last, lists)
  BY <1>1, NothingPending DEF Listed, NewestFirst, AllBelow
<1>4. First(AlertCap, << >>) = << >>
  BY LiveAssumption DEF First
<1>5. world \in [alert : Seq(Fact), lease : Seq(Fact), active : {Severe(world.alert)}, last : Nat]
  BY <1>1, <1>2 DEF LiveInit
<1>6. \A k \in Kinds : Listed(world[k], world.last) /\ Listed(snapshot[k], world.last)
  BY <1>3 DEF LiveInit, Kinds
<1>7. alerts = First(AlertCap, snapshot["alert"])
  BY <1>4 DEF LiveInit, Kinds
<1>8. /\ DOMAIN fetched \subseteq Kinds /\ fetched \in [DOMAIN fetched -> Seq(Fact)]
      /\ DOMAIN fetched = {}
  BY DEF LiveInit
<1> QED BY <1>1, <1>3, <1>5, <1>6, <1>7, <1>8 DEF LiveInit, LiveInv, Current

LEMMA WorldTickKeeps ==
  ASSUME LiveInv, NEW f \in Fact, WorldTick(f)
  PROVE  LiveInv'
<1> DEFINE last == world.last
           kept == Newest(EventCap, f, world[f.kind])
<1>0. world \in [alert : Seq(Fact), lease : Seq(Fact), active : {Severe(world.alert)}, last : Nat]
  BY DEF LiveInv
<1>1. last \in Nat /\ f.n = last + 1 /\ f.kind \in Kinds /\ last + 1 \in Nat
  <2>1. world.last \in Nat
    BY <1>0
  <2>2. f.n = world.last + 1
    BY DEF WorldTick
  <2>3. f.kind \in Kinds
    BY DEF Fact
  <2> QED BY <2>1, <2>2, <2>3
<1>2. kept \in Seq(Fact) /\ Listed(kept, last + 1)
  <2>1. /\ EventCap \in Nat \ {0} /\ world[f.kind] \in Seq(Fact) /\ NewestFirst(world[f.kind])
        /\ AllBelow(world[f.kind], f.n)
    BY <1>1, LiveAssumption DEF LiveInv, Listed
  <2>2. /\ kept \in Seq(Fact) /\ NewestFirst(kept) /\ \A m \in Nat : f.n < m => AllBelow(kept, m)
    BY <2>1, StaysSorted
  <2>3. last + 1 + 1 \in Nat /\ f.n < last + 1 + 1
    BY <1>1
  <2> QED BY <2>2, <2>3 DEF Listed
<1>3. world' = [world EXCEPT ![f.kind] = kept, !.last = f.n,
                             !.active = IF f.kind = "alert" THEN Severe(kept) ELSE @]
  BY DEF WorldTick
<1> HIDE DEF kept, last
<1>4. /\ world'.last = last + 1
      /\ world' \in [alert : Seq(Fact), lease : Seq(Fact), active : {Severe(world'.alert)}, last : Nat]
      /\ \A k \in Kinds : world'[k] = IF k = f.kind THEN kept ELSE world[k]
  <2>1. CASE f.kind = "alert"
    BY <1>0, <1>1, <1>2, <1>3, <2>1 DEF Kinds
  <2>2. CASE f.kind = "lease"
    BY <1>0, <1>1, <1>2, <1>3, <2>2 DEF Kinds
  <2> QED BY <1>1, <2>1, <2>2 DEF Kinds
<1>5. \A list : Listed(list, last) => Listed(list, last + 1)
  BY <1>1, ListedLonger
<1>6. /\ \A k \in Kinds : Listed(world'[k], last + 1)
      /\ \A k \in DOMAIN fetched : Listed(fetched[k], last + 1)
      /\ \A k \in Kinds : Listed(snapshot[k], last + 1)
  BY <1>2, <1>4, <1>5 DEF LiveInv, last
<1>7. ASSUME NEW c \in Conns
      PROVE  wire'[c] \in Seq(Fact) /\ Pending(wire'[c], last + 1, snapshot)
             /\ (conn[c] # "open" => wire'[c] = << >>)
  <2>1. wire[c] \in Seq(Fact) /\ Pending(wire[c], last, snapshot) /\ (conn[c] # "open" => wire[c] = << >>)
    BY DEF LiveInv, last
  <2>2. CASE listener[c] /\ conn[c] = "open"
    <3>1. wire'[c] = Append(wire[c], f)
      BY <2>2 DEF WorldTick
    <3>2. \A k \in Kinds : AllBelow(snapshot[k], last + 1)
      BY DEF LiveInv, Listed, last
    <3> QED BY <1>1, <2>1, <2>2, <3>1, <3>2, PendingAppend
  <2>3. CASE ~(listener[c] /\ conn[c] = "open")
    <3>1. wire'[c] = wire[c]
      BY <2>3 DEF WorldTick
    <3> QED BY <1>1, <2>1, <3>1, PendingLonger
  <2> QED BY <2>2, <2>3
<1>8. wire' = [c \in Conns |-> wire'[c]]
  BY DEF WorldTick
<1>9. wire' \in [Conns -> Seq(Fact)]
  BY <1>7, <1>8
<1>10. UNCHANGED <<page, fetched, snapshot, alerts, conn, listener, retry>>
  BY DEF WorldTick
<1> QED BY <1>4, <1>6, <1>7, <1>9, <1>10 DEF LiveInv, Current

LEMMA UpgradeKeeps ==
  ASSUME LiveInv, NEW c \in Conns, Upgrade(c) \/ Cleanup(c)
  PROVE  LiveInv'
<1>1. CASE Upgrade(c)
  <2>1. /\ \A d \in Conns : Current(d)' <=> Current(d)
        /\ conn' \in [Conns -> {"unused", "opening", "open", "closed"}]
        /\ \A d \in Conns : conn'[d] # "open" => conn[d] # "open"
    BY <1>1 DEF Upgrade, Current, LiveInv
  <2> QED BY <1>1, <2>1 DEF Upgrade, LiveInv
<1>2. CASE Cleanup(c)
  BY <1>2 DEF Cleanup, LiveInv, Current
<1> QED BY <1>1, <1>2

LEMMA FetchAnsweredKeeps ==
  ASSUME LiveInv, NEW k \in Kinds, FetchAnswered(k)
  PROVE  LiveInv'
<1>1. Listed(world[k], world.last) /\ world[k] \in Seq(Fact)
  BY DEF LiveInv, Listed
<1>2. /\ DOMAIN fetched' \subseteq Kinds /\ fetched' \in [DOMAIN fetched' -> Seq(Fact)]
      /\ \A j \in DOMAIN fetched' : Listed(fetched'[j], world.last)
  BY <1>1 DEF FetchAnswered, LiveInv
<1> QED BY <1>2 DEF FetchAnswered, LiveInv, Current

\* When no connection is current, a new one is the only one.
LEMMA OpenedKeeps ==
  ASSUME LiveInv, \A c \in Conns : ~Current(c), conn' = Opened(conn), wire' = wire
  PROVE  /\ conn' \in [Conns -> {"unused", "opening", "open", "closed"}]
         /\ \A c, d \in Conns : Current(c)' /\ Current(d)' => c = d
         /\ \A c \in Conns : wire[c] = << >>
<1>1. \A c \in Conns : wire[c] = << >>
  BY DEF LiveInv, Current
<1>2. CASE conn' = conn
  BY <1>1, <1>2 DEF LiveInv, Current
<1>3. ASSUME NEW c \in Conns, conn' = [conn EXCEPT ![c] = "opening"]
      PROVE  /\ conn' \in [Conns -> {"unused", "opening", "open", "closed"}]
             /\ \A d, e \in Conns : Current(d)' /\ Current(e)' => d = e
  BY <1>3 DEF LiveInv, Current
<1> QED BY <1>1, <1>2, <1>3, OpenedIs

LEMMA BootstrappedKeeps == LiveInv /\ Bootstrapped => LiveInv'
<1> SUFFICES ASSUME LiveInv, Bootstrapped PROVE LiveInv'
  OBVIOUS
<1>1. /\ conn' \in [Conns -> {"unused", "opening", "open", "closed"}]
      /\ \A c, d \in Conns : Current(c)' /\ Current(d)' => c = d
      /\ \A c \in Conns : wire[c] = << >>
  <2>1. (\A c \in Conns : ~Current(c)) /\ conn' = Opened(conn) /\ wire' = wire
    BY DEF LiveInv, Bootstrapped
  <2> QED BY <2>1, OpenedKeeps
<1>2. retry' = FALSE /\ page' \in {"live", "demo"}
  BY DEF LiveInv, Bootstrapped
<1>3. /\ snapshot' \in [Kinds -> Seq(Fact)] /\ \A k \in Kinds : Listed(snapshot'[k], world.last)
      /\ alerts' = First(AlertCap, snapshot'["alert"])
  BY DEF LiveInv, Bootstrapped
<1>4. \A c \in Conns : Pending(wire'[c], world'.last, snapshot')
  BY <1>1, NothingPending DEF Bootstrapped
<1> QED BY <1>1, <1>2, <1>3, <1>4 DEF Bootstrapped, LiveInv

LEMMA FoldKeeps ==
  ASSUME LiveInv, NEW c \in Conns, Fold(c)
  PROVE  LiveInv'
<1> DEFINE f == Head(wire[c])
           old == snapshot[f.kind]
           new == Newest(EventCap, f, old)
<1>1. f \in Fact /\ f = wire[c][1] /\ Len(wire[c]) \in Nat \ {0} /\ Tail(wire[c]) \in Seq(Fact)
  BY DEF Fold, LiveInv
<1> HIDE DEF f
<1>2. /\ f.kind \in Kinds /\ f.n \in Nat /\ f.n <= world.last /\ old \in Seq(Fact)
      /\ NewestFirst(old) /\ AllBelow(old, f.n) /\ world.last \in Nat
  <2>1. Pending(wire[c], world.last, snapshot) /\ 1 \in 1 .. Len(wire[c]) /\ f.kind \in Kinds
    BY <1>1 DEF LiveInv, Fact
  <2>2. f.n <= world.last /\ AllBelow(snapshot[f.kind], f.n)
    BY <1>1, <2>1 DEF Pending
  <2>3. f.n \in Nat
    BY <1>1, LiveAssumption DEF Fact
  <2>4. old \in Seq(Fact) /\ NewestFirst(old) /\ world.last \in Nat
    BY <2>1 DEF LiveInv, Listed
  <2> QED BY <2>1, <2>2, <2>3, <2>4
<1>3. /\ new \in Seq(Fact) /\ NewestFirst(new)
      /\ \A m \in Nat : f.n < m => AllBelow(new, m)
  <2>1. EventCap \in Nat \ {0}
    BY LiveAssumption
  <2> QED BY <1>1, <1>2, <2>1, StaysSorted
<1>4. Listed(new, world.last)
  <2>1. world.last + 1 \in Nat /\ f.n < world.last + 1
    BY <1>2
  <2> QED BY <1>3, <2>1 DEF Listed
<1>5. First(AlertCap, new) = Newest(AlertCap, f, First(AlertCap, old))
  BY <1>1, <1>2, FirstOfNewest
<1>6. snapshot' = [snapshot EXCEPT ![f.kind] = new]
      /\ alerts' = IF f.kind = "alert" THEN Newest(AlertCap, f, alerts) ELSE alerts
  BY DEF Fold, f
<1>7. wire' = [wire EXCEPT ![c] = Tail(wire[c])] /\ conn[c] = "open" /\ wire[c] # << >>
  BY DEF Fold
<1> HIDE DEF new
<1>8. /\ snapshot' \in [Kinds -> Seq(Fact)]
      /\ \A k \in Kinds : snapshot'[k] = IF k = f.kind THEN new ELSE snapshot[k]
  BY <1>2, <1>3, <1>6 DEF LiveInv
<1>9. \A k \in Kinds : Listed(snapshot'[k], world.last)
  BY <1>4, <1>8 DEF LiveInv
<1>10. alerts' = First(AlertCap, snapshot'["alert"])
  BY <1>5, <1>6, <1>8 DEF LiveInv, Kinds
<1>11. ASSUME NEW d \in Conns
       PROVE  Pending(wire'[d], world.last, snapshot') /\ (conn[d] # "open" => wire'[d] = << >>)
  <2>1. CASE d = c
    <3>1. \A k \in Kinds : snapshot'[k] = snapshot[k]
                             \/ \A m \in Nat : f.n < m => AllBelow(snapshot'[k], m)
      BY <1>3, <1>8
    <3>2. Pending(Tail(wire[c]), world.last, snapshot')
      <4>1. Pending(wire[c], world.last, snapshot)
        BY DEF LiveInv
      <4> QED BY <1>2, <1>7, <3>1, <4>1, PendingTail DEF f
    <3> QED BY <1>7, <2>1, <3>2 DEF LiveInv
  <2>2. CASE d # c
    <3>1. wire'[d] = << >>
      BY <1>7, <2>2 DEF LiveInv, Current
    <3> QED BY <3>1, NothingPending
  <2> QED BY <2>1, <2>2
<1>12. wire' \in [Conns -> Seq(Fact)]
  BY <1>1, <1>7 DEF LiveInv
<1> QED BY <1>8, <1>9, <1>10, <1>11, <1>12 DEF Fold, LiveInv, Current

LEMMA DroppedKeeps ==
  ASSUME LiveInv, NEW c \in Conns, Dropped(c)
  PROVE  LiveInv'
<1>1. Current(c) /\ page \in {"live", "demo"}
  BY DEF Dropped, Current, LiveInv
<1>2. \A d \in Conns : ~Current(d)'
  BY <1>1 DEF Dropped, Current, LiveInv
<1>3. /\ conn' \in [Conns -> {"unused", "opening", "open", "closed"}]
      /\ wire' \in [Conns -> Seq(Fact)]
      /\ \A d \in Conns : /\ wire'[d] = IF d = c THEN << >> ELSE wire[d]
                          /\ conn'[d] # "open" => wire'[d] = << >>
  BY DEF Dropped, LiveInv
<1>4. \A d \in Conns : Pending(wire'[d], world.last, snapshot)
  BY <1>3, NothingPending DEF LiveInv
<1>5. retry' = TRUE
  BY <1>1 DEF Dropped
<1> QED BY <1>1, <1>2, <1>3, <1>4, <1>5 DEF Dropped, LiveInv

LEMMA ReconnectKeeps == LiveInv /\ Reconnect => LiveInv'
<1> SUFFICES ASSUME LiveInv, Reconnect PROVE LiveInv'
  OBVIOUS
<1>1. /\ conn' \in [Conns -> {"unused", "opening", "open", "closed"}]
      /\ \A c, d \in Conns : Current(c)' /\ Current(d)' => c = d
      /\ \A c \in Conns : wire[c] = << >>
  <2>1. (\A c \in Conns : ~Current(c)) /\ conn' = Opened(conn) /\ wire' = wire
    BY DEF LiveInv, Reconnect
  <2> QED BY <2>1, OpenedKeeps
<1>2. retry' = FALSE /\ page' = page /\ page \in {"live", "demo"}
  BY DEF LiveInv, Reconnect
<1> QED BY <1>1, <1>2 DEF Reconnect, LiveInv

LEMMA LeaveKeeps == LiveInv /\ Leave => LiveInv'
<1> SUFFICES ASSUME LiveInv, Leave PROVE LiveInv'
  OBVIOUS
<1>1. conn' \in [Conns -> {"unused", "opening", "open", "closed"}] /\ \A c \in Conns : ~Current(c)'
  BY DEF Leave, LiveInv, Current
<1>2. wire' \in [Conns -> Seq(Fact)] /\ \A c \in Conns : wire'[c] = << >>
  BY DEF Leave
<1>3. \A c \in Conns : Pending(wire'[c], world.last, snapshot)
  BY <1>2, NothingPending
<1> QED BY <1>1, <1>2, <1>3 DEF Leave, LiveInv

LEMMA LiveStays == LiveInv /\ [LiveNext]_liveVars => LiveInv'
<1>1. LiveInv /\ UNCHANGED liveVars => LiveInv'
  BY DEF liveVars, LiveInv, Current
<1> QED BY <1>1, WorldTickKeeps, UpgradeKeeps, FetchAnsweredKeeps, BootstrappedKeeps, FoldKeeps,
           DroppedKeeps, ReconnectKeeps, LeaveKeeps DEF LiveNext

LEMMA LiveInvKeeps == LiveInv => LiveKept
<1> SUFFICES ASSUME LiveInv PROVE LiveKept
  OBVIOUS
<1>1. world.active = Severe(world["alert"])
  BY DEF LiveInv
<1>2. Cardinality({c \in Conns : conn[c] \in {"opening", "open"}}) <= 1
  <2> DEFINE S == {c \in Conns : conn[c] \in {"opening", "open"}}
  <2>1. CASE S = {}
    BY <2>1, FS_EmptySet
  <2>2. CASE S # {}
    <3>1. PICK c : c \in S
      BY <2>2
    <3>2. \A d \in S : d = c
      BY <3>1 DEF LiveInv, Current
    <3>3. S = {c}
      BY <3>1, <3>2
    <3>4. Cardinality({c}) = 1
      BY FS_Singleton
    <3> QED BY <3>3, <3>4
  <2> QED BY <2>1, <2>2
<1> QED BY <1>1, <1>2 DEF LiveInv, LiveKept, Listed, Current

-----------------------------------------------------------------------------
(* The simulated network.                                                  *)

SeededNodeSet == UNION {SeededNodes[k] : k \in DOMAIN SeededNodes}

LEMMA NodesAre ==
  SeededNodeSet = {"gw", "fw", "core", "sw1", "sw2", "srv-dns", "srv-dc", "host1", "host2",
                   "vm1", "vm2", "vm3", "ap1", "iot1", "iot2"}
<1>1. DOMAIN SeededNodes = {"gateway", "firewall", "switch", "server", "host", "vm", "ap", "iot"}
  BY DEF SeededNodes
<1> QED BY <1>1 DEF SeededNodeSet, SeededNodes

LEMMA LinksAre ==
  SeededLinks =
    {<<"gw", "fw">>, <<"fw", "core">>, <<"core", "sw1">>, <<"core", "sw2">>, <<"core", "srv-dns">>,
     <<"core", "srv-dc">>, <<"sw1", "host1">>, <<"sw1", "host2">>, <<"host1", "vm1">>, <<"host1", "vm2">>,
     <<"host2", "vm3">>, <<"sw2", "ap1">>, <<"ap1", "iot1">>, <<"ap1", "iot2">>}
BY DEF SeededLinks

LEMMA OneLink ==
  ASSUME NEW x \in SeededNodeSet
  PROVE  Cardinality({l \in SeededLinks : l[2] = x}) = IF x = "gw" THEN 0 ELSE 1
<1>1. CASE x = "gw"
  <2>1. {l \in SeededLinks : l[2] = x} = {}
    BY <1>1, LinksAre
  <2> QED BY <1>1, <2>1, FS_EmptySet
<1>2. CASE x # "gw"
  <2>1. \E l \in SeededLinks : l[2] = x
    BY <1>2, NodesAre, LinksAre
  <2>2. PICK l \in SeededLinks : l[2] = x
    BY <2>1
  <2>3. \A m \in SeededLinks : m[2] = x => m = l
    BY <2>2, LinksAre
  <2>4. {m \in SeededLinks : m[2] = x} = {l}
    BY <2>2, <2>3
  <2>5. Cardinality({l}) = 1
    BY FS_Singleton
  <2> QED BY <1>2, <2>4, <2>5
<1> QED BY <1>1, <1>2

LEMMA SeedsAreSound == SeedsSound
<1> DEFINE runs(v) == SeededVms[v].state = "running"
<1>1. \A x \in SeededNodeSet : Cardinality({l \in SeededLinks : l[2] = x}) = IF x = "gw" THEN 0 ELSE 1
  BY OneLink
<1>2. \A l \in SeededLinks : {l[1], l[2]} \subseteq SeededNodeSet
  BY NodesAre, LinksAre
<1>3. \A z \in DOMAIN SeededZones : \A a \in SeededZones[z] : a[2] \in SeededNodeSet
  BY NodesAre DEF SeededZones
<1>4. /\ DOMAIN SeededVms = {"vm1", "vm2", "vm3", "vm4"}
      /\ runs("vm1") /\ runs("vm2") /\ runs("vm3") /\ ~runs("vm4")
      /\ SeededVms["vm1"].host = "host1" /\ SeededVms["vm2"].host = "host1"
      /\ SeededVms["vm3"].host = "host2" /\ SeededVms["vm4"].host = "host2"
  BY DEF SeededVms, SimVm
<1>5. SeededNodes.vm = {"vm1", "vm2", "vm3"}
  BY DEF SeededNodes
<1> HIDE DEF runs
<1>6. SeededNodes.vm = {v \in DOMAIN SeededVms : runs(v)}
  BY <1>4, <1>5
<1>7. \A v \in SeededNodes.vm : <<SeededVms[v].host, v>> \in SeededLinks
  BY <1>4, <1>5, LinksAre
<1>8. \A h \in DOMAIN SeededHosts :
        SeededHosts[h] = Cardinality({v \in DOMAIN SeededVms : SeededVms[v].host = h /\ runs(v)})
  <2>1. DOMAIN SeededHosts = {"host1", "host2"} /\ SeededHosts["host1"] = 2 /\ SeededHosts["host2"] = 1
    BY DEF SeededHosts
  <2>2. {v \in DOMAIN SeededVms : SeededVms[v].host = "host1" /\ runs(v)} = {"vm1", "vm2"}
    BY <1>4
  <2>3. {v \in DOMAIN SeededVms : SeededVms[v].host = "host2" /\ runs(v)} = {"vm3"}
    BY <1>4
  <2>4. Cardinality({"vm3"}) = 1 /\ Cardinality({"vm1"}) = 1 /\ IsFiniteSet({"vm1"})
    BY FS_Singleton
  <2>5. {"vm1"} \union {"vm2"} = {"vm1", "vm2"} /\ "vm2" \notin {"vm1"}
    OBVIOUS
  <2>6. Cardinality({"vm1", "vm2"}) = 2
    BY <2>4, <2>5, FS_AddElement
  <2> QED BY <2>1, <2>2, <2>3, <2>4, <2>6
<1>9. <<MockNodes, MockLinks, MockZones, MockScopes, MockHosts, MockVms, MockRules>>
        = <<SeededNodes, SeededLinks, SeededZones, SeededScopes, SeededHosts, SeededVms, SeededRules>>
  <2>1. MockLinks = SeededLinks
    BY LinksAre DEF MockLinks
  <2>2. MockNodes = SeededNodes
    BY DEF MockNodes, SeededNodes
  <2>3. MockZones = SeededZones /\ MockScopes = SeededScopes /\ MockHosts = SeededHosts
    BY DEF MockZones, SeededZones, MockScopes, SeededScopes, MockHosts, SeededHosts
  <2>4. MockVms = SeededVms /\ MockRules = SeededRules
    BY DEF MockVms, SeededVms, MockRules, SeededRules
  <2> QED BY <2>1, <2>2, <2>3, <2>4
<1> QED BY <1>1, <1>2, <1>3, <1>6, <1>7, <1>8, <1>9 DEF SeedsSound, SeededNodeSet, runs

SimMachine == [host : {"host1", "host2"}, state : VmStates, busy : BOOLEAN, up : BOOLEAN]

AtRest(vm) == vm.state = "stopped" => ~vm.busy /\ ~vm.up

LEMMA SeededIs ==
  ASSUME NEW v \in Machines
  PROVE  /\ SeededVms[v] \in SimMachine /\ AtRest(SeededVms[v])
         /\ MockVms[v] \in SimMachine /\ AtRest(MockVms[v])
<1>1. \A h \in {"host1", "host2"}, state \in {"running", "stopped"} :
        SimVm(h, state) \in SimMachine /\ AtRest(SimVm(h, state))
  BY DEF SimVm, SimMachine, VmStates, AtRest
<1>2. v \in {"vm1", "vm2", "vm3", "vm4"}
  BY SimulatorAssumption
<1> QED BY <1>1, <1>2 DEF SeededVms, MockVms

LEMMA VmSetIs ==
  ASSUME NEW vm \in SimMachine, AtRest(vm), NEW next \in VmStates
  PROVE  VmSet(vm, next) \in SimMachine /\ AtRest(VmSet(vm, next)) /\ VmSet(vm, next).state = next
BY DEF VmSet, SimMachine, AtRest

\* An even number of things.
Even(S) == Cardinality(S) % 2 = 0

LEMMA EvenMoves ==
  ASSUME NEW S, IsFiniteSet(S), NEW x
  PROVE  /\ x \notin S => (Even(S \union {x}) <=> ~Even(S))
         /\ x \in S => (Even(S \ {x}) <=> ~Even(S))
<1>1. Cardinality(S) \in Nat
  BY FS_CardinalityType
<1>2. CASE x \notin S
  <2>1. Cardinality(S \union {x}) = Cardinality(S) + 1
    BY <1>2, FS_AddElement
  <2> QED BY <1>1, <1>2, <2>1 DEF Even
<1>3. CASE x \in S
  <2>1. Cardinality(S \ {x}) = Cardinality(S) - 1
    BY <1>3, FS_RemoveElement
  <2> QED BY <1>1, <1>3, <2>1 DEF Even
<1> QED BY <1>2, <1>3

\* Numbers in a row, up to the last.
InRow(list, last) == list \in Seq(Nat) /\ \A i \in 1 .. Len(list) : list[i] = (last - Len(list)) + i

LEMMA RunGrows ==
  ASSUME NEW list, NEW last \in Nat, InRow(list, last)
  PROVE  InRow(Append(list, last + 1), last + 1)
BY DEF InRow

LEMMA RunShrinks ==
  ASSUME NEW list, list # << >>, NEW last \in Nat, InRow(list, last)
  PROVE  /\ InRow(Tail(list), last) /\ Len(list) \in Nat \ {0} /\ Len(Tail(list)) = Len(list) - 1
         /\ Head(list) = (last - Len(list)) + 1 /\ Head(list) \in Nat
BY DEF InRow

LEMMA PushedRun ==
  ASSUME NEW list, NEW last \in Nat, InRow(list, last), NEW cap \in Nat \ {0}
  PROVE  /\ InRow(Pushed(list, last + 1, cap), last + 1)
         /\ Len(list) = cap => Len(Pushed(list, last + 1, cap)) = cap
<1> DEFINE longer == Append(list, last + 1)
<1>1. InRow(longer, last + 1)
  BY RunGrows
<1>2. Len(longer) = Len(list) + 1 /\ Len(list) \in Nat /\ longer # << >>
  BY DEF InRow
<1>3. InRow(Tail(longer), last + 1) /\ Len(Tail(longer)) = Len(longer) - 1
  <2>1. last + 1 \in Nat
    OBVIOUS
  <2> HIDE DEF longer
  <2> QED BY <1>1, <1>2, <2>1, RunShrinks
<1> HIDE DEF longer
<1>4. Pushed(list, last + 1, cap) = IF Len(longer) > cap THEN Tail(longer) ELSE longer
  BY DEF Pushed, longer
<1>5. CASE Len(longer) > cap
  <2>1. Pushed(list, last + 1, cap) = Tail(longer)
    BY <1>4, <1>5
  <2>2. Len(Tail(longer)) = Len(list)
    BY <1>2, <1>3
  <2> QED BY <1>3, <2>1, <2>2
<1>6. CASE ~(Len(longer) > cap)
  <2>1. Pushed(list, last + 1, cap) = longer
    BY <1>4, <1>6
  <2>2. Len(list) # cap
    BY <1>2, <1>6
  <2> QED BY <1>1, <2>1, <2>2
<1> QED BY <1>5, <1>6

\* Of two runs with one last number the last ones are the same.
LEMMA RunsAgree ==
  ASSUME NEW a, NEW b, NEW last \in Nat, InRow(a, last), InRow(b, last),
         NEW k \in Nat, k <= Len(a), k <= Len(b)
  PROVE  LastOf(k, a) = LastOf(k, b)
<1>1. Len(a) \in Nat /\ Len(b) \in Nat /\ a \in Seq(Nat) /\ b \in Seq(Nat)
  BY DEF InRow
<1>2. LastOf(k, a) = SubSeq(a, (Len(a) - k) + 1, Len(a)) /\ LastOf(k, b) = SubSeq(b, (Len(b) - k) + 1, Len(b))
  BY DEF LastOf
<1>3. ASSUME NEW list \in Seq(Nat), InRow(list, last), k <= Len(list)
      PROVE  /\ SubSeq(list, (Len(list) - k) + 1, Len(list)) \in Seq(Nat)
             /\ Len(SubSeq(list, (Len(list) - k) + 1, Len(list))) = k
             /\ \A i \in 1 .. k : SubSeq(list, (Len(list) - k) + 1, Len(list))[i] = (last - k) + i
  <2> DEFINE m == (Len(list) - k) + 1
             rest == SubSeq(list, m, Len(list))
  <2>1. Len(list) \in Nat /\ m \in 1 .. Len(list) + 1
    BY <1>3
  <2>2. /\ rest \in Seq(Nat) /\ Len(rest) = (Len(list) - m) + 1
        /\ \A i \in 1 .. (Len(list) - m) + 1 : rest[i] = list[(m + i) - 1]
    BY <2>1
  <2>3. \A i \in 1 .. k : (m + i) - 1 \in 1 .. Len(list) /\ (m + i) - 1 = (Len(list) - k) + i
    BY <2>1
  <2>4. ASSUME NEW i \in 1 .. k PROVE rest[i] = (last - k) + i
    <3>1. i \in 1 .. (Len(list) - m) + 1
      BY <2>1
    <3>2. rest[i] = list[(m + i) - 1]
      BY <2>2, <3>1
    <3>3. list[(m + i) - 1] = (last - Len(list)) + ((m + i) - 1)
      BY <1>3, <2>3 DEF InRow
    <3> HIDE DEF rest
    <3> QED BY <2>1, <3>2, <3>3
  <2>5. (Len(list) - m) + 1 = k
    BY <2>1
  <2>6. rest \in Seq(Nat) /\ Len(rest) = k
    BY <2>2, <2>5
  <2> HIDE DEF rest
  <2>7. rest \in Seq(Nat) /\ Len(rest) = k /\ \A i \in 1 .. k : rest[i] = (last - k) + i
    BY <2>4, <2>6
  <2> QED BY <2>7 DEF rest
<1> DEFINE p == SubSeq(a, (Len(a) - k) + 1, Len(a))
           q == SubSeq(b, (Len(b) - k) + 1, Len(b))
<1>4. p \in Seq(Nat) /\ Len(p) = k /\ \A i \in 1 .. k : p[i] = (last - k) + i
  BY <1>1, <1>3
<1>5. q \in Seq(Nat) /\ Len(q) = k /\ \A i \in 1 .. k : q[i] = (last - k) + i
  BY <1>1, <1>3
<1> HIDE DEF p, q
<1>6. p = q
  BY <1>4, <1>5
<1> QED BY <1>2, <1>6 DEF p, q

VmCommand == [n : Nat, vm : Machines, next : VmStates]
RuleCommand == [n : Nat, rule : 0 .. 5]
OfVm(c) == "vm" \in DOMAIN c

LEMMA CommandsAre ==
  /\ \A c \in VmCommand : OfVm(c) /\ c.n \in Nat /\ c.vm \in Machines /\ c.next \in VmStates
  /\ \A c \in RuleCommand : ~OfVm(c) /\ c.n \in Nat
BY DEF VmCommand, RuleCommand, OfVm

\* What is under way for a rule, and for a machine.
Flips(r) == {c \in commands : ~OfVm(c) /\ c.rule = r}
Orders(v) == {c \in commands : OfVm(c) /\ c.vm = v}

ServerInv ==
  /\ simVms \in [Machines -> SimMachine] /\ \A v \in Machines : AtRest(simVms[v])
  /\ simRules \in [SimRules -> BOOLEAN]

ShownInv ==
  /\ shown \in [mode : {"loading", "live", "demo"}, vms : {<< >>} \union [Machines -> SimMachine],
                rules : {<< >>} \union [SimRules -> BOOLEAN], points : Seq(Nat)]
  /\ shown.vms \in [Machines -> SimMachine] => \A v \in Machines : AtRest(shown.vms[v])
  /\ shown.mode # "loading" => shown.vms \in [Machines -> SimMachine] /\ shown.rules \in [SimRules -> BOOLEAN]

CommandsInv ==
  /\ IsFiniteSet(commands) /\ sent \in Nat
  /\ \A c \in commands : c \in VmCommand \union RuleCommand /\ c.n <= sent
  /\ \A c, d \in commands : c.n = d.n => c = d
  /\ shown.mode = "loading" => commands = {}

\* What a page has been told before it has all is still so,
ToldInv ==
  shown.mode = "loading" /\ upset \subseteq {"reordered"} =>
    /\ shown.rules = << >> \/ shown.rules = simRules
    /\ shown.vms = << >> \/ \A v \in Machines : shown.vms[v].state = simVms[v].state

\* and later a rule is as it is shown unless an odd number of requests is under way for it,
RulesInv ==
  shown.mode = "live" /\ upset \subseteq {"reordered"} =>
    \A r \in SimRules : shown.rules[r] = simRules[r] <=> Even(Flips(r))

\* and a machine is shown as the last request under way for it asks.
VmsInv ==
  shown.mode = "live" /\ upset = {} =>
    \A v \in Machines :
      /\ Orders(v) = {} => shown.vms[v].state = simVms[v].state
      /\ \A c \in Orders(v) : (\A d \in Orders(v) : d.n <= c.n) => shown.vms[v].state = c.next

\* The points shown and those under way are the last ones.
PointsInv ==
  /\ shown.mode = "loading" => shown.points = << >> /\ stream = << >>
  /\ Len(series) = SeriesLen
  /\ \E b \in Nat : /\ InRow(shown.points, b) /\ InRow(stream, b + Len(stream))
                    /\ InRow(series, b + Len(stream))

SimulatorInv ==
  ServerInv /\ ShownInv /\ CommandsInv /\ ToldInv /\ RulesInv /\ VmsInv /\ PointsInv

LEMMA EmptyRun == \A b \in Nat : InRow(<< >>, b)
BY DEF InRow

LEMMA InitSimulator == SimulatorInit => SimulatorInv
<1> SUFFICES ASSUME SimulatorInit PROVE SimulatorInv
  OBVIOUS
<1>1. ServerInv
  BY SeededIs DEF SimulatorInit, ServerInv
<1>2. ShownInv
  <2>1. << >> \in Seq(Nat)
    OBVIOUS
  <2>2. \A v \in Machines : << >> \in [Machines -> SimMachine] => FALSE
    BY DEF SimMachine
  <2> QED BY <2>1, <2>2 DEF SimulatorInit, ShownInv
<1>3. CommandsInv
  BY FS_EmptySet DEF SimulatorInit, CommandsInv
<1>4. ToldInv /\ RulesInv /\ VmsInv
  BY DEF SimulatorInit, ToldInv, RulesInv, VmsInv
<1>5. PointsInv
  <2>1. series = [i \in 1 .. SeriesLen |-> i] /\ SeriesLen \in Nat \ {0} /\ stream = << >>
        /\ shown.points = << >>
    BY SimulatorAssumption DEF SimulatorInit
  <2>2. InRow(series, SeriesLen) /\ Len(series) = SeriesLen
    BY <2>1 DEF InRow
  <2>3. Len(stream) = 0 /\ SeriesLen + Len(stream) = SeriesLen
    BY <2>1
  <2> QED BY <2>1, <2>2, <2>3, EmptyRun DEF PointsInv
<1> QED BY <1>1, <1>2, <1>3, <1>4, <1>5 DEF SimulatorInv

\* A point is made, and sent to a page that has loaded.
LEMMA TickPoints ==
  ASSUME PointsInv, SimTick
  PROVE  PointsInv'
<1> DEFINE n == series[Len(series)] + 1
<1>1. /\ series' = Pushed(series, n, SeriesLen)
      /\ stream' = IF shown.mode = "loading" THEN stream ELSE Append(stream, n)
      /\ shown' = shown
  BY DEF SimTick
<1>2. PICK b \in Nat : /\ InRow(shown.points, b) /\ InRow(stream, b + Len(stream))
                       /\ InRow(series, b + Len(stream))
  BY DEF PointsInv
<1>3. Len(stream) \in Nat /\ Len(series) = SeriesLen /\ SeriesLen \in Nat \ {0}
  BY <1>2, SimulatorAssumption DEF PointsInv, InRow
<1> DEFINE last == b + Len(stream)
<1>4. last \in Nat /\ n = last + 1
  <2>1. series[Len(series)] = (last - Len(series)) + Len(series)
    BY <1>2, <1>3 DEF InRow
  <2> QED BY <1>3, <2>1
<1>5. InRow(stream, last) /\ InRow(series, last)
  BY <1>2
<1> HIDE DEF last, n
<1>6. InRow(series', last + 1) /\ Len(series') = SeriesLen
  BY <1>1, <1>3, <1>4, <1>5, PushedRun
<1>7. CASE shown.mode = "loading"
  <2>1. shown'.points = << >> /\ stream' = << >> /\ Len(stream') = 0 /\ (last + 1) + Len(stream') = last + 1
    BY <1>1, <1>4, <1>7 DEF PointsInv
  <2> QED BY <1>1, <1>4, <1>6, <2>1, EmptyRun DEF PointsInv
<1>8. CASE shown.mode # "loading"
  <2>1. stream' = Append(stream, last + 1)
    BY <1>1, <1>4, <1>8
  <2>2. InRow(stream', last + 1)
    BY <1>4, <1>5, <2>1, RunGrows
  <2>3. stream \in Seq(Nat)
    BY <1>5 DEF InRow
  <2>4. Len(stream') = Len(stream) + 1
    BY <1>4, <2>1, <2>3
  <2>5. b + Len(stream') = last + 1
    BY <1>3, <2>4 DEF last
  <2> QED BY <1>1, <1>2, <1>6, <1>8, <2>2, <2>5 DEF PointsInv
<1> QED BY <1>7, <1>8

LEMMA SimTickKeeps ==
  ASSUME SimulatorInv, SimTick
  PROVE  SimulatorInv'
<1>1. simVms' \in [Machines -> SimMachine]
      /\ \A v \in Machines : AtRest(simVms'[v]) /\ simVms'[v].state = simVms[v].state
  BY DEF SimTick, SimulatorInv, ServerInv, SimMachine, AtRest
<1>2. PointsInv'
  BY TickPoints DEF SimulatorInv
<1>3. UNCHANGED <<simRules, shown, commands, sent, upset>>
  BY DEF SimTick
<1>4. ServerInv' /\ ShownInv' /\ CommandsInv'
  BY <1>1, <1>3 DEF SimulatorInv, ServerInv, ShownInv, CommandsInv
<1>5. ToldInv' /\ RulesInv' /\ VmsInv'
  BY <1>1, <1>3 DEF SimulatorInv, ToldInv, RulesInv, VmsInv, Flips, Orders
<1> QED BY <1>2, <1>4, <1>5 DEF SimulatorInv

LEMMA ReadKeeps ==
  ASSUME SimulatorInv, PointRead
  PROVE  SimulatorInv'
<1> DEFINE p == Pushed(shown.points, Head(stream), MetricCap)
<1>1. /\ stream # << >> /\ stream' = Tail(stream) /\ shown' = [shown EXCEPT !.points = p]
      /\ UNCHANGED <<simVms, simRules, series, commands, sent, upset>>
  BY DEF PointRead
<1>2. PICK b \in Nat : /\ InRow(shown.points, b) /\ InRow(stream, b + Len(stream))
                       /\ InRow(series, b + Len(stream))
  BY DEF PointsInv, SimulatorInv
<1> DEFINE last == b + Len(stream)
<1>3. last \in Nat /\ Len(stream) \in Nat
  BY <1>2 DEF InRow
<1>4. InRow(stream, last) /\ InRow(series, last)
  BY <1>2
<1>5. /\ InRow(Tail(stream), last) /\ Len(Tail(stream)) = Len(stream) - 1
      /\ Head(stream) = (last - Len(stream)) + 1
  <2> HIDE DEF last
  <2> QED BY <1>1, <1>3, <1>4, RunShrinks
<1>6. Head(stream) = b + 1 /\ (b + 1) + Len(stream') = last
  BY <1>1, <1>3, <1>5
<1>7. InRow(p, b + 1)
  BY <1>2, <1>6, SimulatorAssumption, PushedRun
<1>8. p \in Seq(Nat)
  BY <1>7 DEF InRow
<1> HIDE DEF p, last
<1>9. /\ shown'.mode = shown.mode /\ shown'.vms = shown.vms /\ shown'.rules = shown.rules
      /\ shown'.points = p
      /\ shown' \in [mode : {"loading", "live", "demo"}, vms : {<< >>} \union [Machines -> SimMachine],
                     rules : {<< >>} \union [SimRules -> BOOLEAN], points : Seq(Nat)]
  BY <1>1, <1>8 DEF SimulatorInv, ShownInv
<1>10. PointsInv'
  <2>1. shown.mode # "loading"
    BY <1>1 DEF SimulatorInv, PointsInv
  <2>2. b + 1 \in Nat
    OBVIOUS
  <2>3. InRow(stream', (b + 1) + Len(stream')) /\ InRow(series', (b + 1) + Len(stream'))
    BY <1>1, <1>4, <1>5, <1>6
  <2>4. InRow(shown'.points, b + 1)
    BY <1>7, <1>9
  <2>5. Len(series') = SeriesLen /\ shown'.mode # "loading"
    BY <1>1, <1>9, <2>1 DEF SimulatorInv, PointsInv
  <2> QED BY <2>2, <2>3, <2>4, <2>5 DEF PointsInv
<1>11. ServerInv' /\ ShownInv' /\ CommandsInv'
  BY <1>1, <1>9 DEF SimulatorInv, ServerInv, ShownInv, CommandsInv
<1>12. ToldInv' /\ RulesInv' /\ VmsInv'
  BY <1>1, <1>9 DEF SimulatorInv, ToldInv, RulesInv, VmsInv, Flips, Orders
<1> QED BY <1>10, <1>11, <1>12 DEF SimulatorInv

LEMMA AnsweredKeeps ==
  ASSUME SimulatorInv, SimVmsAnswered \/ SimRulesAnswered
  PROVE  SimulatorInv'
<1>1. /\ shown.mode = "loading" /\ shown'.mode = "loading" /\ shown'.points = shown.points
      /\ UNCHANGED <<simVms, simRules, series, stream, commands, sent, upset>>
      /\ shown' \in [mode : {"loading", "live", "demo"}, vms : {<< >>} \union [Machines -> SimMachine],
                     rules : {<< >>} \union [SimRules -> BOOLEAN], points : Seq(Nat)]
      /\ \/ shown'.vms = simVms /\ shown'.rules = shown.rules
         \/ shown'.vms = shown.vms /\ shown'.rules = simRules
  BY DEF SimVmsAnswered, SimRulesAnswered, SimulatorInv, ShownInv, ServerInv
<1>2. ServerInv' /\ ShownInv' /\ CommandsInv'
  BY <1>1 DEF SimulatorInv, ServerInv, ShownInv, CommandsInv
<1>3. ToldInv' /\ RulesInv' /\ VmsInv'
  BY <1>1 DEF SimulatorInv, ToldInv, RulesInv, VmsInv
<1>4. PointsInv'
  BY <1>1 DEF SimulatorInv, PointsInv
<1> QED BY <1>2, <1>3, <1>4 DEF SimulatorInv

LEMMA FilledKeeps ==
  ASSUME SimulatorInv, PageFilled
  PROVE  SimulatorInv'
<1> DEFINE known == [v \in Machines |-> MockVms[v]]
           on == [r \in SimRules |-> TRUE]
<1>1. known \in [Machines -> SimMachine] /\ on \in [SimRules -> BOOLEAN] /\ \A v \in Machines : AtRest(known[v])
  BY SeededIs
<1>2. /\ shown.mode = "loading" /\ commands = {}
      /\ UNCHANGED <<simVms, simRules, series, stream, commands, sent, upset>>
      /\ \/ shown.vms # << >> /\ shown.rules # << >> /\ shown' = [shown EXCEPT !.mode = "live"]
         \/ shown' = [shown EXCEPT !.mode = "demo", !.vms = known, !.rules = on]
  BY DEF PageFilled, SimulatorInv, CommandsInv
<1> HIDE DEF known, on
<1>3. /\ shown' \in [mode : {"loading", "live", "demo"}, vms : {<< >>} \union [Machines -> SimMachine],
                     rules : {<< >>} \union [SimRules -> BOOLEAN], points : Seq(Nat)]
      /\ shown'.points = shown.points
      /\ \/ /\ shown'.mode = "live" /\ shown'.vms = shown.vms /\ shown'.rules = shown.rules
            /\ shown.vms # << >> /\ shown.rules # << >>
         \/ shown'.mode = "demo" /\ shown'.vms = known /\ shown'.rules = on
  BY <1>1, <1>2 DEF SimulatorInv, ShownInv
<1>4. shown.vms \in {<< >>} \union [Machines -> SimMachine] /\ shown.rules \in {<< >>} \union [SimRules -> BOOLEAN]
  BY DEF SimulatorInv, ShownInv
<1>5. ServerInv' /\ CommandsInv'
  BY <1>2, <1>3 DEF SimulatorInv, ServerInv, CommandsInv
<1>6. ShownInv'
  BY <1>1, <1>3, <1>4 DEF SimulatorInv, ShownInv
<1>7. PointsInv'
  BY <1>2, <1>3 DEF SimulatorInv, PointsInv
<1>8. ToldInv'
  BY <1>3 DEF ToldInv
<1>9. \A x : Flips(x)' = {} /\ Orders(x)' = {}
  BY <1>2 DEF Flips, Orders
<1>10. Even({})
  BY FS_EmptySet DEF Even
<1>11. RulesInv'
  <2> SUFFICES ASSUME shown'.mode = "live", upset' \subseteq {"reordered"}, NEW r \in SimRules
               PROVE  shown'.rules[r] = simRules'[r] <=> Even(Flips(r)')
    BY DEF RulesInv
  <2>1. shown'.rules = simRules'
    BY <1>2, <1>3 DEF SimulatorInv, ToldInv
  <2> QED BY <1>9, <1>10, <2>1
<1>12. VmsInv'
  <2> SUFFICES ASSUME shown'.mode = "live", upset' = {}, NEW v \in Machines
               PROVE  shown'.vms[v].state = simVms'[v].state
    BY <1>9 DEF VmsInv
  <2> QED BY <1>2, <1>3 DEF SimulatorInv, ToldInv
<1> QED BY <1>5, <1>6, <1>7, <1>8, <1>11, <1>12 DEF SimulatorInv

\* A request is sent: it is the latest.
LEMMA SentKeeps ==
  ASSUME CommandsInv, shown.mode # "loading", shown'.mode = shown.mode, sent' = sent + 1,
         NEW new \in VmCommand \union RuleCommand, new.n = sent + 1, commands' = commands \union {new}
  PROVE  CommandsInv' /\ new \notin commands
<1>1. sent \in Nat /\ \A c \in commands : c.n <= sent /\ c.n \in Nat
  BY CommandsAre DEF CommandsInv
<1>2. new \notin commands /\ \A c \in commands : c.n # new.n
  BY <1>1
<1>3. IsFiniteSet(commands')
  BY FS_AddElement DEF CommandsInv
<1>4. \A c \in commands' : c \in VmCommand \union RuleCommand /\ c.n <= sent'
  BY <1>1 DEF CommandsInv
<1>5. \A c, d \in commands' : c.n = d.n => c = d
  BY <1>2 DEF CommandsInv
<1> QED BY <1>1, <1>2, <1>3, <1>4, <1>5 DEF CommandsInv

LEMMA AsksVmKeeps ==
  ASSUME SimulatorInv, NEW v \in Machines, NEW next \in VmStates, PageAsksVm(v, next)
  PROVE  SimulatorInv'
<1> DEFINE new == [n |-> sent', vm |-> v, next |-> next]
           vm == [shown.vms[v] EXCEPT !.state = next, !.busy = (next = "running"),
                                      !.up = (@ /\ next # "stopped")]
<1>1. /\ shown.mode # "loading" /\ sent' = sent + 1 /\ commands' = commands \union {new}
      /\ UNCHANGED <<simVms, simRules, series, stream, upset>>
  BY DEF PageAsksVm
<1>2. shown.vms \in [Machines -> SimMachine] /\ AtRest(shown.vms[v]) /\ sent \in Nat
      /\ shown.rules \in [SimRules -> BOOLEAN]
  BY <1>1 DEF SimulatorInv, ShownInv, CommandsInv
<1>3. vm \in SimMachine /\ vm.state = next /\ AtRest(vm)
  BY <1>2 DEF SimMachine, AtRest
<1>4. /\ shown' = [shown EXCEPT !.vms[v].state = next, !.vms[v].busy = (next = "running"),
                                !.vms[v].up = (@ /\ next # "stopped")]
      /\ shown \in [mode : {"loading", "live", "demo"}, vms : {<< >>} \union [Machines -> SimMachine],
                    rules : {<< >>} \union [SimRules -> BOOLEAN], points : Seq(Nat)]
  BY DEF PageAsksVm, SimulatorInv, ShownInv
<1>5. shown' = [shown EXCEPT !.vms = [shown.vms EXCEPT ![v] = vm]]
  BY <1>2, <1>4, ZenonT(40) DEF SimMachine
<1>6. new \in VmCommand /\ new.n = sent + 1 /\ new.vm = v /\ new.next = next /\ OfVm(new)
  BY <1>1, <1>2 DEF VmCommand, OfVm
<1> HIDE DEF new, vm
<1>7. /\ shown'.mode = shown.mode /\ shown'.rules = shown.rules /\ shown'.points = shown.points
      /\ shown'.vms = [shown.vms EXCEPT ![v] = vm]
      /\ shown' \in [mode : {"loading", "live", "demo"}, vms : {<< >>} \union [Machines -> SimMachine],
                     rules : {<< >>} \union [SimRules -> BOOLEAN], points : Seq(Nat)]
  <2>1. [shown.vms EXCEPT ![v] = vm] \in [Machines -> SimMachine]
    BY <1>2, <1>3
  <2> QED BY <1>4, <1>5, <2>1
<1>8. CommandsInv' /\ new \notin commands
  BY <1>1, <1>6, <1>7, SentKeeps DEF SimulatorInv
<1>9. ServerInv' /\ ShownInv'
  BY <1>1, <1>2, <1>3, <1>7 DEF SimulatorInv, ServerInv, ShownInv
<1>10. PointsInv' /\ ToldInv'
  BY <1>1, <1>7 DEF SimulatorInv, PointsInv, ToldInv
<1>11. \A r \in SimRules : Flips(r)' = Flips(r)
  BY <1>1, <1>6 DEF Flips
<1>12. RulesInv'
  BY <1>1, <1>7, <1>11 DEF SimulatorInv, RulesInv
<1>13. ASSUME NEW w \in Machines PROVE Orders(w)' = IF w = v THEN Orders(v) \union {new} ELSE Orders(w)
  BY <1>1, <1>6 DEF Orders
<1>14. VmsInv'
  <2> SUFFICES ASSUME shown.mode = "live", upset = {}, NEW w \in Machines
               PROVE  /\ Orders(w)' = {} => shown'.vms[w].state = simVms[w].state
                      /\ \A c \in Orders(w)' : (\A d \in Orders(w)' : d.n <= c.n)
                                                 => shown'.vms[w].state = c.next
    BY <1>1, <1>7 DEF VmsInv
  <2>1. CASE w # v
    BY <1>2, <1>7, <1>13, <2>1 DEF SimulatorInv, VmsInv
  <2>2. CASE w = v
    <3>1. \A c \in Orders(v) : c.n \in Nat /\ c.n <= sent
      BY CommandsAre DEF Orders, SimulatorInv, CommandsInv
    <3>2. \A c \in Orders(w)' : (\A d \in Orders(w)' : d.n <= c.n) => c = new
      BY <1>2, <1>6, <1>13, <2>2, <3>1
    <3>3. shown'.vms[w].state = next
      BY <1>2, <1>3, <1>7, <2>2
    <3> QED BY <1>6, <1>13, <2>2, <3>2, <3>3
  <2> QED BY <2>1, <2>2
<1> QED BY <1>8, <1>9, <1>10, <1>12, <1>14 DEF SimulatorInv

LEMMA TogglesKeeps ==
  ASSUME SimulatorInv, NEW r \in SimRules, PageTogglesRule(r)
  PROVE  SimulatorInv'
<1> DEFINE new == [n |-> sent', rule |-> IF shown.mode = "live" THEN r ELSE 0]
<1>1. /\ shown.mode # "loading" /\ sent' = sent + 1 /\ commands' = commands \union {new}
      /\ shown' = [shown EXCEPT !.rules[r] = ~@]
      /\ UNCHANGED <<simVms, simRules, series, stream, upset>>
  BY DEF PageTogglesRule
<1>2. shown.vms \in [Machines -> SimMachine] /\ sent \in Nat /\ shown.rules \in [SimRules -> BOOLEAN]
  BY <1>1 DEF SimulatorInv, ShownInv, CommandsInv
<1>3. r \in 0 .. 5 /\ 0 \notin SimRules
  BY SimulatorAssumption
<1>4. /\ new \in RuleCommand /\ new.n = sent + 1 /\ new.rule = (IF shown.mode = "live" THEN r ELSE 0)
      /\ ~OfVm(new)
  BY <1>1, <1>2, <1>3 DEF RuleCommand, OfVm
<1> HIDE DEF new
<1>5. /\ shown'.mode = shown.mode /\ shown'.vms = shown.vms /\ shown'.points = shown.points
      /\ shown'.rules = [shown.rules EXCEPT ![r] = ~shown.rules[r]]
      /\ shown' \in [mode : {"loading", "live", "demo"}, vms : {<< >>} \union [Machines -> SimMachine],
                     rules : {<< >>} \union [SimRules -> BOOLEAN], points : Seq(Nat)]
  BY <1>1, <1>2 DEF SimulatorInv, ShownInv
<1>6. CommandsInv' /\ new \notin commands
  BY <1>1, <1>4, <1>5, SentKeeps DEF SimulatorInv
<1>7. ServerInv' /\ ShownInv'
  BY <1>1, <1>2, <1>5 DEF SimulatorInv, ServerInv, ShownInv
<1>8. PointsInv' /\ ToldInv'
  BY <1>1, <1>5 DEF SimulatorInv, PointsInv, ToldInv
<1>9. \A v \in Machines : Orders(v)' = Orders(v)
  BY <1>1, <1>4 DEF Orders
<1>10. VmsInv'
  BY <1>1, <1>5, <1>9 DEF SimulatorInv, VmsInv
<1>11. RulesInv'
  <2> SUFFICES ASSUME shown.mode = "live", upset \subseteq {"reordered"}, NEW s \in SimRules
               PROVE  shown'.rules[s] = simRules[s] <=> Even(Flips(s)')
    BY <1>1, <1>5 DEF RulesInv
  <2>1. shown.rules[s] = simRules[s] <=> Even(Flips(s))
    BY DEF SimulatorInv, RulesInv
  <2>2. CASE s # r
    <3>1. Flips(s)' = Flips(s)
      BY <1>1, <1>4, <2>2 DEF Flips
    <3> QED BY <1>2, <1>5, <2>1, <2>2, <3>1
  <2>3. CASE s = r
    <3>1. Flips(r)' = Flips(r) \union {new} /\ new \notin Flips(r)
      BY <1>1, <1>4, <1>6 DEF Flips
    <3>2. IsFiniteSet(Flips(r))
      BY FS_Subset DEF Flips, SimulatorInv, CommandsInv
    <3>3. Even(Flips(r)') <=> ~Even(Flips(r))
      BY <3>1, <3>2, EvenMoves
    <3>4. shown'.rules[r] = ~shown.rules[r] /\ shown.rules[r] \in BOOLEAN /\ simRules[r] \in BOOLEAN
      BY <1>2, <1>5 DEF SimulatorInv, ServerInv
    <3> HIDE DEF Even, Flips
    <3> QED BY <2>1, <2>3, <3>3, <3>4
  <2> QED BY <2>2, <2>3
<1> QED BY <1>6, <1>7, <1>8, <1>10, <1>11 DEF SimulatorInv

\* What a machine is set to, and what a rule is switched to.
LEMMA SetVmIs ==
  ASSUME ServerInv, NEW v \in Machines, NEW next \in VmStates, SetVmState(v, next)
  PROVE  /\ ServerInv' /\ simRules' = simRules
         /\ \A w \in Machines : simVms'[w].state = IF w = v THEN next ELSE simVms[w].state
<1>1. simVms' = [simVms EXCEPT ![v] = VmSet(simVms[v], next)] /\ simRules' = simRules
  BY DEF SetVmState
<1>2. /\ VmSet(simVms[v], next) \in SimMachine /\ AtRest(VmSet(simVms[v], next))
      /\ VmSet(simVms[v], next).state = next
  BY VmSetIs DEF ServerInv
<1> QED BY <1>1, <1>2 DEF ServerInv

LEMMA ToggleIs ==
  ASSUME ServerInv, NEW r, ToggleFirewallRule(r)
  PROVE  /\ ServerInv' /\ simVms' = simVms
         /\ \A s \in SimRules : simRules'[s] = IF s = r THEN ~simRules[s] ELSE simRules[s]
<1>1. CASE r \in SimRules
  <2>1. simRules' = [simRules EXCEPT ![r] = ~simRules[r]] /\ simVms' = simVms
    BY <1>1 DEF ToggleFirewallRule
  <2> QED BY <1>1, <2>1 DEF ServerInv
<1>2. CASE r \notin SimRules
  BY <1>2 DEF ToggleFirewallRule, ServerInv
<1> QED BY <1>1, <1>2

\* One that is under way is taken away.
LEMMA TakenKeeps ==
  ASSUME CommandsInv, NEW c \in commands, commands' = commands \ {c}, sent' = sent,
         shown' = shown
  PROVE  CommandsInv'
<1>1. IsFiniteSet(commands')
  BY FS_Subset DEF CommandsInv
<1> QED BY <1>1 DEF CommandsInv

LEMMA LostKeeps ==
  ASSUME SimulatorInv, NEW c \in commands, RequestLost(c)
  PROVE  SimulatorInv'
<1>1. CommandsInv'
  BY TakenKeeps DEF RequestLost, SimulatorInv
<1>2. UNCHANGED <<simVms, simRules, series, shown, stream>> /\ "lost" \in upset'
  BY DEF RequestLost
<1>3. ServerInv' /\ ShownInv' /\ PointsInv'
  BY <1>2 DEF SimulatorInv, ServerInv, ShownInv, PointsInv
<1>4. ToldInv' /\ RulesInv' /\ VmsInv'
  BY <1>2 DEF ToldInv, RulesInv, VmsInv
<1> QED BY <1>1, <1>3, <1>4 DEF SimulatorInv

LEMMA OthersKeep ==
  ASSUME SimulatorInv, OthersAsk
  PROVE  SimulatorInv'
<1>1. ServerInv'
  BY SetVmIs, ToggleIs DEF OthersAsk, SimulatorInv
<1>2. /\ UNCHANGED <<series, shown, stream, commands>> /\ sent' = sent + 1
      /\ \/ shown.mode = "loading" /\ shown.vms = << >> /\ shown.rules = << >>
         \/ "others" \in upset'
  BY DEF OthersAsk
<1>3. ShownInv' /\ PointsInv'
  BY <1>2 DEF SimulatorInv, ShownInv, PointsInv
<1>4. CommandsInv'
  <2>1. sent \in Nat /\ \A c \in commands : c.n <= sent /\ c.n \in Nat
    BY CommandsAre DEF SimulatorInv, CommandsInv
  <2> QED BY <1>2, <2>1 DEF SimulatorInv, CommandsInv
<1>5. ToldInv' /\ RulesInv' /\ VmsInv'
  BY <1>2 DEF ToldInv, RulesInv, VmsInv
<1> QED BY <1>1, <1>3, <1>4, <1>5 DEF SimulatorInv

\* A request arrives: it was one of an odd number for its rule, or the last of its
\* machine if it was the only one.
LEMMA ArrivesKeeps ==
  ASSUME SimulatorInv, NEW c \in commands, RequestArrives(c)
  PROVE  SimulatorInv'
<1>1. /\ commands' = commands \ {c} /\ UNCHANGED <<series, shown, stream, sent>>
      /\ upset' = upset \union {"reordered" : d \in {e \in commands : e.n < c.n}}
      /\ Executed(c)
  BY DEF RequestArrives
<1>2. CommandsInv'
  BY <1>1, TakenKeeps DEF SimulatorInv
<1>3. ShownInv' /\ PointsInv'
  BY <1>1 DEF SimulatorInv, ShownInv, PointsInv
<1>4. ToldInv'
  BY <1>1 DEF SimulatorInv, CommandsInv, ToldInv
<1>5. /\ upset' \subseteq {"reordered"} => upset \subseteq {"reordered"}
      /\ upset' = {} => upset = {} /\ \A e \in commands : ~(e.n < c.n)
  BY <1>1
<1>6. c \in VmCommand \union RuleCommand
  BY DEF SimulatorInv, CommandsInv
<1>7. CASE OfVm(c)
  <2>1. c.vm \in Machines /\ c.next \in VmStates /\ SetVmState(c.vm, c.next)
    BY <1>1, <1>6, <1>7, CommandsAre DEF Executed, OfVm
  <2>2. /\ ServerInv' /\ simRules' = simRules
        /\ \A w \in Machines : simVms'[w].state = IF w = c.vm THEN c.next ELSE simVms[w].state
    BY <2>1, SetVmIs DEF SimulatorInv
  <2>3. \A r : Flips(r)' = Flips(r)
    BY <1>1, <1>7 DEF Flips
  <2>4. RulesInv'
    BY <1>1, <1>5, <2>2, <2>3 DEF SimulatorInv, RulesInv
  <2>5. VmsInv'
    <3> SUFFICES ASSUME shown.mode = "live", upset' = {}, NEW w \in Machines
                 PROVE  /\ Orders(w)' = {} => shown.vms[w].state = simVms'[w].state
                        /\ \A d \in Orders(w)' : (\A e \in Orders(w)' : e.n <= d.n)
                                                   => shown.vms[w].state = d.next
      BY <1>1 DEF VmsInv
    <3>1. /\ Orders(w) = {} => shown.vms[w].state = simVms[w].state
          /\ \A d \in Orders(w) : (\A e \in Orders(w) : e.n <= d.n) => shown.vms[w].state = d.next
      BY <1>5 DEF SimulatorInv, VmsInv
    <3>2. Orders(w)' = IF w = c.vm THEN Orders(w) \ {c} ELSE Orders(w)
      BY <1>1, <1>7 DEF Orders
    <3>3. CASE w # c.vm
      BY <2>2, <3>1, <3>2, <3>3
    <3>4. CASE w = c.vm
      <4>1. c \in Orders(w) /\ \A d \in Orders(w) : d.n \in Nat /\ c.n \in Nat /\ ~(d.n < c.n)
        BY <1>5, <1>6, <1>7, <3>4, CommandsAre DEF Orders, SimulatorInv, CommandsInv
      <4>2. ASSUME Orders(w)' = {} PROVE shown.vms[w].state = c.next
        <5>1. \A d \in Orders(w) : d = c
          BY <3>2, <3>4, <4>2
        <5> QED BY <3>1, <4>1, <5>1
      <4>3. ASSUME NEW d \in Orders(w)', \A e \in Orders(w)' : e.n <= d.n
            PROVE  shown.vms[w].state = d.next
        <5>1. d \in Orders(w) /\ \A e \in Orders(w) : e = c \/ e.n <= d.n
          BY <3>2, <3>4, <4>3
        <5>2. c.n <= d.n
          BY <4>1, <5>1
        <5> QED BY <3>1, <5>1, <5>2
      <4> QED BY <2>2, <3>4, <4>2, <4>3
    <3> QED BY <3>3, <3>4
  <2> QED BY <1>2, <1>3, <1>4, <2>2, <2>4, <2>5 DEF SimulatorInv
<1>8. CASE ~OfVm(c)
  <2>1. ToggleFirewallRule(c.rule)
    BY <1>1, <1>8 DEF Executed, OfVm
  <2>2. /\ ServerInv' /\ simVms' = simVms
        /\ \A s \in SimRules : simRules'[s] = IF s = c.rule THEN ~simRules[s] ELSE simRules[s]
    BY <2>1, ToggleIs DEF SimulatorInv
  <2>3. \A v : Orders(v)' = Orders(v)
    BY <1>1, <1>8 DEF Orders
  <2>4. VmsInv'
    BY <1>1, <1>5, <2>2, <2>3 DEF SimulatorInv, VmsInv
  <2>5. RulesInv'
    <3> SUFFICES ASSUME shown.mode = "live", upset' \subseteq {"reordered"}, NEW s \in SimRules
                 PROVE  shown.rules[s] = simRules'[s] <=> Even(Flips(s)')
      BY <1>1 DEF RulesInv
    <3>1. shown.rules[s] = simRules[s] <=> Even(Flips(s))
      BY <1>5 DEF SimulatorInv, RulesInv
    <3>2. CASE s # c.rule
      <4>1. Flips(s)' = Flips(s)
        BY <1>1, <3>2 DEF Flips
      <4> QED BY <2>2, <3>1, <3>2, <4>1
    <3>3. CASE s = c.rule
      <4>1. Flips(s)' = Flips(s) \ {c} /\ c \in Flips(s)
        BY <1>1, <1>8, <3>3 DEF Flips
      <4>2. IsFiniteSet(Flips(s))
        BY FS_Subset DEF Flips, SimulatorInv, CommandsInv
      <4>3. Even(Flips(s)') <=> ~Even(Flips(s))
        BY <4>1, <4>2, EvenMoves
      <4>4. simRules'[s] = ~simRules[s] /\ shown.rules[s] \in BOOLEAN /\ simRules[s] \in BOOLEAN
        BY <2>2, <3>3 DEF SimulatorInv, ServerInv, ShownInv
      <4> HIDE DEF Even, Flips
      <4> QED BY <3>1, <4>3, <4>4
    <3> QED BY <3>2, <3>3
  <2> QED BY <1>2, <1>3, <1>4, <2>2, <2>4, <2>5 DEF SimulatorInv
<1> QED BY <1>7, <1>8

LEMMA SimulatorStays == SimulatorInv /\ [SimulatorNext]_simulatorVars => SimulatorInv'
<1>1. SimulatorInv /\ UNCHANGED simulatorVars => SimulatorInv'
  BY DEF simulatorVars, SimulatorInv, ServerInv, ShownInv, CommandsInv, ToldInv, RulesInv, VmsInv,
         PointsInv, Flips, Orders
<1> QED BY <1>1, SimTickKeeps, ReadKeeps, AnsweredKeeps, FilledKeeps, AsksVmKeeps, TogglesKeeps,
           ArrivesKeeps, LostKeeps, OthersKeep DEF SimulatorNext

LEMMA SimulatorInvKeeps == SimulatorInv => SimulatorKept
<1> SUFFICES ASSUME SimulatorInv PROVE SimulatorKept
  OBVIOUS
<1>1. \A v \in Machines : simVms[v].state = "stopped" => ~simVms[v].busy /\ ~simVms[v].up
  BY DEF SimulatorInv, ServerInv, AtRest
<1>2. shown.mode # "loading" =>
        \A v \in Machines : shown.vms[v].state = "stopped" => ~shown.vms[v].busy /\ ~shown.vms[v].up
  BY DEF SimulatorInv, ShownInv, AtRest
<1>3. ASSUME shown.mode = "live", commands = {}, upset \subseteq {"reordered"}
      PROVE  /\ shown.rules = simRules
             /\ upset = {} => \A v \in Machines : shown.vms[v].state = simVms[v].state
  <2>1. \A x : Flips(x) = {} /\ Orders(x) = {}
    BY <1>3 DEF Flips, Orders
  <2>2. Even({})
    BY FS_EmptySet DEF Even
  <2>3. \A r \in SimRules : shown.rules[r] = simRules[r]
    BY <1>3, <2>1, <2>2 DEF SimulatorInv, RulesInv
  <2>4. shown.rules = simRules
    BY <1>3, <2>3 DEF SimulatorInv, ServerInv, ShownInv
  <2> QED BY <1>3, <2>1, <2>4 DEF SimulatorInv, VmsInv
<1>4. ASSUME stream = << >>, NEW k \in Nat, k = IF Len(shown.points) < SeriesLen THEN Len(shown.points) ELSE SeriesLen
      PROVE  LastOf(k, shown.points) = LastOf(k, series)
  <2>1. PICK b \in Nat : /\ InRow(shown.points, b) /\ InRow(stream, b + Len(stream))
                         /\ InRow(series, b + Len(stream))
    BY DEF PointsInv, SimulatorInv
  <2>2. Len(stream) = 0 /\ b + Len(stream) = b
    BY <1>4
  <2>3. Len(shown.points) \in Nat /\ Len(series) = SeriesLen /\ SeriesLen \in Nat
    BY <2>1, SimulatorAssumption DEF InRow, SimulatorInv, PointsInv
  <2>4. k <= Len(shown.points) /\ k <= Len(series)
    BY <1>4, <2>3
  <2> QED BY <2>1, <2>2, <2>4, RunsAgree
<1>5. Len(shown.points) \in Nat /\ SeriesLen \in Nat
  BY SimulatorAssumption DEF SimulatorInv, ShownInv
<1> QED BY <1>1, <1>2, <1>3, <1>4, <1>5, SeedsAreSound DEF SimulatorKept

-----------------------------------------------------------------------------
\* Whatever a page waits for and in whatever order it comes: a page is seen only behind
\* the gate; the live view has one connection and shows each thing once, the newest
\* first; its machines, rules and points are the server's once its requests are answered in
\* order; a list is of the address it was asked for; and a terminal and the shell behind it
\* are both there or both gone.
THEOREM PagesAreKept == MCSpec => []PagesKept
<1> DEFINE I == GateInv /\ LiveInv /\ SimulatorInv /\ PollInv /\ AskedInv /\ TerminalInv
<1>1. MCInit => I
  BY InitGate, InitLive, InitSimulator, InitPoll, InitAsked, InitTerminal DEF MCInit
<1>2. I /\ [MCNext]_consoleVars => I'
  <2> SUFFICES ASSUME I, [MCNext]_consoleVars PROVE I'
    OBVIOUS
  <2>1. /\ [SignInNext]_signVars /\ [LiveNext]_liveVars /\ [SimulatorNext]_simulatorVars
        /\ [PollNext]_pollVars /\ [TerminalsNext]_terminalVars
    BY DEF MCNext, consoleVars, AuthStep, SignInStep, LiveStep, SimulatorStep, PollStep, TerminalStep,
           AccountStep, FleetStep, InstallationStep, GatewayStep, SettingsStep, PagesRest, pageVars
  <2> QED BY <2>1, GateStays, LiveStays, SimulatorStays, PollStays, AskedStays, TerminalStays
<1>3. I => PagesKept
  BY GateInvHolds, LiveInvKeeps, SimulatorInvKeeps DEF PagesKept, AskedInv, TerminalInv
<1> QED BY <1>1, <1>2, <1>3, PTL DEF MCSpec
=============================================================================

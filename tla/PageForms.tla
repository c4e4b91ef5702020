----------------------------- MODULE PageForms -----------------------------
(***************************************************************************)
(* Pages that show what they loaded a while ago and send it back whole:    *)
(* the users of the domain, and the settings.                              *)
(***************************************************************************)
EXTENDS FiniteSets, Functions, Integers

(***************************************************************************)
(* The page of the domain's users (web, components/directory/Users.tsx):   *)
(* it shows them as they were when it loaded them, opens one at a time,    *)
(* and sends the fields of the open one whole: two of the three are here.  *)
(* An account is known by its distinguished name, which another may have.  *)
(***************************************************************************)

CONSTANTS
  Dns,          \* distinguished names
  Typings,      \* what may be typed into a field
  MaxUnderWay   \* requests under way at once: a bound on the behaviours

VARIABLES
  domain,       \* the accounts: [name -> fields]
  usersShown,   \* those the page has loaded
  open,         \* the one whose details are to be open; NoOne
  draft,        \* the fields of the open one, as typed; NoDraft unless it is shown
  underWay      \* saves on their way to the control plane

userVars == <<domain, usersShown, open, draft, underWay>>

NoOne == "none"
UserFields == {"displayName", "description"}

\* A value, and for whom it was typed.
Value(dn, v) == [for |-> dn, text |-> v]
Original == "original"
Made(dn) == [f \in UserFields |-> Value(dn, Original)]
NoDraft == << >>

UsersInit ==
  /\ domain = [dn \in Dns |-> Made(dn)]
  /\ usersShown = domain
  /\ open = NoOne /\ draft = NoDraft
  /\ underWay = {}

-----------------------------------------------------------------------------
\* A bug to be caught: the fields outlive the account they were opened for.
DraftOnce(dn) == IF draft = NoDraft THEN usersShown[dn] ELSE draft

\* UserDetail is made anew for each account that is opened.
FieldsFor(dn) == usersShown[dn]

Open(dn) ==
  /\ dn \in DOMAIN usersShown
  /\ open' = dn /\ draft' = FieldsFor(dn)
  /\ UNCHANGED <<domain, usersShown, underWay>>

Close ==
  /\ open # NoOne
  /\ open' = NoOne /\ draft' = NoDraft
  /\ UNCHANGED <<domain, usersShown, underWay>>

Type(f, v) ==
  /\ draft # NoDraft
  /\ draft' = [draft EXCEPT ![f] = Value(open, v)]
  /\ UNCHANGED <<domain, usersShown, open, underWay>>

Under(op) ==
  /\ draft # NoDraft /\ Cardinality(underWay) < MaxUnderWay
  /\ underWay' = underWay \union {[op |-> op, dn |-> open, fields |-> draft]}
  /\ UNCHANGED <<domain, usersShown, open, draft>>

SaveUser == Under("save")
RemoveUser == Under("delete")

\* refresh: the details of an account that is gone are not shown, and are made anew
\* once there is one of that name again; the fields of one that is still there stay as
\* they were typed.
Reload ==
  /\ usersShown' = domain
  /\ draft' = IF open \notin DOMAIN domain THEN NoDraft
              ELSE IF draft = NoDraft THEN domain[open] ELSE draft
  /\ UNCHANGED <<domain, open, underWay>>

\* updateUser and deleteUser: they fail when there is no account of that name.
UserRequestArrives(r) ==
  /\ underWay' = underWay \ {r}
  /\ domain' = CASE r.dn \notin DOMAIN domain -> domain
                 [] r.op = "delete" -> Restrict(domain, DOMAIN domain \ {r.dn})
                 [] OTHER -> [domain EXCEPT ![r.dn] = r.fields]
  /\ UNCHANGED <<usersShown, open, draft>>

\* Accounts come and go, and are edited, elsewhere.
MadeElsewhere(dn) ==
  /\ dn \notin DOMAIN domain
  /\ domain' = [d \in DOMAIN domain \union {dn} |-> IF d = dn THEN Made(dn) ELSE domain[d]]
  /\ UNCHANGED <<usersShown, open, draft, underWay>>

EditedElsewhere(dn, f, v) ==
  /\ dn \in DOMAIN domain
  /\ domain' = [domain EXCEPT ![dn][f] = Value(dn, v)]
  /\ UNCHANGED <<usersShown, open, draft, underWay>>

UsersNext ==
  \/ \E dn \in Dns : Open(dn) \/ MadeElsewhere(dn) \/ \E f \in UserFields, v \in Typings : EditedElsewhere(dn, f, v)
  \/ Close \/ Reload \/ SaveUser \/ RemoveUser
  \/ \E f \in UserFields, v \in Typings : Type(f, v)
  \/ \E r \in underWay : UserRequestArrives(r)

UsersSpec == UsersInit /\ [][UsersNext]_userVars

-----------------------------------------------------------------------------
(* Properties.                                                             *)

\* What was typed for one user never gets to another, though the page opens one after
\* the other, is loaded anew, and saves are still under way.
NothingMixedUp ==
  /\ \A dn \in DOMAIN domain, f \in UserFields : domain[dn][f].for = dn
  /\ draft # NoDraft => open \in DOMAIN usersShown

-----------------------------------------------------------------------------
(***************************************************************************)
(* How long things are kept, and how much is logged: the settings of the   *)
(* resolver (dns/db.ts) and of the control plane (core/system-settings.ts),*)
(* what enforces them, and the two pages that write both.  A page seeds    *)
(* its form once and sends it whole (web, app/settings/page.tsx and        *)
(* components/dns/Settings.tsx).                                           *)
(***************************************************************************)

CONSTANTS
  MostDays,     \* clampDays: 365
  MostLines,    \* clampLines: 20,000, and 200 at least, which is 1 here
  Typed         \* numbers that are typed: a bound on the inputs

ASSUME SettingsFormsAssumption == MostDays \in Nat \ {0} /\ MostLines \in Nat \ {0} /\ Typed \subseteq Nat

VARIABLES
  onFile,       \* each setting, as it is on file
  enforced,     \* each setting, as it was when it was enforced last
  forms,        \* the form of each page; NoForm before its settings are loaded
  request,      \* the save under way, NoRequest if none: one at a time is a bound
  saidSaved,    \* the page of the resolver says "Saved"
  standing      \* pages whose last save is the last there was, unedited since

formVars == <<onFile, enforced, forms, request, saidSaved, standing>>

DnsFields == {"queries", "clients"}
Fields == DnsFields \union {"events", "lines"}
Page == {"backend", "dns"}
FieldsOf(p) == IF p = "dns" THEN DnsFields ELSE Fields

NoForm == << >>
NoRequest == [page |-> "none", form |-> NoForm]

FormsInit ==
  /\ onFile = [f \in Fields |-> 1]
  /\ enforced = onFile
  /\ forms = [p \in Page |-> NoForm]
  /\ request = NoRequest
  /\ saidSaved = FALSE
  /\ standing = {}

Within(low, v, high) == IF v < low THEN low ELSE IF v > high THEN high ELSE v

\* clampDays, clampLines.
Clamped(f, v) == IF f = "lines" THEN Within(1, v, MostLines) ELSE Within(0, v, MostDays)

-----------------------------------------------------------------------------
(* The pages.                                                              *)

OpenForm(p) ==
  /\ forms' = [forms EXCEPT ![p] = [f \in FieldsOf(p) |-> onFile[f]]]
  /\ saidSaved' = IF p = "dns" THEN FALSE ELSE saidSaved
  /\ standing' = standing \ {p}
  /\ UNCHANGED <<onFile, enforced, request>>

\* Also while a save is under way: the fields are not disabled.
EditForm(p, f, v) ==
  /\ forms[p] # NoForm
  /\ forms' = [forms EXCEPT ![p][f] = v]
  /\ saidSaved' = IF p = "dns" THEN FALSE ELSE saidSaved
  /\ standing' = standing \ {p}
  /\ UNCHANGED <<onFile, enforced, request>>

\* save: disabled while busy.
SendForm(p) ==
  /\ request = NoRequest /\ forms[p] # NoForm
  /\ request' = [page |-> p, form |-> forms[p]]
  /\ UNCHANGED <<onFile, enforced, forms, saidSaved, standing>>

-----------------------------------------------------------------------------
(* The control plane.                                                      *)

Overwritten(by) == [f \in Fields |-> IF f \in DOMAIN by THEN by[f] ELSE onFile[f]]

\* A bug to be caught: only a change of the first is passed on to the resolver.
PassedOnForQueries(next) == next["queries"] # onFile["queries"]

\* The resolver is told when one of its two settings is another.
PassedOn(next) == \E f \in DnsFields : next[f] # onFile[f]

\* saveSystemSettings: days and lines are clamped; setLogCapacity at once, and the
\* resolver prunes at once if it is told.  Events and leases wait for the next prune.
SaveSystemSettings(form) ==
  LET next == [f \in Fields |-> Clamped(f, form[f])]
      now == {"lines"} \union (IF PassedOn(next) THEN DnsFields ELSE {})
  IN  /\ onFile' = [f \in Fields |-> IF f \in now \union {"events"} THEN next[f] ELSE onFile[f]]
      /\ enforced' = [f \in Fields |-> IF f \in now THEN next[f] ELSE enforced[f]]

\* applyDnsSettings: what was typed is stored as it is, and enforced.
ApplyDnsSettings(form) ==
  /\ onFile' = Overwritten(form)
  /\ enforced' = [f \in Fields |-> IF f \in DOMAIN form THEN form[f] ELSE enforced[f]]

\* The save is done, and the page has its answer.
Saved ==
  /\ request # NoRequest
  /\ IF request.page = "dns" THEN ApplyDnsSettings(request.form) ELSE SaveSystemSettings(request.form)
  /\ request' = NoRequest
  /\ saidSaved' = (saidSaved \/ request.page = "dns")
  /\ standing' = {p \in {request.page} : forms[p] = request.form}
  /\ UNCHANGED forms

\* The request is lost: the button can be pressed again.
SaveFails ==
  /\ request # NoRequest
  /\ request' = NoRequest
  /\ UNCHANGED <<onFile, enforced, forms, saidSaved, standing>>

\* pruneNow, by the hour and by the button; startDns and startSystemMaintenance when
\* the control plane starts, which set the length of the log, too.
PruneNow ==
  /\ enforced' = onFile
  /\ UNCHANGED <<onFile, forms, request, saidSaved, standing>>

FormsNext ==
  \/ \E p \in Page : \/ OpenForm(p) \/ SendForm(p)
                     \/ \E f \in FieldsOf(p), v \in Typed : EditForm(p, f, v)
  \/ Saved \/ SaveFails \/ PruneNow

FormsSpec == FormsInit /\ [][FormsNext]_formVars

-----------------------------------------------------------------------------
(* Properties.                                                             *)

\* The log and the settings of the resolver are enforced as soon as they are saved,
\* by either page; what is typed on the page of the control plane is never stored
\* out of bounds; and the page that saved last shows what is in force, as long as
\* it is not edited.
FormsKept ==
  /\ \A f \in DnsFields \union {"lines"} : enforced[f] = onFile[f]
  /\ onFile["events"] <= MostDays /\ onFile["lines"] \in 1 .. MostLines
  /\ \A p \in standing, f \in Fields : f \in FieldsOf(p) =>
       onFile[f] = IF p = "backend" THEN Clamped(f, forms[p][f]) ELSE forms[p][f]

=============================================================================

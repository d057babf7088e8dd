------------------------------ MODULE Settings ------------------------------
(***************************************************************************)
(* The desktop's settings: the file they are kept in, the copy the window  *)
(* works with, the policy engine built from that copy, and the dialogs     *)
(* that edit it.  The settings center may have one of the other three      *)
(* dialogs open above it; each takes a copy of the settings and writes     *)
(* the whole of them back.                                                 *)
(***************************************************************************)
EXTENDS Integers, Sequences, FiniteSets, SequencesExt

CONSTANTS Devices,      \* device ids
          OwnDevice,    \* the id of this device unless it is changed
          RuleIds,      \* names of policy rules
          StarterRules, \* the rules of the starter pack
          People,       \* keys of principals, ordered as the directory's list orders them
          Timeouts,     \* what the spin box of the auto-lock may be set to
          Teams,        \* what the default team vault may be set to
          MaxRequests,  \* bound: access requests ever created
          MaxRules,     \* bound: rules in a pack
          MaxOpened,    \* bound: dialogs opened
          Readable      \* {TRUE}: the file can always be read; or BOOLEAN

ASSUME SettingsAssumption ==
  /\ OwnDevice \in Devices
  /\ StarterRules \in Seq(RuleIds) /\ Len(StarterRules) <= MaxRules
  /\ IsInjective(StarterRules)
  /\ People \subseteq Int
  /\ Timeouts \subseteq Int /\ 300 \in Timeouts
  /\ "Personal" \in Teams
  /\ MaxRequests \in Nat /\ MaxRules \in Nat /\ MaxOpened \in Nat
  /\ Readable \in {{TRUE}, BOOLEAN}

VARIABLES
  file,     \* the settings file
  live,     \* the window's settings
  policy,   \* the settings that the policy engine was built from
  center,   \* the settings center
  dialog,   \* the dialog on top, if any
  made,     \* how many access requests there have been
  opened,   \* how many dialogs have been opened
  adrift    \* why `live` need not be what the file holds

vars == <<file, live, policy, center, dialog, made, opened, adrift>>

Statuses == {"pending", "approved", "denied"}
Request == [id : 1..MaxRequests, status : Statuses]
Principal == [key : People, devices : SUBSET Devices, active : BOOLEAN]

\* A pack has one rule of a name, a directory one principal of a key, a queue one
\* request of an id.
Rules == {pack \in UNION {[1..n -> RuleIds] : n \in 0..MaxRules} : IsInjective(pack)}
Directories == {D \in SUBSET Principal : \A p, q \in D : p.key = q.key => p = q}
Queues == {Q \in SUBSET Request : \A q, r \in Q : q.id = r.id => q = r}

VaultSettings ==
  [lock : Timeouts, team : Teams, own : Devices, trusted : SUBSET Devices,
   requireDevice : BOOLEAN, rules : Rules, directory : Directories,
   requests : Queues]

Defaults ==
  [lock |-> 300, team |-> "Personal", own |-> OwnDevice, trusted |-> {OwnDevice},
   requireDevice |-> TRUE, rules |-> StarterRules, directory |-> {}, requests |-> {}]

\* Slip: an empty list of trusted devices stays empty.
NormalizedAsIs(s) == s

\* When a trusted device is required and none is trusted, this one is.
Normalized(s) ==
  IF s.requireDevice /\ s.trusted = {} THEN [s EXCEPT !.trusted = {s.own}] ELSE s

NoFile == [absent |-> TRUE]
Load(f) == IF f = NoFile THEN Defaults ELSE Normalized(f)

Closed == [kind |-> "none"]
NoCenter == [open |-> FALSE]

\* The start of the application; whatever is wrong with the file, it starts.
Started(readable) ==
  /\ live' = IF readable THEN Load(file) ELSE Defaults
  /\ policy' = live'
  /\ center' = NoCenter /\ dialog' = Closed
  /\ adrift' = IF readable THEN "no" ELSE "unread"

Init ==
  /\ file = NoFile
  /\ live = Defaults /\ policy = Defaults
  /\ center = NoCenter /\ dialog = Closed
  /\ made = 0 /\ opened = 0
  /\ adrift = "no"

\* The window is closed or killed, in whatever state, and started again.
Restart(readable) ==
  /\ opened < MaxOpened
  /\ opened' = opened + 1
  /\ Started(readable)
  /\ UNCHANGED <<file, made>>

\* What is saved is written aside and renamed; a save that raises leaves the file.
Save(s, raises) ==
  /\ file' = IF raises THEN file ELSE Normalized(s)
  /\ adrift' = IF ~raises THEN "no" ELSE IF adrift = "unread" THEN "unread" ELSE "unsaved"

(***************************************************************************)
(* Lists and their rows.  Requests are listed with the pending ones first, *)
(* principals with the active ones first.                                  *)
(***************************************************************************)
RequestBefore(q, r) ==
  IF (q.status = "pending") = (r.status = "pending") THEN q.id < r.id ELSE q.status = "pending"

PrincipalBefore(p, q) == IF p.active = q.active THEN p.key < q.key ELSE p.active

RequestRow(S, r) == 1 + Cardinality({q \in S : RequestBefore(q, r)})
RequestAt(S, row) == {r \in S : RequestRow(S, r) = row}

PrincipalRow(S, p) == 1 + Cardinality({q \in S : PrincipalBefore(q, p)})
PrincipalAt(S, row) == {p \in S : PrincipalRow(S, p) = row}

RuleAt(S, row) == {S[i] : i \in DOMAIN S \cap {row}}

(***************************************************************************)
(* Opening and closing a dialog.  `draft` is what is edited, `table` what  *)
(* the dialog's table was filled with last, and `row` its current row.     *)
(***************************************************************************)
Dialog(kind, items) ==
  [kind |-> kind, settings |-> Normalized(live), draft |-> items, table |-> items, row |-> 0]

Show(d) ==
  /\ dialog.kind = "none" /\ opened < MaxOpened
  /\ opened' = opened + 1
  /\ dialog' = d
  /\ UNCHANGED <<file, live, policy, center, made, adrift>>

PolicyPackDialog == Show(Dialog("rules", Normalized(live).rules))
DirectoryDialog == Show(Dialog("directory", Normalized(live).directory))
AccessRequestsDialog == Show(Dialog("requests", Normalized(live).requests))

\* Slip: the window keeps the settings it had.
CloseKeepsLive(kind) ==
  /\ dialog.kind = kind
  /\ dialog' = Closed
  /\ policy' = live
  /\ UNCHANGED <<file, live, center, made, opened, adrift>>

\* The window takes the dialog's settings, saved or not, and rebuilds the engine.
Close(kind) ==
  /\ dialog.kind = kind
  /\ dialog' = Closed
  /\ live' = Normalized(dialog.settings)
  /\ policy' = live'
  /\ UNCHANGED <<file, center, made, opened, adrift>>

ShowPolicyPack == PolicyPackDialog \/ Close("rules")
ShowDirectory == DirectoryDialog \/ Close("directory")
ShowAccessRequests == AccessRequestsDialog \/ Close("requests")

\* A row of the table is made its current row, which it stays.
Pick(row) ==
  /\ dialog.kind # "none" /\ dialog.row # row
  /\ row \in 1..(IF dialog.kind = "rules" THEN Len(dialog.table) ELSE Cardinality(dialog.table))
  /\ dialog' = [dialog EXCEPT !.row = row]
  /\ UNCHANGED <<file, live, policy, center, made, opened, adrift>>

\* Slip: the table is not filled anew.
EditUnshown(kind, items) ==
  /\ dialog.kind = kind
  /\ dialog' = [dialog EXCEPT !.draft = items]
  /\ UNCHANGED <<file, live, policy, center, opened, adrift>>

\* An edit of the draft, after which the table is filled anew.
Edit(kind, items) ==
  /\ dialog.kind = kind
  /\ dialog' = [dialog EXCEPT !.draft = items, !.table = items]
  /\ UNCHANGED <<file, live, policy, center, opened, adrift>>

\* The save button: the dialog's settings change first, then they are saved.
SaveAs(kind, s, raises) ==
  /\ dialog.kind = kind
  /\ dialog' = [dialog EXCEPT !.settings = Normalized(s)]
  /\ Save(Normalized(s), raises)
  /\ UNCHANGED <<live, policy, center, made, opened>>

(***************************************************************************)
(* Access requests.                                                        *)
(***************************************************************************)
NewRequest(id) == [id |-> id, status |-> "pending"]

CreateRequest ==
  /\ made < MaxRequests
  /\ made' = made + 1
  /\ Edit("requests", dialog.draft \cup {NewRequest(made + 1)})

\* Slip: a request is decided again.
DecideAgain(Q, r, verdict) == (Q \ {r}) \cup {[r EXCEPT !.status = verdict]}

\* Only a pending request is decided; the others raise, which leaves the queue.
Decide(Q, r, verdict) ==
  IF r.status = "pending" THEN (Q \ {r}) \cup {[r EXCEPT !.status = verdict]} ELSE Q

DecideSelected(verdict) ==
  /\ dialog.kind = "requests"
  /\ \E r \in RequestAt(dialog.draft, dialog.row) :
       Edit("requests", Decide(dialog.draft, r, verdict))
  /\ UNCHANGED made

SaveRequests(raises) ==
  SaveAs("requests", [dialog.settings EXCEPT !.requests = dialog.draft], raises)

(***************************************************************************)
(* The directory.                                                          *)
(***************************************************************************)
PrincipalForm == Principal

Upsert(D, p) == {q \in D : q.key # p.key} \cup {p}

UpsertPrincipal(p) ==
  /\ dialog.kind = "directory"
  /\ Edit("directory", Upsert(dialog.draft, p))
  /\ UNCHANGED made

DeactivateSelected ==
  /\ dialog.kind = "directory"
  /\ \E p \in PrincipalAt(dialog.draft, dialog.row) :
       Edit("directory", Upsert(dialog.draft, [p EXCEPT !.active = FALSE]))
  /\ UNCHANGED made

TrustedDevices(D) == UNION {p.devices : p \in {q \in D : q.active}}

\* Devices of active principals become trusted; none stops being so.
SaveDirectory(raises) ==
  SaveAs("directory",
         [dialog.settings EXCEPT !.directory = dialog.draft,
                                 !.trusted = @ \cup TrustedDevices(dialog.draft)],
         raises)

(***************************************************************************)
(* The policy pack.                                                        *)
(***************************************************************************)
RuleForm == RuleIds

\* The rules of other names, in their order.
Others(pack, rule) ==
  LET kept == {i \in DOMAIN pack : pack[i] # rule}
      Row(i) == 1 + Cardinality({j \in kept : j < i})
  IN  [k \in 1..Cardinality(kept) |-> pack[CHOOSE i \in kept : Row(i) = k]]

\* A rule replaces the one of its name, at the end of the pack.
AddRule(rule) ==
  /\ dialog.kind = "rules"
  /\ Len(Others(dialog.draft, rule)) < MaxRules
  /\ Edit("rules", Append(Others(dialog.draft, rule), rule))
  /\ UNCHANGED made

RemoveSelected ==
  /\ dialog.kind = "rules" /\ dialog.row \in DOMAIN dialog.draft
  /\ Edit("rules", RemoveAt(dialog.draft, dialog.row))
  /\ UNCHANGED made

RestoreDefaults ==
  /\ dialog.kind = "rules"
  /\ Edit("rules", StarterRules)
  /\ UNCHANGED made

SaveRules(raises) ==
  SaveAs("rules", [dialog.settings EXCEPT !.rules = dialog.draft], raises)

(***************************************************************************)
(* The settings center.                                                    *)
(***************************************************************************)
\* What may be on its four pages when it is accepted.
SecurityPage == Timeouts
ZeroTrustPage == BOOLEAN
IdentityPage == [own : Devices, trusted : SUBSET Devices]
DefaultsPage == Teams

OpenCenter ==
  /\ ~center.open /\ dialog.kind = "none" /\ opened < MaxOpened
  /\ opened' = opened + 1
  /\ center' = [open |-> TRUE, settings |-> live]
  /\ UNCHANGED <<file, live, policy, dialog, made, adrift>>

Cancel ==
  /\ center.open /\ dialog.kind = "none"
  /\ center' = NoCenter
  /\ UNCHANGED <<file, live, policy, dialog, made, opened, adrift>>

\* What the pages do not show is taken from the settings it was opened with.
Accepted(lock, requireDevice, identity, team) ==
  [center.settings EXCEPT !.lock = lock, !.team = team, !.own = identity.own,
                          !.trusted = identity.trusted, !.requireDevice = requireDevice]

\* The window's settings change first; a save that raises leaves the policy engine.
ShowSettings(lock, requireDevice, identity, team, raises) ==
  /\ center.open /\ dialog.kind = "none"
  /\ center' = NoCenter
  /\ live' = Normalized(Accepted(lock, requireDevice, identity, team))
  /\ Save(live', raises)
  /\ policy' = IF raises THEN policy ELSE live'
  /\ UNCHANGED <<dialog, made, opened>>

Next ==
  \/ \E readable \in Readable : Restart(readable)
  \/ ShowPolicyPack \/ ShowDirectory \/ ShowAccessRequests
  \/ \E row \in 1..(MaxRequests + MaxRules) : Pick(row)
  \/ CreateRequest
  \/ \E verdict \in {"approved", "denied"} : DecideSelected(verdict)
  \/ \E p \in PrincipalForm : UpsertPrincipal(p)
  \/ DeactivateSelected
  \/ \E rule \in RuleForm : AddRule(rule)
  \/ RemoveSelected \/ RestoreDefaults
  \/ \E raises \in BOOLEAN : SaveRequests(raises) \/ SaveDirectory(raises) \/ SaveRules(raises)
  \/ OpenCenter \/ Cancel
  \/ \E lock \in SecurityPage, requireDevice \in ZeroTrustPage, identity \in IdentityPage,
        team \in DefaultsPage, raises \in BOOLEAN :
       ShowSettings(lock, requireDevice, identity, team, raises)

Spec == Init /\ [][Next]_vars

(***************************************************************************)
(* Properties.                                                             *)
(***************************************************************************)
Kinds == {"rules", "directory", "requests"}
Items(kind) ==
  IF kind = "rules" THEN Rules
  ELSE IF kind = "directory" THEN Directories ELSE Queues

\* Besides the types: wherever settings are used, a device is trusted if one
\* has to be, so nobody is locked out by an empty list; and no request has the id of
\* one that is still to come.
Usable(s) ==
  /\ s \in VaultSettings
  /\ s.requireDevice => s.trusted # {}
  /\ \A r \in s.requests : r.id <= made

\* Every variable has its type: settings in force, saved and shown are normalized
\* (settings.py:42-83), and a dialog shows rows of its own kind.
TypeOK ==
  /\ file = NoFile \/ Usable(file)
  /\ Usable(live) /\ Usable(policy)
  /\ center = NoCenter \/ (center.open /\ Usable(center.settings))
  /\ dialog = Closed \/
       /\ dialog.kind \in Kinds /\ Usable(dialog.settings)
       /\ dialog.draft \in Items(dialog.kind) /\ dialog.table \in Items(dialog.kind)
       /\ dialog.kind = "requests" => \A r \in dialog.draft \cup dialog.table : r.id <= made
       /\ dialog.row \in Nat
  /\ made \in 0..MaxRequests /\ opened \in 0..MaxOpened
  /\ adrift \in {"no", "unsaved", "unread"}

\* With no dialog above the window, the policy engine judges by the settings the
\* window shows, and a restart would find the same ones in the file, unless a
\* save raised or the file could not be read (the show_* handlers take over what
\* their dialog saved, also while the settings center is open below it).
InForceIsStored ==
  dialog.kind = "none" /\ adrift = "no" => policy = live /\ live = Load(file)

Decisions(s) == {r \in s.requests : r.status # "pending"}

\* The decisions that were saved and that the window knows of.
Kept == Decisions(Load(file)) \cap Decisions(live)

\* Such a decision is changed or lost only by accepting a settings center that was
\* opened before it, or by a start that cannot read the file: deciding again,
\* deciding others, closing dialogs and saves that raise never undo it.
OnlyAStaleCenterUndoes ==
  [][\/ Kept \subseteq Kept'
     \/ center.open /\ ~center'.open /\ center.settings.requests # live.requests
     \/ adrift' = "unread"]_vars

\* A decision falls on the request that the table shows in the current row at
\* that moment, and on that one alone: a decided request moves down its list and
\* the current row stays (decide_selected reads the list again by row number).
ActsOnTheRowShown ==
  [][dialog.kind = "requests" /\ dialog'.kind = "requests" =>
       \A r \in dialog.draft \ dialog'.draft : r \in RequestAt(dialog.table, dialog.row)]_vars

\* A decision that was saved stays, as access_dialog.py:96 tells the user it does.
SavedDecisionsStay == [][Decisions(Load(file)) \subseteq Decisions(Load(file'))]_vars

=============================================================================

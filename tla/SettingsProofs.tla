--------------------------- MODULE SettingsProofs ---------------------------
(***************************************************************************)
(* For any rules, people, devices and requests, and however many dialogs   *)
(* are opened. IInv says what the window, the dialog above it and the file *)
(* owe one another between a save and the close of its dialog; of the      *)
(* types it only needs that settings and dialogs are the records they are, *)
(* so that it does not depend on what the dialogs put into them. Types     *)
(* says what they do put into them: settings that trust a device where one *)
(* is required, and packs, directories and queues that hold an item of a   *)
(* name once. The rows of a table are numbered by its order without a gap, *)
(* which is what makes a row number one item.                              *)
(***************************************************************************)
EXTENDS Settings, FiniteSetTheorems, SequenceTheorems, TLAPS

IsSettings(s) ==
  s = [lock |-> s.lock, team |-> s.team, own |-> s.own, trusted |-> s.trusted,
       requireDevice |-> s.requireDevice, rules |-> s.rules, directory |-> s.directory,
       requests |-> s.requests]

IsDialog(d) ==
  d = [kind |-> d.kind, settings |-> d.settings, draft |-> d.draft, table |-> d.table,
       row |-> d.row]

Good(s) == IsSettings(s) /\ Normalized(s) = s

\* A dialog knows every decision that the window knows of, and shows its draft.
DialogInv ==
  dialog = Closed \/
    /\ IsDialog(dialog) /\ dialog.kind \in Kinds /\ Good(dialog.settings)
    /\ dialog.table = dialog.draft
    /\ Decisions(live) \subseteq Decisions(dialog.settings)
    /\ dialog.kind = "requests" =>
         \A r \in Decisions(live) : r \in dialog.draft

\* What was saved last is what a restart finds: the window's settings, or those of the
\* dialog that saved them and is still open.
StoredInv ==
  adrift = "no" =>
    IF dialog.kind = "none" THEN policy = live /\ live = Load(file) ELSE Load(file) = dialog.settings

IInv ==
  /\ file = NoFile \/ IsSettings(file)
  /\ Good(live)
  /\ center = NoCenter \/ (center = [open |-> TRUE, settings |-> center.settings]
                           /\ IsSettings(center.settings))
  /\ DialogInv
  /\ StoredInv

-----------------------------------------------------------------------------
(* Settings and what normalizing leaves alone. *)

LEMMA NormalizedGood ==
  ASSUME NEW s, IsSettings(s)
  PROVE  Good(Normalized(s)) /\ Normalized(s).requests = s.requests
<1>1. CASE s.requireDevice /\ s.trusted = {}
  <2> DEFINE n == [s EXCEPT !.trusted = {s.own}]
  <2>1. Normalized(s) = n
    BY <1>1 DEF Normalized
  <2>2. IsSettings(n) /\ n.trusted = {s.own} /\ n.requests = s.requests
    BY DEF IsSettings
  <2>3. Normalized(n) = n
    BY <2>2 DEF Normalized
  <2> QED
    BY <2>1, <2>2, <2>3 DEF Good
<1>2. CASE ~(s.requireDevice /\ s.trusted = {})
  BY <1>2 DEF Normalized, Good
<1> QED
  BY <1>1, <1>2

\* A settings file is there once settings were saved.
LEMMA FileThere ==
  ASSUME NEW s, IsSettings(s)
  PROVE  s # NoFile
<1>1. "lock" \in DOMAIN s
  BY DEF IsSettings
<1>2. DOMAIN NoFile = {"absent"}
  BY DEF NoFile
<1> QED
  BY <1>1, <1>2

LEMMA LoadGood ==
  ASSUME NEW f, f = NoFile \/ IsSettings(f)
  PROVE  Good(Load(f))
<1>1. Good(Defaults)
  BY DEF Good, IsSettings, Defaults, Normalized
<1> QED
  BY <1>1, NormalizedGood DEF Load

\* Good settings that are saved are what a restart finds.
LEMMA LoadSaved ==
  ASSUME NEW s, Good(s)
  PROVE  Load(s) = s /\ Load(Normalized(s)) = s
BY FileThere DEF Load, Good

LEMMA ClosedKind == Closed.kind = "none"
BY DEF Closed

LEMMA KindsOpen == "none" \notin Kinds
BY DEF Kinds

-----------------------------------------------------------------------------
(* The kinds of steps. *)

\* A dialog is opened on a copy of the window's settings.
LEMMA ShowStep ==
  ASSUME IInv, NEW kind \in Kinds, NEW items, Show(Dialog(kind, items)),
         kind = "requests" => items = Normalized(live).requests
  PROVE  IInv'
<1> DEFINE d == Dialog(kind, items)
<1>1. /\ d = [kind |-> kind, settings |-> live, draft |-> items, table |-> items, row |-> 0]
      /\ dialog' = d /\ UNCHANGED <<file, live, policy, center, adrift>> /\ dialog.kind = "none"
  BY DEF IInv, Good, Dialog, Show
<1>2. IsDialog(d) /\ d.kind = kind /\ d.settings = live /\ d.table = d.draft /\ d.draft = items
  BY <1>1 DEF IsDialog
<1> HIDE DEF d
<1>3. kind = "requests" => items = live.requests
  BY DEF IInv, Good
<1>4. DialogInv'
  BY <1>1, <1>2, <1>3 DEF DialogInv, IInv, Decisions
<1>5. kind # "none"
  BY KindsOpen
<1>6. StoredInv'
  BY <1>1, <1>2, <1>5 DEF StoredInv, IInv
<1> QED
  BY <1>1, <1>4, <1>6 DEF IInv

LEMMA CloseStep ==
  ASSUME IInv, NEW kind \in Kinds, Close(kind)
  PROVE  IInv' /\ Decisions(live) \subseteq Decisions(live')
<1>1. dialog.kind = kind /\ dialog # Closed
  BY KindsOpen, ClosedKind DEF Close
<1>2. Good(dialog.settings) /\ Decisions(live) \subseteq Decisions(dialog.settings)
  BY <1>1 DEF IInv, DialogInv
<1>3. /\ live' = dialog.settings /\ policy' = live' /\ dialog' = Closed
      /\ UNCHANGED <<file, center, adrift>>
  BY <1>2 DEF Close, Good
<1>4. DialogInv'
  BY <1>3 DEF DialogInv
<1>5. StoredInv'
  BY <1>1, <1>3, KindsOpen, ClosedKind DEF StoredInv, IInv
<1> QED
  BY <1>2, <1>3, <1>4, <1>5 DEF IInv

\* An edit of the draft that keeps the decisions the window knows of.
LEMMA EditStep ==
  ASSUME IInv, NEW kind \in Kinds, NEW items, Edit(kind, items),
         kind = "requests" => \A r \in Decisions(live) : r \in items
  PROVE  IInv'
<1>1. dialog.kind = kind /\ dialog # Closed
  BY KindsOpen, ClosedKind DEF Edit
<1>2. IsDialog(dialog)
  BY <1>1 DEF IInv, DialogInv
<1>3. /\ IsDialog(dialog') /\ dialog'.kind = kind /\ dialog'.settings = dialog.settings
      /\ dialog'.draft = items /\ dialog'.table = items
  BY <1>1, <1>2 DEF Edit, IsDialog
<1>4. UNCHANGED <<file, live, policy, center, adrift>>
  BY DEF Edit
<1>5. DialogInv'
  BY <1>1, <1>3, <1>4 DEF IInv, DialogInv, Decisions
<1>6. StoredInv'
  BY <1>1, <1>3, <1>4, KindsOpen DEF IInv, StoredInv
<1> QED
  BY <1>4, <1>5, <1>6 DEF IInv

\* A save from a dialog that keeps the decisions the window knows of.
LEMMA SaveStep ==
  ASSUME IInv, NEW kind \in Kinds, NEW s, NEW raises \in BOOLEAN, SaveAs(kind, s, raises),
         IsSettings(s), Decisions(live) \subseteq Decisions(s)
  PROVE  /\ IInv'
         /\ live' = live
         /\ Load(file') = Load(file) \/ Decisions(live) \subseteq Decisions(Load(file'))
<1> DEFINE n == Normalized(s)
<1>1. dialog.kind = kind /\ dialog # Closed
  BY KindsOpen, ClosedKind DEF SaveAs
<1>2. Good(n) /\ n.requests = s.requests
  BY NormalizedGood
<1>3. IsDialog(dialog)
  BY <1>1 DEF IInv, DialogInv
<1> HIDE DEF n
<1>4. dialog' = [dialog EXCEPT !.settings = n] /\ UNCHANGED <<live, policy, center>>
  BY DEF SaveAs, n
<1>5. /\ IsDialog(dialog') /\ dialog'.kind = kind /\ dialog'.settings = n
      /\ dialog'.draft = dialog.draft /\ dialog'.table = dialog.table
  BY <1>1, <1>3, <1>4 DEF IsDialog
<1>6. Decisions(live) \subseteq Decisions(n)
  BY <1>2 DEF Decisions
<1>7. DialogInv'
  BY <1>1, <1>2, <1>4, <1>5, <1>6 DEF IInv, DialogInv, Decisions
<1>8. CASE raises
  <2>1. file' = file /\ adrift' # "no"
    BY <1>8 DEF SaveAs, Save
  <2> QED
    BY <1>4, <1>7, <2>1 DEF IInv, StoredInv
<1>9. CASE ~raises
  <2>1. file' = n /\ Load(file') = n
    BY <1>2, <1>9, LoadSaved DEF SaveAs, Save, n, Good
  <2>2. StoredInv'
    BY <1>5, <2>1, KindsOpen DEF StoredInv
  <2> QED
    BY <1>2, <1>4, <1>6, <1>7, <2>1, <2>2 DEF IInv, Good
<1> QED
  BY <1>8, <1>9

\* The settings center is accepted.
LEMMA AcceptStep ==
  ASSUME IInv, NEW lock, NEW requireDevice, NEW identity, NEW team, NEW raises \in BOOLEAN,
         ShowSettings(lock, requireDevice, identity, team, raises)
  PROVE  IInv' /\ live'.requests = center.settings.requests /\ (file' = file \/ Load(file') = live')
<1> DEFINE a == Accepted(lock, requireDevice, identity, team)
<1>1. IsSettings(center.settings) /\ dialog.kind = "none" /\ dialog = Closed
  <2>1. center # NoCenter
    BY DEF ShowSettings, NoCenter
  <2>2. dialog.kind = "none"
    BY DEF ShowSettings
  <2> QED
    BY <2>1, <2>2, KindsOpen DEF IInv, DialogInv
<1>2. IsSettings(a) /\ a.requests = center.settings.requests
  <2> DEFINE c == center.settings
  <2>1. a = [c EXCEPT !.lock = lock, !.team = team, !.own = identity.own,
                      !.trusted = identity.trusted, !.requireDevice = requireDevice]
    BY DEF Accepted
  <2>2. IsSettings(c)
    BY <1>1
  <2> HIDE DEF a, c
  <2>3. a.requests = c.requests /\ IsSettings(a)
    BY <2>1, <2>2 DEF IsSettings
  <2> QED
    BY <2>3 DEF c
<1> HIDE DEF a
<1>3. live' = Normalized(a) /\ center' = NoCenter /\ dialog' = dialog
  BY DEF ShowSettings, a
<1>4. Good(live') /\ live'.requests = a.requests
  BY <1>2, <1>3, NormalizedGood
<1>5. DialogInv'
  BY <1>1, <1>3 DEF DialogInv
<1>6. CASE raises
  <2>1. file' = file /\ adrift' # "no"
    BY <1>6 DEF ShowSettings, Save
  <2> QED
    BY <1>2, <1>3, <1>4, <1>5, <2>1 DEF IInv, StoredInv
<1>7. CASE ~raises
  <2>1. file' = live' /\ Load(file') = live' /\ policy' = live'
    BY <1>4, <1>7, LoadSaved DEF ShowSettings, Save, Good
  <2> QED
    BY <1>1, <1>2, <1>3, <1>4, <1>5, <2>1 DEF IInv, StoredInv, Good
<1> QED
  BY <1>6, <1>7

LEMMA RestartStep ==
  ASSUME IInv, NEW readable, Restart(readable)
  PROVE  IInv' /\ file' = file /\ (live' = Load(file) \/ adrift' = "unread")
<1>1. file' = file /\ center' = NoCenter /\ dialog' = Closed /\ policy' = live'
  BY DEF Restart, Started
<1>2. Good(Load(file)) /\ Good(Defaults)
  BY LoadGood DEF IInv, Load
<1>3. DialogInv'
  BY <1>1 DEF DialogInv
<1>4. CASE readable
  <2>1. live' = Load(file)
    BY <1>4 DEF Restart, Started
  <2> QED
    BY <1>1, <1>2, <1>3, <2>1, ClosedKind DEF IInv, StoredInv
<1>5. CASE ~readable
  <2>1. live' = Defaults /\ adrift' = "unread"
    BY <1>5 DEF Restart, Started
  <2> QED
    BY <1>1, <1>2, <1>3, <2>1 DEF IInv, StoredInv
<1> QED
  BY <1>4, <1>5

\* A request is taken out of a queue only to be decided, if it was pending.
LEMMA DecideKeeps ==
  ASSUME NEW Q, NEW r \in Q, NEW verdict, NEW q \in Q, q.status # "pending"
  PROVE  q \in Decide(Q, r, verdict)
BY DEF Decide

\* The steps of a dialog that edit its draft.
LEMMA EditsStep ==
  ASSUME IInv,
         \/ CreateRequest
         \/ \E verdict \in {"approved", "denied"} : DecideSelected(verdict)
         \/ \E p \in PrincipalForm : UpsertPrincipal(p)
         \/ DeactivateSelected
         \/ \E rule \in RuleForm : AddRule(rule)
         \/ RemoveSelected \/ RestoreDefaults
  PROVE  IInv' /\ UNCHANGED <<file, live, center, adrift>>
<1>0. \A kind, items : Edit(kind, items) => UNCHANGED <<file, live, center, adrift>>
  BY DEF Edit
<1>1. ASSUME CreateRequest PROVE IInv' /\ UNCHANGED <<file, live, center, adrift>>
  <2>1. dialog.kind = "requests" /\ dialog # Closed
    BY <1>1, ClosedKind DEF CreateRequest, Edit
  <2>2. \A r \in Decisions(live) : r \in dialog.draft \cup {NewRequest(made + 1)}
    BY <2>1 DEF IInv, DialogInv
  <2> QED
    BY <1>0, <1>1, <2>2, EditStep DEF CreateRequest, Kinds
<1>2. ASSUME NEW verdict \in {"approved", "denied"}, DecideSelected(verdict)
      PROVE  IInv' /\ UNCHANGED <<file, live, center, adrift>>
  <2>1. PICK r \in RequestAt(dialog.draft, dialog.row) :
          Edit("requests", Decide(dialog.draft, r, verdict))
    BY <1>2 DEF DecideSelected
  <2>2. dialog.kind = "requests" /\ dialog # Closed
    BY <1>2, ClosedKind DEF DecideSelected
  <2>3. r \in dialog.draft
    BY DEF RequestAt
  <2>4. \A q \in Decisions(live) : q \in dialog.draft /\ q.status # "pending"
    BY <2>2 DEF IInv, DialogInv, Decisions
  <2>5. \A q \in Decisions(live) : q \in Decide(dialog.draft, r, verdict)
    BY <2>3, <2>4, DecideKeeps
  <2> QED
    BY <1>0, <2>1, <2>5, EditStep DEF Kinds
<1>3. ASSUME NEW kind \in {"directory", "rules"}, NEW items, Edit(kind, items)
      PROVE  IInv' /\ UNCHANGED <<file, live, center, adrift>>
  BY <1>0, <1>3, EditStep DEF Kinds
<1>4. ASSUME NEW p \in PrincipalForm, UpsertPrincipal(p)
      PROVE  IInv' /\ UNCHANGED <<file, live, center, adrift>>
  BY <1>3, <1>4 DEF UpsertPrincipal
<1>5. ASSUME DeactivateSelected PROVE IInv' /\ UNCHANGED <<file, live, center, adrift>>
  BY <1>3, <1>5 DEF DeactivateSelected
<1>6. ASSUME NEW rule \in RuleForm, AddRule(rule)
      PROVE  IInv' /\ UNCHANGED <<file, live, center, adrift>>
  <2>1. \E items : Edit("rules", items)
    BY <1>6 DEF AddRule
  <2> QED
    BY <1>3, <2>1
<1>7. ASSUME RemoveSelected \/ RestoreDefaults
      PROVE  IInv' /\ UNCHANGED <<file, live, center, adrift>>
  <2>1. \E items : Edit("rules", items)
    BY <1>7 DEF RemoveSelected, RestoreDefaults
  <2> QED
    BY <1>3, <2>1
<1> QED
  BY <1>1, <1>2, <1>4, <1>5, <1>6, <1>7

\* The three save buttons.
LEMMA SavesStep ==
  ASSUME IInv, NEW raises \in BOOLEAN,
         SaveRequests(raises) \/ SaveDirectory(raises) \/ SaveRules(raises)
  PROVE  /\ IInv'
         /\ live' = live
         /\ Load(file') = Load(file) \/ Decisions(live) \subseteq Decisions(Load(file'))
<1>0. dialog # Closed
  BY ClosedKind DEF SaveRequests, SaveDirectory, SaveRules, SaveAs
<1> DEFINE d == dialog.settings
<1>1. IsSettings(d) /\ Decisions(live) \subseteq Decisions(d)
  BY <1>0 DEF IInv, DialogInv, Good
<1> HIDE DEF d
<1>2. CASE SaveRequests(raises)
  <2> DEFINE s == [d EXCEPT !.requests = dialog.draft]
  <2>1. IsSettings(s) /\ s.requests = dialog.draft
    BY <1>1 DEF IsSettings
  <2>2. \A r \in Decisions(live) : r \in dialog.draft
    BY <1>0, <1>2 DEF SaveRequests, SaveAs, IInv, DialogInv
  <2>3. SaveAs("requests", s, raises)
    BY <1>2 DEF SaveRequests, d
  <2> HIDE DEF s
  <2>4. Decisions(live) \subseteq Decisions(s)
    BY <2>1, <2>2 DEF Decisions
  <2> QED
    BY <2>1, <2>3, <2>4, SaveStep DEF Kinds
<1>3. CASE SaveDirectory(raises)
  <2> DEFINE devices == d.trusted \cup TrustedDevices(dialog.draft)
             items == dialog.draft
             s == [d EXCEPT !.directory = items, !.trusted = devices]
             listed == [d EXCEPT !.directory = items]
  <2> HIDE DEF devices, items
  <2>a. IsSettings(listed) /\ listed.requests = d.requests /\ s = [listed EXCEPT !.trusted = devices]
    BY <1>1 DEF IsSettings
  <2> HIDE DEF listed, s
  <2>1. IsSettings(s) /\ s.requests = d.requests
    BY <2>a DEF IsSettings
  <2>2. SaveAs("directory", s, raises)
    BY <1>3 DEF SaveDirectory, d, devices, items, s
  <2>3. Decisions(live) \subseteq Decisions(s)
    BY <1>1, <2>1 DEF Decisions
  <2> QED
    BY <2>1, <2>2, <2>3, SaveStep DEF Kinds
<1>4. CASE SaveRules(raises)
  <2> DEFINE s == [d EXCEPT !.rules = dialog.draft]
  <2>1. IsSettings(s) /\ s.requests = d.requests
    BY <1>1 DEF IsSettings
  <2>2. SaveAs("rules", s, raises)
    BY <1>4 DEF SaveRules, d
  <2> HIDE DEF s
  <2>3. Decisions(live) \subseteq Decisions(s)
    BY <1>1, <2>1 DEF Decisions
  <2> QED
    BY <2>1, <2>2, <2>3, SaveStep DEF Kinds
<1> QED
  BY <1>2, <1>3, <1>4

-----------------------------------------------------------------------------
(* Rows: the place that an order gives to each item of a set. *)

Orders(S, R) ==
  \A i, j, k \in S :
    /\ <<i, i>> \notin R
    /\ i # j => <<i, j>> \in R \/ <<j, i>> \in R
    /\ <<i, j>> \in R /\ <<j, k>> \in R => <<i, k>> \in R

RowIn(S, R, i) == 1 + Cardinality({j \in S : <<j, i>> \in R})

\* Every item has a row of its own, and every row its item.
LEMMA EveryRowIsTaken ==
  ASSUME NEW S, IsFiniteSet(S), NEW R, Orders(S, R)
  PROVE  /\ Cardinality(S) \in Nat
         /\ \A i \in S : RowIn(S, R, i) \in 1..Cardinality(S)
         /\ \A i, j \in S : <<i, j>> \in R => RowIn(S, R, i) < RowIn(S, R, j)
         /\ \A i, j \in S : RowIn(S, R, i) = RowIn(S, R, j) => i = j
         /\ \A k \in 1..Cardinality(S) : \E i \in S : RowIn(S, R, i) = k
<1> DEFINE n == Cardinality(S)
           Before(i) == {j \in S : <<j, i>> \in R}
<1>1. n \in Nat
  BY FS_CardinalityType
<1>2. \A i \in S : RowIn(S, R, i) = 1 + Cardinality(Before(i))
  BY DEF RowIn
<1>3. ASSUME NEW i \in S
      PROVE  /\ IsFiniteSet(Before(i)) /\ Cardinality(Before(i)) \in Nat
             /\ Cardinality(Before(i)) < n
  <2>1. Before(i) \in SUBSET S /\ Before(i) # S
    BY <1>3 DEF Orders
  <2> HIDE DEF Before
  <2>2. /\ IsFiniteSet(Before(i)) /\ Cardinality(Before(i)) <= n
        /\ n # Cardinality(Before(i))
    BY <2>1, FS_Subset
  <2>3. Cardinality(Before(i)) \in Nat
    BY <2>2, FS_CardinalityType
  <2> HIDE DEF n
  <2> QED
    BY <1>1, <2>2, <2>3
<1>4. ASSUME NEW i \in S, NEW j \in S, <<i, j>> \in R
      PROVE  Cardinality(Before(i)) < Cardinality(Before(j))
  <2>1. Before(i) \in SUBSET Before(j)
    BY <1>4 DEF Orders
  <2>2. i \in Before(j) /\ i \notin Before(i)
    BY <1>4 DEF Orders
  <2>3. Before(i) # Before(j)
    BY <2>2
  <2> HIDE DEF Before
  <2> QED
    BY <1>3, <2>1, <2>3, FS_Subset
<1>5. ASSUME NEW i \in S, NEW j \in S, Cardinality(Before(i)) = Cardinality(Before(j)) PROVE i = j
  <2> HIDE DEF Before
  <2>1. i # j => <<i, j>> \in R \/ <<j, i>> \in R
    BY DEF Orders
  <2> QED
    BY <1>3, <1>4, <1>5, <2>1
<1>6. ASSUME NEW k \in 1..n PROVE \E i \in S : 1 + Cardinality(Before(i)) = k
  <2> HIDE DEF Before, n
  <2> DEFINE f == [i \in S |-> 1 + Cardinality(Before(i))]
  <2>1. f \in [S -> 1..n]
    BY <1>1, <1>3
  <2>2. ASSUME NEW i \in S, NEW j \in S, f[i] = f[j] PROVE i = j
    BY <1>3, <1>5, <2>2
  <2>3. f \in Injection(S, 1..n)
    BY <2>1, <2>2 DEF Injection, IsInjective
  <2>4. IsFiniteSet(1..n) /\ Cardinality(1..n) = n
    BY <1>1, FS_Interval
  <2>5. f \in Surjection(S, 1..n)
    <3> HIDE DEF f
    <3> QED
      BY <1>1, <2>3, <2>4, FS_Injection DEF n
  <2>6. \E i \in S : f[i] = k
    BY <2>5 DEF Surjection
  <2> QED
    BY <2>6
<1> HIDE DEF Before, n
<1>7. \A i \in S : RowIn(S, R, i) \in 1..n
  BY <1>1, <1>2, <1>3
<1>8. /\ \A i, j \in S : <<i, j>> \in R => RowIn(S, R, i) < RowIn(S, R, j)
      /\ \A i, j \in S : RowIn(S, R, i) = RowIn(S, R, j) => i = j
  BY <1>2, <1>3, <1>4, <1>5
<1>9. \A k \in 1..n : \E i \in S : RowIn(S, R, i) = k
  BY <1>2, <1>6
<1> QED
  BY <1>1, <1>7, <1>8, <1>9 DEF n

-----------------------------------------------------------------------------
(* The rows of a queue of requests. *)

RequestOrder(Q) == {p \in Q \X Q : RequestBefore(p[1], p[2])}

LEMMA QueueFacts ==
  ASSUME NEW Q \in Queues
  PROVE  /\ IsFiniteSet(Q) /\ Orders(Q, RequestOrder(Q))
         /\ \A r \in Q : RequestRow(Q, r) = RowIn(Q, RequestOrder(Q), r)
<1>1. \A r \in Q : r.id \in 1..MaxRequests /\ r.status \in Statuses
  BY DEF Queues, Request
<1>2. \A q, r \in Q : q.id = r.id => q = r
  BY DEF Queues
<1>3. IsFiniteSet(Q)
  <2> DEFINE f == [r \in Q |-> r.id]
  <2>1. f \in Injection(Q, 1..MaxRequests)
    BY <1>1, <1>2 DEF Injection, IsInjective
  <2>2. IsFiniteSet(1..MaxRequests)
    BY FS_Interval, SettingsAssumption
  <2> HIDE DEF f
  <2> QED
    BY <2>1, <2>2, FS_Injection
<1>4. Orders(Q, RequestOrder(Q))
  <2>1. \A q, r \in Q : <<q, r>> \in RequestOrder(Q) <=> RequestBefore(q, r)
    BY DEF RequestOrder
  <2>2. \A r \in Q : r.id \in Int
    BY <1>1, SettingsAssumption
  <2>3. \A i, j, k \in Q :
          /\ ~RequestBefore(i, i)
          /\ i # j => RequestBefore(i, j) \/ RequestBefore(j, i)
          /\ RequestBefore(i, j) /\ RequestBefore(j, k) => RequestBefore(i, k)
    BY <1>2, <2>2 DEF RequestBefore
  <2> QED
    BY <2>1, <2>3 DEF Orders
<1>5. ASSUME NEW r \in Q PROVE RequestRow(Q, r) = RowIn(Q, RequestOrder(Q), r)
  <2>1. {q \in Q : RequestBefore(q, r)} = {q \in Q : <<q, r>> \in RequestOrder(Q)}
    BY DEF RequestOrder
  <2> QED
    BY <2>1 DEF RequestRow, RowIn
<1> QED
  BY <1>3, <1>4, <1>5

\* A row number of the table is one request of the queue, whatever was decided in
\* between (AccessRequestQueue.list, AccessRequestsDialog.decide_selected).
THEOREM EveryRowIsARequest ==
  ASSUME NEW Q \in Queues, NEW row \in 1..Cardinality(Q)
  PROVE  \E r \in Q : RequestAt(Q, row) = {r}
<1>1. PICK r \in Q : RequestRow(Q, r) = row
  BY QueueFacts, EveryRowIsTaken
<1>2. \A q \in Q : RequestRow(Q, q) = row => q = r
  BY <1>1, QueueFacts, EveryRowIsTaken
<1> QED
  BY <1>1, <1>2 DEF RequestAt

-----------------------------------------------------------------------------
(* The rules of a pack. *)

OfOtherName(pack, rule) == {i \in DOMAIN pack : pack[i] # rule}
Lesser(S) == {p \in S \X S : p[1] < p[2]}

LEMMA PackIs ==
  ASSUME NEW pack \in Rules
  PROVE  /\ pack \in Seq(RuleIds) /\ Len(pack) \in 0..MaxRules /\ IsInjective(pack)
         /\ DOMAIN pack = 1..Len(pack)
<1>1. PICK n \in 0..MaxRules : pack \in [1..n -> RuleIds]
  BY DEF Rules
<1>2. n \in Nat
  BY <1>1, SettingsAssumption
<1>3. pack \in Seq(RuleIds) /\ Len(pack) = n
  BY <1>1, <1>2
<1> QED
  BY <1>1, <1>3 DEF Rules

LEMMA IsAPack ==
  ASSUME NEW pack \in Seq(RuleIds), Len(pack) <= MaxRules,
         \A i, j \in 1..Len(pack) : pack[i] = pack[j] => i = j
  PROVE  pack \in Rules
<1>1. Len(pack) \in 0..MaxRules /\ pack \in [1..Len(pack) -> RuleIds]
  BY SettingsAssumption
<1>2. IsInjective(pack)
  BY <1>1 DEF IsInjective
<1> QED
  BY <1>1, <1>2 DEF Rules

LEMMA OthersRows ==
  ASSUME NEW pack \in Rules, NEW rule
  PROVE  LET kept == OfOtherName(pack, rule)
         IN  /\ Cardinality(kept) \in 0..Len(pack)
             /\ Others(pack, rule) \in Seq(RuleIds) /\ Len(Others(pack, rule)) = Cardinality(kept)
             /\ \A k \in 1..Cardinality(kept) : \E i \in kept :
                  RowIn(kept, Lesser(kept), i) = k /\ Others(pack, rule)[k] = pack[i]
             /\ \A i \in kept :
                  /\ RowIn(kept, Lesser(kept), i) \in 1..Cardinality(kept)
                  /\ Others(pack, rule)[RowIn(kept, Lesser(kept), i)] = pack[i]
             /\ \A i, j \in kept :
                  i < j => RowIn(kept, Lesser(kept), i) < RowIn(kept, Lesser(kept), j)
<1> DEFINE K == OfOtherName(pack, rule)
           n == Cardinality(K)
           R(i) == RowIn(K, Lesser(K), i)
           at(k) == CHOOSE i \in K : R(i) = k
<1>1. /\ pack \in Seq(RuleIds) /\ Len(pack) \in Nat /\ DOMAIN pack = 1..Len(pack)
      /\ K \in SUBSET (1..Len(pack))
  BY PackIs, SettingsAssumption DEF OfOtherName
<1>2. IsFiniteSet(K) /\ n \in 0..Len(pack)
  <2> HIDE DEF K
  <2>0. 1 \in Int /\ Len(pack) \in Int /\ Len(pack) >= 0
    BY <1>1
  <2>1. /\ IsFiniteSet(1..Len(pack))
        /\ Cardinality(1..Len(pack)) = IF 1 > Len(pack) THEN 0 ELSE Len(pack) - 1 + 1
    BY <2>0, FS_Interval
  <2>2. IsFiniteSet(K) /\ Cardinality(K) <= Cardinality(1..Len(pack))
    BY <1>1, <2>1, FS_Subset
  <2>3. Cardinality(K) \in Nat
    BY <2>2, FS_CardinalityType
  <2> QED
    BY <2>0, <2>1, <2>2, <2>3
<1>3. Orders(K, Lesser(K))
  <2>1. \A i \in K : i \in Int
    BY <1>1
  <2> HIDE DEF K
  <2> QED
    BY <2>1 DEF Orders, Lesser
<1>4. Others(pack, rule) = [k \in 1..n |-> pack[at(k)]]
  <2>1. \A i \in K : R(i) = 1 + Cardinality({j \in K : j < i})
    <3> TAKE i \in K
    <3>1. {j \in K : j < i} = {j \in K : <<j, i>> \in Lesser(K)}
      BY DEF Lesser
    <3> QED
      BY <3>1 DEF RowIn
  <2> DEFINE row(i) == 1 + Cardinality({j \in K : j < i})
  <2>2. Others(pack, rule) = [k \in 1..n |-> pack[CHOOSE i \in K : row(i) = k]]
    BY DEF Others, OfOtherName
  <2> HIDE DEF K, R, row, n
  <2>3. \A i \in K : R(i) = row(i)
    BY <2>1 DEF row
  <2>4. \A k \in 1..n : (CHOOSE i \in K : row(i) = k) = (CHOOSE i \in K : R(i) = k)
    BY <2>3
  <2> QED
    BY <2>2, <2>4
<1>5. /\ \A i \in K : R(i) \in 1..n
      /\ \A i, j \in K : i < j => R(i) < R(j)
      /\ \A i, j \in K : R(i) = R(j) => i = j
      /\ \A k \in 1..n : \E i \in K : R(i) = k
  <2>1. \A i, j \in K : i < j => <<i, j>> \in Lesser(K)
    BY DEF Lesser
  <2> HIDE DEF K
  <2>2. /\ \A i \in K : RowIn(K, Lesser(K), i) \in 1..Cardinality(K)
        /\ \A i, j \in K :
             <<i, j>> \in Lesser(K) => RowIn(K, Lesser(K), i) < RowIn(K, Lesser(K), j)
        /\ \A i, j \in K : RowIn(K, Lesser(K), i) = RowIn(K, Lesser(K), j) => i = j
        /\ \A k \in 1..Cardinality(K) : \E i \in K : RowIn(K, Lesser(K), i) = k
    BY <1>2, <1>3, EveryRowIsTaken
  <2> QED
    BY <2>1, <2>2
<1> HIDE DEF K, R, n
<1>6. \A k \in 1..n : at(k) \in K /\ R(at(k)) = k
  BY <1>5
<1>7. \A i \in K : at(R(i)) = i
  BY <1>5
<1> HIDE DEF at
<1>8. \A i \in K : pack[i] \in RuleIds
  BY <1>1
<1>9. Others(pack, rule) \in Seq(RuleIds) /\ Len(Others(pack, rule)) = n
  <2>1. n \in Nat
    BY <1>1, <1>2
  <2>2. \A k \in 1..n : pack[at(k)] \in RuleIds
    BY <1>6, <1>8
  <2> QED
    BY <1>4, <2>1, <2>2
<1>10. \A k \in 1..n : \E i \in K : R(i) = k /\ Others(pack, rule)[k] = pack[i]
  BY <1>4, <1>6
<1>11. \A i \in K : R(i) \in 1..n /\ Others(pack, rule)[R(i)] = pack[i]
  BY <1>4, <1>5, <1>7
<1> QED
  BY <1>2, <1>5, <1>9, <1>10, <1>11 DEF K, R, n

\* Adding a rule to a pack keeps every other rule, in their order, and has the rule
\* once, at the end (PolicyPackDialog.add_rule).
THEOREM AddRuleKeepsTheOthers ==
  ASSUME NEW pack \in Rules, NEW rule \in RuleIds, Len(Others(pack, rule)) < MaxRules
  PROVE  LET new == Append(Others(pack, rule), rule)
         IN  /\ new \in Rules /\ new[Len(new)] = rule
             /\ Len(new) <= Len(pack) + 1
             /\ \A i \in DOMAIN pack : pack[i] # rule => \E k \in DOMAIN new : new[k] = pack[i]
             /\ \A k, l \in DOMAIN new : k < l /\ l < Len(new) =>
                  \E i, j \in DOMAIN pack : i < j /\ new[k] = pack[i] /\ new[l] = pack[j]
<1> DEFINE K == OfOtherName(pack, rule)
           R(i) == RowIn(K, Lesser(K), i)
           others == Others(pack, rule)
           m == Len(others)
           new == Append(others, rule)
<1>1. /\ pack \in Seq(RuleIds) /\ Len(pack) \in Nat /\ DOMAIN pack = 1..Len(pack)
      /\ K \in SUBSET (1..Len(pack)) /\ \A i \in K : pack[i] # rule
      /\ \A i \in DOMAIN pack : pack[i] # rule => i \in K
      /\ \A i, j \in K : pack[i] = pack[j] => i = j
  BY PackIs, SettingsAssumption DEF OfOtherName, IsInjective
<1>2. /\ others \in Seq(RuleIds) /\ m \in Nat /\ m <= Len(pack)
      /\ \A k \in 1..m : \E i \in K : R(i) = k /\ others[k] = pack[i]
      /\ \A i \in K : R(i) \in 1..m /\ others[R(i)] = pack[i]
      /\ \A i, j \in K : i < j => R(i) < R(j)
  BY OthersRows, <1>1
<1> HIDE DEF K, R, others
<1>3. /\ new \in Seq(RuleIds) /\ Len(new) = m + 1 /\ DOMAIN new = 1..m + 1
      /\ new[m + 1] = rule /\ \A k \in 1..m : new[k] = others[k]
  BY <1>2, AppendProperties
<1> HIDE DEF new
<1>4. \A k \in 1..m : new[k] # rule
  BY <1>1, <1>2, <1>3
<1>5. \A k, l \in 1..m : others[k] = others[l] => k = l
  BY <1>1, <1>2
<1> HIDE DEF m
<1>6. \A k, l \in 1..m + 1 : new[k] = new[l] => k = l
  <2> SUFFICES ASSUME NEW k \in 1..m + 1, NEW l \in 1..m + 1, new[k] = new[l] PROVE k = l
    OBVIOUS
  <2>1. (k \in 1..m \/ k = m + 1) /\ (l \in 1..m \/ l = m + 1)
    BY <1>2
  <2> QED
    BY <1>3, <1>4, <1>5, <2>1
<1>7. new \in Rules
  <2>1. Len(new) <= MaxRules
    BY <1>2, <1>3, SettingsAssumption DEF m, others
  <2> QED
    BY <1>3, <1>6, <2>1, IsAPack
<1>8. ASSUME NEW i \in DOMAIN pack, pack[i] # rule PROVE \E k \in DOMAIN new : new[k] = pack[i]
  <2>1. i \in K /\ R(i) \in 1..m /\ R(i) \in 1..m + 1 /\ others[R(i)] = pack[i]
    BY <1>1, <1>2, <1>8
  <2> QED
    BY <1>3, <2>1
<1>9. ASSUME NEW k \in DOMAIN new, NEW l \in DOMAIN new, k < l, l < Len(new)
      PROVE  \E i, j \in DOMAIN pack : i < j /\ new[k] = pack[i] /\ new[l] = pack[j]
  <2>1. k \in 1..m /\ l \in 1..m
    BY <1>2, <1>3, <1>9
  <2>2. PICK i \in K : R(i) = k /\ others[k] = pack[i]
    BY <1>2, <2>1
  <2>3. PICK j \in K : R(j) = l /\ others[l] = pack[j]
    BY <1>2, <2>1
  <2>4. i \in 1..Len(pack) /\ j \in 1..Len(pack)
    BY <1>1
  <2>5. i # j
    BY <1>9, <2>1, <2>2, <2>3
  <2>6. ~(j < i)
    BY <1>2, <1>9, <2>1, <2>2, <2>3
  <2>7. i < j
    BY <1>1, <2>4, <2>5, <2>6
  <2> QED
    BY <1>1, <1>3, <2>1, <2>2, <2>3, <2>4, <2>7
<1>10. new[Len(new)] = rule /\ Len(new) <= Len(pack) + 1
  BY <1>1, <1>2, <1>3
<1> QED
  BY <1>7, <1>8, <1>9, <1>10 DEF new, others

LEMMA RemoveAtPack ==
  ASSUME NEW pack \in Rules, NEW row \in DOMAIN pack
  PROVE  RemoveAt(pack, row) \in Rules
<1> DEFINE m == Len(pack)
           s == SubSeq(pack, 1, row - 1)
           t == SubSeq(pack, row + 1, m)
           new == s \o t
<1>1. /\ pack \in Seq(RuleIds) /\ m \in Nat /\ m <= MaxRules /\ DOMAIN pack = 1..m
      /\ \A i, j \in 1..m : pack[i] = pack[j] => i = j
      /\ row \in 1..m /\ \A i \in 1..m : pack[i] \in RuleIds
  BY PackIs, SettingsAssumption DEF IsInjective
<1> HIDE DEF m
<1>2. s \in Seq(RuleIds) /\ Len(s) = row - 1 /\ \A i \in 1..row - 1 : s[i] = pack[i]
  <2>1. 1 \in Int /\ row - 1 \in Int /\ \A i \in 1..row - 1 : pack[i] \in RuleIds
    BY <1>1
  <2>2. /\ s \in Seq(RuleIds) /\ Len(s) = IF 1 <= row - 1 THEN row - 1 - 1 + 1 ELSE 0
        /\ \A i \in 1..(row - 1) - 1 + 1 : s[i] = pack[1 + i - 1]
    BY <2>1, SubSeqProperties
  <2> HIDE DEF s
  <2> QED
    BY <1>1, <2>2
<1>3. t \in Seq(RuleIds) /\ Len(t) = m - row /\ \A i \in 1..m - row : t[i] = pack[row + i]
  <2>1. row + 1 \in Int /\ m \in Int /\ \A i \in row + 1..m : pack[i] \in RuleIds
    BY <1>1
  <2>2. /\ t \in Seq(RuleIds) /\ Len(t) = IF row + 1 <= m THEN m - (row + 1) + 1 ELSE 0
        /\ \A i \in 1..m - (row + 1) + 1 : t[i] = pack[row + 1 + i - 1]
    BY <2>1, SubSeqProperties
  <2> HIDE DEF t
  <2>3. Len(t) = m - row
    BY <1>1, <2>2
  <2>4. \A i \in 1..m - row : i \in 1..m - (row + 1) + 1 /\ row + 1 + i - 1 = row + i
    BY <1>1
  <2> QED
    BY <2>2, <2>3, <2>4
<1> HIDE DEF s, t
<1>4. /\ new \in Seq(RuleIds) /\ Len(new) = m - 1
      /\ \A i \in 1..m - 1 : new[i] = IF i <= row - 1 THEN s[i] ELSE t[i - (row - 1)]
  <2>1. /\ new \in Seq(RuleIds) /\ Len(new) = Len(s) + Len(t)
        /\ \A i \in 1..Len(s) + Len(t) : new[i] = IF i <= Len(s) THEN s[i] ELSE t[i - Len(s)]
    BY <1>2, <1>3, ConcatProperties
  <2> HIDE DEF new
  <2>2. Len(s) = row - 1 /\ Len(s) + Len(t) = m - 1
    BY <1>1, <1>2, <1>3
  <2> QED
    BY <2>1, <2>2
<1> HIDE DEF new
<1>5. \A i \in 1..m - 1 : new[i] = pack[IF i < row THEN i ELSE i + 1]
  <2> TAKE i \in 1..m - 1
  <2>1. CASE i < row
    <3>1. i \in 1..row - 1 /\ i <= row - 1
      BY <1>1, <2>1
    <3> QED
      BY <1>2, <1>4, <2>1, <3>1
  <2>2. CASE ~(i < row)
    <3>1. i - (row - 1) \in 1..m - row /\ ~(i <= row - 1) /\ row + (i - (row - 1)) = i + 1
      BY <1>1, <2>2
    <3> QED
      BY <1>3, <1>4, <2>2, <3>1
  <2> QED
    BY <2>1, <2>2
<1>6. \A i, j \in 1..m - 1 : new[i] = new[j] => i = j
  <2> SUFFICES ASSUME NEW i \in 1..m - 1, NEW j \in 1..m - 1, new[i] = new[j] PROVE i = j
    OBVIOUS
  <2> DEFINE f == IF i < row THEN i ELSE i + 1
             g == IF j < row THEN j ELSE j + 1
  <2>1. f \in 1..m /\ g \in 1..m
    BY <1>1
  <2>2. pack[f] = pack[g]
    BY <1>5
  <2> HIDE DEF f, g
  <2>3. f = g
    BY <1>1, <2>1, <2>2
  <2> QED
    BY <1>1, <2>3 DEF f, g
<1>7. new \in Rules
  <2>1. Len(new) <= MaxRules
    BY <1>1, <1>4, SettingsAssumption
  <2> QED
    BY <1>4, <1>6, <2>1, IsAPack
<1> QED
  BY <1>7 DEF RemoveAt, new, s, t, m

-----------------------------------------------------------------------------
(* Types. *)

\* Settings when `m` requests have been made, normalized or not, and those in use.
Fits(s, m) == s \in VaultSettings /\ \A r \in s.requests : r.id <= m
UsableWith(s, m) == Fits(s, m) /\ (s.requireDevice => s.trusted # {})

DialogTypes(d, m) ==
  /\ IsDialog(d) /\ d.kind \in Kinds /\ UsableWith(d.settings, m)
  /\ d.draft \in Items(d.kind) /\ d.table \in Items(d.kind)
  /\ d.kind = "requests" => \A r \in d.draft \cup d.table : r.id <= m
  /\ d.row \in Nat

Types ==
  /\ file = NoFile \/ UsableWith(file, made)
  /\ UsableWith(live, made) /\ UsableWith(policy, made)
  /\ center = NoCenter \/ (center.open /\ UsableWith(center.settings, made))
  /\ dialog = Closed \/ DialogTypes(dialog, made)
  /\ made \in 0..MaxRequests /\ opened \in 0..MaxOpened
  /\ adrift \in {"no", "unsaved", "unread"}

LEMMA SettingsFields ==
  ASSUME NEW s \in VaultSettings
  PROVE  /\ IsSettings(s)
         /\ s.lock \in Timeouts /\ s.team \in Teams /\ s.own \in Devices
         /\ s.trusted \in SUBSET Devices /\ s.requireDevice \in BOOLEAN /\ s.rules \in Rules
         /\ s.directory \in Directories /\ s.requests \in Queues
BY DEF VaultSettings, IsSettings

LEMMA NormalizedFits ==
  ASSUME NEW m, NEW s, Fits(s, m)
  PROVE  UsableWith(Normalized(s), m) /\ Normalized(s).requests = s.requests
<1>1. CASE s.requireDevice /\ s.trusted = {}
  <2> DEFINE n == [s EXCEPT !.trusted = {s.own}]
  <2>1. Normalized(s) = n
    BY <1>1 DEF Normalized
  <2>2. s \in VaultSettings /\ {s.own} \in SUBSET Devices
    BY SettingsFields DEF Fits
  <2>3. n \in VaultSettings
    BY <2>2 DEF VaultSettings
  <2>4. n.trusted = {s.own} /\ n.requests = s.requests
    BY <2>2 DEF VaultSettings
  <2> HIDE DEF n
  <2> QED
    BY <2>1, <2>3, <2>4 DEF Fits, UsableWith
<1>2. CASE ~(s.requireDevice /\ s.trusted = {})
  BY <1>2 DEF Normalized, UsableWith
<1> QED
  BY <1>1, <1>2

LEMMA DefaultsFit == ASSUME NEW m \in Nat PROVE UsableWith(Defaults, m)
<1>1. StarterRules \in Rules
  <2>1. \A i, j \in 1..Len(StarterRules) : StarterRules[i] = StarterRules[j] => i = j
    BY SettingsAssumption DEF IsInjective
  <2> QED
    BY <2>1, SettingsAssumption, IsAPack
<1>2. {} \in Directories /\ {} \in Queues /\ {OwnDevice} \in SUBSET Devices
  BY SettingsAssumption DEF Directories, Queues
<1>3. Defaults \in VaultSettings
  BY <1>1, <1>2, SettingsAssumption DEF Defaults, VaultSettings
<1> QED
  BY <1>3 DEF Defaults, UsableWith, Fits

\* What fits goes on fitting when another request is made.
LEMMA FitsMore ==
  ASSUME NEW m \in Nat, NEW n \in Nat, m <= n
  PROVE  /\ \A s : UsableWith(s, m) => UsableWith(s, n)
         /\ \A Q \in Queues : (\A r \in Q : r.id <= m) => \A r \in Q : r.id <= n
<1>1. \A Q \in Queues : \A r \in Q : r.id \in Int
  BY SettingsAssumption DEF Queues, Request
<1>2. \A Q \in Queues : (\A r \in Q : r.id <= m) => \A r \in Q : r.id <= n
  BY <1>1
<1>3. ASSUME NEW s, UsableWith(s, m) PROVE UsableWith(s, n)
  <2>1. s \in VaultSettings /\ s.requests \in Queues
    BY <1>3, SettingsFields DEF UsableWith, Fits
  <2> QED
    BY <1>2, <1>3, <2>1 DEF UsableWith, Fits
<1> QED
  BY <1>2, <1>3

LEMMA TypesAre == Types => TypeOK
BY DEF Types, DialogTypes, UsableWith, Fits, TypeOK, Usable

LEMMA TypesInit == Init => Types
<1> SUFFICES ASSUME Init PROVE Types
  OBVIOUS
<1>1. 0 \in Nat /\ 0 \in 0..MaxRequests /\ 0 \in 0..MaxOpened
  BY SettingsAssumption
<1> QED
  BY <1>1, DefaultsFit DEF Init, Types

\* What keeps the types when no request is made.
LEMMA SameMade ==
  ASSUME Types, made' = made, opened' \in 0..MaxOpened,
         file' = file \/ UsableWith(file', made),
         live' = live \/ UsableWith(live', made),
         policy' = policy \/ policy' = live' \/ UsableWith(policy', made),
         center' = center \/ center' = NoCenter
           \/ (center'.open /\ UsableWith(center'.settings, made)),
         dialog' = dialog \/ dialog' = Closed \/ DialogTypes(dialog', made),
         adrift' = adrift \/ adrift' \in {"no", "unsaved", "unread"}
  PROVE  Types'
BY DEF Types

\* The dialog that is open, and what is saved.
LEMMA OpenDialog ==
  ASSUME Types, NEW kind \in Kinds, dialog.kind = kind
  PROVE  DialogTypes(dialog, made)
BY KindsOpen, ClosedKind DEF Types

LEMMA SaveAdrift ==
  ASSUME NEW s, NEW raises, Save(s, raises)
  PROVE  /\ file' = file \/ file' = Normalized(s)
         /\ adrift' \in {"no", "unsaved", "unread"}
BY DEF Save

LEMMA ShowTypes ==
  ASSUME Types, PolicyPackDialog \/ DirectoryDialog \/ AccessRequestsDialog PROVE Types'
<1> DEFINE s == Normalized(live)
<1>1. UsableWith(s, made)
  BY NormalizedFits DEF Types, UsableWith
<1>2. /\ s.rules \in Items("rules") /\ s.directory \in Items("directory")
      /\ s.requests \in Items("requests") /\ \A r \in s.requests : r.id <= made
  BY <1>1, SettingsFields DEF UsableWith, Fits, Items
<1> HIDE DEF s
<1>3. PICK kind, items :
        /\ kind \in Kinds /\ items \in Items(kind)
        /\ Show(Dialog(kind, items))
        /\ kind = "requests" => \A r \in items : r.id <= made
  <2>1. CASE PolicyPackDialog
    BY <1>2, <2>1 DEF PolicyPackDialog, s, Kinds
  <2>2. CASE DirectoryDialog
    BY <1>2, <2>2 DEF DirectoryDialog, s, Kinds
  <2>3. CASE AccessRequestsDialog
    BY <1>2, <2>3 DEF AccessRequestsDialog, s, Kinds
  <2> QED
    BY <2>1, <2>2, <2>3
<1> DEFINE d == Dialog(kind, items)
<1>4. d = [kind |-> kind, settings |-> s, draft |-> items, table |-> items, row |-> 0]
  BY DEF Dialog, s
<1>5. /\ d.kind = kind /\ d.settings = s /\ d.draft = items /\ d.table = items /\ d.row = 0
      /\ IsDialog(d)
  BY <1>4 DEF IsDialog
<1> HIDE DEF d
<1>6. DialogTypes(d, made)
  BY <1>1, <1>3, <1>5 DEF DialogTypes
<1>7. /\ dialog' = d /\ UNCHANGED <<file, live, policy, center, made, adrift>>
      /\ opened < MaxOpened /\ opened' = opened + 1
  BY <1>3 DEF Show, d
<1>8. opened' \in 0..MaxOpened
  BY <1>7, SettingsAssumption DEF Types
<1> QED
  BY <1>6, <1>7, <1>8, SameMade

LEMMA CloseTypes == ASSUME Types, NEW kind \in Kinds, Close(kind) PROVE Types'
<1>1. DialogTypes(dialog, made)
  BY OpenDialog DEF Close
<1>2. UsableWith(Normalized(dialog.settings), made)
  BY <1>1, NormalizedFits DEF DialogTypes, UsableWith
<1>3. /\ dialog' = Closed /\ live' = Normalized(dialog.settings) /\ policy' = live'
      /\ UNCHANGED <<file, center, made, opened, adrift>>
  BY DEF Close
<1>4. opened' \in 0..MaxOpened
  BY <1>3 DEF Types
<1> QED
  BY <1>2, <1>3, <1>4, SameMade

LEMMA PickTypes == ASSUME Types, NEW row \in Nat, Pick(row) PROVE Types'
<1>1. dialog # Closed /\ DialogTypes(dialog, made)
  BY ClosedKind DEF Pick, Types
<1>2. dialog' = [dialog EXCEPT !.row = row] /\ UNCHANGED <<file, live, policy, center, made, opened, adrift>>
  BY DEF Pick
<1>3. /\ dialog'.kind = dialog.kind /\ dialog'.settings = dialog.settings
      /\ dialog'.draft = dialog.draft /\ dialog'.table = dialog.table /\ dialog'.row = row
      /\ IsDialog(dialog')
  BY <1>1, <1>2 DEF DialogTypes, IsDialog
<1>4. DialogTypes(dialog', made) /\ opened' \in 0..MaxOpened
  BY <1>1, <1>2, <1>3 DEF DialogTypes, Types
<1> QED
  BY <1>2, <1>4, SameMade

LEMMA EditTypes ==
  ASSUME Types, NEW kind \in Kinds, NEW items \in Items(kind), Edit(kind, items),
         made' \in 0..MaxRequests, made <= made',
         kind = "requests" => \A r \in items : r.id <= made'
  PROVE  Types'
<1>1. DialogTypes(dialog, made)
  BY OpenDialog DEF Edit
<1>2. /\ dialog' = [dialog EXCEPT !.draft = items, !.table = items]
      /\ UNCHANGED <<file, live, policy, center, opened, adrift>> /\ dialog.kind = kind
  BY DEF Edit
<1>3. /\ dialog'.kind = kind /\ dialog'.settings = dialog.settings
      /\ dialog'.draft = items /\ dialog'.table = items /\ dialog'.row = dialog.row
      /\ IsDialog(dialog')
  BY <1>1, <1>2 DEF DialogTypes, IsDialog
<1>4. \A s : UsableWith(s, made) => UsableWith(s, made')
  <2>1. made \in Nat /\ made' \in Nat
    BY SettingsAssumption DEF Types
  <2> QED
    BY <2>1, FitsMore
<1>5. DialogTypes(dialog', made')
  BY <1>1, <1>3, <1>4 DEF DialogTypes
<1> QED
  BY <1>2, <1>4, <1>5 DEF Types

LEMMA SaveAsTypes ==
  ASSUME Types, NEW kind \in Kinds, NEW s, Fits(s, made), NEW raises, SaveAs(kind, s, raises)
  PROVE  Types'
<1> DEFINE n == Normalized(s)
<1>1. DialogTypes(dialog, made)
  BY OpenDialog DEF SaveAs
<1>2. UsableWith(n, made) /\ UsableWith(Normalized(n), made)
  BY NormalizedFits DEF UsableWith
<1> HIDE DEF n
<1>3. /\ dialog' = [dialog EXCEPT !.settings = n] /\ Save(n, raises)
      /\ UNCHANGED <<live, policy, center, made, opened>>
  BY DEF SaveAs, n
<1>4. /\ dialog'.kind = dialog.kind /\ dialog'.settings = n
      /\ dialog'.draft = dialog.draft /\ dialog'.table = dialog.table /\ dialog'.row = dialog.row
      /\ IsDialog(dialog')
  BY <1>1, <1>3 DEF DialogTypes, IsDialog
<1>5. DialogTypes(dialog', made) /\ opened' \in 0..MaxOpened
  BY <1>1, <1>2, <1>3, <1>4 DEF DialogTypes, Types
<1>6. (file' = file \/ UsableWith(file', made)) /\ adrift' \in {"no", "unsaved", "unread"}
  BY <1>2, <1>3, SaveAdrift
<1> QED
  BY <1>3, <1>5, <1>6, SameMade

\* The directory and the queue keep one item of a key; a pack keeps one rule of a name.
LEMMA UpsertKeeps ==
  ASSUME NEW D \in Directories, NEW p \in Principal PROVE Upsert(D, p) \in Directories
BY DEF Directories, Upsert

LEMMA DecideTypes ==
  ASSUME NEW Q \in Queues, NEW r \in Q, NEW verdict \in {"approved", "denied"}, NEW m,
         \A q \in Q : q.id <= m
  PROVE  Decide(Q, r, verdict) \in Queues /\ \A q \in Decide(Q, r, verdict) : q.id <= m
<1> DEFINE v == [r EXCEPT !.status = verdict]
<1>1. r \in Request /\ Q \in SUBSET Request /\ \A p, q \in Q : p.id = q.id => p = q
  BY DEF Queues
<1>2. v \in Request /\ v.id = r.id
  BY <1>1 DEF Request, Statuses
<1>3. Decide(Q, r, verdict) \in {Q, (Q \ {r}) \cup {v}}
  BY DEF Decide
<1> HIDE DEF v
<1>4. /\ (Q \ {r}) \cup {v} \in Queues
      /\ \A q \in (Q \ {r}) \cup {v} : q.id <= m
  BY <1>1, <1>2 DEF Queues
<1> QED
  BY <1>3, <1>4

LEMMA CreateTypes ==
  ASSUME NEW Q \in Queues, NEW m \in Nat, m < MaxRequests, \A q \in Q : q.id <= m
  PROVE  /\ Q \cup {NewRequest(m + 1)} \in Queues
         /\ \A q \in Q \cup {NewRequest(m + 1)} : q.id <= m + 1
<1> DEFINE v == NewRequest(m + 1)
<1>1. v \in Request /\ v.id = m + 1
  BY SettingsAssumption DEF NewRequest, Request, Statuses
<1> HIDE DEF v
<1>2. /\ Q \in SUBSET Request /\ \A p, q \in Q : p.id = q.id => p = q
      /\ \A q \in Q : q.id \in Int
  BY SettingsAssumption DEF Queues, Request
<1>3. \A q \in Q : q.id <= m + 1 /\ q.id # m + 1
  BY <1>2
<1>4. Q \cup {v} \in Queues
  BY <1>1, <1>2, <1>3 DEF Queues
<1>5. \A q \in Q \cup {v} : q.id <= m + 1
  BY <1>1, <1>3
<1> QED
  BY <1>4, <1>5 DEF v

LEMMA EditsTypes ==
  ASSUME Types,
         \/ CreateRequest
         \/ \E verdict \in {"approved", "denied"} : DecideSelected(verdict)
         \/ \E p \in PrincipalForm : UpsertPrincipal(p)
         \/ DeactivateSelected
         \/ \E rule \in RuleForm : AddRule(rule)
         \/ RemoveSelected \/ RestoreDefaults
  PROVE  Types'
<1>0. /\ made \in 0..MaxRequests /\ made \in Nat
      /\ "requests" \in Kinds /\ "directory" \in Kinds /\ "rules" \in Kinds
      /\ Items("requests") = Queues /\ Items("directory") = Directories /\ Items("rules") = Rules
  BY SettingsAssumption DEF Types, Kinds, Items
<1>1. ASSUME NEW kind \in {"directory", "rules"}, dialog.kind = kind
      PROVE  dialog.draft \in Items(kind)
  BY <1>0, <1>1, OpenDialog DEF DialogTypes
<1>2. ASSUME dialog.kind = "requests"
      PROVE  dialog.draft \in Queues /\ \A q \in dialog.draft : q.id <= made
  BY <1>0, <1>2, OpenDialog DEF DialogTypes
<1>3. ASSUME NEW kind \in {"directory", "rules"}, NEW items \in Items(kind), Edit(kind, items),
             made' = made
      PROVE  Types'
  BY <1>0, <1>3, EditTypes
<1>4. CASE CreateRequest
  <2> DEFINE items == dialog.draft \cup {NewRequest(made + 1)}
  <2>1. made < MaxRequests /\ made' = made + 1 /\ Edit("requests", items)
    BY <1>4 DEF CreateRequest
  <2>2. dialog.kind = "requests"
    BY <2>1 DEF Edit
  <2>3. items \in Queues /\ \A q \in items : q.id <= made + 1
    BY <1>0, <1>2, <2>1, <2>2, CreateTypes
  <2> HIDE DEF items
  <2>4. made' \in 0..MaxRequests /\ made <= made'
    BY <1>0, <2>1, SettingsAssumption
  <2> QED
    BY <1>0, <2>1, <2>3, <2>4, EditTypes
<1>5. ASSUME NEW verdict \in {"approved", "denied"}, DecideSelected(verdict) PROVE Types'
  <2>1. dialog.kind = "requests" /\ made' = made
    BY <1>5 DEF DecideSelected
  <2>2. PICK r \in RequestAt(dialog.draft, dialog.row) :
          Edit("requests", Decide(dialog.draft, r, verdict))
    BY <1>5 DEF DecideSelected
  <2> DEFINE items == Decide(dialog.draft, r, verdict)
  <2>3. r \in dialog.draft
    BY DEF RequestAt
  <2>4. items \in Queues /\ \A q \in items : q.id <= made
    BY <1>2, <2>1, <2>3, DecideTypes
  <2> HIDE DEF items
  <2>5. Edit("requests", items) /\ made' \in 0..MaxRequests /\ made <= made'
    BY <1>0, <2>1, <2>2 DEF items
  <2> QED
    BY <1>0, <2>1, <2>4, <2>5, EditTypes
<1>6. ASSUME NEW p \in PrincipalForm, UpsertPrincipal(p) PROVE Types'
  <2>1. /\ dialog.kind = "directory" /\ made' = made
        /\ Edit("directory", Upsert(dialog.draft, p)) /\ p \in Principal
    BY <1>6 DEF UpsertPrincipal, PrincipalForm
  <2>2. Upsert(dialog.draft, p) \in Directories
    BY <1>0, <1>1, <2>1, UpsertKeeps
  <2> QED
    BY <1>0, <1>3, <2>1, <2>2
<1>7. CASE DeactivateSelected
  <2>1. dialog.kind = "directory" /\ made' = made
    BY <1>7 DEF DeactivateSelected
  <2>2. PICK p \in PrincipalAt(dialog.draft, dialog.row) :
          Edit("directory", Upsert(dialog.draft, [p EXCEPT !.active = FALSE]))
    BY <1>7 DEF DeactivateSelected
  <2>3. dialog.draft \in Directories /\ p \in Principal
    BY <1>0, <1>1, <2>1 DEF PrincipalAt, Directories
  <2>4. [p EXCEPT !.active = FALSE] \in Principal
    BY <2>3 DEF Principal
  <2>5. Upsert(dialog.draft, [p EXCEPT !.active = FALSE]) \in Directories
    BY <2>3, <2>4, UpsertKeeps
  <2> QED
    BY <1>0, <1>3, <2>1, <2>2, <2>5
<1>8. ASSUME NEW rule \in RuleForm, AddRule(rule) PROVE Types'
  <2>1. /\ dialog.kind = "rules" /\ made' = made /\ Len(Others(dialog.draft, rule)) < MaxRules
        /\ Edit("rules", Append(Others(dialog.draft, rule), rule)) /\ rule \in RuleIds
    BY <1>8 DEF AddRule, RuleForm
  <2>2. Append(Others(dialog.draft, rule), rule) \in Rules
    BY <1>0, <1>1, <2>1, AddRuleKeepsTheOthers
  <2> QED
    BY <1>0, <1>3, <2>1, <2>2
<1>9. CASE RemoveSelected
  <2>1. /\ dialog.kind = "rules" /\ made' = made /\ dialog.row \in DOMAIN dialog.draft
        /\ Edit("rules", RemoveAt(dialog.draft, dialog.row))
    BY <1>9 DEF RemoveSelected
  <2>2. RemoveAt(dialog.draft, dialog.row) \in Rules
    BY <1>0, <1>1, <2>1, RemoveAtPack
  <2> QED
    BY <1>0, <1>3, <2>1, <2>2
<1>10. CASE RestoreDefaults
  <2>1. StarterRules \in Rules
    BY <1>0, DefaultsFit, SettingsFields DEF UsableWith, Fits, Defaults
  <2> QED
    BY <1>0, <1>3, <1>10, <2>1 DEF RestoreDefaults
<1> QED
  BY <1>4, <1>5, <1>6, <1>7, <1>8, <1>9, <1>10

\* The three save buttons.
LEMMA SavesTypes ==
  ASSUME Types, NEW raises \in BOOLEAN,
         SaveRequests(raises) \/ SaveDirectory(raises) \/ SaveRules(raises)
  PROVE  Types'
<1> DEFINE d == dialog.settings
           items == dialog.draft
<1>1. /\ "requests" \in Kinds /\ "directory" \in Kinds /\ "rules" \in Kinds
      /\ dialog.kind \in Kinds
  BY DEF SaveRequests, SaveDirectory, SaveRules, SaveAs, Kinds
<1>2. DialogTypes(dialog, made)
  BY <1>1, OpenDialog
<1>3. d \in VaultSettings /\ \A r \in d.requests : r.id <= made
  BY <1>2 DEF DialogTypes, UsableWith, Fits
<1>4. /\ dialog.kind = "requests" => items \in Queues /\ \A r \in items : r.id <= made
      /\ dialog.kind = "directory" => items \in Directories
      /\ dialog.kind = "rules" => items \in Rules
  BY <1>2 DEF DialogTypes, Items
<1> HIDE DEF d, items
<1>5. CASE SaveRequests(raises)
  <2> DEFINE s == [d EXCEPT !.requests = items]
  <2>1. SaveAs("requests", s, raises) /\ dialog.kind = "requests"
    BY <1>5 DEF SaveRequests, SaveAs, d, items
  <2>2. s \in VaultSettings /\ s.requests = items
    BY <1>3, <1>4, <2>1 DEF VaultSettings
  <2> HIDE DEF s
  <2>3. Fits(s, made)
    BY <1>4, <2>1, <2>2 DEF Fits
  <2> QED
    BY <1>1, <2>1, <2>3, SaveAsTypes
<1>6. CASE SaveDirectory(raises)
  <2> DEFINE trusted == d.trusted \cup TrustedDevices(items)
             s == [d EXCEPT !.directory = items, !.trusted = trusted]
  <2>1. SaveAs("directory", s, raises) /\ dialog.kind = "directory"
    BY <1>6 DEF SaveDirectory, SaveAs, d, items
  <2>2. trusted \in SUBSET Devices
    <3>1. \A p \in items : p.devices \subseteq Devices
      BY <1>4, <2>1 DEF Directories, Principal
    <3>2. TrustedDevices(items) \subseteq Devices
      BY <3>1 DEF TrustedDevices
    <3> QED
      BY <1>3, <3>2, SettingsFields
  <2> HIDE DEF trusted
  <2>3. s \in VaultSettings /\ s.requests = d.requests
    BY <1>3, <1>4, <2>1, <2>2 DEF VaultSettings
  <2> HIDE DEF s
  <2>4. Fits(s, made)
    BY <1>3, <2>3 DEF Fits
  <2> QED
    BY <1>1, <2>1, <2>4, SaveAsTypes
<1>7. CASE SaveRules(raises)
  <2> DEFINE s == [d EXCEPT !.rules = items]
  <2>1. SaveAs("rules", s, raises) /\ dialog.kind = "rules"
    BY <1>7 DEF SaveRules, SaveAs, d, items
  <2>2. s \in VaultSettings /\ s.requests = d.requests
    BY <1>3, <1>4, <2>1 DEF VaultSettings
  <2> HIDE DEF s
  <2>3. Fits(s, made)
    BY <1>3, <2>2 DEF Fits
  <2> QED
    BY <1>1, <2>1, <2>3, SaveAsTypes
<1> QED
  BY <1>5, <1>6, <1>7

LEMMA RestartTypes == ASSUME Types, NEW readable, Restart(readable) PROVE Types'
<1>1. /\ live' \in {Load(file), Defaults} /\ policy' = live' /\ center' = NoCenter
      /\ dialog' = Closed /\ adrift' \in {"no", "unread"} /\ file' = file /\ made' = made
      /\ opened < MaxOpened /\ opened' = opened + 1
  BY DEF Restart, Started
<1>2. UsableWith(Defaults, made)
  BY SettingsAssumption, DefaultsFit DEF Types
<1>3. UsableWith(Load(file), made)
  BY <1>2, NormalizedFits DEF Load, Types, UsableWith
<1>4. opened' \in 0..MaxOpened
  BY <1>1, SettingsAssumption DEF Types
<1> QED
  BY <1>1, <1>2, <1>3, <1>4, SameMade

LEMMA CenterTypes ==
  ASSUME Types,
         \/ OpenCenter \/ Cancel
         \/ \E lock \in SecurityPage, requireDevice \in ZeroTrustPage, identity \in IdentityPage,
               team \in DefaultsPage, raises \in BOOLEAN :
              ShowSettings(lock, requireDevice, identity, team, raises)
  PROVE  Types'
<1>1. CASE OpenCenter
  <2>1. /\ center' = [open |-> TRUE, settings |-> live] /\ opened < MaxOpened
        /\ opened' = opened + 1 /\ UNCHANGED <<file, live, policy, dialog, made, adrift>>
    BY <1>1 DEF OpenCenter
  <2>2. center'.open /\ UsableWith(center'.settings, made) /\ opened' \in 0..MaxOpened
    BY <2>1, SettingsAssumption DEF Types
  <2> QED
    BY <2>1, <2>2, SameMade
<1>2. CASE Cancel
  <2>1. /\ center' = NoCenter /\ opened' \in 0..MaxOpened
        /\ UNCHANGED <<file, live, policy, dialog, made, adrift>>
    BY <1>2 DEF Cancel, Types
  <2> QED
    BY <2>1, SameMade
<1>3. ASSUME NEW lock \in SecurityPage, NEW requireDevice \in ZeroTrustPage,
             NEW identity \in IdentityPage, NEW team \in DefaultsPage, NEW raises \in BOOLEAN,
             ShowSettings(lock, requireDevice, identity, team, raises)
      PROVE  Types'
  <2> DEFINE c == center.settings
             own == identity.own
             trusted == identity.trusted
             a == [c EXCEPT !.lock = lock, !.team = team, !.own = own, !.trusted = trusted,
                            !.requireDevice = requireDevice]
  <2>1. /\ center' = NoCenter /\ live' = Normalized(a) /\ Save(live', raises)
        /\ policy' = (IF raises THEN policy ELSE live') /\ UNCHANGED <<dialog, made, opened>>
        /\ center.open
    BY <1>3 DEF ShowSettings, Accepted
  <2>2. c \in VaultSettings /\ \A r \in c.requests : r.id <= made
    BY <2>1 DEF Types, NoCenter, UsableWith, Fits
  <2>3. /\ lock \in Timeouts /\ team \in Teams /\ own \in Devices
        /\ trusted \in SUBSET Devices /\ requireDevice \in BOOLEAN
    BY DEF SecurityPage, ZeroTrustPage, IdentityPage, DefaultsPage
  <2> HIDE DEF c, own, trusted
  <2>4. a \in VaultSettings /\ a.requests = c.requests
    BY <2>2, <2>3 DEF VaultSettings
  <2> HIDE DEF a
  <2>5. UsableWith(live', made)
    BY <2>1, <2>2, <2>4, NormalizedFits DEF Fits
  <2>6. UsableWith(Normalized(live'), made)
    BY <2>5, NormalizedFits DEF UsableWith
  <2>7. (file' = file \/ UsableWith(file', made)) /\ adrift' \in {"no", "unsaved", "unread"}
    BY <2>1, <2>6, SaveAdrift
  <2>8. opened' \in 0..MaxOpened
    BY <2>1 DEF Types
  <2> QED
    BY <2>1, <2>5, <2>7, <2>8, SameMade
<1> QED
  BY <1>1, <1>2, <1>3

LEMMA StepKeepsTypes == Types /\ [Next]_vars => Types'
<1> SUFFICES ASSUME Types, [Next]_vars PROVE Types'
  OBVIOUS
<1>1. ASSUME NEW row \in 1..(MaxRequests + MaxRules), Pick(row) PROVE Types'
  BY <1>1, PickTypes, SettingsAssumption
<1>2. ASSUME NEW kind \in Kinds, Close(kind) PROVE Types'
  BY <1>2, CloseTypes
<1>3. /\ ShowPolicyPack => PolicyPackDialog \/ \E kind \in Kinds : Close(kind)
      /\ ShowDirectory => DirectoryDialog \/ \E kind \in Kinds : Close(kind)
      /\ ShowAccessRequests => AccessRequestsDialog \/ \E kind \in Kinds : Close(kind)
  BY DEF ShowPolicyPack, ShowDirectory, ShowAccessRequests, Kinds
<1>4. CASE UNCHANGED vars
  BY <1>4 DEF vars, Types
<1> QED
  BY <1>1, <1>2, <1>3, <1>4, ShowTypes, EditsTypes, SavesTypes, RestartTypes, CenterTypes DEF Next

-----------------------------------------------------------------------------
(* The specification. *)

LEMMA InitInv == Init => IInv
<1> SUFFICES ASSUME Init PROVE IInv
  OBVIOUS
<1>1. Good(Defaults)
  BY DEF Good, IsSettings, Defaults, Normalized
<1> QED
  BY <1>1, ClosedKind DEF Init, IInv, DialogInv, StoredInv, Load

\* What a step does to the decisions that are kept.
KeptStep ==
  \/ Kept \subseteq Kept'
  \/ center.open /\ ~center'.open /\ center.settings.requests # live.requests
  \/ adrift' = "unread"

LEMMA NextInv == IInv /\ [Next]_vars => IInv' /\ KeptStep
<1> SUFFICES ASSUME IInv, [Next]_vars PROVE IInv' /\ KeptStep
  OBVIOUS
<1>0. ASSUME UNCHANGED <<file, live>> PROVE KeptStep
  BY <1>0 DEF KeptStep, Kept
<1>1. ASSUME NEW readable \in Readable, Restart(readable) PROVE IInv' /\ KeptStep
  <2>1. CASE live' = Load(file)
    BY <1>1, <2>1, RestartStep DEF KeptStep, Kept
  <2>2. CASE adrift' = "unread"
    BY <1>1, <2>2, RestartStep DEF KeptStep
  <2> QED
    BY <1>1, <2>1, <2>2, RestartStep
<1>2. ASSUME PolicyPackDialog \/ DirectoryDialog \/ AccessRequestsDialog PROVE IInv' /\ KeptStep
  <2>1. IInv'
    BY <1>2, ShowStep DEF PolicyPackDialog, DirectoryDialog, AccessRequestsDialog, Kinds
  <2> QED
    BY <1>0, <1>2, <2>1 DEF PolicyPackDialog, DirectoryDialog, AccessRequestsDialog, Show
<1>3. ASSUME NEW kind \in Kinds, Close(kind) PROVE IInv' /\ KeptStep
  <2>1. IInv' /\ Decisions(live) \subseteq Decisions(live')
    BY <1>3, CloseStep
  <2>2. file' = file
    BY <1>3 DEF Close
  <2> QED
    BY <2>1, <2>2 DEF KeptStep, Kept
<1>4. ASSUME NEW row, Pick(row) PROVE IInv' /\ KeptStep
  <2>1. UNCHANGED <<file, live, policy, center, adrift>> /\ dialog # Closed
    BY <1>4, ClosedKind DEF Pick
  <2>2. IsDialog(dialog)
    BY <2>1 DEF IInv, DialogInv
  <2>3. /\ IsDialog(dialog') /\ dialog'.kind = dialog.kind /\ dialog'.settings = dialog.settings
        /\ dialog'.draft = dialog.draft /\ dialog'.table = dialog.table
    BY <1>4, <2>2 DEF Pick, IsDialog
  <2>4. DialogInv'
    BY <2>1, <2>3 DEF IInv, DialogInv, Decisions
  <2>5. StoredInv'
    BY <2>1, <2>3 DEF IInv, StoredInv
  <2> QED
    BY <1>0, <2>1, <2>4, <2>5 DEF IInv
<1>5. ASSUME \/ CreateRequest
             \/ \E verdict \in {"approved", "denied"} : DecideSelected(verdict)
             \/ \E p \in PrincipalForm : UpsertPrincipal(p)
             \/ DeactivateSelected
             \/ \E rule \in RuleForm : AddRule(rule)
             \/ RemoveSelected \/ RestoreDefaults
      PROVE  IInv' /\ KeptStep
  BY <1>0, <1>5, EditsStep
<1>6. ASSUME NEW raises \in BOOLEAN,
             SaveRequests(raises) \/ SaveDirectory(raises) \/ SaveRules(raises)
      PROVE  IInv' /\ KeptStep
  <2>1. /\ IInv' /\ live' = live
        /\ Load(file') = Load(file) \/ Decisions(live) \subseteq Decisions(Load(file'))
    BY <1>6, SavesStep
  <2>2. Kept' = Decisions(Load(file')) \cap Decisions(live)
    BY <2>1 DEF Kept
  <2>3. Kept \subseteq Kept'
    BY <2>1, <2>2 DEF Kept
  <2> QED
    BY <2>1, <2>3 DEF KeptStep
<1>7. CASE OpenCenter
  <2>1. /\ center' = [open |-> TRUE, settings |-> live]
        /\ UNCHANGED <<file, live, policy, dialog, adrift>>
    BY <1>7 DEF OpenCenter
  <2>2. /\ center' = [open |-> TRUE, settings |-> center'.settings]
        /\ IsSettings(center'.settings)
    BY <2>1 DEF IInv, Good
  <2>3. IInv'
    BY <2>1, <2>2 DEF IInv, DialogInv, StoredInv, Decisions
  <2> QED
    BY <1>0, <2>1, <2>3
<1>8. CASE Cancel
  <2>1. center' = NoCenter /\ UNCHANGED <<file, live, policy, dialog, adrift>>
    BY <1>8 DEF Cancel
  <2>3. IInv'
    BY <2>1 DEF IInv, DialogInv, StoredInv, Decisions
  <2> QED
    BY <1>0, <2>1, <2>3
<1>9. ASSUME NEW lock, NEW requireDevice, NEW identity, NEW team, NEW raises \in BOOLEAN,
             ShowSettings(lock, requireDevice, identity, team, raises)
      PROVE  IInv' /\ KeptStep
  <2>1. /\ IInv' /\ live'.requests = center.settings.requests
        /\ (file' = file \/ Load(file') = live')
    BY <1>9, AcceptStep
  <2>2. center.open /\ ~center'.open
    BY <1>9 DEF ShowSettings, NoCenter
  <2>3. CASE center.settings.requests = live.requests
    <3>1. Decisions(live') = Decisions(live)
      BY <2>1, <2>3 DEF Decisions
    <3> QED
      BY <2>1, <3>1 DEF KeptStep, Kept
  <2> QED
    BY <2>1, <2>2, <2>3 DEF KeptStep
<1>10. CASE UNCHANGED vars
  <2>1. IInv'
    BY <1>10 DEF vars, IInv, DialogInv, StoredInv, Decisions
  <2> QED
    BY <1>0, <1>10, <2>1 DEF vars
<1>11. /\ ShowPolicyPack => PolicyPackDialog \/ \E kind \in Kinds : Close(kind)
       /\ ShowDirectory => DirectoryDialog \/ \E kind \in Kinds : Close(kind)
       /\ ShowAccessRequests => AccessRequestsDialog \/ \E kind \in Kinds : Close(kind)
  BY DEF ShowPolicyPack, ShowDirectory, ShowAccessRequests, Kinds
<1> QED
  BY <1>1, <1>2, <1>3, <1>4, <1>5, <1>6, <1>7, <1>8, <1>9, <1>10, <1>11 DEF Next

LEMMA IInvHolds == Spec => []IInv
BY InitInv, NextInv, PTL DEF Spec

\* With no dialog open, the engine judges by what the window shows and a restart would
\* find, unless a save raised or the file could not be read.
THEOREM InForceStored == Spec => []InForceIsStored
<1>1. IInv => InForceIsStored
  BY DEF IInv, StoredInv, InForceIsStored
<1> QED
  BY <1>1, IInvHolds, PTL

\* Only a settings center opened before a decision, or an unreadable file, undoes it.
THEOREM StaleCenterUndoes == Spec => OnlyAStaleCenterUndoes
<1>1. IInv /\ [Next]_vars =>
        [\/ Kept \subseteq Kept'
         \/ center.open /\ ~center'.open /\ center.settings.requests # live.requests
         \/ adrift' = "unread"]_vars
  BY NextInv DEF KeptStep
<1> QED
  BY <1>1, IInvHolds, PTL DEF Spec, OnlyAStaleCenterUndoes

\* A decision falls on the request the table shows in the current row.
THEOREM ActsOnShown == Spec => ActsOnTheRowShown
<1>1. ASSUME IInv, [Next]_vars, dialog.kind = "requests", dialog'.kind = "requests",
             NEW r \in dialog.draft \ dialog'.draft
      PROVE  r \in RequestAt(dialog.table, dialog.row)
  <2>0. dialog # Closed
    BY <1>1, ClosedKind
  <2>1. IsDialog(dialog) /\ dialog.table = dialog.draft
    BY <1>1, <2>0 DEF IInv, DialogInv
  <2>2. dialog'.draft # dialog.draft
    BY <1>1
  <2>3. \A items : Edit("requests", items) => dialog'.draft = items
    BY <2>1 DEF Edit, IsDialog
  <2>4. CASE CreateRequest
    BY <1>1, <2>3, <2>4 DEF CreateRequest
  <2>5. ASSUME NEW verdict \in {"approved", "denied"}, DecideSelected(verdict)
        PROVE  r \in RequestAt(dialog.table, dialog.row)
    <3>1. PICK q \in RequestAt(dialog.draft, dialog.row) :
            Edit("requests", Decide(dialog.draft, q, verdict))
      BY <2>5 DEF DecideSelected
    <3>2. dialog'.draft = Decide(dialog.draft, q, verdict)
      BY <2>3, <3>1
    <3>3. r = q
      BY <1>1, <3>2 DEF Decide
    <3> QED
      BY <2>1, <3>1, <3>3
  <2>7. ASSUME NEW row, Pick(row) PROVE dialog'.draft = dialog.draft
    BY <2>1, <2>7 DEF Pick, IsDialog
  <2>8. ASSUME NEW kind, NEW s, NEW raises, SaveAs(kind, s, raises)
        PROVE  dialog'.draft = dialog.draft
    BY <2>1, <2>8 DEF SaveAs, IsDialog
  <2>9. ASSUME NEW kind, Close(kind) PROVE dialog'.kind # "requests"
    BY <2>9, ClosedKind DEF Close
  <2>10. ASSUME NEW d, Show(d) PROVE FALSE
    BY <1>1, <2>10 DEF Show
  <2>11. ASSUME NEW readable, Restart(readable) PROVE dialog'.kind # "requests"
    BY <2>11, ClosedKind DEF Restart, Started
  <2>12. ASSUME dialog' = dialog PROVE FALSE
    BY <2>2, <2>12
  <2>13. ~OpenCenter /\ ~Cancel /\ ~(UNCHANGED vars)
         /\ \A lock, requireDevice, identity, team, raises :
               ~ShowSettings(lock, requireDevice, identity, team, raises)
    BY <2>12 DEF OpenCenter, Cancel, vars, ShowSettings
  <2>14. /\ \A p : ~UpsertPrincipal(p)
         /\ ~DeactivateSelected /\ ~RemoveSelected /\ ~RestoreDefaults
         /\ \A rule : ~AddRule(rule)
    BY <1>1 DEF UpsertPrincipal, DeactivateSelected, RemoveSelected, RestoreDefaults, AddRule
  <2>15. \A raises : ~SaveRequests(raises) /\ ~SaveDirectory(raises) /\ ~SaveRules(raises)
    BY <2>2, <2>8 DEF SaveRequests, SaveDirectory, SaveRules
  <2>16. ~ShowPolicyPack /\ ~ShowDirectory /\ ~ShowAccessRequests
    BY <1>1, <2>9, <2>10 DEF ShowPolicyPack, ShowDirectory, ShowAccessRequests, PolicyPackDialog,
       DirectoryDialog, AccessRequestsDialog
  <2> QED
    BY <1>1, <2>2, <2>4, <2>5, <2>7, <2>11, <2>13, <2>14, <2>15, <2>16 DEF Next
<1>2. IInv /\ [Next]_vars =>
        [dialog.kind = "requests" /\ dialog'.kind = "requests" =>
           \A r \in dialog.draft \ dialog'.draft : r \in RequestAt(dialog.table, dialog.row)]_vars
  BY <1>1
<1> QED
  BY <1>2, IInvHolds, PTL DEF Spec, ActsOnTheRowShown

LEMMA TypesHold == Spec => []Types
BY TypesInit, StepKeepsTypes, PTL DEF Spec

\* Settings in force, saved and shown trust a device if one has to be trusted
\* (settings.py:42-83), a pack has a rule of a name once, a directory a principal and
\* a queue a request, whatever dialogs are opened, edited, saved and closed.
THEOREM SettingsTypes == Spec => []TypeOK
BY TypesHold, TypesAre, PTL
=============================================================================

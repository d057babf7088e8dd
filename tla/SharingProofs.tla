---------------------------- MODULE SharingProofs ----------------------------
(***************************************************************************)
(* For any number of entries, recipients, keys, grants and principals.     *)
(* IInv is TypeOK with what it needs of the window: the form's match is    *)
(* the id of the row that filled it, and the lists are the session's       *)
(* unless the window knows that they are behind.                           *)
(***************************************************************************)
EXTENDS Sharing, TLAPS

USE SharingAssumption

Forms == [names : SUBSET Names]
Registries == [rows : SUBSET Grant, entry : Names \cup {Nobody},
               match : Matches \cup {NoMatch}, picked : 0..MaxGrants]
Centers == [open : BOOLEAN, behind : BOOLEAN, create : Forms, registry : Registries,
            receive : [opened : BOOLEAN]]

-----------------------------------------------------------------------------
(* Types. *)

LEMMA CreatedIsNat == TypeOK => created \in Nat
BY DEF TypeOK

\* What the window is filled with is of its type.
LEMMA RefreshedType ==
  ASSUME NEW c \in Centers, NEW names \in SUBSET Names, NEW rows \in SUBSET Grant
  PROVE  Refreshed(c, names, rows) \in Centers
<1>1. \A name \in Names \cup {Nobody} : Kept(name, names) \in Names \cup {Nobody}
  <2> TAKE name \in Names \cup {Nobody}
  <2>1. names # {} => (CHOOSE n \in names : TRUE) \in names
    OBVIOUS
  <2> QED
    BY <2>1 DEF Kept
<1>2. Kept(c.registry.entry, names) \in Names \cup {Nobody}
  BY <1>1 DEF Centers, Registries
<1> QED
  BY <1>2 DEF Refreshed, Centers, Registries, Forms

LEMMA ClosedType == Closed \in Centers
BY DEF Closed, Centers, Registries, Forms, CreateForm, RegistryForm, ReceiveForm

\* The session's part of the type invariant.
EntriesOK ==
  /\ vault \subseteq Names /\ trashed \subseteq vault
  /\ grants \subseteq Grant
  /\ created \in 0..MaxGrants
  /\ \A g \in grants : g.id <= created /\ g.entry \in vault
  /\ sharedWith \in [Names -> SUBSET Labels]
  /\ byHand \in [Names -> SUBSET Labels]

WindowOK ==
  /\ directory \subseteq Principals \cup {[p EXCEPT !.active = FALSE] : p \in Principals}
  /\ unlocked \in BOOLEAN
  /\ denied \subseteq Entries
  /\ views \subseteq Names

LEMMA TypeParts == TypeOK <=> EntriesOK /\ WindowOK /\ center \in Centers
BY DEF TypeOK, EntriesOK, WindowOK, Centers, Registries, Forms

LEMMA ListsType == EntriesOK => Listed \in SUBSET Names /\ GrantRows \in SUBSET Grant
BY DEF EntriesOK, Listed, GrantRows

\* The labels of grants are labels.
LEMMA LabelsType ==
  ASSUME NEW G \in SUBSET Grant, NEW legacy \in SUBSET Labels, NEW e
  PROVE  SharedLabels(Of(G, e), legacy) \in SUBSET Labels
BY DEF SharedLabels, Active, Of, Grant

LEMMA ShareTypes ==
  ASSUME EntriesOK, NEW e \in Names, NEW label \in Labels, NEW key \in Keys,
         SharePublicKey(e, label, key)
  PROVE  EntriesOK'
<1>1. created \in Nat /\ created < MaxGrants
  BY DEF EntriesOK, SharePublicKey
<1>2. created + 1 \in 1..MaxGrants
  BY <1>1
<1>3. NewGrant(e, label, key) \in Grant
  BY <1>2 DEF NewGrant, Grant
<1>4. grants' \subseteq Grant /\ created' \in 0..MaxGrants
  BY <1>2, <1>3 DEF EntriesOK, SharePublicKey
<1>5. \A g \in grants' : g.id <= created' /\ g.entry \in vault'
  <2> TAKE g \in grants'
  <2>1. CASE g \in grants
    <3>1. g.id \in Nat /\ g.id <= created /\ g.entry \in vault
      BY <2>1 DEF EntriesOK, Grant
    <3> QED
      BY <1>1, <3>1 DEF SharePublicKey
  <2>2. CASE g = NewGrant(e, label, key)
    BY <1>1, <2>2 DEF NewGrant, SharePublicKey
  <2> QED
    BY <2>1, <2>2 DEF SharePublicKey
<1>6. SharedLabels(Of(grants', e), sharedWith[e]) \in SUBSET Labels
  BY <1>4, LabelsType DEF EntriesOK
<1>7. sharedWith' \in [Names -> SUBSET Labels]
  BY <1>6 DEF EntriesOK, SharePublicKey
<1> QED
  BY <1>4, <1>5, <1>7 DEF EntriesOK, SharePublicKey

LEMMA RevokeTypes ==
  ASSUME EntriesOK, NEW e \in Names, NEW match, RevokeShare(e, match)
  PROVE  EntriesOK'
<1>1. \A g \in grants : [g EXCEPT !.active = FALSE] \in Grant
  BY DEF EntriesOK, Grant
<1>2. grants' \subseteq Grant
  BY <1>1 DEF EntriesOK, RevokeShare
<1>3. \A g \in grants : [g EXCEPT !.active = FALSE].id = g.id
                        /\ [g EXCEPT !.active = FALSE].entry = g.entry
  BY DEF EntriesOK, Grant
<1>4. \A g \in grants' : g.id <= created' /\ g.entry \in vault'
  BY <1>3 DEF EntriesOK, RevokeShare
<1>5. {} \in SUBSET Labels
  OBVIOUS
<1>6. SharedLabels(Of(grants', e), {}) \in SUBSET Labels
  BY <1>2, <1>5, LabelsType
<1>7. sharedWith' \in [Names -> SUBSET Labels] /\ byHand' \in [Names -> SUBSET Labels]
  BY <1>6 DEF EntriesOK, RevokeShare
<1> QED
  BY <1>2, <1>4, <1>7 DEF EntriesOK, RevokeShare

LEMMA InitTypes == Init => TypeOK
<1> SUFFICES ASSUME Init PROVE TypeOK
  OBVIOUS
<1>1. EntriesOK /\ WindowOK
  BY DEF Init, EntriesOK, WindowOK, Names
<1>2. center \in Centers
  BY ClosedType DEF Init
<1> QED
  BY <1>1, <1>2, TypeParts

LEMMA NextTypes == TypeOK /\ [Next]_vars => TypeOK'
<1> SUFFICES ASSUME TypeOK, [Next]_vars PROVE TypeOK'
  OBVIOUS
<1>0. EntriesOK /\ WindowOK /\ center \in Centers
  BY TypeParts
<1>a. SUFFICES EntriesOK' /\ WindowOK' /\ center' \in Centers
  BY TypeParts DEF TypeOK, EntriesOK, WindowOK, Centers, Registries, Forms
<1> USE DEF entries, window
<1>1. ASSUME NEW e \in Names, Trash(e) \/ Restore(e)
      PROVE  EntriesOK' /\ WindowOK' /\ center' \in Centers
  BY <1>0, <1>1 DEF Trash, Restore, EntriesOK, WindowOK
<1>2. ASSUME NEW e \in Entries, NEW L \in SUBSET HandLabels, SetSharedWith(e, L)
      PROVE  EntriesOK' /\ WindowOK' /\ center' \in Centers
  BY <1>0, <1>2 DEF SetSharedWith, EntriesOK, WindowOK
<1>3. CASE Lock
  <2>1. [center EXCEPT !.behind = TRUE] \in Centers
    BY <1>0 DEF Centers
  <2> QED
    BY <1>0, <1>3, <2>1 DEF Lock, EntriesOK, WindowOK
<1>4. ASSUME NEW D \in SUBSET Entries, ChangePolicy(D)
      PROVE  EntriesOK' /\ WindowOK' /\ center' \in Centers
  BY <1>0, <1>4 DEF ChangePolicy, EntriesOK, WindowOK
<1>5. CASE OpenCenter
  <2>1. [Closed EXCEPT !.open = TRUE] \in Centers
    BY ClosedType DEF Centers
  <2>2. center' \in Centers
    BY <1>0, <1>5, <2>1, ListsType, RefreshedType DEF OpenCenter
  <2> QED
    BY <1>0, <1>5, <2>2 DEF OpenCenter, EntriesOK, WindowOK
<1>6. CASE Refresh
  <2>2. center' \in Centers
    BY <1>0, <1>6, ListsType, RefreshedType DEF Refresh
  <2> QED
    BY <1>0, <1>6, <2>2 DEF Refresh, EntriesOK, WindowOK
<1>7. CASE CloseCenter
  BY <1>0, <1>7, ClosedType DEF CloseCenter, EntriesOK, WindowOK
<1>8. ASSUME NEW e \in Names, NEW label \in Labels, NEW key \in Keys, NEW saved \in BOOLEAN,
             ClickCreate(e, label, key, saved)
      PROVE  EntriesOK' /\ WindowOK' /\ center' \in Centers
  <2>1. EntriesOK'
    BY <1>0, <1>8, ShareTypes DEF ClickCreate, CreateGrant
  <2>2. Listed' \in SUBSET Names /\ GrantRows' \in SUBSET Grant
    BY <2>1 DEF EntriesOK, Listed, GrantRows
  <2>3. Refreshed(center, Listed', GrantRows') \in Centers
    BY <1>0, <2>2, RefreshedType
  <2>4. CASE saved
    <3>1. center' = [Refreshed(center, Listed', GrantRows') EXCEPT !.registry.entry = e]
      BY <1>8, <2>4 DEF ClickCreate
    <3> QED
      BY <2>1, <2>3, <3>1, <1>0, <1>8 DEF Centers, Registries, ClickCreate, WindowOK
  <2>5. CASE ~saved
    <3>1. center' \in Centers
      BY <1>0, <1>8, <2>5 DEF ClickCreate, Centers
    <3> QED
      BY <2>1, <3>1, <1>0, <1>8 DEF ClickCreate, WindowOK
  <2> QED
    BY <2>4, <2>5
<1>9. ASSUME NEW g \in center.registry.rows, SelectRow(g)
      PROVE  EntriesOK' /\ WindowOK' /\ center' \in Centers
  <2>1. g \in Grant
    BY <1>0 DEF Centers, Registries
  <2>2. g.entry \in Names /\ g.id \in 0..MaxGrants /\ <<"id", g.id>> \in Matches
    BY <2>1 DEF Grant, Matches
  <2>3. center' \in Centers
    BY <1>0, <1>9, <2>2 DEF SelectRow, Centers, Registries
  <2> QED
    BY <1>0, <1>9, <2>3 DEF SelectRow, EntriesOK, WindowOK
<1>10. ASSUME NEW e \in Names, NEW match \in Matches, TypeMatch(e, match)
       PROVE  EntriesOK' /\ WindowOK' /\ center' \in Centers
  <2>0. 0 \in 0..MaxGrants /\ e \in Names \cup {Nobody} /\ match \in Matches \cup {NoMatch}
    OBVIOUS
  <2> DEFINE r == [center.registry EXCEPT !.entry = e, !.match = match, !.picked = 0]
  <2>a. r \in Registries
    BY <1>0, <2>0 DEF Centers, Registries
  <2>b. center' = [center EXCEPT !.registry = r]
    BY <1>0, <1>10 DEF TypeMatch, Centers, Registries
  <2>1. center' \in Centers
    BY <1>0, <2>a, <2>b DEF Centers
  <2> QED
    BY <1>0, <1>10, <2>1 DEF TypeMatch, EntriesOK, WindowOK
<1>11. ASSUME NEW saved \in BOOLEAN, ClickRevoke(saved)
       PROVE  EntriesOK' /\ WindowOK' /\ center' \in Centers
  <2>0. center.registry.entry \in Names
    BY <1>0, <1>11 DEF ClickRevoke, RevokeShare, EntriesOK
  <2>1. EntriesOK'
    BY <1>0, <1>11, <2>0, RevokeTypes DEF ClickRevoke
  <2>2. Listed' \in SUBSET Names /\ GrantRows' \in SUBSET Grant
    BY <2>1 DEF EntriesOK, Listed, GrantRows
  <2>3. Refreshed(center, Listed', GrantRows') \in Centers
    BY <1>0, <2>2, RefreshedType
  <2>4. center' \in Centers
    BY <1>0, <1>11, <2>3 DEF ClickRevoke, Centers
  <2> QED
    BY <1>0, <1>11, <2>1, <2>4 DEF ClickRevoke, WindowOK
<1>12. ASSUME NEW blobFor \in Keys, NEW key \in Keys, OpenBlob(blobFor, key)
       PROVE  EntriesOK' /\ WindowOK' /\ center' \in Centers
  <2>1. center' \in Centers
    BY <1>0, <1>12 DEF OpenBlob, Centers
  <2> QED
    BY <1>0, <1>12, <2>1 DEF OpenBlob, EntriesOK, WindowOK
<1>13. ASSUME NEW n \in Received, NEW saved \in BOOLEAN, SaveReceived(n, saved)
       PROVE  EntriesOK' /\ WindowOK' /\ center' \in Centers
  <2>1. EntriesOK'
    BY <1>0, <1>13 DEF SaveReceived, EntriesOK, Names
  <2>2. Listed' \in SUBSET Names /\ GrantRows' \in SUBSET Grant
    BY <2>1 DEF EntriesOK, Listed, GrantRows
  <2>3. Refreshed(center, Listed', GrantRows') \in Centers
    BY <1>0, <2>2, RefreshedType
  <2>4. center' \in Centers
    BY <1>0, <1>13, <2>3 DEF SaveReceived, Centers
  <2> QED
    BY <1>0, <1>13, <2>1, <2>4 DEF SaveReceived, WindowOK
<1>14. ASSUME NEW p \in Principals, Upsert(p)
       PROVE  EntriesOK' /\ WindowOK' /\ center' \in Centers
  BY <1>0, <1>14 DEF Upsert, EntriesOK, WindowOK
<1>15. ASSUME NEW needle \in Labels, Deactivate(needle)
       PROVE  EntriesOK' /\ WindowOK' /\ center' \in Centers
  <2>1. \A p \in directory : [p EXCEPT !.active = FALSE] \in
                               {[q EXCEPT !.active = FALSE] : q \in Principals}
    <3> TAKE p \in directory
    <3>1. CASE p \in Principals
      BY <3>1
    <3>2. CASE p \in {[q EXCEPT !.active = FALSE] : q \in Principals}
      <4>1. PICK q \in Principals : p = [q EXCEPT !.active = FALSE]
        BY <3>2
      <4>2. [p EXCEPT !.active = FALSE] = [q EXCEPT !.active = FALSE]
        BY <4>1
      <4> QED
        BY <4>2
    <3> QED
      BY <1>0, <3>1, <3>2 DEF WindowOK
  <2>2. directory' \subseteq Principals \cup {[p EXCEPT !.active = FALSE] : p \in Principals}
    BY <1>0, <1>15, <2>1 DEF Deactivate, WindowOK
  <2> QED
    BY <1>0, <1>15, <2>2 DEF Deactivate, EntriesOK, WindowOK
<1>16. CASE UNCHANGED vars
  BY <1>0, <1>16 DEF vars, EntriesOK, WindowOK
<1> QED
  BY <1>1, <1>2, <1>3, <1>4, <1>5, <1>6, <1>7, <1>8, <1>9, <1>10, <1>11, <1>12, <1>13, <1>14,
     <1>15, <1>16 DEF Next

\* Sessions, directories and windows of any size keep every variable within its type.
THEOREM SharingTypes == Spec => []TypeOK
BY InitTypes, NextTypes, PTL DEF Spec

-----------------------------------------------------------------------------
(* Who is shown as having access. *)

\* The invariant for every name, so that it survives a lock and a revocation.
ShownInv ==
  \A e \in Names : Shown(e) = {g.label : g \in Active(Of(grants, e))} \cup byHand[e]

LEMMA ShownParts ==
  ASSUME NEW e
  PROVE  Shown(e) = {g.label : g \in Active(Of(grants, e))} \cup sharedWith[e]
BY DEF Shown, SharedLabels

LEMMA ShareShown ==
  ASSUME EntriesOK, ShownInv, NEW e \in Names, NEW label \in Labels, NEW key \in Keys,
         SharePublicKey(e, label, key)
  PROVE  ShownInv'
<1> SUFFICES ASSUME NEW f \in Names
             PROVE  Shown(f)' = {g.label : g \in Active(Of(grants', f))} \cup byHand'[f]
  BY DEF ShownInv
<1>0. Shown(f)' = {g.label : g \in Active(Of(grants', f))} \cup sharedWith'[f]
  BY DEF Shown, SharedLabels
<1>1. {g.label : g \in Active(Of(grants, f))} \cup sharedWith[f]
      = {g.label : g \in Active(Of(grants, f))} \cup byHand[f]
  BY ShownParts DEF ShownInv
<1>2. Active(Of(grants, f)) \subseteq Active(Of(grants', f))
  BY DEF SharePublicKey, Active, Of
<1>3. byHand' = byHand
  BY DEF SharePublicKey
<1>4. CASE f = e
  <2>1. sharedWith'[f] = {g.label : g \in Active(Of(grants', f))} \cup sharedWith[f]
    BY <1>4 DEF SharePublicKey, SharedLabels, EntriesOK
  <2> QED
    BY <1>0, <1>1, <1>2, <1>3, <2>1
<1>5. CASE f # e
  <2>1. sharedWith'[f] = sharedWith[f]
    BY <1>5 DEF SharePublicKey, EntriesOK
  <2> QED
    BY <1>0, <1>1, <1>2, <1>3, <2>1
<1> QED
  BY <1>4, <1>5

LEMMA RevokeShown ==
  ASSUME EntriesOK, ShownInv, NEW e \in Names, NEW match, RevokeShare(e, match)
  PROVE  ShownInv'
<1> SUFFICES ASSUME NEW f \in Names
             PROVE  Shown(f)' = {g.label : g \in Active(Of(grants', f))} \cup byHand'[f]
  BY DEF ShownInv
<1>0. Shown(f)' = {g.label : g \in Active(Of(grants', f))} \cup sharedWith'[f]
  BY DEF Shown, SharedLabels
<1>1. {g.label : g \in Active(Of(grants, f))} \cup sharedWith[f]
      = {g.label : g \in Active(Of(grants, f))} \cup byHand[f]
  BY ShownParts DEF ShownInv
<1>2. CASE f = e
  <2>1. sharedWith'[f] = {g.label : g \in Active(Of(grants', f))} /\ byHand'[f] = {}
    BY <1>2 DEF RevokeShare, SharedLabels, EntriesOK
  <2> QED
    BY <1>0, <2>1
<1>3. CASE f # e
  <2>1. \A g \in grants : [g EXCEPT !.active = FALSE].entry = g.entry
    BY DEF EntriesOK, Grant
  <2>2. \A g \in Matching(e, match) : g.entry = e
    BY DEF Matching, Active, Of
  <2> DEFINE new(g) == IF g \in Matching(e, match) THEN [g EXCEPT !.active = FALSE] ELSE g
  <2>a. grants' = {new(g) : g \in grants}
    BY DEF RevokeShare
  <2>b. \A g \in grants : new(g).entry = g.entry /\ (g.entry = f => new(g) = g)
    BY <1>3, <2>1, <2>2
  <2> HIDE DEF new
  <2>3. Of(grants', f) = Of(grants, f)
    BY <2>a, <2>b DEF Of
  <2>4. sharedWith'[f] = sharedWith[f] /\ byHand'[f] = byHand[f]
    BY <1>3 DEF RevokeShare, EntriesOK
  <2> QED
    BY <1>0, <1>1, <2>3, <2>4
<1> QED
  BY <1>2, <1>3

LEMMA ShownStep == TypeOK /\ ShownInv /\ [Next]_vars => ShownInv'
<1> SUFFICES ASSUME TypeOK, ShownInv, [Next]_vars PROVE ShownInv'
  OBVIOUS
<1>0. EntriesOK /\ center \in Centers
  BY TypeParts
<1>1. ASSUME UNCHANGED <<grants, sharedWith, byHand>> PROVE ShownInv'
  BY <1>1 DEF ShownInv, Shown, SharedLabels, Active, Of
<1>2. ASSUME NEW e \in Entries, NEW L \in SUBSET HandLabels, SetSharedWith(e, L)
      PROVE  ShownInv'
  <2> SUFFICES ASSUME NEW f \in Names
               PROVE  Shown(f)' = {g.label : g \in Active(Of(grants', f))} \cup byHand'[f]
    BY DEF ShownInv
  <2>0. Shown(f)' = {g.label : g \in Active(Of(grants', f))} \cup sharedWith'[f]
    BY DEF Shown, SharedLabels
  <2>1. Shown(f) = {g.label : g \in Active(Of(grants, f))} \cup byHand[f]
    BY DEF ShownInv
  <2>2. Shown(f) = {g.label : g \in Active(Of(grants, f))} \cup sharedWith[f]
    BY ShownParts
  <2>3. grants' = grants
    BY <1>2 DEF SetSharedWith
  <2>4. CASE f = e
    BY <1>0, <1>2, <2>0, <2>4 DEF SetSharedWith, EntriesOK
  <2>5. CASE f # e
    <3>1. sharedWith'[f] = sharedWith[f] /\ byHand'[f] = byHand[f]
      BY <1>0, <1>2, <2>5 DEF SetSharedWith, EntriesOK
    <3> QED
      BY <2>0, <2>1, <2>2, <2>3, <3>1
  <2> QED
    BY <2>4, <2>5
<1>3. CASE Lock
  BY <1>3 DEF Lock, ShownInv, Shown, SharedLabels, Active, Of
<1>4. ASSUME NEW e \in Names, NEW label \in Labels, NEW key \in Keys, NEW saved \in BOOLEAN,
             ClickCreate(e, label, key, saved)
      PROVE  ShownInv'
  BY <1>0, <1>4, ShareShown DEF ClickCreate, CreateGrant
<1>5. ASSUME NEW saved \in BOOLEAN, ClickRevoke(saved)
      PROVE  ShownInv'
  <2>0. center.registry.entry \in Names
    BY <1>0, <1>5 DEF ClickRevoke, RevokeShare, EntriesOK
  <2> QED
    BY <1>0, <1>5, <2>0, RevokeShown DEF ClickRevoke
<1> QED
  BY <1>1, <1>2, <1>3, <1>4, <1>5 DEF Next, entries, window, vars, Trash, Restore, ChangePolicy,
     OpenCenter, Refresh, CloseCenter, SelectRow, TypeMatch, OpenBlob, SaveReceived, Upsert,
     Deactivate

\* However often an entry is shared, revoked, set by hand and shared again, its view lists
\* the recipients of its active grants and the labels set by hand since the last revocation.
THEOREM ShownHaveAccess == Spec => []ShownIsWhoHasAccess
<1>1. Init => ShownInv
  BY DEF Init, ShownInv, Shown, SharedLabels, Active, Of
<1>2. TypeOK /\ ShownInv => ShownIsWhoHasAccess
  BY DEF TypeOK, ShownInv, ShownIsWhoHasAccess
<1> QED
  BY <1>1, <1>2, ShownStep, SharingTypes, PTL DEF Spec

-----------------------------------------------------------------------------
(* The gateway. *)

\* The last of a list that has the inactive ones behind is active only if all are.
LEMMA LastIsActive ==
  ASSUME NEW key, NEW p \in ByFingerprint(key), p.active, NEW q \in directory, q.key = key
  PROVE  q.active
BY DEF ByFingerprint, Before

\* In no reachable state does the gateway deliver what is sealed for the key of somebody
\* who was deactivated, under whatever labels and e-mails the key was entered.
THEOREM Offboarded == Spec => []OffboardedGetsNothing
<1>1. OffboardedGetsNothing
  <2> SUFFICES ASSUME NEW device \in Devices, NEW requireDevice \in BOOLEAN,
                      NEW g \in Delivered(device, requireDevice), NEW q \in directory,
                      q.key = g.key
               PROVE  q.active
    BY DEF OffboardedGetsNothing
  <2>1. PICK p \in ByFingerprint(g.key) : p.active
    BY DEF Delivered, Allowed
  <2> QED
    BY <2>1, LastIsActive
<1> QED
  BY <1>1, PTL

-----------------------------------------------------------------------------
(* The window. *)

\* A form that a row filled has that row's id as its match.
PickedInv == center.registry.picked # 0 => center.registry.match = <<"id", center.registry.picked>>

LEMMA RefreshedRegistry ==
  ASSUME NEW c \in Centers, NEW names, NEW rows
  PROVE  /\ Refreshed(c, names, rows).registry.picked = c.registry.picked
         /\ Refreshed(c, names, rows).registry.match = c.registry.match
         /\ Refreshed(c, names, rows).create.names = names
         /\ Refreshed(c, names, rows).registry.rows = rows
         /\ Refreshed(c, names, rows).open = c.open
BY DEF Refreshed, Centers, Registries, Forms

LEMMA PickedStep == TypeOK /\ PickedInv /\ [Next]_vars => PickedInv'
<1> SUFFICES ASSUME TypeOK, PickedInv, [Next]_vars PROVE PickedInv'
  OBVIOUS
<1>0. center \in Centers
  BY TypeParts
<1>1. ASSUME center'.registry.picked = center.registry.picked,
             center'.registry.match = center.registry.match
      PROVE  PickedInv'
  BY <1>1 DEF PickedInv
<1>2. CASE OpenCenter
  <2> DEFINE c == [Closed EXCEPT !.open = TRUE]
  <2>1. c \in Centers
    BY ClosedType DEF Centers
  <2>2. c.registry.picked = 0
    BY DEF Closed, RegistryForm
  <2>3. center' = Refreshed(c, Listed, GrantRows)
    BY <1>2 DEF OpenCenter
  <2> HIDE DEF c
  <2>4. center'.registry.picked = c.registry.picked
    BY <2>1, <2>3, RefreshedRegistry
  <2> QED
    BY <2>2, <2>4 DEF PickedInv
<1>3. CASE CloseCenter
  BY <1>3 DEF CloseCenter, Closed, RegistryForm, PickedInv
<1>4. ASSUME NEW g \in center.registry.rows, SelectRow(g) PROVE PickedInv'
  BY <1>0, <1>4 DEF SelectRow, PickedInv, Centers, Registries
<1>5. ASSUME NEW e \in Names, NEW match \in Matches, TypeMatch(e, match) PROVE PickedInv'
  BY <1>0, <1>5 DEF TypeMatch, PickedInv, Centers, Registries
<1>6. CASE Refresh
  BY <1>0, <1>1, <1>6, RefreshedRegistry DEF Refresh
<1>7. ASSUME NEW e \in Names, NEW label \in Labels, NEW key \in Keys, NEW saved \in BOOLEAN,
             ClickCreate(e, label, key, saved)
      PROVE  PickedInv'
  <2> DEFINE r == Refreshed(center, Listed', GrantRows')
  <2>1. /\ r.registry.picked = center.registry.picked
        /\ r.registry.match = center.registry.match
    BY <1>0, RefreshedRegistry
  <2>2. /\ [r EXCEPT !.registry.entry = e].registry.picked = r.registry.picked
        /\ [r EXCEPT !.registry.entry = e].registry.match = r.registry.match
    BY <1>0 DEF Refreshed, Centers, Registries
  <2>3. /\ [center EXCEPT !.behind = TRUE].registry = center.registry
    BY <1>0 DEF Centers
  <2> QED
    BY <1>1, <1>7, <2>1, <2>2, <2>3 DEF ClickCreate
<1>8. ASSUME NEW saved \in BOOLEAN, ClickRevoke(saved) PROVE PickedInv'
  <2>1. [center EXCEPT !.behind = TRUE].registry = center.registry
    BY <1>0 DEF Centers
  <2> QED
    BY <1>0, <1>1, <1>8, <2>1, RefreshedRegistry DEF ClickRevoke
<1>9. ASSUME NEW n \in Received, NEW saved \in BOOLEAN, SaveReceived(n, saved) PROVE PickedInv'
  <2>1. [center EXCEPT !.behind = TRUE].registry = center.registry
    BY <1>0 DEF Centers
  <2> QED
    BY <1>0, <1>1, <1>9, <2>1, RefreshedRegistry DEF SaveReceived
<1>10. CASE Lock
  BY <1>0, <1>1, <1>10 DEF Lock, Centers
<1>11. ASSUME NEW blobFor \in Keys, NEW key \in Keys, OpenBlob(blobFor, key) PROVE PickedInv'
  BY <1>0, <1>1, <1>11 DEF OpenBlob, Centers
<1>12. ASSUME UNCHANGED center PROVE PickedInv'
  BY <1>1, <1>12
<1> QED
  BY <1>2, <1>3, <1>4, <1>5, <1>6, <1>7, <1>8, <1>9, <1>10, <1>11, <1>12 DEF Next, entries, window,
     vars, Trash, Restore, SetSharedWith, ChangePolicy, Upsert, Deactivate

\* What a revocation makes inactive it matched.
LEMMA RevokedMatched ==
  ASSUME EntriesOK, NEW e, NEW match, RevokeShare(e, match)
  PROVE  Active(grants) \ Active(grants') \subseteq Matching(e, match)
BY DEF RevokeShare, Active

\* Whatever else the window holds, a form that a row filled revokes that row's grant only.
THEOREM PickedIsRevoked == Spec => PickedRowIsWhatIsRevoked
<1>1. Init => PickedInv
  BY DEF Init, Closed, RegistryForm, PickedInv
<1>2. ASSUME TypeOK, PickedInv, [Next]_vars, unlocked', center.registry.picked # 0,
             NEW g \in Active(grants) \ Active(grants')
      PROVE  g.id = center.registry.picked
  <2>0. EntriesOK
    BY <1>2, TypeParts
  <2>1. ~(grants \subseteq grants')
    BY <1>2 DEF Active
  <2>2. PICK saved \in BOOLEAN : ClickRevoke(saved)
    BY <1>2, <2>1 DEF Next, entries, window, vars, Trash, Restore, SetSharedWith, Lock, ChangePolicy,
       OpenCenter, Refresh, CloseCenter, ClickCreate, CreateGrant, SharePublicKey, SelectRow,
       TypeMatch, OpenBlob, SaveReceived, Upsert, Deactivate
  <2>3. g \in Matching(center.registry.entry, center.registry.match)
    BY <1>2, <2>0, <2>2, RevokedMatched DEF ClickRevoke
  <2>4. <<"id", center.registry.picked>> \in Handle(g)
    BY <1>2, <2>3 DEF Matching, PickedInv
  <2> QED
    BY <2>4 DEF Handle
<1>3. TypeOK /\ PickedInv /\ [Next]_vars =>
        [LET picked == center.registry.picked IN
         unlocked' /\ picked # 0 => \A g \in Active(grants) \ Active(grants') : g.id = picked]_vars
  BY <1>2
<1> QED
  BY <1>1, <1>3, PickedStep, SharingTypes, PTL DEF Spec, PickedRowIsWhatIsRevoked

LEMMA RegistryStep == TypeOK /\ RegistryIsTheSession /\ [Next]_vars => RegistryIsTheSession'
<1> SUFFICES ASSUME TypeOK, RegistryIsTheSession, [Next]_vars PROVE RegistryIsTheSession'
  OBVIOUS
<1>0. center \in Centers /\ center.open \in BOOLEAN
  BY TypeParts DEF Centers
<1>1. ASSUME UNCHANGED entries PROVE Listed' = Listed /\ GrantRows' = GrantRows
  BY <1>1 DEF entries, Listed, GrantRows
\* Nothing that the center lists has changed, nor what it lists.
<1>2. ASSUME UNCHANGED entries, center'.create.names = center.create.names,
             center'.registry.rows = center.registry.rows, center'.open = center.open,
             center'.behind = center.behind
      PROVE  RegistryIsTheSession'
  BY <1>1, <1>2 DEF RegistryIsTheSession
\* The center is filled from the session as it is now.
<1>3. ASSUME NEW c \in Centers, center' = Refreshed(c, Listed', GrantRows')
      PROVE  RegistryIsTheSession'
  BY <1>3, RefreshedRegistry DEF RegistryIsTheSession
\* The center knows that it is behind.
<1>4. ASSUME center' = [center EXCEPT !.behind = TRUE] PROVE RegistryIsTheSession'
  BY <1>0, <1>4 DEF RegistryIsTheSession, Centers
<1>5. ASSUME UNCHANGED center, ~center.open PROVE RegistryIsTheSession'
  BY <1>5 DEF RegistryIsTheSession
<1>6. CASE OpenCenter
  <2>1. [Closed EXCEPT !.open = TRUE] \in Centers
    BY ClosedType DEF Centers
  <2>2. center' = Refreshed([Closed EXCEPT !.open = TRUE], Listed', GrantRows')
    BY <1>1, <1>6 DEF OpenCenter
  <2> QED
    BY <1>3, <2>1, <2>2
<1>7. CASE Refresh
  BY <1>0, <1>1, <1>3, <1>7 DEF Refresh
<1>8. CASE CloseCenter
  BY <1>8 DEF CloseCenter, Closed, RegistryIsTheSession
<1>9. ASSUME NEW e \in Names, NEW label \in Labels, NEW key \in Keys, NEW saved \in BOOLEAN,
             ClickCreate(e, label, key, saved)
      PROVE  RegistryIsTheSession'
  <2>1. CASE saved
    <3> DEFINE r == Refreshed(center, Listed', GrantRows')
    <3>1. center' = [r EXCEPT !.registry.entry = e]
      BY <1>9, <2>1 DEF ClickCreate
    <3>2. r.create.names = Listed' /\ r.registry.rows = GrantRows'
      BY <1>0, RefreshedRegistry
    <3>3. /\ [r EXCEPT !.registry.entry = e].create.names = r.create.names
          /\ [r EXCEPT !.registry.entry = e].registry.rows = r.registry.rows
      BY <1>0 DEF Refreshed, Centers, Registries
    <3> HIDE DEF r
    <3> QED
      BY <3>1, <3>2, <3>3 DEF RegistryIsTheSession
  <2>2. CASE ~saved
    BY <1>4, <1>9, <2>2 DEF ClickCreate
  <2> QED
    BY <2>1, <2>2
<1>10. ASSUME NEW saved \in BOOLEAN, ClickRevoke(saved) PROVE RegistryIsTheSession'
  BY <1>0, <1>3, <1>4, <1>10 DEF ClickRevoke
<1>11. ASSUME NEW n \in Received, NEW saved \in BOOLEAN, SaveReceived(n, saved)
       PROVE  RegistryIsTheSession'
  BY <1>0, <1>3, <1>4, <1>11 DEF SaveReceived
<1>12. CASE Lock
  BY <1>4, <1>12 DEF Lock
<1>13. ASSUME NEW g \in center.registry.rows, SelectRow(g) PROVE RegistryIsTheSession'
  <2>1. /\ center'.create = center.create /\ center'.registry.rows = center.registry.rows
        /\ center'.open = center.open /\ center'.behind = center.behind
    BY <1>0, <1>13 DEF SelectRow, Centers, Registries
  <2> QED
    BY <1>2, <1>13, <2>1 DEF SelectRow
<1>14. ASSUME NEW e \in Names, NEW match \in Matches, TypeMatch(e, match)
       PROVE  RegistryIsTheSession'
  <2>1. /\ center'.create = center.create /\ center'.registry.rows = center.registry.rows
        /\ center'.open = center.open /\ center'.behind = center.behind
    BY <1>0, <1>14 DEF TypeMatch, Centers, Registries
  <2> QED
    BY <1>2, <1>14, <2>1 DEF TypeMatch
<1>15. ASSUME NEW blobFor \in Keys, NEW key \in Keys, OpenBlob(blobFor, key)
       PROVE  RegistryIsTheSession'
  <2>1. /\ center'.create = center.create /\ center'.registry = center.registry
        /\ center'.open = center.open /\ center'.behind = center.behind
    BY <1>0, <1>15 DEF OpenBlob, Centers
  <2> QED
    BY <1>2, <1>15, <2>1 DEF OpenBlob
<1>16. CASE \/ \E e \in Names : Trash(e) \/ Restore(e)
            \/ \E e \in Entries, L \in SUBSET HandLabels : SetSharedWith(e, L)
  BY <1>5, <1>16 DEF Trash, Restore, SetSharedWith
<1>17. CASE \/ \E D \in SUBSET Entries : ChangePolicy(D)
            \/ \E p \in Principals : Upsert(p)
            \/ \E needle \in Labels : Deactivate(needle)
            \/ UNCHANGED vars
  BY <1>2, <1>17 DEF ChangePolicy, Upsert, Deactivate, vars
<1> QED
  BY <1>6, <1>7, <1>8, <1>9, <1>10, <1>11, <1>12, <1>13,
     <1>14, <1>15, <1>16, <1>17 DEF Next

\* Unless a save raised, or the session was locked, since it was filled, the center shows
\* the session's entries and grants (_refresh_all after every change).
THEOREM RegistryShown == Spec => []RegistryIsTheSession
<1>1. Init => RegistryIsTheSession
  BY DEF Init, Closed, RegistryIsTheSession
<1> QED
  BY <1>1, RegistryStep, SharingTypes, PTL DEF Spec
=============================================================================

------------------------------- MODULE Sharing -------------------------------
(***************************************************************************)
(* Sharing an entry with a public key: the grants of an unlocked session,  *)
(* the sharing center that creates and revokes them, the user directory    *)
(* and the gateway that decides which sealed blob a device may fetch.      *)
(*                                                                         *)
(* Names that differ only in case are one value here, as the code compares *)
(* them in lower case.  Key 0 is no key, e-mail 0 is no e-mail.            *)
(***************************************************************************)
EXTENDS Naturals, FiniteSets

CONSTANTS Entries,     \* names of entries of the vault
          Received,    \* names a received secret may be saved under
          Labels,      \* labels of recipients, ordered
          HandLabels,  \* bound: those that are set by hand too, on entries of Entries
          Keys,        \* public keys
          Principals,  \* what the directory's form may hold
          Devices,
          Nobody,      \* the name in an empty combo box
          MaxGrants    \* bound: grants ever created

Names == Entries \cup Received

ASSUME SharingAssumption ==
  /\ Labels \subseteq Nat \ {0} /\ HandLabels \subseteq Labels
  /\ Keys \subseteq Nat \ {0}
  /\ Principals \subseteq [label : Labels, email : Labels \cup {0}, key : Keys \cup {0},
                           devices : SUBSET Devices, active : BOOLEAN]
  /\ Entries \cap Received = {}
  /\ Nobody \notin Names
  /\ MaxGrants \in Nat

VARIABLES
  vault,       \* the names in the vault that is open
  trashed,     \* those in the trash
  grants,      \* the grants of all entries
  created,     \* how many grants there have been
  sharedWith,  \* sharedWith[e]: the labels stored beside e's grants
  byHand,      \* byHand[e]: labels set by hand since e's last revocation
  directory,   \* the principals of the user directory
  unlocked,    \* the session has its key, so its saves succeed
  denied,      \* the entries that the policy engine does not let be shared
  views,       \* the names in the main window's list, as of its last reload
  center       \* what the sharing center's window holds

entries == <<vault, trashed, grants, created, sharedWith, byHand>>
window == <<directory, unlocked, denied, views>>
vars == <<entries, window, center>>

Grant == [id : 1..MaxGrants, entry : Names, label : Labels, key : Keys, active : BOOLEAN]

\* What a grant is matched by: its id, its recipient or its key's fingerprint.
Handle(g) == {<<"id", g.id>>, <<"label", g.label>>, <<"key", g.key>>}
NoMatch == <<"none", 0>>
Matches == ({"id"} \X (1..MaxGrants)) \cup ({"label"} \X Labels) \cup ({"key"} \X Keys)

(***************************************************************************)
(* The window: a form to create a grant, the registry with the form to     *)
(* revoke one, and the receiver's form.  `picked` is the grant whose row   *)
(* filled the form, 0 once something was typed over it.                    *)
(***************************************************************************)
CreateForm == [names |-> {}]
RegistryForm == [rows |-> {}, entry |-> Nobody, match |-> NoMatch, picked |-> 0]
ReceiveForm == [opened |-> FALSE]

\* `behind`: a save that raised, or a lock, since the window was refreshed.
Closed == [open |-> FALSE, behind |-> FALSE, create |-> CreateForm,
           registry |-> RegistryForm, receive |-> ReceiveForm]

Init ==
  /\ vault = Entries
  /\ trashed = {}
  /\ grants = {}
  /\ created = 0
  /\ sharedWith = [e \in Names |-> {}]
  /\ byHand = [e \in Names |-> {}]
  /\ directory = {}
  /\ unlocked = TRUE
  /\ denied \in SUBSET Entries
  /\ views = Entries
  /\ center = Closed

(***************************************************************************)
(* Grants and labels.                                                      *)
(***************************************************************************)
Of(G, e) == {g \in G : g.entry = e}
Active(G) == {g \in G : g.active}

SharedLabels(G, legacy) == {g.label : g \in Active(G)} \cup legacy

\* The labels in the view of an entry.
Shown(e) == SharedLabels(Of(grants, e), sharedWith[e])

Matching(e, match) == {g \in Active(Of(grants, e)) : match \in Handle(g)}

NewGrant(e, label, key) ==
  [id |-> created + 1, entry |-> e, label |-> label, key |-> key, active |-> TRUE]

\* A grant is added.  When the save raises, it is in memory all the same.
SharePublicKey(e, label, key) ==
  /\ e \in vault
  /\ created < MaxGrants
  /\ created' = created + 1
  /\ grants' = grants \cup {NewGrant(e, label, key)}
  /\ sharedWith' = [sharedWith EXCEPT ![e] = SharedLabels(Of(grants', e), @)]
  /\ UNCHANGED <<vault, trashed, byHand>>

\* Slip: the labels stored beside the grants are kept as they were.
RevokeShareKeepsLabels(e, match) ==
  /\ e \in vault /\ Matching(e, match) # {}
  /\ grants' = {IF g \in Matching(e, match) THEN [g EXCEPT !.active = FALSE] ELSE g :
                  g \in grants}
  /\ sharedWith' = [sharedWith EXCEPT ![e] = SharedLabels(Of(grants', e), @)]
  /\ byHand' = [byHand EXCEPT ![e] = {}]
  /\ UNCHANGED <<vault, trashed, created>>

\* It raises when nothing matches.  Labels set by hand are lost with it.
RevokeShare(e, match) ==
  /\ e \in vault /\ Matching(e, match) # {}
  /\ grants' = {IF g \in Matching(e, match) THEN [g EXCEPT !.active = FALSE] ELSE g :
                  g \in grants}
  /\ sharedWith' = [sharedWith EXCEPT ![e] = SharedLabels(Of(grants', e), {})]
  /\ byHand' = [byHand EXCEPT ![e] = {}]
  /\ UNCHANGED <<vault, trashed, created>>

\* Labels set without a grant; leaving a label out revokes nothing.
SetSharedWith(e, L) ==
  /\ unlocked /\ e \in vault /\ ~center.open
  /\ sharedWith' = [sharedWith EXCEPT ![e] = L]
  /\ byHand' = [byHand EXCEPT ![e] = L]
  /\ UNCHANGED <<vault, trashed, grants, created, window, center>>

(***************************************************************************)
(* The rest of the session that grants depend on.                          *)
(***************************************************************************)
Trash(e) ==
  /\ unlocked /\ e \in vault \ trashed /\ ~center.open
  /\ trashed' = trashed \cup {e}
  /\ UNCHANGED <<vault, grants, created, sharedWith, byHand, window, center>>

Restore(e) ==
  /\ unlocked /\ e \in trashed /\ ~center.open
  /\ trashed' = trashed \ {e}
  /\ UNCHANGED <<vault, grants, created, sharedWith, byHand, window, center>>

\* Slip: the grants outlive the entries they are of.
LockKeepsGrants ==
  /\ unlocked
  /\ unlocked' = FALSE
  /\ vault' = {} /\ trashed' = {}
  /\ center' = [center EXCEPT !.behind = TRUE]
  /\ UNCHANGED <<grants, sharedWith, byHand, created, directory, denied, views>>

\* Auto-lock, from the window's timer, also under an open sharing center: the
\* session's vault is replaced by an empty one.
Lock ==
  /\ unlocked
  /\ unlocked' = FALSE
  /\ vault' = {} /\ trashed' = {} /\ grants' = {}
  /\ sharedWith' = [e \in Names |-> {}]
  /\ byHand' = [e \in Names |-> {}]
  /\ center' = [center EXCEPT !.behind = TRUE]
  /\ UNCHANGED <<created, directory, denied, views>>

\* Settings are edited, or the entry is: the policy engine's verdicts change.
ChangePolicy(D) ==
  /\ unlocked /\ ~center.open /\ denied # D
  /\ denied' = D
  /\ UNCHANGED <<entries, directory, unlocked, views, center>>

(***************************************************************************)
(* The sharing center.                                                     *)
(***************************************************************************)
Listed == vault \ trashed
GrantRows == {g \in grants : g.entry \in Listed}

\* A combo box filled anew keeps its text if it can, else shows its first item.
Kept(name, names) ==
  IF name \in names THEN name ELSE IF names = {} THEN Nobody ELSE CHOOSE n \in names : TRUE

\* Slip: only the combo boxes are refreshed, not the registry.
RefreshedNames(c, names, rows) ==
  [c EXCEPT !.create.names = names, !.registry.entry = Kept(@, names), !.behind = FALSE]

\* The combo boxes and the registry, filled from the session.
Refreshed(c, names, rows) ==
  [c EXCEPT !.create.names = names, !.registry.entry = Kept(@, names),
            !.registry.rows = rows, !.behind = FALSE]

OpenCenter ==
  /\ unlocked /\ ~center.open
  /\ center' = Refreshed([Closed EXCEPT !.open = TRUE], Listed, GrantRows)
  /\ UNCHANGED <<entries, window>>

Refresh ==
  /\ center.open
  /\ center' = Refreshed(center, Listed, GrantRows)
  /\ UNCHANGED <<entries, window>>

\* The main window looks the entry up in the list it loaded last.
AuthorizeShare(e) == e \in views /\ e \notin denied

CreateGrant(e, label, key) ==
  /\ e \in Listed
  /\ AuthorizeShare(e)
  /\ SharePublicKey(e, label, key)

\* The button.  A save that raises leaves the window as it was.
ClickCreate(e, label, key, saved) ==
  /\ center.open /\ e \in center.create.names
  /\ saved => unlocked
  /\ CreateGrant(e, label, key)
  /\ center' = IF saved THEN [Refreshed(center, Listed', GrantRows') EXCEPT !.registry.entry = e]
                        ELSE [center EXCEPT !.behind = TRUE]
  /\ UNCHANGED window

\* Slip: the recipient's label stands for the row.
SelectRowByLabel(g) ==
  /\ center.open /\ g \in center.registry.rows
  /\ center' = [center EXCEPT !.registry.entry = g.entry,
                              !.registry.match = <<"label", g.label>>,
                              !.registry.picked = g.id]
  /\ UNCHANGED <<entries, window>>

\* A row of the registry fills the form: its entry and the grant's id.
SelectRow(g) ==
  /\ center.open /\ g \in center.registry.rows
  /\ center' = [center EXCEPT !.registry.entry = g.entry,
                              !.registry.match = <<"id", g.id>>,
                              !.registry.picked = g.id]
  /\ UNCHANGED <<entries, window>>

TypeMatch(e, match) ==
  /\ center.open /\ e \in center.create.names
  /\ center' = [center EXCEPT !.registry.entry = e, !.registry.match = match,
                              !.registry.picked = 0]
  /\ UNCHANGED <<entries, window>>

\* Revoking asks no policy.
ClickRevoke(saved) ==
  /\ center.open /\ center.registry.match # NoMatch
  /\ saved => unlocked
  /\ RevokeShare(center.registry.entry, center.registry.match)
  /\ center' = IF saved THEN Refreshed(center, Listed', GrantRows')
               ELSE [center EXCEPT !.behind = TRUE]
  /\ UNCHANGED window

\* A sealed blob opens with the private key that it was sealed for; a blob
\* that does not open leaves the secret opened before where it was.
OpenSealed(blobFor, key) == blobFor = key
OpenBlob(blobFor, key) ==
  /\ center.open /\ OpenSealed(blobFor, key)
  /\ center' = [center EXCEPT !.receive.opened = TRUE]
  /\ UNCHANGED <<entries, window>>

\* It is added as a new entry; when the save raises, as it does once the session
\* is locked, the entry is in memory all the same.
SaveReceived(n, saved) ==
  /\ center.open /\ center.receive.opened
  /\ n \notin vault /\ (saved => unlocked)
  /\ vault' = vault \cup {n}
  /\ UNCHANGED <<trashed, grants, created, sharedWith, byHand, window>>
  /\ center' = IF saved THEN Refreshed(center, Listed', GrantRows')
                        ELSE [center EXCEPT !.behind = TRUE]

\* The main window reloads when the center closes.
CloseCenter ==
  /\ center.open
  /\ center' = Closed
  /\ views' = vault
  /\ UNCHANGED <<entries, directory, unlocked, denied>>

\* `aegisvault share`, run while the window is not open: it asks no policy.
CliShare(e, label, key) ==
  /\ unlocked /\ ~center.open
  /\ SharePublicKey(e, label, key)
  /\ UNCHANGED <<window, center>>

(***************************************************************************)
(* The directory and the gateway.                                          *)
(***************************************************************************)
PrincipalKey(p) == IF p.email # 0 THEN p.email ELSE p.label

\* A principal replaces the one of its e-mail, or else of its label.
Upsert(p) ==
  /\ unlocked /\ ~center.open
  /\ directory' = {q \in directory : PrincipalKey(q) # PrincipalKey(p)} \cup {p}
  /\ UNCHANGED <<entries, unlocked, denied, views, center>>

\* Everyone with that label or e-mail is made inactive.
Deactivate(needle) ==
  /\ unlocked /\ ~center.open
  /\ \E p \in directory : p.active /\ needle \in {p.label, p.email}
  /\ directory' = {IF needle \in {p.label, p.email} THEN [p EXCEPT !.active = FALSE]
                   ELSE p : p \in directory}
  /\ UNCHANGED <<entries, unlocked, denied, views, center>>

\* Slip: the directory is listed by label alone.
BeforeByLabel(p, q) == p.label < q.label \/ (p.label = q.label /\ p.email < q.email)

\* The order of the directory's list.
Before(p, q) ==
  \/ p.active /\ ~q.active
  \/ p.active = q.active /\ p.label < q.label
  \/ p.active = q.active /\ p.label = q.label /\ p.email < q.email

\* Of the principals with one key, the last of the list is the one asked.
ByFingerprint(key) ==
  {p \in directory : p.key = key /\ \A q \in directory : q.key = key => q = p \/ Before(q, p)}

\* A principal without devices may use any of them.
Allowed(g, device, requireDevice) ==
  /\ g.active
  /\ \E p \in ByFingerprint(g.key) :
       p.active /\ (requireDevice /\ p.devices # {} => device \in p.devices)

\* The grants whose blobs a device gets.
Delivered(device, requireDevice) == {g \in GrantRows : Allowed(g, device, requireDevice)}

(***************************************************************************)
(* The specification.                                                      *)
(***************************************************************************)
Next ==
  \/ \E e \in Names : Trash(e) \/ Restore(e)
  \/ \E e \in Entries, L \in SUBSET HandLabels : SetSharedWith(e, L)
  \/ Lock
  \/ \E D \in SUBSET Entries : ChangePolicy(D)
  \/ OpenCenter \/ Refresh \/ CloseCenter
  \/ \E e \in Names, label \in Labels, key \in Keys, saved \in BOOLEAN :
       ClickCreate(e, label, key, saved)
  \/ \E g \in center.registry.rows : SelectRow(g)
  \/ \E e \in Names, match \in Matches : TypeMatch(e, match)
  \/ \E saved \in BOOLEAN : ClickRevoke(saved)
  \/ \E blobFor, key \in Keys : OpenBlob(blobFor, key)
  \/ \E n \in Received, saved \in BOOLEAN : SaveReceived(n, saved)
  \/ \E p \in Principals : Upsert(p)
  \/ \E needle \in Labels : Deactivate(needle)

Spec == Init /\ [][Next]_vars

\* With the command line.
CliNext ==
  \/ Next
  \/ \E e \in Names, label \in Labels, key \in Keys : CliShare(e, label, key)

CliSpec == Init /\ [][CliNext]_vars

(***************************************************************************)
(* Properties.                                                             *)
(***************************************************************************)
\* Every variable has its type; what is in the trash is in the vault, and a grant is of
\* an entry of the vault and has an id that was given out (sharing.py:23-104).
TypeOK ==
  /\ vault \subseteq Names /\ trashed \subseteq vault
  /\ grants \subseteq Grant
  /\ created \in 0..MaxGrants
  /\ \A g \in grants : g.id <= created /\ g.entry \in vault
  /\ sharedWith \in [Names -> SUBSET Labels]
  /\ byHand \in [Names -> SUBSET Labels]
  /\ directory \subseteq Principals \cup {[p EXCEPT !.active = FALSE] : p \in Principals}
  /\ unlocked \in BOOLEAN
  /\ denied \subseteq Entries
  /\ views \subseteq Names
  /\ center \in [open : BOOLEAN, behind : BOOLEAN, create : [names : SUBSET Names],
                  registry : [rows : SUBSET Grant, entry : Names \cup {Nobody},
                              match : Matches \cup {NoMatch}, picked : 0..MaxGrants],
                  receive : [opened : BOOLEAN]]

\* The view of an entry names the recipients of its active grants, and besides
\* them only labels set by hand since the last revocation: no revoked recipient
\* stays listed as having access, and no recipient with access goes unlisted
\* (shared_labels, which is applied to its own earlier answers).
ShownIsWhoHasAccess ==
  \A e \in vault :
    Shown(e) = {g.label : g \in Active(Of(grants, e))} \cup byHand[e]

\* Once anyone who holds a key is deactivated in the directory, the gateway
\* delivers nothing sealed for that key to any device, also when the key was
\* entered under several labels or e-mails (_principals_by_fingerprint).
OffboardedGetsNothing ==
  \A device \in Devices, requireDevice \in BOOLEAN :
    \A g \in Delivered(device, requireDevice), p \in directory :
      p.key = g.key => p.active

\* A revocation from a form that a row of the registry filled revokes the grant
\* of that row and no other one, whoever else has a grant under the same label
\* or for the same key (_registry_selected, revoke_matching_grants).
PickedRowIsWhatIsRevoked ==
  [][LET picked == center.registry.picked IN
     unlocked' /\ picked # 0 => \A g \in Active(grants) \ Active(grants') : g.id = picked]_vars

\* The center's lists are those of the session, unless a save raised or the
\* session was locked since they were filled (_refresh_all).
RegistryIsTheSession ==
  center.open /\ ~center.behind =>
    center.create.names = Listed /\ center.registry.rows = GrantRows

\* What policy.py:45 says: "Evaluate local and enterprise security policy for desktop and
\* CLI actions."  No grant is created, from the window or from the command line, for an
\* entry that the policy engine does not let be shared.
GrantsFollowPolicy ==
  [][\A g \in grants' : g.id > created => g.entry \notin denied]_vars
=============================================================================

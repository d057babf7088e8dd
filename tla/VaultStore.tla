----------------------------- MODULE VaultStore -----------------------------
(***************************************************************************)
(* VaultService and VaultSession over one stored artifact.                 *)
(*                                                                         *)
(* A client is a process of the same user: a CLI command, which loads the  *)
(* artifact, works on it and saves it, or a session (the desktop window or *)
(* the agent), which opens it once and from then on seals its own copy     *)
(* over whatever is stored.  Nothing locks the file, so the load and the   *)
(* save of a command are two steps and other clients run in between.  A    *)
(* save is one step here; module FileRepository is about what it is made   *)
(* of.                                                                     *)
(***************************************************************************)
EXTENDS Envelope, FiniteSets

CONSTANTS Clients,
          ShareParams,   \* pairs <<n, k>> users ask recovery-enroll for
          SaveMayFail,   \* whether repo.save may raise in a session
          Syncing,       \* whether sync bundles are exported
          MaxBlocks,     \* bound on the length of a ledger
          MaxLocked,     \* bound on the blocks a locked session collects
          MaxKeys        \* bound on the keys drawn

ASSUME NamesAssumption == IsFiniteSet(Names)
ASSUME StoreAssumption ==
  /\ ShareParams \subseteq Int \X Int
  /\ SaveMayFail \in BOOLEAN
  /\ Syncing \in BOOLEAN
  /\ MaxBlocks \in Nat
  /\ MaxLocked \in Nat
  /\ MaxKeys \in Nat

VARIABLES
  disk,       \* the stored artifact, or NoVault
  client,     \* client[c]: the mode c is in
  mem,        \* mem[c]: what c holds in memory
  bundle,     \* the last sync bundle exported (at most one, in a set)
  drawn,      \* keys drawn so far
  handed,     \* recovery records whose shares users hold
  current,    \* history: password of the last init, rotate or recover, if it returned
  promised    \* history: recovery key of the last enrolment, if it returned

vars == <<disk, client, mem, bundle, drawn, handed, current, promised>>
history == <<current, promised>>

Mode == {"idle", "init", "command", "recovering", "splitting",
         "session", "exporting", "session-splitting"}

Bundle == [artifact : Artifact, head : Seq(Block), live : SUBSET Names]

\* A process that holds nothing; VaultSession.lock leaves _recovery as it was.
Blank == [password |-> NoPassword, dek |-> NoKey, recovery |-> NoRecovery,
          entries |-> NoEntries, ledger |-> <<>>]
\* Slip: lock() forgets the password and keeps the data key.
LockedWithKey(m) == [Blank EXCEPT !.recovery = m.recovery, !.dek = m.dek]
Locked(m) == [Blank EXCEPT !.recovery = m.recovery]

\* Every variable has its type (proved, for any clients).
TypeOK ==
  /\ disk \in Maybe(Artifact, NoVault)
  /\ client \in [Clients -> Mode]
  /\ mem \in [Clients -> Opened]
  /\ bundle \subseteq Bundle
  /\ drawn \in Nat
  /\ handed \subseteq Recovery
  /\ current \in Maybe(Passwords, NoPassword)
  /\ promised \in Nat

Init ==
  /\ disk = NoVault
  /\ client = [c \in Clients |-> "idle"]
  /\ mem = [c \in Clients |-> Blank]
  /\ bundle = {}
  /\ drawn = 0
  /\ handed = {}
  /\ current = NoPassword
  /\ promised = NoKey

(***************************************************************************)
(* Changes to an opened vault, shared by the commands and the sessions.    *)
(***************************************************************************)
Room(m) == Len(m.ledger) < IF CanSeal(m) THEN MaxBlocks ELSE MaxLocked

\* AuditLedger.append
Log(m, block) == [m EXCEPT !.ledger = Append(@, block)]

\* Slip: an entry taken out is not recorded.
PutUnlogged(m, n, status, action) ==
  LET changed == [m EXCEPT !.entries = [@ EXCEPT ![n] = status]] IN
  IF status = "absent" THEN changed ELSE Log(changed, About(action, n))

Put(m, n, status, action) ==
  Log([m EXCEPT !.entries = [@ EXCEPT ![n] = status]], About(action, n))

ImportNew(m, records) ==
  LET new == {n \in records : m.entries[n] = "absent"} IN
  Log([m EXCEPT !.entries = [n \in Names |-> IF n \in new THEN "live" ELSE @[n]]],
      Imported(Cardinality(new)))

\* Slip: the enrolment is not recorded.
EnrolUnlogged(m, key, n, k) ==
  [m EXCEPT !.recovery = [key |-> key, dek |-> m.dek, n |-> n, k |-> k]]

Enrol(m, key, n, k) ==
  Log([m EXCEPT !.recovery = [key |-> key, dek |-> m.dek, n |-> n, k |-> k]],
      Whole("recovery-enroll"))

\* Slip: the recovery block is not passed on to _seal.
RekeyDropsRecovery(m, password, action) ==
  Log([m EXCEPT !.password = password, !.recovery = NoRecovery], Whole(action))

\* Slip: the vault is sealed again under the password it was opened with.
RekeyKeepsPassword(m, password, action) ==
  Log([m EXCEPT !.password = IF @ = NoPassword THEN password ELSE @], Whole(action))

Rekey(m, password, action) == Log([m EXCEPT !.password = password], Whole(action))

Become(c, mode, m) ==
  /\ client' = [client EXCEPT ![c] = mode]
  /\ mem' = [mem EXCEPT ![c] = m]

(***************************************************************************)
(* Commands.                                                               *)
(***************************************************************************)
InitCheck(c, password) ==
  /\ client[c] = "idle"
  /\ disk = NoVault
  /\ Become(c, "init", [Blank EXCEPT !.password = password])
  /\ UNCHANGED <<disk, bundle, drawn, handed, history>>

InitSave(c) ==
  /\ client[c] = "init"
  /\ drawn < MaxKeys
  /\ drawn' = drawn + 1
  /\ disk' = Seal(Log([mem[c] EXCEPT !.dek = drawn'], Whole("init")))
  /\ Become(c, "idle", Blank)
  /\ current' = mem[c].password
  /\ promised' = NoKey
  /\ UNCHANGED <<bundle, handed>>

\* _require and _open: a wrong password raises AuthenticationError.
CommandOpen(c, password) ==
  /\ client[c] = "idle"
  /\ disk # NoVault
  /\ OpensWith(disk, password)
  /\ Become(c, "command", Open(disk, password, UnwrapDek(disk.header, password)))
  /\ UNCHANGED <<disk, bundle, drawn, handed, history>>

\* The save that ends a command.
Finish(c, m) ==
  /\ CanSeal(m)
  /\ disk' = Seal(m)
  /\ Become(c, "idle", Blank)
  /\ UNCHANGED <<bundle, handed>>

CommandAdd(c, n) ==
  /\ client[c] = "command"
  /\ Room(mem[c])
  /\ mem[c].entries[n] = "absent"
  /\ Finish(c, Put(mem[c], n, "live", "add"))
  /\ UNCHANGED <<drawn, history>>

CommandRemove(c, n) ==
  /\ client[c] = "command"
  /\ Room(mem[c])
  /\ mem[c].entries[n] # "absent"
  /\ Finish(c, Put(mem[c], n, "absent", "remove"))
  /\ UNCHANGED <<drawn, history>>

\* share_secret, revoke_share and mark_rotated
CommandEdit(c, n, kind) ==
  /\ client[c] = "command"
  /\ kind \in {"share", "revoke-share", "rotate-secret"}
  /\ Room(mem[c])
  /\ mem[c].entries[n] # "absent"
  /\ Finish(c, Put(mem[c], n, mem[c].entries[n], kind))
  /\ UNCHANGED <<drawn, history>>

CommandImport(c, records) ==
  /\ client[c] = "command"
  /\ Room(mem[c])
  /\ Finish(c, ImportNew(mem[c], records))
  /\ UNCHANGED <<drawn, history>>

CommandRotate(c, password) ==
  /\ client[c] = "command"
  /\ Room(mem[c])
  /\ Finish(c, Rekey(mem[c], password, "rotate"))
  /\ current' = password
  /\ UNCHANGED <<drawn, promised>>

\* enroll_recovery saves the new recovery block before it splits the key.
CommandEnrol(c, n, k) ==
  /\ client[c] = "command"
  /\ Room(mem[c])
  /\ drawn < MaxKeys
  /\ drawn' = drawn + 1
  /\ LET m == Enrol(mem[c], drawn', n, k) IN
       /\ CanSeal(m)
       /\ disk' = Seal(m)
       /\ Become(c, "splitting", m)
  /\ promised' = NoKey
  /\ UNCHANGED <<bundle, handed, current>>

Export(artifact, m) ==
  /\ Syncing
  /\ bundle' = {[artifact |-> artifact, head |-> m.ledger, live |-> Live(m.entries)]}

\* export_sync_bundle loads once: the manifest and the artifact agree.
CommandExport(c, password) ==
  /\ client[c] = "idle"
  /\ disk # NoVault
  /\ OpensWith(disk, password)
  /\ Export(disk, Open(disk, password, UnwrapDek(disk.header, password)))
  /\ UNCHANGED <<disk, client, mem, drawn, handed, history>>

\* import_sync_bundle asks for no password and looks at no manifest field.
CommandImportBundle(c) ==
  /\ client[c] = "idle"
  /\ \E b \in bundle : disk' = b.artifact
  /\ current' = NoPassword
  /\ promised' = NoKey
  /\ UNCHANGED <<client, mem, bundle, drawn, handed>>

\* recover() up to the save: the shares stand in for the password.
RecoverOpen(c, shares, presented) ==
  /\ client[c] = "idle"
  /\ disk # NoVault
  /\ disk.header.recovery # NoRecovery
  /\ LET key == CombineShares(shares, presented) IN
       /\ RecoversWith(disk, key)
       /\ Become(c, "recovering", Open(disk, NoPassword, UnwrapRecovery(disk.header, key)))
  /\ UNCHANGED <<disk, bundle, drawn, handed, history>>

RecoverSave(c, password) ==
  /\ client[c] = "recovering"
  /\ Len(mem[c].ledger) < MaxBlocks
  /\ Finish(c, Rekey(mem[c], password, "recover"))
  /\ current' = password
  /\ UNCHANGED <<drawn, promised>>

(***************************************************************************)
(* Sessions.  Every change is made in memory first and then persisted; a   *)
(* save that raises leaves the change in memory.  A locked session is one  *)
(* whose memory cannot be sealed.                                          *)
(***************************************************************************)
Unlock(c, password) ==
  /\ client[c] = "idle"
  /\ disk # NoVault
  /\ OpensWith(disk, password)
  /\ Become(c, "session", Open(disk, password, UnwrapDek(disk.header, password)))
  /\ UNCHANGED <<disk, bundle, drawn, handed, history>>

\* _persist: no reload, no comparison with what is stored.
Persisted(c, mode, m) ==
  /\ CanSeal(m)
  /\ disk' = Seal(m)
  /\ Become(c, mode, m)

PersistRaised(c, m) ==
  /\ SaveMayFail \/ ~CanSeal(m)
  /\ disk' = disk
  /\ Become(c, "session", m)

Change(c, m) ==
  /\ Persisted(c, "session", m) \/ PersistRaised(c, m)
  /\ UNCHANGED <<bundle, drawn, handed, history>>

InSession(c) == client[c] = "session" /\ Room(mem[c])

SessionAdd(c, n) ==
  /\ InSession(c)
  /\ mem[c].entries[n] = "absent"
  /\ Change(c, Put(mem[c], n, "live", "add"))

SessionTrash(c, n) ==
  /\ InSession(c)
  /\ mem[c].entries[n] # "absent"
  /\ Change(c, Put(mem[c], n, "trashed", "trash"))

SessionRestore(c, n) ==
  /\ InSession(c)
  /\ mem[c].entries[n] # "absent"
  /\ Change(c, Put(mem[c], n, "live", "restore"))

SessionPurge(c, n) ==
  /\ InSession(c)
  /\ mem[c].entries[n] # "absent"
  /\ Change(c, Put(mem[c], n, "absent", "purge"))

\* favourite, metadata, mark_rotated, set_shared_with, share, revoke
SessionEdit(c, n, kind) ==
  /\ InSession(c)
  /\ mem[c].entries[n] # "absent"
  /\ Change(c, Put(mem[c], n, mem[c].entries[n], kind))

SessionRotate(c, password) ==
  LET m == Rekey(mem[c], password, "rotate") IN
  /\ InSession(c)
  /\ \/ Persisted(c, "session", m) /\ current' = password
     \/ PersistRaised(c, m) /\ current' = NoPassword
  /\ UNCHANGED <<bundle, drawn, handed, promised>>

SessionEnrol(c, n, k) ==
  LET m == Enrol(mem[c], drawn + 1, n, k) IN
  /\ InSession(c)
  /\ drawn < MaxKeys
  /\ drawn' = drawn + 1
  /\ promised' = NoKey
  /\ Persisted(c, "session-splitting", m) \/ PersistRaised(c, m)
  /\ UNCHANGED <<bundle, handed, current>>

\* split_secret, which the users' shares come from or which raises
Deliver(c) ==
  LET r == mem[c].recovery IN
  /\ client[c] \in {"splitting", "session-splitting"}
  /\ \/ /\ Splittable(r.n, r.k)
        /\ handed' = handed \cup {r}
        /\ promised' = r.key
     \/ /\ ~Splittable(r.n, r.k)
        /\ UNCHANGED <<handed, promised>>
  /\ IF client[c] = "splitting" THEN Become(c, "idle", Blank)
                                ELSE Become(c, "session", mem[c])
  /\ UNCHANGED <<disk, bundle, drawn, current>>

\* export_sync_bundle persists, and only then loads what is stored.
SessionExport(c) ==
  /\ Syncing
  /\ client[c] = "session"
  /\ Persisted(c, "exporting", mem[c])
  /\ UNCHANGED <<bundle, drawn, handed, history>>

SessionExportLoad(c) ==
  /\ client[c] = "exporting"
  /\ disk # NoVault
  /\ Export(disk, mem[c])
  /\ Become(c, "session", mem[c])
  /\ UNCHANGED <<disk, drawn, handed, history>>

SessionImportBundle(c) ==
  /\ client[c] = "session"
  /\ \E b \in bundle : disk' = b.artifact
  /\ Become(c, "session", Locked(mem[c]))
  /\ current' = NoPassword
  /\ promised' = NoKey
  /\ UNCHANGED <<bundle, drawn, handed>>

SessionLock(c) ==
  /\ client[c] = "session"
  /\ Become(c, "session", Locked(mem[c]))
  /\ UNCHANGED <<disk, bundle, drawn, handed, history>>

(***************************************************************************)
(* A process ends: it returns, raises, is closed or is killed.             *)
(***************************************************************************)
Quit(c) ==
  /\ client[c] # "idle"
  /\ Become(c, "idle", Blank)
  /\ UNCHANGED <<disk, bundle, drawn, handed, history>>

Command(c) ==
  \/ InitSave(c)
  \/ CommandImportBundle(c)
  \/ \E p \in Passwords : \/ InitCheck(c, p)
                          \/ CommandOpen(c, p)
                          \/ CommandRotate(c, p)
                          \/ CommandExport(c, p)
                          \/ RecoverSave(c, p)
  \/ \E n \in Names : \/ CommandAdd(c, n)
                      \/ CommandRemove(c, n)
                      \/ \E kind \in EditKinds : CommandEdit(c, n, kind)
  \/ \E records \in SUBSET Names : CommandImport(c, records)
  \/ \E nk \in ShareParams : CommandEnrol(c, nk[1], nk[2])
  \/ \E s \in handed : \E presented \in 1..s.n : RecoverOpen(c, s, presented)

Session(c) ==
  \/ SessionExport(c)
  \/ SessionExportLoad(c)
  \/ SessionImportBundle(c)
  \/ SessionLock(c)
  \/ \E p \in Passwords : Unlock(c, p) \/ SessionRotate(c, p)
  \/ \E n \in Names : \/ SessionAdd(c, n)
                      \/ SessionTrash(c, n)
                      \/ SessionRestore(c, n)
                      \/ SessionPurge(c, n)
                      \/ \E kind \in EditKinds : SessionEdit(c, n, kind)
  \/ \E nk \in ShareParams : SessionEnrol(c, nk[1], nk[2])

Next == \E c \in Clients : Command(c) \/ Session(c) \/ Deliver(c) \/ Quit(c)

Spec == Init /\ [][Next]_vars
-----------------------------------------------------------------------------
(***************************************************************************)
(* What holds whatever the clients do.                                     *)
(***************************************************************************)

\* Every artifact a save leaves behind opens with some master password, and
\* with its recovery key when it has one: _seal derives the wrap, the header
\* and the body's authenticated data from one set of values.
EveryArtifactOpens ==
  disk # NoVault =>
    /\ \E p \in Passwords : OpensWith(disk, p)
    /\ disk.header.recovery # NoRecovery => RecoversWith(disk, disk.header.recovery.key)

\* The entries stored are those the stored ledger accounts for: an entry is
\* there only if a block that brings it in is not followed by one that takes
\* it out, and is absent otherwise.  An import block brings in entries it
\* does not name.
Explains(ledger, live) ==
  \A n \in Names :
    /\ n \in live => \E i \in 1..Len(ledger) :
                      MayBring(ledger[i], n) /\ NotTakenSince(ledger, i, n)
    /\ \A i \in 1..Len(ledger) :
         Brings(ledger[i], n) /\ NotTakenSince(ledger, i, n) => n \in live

LedgerExplainsEntries ==
  disk # NoVault => Explains(disk.ledger, Live(disk.entries))

(***************************************************************************)
(* What holds while one client at a time uses the vault.                   *)
(***************************************************************************)

\* The one password that opens the vault is that of the last init, rotate or
\* recover; one that raised leaves open which it is.
PasswordIsAcknowledged ==
  disk # NoVault /\ current # NoPassword =>
    \A p \in Passwords : OpensWith(disk, p) <=> p = current

\* The shares of the last enrolment, unless it raised, recover the vault,
\* whatever was rotated, recovered, added or removed since and whichever saves
\* raised.
SharesRecover ==
  promised # NoKey => disk # NoVault /\ RecoversWith(disk, promised)

\* A recovery block is stored only with its shares in somebody's hands, but for
\* the moment in which they are being split.
EnrolmentHasShares ==
  disk # NoVault /\ disk.header.recovery # NoRecovery =>
    \/ disk.header.recovery \in handed
    \/ \E c \in Clients : /\ client[c] \in {"splitting", "session-splitting"}
                          /\ mem[c].recovery = disk.header.recovery

\* An entry whose last block is "trash" is still stored, to be restored.
TrashIsKept ==
  disk # NoVault =>
    \A n \in Names : \A i \in 1..Len(disk.ledger) :
      /\ disk.ledger[i] = About("trash", n)
      /\ \A j \in i + 1..Len(disk.ledger) : disk.ledger[j].name # n
      => disk.entries[n] = "trashed"

\* Changing the password leaves the sealed body as it is.
Body(a) == <<a.sealedBy, a.aad, a.entries, a.ledger>>
RotationLeavesBody ==
  [][\A c \in Clients, p \in Passwords :
       CommandRotate(c, p) => Body(disk') = Body(disk)]_vars

\* A step never drops a block of the stored ledger, except by importing a
\* bundle, which replaces the vault.
IsPrefixOf(s, t) == Len(s) <= Len(t) /\ s = SubSeq(t, 1, Len(s))
Importing(c) == CommandImportBundle(c) \/ SessionImportBundle(c)
KeepsLedger ==
  disk # NoVault => disk' # NoVault /\ IsPrefixOf(disk.ledger, disk'.ledger)
LedgerOnlyGrows == [][(\E c \in Clients : Importing(c)) \/ KeepsLedger]_vars

(***************************************************************************)
(* One client implements the vault its users are promised.                 *)
(***************************************************************************)
Durable(a) == [live     |-> Live(a.entries),
               ledger   |-> a.ledger,
               password |-> a.header.kek,
               recovery |-> a.header.recovery.key]

Promise == INSTANCE VaultPromise
  WITH vault    <- IF disk = NoVault THEN NoVault ELSE Durable(disk),
       exported <- {Durable(b.artifact) : b \in bundle}

ASSUME PromiseAssumption == NoVault \notin Promise!Content

\* Whatever the commands and the session of one client do, and whichever saves
\* raise, the stored vault changes by whole histories: the ledger is extended
\* and the entries, the password and the recovery key change only as the new
\* blocks say.
PromiseKept == Promise!Spec
=============================================================================

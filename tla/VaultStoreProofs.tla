-------------------------- MODULE VaultStoreProofs --------------------------
(***************************************************************************)
(* What VaultStore's clients, however many and however interleaved, cannot *)
(* break: the types, that every artifact stored opens, and that its ledger *)
(* explains its entries.                                                   *)
(*                                                                         *)
(* None of the three is inductive.  A save stores what a client has in     *)
(* memory, so the same has to hold of every client's memory, however stale *)
(* (Sound), and of the bundles, which an import stores (WellSealed).  init *)
(* draws the DEK only when it saves: until then its memory has to be that  *)
(* of a new vault (Fresh).                                                 *)
(*                                                                         *)
(* The second half is about a vault that one client at a time uses.        *)
(***************************************************************************)
EXTENDS VaultStore, FiniteSetTheorems, SequenceTheorems, TLAPS

\* What is held in memory: its recovery block wraps its DEK, unless the DEK is
\* forgotten, and its ledger explains its entries.
Sound(m) ==
  /\ m.dek # NoKey /\ m.recovery # NoRecovery => m.recovery.dek = m.dek
  /\ Explains(m.ledger, Live(m.entries))

\* What is stored: the header wraps the key of the body, once or twice, and is
\* what the body authenticates.
WellSealed(a) ==
  /\ a.sealedBy = a.header.dek
  /\ a.aad = a.header
  /\ a.header.recovery # NoRecovery => a.header.recovery.dek = a.header.dek
  /\ Explains(a.ledger, Live(a.entries))

\* What init_vault seals, but for the DEK.
Fresh(m) == \E p \in Passwords : m = [Blank EXCEPT !.password = p]

ClientsSound ==
  /\ client \in [Clients -> Mode]
  /\ mem \in [Clients -> Opened]
  /\ \A c \in Clients : client[c] = "init" => Fresh(mem[c])
  /\ \A c \in Clients : Sound(mem[c])

DiskSound == disk = NoVault \/ (disk \in Artifact /\ WellSealed(disk))

BundlesSound ==
  /\ bundle \subseteq Bundle
  /\ \A b \in bundle : WellSealed(b.artifact)

KeysTyped ==
  /\ drawn \in Nat
  /\ handed \subseteq Recovery
  /\ current \in Maybe(Passwords, NoPassword)
  /\ promised \in Nat

IndInv == ClientsSound /\ DiskSound /\ BundlesSound /\ KeysTyped
-----------------------------------------------------------------------------
(***************************************************************************)
(* Values.                                                                 *)
(***************************************************************************)

\* The records standing for "nothing": none is a value it stands beside.
LEMMA NothingFacts ==
  /\ NoRecovery \notin Recovery
  /\ Maybe(Recovery, NoRecovery) \subseteq [key : Nat, dek : Nat, n : Int, k : Int]
BY DEF NoRecovery, Recovery, Maybe, NoKey, Key

\* The ledger of a new vault is empty and explains that it has no entries.
LEMMA BlankSound == Blank \in Opened /\ Sound(Blank)
<1>1. Blank \in Opened
  BY DEF Blank, Opened, Maybe, NoKey, NoEntries, Entries, Status
<1>2. Explains(<<>>, Live(NoEntries))
  BY DEF Explains, Live, NoEntries, NotTakenSince
<1>3. QED  BY <1>1, <1>2 DEF Sound, Blank, NoKey

\* init's memory is typed and sound.
LEMMA FreshSound ==
  ASSUME NEW m, Fresh(m)
  PROVE  m \in Opened /\ Sound(m)
<1>1. PICK p \in Passwords : m = [Blank EXCEPT !.password = p]
  BY DEF Fresh
<1>2. m \in Opened
  BY <1>1, BlankSound DEF Opened, Maybe
<1>3. m.dek = Blank.dek /\ m.recovery = Blank.recovery
      /\ m.ledger = Blank.ledger /\ m.entries = Blank.entries
  BY <1>1 DEF Blank
<1>4. QED  BY <1>2, <1>3, BlankSound DEF Sound

\* A locked session has nothing left that a save could store.
LEMMA LockedSound ==
  ASSUME NEW m \in Opened
  PROVE  Locked(m) \in Opened /\ Sound(Locked(m))
<1>1. Locked(m) \in Opened
  BY BlankSound DEF Locked, Opened
<1>2. Locked(m).dek = NoKey /\ Locked(m).ledger = Blank.ledger
      /\ Locked(m).entries = Blank.entries
  BY DEF Locked, Blank
<1>3. QED  BY <1>1, <1>2, BlankSound DEF Sound

(***************************************************************************)
(* Sealing and opening.                                                    *)
(***************************************************************************)

\* serialize() drops trashed entries only: the live ones stay live.
LEMMA SerializeLive ==
  ASSUME NEW e \in Entries
  PROVE  Serialize(e) \in Entries /\ Live(Serialize(e)) = Live(e)
BY DEF Serialize, Entries, Status, Live

\* What _seal makes of sound memory is well sealed.
LEMMA SealWell ==
  ASSUME NEW m \in Opened, CanSeal(m), Sound(m)
  PROVE  Seal(m) \in Artifact /\ WellSealed(Seal(m))
<1>1. m.password \in Passwords /\ m.dek \in Key
  BY DEF CanSeal, Opened, Maybe, Key
<1>2. HeaderOf(m) \in Header
  BY <1>1 DEF HeaderOf, Header, Opened
<1>3. Serialize(m.entries) \in Entries /\ Live(Serialize(m.entries)) = Live(m.entries)
  BY SerializeLive DEF Opened
<1>4. Seal(m) \in Artifact
  BY <1>1, <1>2, <1>3 DEF Seal, Artifact, Opened
<1>5. WellSealed(Seal(m))
  BY <1>1, <1>3 DEF Seal, WellSealed, HeaderOf, Sound, Key
<1>6. QED  BY <1>4, <1>5

\* What _open or recover() makes of a well-sealed artifact is sound.
LEMMA OpenSound ==
  ASSUME NEW a \in Artifact, WellSealed(a),
         NEW p \in Maybe(Passwords, NoPassword), NEW dek \in Nat, Authentic(a, dek)
  PROVE  Open(a, p, dek) \in Opened /\ Sound(Open(a, p, dek))
<1>1. Open(a, p, dek) \in Opened
  BY DEF Open, Opened, Artifact, Header
<1>2. dek = a.header.dek
  BY DEF Authentic, WellSealed
<1>3. QED  BY <1>1, <1>2 DEF Open, Sound, WellSealed

\* The password that wraps a well-sealed artifact opens it, and so does its
\* recovery key.
LEMMA WellSealedOpens ==
  ASSUME NEW a \in Artifact, WellSealed(a)
  PROVE  /\ \E p \in Passwords : OpensWith(a, p)
         /\ a.header.recovery # NoRecovery => RecoversWith(a, a.header.recovery.key)
<1>1. a.header.kek \in Passwords /\ a.header.dek \in Key
      /\ a.header.recovery \in Maybe(Recovery, NoRecovery)
  BY DEF Artifact, Header
<1>2. OpensWith(a, a.header.kek)
  BY <1>1 DEF OpensWith, Authentic, UnwrapDek, WellSealed, Key
<1>3. ASSUME a.header.recovery # NoRecovery
      PROVE  RecoversWith(a, a.header.recovery.key)
  <2>1. a.header.recovery.key # NoKey
    BY <1>1, <1>3 DEF Maybe, Recovery, Key
  <2>2. QED
    BY <1>1, <1>3, <2>1 DEF RecoversWith, Authentic, UnwrapRecovery, WellSealed, Key
<1>4. QED  BY <1>1, <1>2, <1>3

\* The keys unwrapped are numbers.
LEMMA UnwrapTypes ==
  ASSUME NEW a \in Artifact, NEW p, NEW key
  PROVE  UnwrapDek(a.header, p) \in Nat /\ UnwrapRecovery(a.header, key) \in Nat
<1>1. a.header.dek \in Nat /\ a.header.recovery.dek \in Nat
  BY NothingFacts DEF Artifact, Header, Key
<1>2. QED  BY <1>1 DEF UnwrapDek, UnwrapRecovery, NoKey
-----------------------------------------------------------------------------
(***************************************************************************)
(* Changes to the opened vault.                                            *)
(***************************************************************************)

\* Name by name, the block takes the entry out, brings it in, or says nothing of
\* an entry that stays as it was.
Follows(b, live, live2) ==
  \A n \in Names :
    \/ Takes(b, n) /\ ~MayBring(b, n) /\ n \notin live2
    \/ ~Takes(b, n) /\ MayBring(b, n) /\ n \in live2
    \/ ~Takes(b, n) /\ ~Brings(b, n) /\ (n \in live2 <=> n \in live)

\* Appending such a block to a ledger that explains its entries explains the new ones.
LEMMA ExplainsAppend ==
  ASSUME NEW L \in Seq(Block), NEW b \in Block, NEW live, NEW live2,
         Explains(L, live), Follows(b, live, live2)
  PROVE  Explains(Append(L, b), live2)
<1> DEFINE A == Append(L, b)
           last == Len(L) + 1
<1>1. Len(L) \in Nat /\ Len(A) = last /\ A[last] = b /\ \A i \in 1..Len(L) : A[i] = L[i]
  OBVIOUS
<1>2. SUFFICES ASSUME NEW n \in Names
               PROVE  /\ n \in live2 => \E i \in 1..last :
                                          MayBring(A[i], n) /\ NotTakenSince(A, i, n)
                      /\ \A i \in 1..last :
                           Brings(A[i], n) /\ NotTakenSince(A, i, n) => n \in live2
  BY <1>1 DEF Explains
<1> HIDE DEF A
<1>3. \A i \in 1..Len(L) :
        NotTakenSince(A, i, n) <=> NotTakenSince(L, i, n) /\ ~Takes(b, n)
  BY <1>1 DEF NotTakenSince
<1>4. NotTakenSince(A, last, n) <=> ~Takes(b, n)
  BY <1>1 DEF NotTakenSince
<1>5. /\ n \in live => \E i \in 1..Len(L) :
                         MayBring(L[i], n) /\ NotTakenSince(L, i, n)
      /\ \A i \in 1..Len(L) :
           Brings(L[i], n) /\ NotTakenSince(L, i, n) => n \in live
  BY DEF Explains
<1>6. CASE Takes(b, n) /\ ~MayBring(b, n) /\ n \notin live2
  BY <1>1, <1>3, <1>4, <1>6 
<1>7. CASE ~Takes(b, n) /\ MayBring(b, n) /\ n \in live2
  BY <1>1, <1>4, <1>7
<1>8. CASE ~Takes(b, n) /\ ~Brings(b, n) /\ (n \in live2 <=> n \in live)
  <2>1. ASSUME n \in live2
        PROVE  \E i \in 1..last : MayBring(A[i], n) /\ NotTakenSince(A, i, n)
    <3>1. PICK i \in 1..Len(L) : MayBring(L[i], n) /\ NotTakenSince(L, i, n)
      BY <2>1, <1>5, <1>8
    <3>2. i \in 1..last /\ MayBring(A[i], n) /\ NotTakenSince(A, i, n)
      BY <3>1, <1>1, <1>3, <1>8
    <3>3. QED  BY <3>2
  <2>2. ASSUME NEW i \in 1..last, Brings(A[i], n), NotTakenSince(A, i, n)
        PROVE  n \in live2
    <3>1. i # last
      BY <2>2, <1>1, <1>8
    <3>2. i \in 1..Len(L)
      BY <3>1, <1>1
    <3>3. QED  BY <3>2, <2>2, <1>1, <1>3, <1>5, <1>8
  <2>3. QED  BY <2>1, <2>2
<1>9. QED  BY <1>6, <1>7, <1>8 DEF Follows

\* The memory after a change of the entries that is recorded in a block.
Changed(m, e, b) == [m EXCEPT !.entries = e, !.ledger = Append(m.ledger, b)]

LEMMA ChangedSound ==
  ASSUME NEW m \in Opened, Sound(m), NEW e \in Entries, NEW b \in Block,
         Explains(Append(m.ledger, b), Live(e))
  PROVE  Changed(m, e, b) \in Opened /\ Sound(Changed(m, e, b))
<1>1. Append(m.ledger, b) \in Seq(Block)
  BY DEF Opened
<1>2. QED  BY <1>1 DEF Changed, Opened, Sound

\* A block that neither brings nor takes an entry leaves the entries explained.
LEMMA LogSound ==
  ASSUME NEW m \in Opened, NEW b \in Block
  PROVE  /\ Log(m, b) \in Opened
         /\ Sound(m) /\ (\A n \in Names : ~Takes(b, n) /\ ~Brings(b, n)) => Sound(Log(m, b))
<1>1. Log(m, b) \in Opened /\ Log(m, b) = [m EXCEPT !.ledger = Append(m.ledger, b)]
  BY DEF Log, Opened
<1>2. ASSUME Sound(m), \A n \in Names : ~Takes(b, n) /\ ~Brings(b, n)
      PROVE  Explains(Append(m.ledger, b), Live(m.entries))
  BY <1>2, ExplainsAppend DEF Opened, Sound, Follows
<1>3. QED  BY <1>1, <1>2 DEF Sound, Opened

\* add, remove, trash, restore, purge and the edits record what they do.
LEMMA PutFollows ==
  ASSUME NEW m \in Opened, NEW n \in Names, NEW status \in Status,
         NEW action \in NamingActions,
         \/ status = "live" /\ action \in {"add", "restore"}
         \/ status # "live" /\ action \in {"trash", "remove", "purge"}
         \/ status = m.entries[n] /\ action \in EditKinds
  PROVE  \E e \in Entries, b \in Block :
           /\ Follows(b, Live(m.entries), Live(e))
           /\ Put(m, n, status, action) = Changed(m, e, b)
<1> DEFINE e == [m.entries EXCEPT ![n] = status]
           b == About(action, n)
<1>1. b \in Block /\ e \in Entries
  BY DEF About, Block, Maybe, Entries, Opened
<1>2. Put(m, n, status, action) = Changed(m, e, b)
  BY DEF Changed, Put, Log, Opened
<1>4. Live(e) = IF status = "live" THEN Live(m.entries) \cup {n} ELSE Live(m.entries) \ {n}
  BY DEF Live, Opened, Entries
<1>5. \A k \in Names : k # n =>
        ~Takes(b, k) /\ ~Brings(b, k) /\ (k \in Live(e) <=> k \in Live(m.entries))
  BY <1>4 DEF Takes, Brings, About
<1>6. \/ Takes(b, n) /\ ~MayBring(b, n) /\ n \notin Live(e)
      \/ ~Takes(b, n) /\ MayBring(b, n) /\ n \in Live(e)
      \/ ~Takes(b, n) /\ ~Brings(b, n) /\ (n \in Live(e) <=> n \in Live(m.entries))
  <2>1. CASE status = "live" /\ action \in {"add", "restore"}
    BY <2>1, <1>4 DEF Takes, Brings, MayBring, About
  <2>2. CASE status # "live" /\ action \in {"trash", "remove", "purge"}
    BY <2>2, <1>4 DEF Takes, Brings, MayBring, About
  <2>3. CASE status = m.entries[n] /\ action \in EditKinds
    BY <2>3, <1>4, EditKindsAssumption DEF Takes, Brings, About, Live, Opened
  <2>4. QED  BY <2>1, <2>2, <2>3
<1> HIDE DEF e, b
<1>7. Follows(b, Live(m.entries), Live(e))
  BY <1>5, <1>6 DEF Follows
<1>8. QED  BY <1>1, <1>2, <1>7

LEMMA PutSound ==
  ASSUME NEW m \in Opened, Sound(m), NEW n \in Names, NEW status \in Status,
         NEW action \in NamingActions,
         \/ status = "live" /\ action \in {"add", "restore"}
         \/ status # "live" /\ action \in {"trash", "remove", "purge"}
         \/ status = m.entries[n] /\ action \in EditKinds
  PROVE  Put(m, n, status, action) \in Opened /\ Sound(Put(m, n, status, action))
<1>1. PICK e \in Entries, b \in Block :
        /\ Follows(b, Live(m.entries), Live(e))
        /\ Put(m, n, status, action) = Changed(m, e, b)
  BY PutFollows
<1>2. Explains(Append(m.ledger, b), Live(e))
  BY <1>1, ExplainsAppend DEF Opened, Sound
<1>3. QED  BY <1>1, <1>2, ChangedSound

\* The block of an import counts the entries that were new.
LEMMA ImportFollows ==
  ASSUME NEW m \in Opened, NEW records \in SUBSET Names
  PROVE  \E e \in Entries, b \in Block :
           /\ Follows(b, Live(m.entries), Live(e))
           /\ ImportNew(m, records) = Changed(m, e, b)
<1> DEFINE new == {n \in records : m.entries[n] = "absent"}
           e == [n \in Names |-> IF n \in new THEN "live" ELSE m.entries[n]]
           b == Imported(Cardinality(new))
<1>1. new \subseteq Names /\ IsFiniteSet(new)
  BY NamesAssumption, FS_Subset
<1>2. Cardinality(new) \in Nat /\ (Cardinality(new) = 0 <=> new = {})
  BY <1>1, FS_CardinalityType, FS_EmptySet
<1>3. b \in Block /\ e \in Entries
  BY <1>2 DEF Imported, Block, VaultActions, Maybe, Entries, Status, Opened
<1>4. ImportNew(m, records) = Changed(m, e, b)
  BY DEF Changed, ImportNew, Log, Opened
<1>6. \A n \in Names : n \in Live(e) <=> n \in new \/ n \in Live(m.entries)
  BY DEF Live, Opened, Entries
<1>7. \A n \in Names : ~Takes(b, n) /\ ~Brings(b, n)
  BY DEF Takes, Brings, Imported
<1>8. \A n \in Names : n \in new => MayBring(b, n)
  BY <1>2 DEF MayBring, Imported
<1> HIDE DEF new, e, b
<1>9. Follows(b, Live(m.entries), Live(e))
  BY <1>6, <1>7, <1>8 DEF Follows
<1>10. QED  BY <1>3, <1>4, <1>9

LEMMA ImportSound ==
  ASSUME NEW m \in Opened, Sound(m), NEW records \in SUBSET Names
  PROVE  ImportNew(m, records) \in Opened /\ Sound(ImportNew(m, records))
<1>1. PICK e \in Entries, b \in Block :
        /\ Follows(b, Live(m.entries), Live(e))
        /\ ImportNew(m, records) = Changed(m, e, b)
  BY ImportFollows
<1>2. Explains(Append(m.ledger, b), Live(e))
  BY <1>1, ExplainsAppend DEF Opened, Sound
<1>3. QED  BY <1>1, <1>2, ChangedSound

\* A password or a recovery block is changed without touching the entries.
LEMMA RekeySound ==
  ASSUME NEW m \in Opened, Sound(m), NEW p \in Passwords,
         NEW action \in {"rotate", "recover"}
  PROVE  Rekey(m, p, action) \in Opened /\ Sound(Rekey(m, p, action))
<1> DEFINE k == [m EXCEPT !.password = p]
<1>1. k \in Opened /\ Sound(k)
  BY DEF Opened, Maybe, Sound
<1>2. Whole(action) \in Block
  BY DEF Whole, Block, VaultActions, Maybe
<1>3. \A n \in Names : ~Takes(Whole(action), n) /\ ~Brings(Whole(action), n)
  BY DEF Whole, Takes, Brings
<1>4. Rekey(m, p, action) = Log(k, Whole(action))
  BY DEF Rekey
<1> HIDE DEF k
<1>5. QED  BY <1>1, <1>2, <1>3, <1>4, LogSound

LEMMA EnrolSound ==
  ASSUME NEW m \in Opened, Sound(m), NEW key \in Key, NEW i \in Int, NEW j \in Int
  PROVE  Enrol(m, key, i, j) \in Opened /\ Sound(Enrol(m, key, i, j))
<1> DEFINE r == [key |-> key, dek |-> m.dek, n |-> i, k |-> j]
           k == [m EXCEPT !.recovery = r]
<1>1. r \in Recovery
  BY DEF Recovery, Opened
<1>2. k \in Opened /\ Sound(k)
  BY <1>1 DEF Opened, Maybe, Sound
<1>3. Whole("recovery-enroll") \in Block
  BY DEF Whole, Block, VaultActions, Maybe
<1>4. \A n \in Names : /\ ~Takes(Whole("recovery-enroll"), n)
                       /\ ~Brings(Whole("recovery-enroll"), n)
  BY DEF Whole, Takes, Brings
<1>5. Enrol(m, key, i, j) = Log(k, Whole("recovery-enroll"))
  BY DEF Enrol
<1> HIDE DEF k
<1>6. QED  BY <1>2, <1>3, <1>4, <1>5, LogSound
-----------------------------------------------------------------------------
(***************************************************************************)
(* Steps.                                                                  *)
(***************************************************************************)

\* A client that goes on with sound memory keeps the clients sound.
LEMMA BecomeKeeps ==
  ASSUME ClientsSound, NEW c \in Clients, NEW mode \in Mode, NEW m \in Opened,
         Sound(m), mode = "init" => Fresh(m), Become(c, mode, m)
  PROVE  ClientsSound'
<1>1. /\ client' = [client EXCEPT ![c] = mode]
      /\ mem' = [mem EXCEPT ![c] = m]
  BY DEF Become
<1>2. client' \in [Clients -> Mode] /\ mem' \in [Clients -> Opened]
  BY <1>1 DEF ClientsSound
<1>3. ASSUME NEW d \in Clients
      PROVE  (client'[d] = "init" => Fresh(mem'[d])) /\ Sound(mem'[d])
  BY <1>1 DEF ClientsSound
<1>4. QED  BY <1>2, <1>3 DEF ClientsSound

\* A client that forgets everything keeps the clients sound.
LEMMA BlankKeeps ==
  ASSUME ClientsSound, NEW c \in Clients, Become(c, "idle", Blank)
  PROVE  ClientsSound'
BY BlankSound, BecomeKeeps DEF Mode

\* The save that ends a command, of sound memory.
LEMMA FinishKeeps ==
  ASSUME ClientsSound, BundlesSound, NEW c \in Clients, NEW m \in Opened, Sound(m),
         Finish(c, m)
  PROVE  ClientsSound' /\ DiskSound' /\ BundlesSound' /\ handed' = handed
<1>1. ClientsSound'
  BY BlankKeeps DEF Finish
<1>2. DiskSound'
  BY SealWell DEF Finish, DiskSound
<1>3. BundlesSound' /\ handed' = handed
  BY DEF Finish, BundlesSound
<1>4. QED  BY <1>1, <1>2, <1>3

\* _persist, of sound memory.
LEMMA PersistedKeeps ==
  ASSUME ClientsSound, NEW c \in Clients, NEW mode \in Mode \ {"init"},
         NEW m \in Opened, Sound(m), Persisted(c, mode, m)
  PROVE  ClientsSound' /\ DiskSound'
<1>1. ClientsSound'
  BY BecomeKeeps DEF Persisted
<1>2. DiskSound'
  BY SealWell DEF Persisted, DiskSound
<1>3. QED  BY <1>1, <1>2

\* A save that raised, of sound memory.
LEMMA RaisedKeeps ==
  ASSUME ClientsSound, DiskSound, NEW c \in Clients, NEW m \in Opened, Sound(m),
         PersistRaised(c, m)
  PROVE  ClientsSound' /\ DiskSound'
<1>1. ClientsSound'
  BY BecomeKeeps DEF PersistRaised, Mode
<1>2. DiskSound'
  BY DEF PersistRaised, DiskSound
<1>3. QED  BY <1>1, <1>2

\* A session's change to sound memory.
LEMMA ChangeKeeps ==
  ASSUME IndInv, NEW c \in Clients, NEW m \in Opened, Sound(m), Change(c, m)
  PROVE  IndInv'
<1>1. ClientsSound' /\ DiskSound'
  BY PersistedKeeps, RaisedKeeps DEF Change, IndInv, Mode
<1>2. BundlesSound' /\ KeysTyped'
  BY DEF Change, IndInv, BundlesSound, KeysTyped, history
<1>3. QED  BY <1>1, <1>2 DEF IndInv

\* What _open returns of what is stored.
LEMMA OpenedSound ==
  ASSUME DiskSound, disk # NoVault, NEW p \in Passwords, OpensWith(disk, p)
  PROVE  LET m == Open(disk, p, UnwrapDek(disk.header, p)) IN
         m \in Opened /\ Sound(m)
<1>1. disk \in Artifact /\ WellSealed(disk)
  BY DEF DiskSound
<1>2. UnwrapDek(disk.header, p) \in Nat
  BY <1>1, UnwrapTypes
<1>3. QED  BY <1>1, <1>2, OpenSound DEF OpensWith, Maybe

\* What recover() makes of it.
LEMMA RecoveredSound ==
  ASSUME DiskSound, disk # NoVault, NEW key, RecoversWith(disk, key)
  PROVE  LET m == Open(disk, NoPassword, UnwrapRecovery(disk.header, key)) IN
         m \in Opened /\ Sound(m)
<1>1. disk \in Artifact /\ WellSealed(disk)
  BY DEF DiskSound
<1>2. UnwrapRecovery(disk.header, key) \in Nat
  BY <1>1, UnwrapTypes
<1>3. QED  BY <1>1, <1>2, OpenSound DEF RecoversWith, Maybe

\* The artifact of a bundle is what was stored when it was exported.
LEMMA ExportKeeps ==
  ASSUME DiskSound, disk # NoVault, NEW m \in Opened, Export(disk, m)
  PROVE  BundlesSound'
<1>1. disk \in Artifact /\ WellSealed(disk)
  BY DEF DiskSound
<1>2. m.ledger \in Seq(Block) /\ Live(m.entries) \in SUBSET Names
  BY DEF Opened, Live
<1>3. QED  BY <1>1, <1>2 DEF Export, BundlesSound, Bundle
-----------------------------------------------------------------------------
\* Opening, and changing and saving in commands.
LEMMA CommandKeeps ==
  ASSUME IndInv, NEW c \in Clients, Command(c)
  PROVE  IndInv'
<1> USE DEF IndInv
<1>1. mem[c] \in Opened /\ Sound(mem[c]) /\ client[c] \in Mode
  BY DEF ClientsSound
<1>2. ASSUME NEW p \in Passwords, InitCheck(c, p)  PROVE IndInv'
  <2>1. Fresh([Blank EXCEPT !.password = p])
    BY DEF Fresh
  <2>2. ClientsSound'
    BY <1>2, <2>1, FreshSound, BecomeKeeps DEF InitCheck, Mode
  <2>3. QED
    BY <1>2, <2>2 DEF InitCheck, DiskSound, BundlesSound, KeysTyped, history
<1>3. CASE InitSave(c)
  <2> DEFINE opened == [mem[c] EXCEPT !.dek = drawn + 1]
             m == Log(opened, Whole("init"))
  <2>1. PICK p \in Passwords : mem[c] = [Blank EXCEPT !.password = p]
    BY <1>3 DEF InitSave, ClientsSound, Fresh
  <2>2. drawn + 1 \in Key /\ mem[c].recovery = NoRecovery /\ mem[c].password = p
    BY <2>1 DEF Blank, KeysTyped, Key, NoKey
  <2>3. opened \in Opened /\ Sound(opened) /\ opened.dek # NoKey /\ opened.password = p
    BY <1>1, <2>2 DEF Opened, Sound, Key
  <2>4. /\ Whole("init") \in Block
        /\ \A n \in Names : ~Takes(Whole("init"), n) /\ ~Brings(Whole("init"), n)
    BY DEF Whole, Block, VaultActions, Maybe, Takes, Brings
  <2>5. m.dek = opened.dek /\ m.password = opened.password
    BY <2>3 DEF Log, Opened
  <2> HIDE DEF opened
  <2>6. m \in Opened /\ Sound(m)
    BY <2>3, <2>4, LogSound
  <2>7. CanSeal(m)
    BY <2>3, <2>5, SentinelAssumption DEF CanSeal
  <2>8. disk' = Seal(m)
    BY <1>3 DEF InitSave, opened
  <2>9. DiskSound'
    BY <2>6, <2>7, <2>8, SealWell DEF DiskSound
  <2>10. ClientsSound'
    BY <1>3, BlankKeeps DEF InitSave
  <2>11. BundlesSound' /\ KeysTyped'
    BY <1>3, <2>2 DEF InitSave, BundlesSound, KeysTyped, Maybe, NoKey, Key
  <2>12. QED  BY <2>9, <2>10, <2>11
<1>4. ASSUME NEW p \in Passwords, CommandOpen(c, p)  PROVE IndInv'
  <2>1. ClientsSound'
    BY <1>4, OpenedSound, BecomeKeeps DEF CommandOpen, Mode
  <2>2. QED
    BY <1>4, <2>1 DEF CommandOpen, DiskSound, BundlesSound, KeysTyped, history
<1>5. ASSUME NEW n \in Names, CommandAdd(c, n)  PROVE IndInv'
  <2>1. LET m == Put(mem[c], n, "live", "add") IN m \in Opened /\ Sound(m)
    BY <1>1, PutSound DEF Status, NamingActions
  <2>2. QED  BY <1>5, <2>1, FinishKeeps DEF CommandAdd, KeysTyped, history
<1>6. ASSUME NEW n \in Names, CommandRemove(c, n)  PROVE IndInv'
  <2>1. LET m == Put(mem[c], n, "absent", "remove") IN m \in Opened /\ Sound(m)
    BY <1>1, PutSound DEF Status, NamingActions
  <2>2. QED  BY <1>6, <2>1, FinishKeeps DEF CommandRemove, KeysTyped, history
<1>7. ASSUME NEW n \in Names, NEW kind \in EditKinds, CommandEdit(c, n, kind)  PROVE IndInv'
  <2>1. mem[c].entries[n] \in Status
    BY <1>1 DEF Opened, Entries
  <2>2. LET m == Put(mem[c], n, mem[c].entries[n], kind) IN m \in Opened /\ Sound(m)
    BY <1>1, <2>1, PutSound DEF NamingActions
  <2>3. QED  BY <1>7, <2>2, FinishKeeps DEF CommandEdit, KeysTyped, history
<1>8. ASSUME NEW records \in SUBSET Names, CommandImport(c, records)  PROVE IndInv'
  BY <1>1, <1>8, ImportSound, FinishKeeps DEF CommandImport, KeysTyped, history
<1>9. ASSUME NEW p \in Passwords, CommandRotate(c, p) \/ RecoverSave(c, p)  PROVE IndInv'
  <2>1. PICK action \in {"rotate", "recover"} : Finish(c, Rekey(mem[c], p, action))
    BY <1>9 DEF CommandRotate, RecoverSave
  <2>2. ClientsSound' /\ DiskSound' /\ BundlesSound' /\ handed' = handed
    BY <1>1, <2>1, RekeySound, FinishKeeps
  <2>3. QED  BY <1>9, <2>2 DEF CommandRotate, RecoverSave, KeysTyped, Maybe
<1>10. ASSUME NEW nk \in ShareParams, CommandEnrol(c, nk[1], nk[2])  PROVE IndInv'
  <2> DEFINE m == Enrol(mem[c], drawn + 1, nk[1], nk[2])
  <2>1. drawn + 1 \in Key /\ nk[1] \in Int /\ nk[2] \in Int
    BY StoreAssumption DEF KeysTyped, Key, NoKey
  <2>2. m \in Opened /\ Sound(m)
    BY <1>1, <2>1, EnrolSound
  <2>3. CanSeal(m) /\ disk' = Seal(m) /\ Become(c, "splitting", m)
    BY <1>10 DEF CommandEnrol
  <2> HIDE DEF m
  <2>4. ClientsSound' /\ DiskSound'
    BY <2>2, <2>3, SealWell, BecomeKeeps DEF DiskSound, Mode
  <2>5. BundlesSound' /\ KeysTyped'
    BY <1>10, <2>1 DEF CommandEnrol, BundlesSound, KeysTyped, NoKey, Key
  <2>6. QED  BY <2>4, <2>5
<1>11. ASSUME NEW p \in Passwords, CommandExport(c, p)  PROVE IndInv'
  <2>1. BundlesSound'
    BY <1>11, OpenedSound, ExportKeeps DEF CommandExport
  <2>2. QED  BY <1>11, <2>1 DEF CommandExport, ClientsSound, DiskSound, KeysTyped, history
<1>12. CASE CommandImportBundle(c)
  BY <1>12 DEF CommandImportBundle, ClientsSound, DiskSound, BundlesSound, Bundle,
               KeysTyped, Maybe, NoKey
<1>13. ASSUME NEW s \in handed, NEW presented, RecoverOpen(c, s, presented)  PROVE IndInv'
  <2>1. ClientsSound'
    BY <1>13, RecoveredSound, BecomeKeeps DEF RecoverOpen, Mode
  <2>2. QED
    BY <1>13, <2>1 DEF RecoverOpen, DiskSound, BundlesSound, KeysTyped, history
<1>14. QED
  BY <1>2, <1>3, <1>4, <1>5, <1>6, <1>7, <1>8, <1>9, <1>10, <1>11, <1>12, <1>13
  DEF Command

\* Sessions, whose saves may raise.
LEMMA SessionKeeps ==
  ASSUME IndInv, NEW c \in Clients, Session(c)
  PROVE  IndInv'
<1> USE DEF IndInv
<1>1. mem[c] \in Opened /\ Sound(mem[c]) /\ client[c] \in Mode
  BY DEF ClientsSound
<1>2. ASSUME NEW p \in Passwords, Unlock(c, p)  PROVE IndInv'
  <2>1. ClientsSound'
    BY <1>2, OpenedSound, BecomeKeeps DEF Unlock, Mode
  <2>2. QED  BY <1>2, <2>1 DEF Unlock, DiskSound, BundlesSound, KeysTyped, history
<1>3. ASSUME NEW n \in Names, SessionAdd(c, n)  PROVE IndInv'
  <2>1. LET m == Put(mem[c], n, "live", "add") IN m \in Opened /\ Sound(m)
    BY <1>1, PutSound DEF Status, NamingActions
  <2>2. QED  BY <1>3, <2>1, ChangeKeeps DEF SessionAdd
<1>4. ASSUME NEW n \in Names, SessionTrash(c, n)  PROVE IndInv'
  <2>1. LET m == Put(mem[c], n, "trashed", "trash") IN m \in Opened /\ Sound(m)
    BY <1>1, PutSound DEF Status, NamingActions
  <2>2. QED  BY <1>4, <2>1, ChangeKeeps DEF SessionTrash
<1>5. ASSUME NEW n \in Names, SessionRestore(c, n)  PROVE IndInv'
  <2>1. LET m == Put(mem[c], n, "live", "restore") IN m \in Opened /\ Sound(m)
    BY <1>1, PutSound DEF Status, NamingActions
  <2>2. QED  BY <1>5, <2>1, ChangeKeeps DEF SessionRestore
<1>6. ASSUME NEW n \in Names, SessionPurge(c, n)  PROVE IndInv'
  <2>1. LET m == Put(mem[c], n, "absent", "purge") IN m \in Opened /\ Sound(m)
    BY <1>1, PutSound DEF Status, NamingActions
  <2>2. QED  BY <1>6, <2>1, ChangeKeeps DEF SessionPurge
<1>7. ASSUME NEW n \in Names, NEW kind \in EditKinds, SessionEdit(c, n, kind)  PROVE IndInv'
  <2>1. mem[c].entries[n] \in Status
    BY <1>1 DEF Opened, Entries
  <2>2. LET m == Put(mem[c], n, mem[c].entries[n], kind) IN m \in Opened /\ Sound(m)
    BY <1>1, <2>1, PutSound DEF NamingActions
  <2>3. QED  BY <1>7, <2>2, ChangeKeeps DEF SessionEdit
<1>8. ASSUME NEW p \in Passwords, SessionRotate(c, p)  PROVE IndInv'
  <2>1. LET m == Rekey(mem[c], p, "rotate") IN m \in Opened /\ Sound(m)
    BY <1>1, RekeySound
  <2>2. ClientsSound' /\ DiskSound'
    BY <1>8, <2>1, PersistedKeeps, RaisedKeeps DEF SessionRotate, Mode
  <2>3. QED  BY <1>8, <2>2 DEF SessionRotate, BundlesSound, KeysTyped, Maybe
<1>9. ASSUME NEW nk \in ShareParams, SessionEnrol(c, nk[1], nk[2])  PROVE IndInv'
  <2>1. drawn + 1 \in Key /\ nk[1] \in Int /\ nk[2] \in Int
    BY StoreAssumption DEF KeysTyped, Key, NoKey
  <2>2. LET m == Enrol(mem[c], drawn + 1, nk[1], nk[2]) IN m \in Opened /\ Sound(m)
    BY <1>1, <2>1, EnrolSound
  <2>3. ClientsSound' /\ DiskSound'
    BY <1>9, <2>2, PersistedKeeps, RaisedKeeps DEF SessionEnrol, Mode
  <2>4. QED  BY <1>9, <2>1, <2>3 DEF SessionEnrol, BundlesSound, KeysTyped, NoKey, Key
<1>10. CASE SessionExport(c)
  <2>1. ClientsSound' /\ DiskSound'
    BY <1>1, <1>10, PersistedKeeps DEF SessionExport, Mode
  <2>2. QED  BY <1>10, <2>1 DEF SessionExport, BundlesSound, KeysTyped, history
<1>11. CASE SessionExportLoad(c)
  <2>1. ClientsSound' /\ BundlesSound'
    BY <1>1, <1>11, BecomeKeeps, ExportKeeps DEF SessionExportLoad, Mode
  <2>2. QED  BY <1>11, <2>1 DEF SessionExportLoad, DiskSound, KeysTyped, history
<1>12. CASE SessionImportBundle(c)
  <2>1. ClientsSound'
    BY <1>1, <1>12, LockedSound, BecomeKeeps DEF SessionImportBundle, Mode
  <2>2. QED
    BY <1>12, <2>1 DEF SessionImportBundle, DiskSound, BundlesSound, Bundle, KeysTyped,
                       Maybe, NoKey
<1>13. CASE SessionLock(c)
  <2>1. ClientsSound'
    BY <1>1, <1>13, LockedSound, BecomeKeeps DEF SessionLock, Mode
  <2>2. QED  BY <1>13, <2>1 DEF SessionLock, DiskSound, BundlesSound, KeysTyped, history
<1>14. QED
  BY <1>2, <1>3, <1>4, <1>5, <1>6, <1>7, <1>8, <1>9, <1>10, <1>11, <1>12, <1>13
  DEF Session

\* The shares of an enrolment are split off after it was saved.
LEMMA DeliverKeeps ==
  ASSUME IndInv, NEW c \in Clients, Deliver(c)
  PROVE  IndInv'
<1>1. mem[c] \in Opened /\ Sound(mem[c])
  BY DEF IndInv, ClientsSound
<1>2. ClientsSound'
  BY <1>1, BlankKeeps, BecomeKeeps DEF Deliver, IndInv, Mode
<1>3. ASSUME Splittable(mem[c].recovery.n, mem[c].recovery.k)
      PROVE  mem[c].recovery \in Recovery
  BY <1>1, <1>3 DEF Opened, Maybe, Splittable, NoRecovery
<1>4. KeysTyped'
  BY <1>1, <1>3 DEF Deliver, IndInv, KeysTyped, Recovery, Key
<1>5. QED  BY <1>2, <1>4 DEF Deliver, IndInv, DiskSound, BundlesSound

\* The invariant is inductive.
LEMMA InitHolds == Init => IndInv
BY BlankSound DEF Init, IndInv, ClientsSound, DiskSound, BundlesSound, KeysTyped,
                  Mode, Maybe, NoKey

LEMMA StepKeeps == IndInv /\ [Next]_vars => IndInv'
<1> SUFFICES ASSUME IndInv, [Next]_vars
             PROVE  IndInv'
  OBVIOUS
<1>1. ASSUME NEW c \in Clients, Quit(c)  PROVE IndInv'
  <2>1. ClientsSound'
    BY <1>1, BlankKeeps DEF Quit, IndInv
  <2>2. QED  BY <1>1, <2>1 DEF Quit, IndInv, DiskSound, BundlesSound, KeysTyped, history
<1>2. CASE UNCHANGED vars
  BY <1>2 DEF vars, IndInv, ClientsSound, DiskSound, BundlesSound, KeysTyped
<1>3. QED  BY <1>1, <1>2, CommandKeeps, SessionKeeps, DeliverKeeps DEF Next

LEMMA IndInvAlways == Spec => []IndInv
BY InitHolds, StepKeeps, PTL DEF Spec
-----------------------------------------------------------------------------
\* Any number of clients, whose loads, saves and sessions interleave in any way
\* and whose saves may raise, leave every variable within its type.
THEOREM TypesHold == Spec => []TypeOK
<1>1. IndInv => TypeOK
  BY DEF IndInv, TypeOK, ClientsSound, DiskSound, BundlesSound, KeysTyped, Maybe
<1>2. QED  BY <1>1, IndInvAlways, PTL

\* Whatever the clients do, what is stored opens with some master password, and
\* with its recovery key when it carries one: no interleaving makes _seal mix
\* the header of one save with the body of another.
THEOREM ArtifactsOpen == Spec => []EveryArtifactOpens
<1>1. IndInv => EveryArtifactOpens
  BY WellSealedOpens DEF IndInv, DiskSound, EveryArtifactOpens
<1>2. QED  BY <1>1, IndInvAlways, PTL

\* Whatever the clients do, and even when one save overwrites another, the
\* ledger stored accounts for the entries stored beside it.
THEOREM LedgerExplains == Spec => []LedgerExplainsEntries
<1>1. IndInv => LedgerExplainsEntries
  BY DEF IndInv, DiskSound, WellSealed, LedgerExplainsEntries
<1>2. QED  BY <1>1, IndInvAlways, PTL
-----------------------------------------------------------------------------
(***************************************************************************)
(* One client at a time, however often its session's save raises.  (With   *)
(* two clients none of what follows holds, nor is it promised.)            *)
(*                                                                         *)
(* OneInv adds to IndInv that the client knows what is stored: its ledger  *)
(* begins with the stored one, the blocks that are not stored yet say what *)
(* it has changed since, and of the password and the recovery key it holds *)
(* what its user was told, unless its user was told nothing.               *)
(***************************************************************************)
\* What the blocks of a ledger after the first `start` say: of their actions, and of
\* entry n, which was live before or not.
Noted(ledger, start, actions) == \E i \in start + 1..Len(ledger) : ledger[i].action \in actions

Accounts(ledger, start, n, before, after) ==
  /\ before /\ NotTakenSince(ledger, start + 1, n) => after
  /\ \A i \in start + 1..Len(ledger) :
       Brings(ledger[i], n) /\ NotTakenSince(ledger, i, n) => after
  /\ after => \/ before /\ NotTakenSince(ledger, start + 1, n)
              \/ \E i \in start + 1..Len(ledger) :
                   MayBring(ledger[i], n) /\ NotTakenSince(ledger, i, n)

\* The blocks that artifact a has not got say what in m differs from a.
Ahead(a, m) ==
  /\ \A n \in Names :
       Accounts(m.ledger, Len(a.ledger), n, n \in Live(a.entries), n \in Live(m.entries))
  /\ m.password \notin {NoPassword, a.header.kek} =>
       Noted(m.ledger, Len(a.ledger), {"rotate", "recover"})
  /\ m.recovery.key # a.header.recovery.key =>
       Noted(m.ledger, Len(a.ledger), {"recovery-enroll"})

\* What an unlocked client holds, beside what is stored.
Agrees(m) ==
  /\ disk # NoVault
  /\ IsPrefixOf(disk.ledger, m.ledger)
  /\ Ahead(disk, m)
  /\ m.password # NoPassword /\ current # NoPassword => m.password = current
  /\ promised # NoKey => m.recovery = disk.header.recovery

\* What the user was told last is what is stored.
Told ==
  /\ disk # NoVault /\ current # NoPassword => disk.header.kek = current
  /\ promised # NoKey => disk # NoVault /\ disk.header.recovery.key = promised

Working == Mode \ {"idle", "init"}
Splitting == {"splitting", "session-splitting"}

Knows(c) ==
  /\ client[c] = "init" => disk = NoVault
  /\ client[c] \in Working /\ mem[c].dek # NoKey => Agrees(mem[c])
  /\ client[c] \in Splitting => mem[c].dek # NoKey /\ mem[c].recovery = disk.header.recovery

OneInv == IndInv /\ Told /\ \A c \in Clients : Knows(c)
-----------------------------------------------------------------------------
(***************************************************************************)
(* Ledgers.                                                                *)
(***************************************************************************)
LEMMA PrefixByElements ==
  ASSUME NEW s \in Seq(Block), NEW t \in Seq(Block)
  PROVE  IsPrefixOf(s, t) <=> Len(s) <= Len(t) /\ \A i \in 1..Len(s) : s[i] = t[i]
<1>1. Len(s) \in Nat /\ Len(t) \in Nat
  OBVIOUS
<1>2. ASSUME Len(s) <= Len(t)
      PROVE  /\ SubSeq(t, 1, Len(s)) \in Seq(Block) /\ Len(SubSeq(t, 1, Len(s))) = Len(s)
             /\ \A i \in 1..Len(s) : SubSeq(t, 1, Len(s))[i] = t[i]
  <2>1. \A i \in 1..Len(s) : t[i] \in Block
    BY <1>1, <1>2
  <2>2. /\ SubSeq(t, 1, Len(s)) \in Seq(Block)
        /\ Len(SubSeq(t, 1, Len(s))) = IF 1 <= Len(s) THEN Len(s) - 1 + 1 ELSE 0
        /\ \A i \in 1..Len(s) - 1 + 1 : SubSeq(t, 1, Len(s))[i] = t[1 + i - 1]
    BY <1>1, <2>1, SubSeqProperties
  <2>3. QED  BY <1>1, <2>2
<1>3. ASSUME Len(s) <= Len(t), \A i \in 1..Len(s) : s[i] = t[i]
      PROVE  s = SubSeq(t, 1, Len(s))
  BY <1>2, <1>3, SeqEqual
<1>4. QED  BY <1>2, <1>3 DEF IsPrefixOf

LEMMA PrefixOfItself == ASSUME NEW s \in Seq(Block) PROVE IsPrefixOf(s, s)
BY PrefixByElements

LEMMA PrefixTrans ==
  ASSUME NEW s \in Seq(Block), NEW t \in Seq(Block), NEW u \in Seq(Block),
         IsPrefixOf(s, t), IsPrefixOf(t, u)
  PROVE  IsPrefixOf(s, u)
<1>1. Len(s) \in Nat /\ Len(t) \in Nat /\ Len(u) \in Nat
  OBVIOUS
<1>2. /\ Len(s) <= Len(t) /\ \A i \in 1..Len(s) : s[i] = t[i]
      /\ Len(t) <= Len(u) /\ \A i \in 1..Len(t) : t[i] = u[i]
  BY PrefixByElements
<1>3. Len(s) <= Len(u) /\ \A i \in 1..Len(s) : s[i] = u[i]
  BY <1>1, <1>2
<1>4. QED  BY <1>3, PrefixByElements

LEMMA PrefixOfLonger ==
  ASSUME NEW s \in Seq(Block), NEW b \in Block
  PROVE  Append(s, b) \in Seq(Block) /\ IsPrefixOf(s, Append(s, b))
<1>1. /\ Append(s, b) \in Seq(Block) /\ Len(Append(s, b)) = Len(s) + 1 /\ Len(s) \in Nat
      /\ \A i \in 1..Len(s) : Append(s, b)[i] = s[i]
  OBVIOUS
<1>2. Len(s) <= Len(Append(s, b))
  BY <1>1
<1>3. QED  BY <1>1, <1>2, PrefixByElements

LEMMA NotedAppend ==
  ASSUME NEW L \in Seq(Block), NEW b \in Block, NEW start \in 0..Len(L), NEW actions,
         Noted(L, start, actions) \/ b.action \in actions
  PROVE  Noted(Append(L, b), start, actions)
<1>1. /\ Len(L) \in Nat /\ Len(Append(L, b)) = Len(L) + 1 /\ Append(L, b)[Len(L) + 1] = b
      /\ \A i \in 1..Len(L) : Append(L, b)[i] = L[i]
  OBVIOUS
<1>2. CASE b.action \in actions
  <2>1. Len(L) + 1 \in start + 1..Len(Append(L, b))
    BY <1>1
  <2>2. QED  BY <1>1, <1>2, <2>1 DEF Noted
<1>3. CASE Noted(L, start, actions)
  <2>1. PICK i \in start + 1..Len(L) : L[i].action \in actions
    BY <1>3 DEF Noted
  <2>2. i \in start + 1..Len(Append(L, b)) /\ Append(L, b)[i] = L[i]
    BY <1>1, <2>1
  <2>3. QED  BY <2>1, <2>2 DEF Noted
<1>4. QED  BY <1>2, <1>3

\* Nothing has happened since a ledger ended.
LEMMA AccountsSelf ==
  ASSUME NEW L \in Seq(Block), NEW n, NEW live
  PROVE  Accounts(L, Len(L), n, n \in live, n \in live)
<1>1. Len(L) + 1..Len(L) = {}
  OBVIOUS
<1>2. QED  BY <1>1 DEF Accounts, NotTakenSince

\* A block that says what became of the entries is one more to account by.
LEMMA AccountsAppend ==
  ASSUME NEW L \in Seq(Block), NEW b \in Block, NEW start \in 0..Len(L), NEW n \in Names,
         NEW stored, NEW live, NEW live2, Follows(b, live, live2),
         Accounts(L, start, n, n \in stored, n \in live)
  PROVE  Accounts(Append(L, b), start, n, n \in stored, n \in live2)
<1> DEFINE A == Append(L, b)
           last == Len(L) + 1
<1>1. Len(L) \in Nat /\ Len(A) = last /\ A[last] = b /\ \A i \in 1..Len(L) : A[i] = L[i]
  OBVIOUS
<1> HIDE DEF A
<1>2. last \in start + 1..last /\ start + 1..Len(L) \subseteq 1..Len(L)
      /\ start + 1..last = (start + 1..Len(L)) \cup {last}
  BY <1>1
<1>3. \A i \in 1..last :
        NotTakenSince(A, i, n) <=> NotTakenSince(L, i, n) /\ ~Takes(b, n)
  BY <1>1 DEF NotTakenSince
<1>4. NotTakenSince(A, last, n) <=> ~Takes(b, n)
  BY <1>1 DEF NotTakenSince
<1>5. NotTakenSince(A, start + 1, n) <=> NotTakenSince(L, start + 1, n) /\ ~Takes(b, n)
  BY <1>1, <1>3
<1>6. SUFFICES
        /\ n \in stored /\ NotTakenSince(A, start + 1, n) => n \in live2
        /\ \A i \in start + 1..last : Brings(A[i], n) /\ NotTakenSince(A, i, n) => n \in live2
        /\ n \in live2 => \/ n \in stored /\ NotTakenSince(A, start + 1, n)
                          \/ \E i \in start + 1..last :
                               MayBring(A[i], n) /\ NotTakenSince(A, i, n)
  BY <1>1 DEF Accounts, A
<1>7. CASE Takes(b, n) /\ ~MayBring(b, n) /\ n \notin live2
  <2>1. ~NotTakenSince(A, start + 1, n) /\ \A i \in start + 1..last : ~NotTakenSince(A, i, n)
    BY <1>1, <1>3, <1>5, <1>7
  <2>2. QED  BY <2>1, <1>7
<1>8. CASE ~Takes(b, n) /\ MayBring(b, n) /\ n \in live2
  BY <1>1, <1>2, <1>4, <1>8
<1>9. CASE ~Takes(b, n) /\ ~Brings(b, n) /\ (n \in live2 <=> n \in live)
  <2>1. /\ n \in stored /\ NotTakenSince(L, start + 1, n) => n \in live
        /\ \A i \in start + 1..Len(L) : Brings(L[i], n) /\ NotTakenSince(L, i, n) => n \in live
        /\ n \in live => \/ n \in stored /\ NotTakenSince(L, start + 1, n)
                         \/ \E i \in start + 1..Len(L) :
                              MayBring(L[i], n) /\ NotTakenSince(L, i, n)
    BY DEF Accounts
  <2>2. \A i \in start + 1..Len(L) :
          A[i] = L[i] /\ (NotTakenSince(A, i, n) <=> NotTakenSince(L, i, n))
    BY <1>1, <1>2, <1>3, <1>9
  <2>3. NotTakenSince(A, start + 1, n) <=> NotTakenSince(L, start + 1, n)
    BY <1>5, <1>9
  <2>4. ASSUME NEW i \in start + 1..last, Brings(A[i], n), NotTakenSince(A, i, n)
        PROVE  n \in live2
    <3>1. i # last
      BY <2>4, <1>1, <1>9
    <3>2. QED  BY <3>1, <2>4, <2>1, <2>2, <1>2, <1>9
  <2>5. QED  BY <2>1, <2>2, <2>3, <2>4, <1>2, <1>9
<1>10. QED  BY <1>7, <1>8, <1>9 DEF Follows
-----------------------------------------------------------------------------
(***************************************************************************)
(* What an operation makes of the client's memory.                         *)
(***************************************************************************)
\* An operation adds at most one block, which says what it did.
Logs(m, m2) ==
  \/ m2.ledger = m.ledger /\ m2.entries = m.entries
     /\ m2.password = m.password /\ m2.recovery = m.recovery
  \/ \E b \in Block :
       /\ m2.ledger = Append(m.ledger, b)
       /\ Follows(b, Live(m.entries), Live(m2.entries))
       /\ m2.password # m.password => b.action \in {"rotate", "recover"}
       /\ m2.recovery # m.recovery => b.action = "recovery-enroll"

Extended(m, m2) ==
  /\ m2 \in Opened /\ Sound(m2)
  /\ m2.dek = m.dek
  /\ IsPrefixOf(m.ledger, m2.ledger)
  /\ Logs(m, m2)

Edited(m, m2) == Extended(m, m2) /\ m2.password = m.password /\ m2.recovery = m.recovery

\* The memory has what is stored and nothing else.
LEMMA AheadOfNothing ==
  ASSUME NEW a, NEW m, m.ledger \in Seq(Block), a.ledger = m.ledger,
         Live(a.entries) = Live(m.entries), m.password \in {NoPassword, a.header.kek},
         m.recovery = a.header.recovery
  PROVE  Ahead(a, m)
BY AccountsSelf DEF Ahead

LEMMA AheadExtended ==
  ASSUME NEW a, NEW m \in Opened, NEW m2, Extended(m, m2), a.ledger \in Seq(Block),
         IsPrefixOf(a.ledger, m.ledger), Ahead(a, m)
  PROVE  Ahead(a, m2)
<1>1. CASE m2.ledger = m.ledger /\ m2.entries = m.entries
           /\ m2.password = m.password /\ m2.recovery = m.recovery
  BY <1>1 DEF Ahead
<1>2. ASSUME NEW b \in Block, m2.ledger = Append(m.ledger, b),
             Follows(b, Live(m.entries), Live(m2.entries)),
             m2.password # m.password => b.action \in {"rotate", "recover"},
             m2.recovery # m.recovery => b.action = "recovery-enroll"
      PROVE  Ahead(a, m2)
  <2>1. m.ledger \in Seq(Block) /\ Len(a.ledger) \in 0..Len(m.ledger)
    BY PrefixByElements DEF Opened
  <2>2. ASSUME NEW n \in Names
        PROVE  Accounts(m2.ledger, Len(a.ledger), n, n \in Live(a.entries), n \in Live(m2.entries))
    BY <1>2, <2>1, AccountsAppend DEF Ahead
  <2>3. ASSUME m2.password \notin {NoPassword, a.header.kek}
        PROVE  Noted(m2.ledger, Len(a.ledger), {"rotate", "recover"})
    BY <1>2, <2>1, <2>3, NotedAppend DEF Ahead
  <2>4. ASSUME m2.recovery.key # a.header.recovery.key
        PROVE  Noted(m2.ledger, Len(a.ledger), {"recovery-enroll"})
    BY <1>2, <2>1, <2>4, NotedAppend DEF Ahead
  <2>5. QED  BY <2>2, <2>3, <2>4 DEF Ahead
<1>3. QED  BY <1>1, <1>2 DEF Extended, Logs

\* A block of the whole vault touches no entry.
LEMMA WholeFollows ==
  ASSUME NEW action \in {"init", "rotate", "recover", "recovery-enroll"}, NEW live
  PROVE  Whole(action) \in Block /\ Follows(Whole(action), live, live)
BY DEF Whole, Block, VaultActions, Maybe, Follows, Takes, Brings

LEMMA ChangedEdits ==
  ASSUME NEW m \in Opened, NEW e \in Entries, NEW b \in Block, NEW m2, m2 = Changed(m, e, b),
         m2 \in Opened, Sound(m2), Follows(b, Live(m.entries), Live(e))
  PROVE  Edited(m, m2)
<1>1. /\ m2.ledger = Append(m.ledger, b) /\ m2.entries = e /\ m2.dek = m.dek
      /\ m2.password = m.password /\ m2.recovery = m.recovery
  BY DEF Changed, Opened
<1>2. IsPrefixOf(m.ledger, m2.ledger)
  BY <1>1, PrefixOfLonger DEF Opened
<1>3. QED  BY <1>1, <1>2 DEF Edited, Extended, Logs

LEMMA PutEdits ==
  ASSUME NEW m \in Opened, Sound(m), NEW n \in Names, NEW status \in Status,
         NEW action \in NamingActions,
         \/ status = "live" /\ action \in {"add", "restore"}
         \/ status # "live" /\ action \in {"trash", "remove", "purge"}
         \/ status = m.entries[n] /\ action \in EditKinds
  PROVE  Edited(m, Put(m, n, status, action))
<1>1. Put(m, n, status, action) \in Opened /\ Sound(Put(m, n, status, action))
  BY PutSound
<1>2. PICK e \in Entries, b \in Block :
        /\ Follows(b, Live(m.entries), Live(e))
        /\ Put(m, n, status, action) = Changed(m, e, b)
  BY PutFollows
<1>3. QED  BY <1>1, <1>2, ChangedEdits

LEMMA ImportEdits ==
  ASSUME NEW m \in Opened, Sound(m), NEW records \in SUBSET Names
  PROVE  Edited(m, ImportNew(m, records))
<1>1. ImportNew(m, records) \in Opened /\ Sound(ImportNew(m, records))
  BY ImportSound
<1>2. PICK e \in Entries, b \in Block :
        /\ Follows(b, Live(m.entries), Live(e))
        /\ ImportNew(m, records) = Changed(m, e, b)
  BY ImportFollows
<1>3. QED  BY <1>1, <1>2, ChangedEdits

LEMMA RekeyExtends ==
  ASSUME NEW m \in Opened, Sound(m), NEW p \in Passwords, NEW action \in {"rotate", "recover"}
  PROVE  /\ Extended(m, Rekey(m, p, action))
         /\ Rekey(m, p, action).password = p /\ Rekey(m, p, action).recovery = m.recovery
<1>1. Rekey(m, p, action) \in Opened /\ Sound(Rekey(m, p, action))
  BY RekeySound
<1>2. /\ Whole(action) \in Block /\ Whole(action).action = action /\ m.ledger \in Seq(Block)
      /\ Follows(Whole(action), Live(m.entries), Live(m.entries))
  BY WholeFollows DEF Whole, Opened
<1>3. /\ Rekey(m, p, action).ledger = Append(m.ledger, Whole(action))
      /\ Rekey(m, p, action).entries = m.entries
      /\ Rekey(m, p, action).dek = m.dek
      /\ Rekey(m, p, action).password = p
      /\ Rekey(m, p, action).recovery = m.recovery
  BY DEF Rekey, Log, Opened
<1>4. QED  BY <1>1, <1>2, <1>3, PrefixOfLonger DEF Extended, Logs

LEMMA EnrolExtends ==
  ASSUME NEW m \in Opened, Sound(m), NEW key \in Key, NEW i \in Int, NEW j \in Int
  PROVE  Extended(m, Enrol(m, key, i, j)) /\ Enrol(m, key, i, j).password = m.password
<1>1. Enrol(m, key, i, j) \in Opened /\ Sound(Enrol(m, key, i, j))
  BY EnrolSound
<1> DEFINE b == Whole("recovery-enroll")
<1>2. /\ b \in Block /\ b.action = "recovery-enroll" /\ m.ledger \in Seq(Block)
      /\ Follows(b, Live(m.entries), Live(m.entries))
  BY WholeFollows DEF Whole, Opened
<1>3. /\ Enrol(m, key, i, j).ledger = Append(m.ledger, b)
      /\ Enrol(m, key, i, j).entries = m.entries
      /\ Enrol(m, key, i, j).dek = m.dek
      /\ Enrol(m, key, i, j).password = m.password
  BY DEF Enrol, Log, Opened
<1> HIDE DEF b
<1>4. QED  BY <1>1, <1>2, <1>3, PrefixOfLonger DEF Extended, Logs
-----------------------------------------------------------------------------
(***************************************************************************)
(* Steps.  Beside what the client knows, a step that imports no bundle     *)
(* keeps the stored ledger, and one that exports none either is a step of  *)
(* the promised vault or none.                                             *)
(***************************************************************************)
Stored == IF disk = NoVault THEN NoVault ELSE Durable(disk)
KeepsPromise == Stored' = Stored \/ (bundle' = bundle => Promise!Create \/ Promise!Commit)
Keeps == KeepsLedger /\ KeepsPromise
Kept == Told' /\ (\A d \in Clients : Knows(d)') /\ Keeps

LEMMA SameDiskKeeps == ASSUME IndInv, disk' = disk PROVE Keeps
<1>1. disk # NoVault => disk.ledger \in Seq(Block)
  BY DEF IndInv, DiskSound, Artifact
<1>2. QED  BY <1>1, PrefixOfItself DEF Keeps, KeepsLedger, KeepsPromise, Stored

\* The promised vault's operators, and the contents an artifact promises.
LEMMA PromiseOperators ==
  /\ Promise!Content = [live : SUBSET Names, ledger : Seq(Block), password : Passwords,
                        recovery : Nat]
  /\ Promise!Whole("init") = Whole("init") /\ Promise!NoKey = NoKey
  /\ \A ledger, start, actions :
       Promise!Recorded(ledger, start, actions) <=> Noted(ledger, start, actions)
  /\ \A ledger, start, n, x, y :
       Accounts(ledger, start, n, n \in x, n \in y) =>
         Promise!Accounted(ledger, start, n, n \in x, n \in y)
<1>1. Promise!Block = Block
  BY DEF Promise!Block, Promise!NamingActions, Promise!VaultActions, Promise!Maybe,
         Block, NamingActions, VaultActions, Maybe
<1>2. \A b, n : /\ Promise!Brings(b, n) <=> Brings(b, n)
                /\ Promise!Takes(b, n) <=> Takes(b, n)
                /\ Promise!MayBring(b, n) <=> MayBring(b, n)
  BY DEF Promise!Brings, Promise!Takes, Promise!MayBring, Brings, Takes, MayBring
<1>3. \A ledger, i, n : Promise!NotTakenSince(ledger, i, n) <=> NotTakenSince(ledger, i, n)
  BY <1>2 DEF Promise!NotTakenSince, NotTakenSince
<1>4. ASSUME NEW ledger, NEW start, NEW n, NEW x, NEW y,
             Accounts(ledger, start, n, n \in x, n \in y)
      PROVE  Promise!Accounted(ledger, start, n, n \in x, n \in y)
  BY <1>2, <1>3, <1>4 DEF Accounts, Promise!Accounted
<1>5. Promise!Whole("init") = Whole("init") /\ Promise!NoKey = NoKey
  BY DEF Promise!Whole, Whole, Promise!NoKey, NoKey
<1>6. QED  BY <1>1, <1>4, <1>5 DEF Promise!Content, Promise!Recorded, Noted

LEMMA DurableTyped ==
  ASSUME NEW a \in Artifact
  PROVE  /\ Durable(a) \in Promise!Content /\ Durable(a) # NoVault
         /\ Durable(a).live = Live(a.entries) /\ Durable(a).ledger = a.ledger
         /\ Durable(a).password = a.header.kek /\ Durable(a).recovery = a.header.recovery.key
<1>1. a.ledger \in Seq(Block) /\ a.header.kek \in Passwords /\ a.header.recovery.key \in Nat
  BY DEF Artifact, Header, Maybe, Recovery, NoRecovery, Key, NoKey
<1>2. Live(a.entries) \subseteq Names
  BY DEF Live
<1>3. QED  BY <1>1, <1>2, PromiseOperators, PromiseAssumption DEF Durable

LEMMA SealTyped ==
  ASSUME NEW m \in Opened, Sound(m), CanSeal(m)
  PROVE  /\ Seal(m) # NoVault
         /\ Seal(m).ledger = m.ledger /\ m.ledger \in Seq(Block)
         /\ Seal(m).header.kek = m.password /\ Seal(m).header.recovery = m.recovery
         /\ Live(Seal(m).entries) = Live(m.entries)
<1>1. Seal(m) \in Artifact
  BY SealWell
<1>2. Live(Seal(m).entries) = Live(m.entries)
  BY SerializeLive DEF Seal, Opened
<1>3. QED  BY <1>1, <1>2, SentinelAssumption DEF Seal, HeaderOf, Opened

\* A save, after which the client is done or goes on with what it saved.
LEMMA SaveTells ==
  ASSUME IndInv, NEW c, Clients = {c}, NEW m \in Opened, Sound(m), CanSeal(m), disk' = Seal(m),
         NEW mode \in Mode \ {"init"}, NEW held, Become(c, mode, held),
         mode = "idle" \/ held = m,
         mode \in Splitting => m.recovery # NoRecovery,
         current' # NoPassword => m.password = current',
         promised' # NoKey => m.recovery.key = promised'
  PROVE  Told' /\ \A d \in Clients : Knows(d)'
<1>1. disk' # NoVault /\ disk'.ledger = m.ledger /\ m.ledger \in Seq(Block)
      /\ disk'.header.kek = m.password /\ disk'.header.recovery = m.recovery
      /\ Live(disk'.entries) = Live(m.entries)
  BY SealTyped
<1>2. client'[c] = mode /\ mem'[c] = held
  BY DEF Become, IndInv, ClientsSound
<1>3. Told'
  BY <1>1 DEF Told
<1>4. ASSUME mode \in Working PROVE Agrees(m)'
  <2>1. Ahead(disk', m)
    BY <1>1, AheadOfNothing
  <2>2. QED  BY <1>1, <2>1, PrefixOfItself DEF Agrees
<1>5. Knows(c)'
  <2>1. CASE mode = "idle"
    BY <1>2, <2>1 DEF Knows, Working, Splitting
  <2>2. CASE mode # "idle"
    <3>1. mode \in Working /\ held = m /\ m.dek # NoKey
      BY <2>2 DEF Working, CanSeal
    <3>2. mem'[c] = m /\ Agrees(m)'
      BY <1>2, <1>4, <3>1
    <3>3. Agrees(mem[c])'
      BY <3>2 DEF Agrees
    <3>4. QED  BY <1>1, <1>2, <3>1, <3>3 DEF Knows
  <2>3. QED  BY <2>1, <2>2
<1>6. QED  BY <1>3, <1>5

\* A save of what a client that knows what is stored has added to it.
LEMMA SaveKeeps ==
  ASSUME OneInv, NEW c \in Clients, client[c] \in Working, NEW m, Extended(mem[c], m), CanSeal(m),
         disk' = Seal(m)
  PROVE  Keeps
<1>1. mem[c] \in Opened /\ mem[c].dek # NoKey /\ m \in Opened /\ m.password # NoPassword
  BY DEF OneInv, IndInv, ClientsSound, Extended, CanSeal
<1>2. disk # NoVault /\ IsPrefixOf(disk.ledger, mem[c].ledger) /\ Ahead(disk, mem[c])
  BY <1>1 DEF OneInv, Knows, Agrees
<1>3. /\ disk' # NoVault /\ disk'.ledger = m.ledger /\ m.ledger \in Seq(Block)
      /\ disk'.header.kek = m.password /\ disk'.header.recovery = m.recovery
      /\ Live(disk'.entries) = Live(m.entries)
  BY SealTyped DEF Extended
<1>4. /\ disk \in Artifact /\ disk' \in Artifact
      /\ disk.ledger \in Seq(Block) /\ mem[c].ledger \in Seq(Block)
  BY <1>1, <1>2, SealWell DEF OneInv, IndInv, DiskSound, Artifact, Opened, Extended
<1>5. IsPrefixOf(disk.ledger, m.ledger) /\ Ahead(disk, m)
  BY <1>1, <1>2, <1>3, <1>4, PrefixTrans, AheadExtended DEF Extended
<1>6. KeepsLedger
  BY <1>2, <1>3, <1>5 DEF KeepsLedger
<1> DEFINE a == Durable(disk)
           a2 == Durable(disk')
           start == Len(disk.ledger)
<1>7. /\ a \in Promise!Content /\ a # NoVault /\ a.live = Live(disk.entries)
      /\ a.ledger = disk.ledger /\ a.password = disk.header.kek
      /\ a.recovery = disk.header.recovery.key
      /\ a2 \in Promise!Content /\ a2.live = Live(m.entries)
      /\ a2.ledger = m.ledger /\ a2.password = m.password /\ a2.recovery = m.recovery.key
  BY <1>3, <1>4, DurableTyped
<1>8. Stored = a /\ Stored' = a2
  BY <1>2, <1>3 DEF Stored
<1>9. start \in Nat /\ Len(m.ledger) \in Nat /\ start <= Len(m.ledger)
      /\ SubSeq(m.ledger, 1, start) = disk.ledger
  BY <1>3, <1>4, <1>5 DEF IsPrefixOf
<1> HIDE DEF a, a2
<1>10. CASE start = Len(m.ledger)
  <2>1. start + 1..Len(m.ledger) = {} /\ m.ledger = disk.ledger
    BY <1>3, <1>4, <1>5, <1>9, <1>10, PrefixByElements, SeqEqual
  <2>2. m.password = disk.header.kek /\ m.recovery.key = disk.header.recovery.key
    BY <1>1, <1>5, <2>1 DEF Ahead, Noted
  <2>3. \A n \in Names : NotTakenSince(m.ledger, start + 1, n)
    BY <2>1 DEF NotTakenSince
  <2>4. \A n \in Names : n \in Live(disk.entries) <=> n \in Live(m.entries)
    BY <1>5, <2>1, <2>3 DEF Ahead, Accounts
  <2>5. a2.live = a.live
    BY <1>7, <2>4 DEF Live
  <2>6. a2 = a
    BY <1>7, <2>1, <2>2, <2>5, PromiseOperators
  <2>7. QED  BY <1>6, <1>8, <2>6 DEF Keeps, KeepsPromise
<1>11. CASE start < Len(m.ledger)
  <2>1. ASSUME bundle' = bundle PROVE Promise!Commit
    <3>1. \A n \in Names : Promise!Accounted(a2.ledger, start, n, n \in a.live, n \in a2.live)
      BY <1>5, <1>7, PromiseOperators DEF Ahead
    <3>2. /\ a2.password # a.password => Promise!Recorded(a2.ledger, start, {"rotate", "recover"})
          /\ a2.recovery # a.recovery => Promise!Recorded(a2.ledger, start, {"recovery-enroll"})
      BY <1>1, <1>5, <1>7, PromiseOperators DEF Ahead
    <3>3. SubSeq(a2.ledger, 1, start) = a.ledger /\ start < Len(a2.ledger) /\ start = Len(a.ledger)
      BY <1>7, <1>9, <1>11
    <3>4. QED  BY <2>1, <3>1, <3>2, <3>3, <1>2, <1>3, <1>7 DEF Promise!Commit, a, a2
  <2>2. QED  BY <1>6, <2>1 DEF Keeps, KeepsPromise
<1>12. QED  BY <1>9, <1>10, <1>11

\* A client that goes on with more in memory than is stored.
LEMMA GoesOn ==
  ASSUME OneInv, NEW c, Clients = {c}, client[c] \in Working, NEW m, Extended(mem[c], m),
         NEW mode \in Working \ Splitting, Become(c, mode, m), disk' = disk,
         current' = NoPassword \/ (current' = current /\ m.password = mem[c].password),
         promised' = NoKey \/ (promised' = promised /\ m.recovery = mem[c].recovery)
  PROVE  Kept
<1>1. client'[c] = mode /\ mem'[c] = m
  BY DEF Become, OneInv, IndInv, ClientsSound
<1>2. Told'
  BY DEF Told, OneInv
<1>3. ASSUME m.dek # NoKey PROVE Agrees(m)'
  <2>1. Agrees(mem[c])
    BY <1>3 DEF OneInv, Knows, Extended
  <2>2. disk # NoVault /\ disk.ledger \in Seq(Block)
        /\ mem[c].ledger \in Seq(Block) /\ m.ledger \in Seq(Block)
    BY <2>1 DEF Agrees, OneInv, IndInv, ClientsSound, DiskSound, Artifact, Opened, Extended
  <2>3. IsPrefixOf(disk.ledger, m.ledger)
    BY <2>1, <2>2, PrefixTrans DEF Agrees, Extended
  <2>4. Ahead(disk, m)
    BY <2>1, <2>2, AheadExtended DEF Agrees, OneInv, IndInv, ClientsSound
  <2>5. QED  BY <2>1, <2>2, <2>3, <2>4 DEF Agrees
<1>4. m.dek # NoKey => Agrees(mem[c])'
  BY <1>1, <1>3 DEF Agrees
<1>5. Knows(c)'
  BY <1>1, <1>4 DEF Knows, Working
<1>6. QED  BY <1>2, <1>5, SameDiskKeeps DEF Kept, OneInv

\* What a command or a session saves of an edit is what its user was told before.
LEMMA EditSaves ==
  ASSUME OneInv, NEW c, Clients = {c}, client[c] \in Working, NEW m, Edited(mem[c], m),
         CanSeal(m), disk' = Seal(m), NEW mode \in Mode \ (Splitting \cup {"init"}),
         NEW held, Become(c, mode, held), mode = "idle" \/ held = m, UNCHANGED history
  PROVE  Kept
<1>1. mem[c].dek # NoKey /\ m.password # NoPassword /\ m \in Opened /\ Sound(m)
  BY DEF Edited, Extended, CanSeal
<1>2. Agrees(mem[c]) /\ Told
  BY <1>1 DEF OneInv, Knows
<1>3. current' # NoPassword => m.password = current'
  BY <1>1, <1>2 DEF Agrees, Edited, history
<1>4. promised' # NoKey => m.recovery.key = promised'
  BY <1>2 DEF Agrees, Told, Edited, history
<1>5. Told' /\ \A d \in Clients : Knows(d)'
  BY <1>1, <1>3, <1>4, SaveTells DEF OneInv
<1>6. Keeps
  BY SaveKeeps DEF Edited
<1>7. QED  BY <1>5, <1>6 DEF Kept

LEMMA FinishEdit ==
  ASSUME OneInv, NEW c, Clients = {c}, client[c] = "command", NEW m, Edited(mem[c], m),
         Finish(c, m), UNCHANGED history
  PROVE  Kept
BY EditSaves DEF Finish, Working, Mode, Splitting

LEMMA ChangeEdit ==
  ASSUME OneInv, NEW c, Clients = {c}, client[c] = "session", NEW m, Edited(mem[c], m), Change(c, m)
  PROVE  Kept
<1>1. CASE Persisted(c, "session", m)
  BY <1>1, EditSaves DEF Persisted, Change, Working, Mode, Splitting
<1>2. CASE PersistRaised(c, m)
  BY <1>2, GoesOn DEF PersistRaised, Change, Edited, history, Working, Mode, Splitting
<1>3. QED  BY <1>1, <1>2 DEF Change
\* What has just been opened is what is stored.
LEMMA OpenKnows ==
  ASSUME OneInv, NEW c, Clients = {c}, disk # NoVault, NEW p, NEW dek,
         p = NoPassword \/ OpensWith(disk, p),
         NEW mode \in Working \ Splitting, Become(c, mode, Open(disk, p, dek)),
         UNCHANGED <<disk, history>>
  PROVE  Kept
<1>1. client'[c] = mode /\ mem'[c] = Open(disk, p, dek)
  BY DEF Become, OneInv, IndInv, ClientsSound
<1>2. disk.ledger \in Seq(Block) /\ Told
  BY DEF OneInv, IndInv, DiskSound, Artifact
<1>3. p # NoPassword => p = disk.header.kek
  BY DEF OpensWith, UnwrapDek, Authentic
<1>4. Agrees(Open(disk, p, dek))'
  <2>1. Ahead(disk, Open(disk, p, dek))
    BY <1>2, <1>3, AheadOfNothing DEF Open
  <2>2. QED  BY <1>2, <1>3, <2>1, PrefixOfItself DEF Agrees, Open, Told, history
<1>5. Agrees(mem[c])'
  BY <1>1, <1>4 DEF Agrees
<1>6. Knows(c)' /\ Told'
  BY <1>1, <1>2, <1>5 DEF Knows, Working, Told, history
<1>7. QED  BY <1>6, SameDiskKeeps DEF Kept, OneInv

\* A client that has nothing left in memory.
LEMMA Forgets ==
  ASSUME OneInv, NEW c, Clients = {c}, NEW mode \in {"idle", "session"}, NEW m, m.dek = NoKey,
         Become(c, mode, m), UNCHANGED <<disk, history>>
  PROVE  Kept
<1>1. client'[c] = mode /\ mem'[c] = m
  BY DEF Become, OneInv, IndInv, ClientsSound
<1>2. Knows(c)' /\ Told'
  BY <1>1 DEF Knows, Working, Splitting, Told, OneInv, history
<1>3. QED  BY <1>2, SameDiskKeeps DEF Kept, OneInv

\* init: there is no vault yet, and no other client that could create one meanwhile.
LEMMA InitKnows ==
  ASSUME OneInv, NEW c, Clients = {c}, InitSave(c) \/ \E p \in Passwords : InitCheck(c, p)
  PROVE  Kept
<1>1. ASSUME NEW p \in Passwords, InitCheck(c, p) PROVE Kept
  <2>1. client'[c] = "init" /\ disk = NoVault /\ UNCHANGED <<disk, history>>
    BY <1>1 DEF InitCheck, Become, OneInv, IndInv, ClientsSound
  <2>2. Knows(c)' /\ Told'
    BY <2>1 DEF Knows, Working, Splitting, Told, OneInv, history
  <2>3. QED  BY <2>1, <2>2, SameDiskKeeps DEF Kept, OneInv
<1>2. CASE InitSave(c)
  <2> DEFINE opened == [mem[c] EXCEPT !.dek = drawn + 1]
             m == Log(opened, Whole("init"))
  <2>1. PICK p \in Passwords : mem[c] = [Blank EXCEPT !.password = p]
    BY <1>2 DEF InitSave, OneInv, IndInv, ClientsSound, Fresh
  <2>2. /\ disk = NoVault /\ disk' = Seal(m) /\ Become(c, "idle", Blank)
        /\ current' = mem[c].password /\ promised' = NoKey
    BY <1>2 DEF InitSave, OneInv, Knows
  <2>3. /\ opened \in Opened /\ opened.password = p /\ opened.recovery = NoRecovery
        /\ opened.dek # NoKey /\ Explains(opened.ledger, Live(opened.entries))
    <3>1. mem[c] \in Opened /\ Sound(mem[c]) /\ drawn + 1 \in Nat /\ drawn + 1 # NoKey
      BY DEF OneInv, IndInv, ClientsSound, KeysTyped, NoKey
    <3>2. mem[c].recovery = NoRecovery /\ mem[c].password = p
      BY <2>1 DEF Blank
    <3>3. QED  BY <3>1, <3>2 DEF Opened, Sound
  <2>4. Sound(opened)
    BY <2>3 DEF Sound
  <2>5. /\ Whole("init") \in Block
        /\ \A n \in Names : ~Takes(Whole("init"), n) /\ ~Brings(Whole("init"), n)
    BY DEF Whole, Block, VaultActions, Maybe, Takes, Brings
  <2>6. /\ m.dek = opened.dek /\ m.password = opened.password /\ m.recovery = opened.recovery
        /\ m.ledger = Append(opened.ledger, Whole("init")) /\ m.entries = opened.entries
    BY <2>3 DEF Log, Opened
  <2>7. mem[c].password = p /\ opened.ledger = <<>> /\ opened.entries = NoEntries
    BY <2>1 DEF Blank, NoRecovery
  <2> HIDE DEF opened
  <2>8. m \in Opened /\ Sound(m)
    BY <2>3, <2>4, <2>5, LogSound
  <2>9. CanSeal(m)
    BY <2>3, <2>6, SentinelAssumption DEF CanSeal
  <2> HIDE DEF m
  <2>10. Told' /\ \A d \in Clients : Knows(d)'
    BY <2>2, <2>3, <2>6, <2>7, <2>8, <2>9, SaveTells DEF Mode, Splitting, OneInv
  <2>11. ASSUME bundle' = bundle PROVE Promise!Create
    <3>1. /\ disk' # NoVault /\ disk' \in Artifact /\ disk'.header.recovery = NoRecovery
          /\ disk'.ledger = <<Whole("init")>> /\ Live(disk'.entries) = {}
      <4>1. Live(NoEntries) = {} /\ Append(<<>>, Whole("init")) = <<Whole("init")>>
        BY DEF Live, NoEntries
      <4>2. QED  BY <4>1, <2>2, <2>3, <2>6, <2>7, <2>8, <2>9, SealTyped, SealWell
    <3>2. /\ Durable(disk') \in Promise!Content /\ Durable(disk').live = {}
          /\ Durable(disk').ledger = <<Whole("init")>> /\ Durable(disk').recovery = NoKey
      BY <3>1, DurableTyped DEF NoRecovery
    <3>3. QED  BY <2>2, <2>11, <3>1, <3>2, PromiseOperators DEF Promise!Create
  <2>12. QED  BY <2>2, <2>10, <2>11 DEF Kept, Keeps, KeepsLedger, KeepsPromise
<1>3. QED  BY <1>1, <1>2

LEMMA RekeyKnows ==
  ASSUME OneInv, NEW c, Clients = {c}, NEW p \in Passwords,
         CommandRotate(c, p) \/ RecoverSave(c, p) \/ SessionRotate(c, p)
  PROVE  Kept
<1>1. mem[c] \in Opened /\ Sound(mem[c]) /\ client[c] \in Working
  BY DEF OneInv, IndInv, ClientsSound, CommandRotate, RecoverSave, SessionRotate, InSession,
         Working, Mode
<1>2. PICK action \in {"rotate", "recover"} :
        /\ promised' = promised
        /\ LET m == Rekey(mem[c], p, action) IN
             \/ Finish(c, m) /\ current' = p
             \/ Persisted(c, "session", m) /\ current' = p
             \/ PersistRaised(c, m) /\ current' = NoPassword
  BY DEF CommandRotate, RecoverSave, SessionRotate
<1> DEFINE m == Rekey(mem[c], p, action)
<1>3. Extended(mem[c], m) /\ m.password = p /\ m.recovery = mem[c].recovery
  BY <1>1, RekeyExtends
<1>4. m \in Opened /\ Sound(m)
  BY <1>3 DEF Extended
<1> HIDE DEF m
<1>5. CASE PersistRaised(c, m) /\ current' = NoPassword
  BY <1>1, <1>2, <1>3, <1>5, GoesOn DEF PersistRaised, Working, Mode, Splitting
<1>6. ASSUME NEW mode \in {"idle", "session"}, NEW held, Become(c, mode, held),
             mode = "idle" \/ held = m, CanSeal(m), disk' = Seal(m), current' = p
      PROVE  Kept
  <2>1. mem[c].dek # NoKey
    BY <1>3, <1>6 DEF Extended, CanSeal
  <2>2. promised' # NoKey => m.recovery.key = promised'
    BY <1>1, <1>2, <1>3, <2>1 DEF OneInv, Knows, Agrees, Told
  <2>3. Told' /\ \A d \in Clients : Knows(d)'
    BY <1>3, <1>4, <1>6, <2>2, SaveTells DEF OneInv, Mode, Splitting
  <2>4. Keeps
    BY <1>1, <1>3, <1>6, SaveKeeps
  <2>5. QED  BY <2>3, <2>4 DEF Kept
<1>7. QED  BY <1>2, <1>5, <1>6 DEF Finish, Persisted, m

\* The new recovery key is promised to nobody until its shares are delivered.
LEMMA EnrolKnows ==
  ASSUME OneInv, NEW c, Clients = {c}, NEW nk \in ShareParams,
         CommandEnrol(c, nk[1], nk[2]) \/ SessionEnrol(c, nk[1], nk[2])
  PROVE  Kept
<1> DEFINE m == Enrol(mem[c], drawn + 1, nk[1], nk[2])
<1>1. mem[c] \in Opened /\ Sound(mem[c]) /\ client[c] \in Working
  BY DEF OneInv, IndInv, ClientsSound, CommandEnrol, SessionEnrol, InSession, Working, Mode
<1>2. drawn + 1 \in Key /\ nk[1] \in Int /\ nk[2] \in Int
  BY StoreAssumption DEF OneInv, IndInv, KeysTyped, Key, NoKey
<1>3. Extended(mem[c], m) /\ m.password = mem[c].password
  BY <1>1, <1>2, EnrolExtends
<1>4. m.recovery # NoRecovery
  BY <1>1, <1>2 DEF Enrol, Log, Opened, NoRecovery, Key
<1>5. promised' = NoKey /\ current' = current
  BY DEF CommandEnrol, SessionEnrol
<1>6. \/ \E mode \in Splitting : CanSeal(m) /\ disk' = Seal(m) /\ Become(c, mode, m)
      \/ PersistRaised(c, m)
  BY DEF CommandEnrol, SessionEnrol, Persisted, Splitting
<1> HIDE DEF m
<1>7. CASE PersistRaised(c, m)
  BY <1>1, <1>3, <1>5, <1>7, GoesOn DEF PersistRaised, Working, Mode, Splitting
<1>8. ASSUME NEW mode \in Splitting, CanSeal(m), disk' = Seal(m), Become(c, mode, m) PROVE Kept
  <2>1. mem[c].dek # NoKey /\ mem[c].password # NoPassword
    BY <1>3, <1>8 DEF Extended, CanSeal
  <2>2. current' # NoPassword => m.password = current'
    BY <1>1, <1>3, <1>5, <2>1 DEF OneInv, Knows, Agrees
  <2>3. Told' /\ \A d \in Clients : Knows(d)'
    BY <1>3, <1>4, <1>5, <1>8, <2>2, SaveTells DEF OneInv, Mode, Splitting, Extended
  <2>4. Keeps
    BY <1>1, <1>3, <1>8, SaveKeeps
  <2>5. QED  BY <2>3, <2>4 DEF Kept
<1>9. QED  BY <1>6, <1>7, <1>8

\* The key whose shares are handed out is the one that is stored.
LEMMA DeliverKnows ==
  ASSUME OneInv, NEW c, Clients = {c}, Deliver(c)
  PROVE  Kept
<1>1. /\ client[c] \in Splitting /\ disk' = disk /\ current' = current
      /\ promised' = promised \/ promised' = mem[c].recovery.key
  BY DEF Deliver, Splitting
<1>2. /\ mem[c].dek # NoKey /\ mem[c].recovery = disk.header.recovery /\ Agrees(mem[c]) /\ Told
      /\ mem[c] \in Opened
  BY <1>1 DEF OneInv, Knows, Working, Mode, Splitting, IndInv, ClientsSound
<1>3. Told'
  BY <1>1, <1>2 DEF Told, Agrees
<1>4. Agrees(mem[c])
  BY <1>2
<1>5. CASE Become(c, "idle", Blank)
  <2>1. client'[c] = "idle"
    BY <1>5 DEF Become, OneInv, IndInv, ClientsSound
  <2>2. Knows(c)'
    BY <2>1 DEF Knows, Working, Splitting
  <2>3. QED  BY <1>1, <1>3, <2>2, SameDiskKeeps DEF Kept, OneInv
<1>6. CASE Become(c, "session", mem[c])
  <2>1. client'[c] = "session" /\ mem'[c] = mem[c]
    BY <1>6 DEF Become, OneInv, IndInv, ClientsSound
  <2>2. Agrees(mem[c])'
    BY <1>1, <1>2, <2>1 DEF Agrees
  <2>3. Knows(c)'
    BY <2>1, <2>2 DEF Knows, Splitting
  <2>4. QED  BY <1>1, <1>3, <2>3, SameDiskKeeps DEF Kept, OneInv
<1>7. QED  BY <1>5, <1>6 DEF Deliver
-----------------------------------------------------------------------------
\* What a bundle replaces, nobody was promised.
LEMMA ImportTells ==
  ASSUME OneInv, NEW c, Clients = {c}, CommandImportBundle(c) \/ SessionImportBundle(c)
  PROVE  Told' /\ \A d \in Clients : Knows(d)'
<1>1. current' = NoPassword /\ promised' = NoKey
  BY DEF CommandImportBundle, SessionImportBundle
<1>2. client'[c] = "idle" \/ (client'[c] = "session" /\ mem'[c].dek = NoKey)
  <2>1. CASE CommandImportBundle(c)
    BY <2>1 DEF CommandImportBundle
  <2>2. CASE SessionImportBundle(c)
    BY <2>2 DEF SessionImportBundle, Become, Locked, Blank, OneInv, IndInv, ClientsSound
  <2>3. QED  BY <2>1, <2>2
<1>3. QED  BY <1>1, <1>2 DEF Told, Knows, Working, Splitting

LEMMA CommandKnows ==
  ASSUME OneInv, NEW c, Clients = {c}, Command(c), ~CommandImportBundle(c)
  PROVE  Kept
<1>1. mem[c] \in Opened /\ Sound(mem[c])
  BY DEF OneInv, IndInv, ClientsSound
<1>2. ASSUME NEW p \in Passwords, CommandOpen(c, p) PROVE Kept
  BY <1>2, OpenKnows DEF CommandOpen, Working, Mode, Splitting
<1>3. ASSUME NEW s \in handed, NEW presented, RecoverOpen(c, s, presented) PROVE Kept
  BY <1>3, OpenKnows DEF RecoverOpen, Working, Mode, Splitting
<1>4. ASSUME NEW p \in Passwords, CommandExport(c, p) PROVE Kept
  <2>1. UNCHANGED <<disk, client, mem, current, promised>>
    BY <1>4 DEF CommandExport, history
  <2>2. Told' /\ \A d \in Clients : Knows(d)'
    BY <2>1 DEF OneInv, Told, Knows, Agrees
  <2>3. QED  BY <2>1, <2>2, SameDiskKeeps DEF Kept, OneInv
<1>5. ASSUME NEW n \in Names, CommandAdd(c, n) PROVE Kept
  <2>1. Edited(mem[c], Put(mem[c], n, "live", "add"))
    BY <1>1, PutEdits DEF Status, NamingActions
  <2>2. QED  BY <1>5, <2>1, FinishEdit DEF CommandAdd
<1>6. ASSUME NEW n \in Names, CommandRemove(c, n) PROVE Kept
  <2>1. Edited(mem[c], Put(mem[c], n, "absent", "remove"))
    BY <1>1, PutEdits DEF Status, NamingActions
  <2>2. QED  BY <1>6, <2>1, FinishEdit DEF CommandRemove
<1>7. ASSUME NEW n \in Names, NEW kind \in EditKinds, CommandEdit(c, n, kind) PROVE Kept
  <2>1. mem[c].entries[n] \in Status
    BY <1>1 DEF Opened, Entries
  <2>2. Edited(mem[c], Put(mem[c], n, mem[c].entries[n], kind))
    BY <1>1, <2>1, PutEdits DEF NamingActions
  <2>3. QED  BY <1>7, <2>2, FinishEdit DEF CommandEdit
<1>8. ASSUME NEW records \in SUBSET Names, CommandImport(c, records) PROVE Kept
  BY <1>1, <1>8, ImportEdits, FinishEdit DEF CommandImport
<1>9. QED
  BY <1>2, <1>3, <1>4, <1>5, <1>6, <1>7, <1>8, InitKnows, RekeyKnows, EnrolKnows DEF Command

LEMMA SessionKnows ==
  ASSUME OneInv, NEW c, Clients = {c}, Session(c), ~SessionImportBundle(c)
  PROVE  Kept
<1>1. mem[c] \in Opened /\ Sound(mem[c])
  BY DEF OneInv, IndInv, ClientsSound
<1>2. ASSUME NEW p \in Passwords, Unlock(c, p) PROVE Kept
  BY <1>2, OpenKnows DEF Unlock, Working, Mode, Splitting
<1>3. Edited(mem[c], mem[c])
  BY <1>1, PrefixOfItself DEF Edited, Extended, Logs, Opened
<1>4. CASE SessionExport(c)
  BY <1>3, <1>4, EditSaves DEF SessionExport, Persisted, Working, Mode, Splitting
<1>5. CASE SessionExportLoad(c)
  <2>1. /\ client[c] \in Working /\ "session" \in Working \ Splitting
        /\ Become(c, "session", mem[c])
        /\ disk' = disk /\ current' = current /\ promised' = promised
    BY <1>5 DEF SessionExportLoad, history, Working, Mode, Splitting
  <2>2. Extended(mem[c], mem[c])
    BY <1>3 DEF Edited
  <2>3. QED  BY <2>1, <2>2, GoesOn
<1>6. CASE SessionLock(c)
  <2>1. Locked(mem[c]).dek = NoKey
    BY DEF Locked, Blank
  <2>2. QED  BY <1>6, <2>1, Forgets DEF SessionLock
<1>7. ASSUME NEW n \in Names, SessionAdd(c, n) PROVE Kept
  <2>1. Edited(mem[c], Put(mem[c], n, "live", "add"))
    BY <1>1, PutEdits DEF Status, NamingActions
  <2>2. QED  BY <1>7, <2>1, ChangeEdit DEF SessionAdd, InSession
<1>8. ASSUME NEW n \in Names, SessionTrash(c, n) PROVE Kept
  <2>1. Edited(mem[c], Put(mem[c], n, "trashed", "trash"))
    BY <1>1, PutEdits DEF Status, NamingActions
  <2>2. QED  BY <1>8, <2>1, ChangeEdit DEF SessionTrash, InSession
<1>9. ASSUME NEW n \in Names, SessionRestore(c, n) PROVE Kept
  <2>1. Edited(mem[c], Put(mem[c], n, "live", "restore"))
    BY <1>1, PutEdits DEF Status, NamingActions
  <2>2. QED  BY <1>9, <2>1, ChangeEdit DEF SessionRestore, InSession
<1>10. ASSUME NEW n \in Names, SessionPurge(c, n) PROVE Kept
  <2>1. Edited(mem[c], Put(mem[c], n, "absent", "purge"))
    BY <1>1, PutEdits DEF Status, NamingActions
  <2>2. QED  BY <1>10, <2>1, ChangeEdit DEF SessionPurge, InSession
<1>11. ASSUME NEW n \in Names, NEW kind \in EditKinds, SessionEdit(c, n, kind) PROVE Kept
  <2>1. mem[c].entries[n] \in Status
    BY <1>1 DEF Opened, Entries
  <2>2. Edited(mem[c], Put(mem[c], n, mem[c].entries[n], kind))
    BY <1>1, <2>1, PutEdits DEF NamingActions
  <2>3. QED  BY <1>11, <2>2, ChangeEdit DEF SessionEdit, InSession
<1>12. QED
  BY <1>2, <1>4, <1>5, <1>6, <1>7, <1>8, <1>9, <1>10, <1>11, RekeyKnows, EnrolKnows DEF Session

GrowsOnly == (\E c \in Clients : Importing(c)) \/ KeepsLedger

\* Bundles are exported by the two steps that say so, and imported as they are.
Exported == {Durable(b.artifact) : b \in bundle}
PromiseStep == Promise!Next \/ (Stored' = Stored /\ Exported' = Exported)

LEMMA BundleSteps ==
  ASSUME NEW c, Clients = {c}, [Next]_vars
  PROVE  \/ bundle' = bundle
         \/ SessionExportLoad(c) \/ \E p \in Passwords : CommandExport(c, p)
<1>1. CASE Command(c)
  BY <1>1 DEF Command, InitCheck, InitSave, CommandOpen, CommandRotate, RecoverSave, CommandAdd,
              CommandRemove, CommandEdit, CommandImport, CommandEnrol, CommandImportBundle,
              RecoverOpen, Finish
<1>2. CASE Session(c)
  BY <1>2 DEF Session, SessionExport, SessionImportBundle, SessionLock, Unlock, SessionRotate,
              SessionAdd, SessionTrash, SessionRestore, SessionPurge, SessionEdit, SessionEnrol,
              Change
<1>3. CASE Deliver(c) \/ Quit(c) \/ UNCHANGED vars
  BY <1>3 DEF Deliver, Quit, vars
<1>4. QED  BY <1>1, <1>2, <1>3 DEF Next

LEMMA ExportPromises ==
  ASSUME OneInv, NEW c, SessionExportLoad(c) \/ \E p \in Passwords : CommandExport(c, p)
  PROVE  Promise!Export
<1>1. disk # NoVault /\ disk' = disk /\ \E b : bundle' = {b} /\ b.artifact = disk
  <2>1. \E m : Export(disk, m) /\ disk # NoVault /\ disk' = disk
    BY DEF SessionExportLoad, CommandExport
  <2>2. PICK m : Export(disk, m) /\ disk # NoVault /\ disk' = disk
    BY <2>1
  <2> DEFINE b == [artifact |-> disk, head |-> m.ledger, live |-> Live(m.entries)]
  <2>3. bundle' = {b} /\ b.artifact = disk
    BY <2>2 DEF Export
  <2>4. QED  BY <2>2, <2>3
<1>2. disk \in Artifact
  BY <1>1 DEF OneInv, IndInv, DiskSound
<1>3. Durable(disk) # NoVault /\ {Durable(b.artifact) : b \in bundle'} = {Durable(disk)}
  BY <1>1, <1>2, DurableTyped
<1>4. QED  BY <1>1, <1>3 DEF Promise!Export

LEMMA ImportPromises == ASSUME OneInv, NEW c, Importing(c) PROVE Promise!Import
<1>1. PICK b \in bundle : bundle' = bundle /\ disk' = b.artifact
  BY DEF Importing, CommandImportBundle, SessionImportBundle
<1>2. disk' # NoVault
  BY <1>1, SentinelAssumption DEF OneInv, IndInv, BundlesSound, Bundle
<1>3. QED  BY <1>1, <1>2 DEF Promise!Import

LEMMA OneStep ==
  ASSUME OneInv, NEW u, Clients = {u}, [Next]_vars
  PROVE  OneInv' /\ [GrowsOnly]_vars /\ PromiseStep
<1>1. IndInv'
  BY StepKeeps DEF OneInv
<1>2. CASE Importing(u)
  <2>1. Told' /\ (\A d \in Clients : Knows(d)') /\ GrowsOnly
    BY <1>2, ImportTells DEF Importing, GrowsOnly
  <2>2. PromiseStep
    BY <1>2, ImportPromises DEF PromiseStep, Promise!Next
  <2>3. QED  BY <1>1, <2>1, <2>2 DEF OneInv
<1>3. ASSUME Kept PROVE OneInv' /\ GrowsOnly /\ PromiseStep
  <2>1. ASSUME bundle' = bundle PROVE PromiseStep
    <3>1. Exported' = Exported
      BY <2>1 DEF Exported
    <3>2. QED  BY <1>3, <2>1, <3>1 DEF Kept, Keeps, KeepsPromise, PromiseStep, Promise!Next
  <2>2. ASSUME bundle' # bundle PROVE PromiseStep
    BY <2>2, BundleSteps, ExportPromises DEF PromiseStep, Promise!Next
  <2>3. OneInv'
    BY <1>1, <1>3 DEF Kept, OneInv
  <2>4. GrowsOnly
    BY <1>3 DEF Kept, Keeps, GrowsOnly
  <2>5. QED  BY <2>1, <2>2, <2>3, <2>4
<1>4. CASE Quit(u)
  <2>1. Blank.dek = NoKey
    BY DEF Blank
  <2>2. Kept
    BY <1>4, <2>1, Forgets DEF Quit
  <2>3. QED  BY <1>3, <2>2
<1>5. CASE UNCHANGED vars
  <2>1. OneInv'
    BY <1>1, <1>5 DEF vars, OneInv, Told, Knows, Agrees
  <2>2. Stored' = Stored /\ Exported' = Exported
    BY <1>5 DEF vars, Stored, Exported
  <2>3. QED  BY <1>5, <2>1, <2>2 DEF PromiseStep
<1>6. CASE (Command(u) \/ Session(u)) /\ ~Importing(u)
  <2>1. Kept
    BY <1>6, CommandKnows, SessionKnows DEF Importing
  <2>2. QED  BY <1>3, <2>1
<1>7. CASE Deliver(u)
  <2>1. Kept
    BY <1>7, DeliverKnows
  <2>2. QED  BY <1>3, <2>1
<1>8. QED  BY <1>2, <1>4, <1>5, <1>6, <1>7 DEF Next

LEMMA OneInit == Init => OneInv
BY InitHolds DEF Init, OneInv, Told, Knows, Working, Splitting

LEMMA OneAlways ==
  ASSUME NEW u, Clients = {u}
  PROVE  Spec => []OneInv /\ [][GrowsOnly]_vars /\ [][Promise!Next]_<<Stored, Exported>>
<1>1. OneInv /\ [Next]_vars =>
        OneInv' /\ [GrowsOnly]_vars /\ [Promise!Next]_<<Stored, Exported>>
  BY OneStep DEF PromiseStep
<1>2. QED  BY <1>1, OneInit, PTL DEF Spec
-----------------------------------------------------------------------------
\* For one client, whatever it does with commands and sessions and whichever saves
\* raise: no password but that of the last init, rotate or recover opens the vault,
\* and that one does (_seal, rotate_master_password, recover).
THEOREM PasswordAcknowledged ==
  ASSUME NEW u, Clients = {u} PROVE Spec => []PasswordIsAcknowledged
<1>1. OneInv => PasswordIsAcknowledged
  <2> SUFFICES ASSUME OneInv, disk # NoVault, current # NoPassword, NEW p \in Passwords
               PROVE  OpensWith(disk, p) <=> p = current
    BY DEF PasswordIsAcknowledged
  <2>1. disk \in Artifact /\ WellSealed(disk) /\ disk.header.kek = current
    BY DEF OneInv, IndInv, DiskSound, Told
  <2>2. disk.header.dek # NoKey
    BY <2>1 DEF Artifact, Header, Key
  <2>3. QED  BY <2>1, <2>2 DEF OpensWith, Authentic, UnwrapDek, WellSealed
<1>2. QED  BY <1>1, OneAlways, PTL

\* And the shares that were handed out last recover what is stored (enroll_recovery,
\* _seal, which carries the recovery block on).
THEOREM LastSharesRecover ==
  ASSUME NEW u, Clients = {u} PROVE Spec => []SharesRecover
<1>1. OneInv => SharesRecover
  <2> SUFFICES ASSUME OneInv, promised # NoKey
               PROVE  disk # NoVault /\ RecoversWith(disk, promised)
    BY DEF SharesRecover
  <2>1. disk # NoVault /\ disk.header.recovery.key = promised
        /\ disk \in Artifact /\ WellSealed(disk)
    BY DEF OneInv, IndInv, DiskSound, Told
  <2>2. disk.header.recovery # NoRecovery
    BY <2>1 DEF NoRecovery
  <2>3. QED  BY <2>1, <2>2, WellSealedOpens
<1>2. QED  BY <1>1, OneAlways, PTL

\* And no save drops a block of the stored ledger (AuditLedger.append, _persist).
THEOREM LedgerGrows ==
  ASSUME NEW u, Clients = {u} PROVE Spec => LedgerOnlyGrows
<1>1. Spec => [][GrowsOnly]_vars
  BY OneAlways, PTL
<1>2. QED  BY <1>1 DEF LedgerOnlyGrows, GrowsOnly

\* And the whole of it implements VaultPromise: what is stored changes by the histories
\* its ledger records (VaultService, VaultSession._persist), by a bundle, or not at all.
THEOREM PromiseIsKept == ASSUME NEW u, Clients = {u} PROVE Spec => PromiseKept
<1>1. Init => Promise!Init
  BY DEF Init, Promise!Init
<1>2. Spec => [][Promise!Next]_<<Stored, Exported>>
  BY OneAlways, PTL
<1>3. QED  BY <1>1, <1>2, PTL DEF Spec, PromiseKept, Promise!Spec, Stored, Exported
=============================================================================

------------------------------ MODULE Envelope ------------------------------
(***************************************************************************)
(* The values AegisVault stores, and envelope encryption over them.        *)
(*                                                                         *)
(* A random data-encryption key (DEK) seals the document (entries and      *)
(* audit ledger); the key derived from the master password wraps the DEK,  *)
(* and so does the key that the recovery shares rebuild.  Cryptography is  *)
(* ideal: a ciphertext is a record naming the key it was made with, and    *)
(* only that key opens it.  Keys, of both sorts, are numbers drawn from a  *)
(* counter and never drawn twice.  scrypt with the parameters kept in the  *)
(* header is injective, so a key-encryption key is named by its password.  *)
(***************************************************************************)
EXTENDS Integers, Sequences

CONSTANTS Names,       \* entry names, folded to lower case as Vault._names does
          Passwords,   \* master passwords
          EditKinds,   \* audit actions of the edits that keep an entry in place
          NoVault,     \* there is no file at the vault's path
          NoPassword,  \* None
          NoName       \* the block's detail names no entry

NoKey == 0             \* b"", the DEK of a locked session
Key == Nat \ {NoKey}
Maybe(S, none) == S \cup {none}

(***************************************************************************)
(* Entries.  "trashed" is an entry whose deleted_at is set.                *)
(***************************************************************************)
Status == {"absent", "live", "trashed"}
Entries == [Names -> Status]
NoEntries == [n \in Names |-> "absent"]
Live(entries) == {n \in Names : entries[n] = "live"}

\* serialize() writes vault.list(), which leaves the trashed entries out.
Serialize(entries) ==
  [n \in Names |-> IF entries[n] = "live" THEN "live" ELSE "absent"]

(***************************************************************************)
(* Audit blocks: the action and what its detail tells apart.  Hashes and   *)
(* times are the subject of module AuditLedger.                            *)
(***************************************************************************)
NamingActions == {"add", "remove", "trash", "restore", "purge"} \cup EditKinds
VaultActions == {"init", "import", "rotate", "recover", "recovery-enroll"}
Block == [action : NamingActions \cup VaultActions,
          name   : Maybe(Names, NoName),
          count  : Nat]

About(action, n) == [action |-> action, name |-> n, count |-> 0]
Whole(action) == [action |-> action, name |-> NoName, count |-> 0]
Imported(k) == [action |-> "import", name |-> NoName, count |-> k]

\* The blocks that put an entry among the stored ones and those that take it
\* out; an import block counts entries and names none.
Brings(b, n) == b.action \in {"add", "restore"} /\ b.name = n
Takes(b, n) == b.action \in {"trash", "remove", "purge"} /\ b.name = n
MayBring(b, n) == Brings(b, n) \/ (b.action = "import" /\ b.count > 0)

NotTakenSince(ledger, i, n) == \A j \in i..Len(ledger) : ~Takes(ledger[j], n)

(***************************************************************************)
(* Recovery: a second key wraps the DEK and is split k-of-n.               *)
(***************************************************************************)
MaxShares == 255
Recovery == [key : Key, dek : Nat, n : Int, k : Int]
NoRecovery == [key |-> NoKey, dek |-> NoKey, n |-> 0, k |-> 0]

\* split_secret refuses every other pair with ValueError.
Splittable(n, k) == 1 <= k /\ k <= n /\ n <= MaxShares

\* k of the n shares give the key back; fewer give bytes that are no key.
CombineShares(recovery, presented) ==
  IF presented >= recovery.k THEN recovery.key ELSE NoKey

(***************************************************************************)
(* Artifacts: what a repository stores.  The header carries both wraps     *)
(* and is the additional authenticated data of the body.                   *)
(***************************************************************************)
Header == [kek : Passwords, dek : Key, recovery : Maybe(Recovery, NoRecovery)]
Artifact == [header   : Header,
             sealedBy : Key,
             aad      : Header,
             entries  : Entries,
             ledger   : Seq(Block)]

\* What a service call or a session holds in memory.
Opened == [password : Maybe(Passwords, NoPassword),
           dek      : Nat,
           recovery : Maybe(Recovery, NoRecovery),
           entries  : Entries,
           ledger   : Seq(Block)]

\* derive(None) raises, and so does the cipher on a key that is not 32 bytes.
CanSeal(m) == m.password # NoPassword /\ m.dek # NoKey

HeaderOf(m) == [kek |-> m.password, dek |-> m.dek, recovery |-> m.recovery]

\* Slip: the authenticated data is taken before the recovery block is added.
SealAadTooEarly(m) ==
  [header |-> HeaderOf(m), sealedBy |-> m.dek,
   aad |-> [HeaderOf(m) EXCEPT !.recovery = NoRecovery],
   entries |-> Serialize(m.entries), ledger |-> m.ledger]

Seal(m) == [header   |-> HeaderOf(m),
            sealedBy |-> m.dek,
            aad      |-> HeaderOf(m),
            entries  |-> Serialize(m.entries),
            ledger   |-> m.ledger]

UnwrapDek(header, password) == IF header.kek = password THEN header.dek ELSE NoKey

UnwrapRecovery(header, key) ==
  IF key # NoKey /\ header.recovery.key = key THEN header.recovery.dek ELSE NoKey

\* AEAD decryption of the body succeeds with this DEK.
Authentic(a, dek) == dek # NoKey /\ a.sealedBy = dek /\ a.aad = a.header

OpensWith(a, password) == Authentic(a, UnwrapDek(a.header, password))
RecoversWith(a, key) == Authentic(a, UnwrapRecovery(a.header, key))

Open(a, password, dek) == [password |-> password,
                           dek      |-> dek,
                           recovery |-> a.header.recovery,
                           entries  |-> a.entries,
                           ledger   |-> a.ledger]

(***************************************************************************)
(* Assumptions on the constants.                                           *)
(***************************************************************************)
ASSUME EditKindsAssumption ==
  EditKinds \subseteq {"favorite", "unfavorite", "enterprise-meta", "rotate-secret",
                       "share", "unshare", "revoke-share"}
ASSUME SentinelAssumption ==
  /\ NoPassword \notin Passwords
  /\ NoName \notin Names
  /\ NoVault \notin Artifact
=============================================================================

---------------------------- MODULE AuditLedger ----------------------------
(***************************************************************************)
(* The audit ledger of domain/model/audit.py: a chain of blocks, each      *)
(* holding the hash of the one before, and what verify() makes of a ledger *)
(* that somebody edits, reorders, cuts or hashes again.                    *)
(*                                                                         *)
(* The hash is ideal: it is named by the tuple it is computed from, so two *)
(* blocks have one hash only if they agree on all five fields.             *)
(***************************************************************************)
EXTENDS Integers, Sequences

CONSTANTS Records,     \* what a block says: action, detail and timestamp
          MaxBlocks,   \* bound on the length of a ledger
          MaxTampers   \* bound on the number of changes made to it

ASSUME LedgerAssumption == MaxBlocks \in Nat /\ MaxTampers \in Nat

VARIABLES ledger,      \* AuditLedger.blocks
          written,     \* history: the ledger as append() alone makes it
          tampers      \* changes made other than by append()

vars == <<ledger, written, tampers>>

GenesisPrev == <<>>
BlockHash(index, record, prev) == <<index, record, prev>>

Create(index, record, prev) ==
  [index |-> index, record |-> record, prev |-> prev,
   hash |-> BlockHash(index, record, prev)]

Recompute(b) == BlockHash(b.index, b.record, b.prev)

\* Slip: prev is the block's own prev, not the hash of the block before.
HeadHashSkipping(blocks) ==
  IF blocks = <<>> THEN GenesisPrev ELSE blocks[Len(blocks)].prev

HeadHash(blocks) == IF blocks = <<>> THEN GenesisPrev ELSE blocks[Len(blocks)].hash

Appended(blocks, record) ==
  Append(blocks, Create(Len(blocks), record, HeadHash(blocks)))

(***************************************************************************)
(* verify() walks the chain and stops at the first block that does not     *)
(* fit.  Blocks are numbered from 0 in the code and from 1 here.           *)
(***************************************************************************)
PrevOf(blocks, i) == IF i = 1 THEN GenesisPrev ELSE blocks[i - 1].hash

OutOfOrder(blocks, i) == blocks[i].index # i - 1

Unlinked(blocks, i) == blocks[i].prev # PrevOf(blocks, i)

\* Slip: the stored hash is compared with nothing.
AlteredNever(blocks, i) == FALSE

Altered(blocks, i) == Recompute(blocks[i]) # blocks[i].hash

\* Slip: the walk starts at the second block.
BrokenAfterFirst(blocks, i) ==
  i > 1 /\ (OutOfOrder(blocks, i) \/ Unlinked(blocks, i) \/ Altered(blocks, i))

Broken(blocks, i) == OutOfOrder(blocks, i) \/ Unlinked(blocks, i) \/ Altered(blocks, i)

Sound(blocks) == \A i \in 1..Len(blocks) : ~Broken(blocks, i)

FirstBroken(blocks) ==
  CHOOSE i \in 1..Len(blocks) :
    Broken(blocks, i) /\ \A j \in 1..i - 1 : ~Broken(blocks, j)

Accepted == [ok |-> TRUE, at |-> 0, reason |-> "none"]

Verify(blocks) ==
  IF Sound(blocks) THEN Accepted
  ELSE LET i == FirstBroken(blocks) IN
       [ok |-> FALSE, at |-> i,
        reason |-> IF OutOfOrder(blocks, i) THEN "order"
                   ELSE IF Unlinked(blocks, i) THEN "link" ELSE "content"]

(***************************************************************************)
(* The system, and whoever can write to the opened vault.                  *)
(***************************************************************************)
Init == ledger = <<>> /\ written = <<>> /\ tampers = 0

\* append() looks at the head hash only: it extends a broken ledger as well.
Add(record) ==
  /\ Len(written) < MaxBlocks
  /\ ledger' = Appended(ledger, record)
  /\ written' = Appended(written, record)
  /\ UNCHANGED tampers

Tamper(blocks) ==
  /\ tampers < MaxTampers
  /\ tampers' = tampers + 1
  /\ ledger' = blocks
  /\ UNCHANGED written

Edit(i, record) == Tamper([ledger EXCEPT ![i].record = record])

\* The hash of block i is computed again over what it now says.
Rehash(i) == Tamper([ledger EXCEPT ![i].hash = Recompute(ledger[i])])

\* Block i is made to fit the block before it, hash included.
Relink(i) ==
  Tamper([ledger EXCEPT ![i] = Create(i - 1, ledger[i].record, PrevOf(ledger, i))])

Swap(i, j) == Tamper([ledger EXCEPT ![i] = ledger[j], ![j] = ledger[i]])

Delete(i) ==
  Tamper(SubSeq(ledger, 1, i - 1) \o SubSeq(ledger, i + 1, Len(ledger)))

Next ==
  \/ \E r \in Records : Add(r)
  \/ \E i \in 1..Len(ledger) :
       \/ \E r \in Records : Edit(i, r)
       \/ Rehash(i)
       \/ Relink(i)
       \/ Delete(i)
       \/ \E j \in 1..i - 1 : Swap(i, j)

Spec == Init /\ [][Next]_vars
-----------------------------------------------------------------------------
TypeOK ==
  /\ tampers \in 0..MaxTampers
  /\ Len(ledger) <= Len(written) /\ Len(written) <= MaxBlocks
  /\ \A i \in 1..Len(ledger) :
       ledger[i].index \in 0..MaxBlocks - 1 /\ ledger[i].record \in Records

\* What append() writes, verify() accepts.
WrittenIsAccepted == Verify(written).ok /\ (tampers = 0 => ledger = written)

\* Whoever remembers the head hash of the ledger (verify prints it, a sync
\* bundle carries it) notices every change, a cut tail included.
HeadHashPinsHistory ==
  Verify(ledger).ok /\ HeadHash(ledger) = HeadHash(written) => ledger = written

\* One edited block is the one that verify() names.
EditedBlockIsNamed ==
  [][\A i \in 1..Len(ledger) : \A r \in Records :
       Edit(i, r) /\ Verify(ledger).ok /\ ledger' # ledger =>
         Verify(ledger)' = [ok |-> FALSE, at |-> i, reason |-> "content"]]_vars

\* The figure in the README: the block after an edited one is named.
FollowingBlockIsNamed ==
  [][\A i \in 1..Len(ledger) - 1 : \A r \in Records :
       Edit(i, r) /\ Verify(ledger).ok /\ ledger' # ledger => Verify(ledger)'.at = i + 1]_vars
=============================================================================

---------------------------- MODULE DomainProofs ----------------------------
(***************************************************************************)
(* The two services of the domain layer that are algorithms on data of any *)
(* size: the audit ledger and the recovery shares.                         *)
(*                                                                         *)
(* Induction is taken from the least member of a set of natural numbers.   *)
(***************************************************************************)
EXTENDS AuditLedger, RecoveryShares,
        SequenceTheorems, FiniteSetTheorems, WellFoundedInduction, TLAPS

\* A set of natural numbers has a least member.
LEMMA LeastMember ==
  ASSUME NEW T, T \subseteq Nat, T # {}
  PROVE  \E x \in T : \A y \in T : ~(y < x)
<1>1. PICK x \in T : \A y \in T : ~(<<y, x>> \in OpToRel(<, Nat))
  BY NatLessThanWellFounded, WFMin
<1>2. ASSUME NEW y \in T, y < x  PROVE <<y, x>> \in OpToRel(<, Nat)
  BY <1>2 DEF OpToRel
<1>3. QED  BY <1>1, <1>2
-----------------------------------------------------------------------------
(***************************************************************************)
(* The audit ledger: verify() accepts what append() writes, names an       *)
(* edited block, and the head hash alone tells a ledger from every other   *)
(* that verify() accepts, for ledgers of any length changed any number of  *)
(* times.                                                                  *)
(*                                                                         *)
(* A block holds the hash of the one before, so there is no set of all     *)
(* blocks to type a ledger with: it is a sequence over some set.           *)
(***************************************************************************)
IsBlock(b) ==
  b = [index |-> b.index, record |-> b.record, prev |-> b.prev, hash |-> b.hash]

IsLedger(blocks) ==
  /\ \E S : blocks \in Seq(S)
  /\ \A i \in 1..Len(blocks) : IsBlock(blocks[i])

IndInv ==
  /\ IsLedger(ledger)
  /\ IsLedger(written)
  /\ Sound(written)
  /\ tampers \in Nat
  /\ tampers = 0 => ledger = written
-----------------------------------------------------------------------------
\* append() adds a block to a ledger.
LEMMA AppendedLedger ==
  ASSUME NEW blocks, IsLedger(blocks), NEW record
  PROVE  /\ IsLedger(Appended(blocks, record))
         /\ Len(Appended(blocks, record)) = Len(blocks) + 1
         /\ \A i \in 1..Len(blocks) : Appended(blocks, record)[i] = blocks[i]
         /\ Appended(blocks, record)[Len(blocks) + 1]
              = Create(Len(blocks), record, HeadHash(blocks))
<1> DEFINE b == Create(Len(blocks), record, HeadHash(blocks))
           A == Append(blocks, b)
<1>1. PICK S : blocks \in Seq(S)
  BY DEF IsLedger
<1>2. blocks \in Seq(S \cup {b}) /\ b \in S \cup {b}
  BY <1>1
<1>3. IsBlock(b)
  BY DEF IsBlock, Create
<1> HIDE DEF b
<1>4. /\ A \in Seq(S \cup {b})
      /\ Len(A) = Len(blocks) + 1
      /\ \A i \in 1..Len(blocks) : A[i] = blocks[i]
      /\ A[Len(blocks) + 1] = b
  BY <1>2
<1>5. Len(blocks) \in Nat
  BY <1>1
<1>6. \A i \in 1..Len(A) : IsBlock(A[i])
  BY <1>3, <1>4, <1>5 DEF IsLedger
<1>7. Appended(blocks, record) = A
  BY DEF Appended, b
<1>8. QED  BY <1>4, <1>6, <1>7 DEF IsLedger, b

\* append() extends a chain that verify() accepts to one that it accepts.
LEMMA AppendedSound ==
  ASSUME NEW blocks, IsLedger(blocks), Sound(blocks), NEW record
  PROVE  Sound(Appended(blocks, record))
<1> DEFINE A == Appended(blocks, record)
           last == Len(blocks) + 1
<1>1. /\ Len(A) = last
      /\ \A i \in 1..Len(blocks) : A[i] = blocks[i]
      /\ A[last] = Create(Len(blocks), record, HeadHash(blocks))
      /\ Len(blocks) \in Nat
  BY AppendedLedger DEF IsLedger
<1> HIDE DEF A
<1>2. ASSUME NEW i \in 1..Len(blocks)
      PROVE  ~Broken(A, i)
  <2>1. PrevOf(A, i) = PrevOf(blocks, i)
    BY <1>1 DEF PrevOf
  <2>2. QED  BY <1>1, <2>1 DEF Sound, Broken, OutOfOrder, Unlinked, Altered
<1>3. ~Broken(A, last)
  <2>1. PrevOf(A, last) = HeadHash(blocks)
    <3>1. CASE blocks = <<>>
      BY <3>1, <1>1 DEF PrevOf, HeadHash
    <3>2. CASE blocks # <<>>
      <4>1. Len(blocks) \in 1..Len(blocks) /\ last # 1
        BY <3>2, <1>1 DEF IsLedger
      <4>2. QED  BY <3>2, <4>1, <1>1 DEF PrevOf, HeadHash
    <3>3. QED  BY <3>1, <3>2
  <2>2. QED
    BY <1>1, <2>1 DEF Broken, OutOfOrder, Unlinked, Altered, Recompute, Create
<1>4. QED  BY <1>1, <1>2, <1>3 DEF Sound, A

\* A changed field leaves a block a block.
LEMMA ChangedBlock ==
  ASSUME NEW b, IsBlock(b), NEW x
  PROVE  /\ IsBlock([b EXCEPT !.record = x]) /\ IsBlock([b EXCEPT !.hash = x])
         /\ [b EXCEPT !.record = x]
              = [index |-> b.index, record |-> x, prev |-> b.prev, hash |-> b.hash]
<1> DEFINE c == [index |-> b.index, record |-> b.record, prev |-> b.prev, hash |-> b.hash]
<1>1. b = c
  BY DEF IsBlock
<1>2. [c EXCEPT !.record = x]
        = [index |-> b.index, record |-> x, prev |-> b.prev, hash |-> b.hash]
  OBVIOUS
<1>3. [c EXCEPT !.hash = x]
        = [index |-> b.index, record |-> b.record, prev |-> b.prev, hash |-> x]
  OBVIOUS
<1> HIDE DEF c
<1>4. QED  BY <1>1, <1>2, <1>3 DEF IsBlock

\* Putting a block in place of another makes a ledger.
LEMMA ReplacedLedger ==
  ASSUME NEW blocks, IsLedger(blocks), NEW i \in 1..Len(blocks), NEW b, IsBlock(b)
  PROVE  LET R == [blocks EXCEPT ![i] = b] IN
         /\ IsLedger(R)
         /\ Len(R) = Len(blocks)
         /\ R[i] = b
         /\ \A j \in 1..Len(blocks) : j # i => R[j] = blocks[j]
<1> DEFINE R == [blocks EXCEPT ![i] = b]
<1>1. PICK S : blocks \in Seq(S)
  BY DEF IsLedger
<1>2. blocks \in Seq(S \cup {b}) /\ b \in S \cup {b}
  BY <1>1
<1>3. /\ R \in Seq(S \cup {b})
      /\ Len(R) = Len(blocks)
      /\ R[i] = b
      /\ \A j \in 1..Len(blocks) : j # i => R[j] = blocks[j]
  BY <1>2
<1>4. QED  BY <1>3 DEF IsLedger

\* Taking a block out makes a ledger.
LEMMA DeletedLedger ==
  ASSUME NEW blocks, IsLedger(blocks), NEW i \in 1..Len(blocks)
  PROVE  IsLedger(SubSeq(blocks, 1, i - 1) \o SubSeq(blocks, i + 1, Len(blocks)))
<1> DEFINE before == SubSeq(blocks, 1, i - 1)
           after == SubSeq(blocks, i + 1, Len(blocks))
<1>1. PICK S : blocks \in Seq(S)
  BY DEF IsLedger
<1>2. /\ before \in Seq(S) /\ Len(before) = i - 1
      /\ \A j \in 1..i - 1 : before[j] = blocks[j]
  BY <1>1
<1>3. /\ after \in Seq(S) /\ Len(after) = Len(blocks) - i
      /\ \A j \in 1..Len(blocks) - i : after[j] = blocks[j + i]
  BY <1>1
<1> HIDE DEF before, after
<1>4. /\ before \o after \in Seq(S)
      /\ Len(before \o after) = Len(before) + Len(after)
      /\ \A j \in 1..Len(before) + Len(after) :
           (before \o after)[j]
             = IF j <= Len(before) THEN before[j] ELSE after[j - Len(before)]
  BY <1>2, <1>3, ConcatProperties
<1>5. Len(blocks) \in Nat
  BY <1>1
<1>6. ASSUME NEW j \in 1..Len(before \o after)
      PROVE  IsBlock((before \o after)[j])
  <2>1. j \in 1..Len(blocks) - 1
    BY <1>2, <1>3, <1>4, <1>5
  <2>2. CASE j < i
    <3>1. (before \o after)[j] = blocks[j] /\ j \in 1..Len(blocks)
      BY <2>1, <2>2, <1>2, <1>3, <1>4, <1>5
    <3>2. QED  BY <3>1 DEF IsLedger
  <2>3. CASE j >= i
    <3>1. j - (i - 1) \in 1..Len(blocks) - i
      BY <2>1, <2>3, <1>5
    <3>2. (before \o after)[j] = after[j - (i - 1)]
      BY <2>1, <2>3, <1>2, <1>3, <1>4, <1>5
    <3>3. after[j - (i - 1)] = blocks[j + 1] /\ j + 1 \in 1..Len(blocks)
      BY <2>1, <3>1, <1>3, <1>5
    <3>4. QED  BY <3>2, <3>3 DEF IsLedger
  <2>4. QED  BY <2>1, <2>2, <2>3
<1>7. IsLedger(before \o after)
  BY <1>4, <1>6 DEF IsLedger
<1>8. QED  BY <1>7 DEF before, after
-----------------------------------------------------------------------------
\* Whatever is appended or tampered with, the ledger stays a sequence of blocks
\* and what was written stays a chain.
LEMMA InitHolds == Init => IndInv
BY DEF Init, IndInv, IsLedger, Sound

LEMMA StepKeeps == IndInv /\ [Next]_vars => IndInv'
<1> SUFFICES ASSUME IndInv, [Next]_vars
             PROVE  IndInv'
  OBVIOUS
<1> USE DEF IndInv
<1>1. ASSUME NEW r \in Records, Add(r)  PROVE IndInv'
  BY <1>1, AppendedLedger, AppendedSound DEF Add
<1>2. ASSUME NEW blocks, IsLedger(blocks), Tamper(blocks)  PROVE IndInv'
  BY <1>2 DEF Tamper
<1>3. ASSUME NEW i \in 1..Len(ledger), NEW r \in Records, Edit(i, r)  PROVE IndInv'
  <2>1. IsBlock([ledger[i] EXCEPT !.record = r])
    BY ChangedBlock DEF IsLedger
  <2>2. [ledger EXCEPT ![i].record = r] = [ledger EXCEPT ![i] = [ledger[i] EXCEPT !.record = r]]
    OBVIOUS
  <2>3. QED  BY <1>2, <1>3, <2>1, <2>2, ReplacedLedger DEF Edit
<1>4. ASSUME NEW i \in 1..Len(ledger), Rehash(i)  PROVE IndInv'
  <2> DEFINE h == Recompute(ledger[i])
  <2> HIDE DEF h
  <2>1. IsBlock([ledger[i] EXCEPT !.hash = h])
    BY ChangedBlock DEF IsLedger
  <2>2. [ledger EXCEPT ![i].hash = h] = [ledger EXCEPT ![i] = [ledger[i] EXCEPT !.hash = h]]
    OBVIOUS
  <2>3. QED  BY <1>2, <1>4, <2>1, <2>2, ReplacedLedger DEF Rehash, h
<1>5. ASSUME NEW i \in 1..Len(ledger), Relink(i)  PROVE IndInv'
  <2>1. IsBlock(Create(i - 1, ledger[i].record, PrevOf(ledger, i)))
    BY DEF IsBlock, Create
  <2>2. QED  BY <1>2, <1>5, <2>1, ReplacedLedger DEF Relink
<1>6. ASSUME NEW i \in 1..Len(ledger), Delete(i)  PROVE IndInv'
  BY <1>2, <1>6, DeletedLedger DEF Delete
<1>7. ASSUME NEW i \in 1..Len(ledger), NEW j \in 1..i - 1, Swap(i, j)  PROVE IndInv'
  <2> DEFINE once == [ledger EXCEPT ![i] = ledger[j]]
  <2>1. Len(ledger) \in Nat
    BY DEF IsLedger
  <2>2. j \in 1..Len(ledger) /\ IsBlock(ledger[i]) /\ IsBlock(ledger[j])
    BY <2>1 DEF IsLedger
  <2>3. IsLedger(once) /\ Len(once) = Len(ledger)
    BY <2>2, ReplacedLedger
  <2>4. IsLedger([once EXCEPT ![j] = ledger[i]])
    BY <2>2, <2>3, ReplacedLedger
  <2>5. QED  BY <1>2, <1>7, <2>4 DEF Swap
<1>8. CASE UNCHANGED vars
  BY <1>8 DEF vars
<1>9. QED  BY <1>1, <1>3, <1>4, <1>5, <1>6, <1>7, <1>8 DEF Next

LEMMA IndInvAlways == Spec => []IndInv
BY InitHolds, StepKeeps, PTL DEF Spec
-----------------------------------------------------------------------------
\* What append() writes, verify() accepts: no legal history is reported as
\* tampered with.
THEOREM WrittenAccepted == Spec => []WrittenIsAccepted
<1>1. IndInv => WrittenIsAccepted
  BY DEF IndInv, WrittenIsAccepted, Verify, Accepted
<1>2. QED  BY <1>1, IndInvAlways, PTL

\* Editing one block of a ledger that verify() accepts makes that block, and no
\* other, the one that does not fit.
LEMMA EditBreaks ==
  ASSUME IsLedger(ledger), Sound(ledger), NEW i \in 1..Len(ledger), NEW r,
         [ledger EXCEPT ![i].record = r] # ledger
  PROVE  LET E == [ledger EXCEPT ![i].record = r] IN
         /\ Len(E) = Len(ledger)
         /\ \A j \in 1..Len(ledger) : Broken(E, j) <=> j = i
         /\ ~OutOfOrder(E, i) /\ ~Unlinked(E, i)
<1> DEFINE b == [ledger[i] EXCEPT !.record = r]
           E == [ledger EXCEPT ![i] = b]
<1>1. ledger[i] = [index |-> ledger[i].index, record |-> ledger[i].record,
                   prev |-> ledger[i].prev, hash |-> ledger[i].hash]
  BY DEF IsLedger, IsBlock
<1>2. /\ IsBlock(b) /\ b.index = ledger[i].index /\ b.record = r
      /\ b.prev = ledger[i].prev /\ b.hash = ledger[i].hash
  BY <1>1 DEF IsBlock
<1>3. [ledger EXCEPT ![i].record = r] = E
  OBVIOUS
<1>4. ledger[i].record # r
  <2>1. SUFFICES ASSUME ledger[i].record = r  PROVE E = ledger
    BY <1>3
  <2>2. b = ledger[i]
    BY <1>1, <2>1
  <2>3. PICK S : ledger \in Seq(S)
    BY DEF IsLedger
  <2>4. QED  BY <2>2, <2>3
<1> HIDE DEF b
<1>5. Len(E) = Len(ledger) /\ E[i] = b /\ \A j \in 1..Len(ledger) : j # i => E[j] = ledger[j]
  BY <1>2, ReplacedLedger
<1> HIDE DEF E
<1>6. Len(ledger) \in Nat
  BY DEF IsLedger
<1>7. ASSUME NEW j \in 1..Len(ledger)
      PROVE  E[j].hash = ledger[j].hash /\ E[j].prev = ledger[j].prev /\ E[j].index = ledger[j].index
  BY <1>2, <1>5
<1>8. ASSUME NEW j \in 1..Len(ledger)
      PROVE  ~OutOfOrder(E, j) /\ ~Unlinked(E, j)
  <2>1. PrevOf(E, j) = PrevOf(ledger, j)
    BY <1>6, <1>7 DEF PrevOf
  <2>2. QED  BY <1>7, <2>1 DEF Sound, Broken, OutOfOrder, Unlinked
<1>9. Altered(E, i)
  <2>1. Recompute(ledger[i]) = ledger[i].hash
    BY DEF Sound, Broken, Altered
  <2>2. Recompute(b) # Recompute(ledger[i])
    BY <1>2, <1>4 DEF Recompute, BlockHash
  <2>3. QED  BY <1>2, <1>5, <2>1, <2>2 DEF Altered
<1>10. ASSUME NEW j \in 1..Len(ledger), j # i  PROVE ~Altered(E, j)
  BY <1>5, <1>10 DEF Sound, Broken, Altered
<1>11. QED  BY <1>3, <1>5, <1>8, <1>9, <1>10 DEF Broken

\* verify() names the edited block itself, as one whose content was altered:
\* not the block after it, whatever the length of the ledger.
THEOREM EditNamed == Spec => EditedBlockIsNamed
<1>1. ASSUME IndInv, NEW i \in 1..Len(ledger), NEW r \in Records,
             Edit(i, r), Verify(ledger).ok, ledger' # ledger
      PROVE  Verify(ledger)' = [ok |-> FALSE, at |-> i, reason |-> "content"]
  <2>1. Sound(ledger)
    BY <1>1 DEF Verify, Accepted
  <2>2. ledger' = [ledger EXCEPT ![i].record = r]
    BY <1>1 DEF Edit, Tamper
  <2>3. /\ Len(ledger') = Len(ledger)
        /\ \A j \in 1..Len(ledger) : Broken(ledger', j) <=> j = i
        /\ ~OutOfOrder(ledger', i) /\ ~Unlinked(ledger', i)
    BY <1>1, <2>1, <2>2, EditBreaks DEF IndInv
  <2>4. ~Sound(ledger')
    BY <2>3 DEF Sound
  <2>5. FirstBroken(ledger') = i
    BY <2>3 DEF FirstBroken
  <2>6. QED  BY <2>3, <2>4, <2>5 DEF Verify
<1>2. IndInv /\ [Next]_vars =>
        [\A i \in 1..Len(ledger) : \A r \in Records :
           Edit(i, r) /\ Verify(ledger).ok /\ ledger' # ledger =>
             Verify(ledger)' = [ok |-> FALSE, at |-> i, reason |-> "content"]]_vars
  BY <1>1
<1>3. QED  BY <1>2, IndInvAlways, PTL DEF Spec, EditedBlockIsNamed
-----------------------------------------------------------------------------
\* Blocks have one hash only if they agree on what it is computed from.
LEMMA IdealHash ==
  \A x, y, z, u, v, w :
    BlockHash(x, y, z) = BlockHash(u, v, w) => x = u /\ y = v /\ z = w
BY DEF BlockHash

\* Two blocks that fit their places and have one hash are one block.
LEMMA SameHash ==
  ASSUME NEW A, NEW B, IsLedger(A), IsLedger(B), Sound(A), Sound(B),
         NEW i \in 1..Len(A), NEW j \in 1..Len(B), A[i].hash = B[j].hash
  PROVE  i = j /\ A[i] = B[j] /\ PrevOf(A, i) = PrevOf(B, j)
<1>1. /\ A[i].hash = BlockHash(A[i].index, A[i].record, A[i].prev)
      /\ B[j].hash = BlockHash(B[j].index, B[j].record, B[j].prev)
  BY DEF Sound, Broken, Altered, Recompute
<1>2. A[i].index = B[j].index /\ A[i].record = B[j].record /\ A[i].prev = B[j].prev
  <2>1. BlockHash(A[i].index, A[i].record, A[i].prev) = BlockHash(B[j].index, B[j].record, B[j].prev)
    BY <1>1
  <2>2. QED  BY ONLY <2>1, IdealHash
<1>3. A[i].index = i - 1 /\ B[j].index = j - 1
  BY DEF Sound, Broken, OutOfOrder
<1>4. A[i].prev = PrevOf(A, i) /\ B[j].prev = PrevOf(B, j)
  BY DEF Sound, Broken, Unlinked
<1>5. Len(A) \in Nat /\ Len(B) \in Nat
  BY DEF IsLedger
<1>6. A[i] = B[j]
  BY <1>2 DEF IsLedger, IsBlock
<1>7. QED  BY <1>2, <1>3, <1>4, <1>5, <1>6

\* No hash is the one that the first block holds for the block before it.
LEMMA NotGenesis ==
  ASSUME NEW A, Sound(A), NEW i \in 1..Len(A)
  PROVE  A[i].hash # GenesisPrev
<1>1. A[i].hash = <<A[i].index, A[i].record, A[i].prev>>
  BY DEF Sound, Broken, Altered, Recompute, BlockHash
<1>2. \A x, y, z : <<x, y, z>> # <<>>
  OBVIOUS
<1>3. QED  BY <1>1, <1>2 DEF GenesisPrev

\* The walk back from the head: in two ledgers with one head hash the last
\* blocks are the same, so the hashes before them are, and so on to the first.
\* Were they to differ, the difference nearest to the head would be none.
LEMMA SameHead ==
  ASSUME NEW A, NEW B, IsLedger(A), IsLedger(B), Sound(A), Sound(B),
         HeadHash(A) = HeadHash(B)
  PROVE  A = B
<1> DEFINE n == Len(A)
           Differ == {k \in 0..n - 1 : A[n - k] # B[n - k]}
<1>1. PICK S, R : A \in Seq(S) /\ B \in Seq(R)
  BY DEF IsLedger
<1>2. n \in Nat /\ Len(B) \in Nat
  BY <1>1
<1>3. (A = <<>> <=> n = 0) /\ (B = <<>> <=> Len(B) = 0)
  BY <1>1
<1>4. A # <<>> => HeadHash(A) # GenesisPrev
  BY <1>2, <1>3, NotGenesis DEF HeadHash
<1>5. B # <<>> => HeadHash(B) # GenesisPrev
  BY <1>2, <1>3, NotGenesis DEF HeadHash
<1>6. A = <<>> <=> B = <<>>
  BY <1>4, <1>5 DEF HeadHash
<1>7. ASSUME A # <<>>
      PROVE  n \in 1..n /\ Len(B) \in 1..Len(B) /\ A[n].hash = B[Len(B)].hash
  BY <1>7, <1>2, <1>3, <1>6 DEF HeadHash
<1>8. n = Len(B) /\ (A # <<>> => A[n] = B[n])
  <2>1. CASE A = <<>>
    BY <2>1, <1>3, <1>6
  <2>2. CASE A # <<>>
    BY <2>2, <1>7, SameHash
  <2>3. QED  BY <2>1, <2>2
<1>9. Differ = {}
  <2>1. SUFFICES ASSUME Differ # {}  PROVE FALSE
    OBVIOUS
  <2>2. Differ \subseteq Nat
    BY <1>2
  <2>3. PICK k \in Differ : \A y \in Differ : ~(y < k)
    <3> HIDE DEF Differ
    <3>1. QED  BY <2>1, <2>2, LeastMember
  <2>4. k \in 0..n - 1 /\ A[n - k] # B[n - k]
    OBVIOUS
  <2> DEFINE i == n - k
  <2>5. k # 0
    BY <2>4, <1>2, <1>3, <1>8
  <2>6. A[n - (k - 1)] = B[n - (k - 1)]
    <3>1. k - 1 \in 0..n - 1 /\ k - 1 < k
      BY <2>4, <2>5, <1>2
    <3>2. k - 1 \notin Differ
      BY <2>3, <3>1
    <3>3. QED  BY <3>1, <3>2
  <2>7. i \in 1..n /\ i + 1 \in 1..n /\ n - (k - 1) = i + 1 /\ i + 1 # 1 /\ (i + 1) - 1 = i
    BY <2>4, <2>5, <1>2
  <2> HIDE DEF i, Differ
  <2>8. A[i + 1].hash = B[i + 1].hash
    BY <2>6, <2>7
  <2>9. PrevOf(A, i + 1) = PrevOf(B, i + 1)
    BY <2>7, <2>8, <1>8, SameHash
  <2>10. A[i].hash = B[i].hash
    BY <2>7, <2>9 DEF PrevOf
  <2>11. A[i] = B[i]
    BY <2>7, <2>10, <1>8, SameHash
  <2>12. QED  BY <2>4, <2>11 DEF i
<1>10. ASSUME NEW i \in 1..n  PROVE A[i] = B[i]
  <2>1. n - i \in 0..n - 1 /\ n - (n - i) = i
    BY <1>2
  <2>2. QED  BY <2>1, <1>9
<1>11. QED  BY <1>1, <1>8, <1>10, SeqEqual

\* Whoever remembers the head hash of what was written notices every other
\* ledger that verify() accepts: none has that head hash.
THEOREM HeadPins == Spec => []HeadHashPinsHistory
<1>1. IndInv => HeadHashPinsHistory
  BY SameHead DEF IndInv, HeadHashPinsHistory, Verify, Accepted
<1>2. QED  BY <1>1, IndInvAlways, PTL
-----------------------------------------------------------------------------
(***************************************************************************)
(* The recovery shares.                                                    *)
(***************************************************************************)
\* Induction, over the members of a set.
LEMMA Induction ==
  ASSUME NEW S, 0 \in S, \A n \in Nat : n \in S => n + 1 \in S
  PROVE  \A n \in Nat : n \in S
<1> DEFINE T == {n \in Nat : n \notin S}
<1>1. SUFFICES ASSUME T # {}  PROVE FALSE
  OBVIOUS
<1>2. PICK x \in T : \A y \in T : ~(y < x)
  BY <1>1, LeastMember
<1>3. x # 0 /\ x \in Nat
  OBVIOUS
<1>4. x - 1 \in Nat /\ x - 1 < x /\ (x - 1) + 1 = x
  BY <1>3
<1>5. x - 1 \in S
  BY <1>2, <1>4
<1>6. QED  BY <1>4, <1>5
-----------------------------------------------------------------------------
\* The first n turns of a loop, with the byte before the first.
Turns(n, start, turn, f) ==
  f = [i \in 0..n |-> IF i = 0 THEN start ELSE turn[i][f[i - 1]]]

\* Two records of the same loop agree as far as both go.
LEMMA TurnsAgree ==
  ASSUME NEW start, NEW turn, NEW m \in Nat, NEW n \in Nat, NEW f, NEW g,
         Turns(m, start, turn, f), Turns(n, start, turn, g)
  PROVE  \A i \in Nat : i <= m /\ i <= n => f[i] = g[i]
<1> DEFINE S == {i \in Nat : i <= m /\ i <= n => f[i] = g[i]}
<1>1. 0 \in S
  BY DEF Turns
<1>2. ASSUME NEW i \in Nat, i \in S, i + 1 <= m, i + 1 <= n
      PROVE  f[i + 1] = g[i + 1]
  <2>1. i + 1 \in 0..m /\ i + 1 \in 0..n /\ i + 1 # 0 /\ (i + 1) - 1 = i /\ i <= m /\ i <= n
    BY <1>2
  <2>2. f[i] = g[i]
    BY <1>2, <2>1
  <2>3. f[i + 1] = turn[i + 1][f[i]]
    BY <2>1, SMT DEF Turns
  <2>4. g[i + 1] = turn[i + 1][g[i]]
    BY <2>1, SMT DEF Turns
  <2>5. QED  BY <2>2, <2>3, <2>4
<1>3. \A i \in Nat : i \in S => i + 1 \in S
  BY <1>2
<1> HIDE DEF S
<1>4. \A i \in Nat : i \in S
  BY <1>1, <1>3, Induction
<1>5. QED  BY <1>4 DEF S

\* There is such a record for every number of turns.
LEMMA TurnsExist ==
  ASSUME NEW start, NEW turn
  PROVE  \A n \in Nat : \E f : Turns(n, start, turn, f)
<1> DEFINE S == {n \in Nat : \E f : Turns(n, start, turn, f)}
<1>1. 0 \in S
  <2>1. Turns(0, start, turn, [i \in 0..0 |-> start])
    BY DEF Turns
  <2>2. QED  BY <2>1
<1>2. ASSUME NEW n \in Nat, n \in S  PROVE n + 1 \in S
  <2>1. PICK f : Turns(n, start, turn, f)
    BY <1>2
  <2> DEFINE g == [i \in 0..(n + 1) |-> IF i = n + 1 THEN turn[n + 1][f[n]] ELSE f[i]]
  <2>2. ASSUME NEW i \in 0..(n + 1)
        PROVE  g[i] = IF i = 0 THEN start ELSE turn[i][g[i - 1]]
    <3>1. CASE i = n + 1
      <4>1. i # 0 /\ n \in 0..(n + 1) /\ i - 1 = n /\ n # n + 1
        BY <3>1
      <4>2. QED  BY <3>1, <4>1
    <3>2. CASE i # n + 1
      <4>1. i \in 0..n /\ g[i] = f[i]
        BY <3>2
      <4>2. f[i] = IF i = 0 THEN start ELSE turn[i][f[i - 1]]
        BY <2>1, <4>1 DEF Turns
      <4>3. i # 0 => g[i - 1] = f[i - 1]
        <5>1. i # 0 => i - 1 \in 0..(n + 1) /\ i - 1 # n + 1
          BY <4>1
        <5>2. QED  BY <5>1
      <4>4. QED  BY <4>1, <4>2, <4>3
    <3>3. QED  BY <3>1, <3>2
  <2>3. g = [i \in 0..(n + 1) |-> g[i]]
    OBVIOUS
  <2> HIDE DEF g
  <2>4. Turns(n + 1, start, turn, g)
    BY <2>2, <2>3 DEF Turns
  <2>5. QED  BY <2>4
<1>3. QED
  <2> HIDE DEF S
  <2>1. \A n \in Nat : n \in S
    BY <1>1, <1>2, Induction
  <2>2. QED  BY <2>1 DEF S

IsLoop(start, turn, b) ==
  b = [i \in Nat |-> IF i = 0 THEN start ELSE turn[i][b[i - 1]]]

\* And there is one for all of them, which the definition of a loop chooses.
LEMMA LoopExists ==
  ASSUME NEW start, NEW turn
  PROVE  \E b : IsLoop(start, turn, b)
<1> DEFINE A(n) == CHOOSE f : Turns(n, start, turn, f)
           b == [i \in Nat |-> A(i)[i]]
<1>1. \A n \in Nat : Turns(n, start, turn, A(n))
  BY TurnsExist
<1> HIDE DEF A
<1>2. ASSUME NEW i \in Nat  PROVE b[i] = IF i = 0 THEN start ELSE turn[i][b[i - 1]]
  <2>1. b[i] = IF i = 0 THEN start ELSE turn[i][A(i)[i - 1]]
    BY <1>1 DEF Turns
  <2>2. CASE i # 0
    <3>1. i - 1 \in Nat /\ i - 1 <= i
      BY <2>2
    <3>2. A(i)[i - 1] = A(i - 1)[i - 1]
      BY <3>1, <1>1, TurnsAgree
    <3>3. QED  BY <2>1, <3>1, <3>2
  <2>3. QED  BY <2>1, <2>2
<1>3. b = [i \in Nat |-> b[i]]
  OBVIOUS
<1> HIDE DEF b
<1>4. IsLoop(start, turn, b)
  BY <1>2, <1>3 DEF IsLoop
<1>5. QED  BY <1>4

\* What a loop does before its first turn, and in its last.
LEMMA LoopTurns ==
  ASSUME NEW start, NEW turn
  PROVE  /\ Loop(0, start, turn) = start
         /\ \A n \in Nat : Loop(n + 1, start, turn) = turn[n + 1][Loop(n, start, turn)]
<1> DEFINE b == CHOOSE f : IsLoop(start, turn, f)
<1>1. IsLoop(start, turn, b)
  BY LoopExists
<1>2. \A n : Loop(n, start, turn) = b[n]
  BY DEF Loop, IsLoop
<1> HIDE DEF b
<1>3. b[0] = start
  BY <1>1 DEF IsLoop
<1>4. ASSUME NEW n \in Nat  PROVE b[n + 1] = turn[n + 1][b[n]]
  <2>1. n + 1 \in Nat /\ n + 1 # 0 /\ (n + 1) - 1 = n
    OBVIOUS
  <2>2. b[n + 1] = IF n + 1 = 0 THEN start ELSE turn[n + 1][b[(n + 1) - 1]]
    BY <1>1, <2>1 DEF IsLoop
  <2>3. QED  BY <2>1, <2>2
<1>5. QED  BY <1>2, <1>3, <1>4
\* The same, a fact each.
LEMMA LoopTurn ==
  ASSUME NEW n \in Nat, NEW start, NEW turn
  PROVE  Loop(n + 1, start, turn) = turn[n + 1][Loop(n, start, turn)]
BY LoopTurns

LEMMA LoopStart ==
  ASSUME NEW start, NEW turn
  PROVE  Loop(0, start, turn) = start
BY LoopTurns
-----------------------------------------------------------------------------
\* A loop whose turns keep to the bytes gives a byte.
LEMMA LoopByte ==
  ASSUME NEW n \in Nat, NEW start \in Byte, NEW turn,
         \A i \in 1..n : \A y \in Byte : turn[i][y] \in Byte
  PROVE  Loop(n, start, turn) \in Byte
<1> DEFINE S == {m \in Nat : m <= n => Loop(m, start, turn) \in Byte}
<1>1. 0 \in S
  BY LoopStart
<1>2. ASSUME NEW m \in Nat, m \in S  PROVE m + 1 \in S
  <2>1. SUFFICES ASSUME m + 1 <= n  PROVE Loop(m + 1, start, turn) \in Byte
    OBVIOUS
  <2>2. m + 1 \in 1..n /\ Loop(m, start, turn) \in Byte
    BY <1>2, <2>1
  <2>3. Loop(m + 1, start, turn) = turn[m + 1][Loop(m, start, turn)]
    BY LoopTurn
  <2>4. QED  BY <2>2, <2>3
<1> HIDE DEF S
<1>3. n \in S
  BY <1>1, <1>2, Induction
<1>4. QED  BY <1>3 DEF S

\* Only what the turns do counts.
LEMMA LoopSame ==
  ASSUME NEW n \in Nat, NEW start \in Byte, NEW turn, NEW other,
         \A i \in 1..n : \A y \in Byte : turn[i][y] \in Byte /\ other[i][y] = turn[i][y]
  PROVE  Loop(n, start, other) = Loop(n, start, turn)
<1> DEFINE S == {m \in Nat : m <= n => /\ Loop(m, start, turn) \in Byte
                                       /\ Loop(m, start, other) = Loop(m, start, turn)}
<1>1. 0 \in S
  BY LoopStart
<1>2. ASSUME NEW m \in Nat, m \in S  PROVE m + 1 \in S
  <2>1. SUFFICES ASSUME m + 1 <= n
                 PROVE  /\ Loop(m + 1, start, turn) \in Byte
                        /\ Loop(m + 1, start, other) = Loop(m + 1, start, turn)
    OBVIOUS
  <2>2. m + 1 \in 1..n /\ Loop(m, start, turn) \in Byte
        /\ Loop(m, start, other) = Loop(m, start, turn)
    BY <1>2, <2>1
  <2>3. Loop(m + 1, start, turn) = turn[m + 1][Loop(m, start, turn)]
    BY LoopTurn
  <2>4. Loop(m + 1, start, other) = other[m + 1][Loop(m, start, other)]
    BY LoopTurn
  <2>5. QED  BY <2>2, <2>3, <2>4
<1> HIDE DEF S
<1>3. n \in S
  BY <1>1, <1>2, Induction
<1>4. QED  BY <1>3 DEF S
-----------------------------------------------------------------------------
\* 0 and 1 are two bytes.
LEMMA ZeroAndOne == Zero \in Byte /\ One \in Byte /\ One # Zero
BY DEF Zero, One, Byte, Bit

\* The bytes are a group under xor, in which each is its own inverse.
LEMMA XorLaws ==
  /\ Zero \in Byte /\ One \in Byte /\ One # Zero
  /\ \A a, b \in Byte : Xor(a, b) \in Byte /\ Xor(a, b) = Xor(b, a)
  /\ \A a \in Byte : Xor(a, Zero) = a /\ Xor(Zero, a) = a /\ Xor(a, a) = Zero
  /\ \A a, b, c \in Byte : Xor(Xor(a, b), c) = Xor(a, Xor(b, c))
<1>1. Zero \in Byte /\ One \in Byte /\ One # Zero
  BY ZeroAndOne
<1>2. \A a, b \in Byte : Xor(a, b) \in Byte /\ Xor(a, b) = Xor(b, a)
  BY DEF Xor, Byte
<1>3. \A a \in Byte : Xor(a, Zero) = a /\ Xor(Zero, a) = a /\ Xor(a, a) = Zero
  BY DEF Xor, Zero
<1>4. \A a, b, c \in Byte : Xor(Xor(a, b), c) = Xor(a, Xor(b, c))
  BY DEF Xor
<1>5. QED  BY <1>1, <1>2, <1>3, <1>4

\* Four bytes may be paired in another way.
LEMMA XorPairs ==
  \A a, b, c, d \in Byte : Xor(Xor(a, b), Xor(c, d)) = Xor(Xor(a, c), Xor(b, d))
BY DEF Xor

\* What xor has done it undoes.
LEMMA XorCancels ==
  \A a, b \in Byte : /\ Xor(a, b) = Zero => a = b
                     /\ Xor(a, Xor(a, b)) = b
                     /\ Xor(Xor(a, b), b) = a
BY DEF Xor, Zero

\* Bit by bit, shifting and taking the generator times a byte go through a xor.
LEMMA XtimeByte ==
  ASSUME NEW a \in Byte
  PROVE  Xtime(a) \in Byte
<1>1. \A w \in a \ {128} : 2 * w \in Bit
  BY DEF Byte, Bit
<1>2. {2 * w : w \in a \ {128}} \in Byte
  BY <1>1 DEF Byte
<1>3. (IF 128 \in a THEN {1, 2, 8, 16} ELSE {}) \in Byte
  BY DEF Byte, Bit
<1>4. QED  BY <1>2, <1>3, XorLaws DEF Xtime

LEMMA XtimeXor ==
  ASSUME NEW a \in Byte, NEW b \in Byte
  PROVE  Xtime(Xor(a, b)) = Xor(Xtime(a), Xtime(b))
<1> DEFINE Double(x) == {2 * w : w \in x \ {128}}
           Carry(x) == IF 128 \in x THEN {1, 2, 8, 16} ELSE {}
<1>1. Double(Xor(a, b)) = Xor(Double(a), Double(b))
  <2>1. \A w, v \in Bit : 2 * w = 2 * v => w = v
    BY DEF Bit
  <2>2. a \subseteq Bit /\ b \subseteq Bit
    BY DEF Byte
  <2>3. \A w \in Bit \ {128} : /\ 2 * w \in Double(a) <=> w \in a
                               /\ 2 * w \in Double(b) <=> w \in b
                               /\ 2 * w \in Double(Xor(a, b)) <=> w \in Xor(a, b)
    BY <2>1, <2>2 DEF Xor
  <2>4. \A x : x \in Double(a) \cup Double(b) \cup Double(Xor(a, b))
                 => \E w \in Bit \ {128} : x = 2 * w
    BY <2>2 DEF Xor
  <2> HIDE DEF Double
  <2>5. \A w \in Bit \ {128} :
          2 * w \in Double(Xor(a, b)) <=> 2 * w \in Xor(Double(a), Double(b))
    BY <2>3 DEF Xor
  <2>6. QED  BY <2>4, <2>5 DEF Xor
<1>2. Carry(Xor(a, b)) = Xor(Carry(a), Carry(b))
  BY DEF Xor
<1>3. \A x \in Byte : /\ Double(x) \in Byte /\ Carry(x) \in Byte
                     /\ Xtime(x) = Xor(Double(x), Carry(x))
  <2>1. \A x \in Byte : \A w \in x \ {128} : 2 * w \in Bit
    BY DEF Byte, Bit
  <2>2. \A x \in Byte : Double(x) \in Byte
    BY <2>1 DEF Byte
  <2>3. \A x \in Byte : Carry(x) \in Byte
    BY DEF Byte, Bit
  <2>4. QED  BY <2>2, <2>3 DEF Xtime
<1> HIDE DEF Double, Carry
<1>4. QED  BY <1>1, <1>2, <1>3, XorLaws, XorPairs

LEMMA GeneratorXor ==
  /\ TimesGenerator(Zero) = Zero
  /\ \A a \in Byte : TimesGenerator(a) \in Byte
  /\ \A a, b \in Byte : TimesGenerator(Xor(a, b)) = Xor(TimesGenerator(a), TimesGenerator(b))
<1>1. TimesGenerator(Zero) = Zero
  BY DEF TimesGenerator, Xtime, Zero, Xor
<1>2. \A a \in Byte : TimesGenerator(a) \in Byte
  BY XtimeByte, XorLaws DEF TimesGenerator
<1>3. \A a, b \in Byte : TimesGenerator(Xor(a, b)) = Xor(TimesGenerator(a), TimesGenerator(b))
  BY XtimeByte, XtimeXor, XorPairs, XorLaws DEF TimesGenerator
<1>4. QED  BY <1>1, <1>2, <1>3
-----------------------------------------------------------------------------
\* Every byte but 0 is a power of the generator, and its exponent counts modulo 255.
LEMMA Logarithms ==
  \A a \in Byte : a # Zero => LOG[a] \in 0..254 /\ LOG[a] \in Nat /\ Exp(LOG[a]) = a
<1>1. ASSUME NEW a \in Byte, a # Zero
      PROVE  LOG[a] \in 0..254 /\ LOG[a] \in Nat /\ Exp(LOG[a]) = a
  <2>1. LOG[a] \in 0..254 /\ EXP[1 + LOG[a]] = a
    BY <1>1, TablesAssumption
  <2>2. LOG[a] % 255 = LOG[a]
    BY <2>1
  <2>3. QED  BY <2>1, <2>2 DEF Exp
<1>2. QED  BY <1>1

\* And every power is a byte but 0.
LEMMA Powers ==
  \A i \in Nat : Exp(i) \in Byte /\ Exp(i) # Zero /\ LOG[Exp(i)] = i % 255
<1>1. ASSUME NEW i \in Nat
      PROVE  Exp(i) \in Byte /\ Exp(i) # Zero /\ LOG[Exp(i)] = i % 255
  <2> DEFINE j == 1 + (i % 255)
  <2>1. j \in 1..255 /\ j - 1 = i % 255 /\ Exp(i) = EXP[j]
    BY DEF Exp
  <2> HIDE DEF j
  <2>2. EXP[j] \in Byte /\ EXP[j] # Zero /\ LOG[EXP[j]] = j - 1
    BY <2>1, TablesAssumption
  <2>3. QED  BY <2>1, <2>2
<1>2. QED  BY <1>1

LEMMA PowersComeRound ==
  /\ Exp(0) = One /\ Exp(255) = One
  /\ \A i, j \in Nat : i % 255 = j % 255 => Exp(i) = Exp(j)
<1>1. 0 % 255 = 0 /\ 255 % 255 = 0
  OBVIOUS
<1>2. QED  BY <1>1, TablesAssumption DEF Exp

\* The next power is the generator times this one.
LEMMA NextPower ==
  ASSUME NEW i \in Nat
  PROVE  Exp(i + 1) = TimesGenerator(Exp(i))
<1>1. CASE i % 255 = 254
  <2>1. (i + 1) % 255 = 0
    BY <1>1
  <2>2. Exp(i + 1) = EXP[1] /\ Exp(i) = EXP[255]
    BY <1>1, <2>1 DEF Exp
  <2>3. QED  BY <2>2, TablesAssumption
<1>2. CASE i % 255 # 254
  <2> DEFINE j == 1 + (i % 255)
  <2>1. (i + 1) % 255 = (i % 255) + 1 /\ j \in 1..254
    BY <1>2
  <2>2. Exp(i + 1) = EXP[j + 1] /\ Exp(i) = EXP[j]
    BY <2>1 DEF Exp
  <2> HIDE DEF j
  <2>3. QED  BY <2>1, <2>2, TablesAssumption
<1>3. QED  BY <1>1, <1>2

\* _mul adds the exponents.
LEMMA MulPowers ==
  ASSUME NEW i \in Nat, NEW j \in Nat
  PROVE  Mul(Exp(i), Exp(j)) = Exp(i + j)
<1> DEFINE p == i % 255
           q == j % 255
<1>1. p \in Nat /\ q \in Nat /\ (p + q) % 255 = (i + j) % 255 /\ i + j \in Nat /\ p + q \in Nat
  OBVIOUS
<1>2. Mul(Exp(i), Exp(j)) = Exp(p + q)
  BY Powers DEF Mul
<1> HIDE DEF p, q
<1>3. Exp(p + q) = Exp(i + j)
  BY <1>1, PowersComeRound
<1>4. QED  BY <1>2, <1>3

\* And by 0 it gives 0.
LEMMA MulZero ==
  \A a : Mul(a, Zero) = Zero /\ Mul(Zero, a) = Zero
BY DEF Mul

\* The bytes but 0 are a group under _mul, with _inv for the inverse.
LEMMA MulLaws ==
  /\ \A a, b \in Byte : Mul(a, b) \in Byte /\ Mul(a, b) = Mul(b, a)
  /\ \A a \in Byte : Mul(a, One) = a /\ Mul(One, a) = a
  /\ \A a \in Byte : Inv(a) \in Byte /\ (a # Zero => Mul(a, Inv(a)) = One)
  /\ \A a, b \in Byte : Mul(a, b) = Zero => a = Zero \/ b = Zero
  /\ \A a, b, c \in Byte : Mul(Mul(a, b), c) = Mul(a, Mul(b, c))
<1>1. \A a \in Byte : a # Zero => \E i \in 0..254 : a = Exp(i)
  BY Logarithms
<1>2. ASSUME NEW a \in Byte, NEW b \in Byte
      PROVE  /\ Mul(a, b) \in Byte /\ Mul(a, b) = Mul(b, a)
             /\ Mul(a, b) = Zero => a = Zero \/ b = Zero
  <2>1. CASE a = Zero \/ b = Zero
    BY <2>1, MulZero, XorLaws
  <2>2. CASE a # Zero /\ b # Zero
    <3>1. PICK i \in 0..254, j \in 0..254 : a = Exp(i) /\ b = Exp(j)
      BY <1>1, <2>2
    <3>2. Mul(a, b) = Exp(i + j) /\ Mul(b, a) = Exp(j + i) /\ i + j = j + i /\ i + j \in Nat
      BY <3>1, MulPowers
    <3>3. QED  BY <3>2, Powers
  <2>3. QED  BY <2>1, <2>2
<1>3. ASSUME NEW a \in Byte  PROVE Mul(a, One) = a /\ Mul(One, a) = a
  <2>1. CASE a = Zero
    BY <2>1, MulZero
  <2>2. CASE a # Zero
    <3>1. PICK i \in 0..254 : a = Exp(i)
      BY <1>1, <2>2
    <3>2. Mul(a, One) = Exp(i + 0)
      BY <3>1, MulPowers, PowersComeRound
    <3>3. One \in Byte
      BY XorLaws
    <3>4. QED  BY <3>1, <3>2, <3>3, <1>2
  <2>3. QED  BY <2>1, <2>2
<1>4. ASSUME NEW a \in Byte  PROVE Inv(a) \in Byte /\ (a # Zero => Mul(a, Inv(a)) = One)
  <2>1. CASE a = Zero
    <3>1. LOG[Zero] = 0
      BY XorLaws DEF LOG
    <3>2. Inv(a) = Exp(255)
      BY <2>1, <3>1 DEF Inv
    <3>3. QED  BY <2>1, <3>2, Powers
  <2>2. CASE a # Zero
    <3>1. LOG[a] \in 0..254 /\ a = Exp(LOG[a]) /\ 255 - LOG[a] \in Nat
          /\ LOG[a] \in Nat /\ LOG[a] + (255 - LOG[a]) = 255
      BY <2>2, Logarithms
    <3>2. Mul(Exp(LOG[a]), Exp(255 - LOG[a])) = Exp(255)
      BY <3>1, MulPowers
    <3>3. QED  BY <3>1, <3>2, Powers, PowersComeRound DEF Inv
  <2>3. QED  BY <2>1, <2>2
<1>5. ASSUME NEW a \in Byte, NEW b \in Byte, NEW c \in Byte
      PROVE  Mul(Mul(a, b), c) = Mul(a, Mul(b, c))
  <2>1. CASE a = Zero \/ b = Zero \/ c = Zero
    BY <2>1, MulZero
  <2>2. CASE a # Zero /\ b # Zero /\ c # Zero
    <3>1. PICK i \in Nat : a = Exp(i)
      BY <1>1, <2>2
    <3>2. PICK j \in Nat : b = Exp(j)
      BY <1>1, <2>2
    <3>3. PICK k \in Nat : c = Exp(k)
      BY <1>1, <2>2
    <3>4. i + j \in Nat /\ j + k \in Nat /\ (i + j) + k = i + (j + k)
      OBVIOUS
    <3>5. Mul(a, b) = Exp(i + j)
      BY <3>1, <3>2, MulPowers
    <3>6. Mul(b, c) = Exp(j + k)
      BY <3>2, <3>3, MulPowers
    <3>7. Mul(Exp(i + j), Exp(k)) = Exp((i + j) + k)
      BY <3>4, MulPowers
    <3>8. Mul(Exp(i), Exp(j + k)) = Exp(i + (j + k))
      BY <3>4, MulPowers
    <3>9. QED  BY <3>1, <3>2, <3>3, <3>4, <3>5, <3>6, <3>7, <3>8
  <2>3. QED  BY <2>1, <2>2
<1>6. QED  BY <1>2, <1>3, <1>4, <1>5

\* The same laws, for the provers one by one.
LEMMA MulByte ==
  ASSUME NEW a \in Byte, NEW b \in Byte
  PROVE  Mul(a, b) \in Byte
BY MulLaws

LEMMA MulAssociates ==
  ASSUME NEW a \in Byte, NEW b \in Byte, NEW c \in Byte
  PROVE  Mul(Mul(a, b), c) = Mul(a, Mul(b, c))
BY MulLaws

\* Four bytes may be paired in another way.
LEMMA MulPairs ==
  ASSUME NEW a \in Byte, NEW b \in Byte, NEW c \in Byte, NEW d \in Byte
  PROVE  Mul(Mul(a, b), Mul(c, d)) = Mul(Mul(a, c), Mul(b, d))
<1>1. Mul(c, d) \in Byte /\ Mul(b, d) \in Byte /\ Mul(b, c) = Mul(c, b)
  BY MulLaws
<1>2. Mul(Mul(a, b), Mul(c, d)) = Mul(a, Mul(b, Mul(c, d)))
  BY <1>1, MulAssociates
<1>3. Mul(Mul(a, c), Mul(b, d)) = Mul(a, Mul(c, Mul(b, d)))
  BY <1>1, MulAssociates
<1>4. Mul(b, Mul(c, d)) = Mul(Mul(b, c), d)
  BY MulAssociates
<1>5. Mul(c, Mul(b, d)) = Mul(Mul(c, b), d)
  BY MulAssociates
<1>6. QED  BY <1>1, <1>2, <1>3, <1>4, <1>5

\* A factor that is not 0 may be cancelled.
LEMMA MulCancels ==
  ASSUME NEW a \in Byte, NEW b \in Byte, NEW c \in Byte, a # Zero, Mul(a, b) = Mul(a, c)
  PROVE  b = c
<1>1. \A d \in Byte : Mul(Inv(a), Mul(a, d)) = d
  <2>1. SUFFICES ASSUME NEW d \in Byte  PROVE Mul(Inv(a), Mul(a, d)) = d
    OBVIOUS
  <2>2. Inv(a) \in Byte /\ Mul(a, Inv(a)) = One
    BY MulLaws
  <2>3. Inv(a) \in Byte /\ Mul(Inv(a), a) = One
    BY <2>2, MulLaws
  <2>4. Mul(Mul(Inv(a), a), d) = Mul(Inv(a), Mul(a, d))
    BY <2>3, MulAssociates
  <2>5. Mul(One, d) = d
    BY MulLaws
  <2>6. QED  BY <2>3, <2>4, <2>5
<1>2. QED  BY <1>1

LEMMA XorByte ==
  ASSUME NEW a \in Byte, NEW b \in Byte
  PROVE  Xor(a, b) \in Byte
BY XorLaws

\* One power more is the generator once more.
LEMMA MulGenerator ==
  ASSUME NEW i \in Nat, NEW b \in Byte
  PROVE  Mul(Exp(i + 1), b) = TimesGenerator(Mul(Exp(i), b))
<1>1. CASE b = Zero
  BY <1>1, MulZero, GeneratorXor
<1>2. CASE b # Zero
  <2>1. LOG[b] \in Nat /\ b = Exp(LOG[b]) /\ i + 1 \in Nat /\ i + LOG[b] \in Nat
        /\ (i + 1) + LOG[b] = (i + LOG[b]) + 1
    BY <1>2, Logarithms
  <2>2. /\ Mul(Exp(i + 1), Exp(LOG[b])) = Exp((i + 1) + LOG[b])
        /\ Mul(Exp(i), Exp(LOG[b])) = Exp(i + LOG[b])
    BY <2>1, MulPowers
  <2>3. QED  BY <2>1, <2>2, NextPower
<1>3. QED  BY <1>1, <1>2

\* _mul distributes over xor.
LEMMA Distributes ==
  \A a, b, c \in Byte : /\ Mul(a, Xor(b, c)) = Xor(Mul(a, b), Mul(a, c))
                        /\ Mul(Xor(b, c), a) = Xor(Mul(b, a), Mul(c, a))
<1>1. ASSUME NEW b \in Byte, NEW c \in Byte
      PROVE  \A i \in Nat : Mul(Exp(i), Xor(b, c)) = Xor(Mul(Exp(i), b), Mul(Exp(i), c))
  <2> DEFINE S == {i \in Nat : Mul(Exp(i), Xor(b, c)) = Xor(Mul(Exp(i), b), Mul(Exp(i), c))}
  <2>1. 0 \in S
    BY PowersComeRound, MulLaws, XorLaws
  <2>2. ASSUME NEW i \in Nat, i \in S  PROVE i + 1 \in S
    <3>1. Mul(Exp(i), b) \in Byte /\ Mul(Exp(i), c) \in Byte /\ Xor(b, c) \in Byte
      BY Powers, MulLaws, XorLaws
    <3>2. QED  BY <2>2, <3>1, MulGenerator, GeneratorXor
  <2> HIDE DEF S
  <2>3. \A i \in Nat : i \in S
    BY <2>1, <2>2, Induction
  <2>4. QED  BY <2>3 DEF S
<1>2. ASSUME NEW a \in Byte, NEW b \in Byte, NEW c \in Byte
      PROVE  Mul(a, Xor(b, c)) = Xor(Mul(a, b), Mul(a, c))
  <2>1. CASE a = Zero
    BY <2>1, MulZero, XorLaws
  <2>2. CASE a # Zero
    <3>1. LOG[a] \in Nat /\ a = Exp(LOG[a])
      BY <2>2, Logarithms
    <3>2. QED  BY <3>1, <1>1
  <2>3. QED  BY <2>1, <2>2
<1>3. QED  BY <1>2, MulLaws, XorLaws

\* Xor, _mul and _inv make a field of the bytes, as the tables are meant to
\* (shamir.py:17-44): what all of the scheme rests on.
THEOREM FieldLaws ==
  /\ \A a, b, c \in Byte :
       /\ Xor(a, b) \in Byte /\ Mul(a, b) \in Byte
       /\ Xor(a, b) = Xor(b, a) /\ Mul(a, b) = Mul(b, a)
       /\ Xor(Xor(a, b), c) = Xor(a, Xor(b, c)) /\ Mul(Mul(a, b), c) = Mul(a, Mul(b, c))
       /\ Mul(a, Xor(b, c)) = Xor(Mul(a, b), Mul(a, c))
  /\ \A a \in Byte : /\ Xor(a, Zero) = a /\ Xor(a, a) = Zero
                    /\ Mul(a, One) = a
                    /\ a # Zero => Inv(a) \in Byte /\ Mul(a, Inv(a)) = One
<1>1. ASSUME NEW a \in Byte, NEW b \in Byte, NEW c \in Byte
      PROVE  /\ Xor(a, b) \in Byte /\ Mul(a, b) \in Byte
             /\ Xor(a, b) = Xor(b, a) /\ Mul(a, b) = Mul(b, a)
             /\ Xor(Xor(a, b), c) = Xor(a, Xor(b, c)) /\ Mul(Mul(a, b), c) = Mul(a, Mul(b, c))
             /\ Mul(a, Xor(b, c)) = Xor(Mul(a, b), Mul(a, c))
  <2>1. /\ Xor(a, b) \in Byte /\ Mul(a, b) \in Byte
        /\ Xor(a, b) = Xor(b, a) /\ Mul(a, b) = Mul(b, a)
    BY XorLaws, MulLaws
  <2>2. Xor(Xor(a, b), c) = Xor(a, Xor(b, c))
    BY XorLaws
  <2>3. Mul(Mul(a, b), c) = Mul(a, Mul(b, c))
    BY MulAssociates
  <2>4. Mul(a, Xor(b, c)) = Xor(Mul(a, b), Mul(a, c))
    BY Distributes
  <2>5. QED  BY <2>1, <2>2, <2>3, <2>4
<1>2. ASSUME NEW a \in Byte
      PROVE  /\ Xor(a, Zero) = a /\ Xor(a, a) = Zero
             /\ Mul(a, One) = a
             /\ a # Zero => Inv(a) \in Byte /\ Mul(a, Inv(a)) = One
  BY XorLaws, MulLaws
<1>3. QED  BY <1>1, <1>2
-----------------------------------------------------------------------------
\* The sum, and the product, of the first n of the bytes t.
Total(n, t) == Loop(n, Zero, [i \in 1..n |-> [b \in Byte |-> Xor(b, t[i])]])
Product(n, t) == Loop(n, One, [i \in 1..n |-> [b \in Byte |-> Mul(b, t[i])]])

AreBytes(n, t) == \A i \in 1..n : t[i] \in Byte

\* What a sum is, turn by turn.
LEMMA TotalByte ==
  ASSUME NEW n \in Nat, NEW t, AreBytes(n, t)
  PROVE  Total(n, t) \in Byte
<1> DEFINE turn == [i \in 1..n |-> [b \in Byte |-> Xor(b, t[i])]]
<1>1. \A i \in 1..n : \A y \in Byte : turn[i][y] \in Byte
  BY XorLaws DEF AreBytes
<1> HIDE DEF turn
<1>2. Loop(n, Zero, turn) \in Byte
  BY <1>1, LoopByte, ZeroAndOne
<1>3. QED  BY <1>2 DEF Total, turn

LEMMA TotalTurns ==
  ASSUME NEW n \in Nat, NEW t, AreBytes(n + 1, t)
  PROVE  Total(n + 1, t) = Xor(Total(n, t), t[n + 1])
<1> DEFINE turn == [i \in 1..n |-> [b \in Byte |-> Xor(b, t[i])]]
           more == [i \in 1..n + 1 |-> [b \in Byte |-> Xor(b, t[i])]]
<1>1. \A i \in 1..n : \A y \in Byte : turn[i][y] \in Byte /\ more[i][y] = turn[i][y]
  <2>1. \A i \in 1..n : i \in 1..n + 1
    OBVIOUS
  <2>2. QED  BY <2>1, XorLaws DEF AreBytes
<1>2. n + 1 \in 1..n + 1
  OBVIOUS
<1>3. \A y \in Byte : more[n + 1][y] = Xor(y, t[n + 1])
  BY <1>2
<1> HIDE DEF turn, more
<1>4. Loop(n, Zero, turn) \in Byte
  BY <1>1, LoopByte, ZeroAndOne
<1>5. Loop(n, Zero, more) = Loop(n, Zero, turn)
  BY <1>1, LoopSame, ZeroAndOne
<1>6. Loop(n + 1, Zero, more) = more[n + 1][Loop(n, Zero, more)]
  BY LoopTurn
<1>7. Total(n, t) = Loop(n, Zero, turn) /\ Total(n + 1, t) = Loop(n + 1, Zero, more)
  BY DEF Total, turn, more
<1>8. QED  BY <1>3, <1>4, <1>5, <1>6, <1>7

LEMMA TotalZero ==
  ASSUME NEW t
  PROVE  Total(0, t) = Zero
BY LoopStart DEF Total

\* What a product is, turn by turn.
LEMMA ProductByte ==
  ASSUME NEW n \in Nat, NEW t, AreBytes(n, t)
  PROVE  Product(n, t) \in Byte
<1> DEFINE turn == [i \in 1..n |-> [b \in Byte |-> Mul(b, t[i])]]
<1>1. \A i \in 1..n : \A y \in Byte : turn[i][y] \in Byte
  BY MulLaws DEF AreBytes
<1> HIDE DEF turn
<1>2. Loop(n, One, turn) \in Byte
  BY <1>1, LoopByte, ZeroAndOne
<1>3. QED  BY <1>2 DEF Product, turn

LEMMA ProductTurns ==
  ASSUME NEW n \in Nat, NEW t, AreBytes(n + 1, t)
  PROVE  Product(n + 1, t) = Mul(Product(n, t), t[n + 1])
<1> DEFINE turn == [i \in 1..n |-> [b \in Byte |-> Mul(b, t[i])]]
           more == [i \in 1..n + 1 |-> [b \in Byte |-> Mul(b, t[i])]]
<1>1. \A i \in 1..n : \A y \in Byte : turn[i][y] \in Byte /\ more[i][y] = turn[i][y]
  <2>1. \A i \in 1..n : i \in 1..n + 1
    OBVIOUS
  <2>2. QED  BY <2>1, MulLaws DEF AreBytes
<1>2. n + 1 \in 1..n + 1
  OBVIOUS
<1>3. \A y \in Byte : more[n + 1][y] = Mul(y, t[n + 1])
  BY <1>2
<1> HIDE DEF turn, more
<1>4. Loop(n, One, turn) \in Byte
  BY <1>1, LoopByte, ZeroAndOne
<1>5. Loop(n, One, more) = Loop(n, One, turn)
  BY <1>1, LoopSame, ZeroAndOne
<1>6. Loop(n + 1, One, more) = more[n + 1][Loop(n, One, more)]
  BY LoopTurn
<1>7. Product(n, t) = Loop(n, One, turn) /\ Product(n + 1, t) = Loop(n + 1, One, more)
  BY DEF Product, turn, more
<1>8. QED  BY <1>3, <1>4, <1>5, <1>6, <1>7

LEMMA ProductOne ==
  ASSUME NEW t
  PROVE  Product(0, t) = One
BY LoopStart DEF Product

\* Sums and products of the same bytes are the same.
LEMMA TotalSame ==
  ASSUME NEW n \in Nat, NEW t, NEW u, AreBytes(n, t), \A i \in 1..n : u[i] = t[i]
  PROVE  Total(n, u) = Total(n, t)
<1> DEFINE turn == [i \in 1..n |-> [b \in Byte |-> Xor(b, t[i])]]
           other == [i \in 1..n |-> [b \in Byte |-> Xor(b, u[i])]]
<1>1. \A i \in 1..n : \A y \in Byte : turn[i][y] \in Byte /\ other[i][y] = turn[i][y]
  BY XorLaws DEF AreBytes
<1> HIDE DEF turn, other
<1>2. Loop(n, Zero, other) = Loop(n, Zero, turn)
  BY <1>1, LoopSame, ZeroAndOne
<1>3. QED  BY <1>2 DEF Total, turn, other

LEMMA ProductSame ==
  ASSUME NEW n \in Nat, NEW t, NEW u, AreBytes(n, t), \A i \in 1..n : u[i] = t[i]
  PROVE  Product(n, u) = Product(n, t)
<1> DEFINE turn == [i \in 1..n |-> [b \in Byte |-> Mul(b, t[i])]]
           other == [i \in 1..n |-> [b \in Byte |-> Mul(b, u[i])]]
<1>1. \A i \in 1..n : \A y \in Byte : turn[i][y] \in Byte /\ other[i][y] = turn[i][y]
  BY MulLaws DEF AreBytes
<1> HIDE DEF turn, other
<1>2. Loop(n, One, other) = Loop(n, One, turn)
  BY <1>1, LoopSame, ZeroAndOne
<1>3. QED  BY <1>2 DEF Product, turn, other

\* Some of the bytes are bytes.
LEMMA FewerBytes ==
  ASSUME NEW n \in Nat, NEW m \in Nat, m <= n, NEW t, AreBytes(n, t)
  PROVE  AreBytes(m, t)
BY DEF AreBytes

\* A sum, and a product, may be taken from the other end.
LEMMA TotalFirst ==
  ASSUME NEW n \in Nat, NEW t, NEW u, AreBytes(n + 1, t), \A i \in 1..n : u[i] = t[i + 1]
  PROVE  Total(n + 1, t) = Xor(t[1], Total(n, u))
<1> DEFINE S == {m \in Nat : m <= n => Total(m + 1, t) = Xor(t[1], Total(m, u))}
<1>1. AreBytes(n, u) /\ t[1] \in Byte
  BY DEF AreBytes
<1>2. 0 \in S
  <2>1. AreBytes(0 + 1, t)
    BY FewerBytes
  <2>2. Total(0 + 1, t) = Xor(Total(0, t), t[0 + 1])
    BY <2>1, TotalTurns
  <2>3. QED  BY <1>1, <2>2, TotalZero, XorLaws
<1>3. ASSUME NEW m \in Nat, m \in S  PROVE m + 1 \in S
  <2>1. SUFFICES ASSUME m + 1 <= n  PROVE Total((m + 1) + 1, t) = Xor(t[1], Total(m + 1, u))
    OBVIOUS
  <2>2. AreBytes((m + 1) + 1, t) /\ AreBytes(m + 1, u) /\ AreBytes(m, u)
    BY <1>1, <2>1, FewerBytes
  <2>3. Total((m + 1) + 1, t) = Xor(Total(m + 1, t), t[(m + 1) + 1])
    BY <2>2, TotalTurns
  <2>4. Total(m + 1, u) = Xor(Total(m, u), u[m + 1])
    BY <2>2, TotalTurns
  <2>5. Total(m + 1, t) = Xor(t[1], Total(m, u))
    BY <1>3, <2>1
  <2>6. u[m + 1] = t[(m + 1) + 1] /\ u[m + 1] \in Byte /\ Total(m, u) \in Byte
    BY <2>1, <2>2, TotalByte DEF AreBytes
  <2>7. QED  BY <1>1, <2>3, <2>4, <2>5, <2>6, XorLaws
<1> HIDE DEF S
<1>4. n \in S
  BY <1>2, <1>3, Induction
<1>5. QED  BY <1>4 DEF S

LEMMA ProductFirst ==
  ASSUME NEW n \in Nat, NEW t, NEW u, AreBytes(n + 1, t), \A i \in 1..n : u[i] = t[i + 1]
  PROVE  Product(n + 1, t) = Mul(t[1], Product(n, u))
<1> DEFINE S == {m \in Nat : m <= n => Product(m + 1, t) = Mul(t[1], Product(m, u))}
<1>1. AreBytes(n, u) /\ t[1] \in Byte
  BY DEF AreBytes
<1>2. 0 \in S
  <2>1. AreBytes(0 + 1, t)
    BY FewerBytes
  <2>2. Product(0 + 1, t) = Mul(Product(0, t), t[0 + 1])
    BY <2>1, ProductTurns
  <2>3. QED  BY <1>1, <2>2, ProductOne, MulLaws
<1>3. ASSUME NEW m \in Nat, m \in S  PROVE m + 1 \in S
  <2>1. SUFFICES ASSUME m + 1 <= n
                 PROVE  Product((m + 1) + 1, t) = Mul(t[1], Product(m + 1, u))
    OBVIOUS
  <2>2. AreBytes((m + 1) + 1, t) /\ AreBytes(m + 1, u) /\ AreBytes(m, u)
    BY <1>1, <2>1, FewerBytes
  <2>3. Product((m + 1) + 1, t) = Mul(Product(m + 1, t), t[(m + 1) + 1])
    BY <2>2, ProductTurns
  <2>4. Product(m + 1, u) = Mul(Product(m, u), u[m + 1])
    BY <2>2, ProductTurns
  <2>5. Product(m + 1, t) = Mul(t[1], Product(m, u))
    BY <1>3, <2>1
  <2>6. u[m + 1] = t[(m + 1) + 1] /\ u[m + 1] \in Byte /\ Product(m, u) \in Byte
    BY <2>1, <2>2, ProductByte DEF AreBytes
  <2>7. Product((m + 1) + 1, t) = Mul(Mul(t[1], Product(m, u)), u[m + 1])
    BY <2>3, <2>5, <2>6
  <2>8. QED  BY <1>1, <2>4, <2>6, <2>7, MulAssociates
<1> HIDE DEF S
<1>4. n \in S
  BY <1>2, <1>3, Induction
<1>5. QED  BY <1>4 DEF S

\* A byte times a sum, and a sum of sums.
LEMMA TotalScaled ==
  ASSUME NEW n \in Nat, NEW a \in Byte, NEW t, NEW u, AreBytes(n, t),
         \A i \in 1..n : u[i] = Mul(a, t[i])
  PROVE  Total(n, u) = Mul(a, Total(n, t))
<1> DEFINE S == {m \in Nat : m <= n => Total(m, u) = Mul(a, Total(m, t))}
<1>1. AreBytes(n, u)
  BY MulByte DEF AreBytes
<1>2. 0 \in S
  BY TotalZero, MulZero
<1>3. ASSUME NEW m \in Nat, m \in S  PROVE m + 1 \in S
  <2>1. SUFFICES ASSUME m + 1 <= n  PROVE Total(m + 1, u) = Mul(a, Total(m + 1, t))
    OBVIOUS
  <2>2. AreBytes(m + 1, t) /\ AreBytes(m + 1, u) /\ AreBytes(m, t)
    BY <1>1, <2>1, FewerBytes
  <2>3. Total(m + 1, t) = Xor(Total(m, t), t[m + 1])
    BY <2>2, TotalTurns
  <2>4. Total(m + 1, u) = Xor(Total(m, u), u[m + 1])
    BY <2>2, TotalTurns
  <2>5. Total(m, u) = Mul(a, Total(m, t)) /\ u[m + 1] = Mul(a, t[m + 1])
    BY <1>3, <2>1
  <2>6. Total(m, t) \in Byte /\ t[m + 1] \in Byte
    BY <2>2, TotalByte DEF AreBytes
  <2>7. QED  BY <2>3, <2>4, <2>5, <2>6, Distributes
<1> HIDE DEF S
<1>4. n \in S
  BY <1>2, <1>3, Induction
<1>5. QED  BY <1>4 DEF S

LEMMA TotalAdded ==
  ASSUME NEW n \in Nat, NEW t, NEW u, NEW v, AreBytes(n, t), AreBytes(n, u),
         \A i \in 1..n : v[i] = Xor(t[i], u[i])
  PROVE  Total(n, v) = Xor(Total(n, t), Total(n, u))
<1> DEFINE S == {m \in Nat : m <= n => Total(m, v) = Xor(Total(m, t), Total(m, u))}
<1>1. AreBytes(n, v)
  BY XorLaws DEF AreBytes
<1>2. 0 \in S
  BY TotalZero, XorLaws
<1>3. ASSUME NEW m \in Nat, m \in S  PROVE m + 1 \in S
  <2>1. SUFFICES ASSUME m + 1 <= n
                 PROVE  Total(m + 1, v) = Xor(Total(m + 1, t), Total(m + 1, u))
    OBVIOUS
  <2>2. /\ AreBytes(m + 1, t) /\ AreBytes(m + 1, u) /\ AreBytes(m + 1, v)
        /\ AreBytes(m, t) /\ AreBytes(m, u)
    BY <1>1, <2>1, FewerBytes
  <2>3. Total(m + 1, t) = Xor(Total(m, t), t[m + 1])
    BY <2>2, TotalTurns
  <2>4. Total(m + 1, u) = Xor(Total(m, u), u[m + 1])
    BY <2>2, TotalTurns
  <2>5. Total(m + 1, v) = Xor(Total(m, v), v[m + 1])
    BY <2>2, TotalTurns
  <2>6. Total(m, v) = Xor(Total(m, t), Total(m, u)) /\ v[m + 1] = Xor(t[m + 1], u[m + 1])
    BY <1>3, <2>1
  <2>7. Total(m, t) \in Byte /\ t[m + 1] \in Byte /\ Total(m, u) \in Byte /\ u[m + 1] \in Byte
    BY <2>2, TotalByte DEF AreBytes
  <2>8. QED  BY <2>3, <2>4, <2>5, <2>6, <2>7, XorPairs
<1> HIDE DEF S
<1>4. n \in S
  BY <1>2, <1>3, Induction
<1>5. QED  BY <1>4 DEF S
-----------------------------------------------------------------------------
\* Distinct points, none of which is 0.
ArePoints(m, ps) ==
  \A i \in 1..m : /\ ps[i] \in Byte /\ ps[i] # Zero
                  /\ \A j \in 1..m : ps[i] = ps[j] => i = j

\* The factors of Lagrange's basis polynomials at 0, and their product for point i.
Ratio(a, b) == Mul(a, Inv(Xor(a, b)))
Factors(m, ps, i) == [j \in 1..m |-> IF j = i THEN One ELSE Ratio(ps[j], ps[i])]
Weight(m, ps, i) == Product(m, Factors(m, ps, i))

\* Some of the points are points.
LEMMA FewerPoints ==
  ASSUME NEW n \in Nat, NEW m \in Nat, m <= n, NEW ps, ArePoints(n, ps)
  PROVE  ArePoints(m, ps)
BY DEF ArePoints

\* A factor is a byte, and the distance of the points cancels its denominator.
LEMMA RatioByte ==
  ASSUME NEW a \in Byte, NEW b \in Byte
  PROVE  Ratio(a, b) \in Byte
BY MulLaws, XorByte DEF Ratio

LEMMA RatioCancels ==
  ASSUME NEW a \in Byte, NEW b \in Byte, a # b
  PROVE  Mul(Xor(a, b), Ratio(a, b)) = a
<1> DEFINE d == Xor(a, b)
<1>1. d \in Byte /\ d # Zero
  BY XorLaws, XorCancels
<1> HIDE DEF d
<1>2. Inv(d) \in Byte /\ Mul(d, Inv(d)) = One /\ Mul(a, One) = a
  BY <1>1, MulLaws
<1>3. Mul(d, Mul(a, Inv(d))) = Mul(Mul(d, a), Inv(d))
  BY <1>1, <1>2, MulAssociates
<1>4. Mul(Mul(a, d), Inv(d)) = Mul(a, Mul(d, Inv(d)))
  BY <1>1, <1>2, MulAssociates
<1>5. Mul(a, d) = Mul(d, a)
  BY <1>1, MulLaws
<1>6. QED  BY <1>2, <1>3, <1>4, <1>5 DEF Ratio, d

\* Factors and weights are bytes.
LEMMA WeightByte ==
  ASSUME NEW m \in Nat, NEW ps, AreBytes(m, ps), NEW i \in 1..m
  PROVE  AreBytes(m, Factors(m, ps, i)) /\ Weight(m, ps, i) \in Byte
<1>1. AreBytes(m, Factors(m, ps, i))
  BY RatioByte, XorLaws DEF AreBytes, Factors
<1>2. QED  BY <1>1, ProductByte DEF Weight

\* Points are bytes.
LEMMA PointsAreBytes ==
  ASSUME NEW m \in Nat, NEW ps, ArePoints(m, ps)
  PROVE  AreBytes(m, ps)
BY DEF ArePoints, AreBytes

\* The weight of a point when a point is added behind, or before.
LEMMA WeightLast ==
  ASSUME NEW m \in Nat, NEW ps, AreBytes(m + 1, ps), NEW i \in 1..m
  PROVE  Weight(m + 1, ps, i) = Mul(Weight(m, ps, i), Ratio(ps[m + 1], ps[i]))
<1> DEFINE f == Factors(m, ps, i)
           g == Factors(m + 1, ps, i)
<1>1. i \in 1..m + 1 /\ m + 1 \in 1..m + 1 /\ i # m + 1 /\ \A j \in 1..m : j \in 1..m + 1
  OBVIOUS
<1>2. AreBytes(m, ps)
  BY FewerBytes
<1>3. AreBytes(m, f) /\ AreBytes(m + 1, g)
  BY <1>1, <1>2, WeightByte
<1>4. \A j \in 1..m : g[j] = f[j]
  BY <1>1 DEF Factors
<1>5. g[m + 1] = Ratio(ps[m + 1], ps[i])
  BY <1>1 DEF Factors
<1> HIDE DEF f, g
<1>6. Product(m + 1, g) = Mul(Product(m, g), g[m + 1])
  BY <1>3, ProductTurns
<1>7. Product(m, g) = Product(m, f)
  BY <1>3, <1>4, ProductSame
<1>8. QED  BY <1>5, <1>6, <1>7 DEF Weight, f, g

LEMMA WeightFirst ==
  ASSUME NEW m \in Nat, NEW ps, AreBytes(m + 1, ps), NEW i \in 1..m,
         NEW qs, \A j \in 1..m : qs[j] = ps[j + 1]
  PROVE  Weight(m + 1, ps, i + 1) = Mul(Weight(m, qs, i), Ratio(ps[1], ps[i + 1]))
<1> DEFINE f == Factors(m, qs, i)
           g == Factors(m + 1, ps, i + 1)
<1>1. i + 1 \in 1..m + 1 /\ 1 \in 1..m + 1 /\ i + 1 # 1 /\ \A j \in 1..m : j + 1 \in 1..m + 1
  OBVIOUS
<1>2. AreBytes(m, qs)
  BY <1>1 DEF AreBytes
<1>3. AreBytes(m, f) /\ AreBytes(m + 1, g)
  BY <1>1, <1>2, WeightByte
<1>4. \A j \in 1..m : f[j] = g[j + 1]
  BY <1>1 DEF Factors
<1>5. g[1] = Ratio(ps[1], ps[i + 1])
  BY <1>1 DEF Factors
<1> HIDE DEF f, g
<1>6. Product(m + 1, g) = Mul(g[1], Product(m, f))
  BY <1>3, <1>4, ProductFirst
<1>7. Product(m, f) \in Byte /\ g[1] \in Byte
  BY <1>1, <1>3, ProductByte DEF AreBytes
<1>8. Mul(g[1], Product(m, f)) = Mul(Product(m, f), g[1])
  BY <1>7, MulLaws
<1>9. QED  BY <1>5, <1>6, <1>8 DEF Weight, f, g

\* Weighted by its distance from one of the points as well, a sum leaves that point out.
LEMMA LastLeftOut ==
  ASSUME NEW m \in Nat, NEW ps, ArePoints(m + 1, ps), NEW t, AreBytes(m + 1, t),
         NEW u, \A i \in 1..m + 1 :
           u[i] = Mul(Xor(ps[m + 1], ps[i]), Mul(t[i], Weight(m + 1, ps, i))),
         NEW v, \A i \in 1..m : v[i] = Mul(t[i], Weight(m, ps, i))
  PROVE  AreBytes(m + 1, u) /\ AreBytes(m, v) /\ Total(m + 1, u) = Mul(ps[m + 1], Total(m, v))
<1> DEFINE a == ps[m + 1]
<1>1. m + 1 \in 1..m + 1 /\ \A i \in 1..m : i \in 1..m + 1 /\ i # m + 1
  OBVIOUS
<1>2. AreBytes(m + 1, ps) /\ AreBytes(m, ps) /\ a \in Byte
  BY <1>1, PointsAreBytes, FewerBytes DEF AreBytes
<1>3. m + 1 \in Nat
  OBVIOUS
<1>4. \A i \in 1..m + 1 : Weight(m + 1, ps, i) \in Byte
  BY <1>3, <1>2, WeightByte
<1>5. \A i \in 1..m : Weight(m, ps, i) \in Byte
  BY <1>2, WeightByte
<1>6. AreBytes(m + 1, u)
  BY <1>2, <1>4, XorByte, MulByte DEF AreBytes
<1>7. AreBytes(m, v)
  BY <1>1, <1>5, MulByte DEF AreBytes
<1>8. u[m + 1] = Zero
  BY <1>1, <1>2, XorLaws, MulZero
<1>9. ASSUME NEW i \in 1..m  PROVE u[i] = Mul(a, v[i])
  <2> DEFINE x == ps[i]
             W == Weight(m, ps, i)
             R == Ratio(a, x)
             d == Xor(a, x)
  <2>1. /\ x \in Byte /\ W \in Byte /\ R \in Byte /\ d \in Byte /\ t[i] \in Byte
        /\ Mul(t[i], W) \in Byte /\ a # x
    BY <1>1, <1>2, <1>5, XorByte, RatioByte, MulByte DEF AreBytes, ArePoints
  <2>2. u[i] = Mul(d, Mul(t[i], Mul(W, R)))
    BY <1>1, <1>2, WeightLast
  <2>3. Mul(d, R) = a
    BY <1>2, <2>1, RatioCancels
  <2> HIDE DEF x, W, R, d, a
  <2>4. Mul(t[i], Mul(W, R)) = Mul(Mul(t[i], W), R)
    BY <2>1, MulAssociates
  <2>5. Mul(d, Mul(Mul(t[i], W), R)) = Mul(Mul(d, Mul(t[i], W)), R)
    BY <2>1, MulAssociates
  <2>6. Mul(d, Mul(t[i], W)) = Mul(Mul(t[i], W), d)
    BY <2>1, MulLaws
  <2>7. Mul(Mul(Mul(t[i], W), d), R) = Mul(Mul(t[i], W), Mul(d, R))
    BY <2>1, MulAssociates
  <2>8. Mul(Mul(t[i], W), a) = Mul(a, Mul(t[i], W))
    BY <1>2, <2>1, MulLaws
  <2>9. QED  BY <2>2, <2>3, <2>4, <2>5, <2>6, <2>7, <2>8 DEF W
<1> HIDE DEF a
<1>10. Total(m, u) = Mul(a, Total(m, v))
  BY <1>2, <1>7, <1>9, TotalScaled
<1>11. Total(m + 1, u) = Xor(Total(m, u), u[m + 1])
  BY <1>6, TotalTurns
<1>12. Total(m, u) \in Byte
  BY <1>2, <1>7, <1>10, TotalByte, MulByte
<1>13. QED  BY <1>6, <1>7, <1>8, <1>10, <1>11, <1>12, XorLaws DEF a

LEMMA FirstLeftOut ==
  ASSUME NEW m \in Nat, NEW ps, ArePoints(m + 1, ps), NEW qs, \A i \in 1..m : qs[i] = ps[i + 1],
         NEW u, \A i \in 1..m + 1 : u[i] = Mul(Xor(ps[1], ps[i]), Weight(m + 1, ps, i)),
         NEW v, \A i \in 1..m : v[i] = Weight(m, qs, i)
  PROVE  AreBytes(m + 1, u) /\ ArePoints(m, qs) /\ Total(m + 1, u) = Mul(ps[1], Total(m, v))
<1> DEFINE a == ps[1]
           w == [i \in 1..m |-> u[i + 1]]
<1>1. 1 \in 1..m + 1 /\ \A i \in 1..m : i + 1 \in 1..m + 1 /\ i + 1 # 1
  OBVIOUS
<1>2. AreBytes(m + 1, ps) /\ a \in Byte
  BY <1>1, PointsAreBytes DEF AreBytes
<1>3. ArePoints(m, qs) /\ AreBytes(m, qs)
  BY <1>1 DEF ArePoints, AreBytes
<1>4. m + 1 \in Nat
  OBVIOUS
<1>5. \A i \in 1..m + 1 : Weight(m + 1, ps, i) \in Byte
  BY <1>4, <1>2, WeightByte
<1>6. AreBytes(m, v)
  BY <1>3, WeightByte DEF AreBytes
<1>7. AreBytes(m + 1, u)
  BY <1>2, <1>5, XorByte, MulByte DEF AreBytes
<1>8. u[1] = Zero
  BY <1>1, <1>2, XorLaws, MulZero
<1>9. ASSUME NEW i \in 1..m  PROVE w[i] = Mul(a, v[i])
  <2> DEFINE x == ps[i + 1]
             W == Weight(m, qs, i)
             R == Ratio(a, x)
             d == Xor(a, x)
  <2>1. x \in Byte /\ W \in Byte /\ R \in Byte /\ d \in Byte /\ a # x
    BY <1>1, <1>2, <1>3, WeightByte, XorByte, RatioByte DEF AreBytes, ArePoints
  <2>2. w[i] = Mul(d, Mul(W, R))
    BY <1>1, <1>2, WeightFirst
  <2>3. Mul(d, R) = a
    BY <1>2, <2>1, RatioCancels
  <2> HIDE DEF x, W, R, d, a
  <2>4. Mul(d, Mul(W, R)) = Mul(Mul(d, W), R)
    BY <2>1, MulAssociates
  <2>5. Mul(d, W) = Mul(W, d)
    BY <2>1, MulLaws
  <2>6. Mul(Mul(W, d), R) = Mul(W, Mul(d, R))
    BY <2>1, MulAssociates
  <2>7. Mul(W, a) = Mul(a, W)
    BY <1>2, <2>1, MulLaws
  <2>8. QED  BY <2>2, <2>3, <2>4, <2>5, <2>6, <2>7 DEF W
<1>10. \A i \in 1..m : w[i] = u[i + 1]
  OBVIOUS
<1> HIDE DEF a, w
<1>11. Total(m, w) = Mul(a, Total(m, v))
  BY <1>2, <1>6, <1>9, TotalScaled
<1>12. Total(m + 1, u) = Xor(u[1], Total(m, w))
  BY <1>7, <1>10, TotalFirst
<1>13. Total(m, w) \in Byte
  BY <1>2, <1>6, <1>11, TotalByte, MulByte
<1>14. QED  BY <1>3, <1>7, <1>8, <1>11, <1>12, <1>13, XorLaws DEF a

\* The weights add up to 1.
LEMMA WeightsAddUp ==
  ASSUME NEW m \in Nat, NEW ps, ArePoints(m + 1, ps)
  PROVE  Total(m + 1, [i \in 1..m + 1 |-> Weight(m + 1, ps, i)]) = One
<1> DEFINE W(n, p) == [i \in 1..n |-> Weight(n, p, i)]
           S == {n \in Nat : \A p : ArePoints(n + 1, p) => Total(n + 1, W(n + 1, p)) = One}
<1>1. 0 \in S
  <2>1. SUFFICES ASSUME NEW p, ArePoints(0 + 1, p)  PROVE Total(0 + 1, W(0 + 1, p)) = One
    OBVIOUS
  <2>2. AreBytes(1, p) /\ 1 \in 1..1 /\ 1 \in Nat
    BY <2>1, PointsAreBytes
  <2>3. Factors(1, p, 1)[1] = One
    BY DEF Factors
  <2>4. AreBytes(0 + 1, Factors(1, p, 1))
    BY <2>2, WeightByte
  <2>5. Product(0 + 1, Factors(1, p, 1))
          = Mul(Product(0, Factors(1, p, 1)), Factors(1, p, 1)[0 + 1])
    BY <2>4, ProductTurns
  <2>6. Weight(1, p, 1) = One
    <3>1. Product(0, Factors(1, p, 1)) = One /\ Mul(One, One) = One
      BY ProductOne, MulLaws, ZeroAndOne
    <3>2. QED  BY <2>3, <2>5, <3>1 DEF Weight
  <2>7. W(0 + 1, p)[0 + 1] = One /\ AreBytes(0 + 1, W(0 + 1, p))
    BY <2>6, XorLaws DEF AreBytes
  <2> HIDE DEF W
  <2>8. Total(0 + 1, W(0 + 1, p)) = Xor(Total(0, W(0 + 1, p)), W(0 + 1, p)[0 + 1])
    BY <2>7, TotalTurns
  <2>9. QED  BY <2>7, <2>8, TotalZero, XorLaws
<1>2. ASSUME NEW n \in Nat, n \in S  PROVE n + 1 \in S
  <2>1. SUFFICES ASSUME NEW p, ArePoints((n + 1) + 1, p)
                 PROVE  Total((n + 1) + 1, W((n + 1) + 1, p)) = One
    OBVIOUS
  <2> DEFINE M == n + 1
             a == p[M + 1]
             b == p[1]
             w == W(M + 1, p)
             q == [i \in 1..M |-> p[i + 1]]
             ones == [i \in 1..M + 1 |-> One]
             wa == [i \in 1..M + 1 |-> Mul(Xor(a, p[i]), Mul(One, w[i]))]
             wb == [i \in 1..M + 1 |-> Mul(Xor(b, p[i]), w[i])]
             va == [i \in 1..M |-> Mul(One, Weight(M, p, i))]
             vb == [i \in 1..M |-> Weight(M, q, i)]
             both == [i \in 1..M + 1 |-> Mul(Xor(a, b), w[i])]
  <2>2. /\ M \in Nat /\ 1 \in 1..M + 1 /\ M + 1 \in 1..M + 1 /\ M + 1 # 1
        /\ \A i \in 1..M : i \in 1..M + 1
    OBVIOUS
  <2>3. ArePoints(M + 1, p)
    BY <2>1
  <2> HIDE DEF M
  <2>4. AreBytes(M + 1, p) /\ ArePoints(M, p) /\ AreBytes(M, p)
    BY <2>2, <2>3, PointsAreBytes, FewerPoints
  <2>5. a \in Byte /\ b \in Byte /\ a # b
    BY <2>2, <2>3 DEF ArePoints
  <2>6. \A i \in 1..M + 1 : w[i] \in Byte
    BY <2>2, <2>4, WeightByte
  <2>7. Total(M + 1, wa) = Mul(a, Total(M, va)) /\ AreBytes(M + 1, wa)
    <3>1. AreBytes(M + 1, ones)
      BY XorLaws DEF AreBytes
    <3>2. /\ \A i \in 1..M + 1 :
               wa[i] = Mul(Xor(p[M + 1], p[i]), Mul(ones[i], Weight(M + 1, p, i)))
          /\ \A i \in 1..M : va[i] = Mul(ones[i], Weight(M, p, i))
      BY <2>2
    <3> HIDE DEF wa, va, ones
    <3>3. QED  BY <2>2, <2>3, <3>1, <3>2, LastLeftOut
  <2>8. Total(M + 1, wb) = Mul(b, Total(M, vb)) /\ AreBytes(M + 1, wb) /\ ArePoints(M, q)
    <3>1. /\ \A i \in 1..M + 1 : wb[i] = Mul(Xor(p[1], p[i]), Weight(M + 1, p, i))
          /\ \A i \in 1..M : vb[i] = Weight(M, q, i)
          /\ \A i \in 1..M : q[i] = p[i + 1]
      OBVIOUS
    <3> HIDE DEF wb, vb, q
    <3>2. QED  BY <2>2, <2>3, <3>1, FirstLeftOut
  <2>9. Total(M, va) = One
    <3>1. AreBytes(M, W(M, p)) /\ \A i \in 1..M : va[i] = W(M, p)[i]
      BY <2>2, <2>4, WeightByte, MulLaws DEF AreBytes
    <3> HIDE DEF va, W
    <3>2. Total(M, va) = Total(M, W(M, p))
      BY <2>2, <3>1, TotalSame
    <3>3. QED  BY <1>2, <2>4, <3>2 DEF M
  <2>10. Total(M, vb) = One
    BY <1>2, <2>8 DEF M
  <2>11. Total(M + 1, both) = Xor(a, b)
    <3>1. \A i \in 1..M + 1 : both[i] = Xor(wa[i], wb[i])
      <4>1. SUFFICES ASSUME NEW i \in 1..M + 1  PROVE both[i] = Xor(wa[i], wb[i])
        OBVIOUS
      <4>2. p[i] \in Byte /\ w[i] \in Byte /\ Xor(a, p[i]) \in Byte /\ Xor(b, p[i]) \in Byte
        BY <2>4, <2>5, <2>6, XorByte DEF AreBytes
      <4>3. Xor(wa[i], wb[i]) = Xor(Mul(Xor(a, p[i]), w[i]), Mul(Xor(b, p[i]), w[i]))
        BY <4>2, MulLaws
      <4>4. Xor(wa[i], wb[i]) = Mul(Xor(Xor(a, p[i]), Xor(b, p[i])), w[i])
        BY <4>2, <4>3, Distributes
      <4>5. Xor(Xor(a, p[i]), Xor(b, p[i])) = Xor(a, b)
        <5>1. Xor(Xor(a, p[i]), Xor(b, p[i])) = Xor(Xor(a, b), Xor(p[i], p[i]))
          BY <2>5, <4>2, XorPairs
        <5>2. Xor(p[i], p[i]) = Zero /\ Xor(Xor(a, b), Zero) = Xor(a, b)
          BY <2>5, <4>2, XorByte, XorLaws
        <5>3. QED  BY <5>1, <5>2
      <4>6. QED  BY <4>4, <4>5
    <3> HIDE DEF both, wa, wb, va, vb, a, b
    <3>2. Total(M + 1, both) = Xor(Total(M + 1, wa), Total(M + 1, wb))
      BY <2>2, <2>7, <2>8, <3>1, TotalAdded
    <3>3. QED  BY <2>5, <2>7, <2>8, <2>9, <2>10, <3>2, MulLaws
  <2>12. AreBytes(M + 1, w) /\ Xor(a, b) \in Byte /\ Xor(a, b) # Zero
    BY <2>5, <2>6, XorByte, XorCancels DEF AreBytes
  <2>13. \A i \in 1..M + 1 : both[i] = Mul(Xor(a, b), w[i])
    OBVIOUS
  <2> HIDE DEF w, both, a, b, wa, wb, va, vb
  <2>14. Total(M + 1, both) = Mul(Xor(a, b), Total(M + 1, w)) /\ Total(M + 1, w) \in Byte
    BY <2>2, <2>12, <2>13, TotalScaled, TotalByte
  <2>15. Mul(Xor(a, b), Total(M + 1, w)) = Mul(Xor(a, b), One) /\ One \in Byte
    BY <2>11, <2>12, <2>14, MulLaws, XorLaws
  <2>16. Total(M + 1, w) = One
    BY <2>12, <2>14, <2>15, MulCancels
  <2>17. QED  BY <2>16 DEF w, M
<1> HIDE DEF S, W
<1>3. m \in S
  BY <1>1, <1>2, Induction
<1>4. QED  BY <1>3 DEF S, W
-----------------------------------------------------------------------------
\* The polynomial of the first n of the coefficients c, at x.
Value(n, c, x) ==
  Loop(n, Zero, [i \in 1..n |-> [y \in Byte |-> Xor(Mul(y, x), c[n + 1 - i])]])

\* What a polynomial is at a point, coefficient by coefficient.
LEMMA ValueByte ==
  ASSUME NEW n \in Nat, NEW c, AreBytes(n, c), NEW x \in Byte
  PROVE  Value(n, c, x) \in Byte
<1> DEFINE turn == [i \in 1..n |-> [y \in Byte |-> Xor(Mul(y, x), c[n + 1 - i])]]
<1>1. \A i \in 1..n : n + 1 - i \in 1..n
  OBVIOUS
<1>2. \A i \in 1..n : \A y \in Byte : turn[i][y] \in Byte
  BY <1>1, XorByte, MulByte DEF AreBytes
<1> HIDE DEF turn
<1>3. Loop(n, Zero, turn) \in Byte
  BY <1>2, LoopByte, ZeroAndOne
<1>4. QED  BY <1>3 DEF Value, turn

LEMMA ValueZero ==
  ASSUME NEW c, NEW x
  PROVE  Value(0, c, x) = Zero
BY LoopStart DEF Value

\* The constant coefficient, and x times the polynomial of the others.
LEMMA ValueTurns ==
  ASSUME NEW n \in Nat, NEW c, AreBytes(n + 1, c), NEW x \in Byte,
         NEW q, \A i \in 1..n : q[i] = c[i + 1]
  PROVE  /\ AreBytes(n, q)
         /\ Value(n + 1, c, x) = Xor(c[1], Mul(x, Value(n, q, x)))
<1> DEFINE turn == [i \in 1..n |-> [y \in Byte |-> Xor(Mul(y, x), q[n + 1 - i])]]
           more == [i \in 1..n + 1 |-> [y \in Byte |-> Xor(Mul(y, x), c[(n + 1) + 1 - i])]]
<1>1. AreBytes(n, q) /\ c[1] \in Byte
  BY DEF AreBytes
<1>2. \A i \in 1..n : \A y \in Byte : turn[i][y] \in Byte /\ more[i][y] = turn[i][y]
  <2>1. ASSUME NEW i \in 1..n, NEW y \in Byte
        PROVE  turn[i][y] \in Byte /\ more[i][y] = turn[i][y]
    <3>1. i \in 1..n + 1 /\ n + 1 - i \in 1..n /\ (n + 1 - i) + 1 = (n + 1) + 1 - i
      OBVIOUS
    <3>2. q[n + 1 - i] = c[(n + 1) + 1 - i] /\ q[n + 1 - i] \in Byte
      BY <1>1, <3>1 DEF AreBytes
    <3>3. turn[i][y] = Xor(Mul(y, x), q[n + 1 - i])
          /\ more[i][y] = Xor(Mul(y, x), c[(n + 1) + 1 - i])
      BY <3>1
    <3>4. QED  BY <3>2, <3>3, XorByte, MulByte
  <2>2. QED  BY <2>1
<1>3. n + 1 \in 1..n + 1 /\ (n + 1) + 1 - (n + 1) = 1
  OBVIOUS
<1>4. \A y \in Byte : more[n + 1][y] = Xor(Mul(y, x), c[1])
  BY <1>3
<1> HIDE DEF turn, more
<1>5. Loop(n, Zero, turn) \in Byte
  BY <1>2, LoopByte, ZeroAndOne
<1>6. Loop(n, Zero, more) = Loop(n, Zero, turn)
  BY <1>2, LoopSame, ZeroAndOne
<1>7. Loop(n + 1, Zero, more) = more[n + 1][Loop(n, Zero, more)]
  BY LoopTurn
<1>8. Value(n, q, x) = Loop(n, Zero, turn) /\ Value(n + 1, c, x) = Loop(n + 1, Zero, more)
  BY DEF Value, turn, more
<1> DEFINE y == Value(n, q, x)
<1>9. Value(n + 1, c, x) = Xor(Mul(y, x), c[1]) /\ y \in Byte
  BY <1>4, <1>5, <1>6, <1>7, <1>8
<1> HIDE DEF y
<1>10. Mul(y, x) = Mul(x, y) /\ Mul(y, x) \in Byte
  BY <1>9, MulLaws
<1>11. Xor(Mul(y, x), c[1]) = Xor(c[1], Mul(y, x))
  BY <1>1, <1>10, XorLaws
<1>12. QED  BY <1>1, <1>9, <1>10, <1>11 DEF y

\* A polynomial of at most as many coefficients as there are points: its values at the
\* points, weighted, add up to its value at 0.
LEMMA Interpolation ==
  ASSUME NEW n \in Nat, NEW m \in Nat, n + 1 <= m, NEW ps, ArePoints(m, ps),
         NEW c, AreBytes(n + 1, c)
  PROVE  Total(m, [i \in 1..m |-> Mul(Value(n + 1, c, ps[i]), Weight(m, ps, i))]) = c[1]
<1> DEFINE T(l, d, k, p) == [i \in 1..k |-> Mul(Value(l, d, p[i]), Weight(k, p, i))]
           S == {l \in Nat : \A k \in Nat : \A p, d :
                   l + 1 <= k /\ ArePoints(k, p) /\ AreBytes(l + 1, d)
                     => Total(k, T(l + 1, d, k, p)) = d[1]}
<1>1. ASSUME NEW k \in Nat, k # 0, NEW p, ArePoints(k, p), NEW b \in Byte,
             NEW t, \A i \in 1..k : t[i] = Mul(b, Weight(k, p, i))
      PROVE  Total(k, t) = b
  <2> DEFINE w == [i \in 1..k |-> Weight(k, p, i)]
  <2>1. k - 1 \in Nat /\ (k - 1) + 1 = k
    BY <1>1
  <2>2. AreBytes(k, w)
    BY <1>1, PointsAreBytes, WeightByte DEF AreBytes
  <2>3. Total(k, w) = One
    BY <1>1, <2>1, WeightsAddUp
  <2>4. \A i \in 1..k : t[i] = Mul(b, w[i])
    BY <1>1
  <2> HIDE DEF w
  <2>5. Total(k, t) = Mul(b, Total(k, w))
    BY <2>2, <2>4, TotalScaled
  <2>6. QED  BY <2>3, <2>5, MulLaws
<1>2. 0 \in S
  <2>1. SUFFICES ASSUME NEW k \in Nat, NEW p, NEW d,
                        0 + 1 <= k, ArePoints(k, p), AreBytes(0 + 1, d)
                 PROVE  Total(k, T(0 + 1, d, k, p)) = d[1]
    OBVIOUS
  <2>2. d[1] \in Byte /\ k # 0 /\ AreBytes(k, p)
    BY <2>1, PointsAreBytes DEF AreBytes
  <2>3. ASSUME NEW x \in Byte  PROVE Value(0 + 1, d, x) = d[1]
    <3>1. Value(0 + 1, d, x) = Xor(d[1], Mul(x, Value(0, [i \in 1..0 |-> d[i + 1]], x)))
      BY <2>1, ValueTurns
    <3>2. QED  BY <2>2, <3>1, ValueZero, MulZero, XorLaws
  <2>4. \A i \in 1..k : T(0 + 1, d, k, p)[i] = Mul(d[1], Weight(k, p, i))
    BY <2>2, <2>3 DEF AreBytes
  <2> HIDE DEF T
  <2>5. QED  BY <1>1, <2>1, <2>2, <2>4
<1>3. ASSUME NEW l \in Nat, l \in S  PROVE l + 1 \in S
  <2>1. SUFFICES ASSUME NEW k \in Nat, NEW p, NEW d,
                        (l + 1) + 1 <= k, ArePoints(k, p), AreBytes((l + 1) + 1, d)
                 PROVE  Total(k, T((l + 1) + 1, d, k, p)) = d[1]
    OBVIOUS
  <2> DEFINE M == k - 1
             a == p[M + 1]
             q == [i \in 1..l + 1 |-> d[i + 1]]
             v(x) == Value(l + 1, q, x)
             t == [i \in 1..M + 1 |-> v(p[i])]
             u == [i \in 1..M + 1 |-> Mul(Xor(p[M + 1], p[i]), Mul(t[i], Weight(M + 1, p, i)))]
             near == [i \in 1..M |-> Mul(t[i], Weight(M, p, i))]
             all == [i \in 1..M + 1 |-> Mul(t[i], Weight(M + 1, p, i))]
             scaled == [i \in 1..M + 1 |-> Mul(a, all[i])]
             times == [i \in 1..M + 1 |-> Xor(u[i], scaled[i])]
             const == [i \in 1..M + 1 |-> Mul(d[1], Weight(M + 1, p, i))]
  <2>2. /\ M \in Nat /\ M + 1 = k /\ l + 1 <= M
        /\ M + 1 \in 1..M + 1 /\ \A i \in 1..M : i \in 1..M + 1
    BY <2>1
  <2>3. ArePoints(M + 1, p)
    BY <2>1, <2>2
  <2>4. l + 1 \in Nat /\ l + 1 <= M + 1
    BY <2>2
  <2> HIDE DEF M
  <2>5. AreBytes(M + 1, p) /\ ArePoints(M, p) /\ a \in Byte /\ M + 1 \in Nat
    BY <2>2, <2>3, PointsAreBytes, FewerPoints DEF AreBytes
  <2>6. AreBytes(l + 1, q) /\ d[1] \in Byte
    BY <2>1 DEF AreBytes
  <2>7. \A x \in Byte : v(x) \in Byte /\ Value((l + 1) + 1, d, x) = Xor(d[1], Mul(x, v(x)))
    BY <2>1, <2>4, <2>6, ValueByte, ValueTurns
  <2>8. \A i \in 1..M + 1 : Weight(M + 1, p, i) \in Byte
    BY <2>5, WeightByte
  <2>9. AreBytes(M + 1, t)
    BY <2>5, <2>7 DEF AreBytes
  <2>10. AreBytes(M + 1, u) /\ AreBytes(M, near) /\ Total(M + 1, u) = Mul(a, Total(M, near))
    <3> HIDE DEF t
    <3>1. /\ \A i \in 1..M + 1 : u[i] = Mul(Xor(p[M + 1], p[i]), Mul(t[i], Weight(M + 1, p, i)))
          /\ \A i \in 1..M : near[i] = Mul(t[i], Weight(M, p, i))
      OBVIOUS
    <3> HIDE DEF u, near
    <3>2. QED  BY <2>2, <2>3, <2>9, <3>1, LastLeftOut
  <2>11. Total(M, near) = q[1]
    <3>1. Total(M, T(l + 1, q, M, p)) = q[1]
      BY <1>3, <2>2, <2>5, <2>6
    <3>2. near = T(l + 1, q, M, p)
      BY <2>2
    <3>3. QED  BY <3>1, <3>2
  <2>12. Total(M + 1, all) = q[1]
    <3>1. Total(M + 1, T(l + 1, q, M + 1, p)) = q[1]
      BY <1>3, <2>3, <2>4, <2>5, <2>6
    <3>2. all = T(l + 1, q, M + 1, p)
      OBVIOUS
    <3>3. QED  BY <3>1, <3>2
  <2>13. AreBytes(M + 1, all)
    BY <2>8, <2>9, MulByte DEF AreBytes
  <2>14. AreBytes(M + 1, scaled) /\ Total(M + 1, scaled) = Mul(a, q[1])
    <3> HIDE DEF all
    <3>1. \A i \in 1..M + 1 : scaled[i] = Mul(a, all[i])
      OBVIOUS
    <3>2. AreBytes(M + 1, scaled)
      BY <2>5, <2>13, MulByte DEF AreBytes
    <3> HIDE DEF scaled
    <3>3. Total(M + 1, scaled) = Mul(a, Total(M + 1, all))
      BY <2>5, <2>13, <3>1, TotalScaled
    <3>4. QED  BY <2>12, <3>2, <3>3
  <2>15. Total(M + 1, times) = Zero
    <3> HIDE DEF u, scaled
    <3>1. \A i \in 1..M + 1 : times[i] = Xor(u[i], scaled[i])
      OBVIOUS
    <3> HIDE DEF times, near, all, a
    <3>2. Total(M + 1, times) = Xor(Total(M + 1, u), Total(M + 1, scaled))
      <4>1. AreBytes(M + 1, u) /\ AreBytes(M + 1, scaled) /\ M + 1 \in Nat
        BY <2>5, <2>10, <2>14
      <4>2. QED  BY <3>1, <4>1, TotalAdded
    <3>3. q[1] \in Byte
      BY <2>6 DEF AreBytes
    <3>4. Mul(a, q[1]) \in Byte
      BY <2>5, <3>3, MulByte
    <3>5. QED  BY <2>10, <2>11, <2>14, <3>2, <3>4, XorLaws
  <2>16. AreBytes(M + 1, times)
    <3> HIDE DEF u, scaled
    <3>1. QED  BY <2>10, <2>14, XorByte DEF AreBytes
  <2>17. AreBytes(M + 1, const) /\ Total(M + 1, const) = d[1]
    <3>1. AreBytes(M + 1, const)
      BY <2>6, <2>8, MulByte DEF AreBytes
    <3>2. \A i \in 1..M + 1 : const[i] = Mul(d[1], Weight(M + 1, p, i))
      OBVIOUS
    <3> HIDE DEF const
    <3>3. M + 1 # 0
      BY <2>2
    <3>4. QED  BY <1>1, <2>3, <2>5, <2>6, <3>1, <3>2, <3>3
  <2>18. \A i \in 1..M + 1 : T((l + 1) + 1, d, M + 1, p)[i] = Xor(const[i], times[i])
    <3>1. SUFFICES ASSUME NEW i \in 1..M + 1
                   PROVE  T((l + 1) + 1, d, M + 1, p)[i] = Xor(const[i], times[i])
      OBVIOUS
    <3> DEFINE x == p[i]
               y == v(p[i])
               w == Weight(M + 1, p, i)
    <3>2. x \in Byte /\ y \in Byte /\ w \in Byte /\ Mul(y, w) \in Byte /\ Xor(a, x) \in Byte
      BY <2>5, <2>7, <2>8, XorByte, MulByte DEF AreBytes
    <3>3. T((l + 1) + 1, d, M + 1, p)[i] = Mul(Xor(d[1], Mul(x, y)), w)
      BY <2>7, <3>2
    <3>4. times[i] = Xor(Mul(Xor(a, x), Mul(y, w)), Mul(a, Mul(y, w)))
      OBVIOUS
    <3>5. const[i] = Mul(d[1], w)
      OBVIOUS
    <3> HIDE DEF x, y, w, v, times, const, a, T
    <3>6. times[i] = Mul(Xor(Xor(a, x), a), Mul(y, w))
      BY <2>5, <3>2, <3>4, Distributes
    <3>7. Xor(Xor(a, x), a) = x
      BY <2>5, <3>2, XorLaws, XorCancels
    <3>8. Mul(x, Mul(y, w)) = Mul(Mul(x, y), w)
      BY <3>2, MulAssociates
    <3>9. Mul(Xor(d[1], Mul(x, y)), w) = Xor(Mul(d[1], w), Mul(Mul(x, y), w))
      <4>1. Mul(x, y) \in Byte
        BY <3>2, MulByte
      <4>2. QED  BY <2>6, <3>2, <4>1, Distributes
    <3>10. QED  BY <3>3, <3>5, <3>6, <3>7, <3>8, <3>9
  <2> HIDE DEF T, const, times
  <2>19. Total(M + 1, T((l + 1) + 1, d, M + 1, p))
           = Xor(Total(M + 1, const), Total(M + 1, times))
    BY <2>5, <2>16, <2>17, <2>18, TotalAdded
  <2>20. QED  BY <2>2, <2>6, <2>15, <2>17, <2>19, XorLaws
<1> HIDE DEF S, T
<1>4. n \in S
  BY <1>2, <1>3, Induction
<1>5. Total(m, T(n + 1, c, m, ps)) = c[1]
  BY <1>4 DEF S
<1>6. QED  BY <1>5 DEF T
-----------------------------------------------------------------------------
\* What a power is, turn by turn.
LEMMA PowerByte ==
  ASSUME NEW n \in Nat, NEW x \in Byte
  PROVE  /\ Power(x, n) \in Byte
         /\ x # Zero => Power(x, n) # Zero
         /\ Power(x, 0) = One
         /\ Power(x, n + 1) = Mul(Power(x, n), x)
<1> DEFINE turn(m) == [i \in 1..m |-> [y \in Byte |-> Mul(y, x)]]
           S == {m \in Nat : Power(x, m) \in Byte /\ (x # Zero => Power(x, m) # Zero)}
<1>1. ASSUME NEW m \in Nat  PROVE Power(x, m) \in Byte /\ Power(x, m + 1) = Mul(Power(x, m), x)
  <2>1. \A i \in 1..m : \A y \in Byte :
          turn(m)[i][y] \in Byte /\ turn(m + 1)[i][y] = turn(m)[i][y]
    BY MulByte
  <2>2. m + 1 \in 1..m + 1
    OBVIOUS
  <2>3. \A y \in Byte : turn(m + 1)[m + 1][y] = Mul(y, x)
    BY <2>2
  <2> HIDE DEF turn
  <2>4. Loop(m, One, turn(m)) \in Byte
    BY <2>1, LoopByte, ZeroAndOne
  <2>5. Loop(m, One, turn(m + 1)) = Loop(m, One, turn(m))
    BY <2>1, LoopSame, ZeroAndOne
  <2>6. Loop(m + 1, One, turn(m + 1)) = turn(m + 1)[m + 1][Loop(m, One, turn(m + 1))]
    BY LoopTurn
  <2>7. Power(x, m) = Loop(m, One, turn(m)) /\ Power(x, m + 1) = Loop(m + 1, One, turn(m + 1))
    BY DEF Power, turn
  <2>8. QED  BY <2>3, <2>4, <2>5, <2>6, <2>7
<1> HIDE DEF turn
<1>2. Power(x, 0) = One
  BY LoopStart DEF Power
<1>3. 0 \in S
  BY <1>2, XorLaws
<1>4. ASSUME NEW m \in Nat, m \in S  PROVE m + 1 \in S
  <2>1. Power(x, m + 1) = Mul(Power(x, m), x) /\ Power(x, m) \in Byte
    BY <1>1
  <2>2. QED  BY <1>4, <2>1, MulLaws
<1> HIDE DEF S
<1>5. n \in S
  BY <1>3, <1>4, Induction
<1>6. QED  BY <1>1, <1>2, <1>5 DEF S

\* A coefficient more, for the highest power.
LEMMA ValueAppend ==
  ASSUME NEW n \in Nat, NEW c, AreBytes(n + 1, c), NEW x \in Byte
  PROVE  Value(n + 1, c, x) = Xor(Value(n, c, x), Mul(c[n + 1], Power(x, n)))
<1> DEFINE S == {m \in Nat : \A d : AreBytes(m + 1, d) =>
                   Value(m + 1, d, x) = Xor(Value(m, d, x), Mul(d[m + 1], Power(x, m)))}
<1>1. 0 \in S
  <2>1. SUFFICES ASSUME NEW d, AreBytes(0 + 1, d)
                 PROVE  Value(0 + 1, d, x) = Xor(Value(0, d, x), Mul(d[0 + 1], Power(x, 0)))
    OBVIOUS
  <2>2. d[1] \in Byte
    BY <2>1 DEF AreBytes
  <2>3. Value(0 + 1, d, x) = Xor(d[1], Mul(x, Value(0, [i \in 1..0 |-> d[i + 1]], x)))
    BY <2>1, ValueTurns
  <2>4. Value(0 + 1, d, x) = d[1]
    BY <2>2, <2>3, ValueZero, MulZero, XorLaws
  <2>5. Value(0, d, x) = Zero /\ Power(x, 0) = One /\ Mul(d[1], One) = d[1]
    BY <2>2, ValueZero, PowerByte, MulLaws
  <2>6. QED  BY <2>2, <2>4, <2>5, XorLaws
<1>2. ASSUME NEW m \in Nat, m \in S  PROVE m + 1 \in S
  <2>1. SUFFICES ASSUME NEW d, AreBytes((m + 1) + 1, d)
                 PROVE  Value((m + 1) + 1, d, x)
                          = Xor(Value(m + 1, d, x), Mul(d[(m + 1) + 1], Power(x, m + 1)))
    OBVIOUS
  <2> DEFINE q == [i \in 1..m + 1 |-> d[i + 1]]
             y == Value(m, q, x)
             P == Power(x, m)
             z == q[m + 1]
  <2>2. /\ Value((m + 1) + 1, d, x) = Xor(d[1], Mul(x, Value(m + 1, q, x)))
        /\ AreBytes(m + 1, q)
    BY <2>1, ValueTurns
  <2>3. AreBytes(m + 1, d)
    BY <2>1, FewerBytes
  <2>4. Value(m + 1, d, x) = Xor(d[1], Mul(x, y)) /\ AreBytes(m, q)
    BY <2>3, ValueTurns
  <2>5. Value(m + 1, q, x) = Xor(y, Mul(z, P))
    BY <1>2, <2>2
  <2>6. z = d[(m + 1) + 1] /\ z \in Byte /\ d[1] \in Byte
    BY <2>1, <2>2 DEF AreBytes
  <2>7. P \in Byte /\ Power(x, m + 1) = Mul(P, x)
    BY PowerByte
  <2>8. y \in Byte
    BY <2>4, ValueByte
  <2> HIDE DEF q, y, P, z
  <2>9. Mul(x, Xor(y, Mul(z, P))) = Xor(Mul(x, y), Mul(x, Mul(z, P)))
    <3>1. Mul(z, P) \in Byte
      BY <2>6, <2>7, MulByte
    <3>2. QED  BY <2>8, <3>1, Distributes
  <2>10. Mul(x, Mul(z, P)) = Mul(z, Mul(P, x))
    <3>1. Mul(x, Mul(z, P)) = Mul(Mul(z, P), x)
      BY <2>6, <2>7, MulLaws
    <3>2. QED  BY <2>6, <2>7, <3>1, MulAssociates
  <2>11. Xor(d[1], Xor(Mul(x, y), Mul(z, Mul(P, x))))
           = Xor(Xor(d[1], Mul(x, y)), Mul(z, Mul(P, x)))
    <3>1. Mul(x, y) \in Byte /\ Mul(P, x) \in Byte
      BY <2>7, <2>8, MulByte
    <3>2. Mul(z, Mul(P, x)) \in Byte
      BY <2>6, <3>1, MulByte
    <3>3. QED  BY <2>6, <3>1, <3>2, XorLaws
  <2>12. QED  BY <2>2, <2>4, <2>5, <2>6, <2>7, <2>9, <2>10, <2>11
<1> HIDE DEF S
<1>3. n \in S
  BY <1>1, <1>2, Induction
<1>4. QED  BY <1>3 DEF S

\* Polynomials of which the coefficients are the same have the same values.
LEMMA ValueSame ==
  ASSUME NEW n \in Nat, NEW c, AreBytes(n, c), NEW d, \A i \in 1..n : d[i] = c[i],
         NEW x \in Byte
  PROVE  Value(n, d, x) = Value(n, c, x)
<1> DEFINE turn == [i \in 1..n |-> [y \in Byte |-> Xor(Mul(y, x), c[n + 1 - i])]]
           other == [i \in 1..n |-> [y \in Byte |-> Xor(Mul(y, x), d[n + 1 - i])]]
<1>1. \A i \in 1..n : n + 1 - i \in 1..n
  OBVIOUS
<1>2. \A i \in 1..n : \A y \in Byte : turn[i][y] \in Byte /\ other[i][y] = turn[i][y]
  BY <1>1, XorByte, MulByte DEF AreBytes
<1> HIDE DEF turn, other
<1>3. Loop(n, Zero, other) = Loop(n, Zero, turn)
  BY <1>2, LoopSame, ZeroAndOne
<1>4. QED  BY <1>3 DEF Value, turn, other

\* A polynomial of no more coefficients than it has zeros is 0.
LEMMA OnlyZero ==
  ASSUME NEW n \in Nat, NEW m \in Nat, n <= m, NEW ps, ArePoints(m, ps),
         NEW c, AreBytes(n, c), \A i \in 1..m : Value(n, c, ps[i]) = Zero
  PROVE  \A i \in 1..n : c[i] = Zero
<1> DEFINE S == {l \in Nat : l <= m => \A d :
                   AreBytes(l, d) /\ (\A i \in 1..m : Value(l, d, ps[i]) = Zero)
                     => \A i \in 1..l : d[i] = Zero}
<1>1. 0 \in S
  OBVIOUS
<1>2. ASSUME NEW l \in Nat, l \in S  PROVE l + 1 \in S
  <2>1. SUFFICES ASSUME l + 1 <= m, NEW d, AreBytes(l + 1, d),
                        \A i \in 1..m : Value(l + 1, d, ps[i]) = Zero
                 PROVE  \A i \in 1..l + 1 : d[i] = Zero
    OBVIOUS
  <2> DEFINE q == [i \in 1..l |-> d[i + 1]]
             t == [i \in 1..m |-> Mul(Value(l + 1, d, ps[i]), Weight(m, ps, i))]
             w == [i \in 1..m |-> Zero]
  <2>2. Total(m, t) = d[1]
    BY <2>1, Interpolation
  <2>3. AreBytes(m, w) /\ \A i \in 1..m : t[i] = Mul(Zero, w[i])
    BY <2>1, MulZero, XorLaws DEF AreBytes
  <2> HIDE DEF t, w
  <2>4. Total(m, t) = Mul(Zero, Total(m, w))
    BY <2>3, TotalScaled, XorLaws
  <2>5. d[1] = Zero
    BY <2>2, <2>4, MulZero
  <2>6. AreBytes(l, q)
    BY <2>1 DEF AreBytes
  <2>7. \A i \in 1..m : Value(l, q, ps[i]) = Zero
    <3>1. SUFFICES ASSUME NEW i \in 1..m  PROVE Value(l, q, ps[i]) = Zero
      OBVIOUS
    <3> DEFINE y == Value(l, q, ps[i])
    <3>2. ps[i] \in Byte /\ ps[i] # Zero
      BY DEF ArePoints
    <3>3. y \in Byte
      BY <2>6, <3>2, ValueByte
    <3>4. Value(l + 1, d, ps[i]) = Xor(d[1], Mul(ps[i], y))
      BY <2>1, <3>2, ValueTurns
    <3> HIDE DEF y
    <3>5. Mul(ps[i], y) \in Byte
      BY <3>2, <3>3, MulByte
    <3>6. Mul(ps[i], y) = Zero
      BY <2>1, <2>5, <3>4, <3>5, XorLaws
    <3>7. y = Zero
      BY <3>2, <3>3, <3>6, MulLaws
    <3>8. QED  BY <3>7 DEF y
  <2>8. \A i \in 1..l : q[i] = Zero
    <3>1. \A f : AreBytes(l, f) /\ (\A i \in 1..m : Value(l, f, ps[i]) = Zero)
            => \A i \in 1..l : f[i] = Zero
      BY <1>2, <2>1
    <3> HIDE DEF q
    <3>2. QED  BY <2>6, <2>7, <3>1
  <2>9. QED
    <3>1. SUFFICES ASSUME NEW i \in 1..l + 1  PROVE d[i] = Zero
      OBVIOUS
    <3>2. CASE i = 1
      BY <2>5, <3>2
    <3>3. CASE i # 1
      <4>1. i - 1 \in 1..l /\ (i - 1) + 1 = i
        BY <3>3
      <4>2. q[i - 1] = d[i]
        BY <4>1
      <4>3. QED  BY <2>8, <4>1, <4>2
    <3>4. QED  BY <3>2, <3>3
<1> HIDE DEF S
<1>3. n \in S
  BY <1>1, <1>2, Induction
<1>4. QED  BY <1>3 DEF S

\* The sum of two polynomials, coefficient by coefficient.
LEMMA ValueXor ==
  ASSUME NEW n \in Nat, NEW c, NEW d, NEW e, AreBytes(n, c), AreBytes(n, d),
         \A i \in 1..n : e[i] = Xor(c[i], d[i]), NEW x \in Byte
  PROVE  Value(n, e, x) = Xor(Value(n, c, x), Value(n, d, x))
<1> DEFINE S == {m \in Nat : m <= n => Value(m, e, x) = Xor(Value(m, c, x), Value(m, d, x))}
<1>1. AreBytes(n, e)
  BY XorByte DEF AreBytes
<1>2. 0 \in S
  BY ValueZero, XorLaws
<1>3. ASSUME NEW m \in Nat, m \in S  PROVE m + 1 \in S
  <2>1. SUFFICES ASSUME m + 1 <= n
                 PROVE  Value(m + 1, e, x) = Xor(Value(m + 1, c, x), Value(m + 1, d, x))
    OBVIOUS
  <2>2. /\ AreBytes(m + 1, c) /\ AreBytes(m + 1, d) /\ AreBytes(m + 1, e)
        /\ AreBytes(m, c) /\ AreBytes(m, d) /\ AreBytes(m, e)
    BY <1>1, <2>1, FewerBytes
  <2> DEFINE P == Power(x, m)
             vc == Value(m, c, x)
             vd == Value(m, d, x)
             lc == c[m + 1]
             ld == d[m + 1]
  <2>3. Value(m + 1, c, x) = Xor(vc, Mul(lc, P))
    BY <2>2, ValueAppend
  <2>4. Value(m + 1, d, x) = Xor(vd, Mul(ld, P))
    BY <2>2, ValueAppend
  <2>5. Value(m + 1, e, x) = Xor(Value(m, e, x), Mul(e[m + 1], P))
    BY <2>2, ValueAppend
  <2>6. Value(m, e, x) = Xor(vc, vd) /\ e[m + 1] = Xor(lc, ld)
    BY <1>3, <2>1
  <2>7. vc \in Byte /\ vd \in Byte /\ lc \in Byte /\ ld \in Byte /\ P \in Byte
    BY <2>2, ValueByte, PowerByte DEF AreBytes
  <2> HIDE DEF P, vc, vd, lc, ld
  <2>8. Mul(Xor(lc, ld), P) = Xor(Mul(lc, P), Mul(ld, P))
    BY <2>7, Distributes
  <2>9. Mul(lc, P) \in Byte /\ Mul(ld, P) \in Byte
    BY <2>7, MulByte
  <2>10. QED  BY <2>3, <2>4, <2>5, <2>6, <2>7, <2>8, <2>9, XorPairs
<1> HIDE DEF S
<1>4. n \in S
  BY <1>2, <1>3, Induction
<1>5. QED  BY <1>4 DEF S

\* Two polynomials of n + 1 coefficients that agree at 0 and at n other points are one.
LEMMA OnlyOne ==
  ASSUME NEW n \in Nat, NEW ps, ArePoints(n, ps),
         NEW c, NEW d, AreBytes(n + 1, c), AreBytes(n + 1, d), c[1] = d[1],
         \A i \in 1..n : Value(n + 1, c, ps[i]) = Value(n + 1, d, ps[i])
  PROVE  \A i \in 1..n + 1 : c[i] = d[i]
<1> DEFINE e == [i \in 1..n |-> Xor(c[i + 1], d[i + 1])]
           qc == [i \in 1..n |-> c[i + 1]]
           qd == [i \in 1..n |-> d[i + 1]]
<1>1. AreBytes(n, e) /\ AreBytes(n, qc) /\ AreBytes(n, qd) /\ c[1] \in Byte
  BY XorByte DEF AreBytes
<1>2. ASSUME NEW i \in 1..n  PROVE Value(n, e, ps[i]) = Zero
  <2> DEFINE x == ps[i]
             vc == Value(n, qc, x)
             vd == Value(n, qd, x)
  <2>1. x \in Byte /\ x # Zero
    BY DEF ArePoints
  <2>2. vc \in Byte /\ vd \in Byte
    BY <1>1, <2>1, ValueByte
  <2>3. Value(n + 1, c, x) = Xor(c[1], Mul(x, vc))
    BY <2>1, ValueTurns
  <2>4. Value(n + 1, d, x) = Xor(d[1], Mul(x, vd))
    BY <2>1, ValueTurns
  <2>5. \A j \in 1..n : e[j] = Xor(qc[j], qd[j])
    OBVIOUS
  <2>6. Value(n, e, x) = Xor(vc, vd)
    <3> HIDE DEF e, qc, qd, x
    <3>1. QED  BY <1>1, <2>1, <2>5, ValueXor
  <2> HIDE DEF vc, vd
  <2>7. Xor(c[1], Mul(x, vc)) = Xor(c[1], Mul(x, vd))
    BY <2>3, <2>4
  <2>8. Mul(x, vc) \in Byte /\ Mul(x, vd) \in Byte
    BY <2>1, <2>2, MulByte
  <2>9. Mul(x, vc) = Mul(x, vd)
    BY <1>1, <2>7, <2>8, XorCancels
  <2>10. vc = vd
    BY <2>1, <2>2, <2>9, MulCancels
  <2>11. QED  BY <2>2, <2>6, <2>10, XorLaws
<1> HIDE DEF e
<1>3. \A i \in 1..n : e[i] = Zero
  BY <1>1, <1>2, OnlyZero
<1>4. ASSUME NEW i \in 1..n + 1  PROVE c[i] = d[i]
  <2>1. CASE i = 1
    BY <2>1
  <2>2. CASE i # 1
    <3>1. i - 1 \in 1..n /\ (i - 1) + 1 = i
      BY <2>2
    <3>2. Xor(c[i], d[i]) = Zero
      BY <1>3, <3>1 DEF e
    <3>3. c[i] \in Byte /\ d[i] \in Byte
      BY DEF AreBytes
    <3>4. QED  BY <3>2, <3>3, XorCancels
  <2>3. QED  BY <2>1, <2>2
<1>5. QED  BY <1>4
-----------------------------------------------------------------------------
\* y, and the polynomial q times the distance from a, is a polynomial.
LEMMA Shifted ==
  ASSUME NEW n \in Nat, NEW q, AreBytes(n, q), NEW a \in Byte, NEW y \in Byte
  PROVE  \E c \in [1..n + 1 -> Byte] : \A x \in Byte :
           Value(n + 1, c, x) = Xor(y, Mul(Xor(x, a), Value(n, q, x)))
<1> DEFINE Is(l, c, r, z) == \A x \in Byte :
             Value(l + 1, c, x) = Xor(z, Mul(Xor(x, a), Value(l, r, x)))
           S == {l \in Nat : \A r : \A z \in Byte : AreBytes(l, r) =>
                   \E c \in [1..l + 1 -> Byte] : Is(l, c, r, z)}
<1>1. 0 \in S
  <2>1. SUFFICES ASSUME NEW r, NEW z \in Byte
                 PROVE  \E c \in [1..0 + 1 -> Byte] : Is(0, c, r, z)
    OBVIOUS
  <2> DEFINE c == [i \in 1..0 + 1 |-> z]
  <2>2. c \in [1..0 + 1 -> Byte] /\ AreBytes(0 + 1, c) /\ c[1] = z
    BY DEF AreBytes
  <2>3. ASSUME NEW x \in Byte
        PROVE  Value(0 + 1, c, x) = Xor(z, Mul(Xor(x, a), Value(0, r, x)))
    <3>1. Value(0 + 1, c, x) = Xor(c[1], Mul(x, Value(0, [i \in 1..0 |-> c[i + 1]], x)))
      BY <2>2, ValueTurns
    <3>2. QED  BY <2>2, <3>1, ValueZero, MulZero
  <2>4. QED  BY <2>2, <2>3
<1>2. ASSUME NEW l \in Nat, l \in S  PROVE l + 1 \in S
  <2>1. SUFFICES ASSUME NEW r, NEW z \in Byte, AreBytes(l + 1, r)
                 PROVE  \E c \in [1..(l + 1) + 1 -> Byte] : Is(l + 1, c, r, z)
    <3> HIDE DEF Is
    <3>1. QED  OBVIOUS
  <2> DEFINE s == [i \in 1..l |-> r[i + 1]]
  <2>2. AreBytes(l, s) /\ r[1] \in Byte
    BY <2>1 DEF AreBytes
  <2>3. PICK d \in [1..l + 1 -> Byte] : Is(l, d, s, r[1])
    <3>1. \A g : \A h \in Byte : AreBytes(l, g) => \E c \in [1..l + 1 -> Byte] : Is(l, c, g, h)
      BY <1>2
    <3> HIDE DEF Is, s
    <3>2. QED  BY <2>2, <3>1
  <2> DEFINE first == Xor(z, Mul(a, r[1]))
             c == [i \in 1..(l + 1) + 1 |-> IF i = 1 THEN first ELSE d[i - 1]]
  <2>4. first \in Byte
    BY <2>2, XorByte, MulByte
  <2>5. ASSUME NEW i \in 1..(l + 1) + 1  PROVE c[i] \in Byte
    <3>1. i # 1 => i - 1 \in 1..l + 1
      OBVIOUS
    <3> HIDE DEF first
    <3>2. QED  BY <2>4, <3>1
  <2>6. c \in [1..(l + 1) + 1 -> Byte] /\ AreBytes((l + 1) + 1, c) /\ AreBytes(l + 1, d)
    <3> HIDE DEF first
    <3>1. QED  BY <2>5 DEF AreBytes
  <2>7. \A i \in 1..l + 1 : d[i] = c[i + 1]
    OBVIOUS
  <2>8. c[1] = first
    OBVIOUS
  <2>9. ASSUME NEW x \in Byte
        PROVE  Value((l + 1) + 1, c, x) = Xor(z, Mul(Xor(x, a), Value(l + 1, r, x)))
    <3> DEFINE R == r[1]
               y1 == Value(l, s, x)
               xy == Mul(x, y1)
    <3>1. Value((l + 1) + 1, c, x) = Xor(first, Mul(x, Value(l + 1, d, x)))
      <4> HIDE DEF c, first
      <4>1. QED  BY <2>6, <2>7, <2>8, ValueTurns
    <3>2. Value(l + 1, d, x) = Xor(R, Mul(Xor(x, a), y1))
      BY <2>3
    <3>3. Value(l + 1, r, x) = Xor(R, xy)
      BY <2>1, ValueTurns
    <3>4. y1 \in Byte /\ R \in Byte
      BY <2>2, ValueByte
    <3> HIDE DEF y1, R, s, c
    <3>5. Xor(x, a) \in Byte /\ xy \in Byte
      BY <3>4, XorByte, MulByte
    <3>6. Mul(x, Xor(R, Mul(Xor(x, a), y1))) = Xor(Mul(x, R), Mul(x, Mul(Xor(x, a), y1)))
      <4>1. Mul(Xor(x, a), y1) \in Byte
        BY <3>4, <3>5, MulByte
      <4>2. QED  BY <3>4, <4>1, Distributes
    <3>7. Mul(x, Mul(Xor(x, a), y1)) = Mul(Xor(x, a), xy)
      <4>1. Mul(x, Mul(Xor(x, a), y1)) = Mul(Mul(x, Xor(x, a)), y1)
        BY <3>4, <3>5, MulAssociates
      <4>2. Mul(x, Xor(x, a)) = Mul(Xor(x, a), x)
        BY <3>5, MulLaws
      <4>3. Mul(Mul(Xor(x, a), x), y1) = Mul(Xor(x, a), Mul(x, y1))
        BY <3>4, <3>5, MulAssociates
      <4>4. QED  BY <4>1, <4>2, <4>3
    <3>8. Mul(Xor(x, a), Xor(R, xy)) = Xor(Mul(Xor(x, a), R), Mul(Xor(x, a), xy))
      BY <3>4, <3>5, Distributes
    <3>9. Mul(Xor(x, a), R) = Xor(Mul(x, R), Mul(a, R))
      BY <3>4, Distributes
    <3>10. first = Xor(z, Mul(a, R))
      BY DEF R
    <3> DEFINE aR == Mul(a, R)
               xR == Mul(x, R)
               W == Mul(Xor(x, a), xy)
    <3>11. aR \in Byte /\ xR \in Byte /\ W \in Byte
      BY <3>4, <3>5, MulByte
    <3> HIDE DEF aR, xR, W, xy, first
    <3>12. Xor(Xor(z, aR), Xor(xR, W)) = Xor(z, Xor(Xor(xR, aR), W))
      <4>1. Xor(Xor(z, aR), Xor(xR, W)) = Xor(z, Xor(aR, Xor(xR, W)))
        BY <3>11, XorByte, XorLaws
      <4>2. Xor(aR, Xor(xR, W)) = Xor(Xor(aR, xR), W) /\ Xor(aR, xR) = Xor(xR, aR)
        BY <3>11, XorLaws
      <4>3. QED  BY <4>1, <4>2
    <3>13. QED
      BY <3>1, <3>2, <3>3, <3>6, <3>7, <3>8, <3>9, <3>10, <3>12 DEF aR, xR, W
  <2>10. Is(l + 1, c, r, z)
    BY <2>9
  <2>11. QED  BY <2>6, <2>10
<1>3. n \in S
  <2> HIDE DEF S
  <2>1. QED  BY <1>1, <1>2, Induction
<1>4. \E c \in [1..n + 1 -> Byte] : Is(n, c, q, y)
  BY <1>3
<1>5. QED  BY <1>4

\* There is a polynomial through as many points as it has coefficients.
LEMMA Through ==
  ASSUME NEW m \in Nat, NEW ps, ArePoints(m, ps), NEW ys, AreBytes(m, ys)
  PROVE  \E c \in [1..m -> Byte] : \A i \in 1..m : Value(m, c, ps[i]) = ys[i]
<1> DEFINE Meets(l, c, zs) == \A i \in 1..l : Value(l, c, ps[i]) = zs[i]
           S == {l \in Nat : l <= m => \A zs : AreBytes(l, zs) =>
                   \E c \in [1..l -> Byte] : Meets(l, c, zs)}
<1>1. 0 \in S
  <2>1. [i \in 1..0 |-> Zero] \in [1..0 -> Byte]
    BY XorLaws
  <2>2. \A zs, c : Meets(0, c, zs)
    OBVIOUS
  <2> HIDE DEF Meets
  <2>3. QED  BY <2>1, <2>2
<1>2. ASSUME NEW l \in Nat, l \in S  PROVE l + 1 \in S
  <2>1. SUFFICES ASSUME l + 1 <= m, NEW zs, AreBytes(l + 1, zs)
                 PROVE  \E c \in [1..l + 1 -> Byte] : Meets(l + 1, c, zs)
    OBVIOUS
  <2> DEFINE a == ps[l + 1]
             y == zs[l + 1]
             ws == [i \in 1..l |-> Mul(Xor(zs[i], y), Inv(Xor(ps[i], a)))]
  <2>2. /\ a \in Byte /\ y \in Byte
        /\ \A i \in 1..l : ps[i] \in Byte /\ zs[i] \in Byte /\ ps[i] # a
    BY <2>1 DEF ArePoints, AreBytes
  <2> HIDE DEF a, y
  <2>3. ASSUME NEW i \in 1..l
        PROVE  ws[i] \in Byte /\ Mul(Xor(ps[i], a), ws[i]) = Xor(zs[i], y)
    <3> DEFINE d == Xor(ps[i], a)
               e == Xor(zs[i], y)
    <3>1. d \in Byte /\ e \in Byte /\ d # Zero
      BY <2>2, XorByte, XorCancels
    <3>2. ws[i] = Mul(e, Inv(d))
      OBVIOUS
    <3> HIDE DEF d, e, ws
    <3>3. Inv(d) \in Byte /\ Mul(d, Inv(d)) = One /\ Mul(e, One) = e
      BY <3>1, MulLaws
    <3>4. Mul(d, Mul(e, Inv(d))) = Mul(Mul(d, e), Inv(d)) /\ Mul(d, e) = Mul(e, d)
      BY <3>1, <3>3, MulAssociates, MulLaws
    <3>5. Mul(Mul(e, d), Inv(d)) = Mul(e, Mul(d, Inv(d)))
      BY <3>1, <3>3, MulAssociates
    <3>6. Mul(e, Inv(d)) \in Byte
      BY <3>1, <3>3, MulByte
    <3>7. QED  BY <3>2, <3>3, <3>4, <3>5, <3>6 DEF d, e
  <2>4. AreBytes(l, ws)
    BY <2>3 DEF AreBytes
  <2>5. PICK q \in [1..l -> Byte] : Meets(l, q, ws)
    <3>1. \A us : AreBytes(l, us) => \E c \in [1..l -> Byte] : Meets(l, c, us)
      BY <1>2, <2>1
    <3> HIDE DEF ws, Meets
    <3>2. QED  BY <2>4, <3>1
  <2>6. AreBytes(l, q)
    BY DEF AreBytes
  <2>7. PICK c \in [1..l + 1 -> Byte] : \A x \in Byte :
          Value(l + 1, c, x) = Xor(y, Mul(Xor(x, a), Value(l, q, x)))
    BY <2>2, <2>6, Shifted
  <2>8. ASSUME NEW i \in 1..l + 1  PROVE Value(l + 1, c, ps[i]) = zs[i]
    <3>1. CASE i = l + 1
      <4>1. Value(l + 1, c, a) = Xor(y, Mul(Xor(a, a), Value(l, q, a)))
        BY <2>2, <2>7
      <4>2. Xor(a, a) = Zero /\ Xor(y, Zero) = y
        BY <2>2, XorLaws
      <4>3. QED  BY <3>1, <4>1, <4>2, MulZero DEF a, y
    <3>2. CASE i # l + 1
      <4>1. i \in 1..l
        BY <3>2
      <4>2. Value(l, q, ps[i]) = ws[i]
        BY <2>5, <4>1
      <4>3. Value(l + 1, c, ps[i]) = Xor(y, Xor(zs[i], y))
        <5> HIDE DEF ws
        <5>1. QED  BY <2>2, <2>3, <2>7, <4>1, <4>2
      <4>4. zs[i] \in Byte
        BY <2>2, <4>1
      <4>5. Xor(y, Xor(zs[i], y)) = Xor(y, Xor(y, zs[i]))
        BY <2>2, <4>4, XorLaws
      <4>6. QED  BY <2>2, <4>3, <4>4, <4>5, XorCancels
    <3>3. QED  BY <3>1, <3>2
  <2>9. Meets(l + 1, c, zs)
    BY <2>8
  <2>10. QED  BY <2>9
<1>3. m \in S
  <2> HIDE DEF S
  <2>1. QED  BY <1>1, <1>2, Induction
<1>4. \E c \in [1..m -> Byte] : Meets(m, c, ys)
  BY <1>3
<1>5. QED  BY <1>4

\* One more coefficient, and the polynomial may be any byte at 0.
LEMMA ThroughByte ==
  ASSUME NEW m \in Nat, NEW ps, ArePoints(m, ps), NEW ys, AreBytes(m, ys), NEW b \in Byte
  PROVE  \E c \in [1..m + 1 -> Byte] :
           c[1] = b /\ \A i \in 1..m : Value(m + 1, c, ps[i]) = ys[i]
<1> DEFINE ws == [i \in 1..m |-> Mul(Xor(ys[i], b), Inv(ps[i]))]
<1>1. ASSUME NEW i \in 1..m
      PROVE  /\ ps[i] \in Byte /\ ys[i] \in Byte /\ ws[i] \in Byte
             /\ Mul(ps[i], ws[i]) = Xor(ys[i], b)
  <2> DEFINE d == ps[i]
             e == Xor(ys[i], b)
  <2>1. d \in Byte /\ d # Zero /\ e \in Byte /\ ys[i] \in Byte
    BY XorByte DEF ArePoints, AreBytes
  <2>2. ws[i] = Mul(e, Inv(d))
    OBVIOUS
  <2> HIDE DEF d, e, ws
  <2>3. Inv(d) \in Byte /\ Mul(d, Inv(d)) = One /\ Mul(e, One) = e
    BY <2>1, MulLaws
  <2>4. Mul(d, Mul(e, Inv(d))) = Mul(Mul(d, e), Inv(d)) /\ Mul(d, e) = Mul(e, d)
    BY <2>1, <2>3, MulAssociates, MulLaws
  <2>5. Mul(Mul(e, d), Inv(d)) = Mul(e, Mul(d, Inv(d)))
    BY <2>1, <2>3, MulAssociates
  <2>6. Mul(e, Inv(d)) \in Byte
    BY <2>1, <2>3, MulByte
  <2>7. QED  BY <2>1, <2>2, <2>3, <2>4, <2>5, <2>6 DEF d, e
<1>2. AreBytes(m, ws)
  BY <1>1 DEF AreBytes
<1>3. PICK q \in [1..m -> Byte] : \A i \in 1..m : Value(m, q, ps[i]) = ws[i]
  <2> HIDE DEF ws
  <2>1. QED  BY <1>2, Through
<1> DEFINE c == [i \in 1..m + 1 |-> IF i = 1 THEN b ELSE q[i - 1]]
<1>4. ASSUME NEW i \in 1..m + 1  PROVE c[i] \in Byte
  <2>1. i # 1 => i - 1 \in 1..m
    OBVIOUS
  <2>2. QED  BY <2>1
<1>5. c \in [1..m + 1 -> Byte] /\ AreBytes(m + 1, c) /\ c[1] = b
  BY <1>4 DEF AreBytes
<1>6. \A i \in 1..m : q[i] = c[i + 1]
  OBVIOUS
<1> HIDE DEF c, ws
<1>7. ASSUME NEW i \in 1..m  PROVE Value(m + 1, c, ps[i]) = ys[i]
  <2>1. ps[i] \in Byte /\ ys[i] \in Byte
    BY <1>1
  <2>2. Value(m + 1, c, ps[i]) = Xor(c[1], Mul(ps[i], Value(m, q, ps[i])))
    BY <1>5, <1>6, <2>1, ValueTurns
  <2>3. Value(m + 1, c, ps[i]) = Xor(b, Xor(ys[i], b))
    BY <1>1, <1>3, <1>5, <2>2
  <2>4. Xor(ys[i], b) = Xor(b, ys[i])
    BY <2>1, XorLaws
  <2>5. QED  BY <2>1, <2>3, <2>4, XorCancels
<1>8. QED  BY <1>5, <1>7
-----------------------------------------------------------------------------
\* Shares have different numbers, and so their points differ; none of them is 0.
LEMMA ToBytePoints ==
  /\ \A x \in 1..255 : ToByte(x) \in Byte /\ ToByte(x) # Zero
  /\ \A x, y \in 1..255 : ToByte(x) = ToByte(y) => x = y
<1> DEFINE bit(x, w) == (x \div w) % 2
<1>1. ASSUME NEW x \in 0..255
      PROVE  x = bit(x, 1) + 2 * bit(x, 2) + 4 * bit(x, 4) + 8 * bit(x, 8)
                   + 16 * bit(x, 16) + 32 * bit(x, 32) + 64 * bit(x, 64) + 128 * bit(x, 128)
  OBVIOUS
<1>2. ASSUME NEW x \in 0..255, NEW w \in Bit
      PROVE  bit(x, w) \in {0, 1} /\ (bit(x, w) = 1 <=> w \in ToByte(x))
  BY <1>2 DEF Bit, ToByte
<1>3. ASSUME NEW x \in 0..255, NEW y \in 0..255, ToByte(x) = ToByte(y)  PROVE x = y
  <2>1. \A w \in Bit : bit(x, w) = bit(y, w)
    BY <1>2, <1>3
  <2>2. \A w \in {1, 2, 4, 8, 16, 32, 64, 128} : bit(x, w) = bit(y, w)
    BY <2>1 DEF Bit
  <2> HIDE DEF bit
  <2>3. QED  BY <1>1, <2>2
<1>4. ToByte(0) = Zero
  BY DEF ToByte, Zero, Bit
<1>5. \A x \in 1..255 : ToByte(x) \in Byte
  BY DEF ToByte, Byte
<1> HIDE DEF bit
<1>6. \A x \in 1..255 : ToByte(x) # Zero
  <2>1. \A x \in 1..255 : x \in 0..255 /\ x # 0 /\ 0 \in 0..255
    OBVIOUS
  <2>2. QED  BY <1>3, <1>4, <2>1
<1>7. \A x, y \in 1..255 : ToByte(x) = ToByte(y) => x = y
  <2>1. \A x \in 1..255 : x \in 0..255
    OBVIOUS
  <2>2. QED  BY <1>3, <2>1
<1>8. QED  BY <1>5, <1>6, <1>7
-----------------------------------------------------------------------------
\* The operators of the scheme, in terms of the sums above.
LEMMA LengthOf ==
  ASSUME NEW n \in Nat, NEW S, NEW c \in [1..n -> S]
  PROVE  c \in Seq(S) /\ Len(c) = n
<1>1. c \in Seq(S)
  BY SeqDef
<1>2. QED  BY <1>1, LenProperties

\* _eval is the polynomial of all its coefficients.
LEMMA EvalIs ==
  ASSUME NEW n \in Nat, NEW c \in [1..n -> Byte], NEW x \in Byte
  PROVE  AreBytes(n, c) /\ Eval(c, x) = Value(n, c, x)
<1>1. Len(c) = n
  BY LengthOf
<1>2. QED  BY <1>1 DEF Eval, Value, AreBytes

\* combine_shares computes the weights,
LEMMA BasisIs ==
  ASSUME NEW m \in Nat, NEW ps \in [1..m -> Byte], NEW i \in 1..m
  PROVE  Basis(ps, i) = Weight(m, ps, i)
<1> DEFINE f == Factors(m, ps, i)
           turn == [j \in 1..m |-> [b \in Byte |-> Mul(b, f[j])]]
           other == [j \in 1..m |-> [b \in Byte |->
             IF j = i THEN b ELSE Mul(b, Mul(ps[j], Inv(Xor(ps[j], ps[i]))))]]
<1>1. AreBytes(m, f)
  BY WeightByte DEF AreBytes
<1>2. ASSUME NEW j \in 1..m, NEW y \in Byte
      PROVE  turn[j][y] \in Byte /\ other[j][y] = turn[j][y]
  <2>1. f[j] \in Byte /\ turn[j][y] = Mul(y, f[j])
    BY <1>1 DEF AreBytes
  <2>2. f[j] = IF j = i THEN One ELSE Mul(ps[j], Inv(Xor(ps[j], ps[i])))
    BY DEF Factors, Ratio
  <2>3. other[j][y] = IF j = i THEN y ELSE Mul(y, Mul(ps[j], Inv(Xor(ps[j], ps[i]))))
    OBVIOUS
  <2>4. Mul(y, One) = y /\ Mul(y, f[j]) \in Byte
    BY <2>1, MulLaws
  <2> HIDE DEF turn, other, f
  <2>5. QED  BY <2>1, <2>2, <2>3, <2>4
<1>3. Len(ps) = m
  BY LengthOf
<1>4. Basis(ps, i) = Loop(m, One, other)
  BY <1>3 DEF Basis
<1>5. Weight(m, ps, i) = Loop(m, One, turn)
  BY DEF Weight, Product
<1> HIDE DEF turn, other, f
<1>6. QED  BY <1>2, <1>4, <1>5, LoopSame, ZeroAndOne

\* and a sum.
LEMMA LoopIsTotal ==
  ASSUME NEW n \in Nat, NEW t, AreBytes(n, t),
         NEW turn, \A i \in 1..n : \A y \in Byte : turn[i][y] = Xor(y, t[i])
  PROVE  Loop(n, Zero, turn) = Total(n, t)
<1> DEFINE own == [i \in 1..n |-> [b \in Byte |-> Xor(b, t[i])]]
<1>1. \A i \in 1..n : \A y \in Byte : own[i][y] \in Byte /\ turn[i][y] = own[i][y]
  BY XorByte DEF AreBytes
<1> HIDE DEF own
<1>2. Loop(n, Zero, turn) = Loop(n, Zero, own)
  BY <1>1, LoopSame, ZeroAndOne
<1>3. QED  BY <1>2 DEF Total, own

\* As many shares as the polynomial has coefficients give its value at 0.
LEMMA InterpolatedIs ==
  ASSUME NEW m \in Nat, NEW k \in 1..m, NEW ps \in [1..m -> Byte], ArePoints(m, ps),
         NEW c \in [1..k -> Byte], NEW ys, \A i \in 1..m : ys[i] = Value(k, c, ps[i])
  PROVE  Interpolated(ps, ys) = c[1]
<1> DEFINE t == [i \in 1..m |-> Mul(Value(k, c, ps[i]), Weight(m, ps, i))]
           other == [i \in 1..m |-> [b \in Byte |-> Xor(b, Mul(ys[i], Basis(ps, i)))]]
           n == k - 1
<1>1. n \in Nat /\ n + 1 = k /\ k \in Nat /\ n + 1 <= m /\ AreBytes(k, c) /\ AreBytes(n + 1, c)
  BY DEF AreBytes
<1> HIDE DEF n
<1>2. AreBytes(m, ps) /\ Len(ps) = m
  BY PointsAreBytes, LengthOf
<1>3. ASSUME NEW i \in 1..m  PROVE t[i] \in Byte /\ t[i] = Mul(ys[i], Basis(ps, i))
  <2>1. ps[i] \in Byte /\ Basis(ps, i) = Weight(m, ps, i) /\ Weight(m, ps, i) \in Byte
    BY <1>2, BasisIs, WeightByte
  <2>2. Value(k, c, ps[i]) \in Byte
    BY <1>1, <2>1, ValueByte
  <2>3. QED  BY <2>1, <2>2, MulByte
<1>4. Total(m, t) = c[1]
  <2>1. Total(m, [i \in 1..m |-> Mul(Value(n + 1, c, ps[i]), Weight(m, ps, i))]) = c[1]
    BY <1>1, Interpolation
  <2>2. QED  BY <1>1, <2>1
<1>5. Interpolated(ps, ys) = Loop(m, Zero, other)
  BY <1>2 DEF Interpolated
<1>6. AreBytes(m, t) /\ \A i \in 1..m : \A y \in Byte : other[i][y] = Xor(y, t[i])
  <2> HIDE DEF t
  <2>1. QED  BY <1>3 DEF AreBytes
<1> HIDE DEF other, t
<1>7. Loop(m, Zero, other) = Total(m, t)
  BY <1>6, LoopIsTotal
<1>8. QED  BY <1>4, <1>5, <1>7
-----------------------------------------------------------------------------
\* What split_secret hands out, and what is made of any of the shares.
Handed(s) ==
  /\ s.kind = "split"
  /\ s.n \in 1..255
  /\ s.k \in 1..s.n
  /\ s.coeffs \in [1..s.k -> Byte]

Brought(s, c) ==
  \E m \in Nat : \E xs \in [1..m -> Numbers(s)] :
    c = [by |-> xs, result |-> CombineShares(Shares(s), xs)]

SharesInv ==
  /\ split.kind = "split" => Handed(split)
  /\ combined # Nothing => Handed(split) /\ Brought(split, combined)

\* The bounds that split_secret checks.
LEMMA HandedBounds ==
  ASSUME NEW s, Handed(s)
  PROVE  /\ s.k \in Nat /\ 1 <= s.k /\ s.coeffs \in [1..s.k -> Byte]
         /\ Numbers(s) \subseteq 1..255
<1> DEFINE n == s.n
           k == s.k
<1>1. n \in 1..255 /\ k \in 1..n
  BY DEF Handed
<1> HIDE DEF n, k
<1>2. k \in Nat /\ 1 <= k /\ 1..n \subseteq 1..255
  BY <1>1
<1>3. QED  BY <1>2 DEF Handed, Numbers, n, k

\* A share is the polynomial at its number.
LEMMA ShareIs ==
  ASSUME NEW s, Handed(s), NEW x \in Numbers(s)
  PROVE  /\ ToByte(x) \in Byte /\ ToByte(x) # Zero
         /\ Shares(s)[x] \in Byte
         /\ Shares(s)[x] = Eval(s.coeffs, ToByte(x))
         /\ Shares(s)[x] = Value(s.k, s.coeffs, ToByte(x))
<1>1. x \in 1..255 /\ s.k \in Nat
  BY HandedBounds
<1>2. ToByte(x) \in Byte /\ ToByte(x) # Zero
  BY <1>1, ToBytePoints
<1>3. Shares(s)[x] = Eval(s.coeffs, ToByte(x))
  BY DEF Shares
<1>4. AreBytes(s.k, s.coeffs) /\ Eval(s.coeffs, ToByte(x)) = Value(s.k, s.coeffs, ToByte(x))
  BY <1>1, <1>2, EvalIs DEF Handed
<1>5. QED  BY <1>1, <1>2, <1>3, <1>4, ValueByte

\* k shares or more, each from another number, give the secret.
LEMMA EnoughGiveSecret ==
  ASSUME NEW s, Handed(s), NEW m \in Nat, NEW xs \in [1..m -> Numbers(s)],
         IsInjective(xs), s.k <= m
  PROVE  CombineShares(Shares(s), xs) = [kind |-> "byte", byte |-> s.coeffs[1]]
<1> DEFINE ps == [i \in 1..m |-> ToByte(xs[i])]
           ys == [i \in 1..m |-> Shares(s)[xs[i]]]
<1>1. Len(xs) = m
  BY LengthOf
<1>2. /\ s.k \in 1..m /\ s.k \in Nat /\ s.coeffs \in [1..s.k -> Byte]
      /\ Numbers(s) \subseteq 1..255
  BY HandedBounds
<1>3. \A i \in 1..m : /\ ps[i] \in Byte /\ ps[i] # Zero
                      /\ ys[i] = Value(s.k, s.coeffs, ps[i])
  BY ShareIs
<1>4. ps \in [1..m -> Byte]
  BY <1>3
<1>5. ArePoints(m, ps)
  <2>1. ASSUME NEW i \in 1..m, NEW j \in 1..m, ps[i] = ps[j]  PROVE i = j
    <3>1. xs[i] \in 1..255 /\ xs[j] \in 1..255 /\ ToByte(xs[i]) = ToByte(xs[j])
      BY <1>2, <2>1
    <3>2. xs[i] = xs[j]
      BY <3>1, ToBytePoints
    <3>3. QED  BY <3>2 DEF IsInjective
  <2> HIDE DEF ps
  <2>2. QED  BY <1>3, <2>1 DEF ArePoints
<1>6. CombineShares(Shares(s), xs) = [kind |-> "byte", byte |-> Interpolated(ps, ys)]
  BY <1>1 DEF CombineShares, Points
<1> HIDE DEF ps, ys
<1>7. Interpolated(ps, ys) = s.coeffs[1]
  BY <1>2, <1>3, <1>4, <1>5, InterpolatedIs
<1>8. QED  BY <1>6, <1>7

\* k - 1 shares fit every byte, and with one draw of the coefficients.
LEMMA OneDrawFits ==
  ASSUME Handed(split), split.k >= 2, NEW b \in Byte,
         NEW some, some \subseteq Numbers(split), Cardinality(some) = split.k - 1
  PROVE  Cardinality(Fitting(b, some, split.k)) = 1
<1> DEFINE n == split.k - 2
           m == n + 1
           share == Shares(split)
           first == CHOOSE x \in some : TRUE
           z == ToByte(first)
           Low(cs) == <<b>> \o cs
           High(cs) == Mul(Xor(share[first], Eval(Low(cs), z)), Inv(Power(z, m)))
           Whole(cs) == Append(Low(cs), High(cs))
<1>1. n \in Nat /\ m \in Nat /\ m # 0 /\ m = split.k - 1 /\ m + 1 = split.k /\ split.k \in Nat
  BY DEF Handed
<1>2. Fitting(b, some, split.k)
        = {cs \in [1..n -> Byte] : \A x \in some : Eval(Whole(cs), ToByte(x)) = share[x]}
  BY <1>1 DEF Fitting
<1>3. IsFiniteSet(some) /\ Cardinality(some) = m
  <2>1. Numbers(split) \subseteq 1..255
    BY HandedBounds
  <2>2. IsFiniteSet(1..255)
    <3>1. 1 \in Int /\ 255 \in Int
      OBVIOUS
    <3>2. QED  BY <3>1, FS_Interval
  <2>3. QED  BY <1>1, <2>1, <2>2, FS_Subset
<1>4. first \in some
  <2>1. some # {}
    BY <1>1, <1>3, FS_EmptySet
  <2>2. QED  BY <2>1
<1>5. PICK f : f \in Bijection(1..m, some)
  BY <1>3, FS_CardinalityType DEF ExistsBijection
<1>6. /\ f \in [1..m -> some]
      /\ \A i, j \in 1..m : f[i] = f[j] => i = j
      /\ \A x \in some : \E i \in 1..m : f[i] = x
  BY <1>5 DEF Bijection, Injection, Surjection, IsInjective
<1> DEFINE ps == [i \in 1..m |-> ToByte(f[i])]
           ys == [i \in 1..m |-> share[f[i]]]
<1>7. \A x \in some : /\ x \in 1..255 /\ ToByte(x) \in Byte /\ ToByte(x) # Zero
                      /\ share[x] \in Byte
                      /\ \E i \in 1..m : ToByte(x) = ps[i] /\ share[x] = ys[i]
  <2>1. SUFFICES ASSUME NEW x \in some
                 PROVE  /\ x \in 1..255 /\ ToByte(x) \in Byte /\ ToByte(x) # Zero
                        /\ share[x] \in Byte
                        /\ \E i \in 1..m : ToByte(x) = ps[i] /\ share[x] = ys[i]
    OBVIOUS
  <2>2. x \in 1..255
    BY HandedBounds
  <2>3. ToByte(x) \in Byte /\ ToByte(x) # Zero /\ share[x] \in Byte
    BY ShareIs
  <2>4. PICK i \in 1..m : f[i] = x
    BY <1>6
  <2>5. ToByte(x) = ps[i] /\ share[x] = ys[i]
    BY <2>4
  <2> HIDE DEF share, ps, ys
  <2>6. QED  BY <2>2, <2>3, <2>5
<1>8. \A i \in 1..m : f[i] \in some /\ ps[i] = ToByte(f[i]) /\ ys[i] = share[f[i]]
  BY <1>6
<1> HIDE DEF n, m, share, first, ps, ys
<1>9. ArePoints(m, ps) /\ AreBytes(m, ys)
  <2>1. ASSUME NEW i \in 1..m, NEW j \in 1..m, ps[i] = ps[j]  PROVE i = j
    <3>1. f[i] \in 1..255 /\ f[j] \in 1..255 /\ ToByte(f[i]) = ToByte(f[j])
      BY <1>7, <1>8, <2>1
    <3>2. f[i] = f[j]
      BY <3>1, ToBytePoints
    <3>3. QED  BY <1>6, <3>2
  <2>2. \A i \in 1..m : ps[i] \in Byte /\ ps[i] # Zero /\ ys[i] \in Byte
    BY <1>7, <1>8
  <2>3. QED  BY <2>1, <2>2 DEF ArePoints, AreBytes
<1>10. PICK c \in [1..m + 1 -> Byte] :
         c[1] = b /\ \A i \in 1..m : Value(m + 1, c, ps[i]) = ys[i]
  BY <1>1, <1>9, ThroughByte
<1>11. \A x \in some : Value(m + 1, c, ToByte(x)) = share[x]
  BY <1>7, <1>10
<1>12. AreBytes(m + 1, c) /\ AreBytes(m, c)
  BY <1>1, FewerBytes DEF AreBytes
<1>13. z \in Byte /\ z # Zero /\ share[first] \in Byte
  BY <1>4, <1>7
<1> HIDE DEF z
<1>14. Power(z, m) \in Byte /\ Power(z, m) # Zero
  BY <1>1, <1>13, PowerByte
<1>15. ASSUME NEW cs \in [1..n -> Byte]
       PROVE  /\ Low(cs) \in [1..m -> Byte] /\ Low(cs)[1] = b
              /\ \A i \in 1..n : Low(cs)[i + 1] = cs[i]
              /\ High(cs) \in Byte
              /\ Whole(cs) \in [1..m + 1 -> Byte] /\ Whole(cs)[m + 1] = High(cs)
              /\ \A i \in 1..m : Whole(cs)[i] = Low(cs)[i]
  <2> DEFINE low == Low(cs)
  <2>1. cs \in Seq(Byte) /\ Len(cs) = n
    BY <1>1, LengthOf
  <2>2. <<b>> \in Seq(Byte) /\ Len(<<b>>) = 1 /\ <<b>>[1] = b
    OBVIOUS
  <2>3. /\ low \in Seq(Byte) /\ Len(low) = 1 + n
        /\ \A i \in 1..1 + n : low[i] = IF i <= 1 THEN <<b>>[i] ELSE cs[i - 1]
    BY <2>1, <2>2, ConcatProperties
  <2> HIDE DEF low
  <2>4. Len(low) = m /\ low \in [1..m -> Byte]
    BY <1>1, <2>3, LenProperties DEF m
  <2>5. low[1] = b /\ \A i \in 1..n : low[i + 1] = cs[i]
    <3>1. /\ 1 \in 1..1 + n
          /\ \A i \in 1..n : i + 1 \in 1..1 + n /\ ~(i + 1 <= 1) /\ (i + 1) - 1 = i
      BY <1>1
    <3>2. QED  BY <2>2, <2>3, <3>1
  <2>6. Eval(low, z) \in Byte
    <3>1. AreBytes(m, low) /\ Eval(low, z) = Value(m, low, z)
      BY <1>1, <1>13, <2>4, EvalIs
    <3>2. QED  BY <1>1, <1>13, <3>1, ValueByte
  <2>7. High(cs) \in Byte
    <3>1. Inv(Power(z, m)) \in Byte
      BY <1>14, MulLaws
    <3>2. Xor(share[first], Eval(low, z)) \in Byte
      BY <1>13, <2>6, XorByte
    <3>3. QED  BY <3>1, <3>2, MulByte DEF low
  <2> DEFINE last == High(cs)
             whole == Append(low, last)
  <2> HIDE DEF last
  <2>8. /\ whole \in Seq(Byte) /\ Len(whole) = m + 1
        /\ \A i \in 1..m : whole[i] = low[i]
        /\ whole[m + 1] = last
    BY <2>3, <2>4, <2>7, AppendProperties DEF last
  <2> HIDE DEF whole
  <2>9. whole \in [1..m + 1 -> Byte]
    BY <2>8, LenProperties
  <2>10. QED  BY <2>4, <2>5, <2>7, <2>8, <2>9 DEF low, last, whole
<1> DEFINE mid == [i \in 1..n |-> c[i + 1]]
<1>16. mid \in [1..n -> Byte]
  <2>1. \A i \in 1..n : i + 1 \in 1..m + 1
    BY <1>1 DEF m
  <2>2. QED  BY <2>1
<1>17. mid \in Fitting(b, some, split.k)
  <2>1. \A i \in 1..m : Low(mid)[i] = c[i]
    <3>1. SUFFICES ASSUME NEW i \in 1..m  PROVE Low(mid)[i] = c[i]
      OBVIOUS
    <3>2. CASE i = 1
      BY <1>10, <1>15, <1>16, <3>2
    <3>3. CASE i # 1
      <4>1. i - 1 \in 1..n /\ (i - 1) + 1 = i
        BY <1>1, <3>3 DEF m
      <4>2. mid[i - 1] = c[i]
        BY <4>1
      <4> HIDE DEF mid, Low
      <4>3. Low(mid)[(i - 1) + 1] = mid[i - 1]
        BY <1>15, <1>16, <4>1
      <4>4. QED  BY <4>1, <4>2, <4>3
    <3>4. QED  BY <3>2, <3>3
  <2> HIDE DEF mid, Low
  <2> DEFINE P == Power(z, m)
             v == Value(m, c, z)
             h == c[m + 1]
  <2>2. v \in Byte /\ h \in Byte
    BY <1>1, <1>12, <1>13, ValueByte DEF AreBytes
  <2>3. Eval(Low(mid), z) = v
    <3>1. Eval(Low(mid), z) = Value(m, Low(mid), z)
      BY <1>1, <1>13, <1>15, <1>16, EvalIs
    <3>2. Value(m, Low(mid), z) = v
      BY <1>1, <1>12, <1>13, <2>1, ValueSame
    <3>3. QED  BY <3>1, <3>2
  <2>4. share[first] = Xor(v, Mul(h, P))
    <3>1. Value(m + 1, c, z) = share[first]
      BY <1>4, <1>11 DEF z
    <3>2. Value(m + 1, c, z) = Xor(v, Mul(h, P))
      BY <1>1, <1>12, <1>13, ValueAppend
    <3>3. QED  BY <3>1, <3>2
  <2>5. High(mid) = h
    <3>1. High(mid) = Mul(Xor(Xor(v, Mul(h, P)), v), Inv(P))
      BY <2>3, <2>4
    <3> HIDE DEF P, v, h
    <3>2. P \in Byte /\ Mul(h, P) \in Byte /\ Inv(P) \in Byte /\ Mul(P, Inv(P)) = One
      BY <1>14, <2>2, MulByte, MulLaws DEF P
    <3>3. Xor(Xor(v, Mul(h, P)), v) = Xor(v, Xor(v, Mul(h, P)))
      BY <2>2, <3>2, XorByte, XorLaws
    <3>4. Xor(v, Xor(v, Mul(h, P))) = Mul(h, P)
      BY <2>2, <3>2, XorCancels
    <3>5. Mul(Mul(h, P), Inv(P)) = Mul(h, Mul(P, Inv(P)))
      BY <2>2, <3>2, MulAssociates
    <3>6. Mul(h, One) = h
      BY <2>2, MulLaws
    <3>7. QED  BY <3>1, <3>2, <3>3, <3>4, <3>5, <3>6
  <2> HIDE DEF High, Whole
  <2>6. ASSUME NEW i \in 1..m + 1  PROVE Whole(mid)[i] = c[i]
    <3>1. CASE i = m + 1
      BY <1>15, <1>16, <2>5, <3>1
    <3>2. CASE i # m + 1
      <4>1. i \in 1..m
        BY <1>1, <3>2
      <4>2. QED  BY <1>15, <1>16, <2>1, <4>1
    <3>3. QED  BY <3>1, <3>2
  <2>7. ASSUME NEW x \in some  PROVE Eval(Whole(mid), ToByte(x)) = share[x]
    <3>1. ToByte(x) \in Byte /\ m + 1 \in Nat
      BY <1>1, <1>7
    <3>2. Eval(Whole(mid), ToByte(x)) = Value(m + 1, Whole(mid), ToByte(x))
      BY <1>15, <1>16, <3>1, EvalIs
    <3>3. Value(m + 1, Whole(mid), ToByte(x)) = Value(m + 1, c, ToByte(x))
      BY <1>12, <2>6, <3>1, ValueSame
    <3>4. QED  BY <1>11, <3>2, <3>3
  <2>8. QED  BY <1>2, <1>16, <2>7
<1>18. ASSUME NEW cs \in Fitting(b, some, split.k)  PROVE cs = mid
  <2>1. cs \in [1..n -> Byte] /\ \A x \in some : Eval(Whole(cs), ToByte(x)) = share[x]
    BY <1>2
  <2> HIDE DEF mid, Low, High, Whole
  <2> DEFINE e == Whole(cs)
  <2>2. e \in [1..m + 1 -> Byte] /\ e[1] = b /\ \A i \in 1..n : e[i + 1] = cs[i]
    <3>1. 1 \in 1..m /\ \A i \in 1..n : i + 1 \in 1..m
      BY <1>1 DEF m
    <3>2. QED  BY <1>15, <2>1, <3>1
  <2> HIDE DEF e
  <2>3. AreBytes(m + 1, e) /\ m + 1 \in Nat
    BY <1>1, <2>2 DEF AreBytes
  <2>4. \A i \in 1..m : Value(m + 1, e, ps[i]) = Value(m + 1, c, ps[i])
    <3>1. SUFFICES ASSUME NEW i \in 1..m  PROVE Value(m + 1, e, ps[i]) = Value(m + 1, c, ps[i])
      OBVIOUS
    <3>2. f[i] \in some /\ ps[i] = ToByte(f[i]) /\ ps[i] \in Byte
      BY <1>7, <1>8
    <3>3. Eval(e, ps[i]) = Value(m + 1, e, ps[i])
      BY <2>2, <2>3, <3>2, EvalIs
    <3>4. Eval(e, ps[i]) = share[f[i]]
      BY <2>1, <3>2 DEF e
    <3>5. QED  BY <1>11, <3>2, <3>3, <3>4
  <2>5. \A i \in 1..m + 1 : e[i] = c[i]
    <3>1. c[1] = e[1]
      BY <1>10, <2>2
    <3>2. m \in Nat /\ ArePoints(m, ps) /\ AreBytes(m + 1, c) /\ AreBytes(m + 1, e)
      BY <1>1, <1>9, <1>12, <2>3
    <3>3. \A i \in 1..m + 1 : c[i] = e[i]
      BY ONLY <2>4, <3>1, <3>2, OnlyOne
    <3>4. QED  BY <3>3
  <2>6. \A i \in 1..n : cs[i] = mid[i]
    <3>1. \A i \in 1..n : i + 1 \in 1..m + 1
      BY <1>1 DEF m
    <3>2. QED  BY <2>2, <2>5, <3>1 DEF mid
  <2>7. cs = [i \in 1..n |-> cs[i]] /\ mid = [i \in 1..n |-> mid[i]]
    BY <1>16, <2>1
  <2>8. QED  BY <2>6, <2>7
<1>19. Fitting(b, some, split.k) = {mid}
  BY <1>17, <1>18
<1>20. QED  BY <1>19, FS_Singleton
-----------------------------------------------------------------------------
\* The invariant holds at first, and every step keeps it.
LEMMA SharesInvInit == SharesInit => SharesInv
BY DEF SharesInit, SharesInv, Nothing

LEMMA SharesInvNext == SharesInv /\ [SharesNext]_sharesVars => SharesInv'
<1> SUFFICES ASSUME SharesInv, [SharesNext]_sharesVars  PROVE SharesInv'
  OBVIOUS
<1>1. ASSUME NEW n \in ShareCounts, NEW k \in Thresholds,
             NEW coeffs \in [1..(IF k = 0 THEN 1 ELSE k) -> Bytes], Split(n, k, coeffs)
      PROVE  SharesInv'
  <2>1. n \in Nat /\ k \in Nat /\ Bytes \subseteq Byte
    BY SharesAssumption
  <2>2. combined' = Nothing
    BY <1>1 DEF Split, SharesInv, Handed, Nothing
  <2>3. split'.kind = "split" => Handed(split')
    <3>1. CASE 1 <= k /\ k <= n /\ n <= 255
      <4>1. split' = [kind |-> "split", n |-> n, k |-> k, coeffs |-> coeffs]
        BY <1>1, <3>1 DEF Split
      <4>2. n \in 1..255 /\ k \in 1..n /\ coeffs \in [1..k -> Byte]
        BY <2>1, <3>1
      <4>3. QED  BY <4>1, <4>2 DEF Handed
    <3>2. CASE ~(1 <= k /\ k <= n /\ n <= 255)
      <4>1. split' = Refused
        BY <1>1, <3>2 DEF Split
      <4>2. QED  BY <4>1 DEF Refused
    <3>3. QED  BY <3>1, <3>2
  <2>4. QED  BY <2>2, <2>3 DEF SharesInv
<1>2. ASSUME NEW m \in 1..MaxBrought, NEW xs \in [1..m -> Holders], Combine(xs)
      PROVE  SharesInv'
  <2>1. m \in Nat
    BY SharesAssumption
  <2>2. Handed(split) /\ split' = split
    BY <1>2 DEF Combine, SharesInv
  <2>3. xs \in [1..m -> Numbers(split)]
    BY <1>2 DEF Combine, ToSet
  <2>4. Brought(split, combined')
    BY <1>2, <2>1, <2>3 DEF Combine, Brought
  <2>5. QED  BY <2>2, <2>4 DEF SharesInv
<1>3. ASSUME UNCHANGED sharesVars  PROVE SharesInv'
  BY <1>3 DEF SharesInv, sharesVars
<1>4. QED  BY <1>1, <1>2, <1>3 DEF SharesNext

LEMMA SharesInvAlways == SharesSpec => []SharesInv
BY SharesInvInit, SharesInvNext, PTL DEF SharesSpec

\* Any K shares or more, however many there are, in whatever order they are brought and
\* whatever was drawn, give the secret, and a share brought twice is refused: what
\* combine_shares makes of them (shamir.py:67-87).
THEOREM EnoughRecover == SharesSpec => []EnoughSharesRecover
<1>1. SharesInv => EnoughSharesRecover
  <2>1. SUFFICES ASSUME SharesInv, combined # Nothing,
                        Cardinality(ToSet(combined.by)) >= split.k
                 PROVE  combined.result = IF IsInjective(combined.by)
                          THEN [kind |-> "byte", byte |-> split.coeffs[1]] ELSE Refused
    BY DEF EnoughSharesRecover
  <2>2. Handed(split)
    BY <2>1 DEF SharesInv
  <2>3. PICK m \in Nat : \E xs \in [1..m -> Numbers(split)] :
          combined = [by |-> xs, result |-> CombineShares(Shares(split), xs)]
    BY <2>1 DEF SharesInv, Brought
  <2>4. PICK xs \in [1..m -> Numbers(split)] :
          combined = [by |-> xs, result |-> CombineShares(Shares(split), xs)]
    BY <2>3
  <2>5. Cardinality(ToSet(xs)) <= m
    <3>1. xs \in Surjection(1..m, ToSet(xs))
      BY DEF Surjection, ToSet
    <3>2. QED  BY <3>1, FS_SurjCardinalityBound DEF ExistsSurjection
  <2>6. CASE IsInjective(xs)
    <3>1. split.k <= m
      <4>1. IsFiniteSet(1..m)
        BY FS_Interval
      <4>2. Cardinality(ToSet(xs)) \in Nat
        <5>1. xs \in Surjection(1..m, ToSet(xs))
          BY DEF Surjection, ToSet
        <5>2. QED  BY <4>1, <5>1, FS_Surjection, FS_CardinalityType
      <4>3. QED  BY <2>1, <2>2, <2>4, <2>5, <4>2 DEF Handed
    <3>2. QED  BY <2>2, <2>4, <2>6, <3>1, EnoughGiveSecret
  <2>7. CASE ~IsInjective(xs)
    BY <2>4, <2>7 DEF CombineShares
  <2>8. QED  BY <2>4, <2>6, <2>7
<1>2. QED  BY <1>1, SharesInvAlways, PTL

\* K - 1 shares, whichever they are, come from every secret byte by exactly one draw of
\* the coefficients, so that split_secret gives nothing away by them (shamir.py:1-2, 55-64).
THEOREM FewerTellNothing == SharesSpec => []FewerSharesTellNothing
<1>1. SharesInv => FewerSharesTellNothing
  <2>1. SUFFICES ASSUME SharesInv, split.kind = "split", split.k >= 2,
                        NEW some \in SUBSET (Holders \cap Numbers(split)),
                        Cardinality(some) = split.k - 1, NEW b \in Bytes
                 PROVE  Cardinality(Fitting(b, some, split.k)) = 1
    BY DEF FewerSharesTellNothing
  <2>2. Handed(split) /\ b \in Byte
    BY <2>1, SharesAssumption DEF SharesInv
  <2>3. QED  BY <2>1, <2>2, OneDrawFits
<1>2. QED  BY <1>1, SharesInvAlways, PTL
=============================================================================

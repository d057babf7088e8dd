---------------------------- MODULE VaultPromise ----------------------------
(***************************************************************************)
(* The vault as its users are promised it: stored contents that change     *)
(* only together with the audit ledger that records the change.            *)
(***************************************************************************)
EXTENDS Envelope

VARIABLES
  vault,      \* the stored contents, or NoVault
  exported    \* contents of the last sync bundle (at most one, in a set)

Content == [live     : SUBSET Names,
            ledger   : Seq(Block),
            password : Passwords,
            recovery : Nat]

Init == vault = NoVault /\ exported = {}

Create ==
  /\ vault = NoVault
  /\ vault' \in Content
  /\ vault'.live = {}
  /\ vault'.ledger = <<Whole("init")>>
  /\ vault'.recovery = NoKey
  /\ UNCHANGED exported

\* The blocks of a ledger after the first `start` of them.
Recorded(ledger, start, actions) ==
  \E i \in start + 1..Len(ledger) : ledger[i].action \in actions

\* What those blocks make of entry n.
Accounted(ledger, start, n, before, after) ==
  LET kept == before /\ NotTakenSince(ledger, start + 1, n)
      new == {i \in start + 1..Len(ledger) : NotTakenSince(ledger, i, n)}
  IN  /\ kept \/ (\E i \in new : Brings(ledger[i], n)) => after
      /\ after => kept \/ \E i \in new : MayBring(ledger[i], n)

\* One or more recorded operations reach the store together: a session whose
\* save raised saves what it collected with the next operation.
Commit ==
  LET start == Len(vault.ledger) IN
  /\ vault # NoVault
  /\ vault' \in Content
  /\ start < Len(vault'.ledger)
  /\ SubSeq(vault'.ledger, 1, start) = vault.ledger
  /\ \A n \in Names : Accounted(vault'.ledger, start, n, n \in vault.live, n \in vault'.live)
  /\ vault'.password # vault.password => Recorded(vault'.ledger, start, {"rotate", "recover"})
  /\ vault'.recovery # vault.recovery => Recorded(vault'.ledger, start, {"recovery-enroll"})
  /\ UNCHANGED exported

Export == vault # NoVault /\ exported' = {vault} /\ UNCHANGED vault

Import == vault' \in exported /\ UNCHANGED exported

Next == Create \/ Commit \/ Export \/ Import

Spec == Init /\ [][Next]_<<vault, exported>>
=============================================================================

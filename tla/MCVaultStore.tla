---------------------------- MODULE MCVaultStore ----------------------------
(* VaultStore on small instances. *)
EXTENDS VaultStore, TLC

\* 2-of-3, which split_secret takes, and 3-of-2, which it refuses.
OkAndBadShares == {<<3, 2>>, <<2, 3>>}

Interchangeable == Permutations(Clients)
=============================================================================

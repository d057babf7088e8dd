------------------------------ MODULE MCSharing ------------------------------
(* Sharing on a small instance: one person's key under two e-mails, and a    *)
(* second label for it.                                                      *)
EXTENDS Sharing

MCLabels == {1, 2}
MCKeys == {1}

Known(l, e, k, D) == [label |-> l, email |-> e, key |-> k, devices |-> D, active |-> TRUE]

MCPrincipals == {Known(1, 0, 1, {}), Known(2, 2, 1, {"laptop"})}
=============================================================================

------------------------------ MODULE MCDesktop ------------------------------
(* The desktop on a small instance. *)
EXTENDS Desktop

Entry(n, deleted) == [name |-> n, deleted |-> deleted, favorite |-> FALSE, shared |-> FALSE]
TwoContents == {<<Entry(2, FALSE), Entry(1, FALSE)>>, <<Entry(1, TRUE)>>}
OneCategory == [n \in Names |-> "mail"]
=============================================================================

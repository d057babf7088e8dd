------------------------------- MODULE Desktop -------------------------------
(***************************************************************************)
(* The desktop application: main() runs the unlock dialog, and opens the   *)
(* window over the session the dialog returns, or ends.                    *)
(***************************************************************************)
EXTENDS UnlockDialog, MainWindow

vars == <<unlockVars, windowVars>>

Init == UnlockInit /\ WindowInit

Unlock == UnlockNext /\ UNCHANGED windowVars

\* What the dialog's threads still report changes nothing that is looked at again.
Enter ==
  /\ dialog = "accepted"
  /\ OpenWindow
  /\ exists' = TRUE /\ busy' = FALSE /\ held' = 0 /\ attempts' = <<>> /\ events' = <<>>
  /\ outcome' = 0 /\ recovered' = 0
  /\ UNCHANGED <<stored, dialog, told>>

Work == WindowNext /\ UNCHANGED unlockVars

Next == Unlock \/ Enter \/ Work

\* The threads run, and the event loop delivers what is posted to it.
Spec == Init /\ [][Next]_vars /\ UnlockFairness

\* Every variable has its type: the names in the vault are unique, and what the
\* dialog refers to is an attempt it has made (vault.py:67-84, unlock_dialog.py:126-149).
TypeOK == UnlockTypeOK /\ WindowTypeOK

=============================================================================

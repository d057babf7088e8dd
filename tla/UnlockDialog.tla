---------------------------- MODULE UnlockDialog ----------------------------
(***************************************************************************)
(* The desktop's first screen.  The vault is created or opened by a worker *)
(* on a thread of its own, one for every attempt; worker and thread report *)
(* to the dialog by events, which the event loop delivers in their order,  *)
(* also while a message box is open.  The dialog's references keep a       *)
(* worker alive until it runs, and are dropped when a thread finishes,     *)
(* whichever thread that is.                                               *)
(***************************************************************************)
EXTENDS Integers, Sequences

CONSTANTS Passwords,   \* master passwords
          MaxAttempts, \* bound: attempts to open the vault
          MaxRecovered \* bound: recoveries with shares

ASSUME UnlockAssumption == MaxAttempts \in Nat /\ MaxRecovered \in Nat

VARIABLES
  stored,    \* the password of the stored vault, NoVault if there is none
  dialog,    \* "open", "accepted", "rejected"
  exists,    \* _exists: whether a vault was there when the dialog was built
  busy,      \* _busy
  held,      \* the attempt whose worker and thread the dialog refers to, 0 for none
  attempts,  \* the attempts, in order
  events,    \* what is posted to the dialog's event loop
  told,      \* whether a message box about a failure is open
  outcome,   \* history: the attempt whose session the dialog returns, 0 for none
  recovered  \* how many recoveries there have been

unlockVars ==
  <<stored, dialog, exists, busy, held, attempts, events, told, outcome, recovered>>

NoVault == "no vault"

\* `at` is where the attempt's thread is: its event loop has not called the worker
\* yet, the worker is creating the vault or opening it, it has answered, or the
\* thread is over; "dropped" if the worker was collected before it was called.
Attempt ==
  [password : Passwords, create : BOOLEAN,
   at : {"started", "creating", "opening", "answered", "finished", "dropped"}]

\* A `quit` is delivered to the thread's object, which lives with the dialog.
Event == [kind : {"succeeded", "auth", "failed", "quit", "finished"}, of : 1..MaxAttempts]

UnlockInit ==
  /\ stored \in Passwords \cup {NoVault}
  /\ dialog = "open" /\ exists = (stored # NoVault) /\ busy = FALSE
  /\ held = 0 /\ attempts = <<>> /\ events = <<>>
  /\ told = FALSE /\ outcome = 0 /\ recovered = 0

(***************************************************************************)
(* The user.                                                               *)
(***************************************************************************)
Free == dialog = "open" /\ ~busy /\ ~told

StartUnlock(password, create) ==
  /\ Len(attempts) < MaxAttempts
  /\ busy' = TRUE
  /\ attempts' = Append(attempts, [password |-> password, create |-> create, at |-> "started"])
  /\ held' = Len(attempts')
  /\ UNCHANGED <<dialog, exists, events, told, outcome>>

\* Without a vault at the start the dialog creates one, and only that.
Submit(password) ==
  /\ Free
  /\ StartUnlock(password, ~exists)
  /\ UNCHANGED <<stored, recovered>>

\* RestoreDialog: it is accepted only with shares that reset the password; without a
\* vault, with other shares or when cancelled it changes nothing.
ResetPassword(password) ==
  /\ stored # NoVault /\ recovered < MaxRecovered
  /\ stored' = password
  /\ recovered' = recovered + 1

\* The recovered vault is opened with the new password.
Recover(password) ==
  /\ Free /\ exists
  /\ ResetPassword(password)
  /\ StartUnlock(password, FALSE)

\* Slip: the dialog may be closed while it is busy.
RejectBusy ==
  /\ dialog = "open" /\ ~told
  /\ dialog' = "rejected"
  /\ UNCHANGED <<stored, exists, busy, held, attempts, events, told, outcome, recovered>>

Reject ==
  /\ Free
  /\ dialog' = "rejected"
  /\ UNCHANGED <<stored, exists, busy, held, attempts, events, told, outcome, recovered>>

DismissFailure ==
  /\ told
  /\ told' = FALSE
  /\ UNCHANGED <<stored, dialog, exists, busy, held, attempts, events, outcome, recovered>>

(***************************************************************************)
(* The worker's thread.                                                    *)
(***************************************************************************)
At(i, at) == i \in DOMAIN attempts /\ attempts[i].at = at

Moves(i, at) == attempts' = [attempts EXCEPT ![i].at = at]

Posted(i, kinds) == events \o [k \in DOMAIN kinds |-> [kind |-> kinds[k], of |-> i]]

\* Every answer is followed by the call of quit that is connected to it.
Answers(i, kind) ==
  /\ Moves(i, "answered")
  /\ events' = Posted(i, <<kind, "quit">>)
  /\ UNCHANGED <<dialog, exists, busy, held, told, outcome, recovered>>

\* run() is called; init_vault looks whether there is a vault, unlock reads it.
RunWorker(i) ==
  /\ At(i, "started")
  /\ IF attempts[i].create /\ stored # NoVault
     THEN Answers(i, "failed")
     ELSE /\ Moves(i, IF attempts[i].create THEN "creating" ELSE "opening")
          /\ UNCHANGED <<dialog, exists, busy, held, events, told, outcome, recovered>>
  /\ UNCHANGED stored

\* init_vault saves the new vault, over one that came in between.
CreateVault(i, raises) ==
  /\ At(i, "creating")
  /\ IF raises
     THEN Answers(i, "failed") /\ UNCHANGED stored
     ELSE /\ stored' = attempts[i].password
          /\ Moves(i, "opening")
          /\ UNCHANGED <<dialog, exists, busy, held, events, told, outcome, recovered>>

OpenVault(i, raises) ==
  /\ At(i, "opening")
  /\ Answers(i, IF raises \/ stored = NoVault THEN "failed"
                ELSE IF stored = attempts[i].password THEN "succeeded" ELSE "auth")
  /\ UNCHANGED stored

WorkerStep(i) ==
  \/ RunWorker(i)
  \/ \E raises \in BOOLEAN : CreateVault(i, raises) \/ OpenVault(i, raises)

(***************************************************************************)
(* The dialog's event loop.                                                *)
(***************************************************************************)
Delivers(kinds) ==
  /\ events # <<>> /\ Head(events).kind \in kinds
  /\ UNCHANGED <<stored, exists, recovered>>

OnUnlockSucceeded ==
  /\ Delivers({"succeeded"})
  /\ events' = Tail(events)
  /\ outcome' = Head(events).of
  /\ dialog' = "accepted"
  /\ UNCHANGED <<busy, held, attempts, told>>

\* Slip: the dialog stays busy.
OnUnlockFailedBusy ==
  /\ Delivers({"auth", "failed"})
  /\ events' = Tail(events)
  /\ told' = TRUE
  /\ UNCHANGED <<dialog, busy, held, attempts, outcome>>

\* The dialog can be used again once the box that says why is dismissed, though
\* the thread has not finished.
OnUnlockFailed ==
  /\ Delivers({"auth", "failed"})
  /\ events' = Tail(events)
  /\ busy' = FALSE
  /\ told' = TRUE
  /\ UNCHANGED <<dialog, held, attempts, outcome>>

QuitThread ==
  /\ Delivers({"quit"})
  /\ Moves(Head(events).of, "finished")
  /\ events' = Append(Tail(events), [kind |-> "finished", of |-> Head(events).of])
  /\ UNCHANGED <<dialog, busy, held, told, outcome>>

\* A worker that nothing refers to is collected; if it had not been called, it never is.
ClearWorkerRefs ==
  /\ Delivers({"finished"})
  /\ events' = Tail(events)
  /\ held' = 0
  /\ attempts' = [i \in DOMAIN attempts |->
                    IF i = held /\ attempts[i].at = "started"
                    THEN [attempts[i] EXCEPT !.at = "dropped"] ELSE attempts[i]]
  /\ UNCHANGED <<dialog, busy, told, outcome>>

Deliver == OnUnlockSucceeded \/ OnUnlockFailed \/ QuitThread \/ ClearWorkerRefs

\* Another process creates the vault meanwhile.
CreatedElsewhere(password) ==
  /\ stored = NoVault /\ dialog = "open"
  /\ stored' = password
  /\ UNCHANGED <<dialog, exists, busy, held, attempts, events, told, outcome, recovered>>

UnlockNext ==
  \/ \E password \in Passwords : Submit(password) \/ Recover(password) \/ CreatedElsewhere(password)
  \/ Reject \/ DismissFailure
  \/ \E i \in 1..MaxAttempts : WorkerStep(i)
  \/ Deliver

UnlockFairness ==
  /\ \A i \in 1..MaxAttempts : WF_unlockVars(WorkerStep(i))
  /\ WF_unlockVars(Deliver)

(***************************************************************************)
(* Properties.                                                             *)
(***************************************************************************)
\* Every variable has its type: what the dialog refers to is one of its attempts.
UnlockTypeOK ==
  /\ stored \in Passwords \cup {NoVault}
  /\ dialog \in {"open", "accepted", "rejected"}
  /\ exists \in BOOLEAN /\ busy \in BOOLEAN /\ told \in BOOLEAN
  /\ attempts \in Seq(Attempt) /\ Len(attempts) <= MaxAttempts
  /\ events \in Seq(Event)
  /\ held \in 0..Len(attempts) /\ outcome \in 0..Len(attempts)
  /\ recovered \in 0..MaxRecovered

Dropped == \E i \in DOMAIN attempts : attempts[i].at = "dropped"

\* The dialog is never busy for nothing: an attempt is on its way, or its answer is
\* posted and not delivered yet, unless the worker was collected before its thread
\* called it (_set_busy, _on_unlock_failed, _clear_worker_refs).
BusyForAReason ==
  busy =>
    \/ dialog = "accepted" \/ Dropped
    \/ \E i \in DOMAIN attempts : attempts[i].at \in {"started", "creating", "opening"}
    \/ \E k \in DOMAIN events : events[k].kind \in {"succeeded", "auth", "failed"}

\* An attempt is always answered, by a session or by a failure that leaves the
\* dialog usable, unless the worker was collected before its thread called it: the
\* references are dropped by the end of an earlier attempt's thread.
UnlockEnds == busy ~> (~busy \/ dialog = "accepted" \/ Dropped)

\* The dialog is not left with an attempt on its way: no vault is opened, and no
\* password tried, that nobody waits for (reject is ignored while it is busy).
NoSessionIsLost ==
  dialog = "rejected" =>
    /\ \A i \in DOMAIN attempts : attempts[i].at \in {"answered", "finished"}
    /\ \A k \in DOMAIN events : events[k].kind # "succeeded"

=============================================================================

----------------------------- MODULE MainWindow -----------------------------
(***************************************************************************)
(* The desktop's window over one unlocked session: its list of entries,    *)
(* the entry in the detail pane and its secret, the clipboard, and the     *)
(* auto-lock.  Handlers run one at a time, but a box or a dialog that one  *)
(* of them opens runs the event loop again: the timers fire inside it, and *)
(* the handler goes on afterwards with what they left.                     *)
(***************************************************************************)
EXTENDS VaultList

CONSTANTS Contents,      \* what the stored vault may hold when the window opens
          ClearSeconds,  \* settings.clipboard_clear_seconds
          LockSeconds,   \* settings.auto_lock_seconds, 0 for never
          RevealFirst,   \* settings.require_reveal_before_copy
          MaxChanges,    \* bound: changes to the vault
          MaxMoves       \* bound: inputs that change what is listed or selected

ASSUME WindowAssumption ==
  /\ \A c \in Contents :
       c \in Seq(View) /\ \A i, j \in DOMAIN c : c[i].name = c[j].name => i = j
  /\ ClearSeconds \in Nat \ {0}
  /\ LockSeconds \in Nat
  /\ RevealFirst \in BOOLEAN
  /\ MaxChanges \in Nat /\ MaxMoves \in Nat

VARIABLES
  vault,        \* the entries of the session, in the order of its vault
  session,      \* "none", "open", or "locked": nothing can be read or saved
  open,         \* whether the window is open
  win,          \* its list and its detail pane
  lastSelected, \* _selected_name, which no constructor sets
  modal,        \* the question or the dialog a handler waits for
  locked,       \* "no", "told": the box that says so is up, or "yes"
  clip,         \* the secret in the clipboard, and how long it has been there
  timers,       \* seconds left of the timers that clear the clipboard
  idle,         \* seconds since the last input
  tickDue,      \* whether the one-second timer has run out
  changes,      \* how many changes of the vault there have been
  moves,        \* how many inputs have changed what is listed or selected
  adrift        \* whether a change raised after the list was loaded

windowVars == <<vault, session, open, win, lastSelected, modal, locked, clip, timers, idle,
                tickDue, changes, moves, adrift>>
content == <<vault, changes, moves, adrift>>
lock == <<session, open, locked>>
clipboard == <<clip, timers>>

Unset == -1
Dots == 0
Nothing == [name |-> NoName]
NoModal == [kind |-> "none"]
NoClip == [of |-> NoName, age |-> 0]

\* `rows` are the views in the list widget and `item` its current row, 0 for none;
\* `current` is the view in the detail pane, whose secret label shows `label`.
Window ==
  [views : Seq(View), list : ListState, search : Queries, filterDue : BOOLEAN,
   rows : Seq(View), item : Nat, current : View \cup {Nothing},
   revealed : BOOLEAN, label : Names \cup {Dots}]

(***************************************************************************)
(* What the widgets do when the list is filled or a row becomes current.   *)
(***************************************************************************)
\* Hiding the pane leaves the label as it is; showing an entry covers the secret.
ShowDetail(w, view) ==
  IF view = Nothing THEN [w EXCEPT !.current = Nothing]
  ELSE [w EXCEPT !.current = view, !.label = Dots]

\* Slip: what has been revealed once stays revealed.
OnSelectRevealed(w, view) ==
  ShowDetail([w EXCEPT !.list = WithSelection(@, view.name)], view)

OnSelect(w, view) ==
  ShowDetail([w EXCEPT !.revealed = FALSE, !.list = WithSelection(@, view.name)], view)

SetCurrentRow(w, row) ==
  IF row = w.item THEN w ELSE OnSelect([w EXCEPT !.item = row], w.rows[row])

\* Clearing the list leaves no current row, which is reported if there was one.
Cleared(w) ==
  LET none == [w EXCEPT !.item = 0, !.rows = <<>>] IN
  IF w.item = 0 THEN none ELSE OnSelect(none, Nothing)

Filled(w) ==
  LET st == Paged(w.views, w.list) IN [w EXCEPT !.list = st, !.rows = PageOf(w.views, st)]

\* Slip: the first row is made current, so that the pane is never empty.
ApplyFilterSelecting(w) ==
  LET queried == IF w.search = w.list.query THEN w ELSE [w EXCEPT !.list = WithQuery(@, w.search)]
      filled == Filled(Cleared(queried))
  IN  IF filled.rows = <<>> THEN filled ELSE SetCurrentRow(filled, 1)

ApplyFilter(w) ==
  Filled(Cleared(IF w.search = w.list.query THEN w
                 ELSE [w EXCEPT !.list = WithQuery(@, w.search)]))

Reload(w, entries) == ApplyFilter([w EXCEPT !.views = entries])

\* The row of an entry, if the page has it, becomes the current one and is shown.
Selected(w, name) ==
  LET at == {i \in DOMAIN w.rows : w.rows[i].name = name} IN
  IF at = {} THEN w
  ELSE LET row == CHOOSE i \in at : TRUE IN ShowDetail(SetCurrentRow(w, row), w.rows[row])

\* What is typed or set in the search box restarts the timer of the filter.
Searching(w, query) ==
  IF w.search = query THEN w ELSE [w EXCEPT !.search = query, !.filterDue = TRUE]

WindowInit ==
  /\ vault = <<>> /\ session = "none" /\ open = FALSE
  /\ win = [views |-> <<>>, list |-> Fresh, search |-> NoQuery, filterDue |-> FALSE,
            rows |-> <<>>, item |-> 0, current |-> Nothing, revealed |-> FALSE, label |-> Dots]
  /\ lastSelected = Unset /\ modal = NoModal /\ locked = "no"
  /\ clip = NoClip /\ timers = {} /\ idle = 0 /\ tickDue = FALSE
  /\ changes = 0 /\ moves = 0 /\ adrift = FALSE

\* MainWindow(session): the list is loaded and nothing is selected.
OpenWindow ==
  /\ session = "none"
  /\ vault' \in Contents
  /\ session' = "open" /\ open' = TRUE
  /\ win' = Reload(win, vault')
  /\ UNCHANGED <<lastSelected, modal, locked, clipboard, idle, tickDue, changes, moves, adrift>>

(***************************************************************************)
(* Input.  Whatever the user does makes the window active again; he can    *)
(* use it only while nothing modal is above it.                            *)
(***************************************************************************)
Used ==
  /\ open /\ modal = NoModal /\ locked # "told"
  /\ idle' = 0

\* An input that changes what is listed and shown, and nothing else.
Shows(w) ==
  /\ Used /\ moves < MaxMoves
  /\ moves' = moves + 1
  /\ win' = w
  /\ UNCHANGED <<vault, changes, adrift, lock, lastSelected, modal, clipboard, tickDue>>

Type(query) == query # win.search /\ Shows(Searching(win, query))

Pick(row) == row \in DOMAIN win.rows /\ row # win.item /\ Shows(SetCurrentRow(win, row))

SetSection(section) ==
  LET there == [win EXCEPT !.list = WithSection(@, section)] IN
  Shows(ApplyFilter(IF section \in Dashboards THEN ShowDetail(there, Nothing) ELSE there))

FilterCategory(category) ==
  Shows(ApplyFilter(ShowDetail([win EXCEPT !.list = FromDashboard(category)], Nothing)))

PickCategory(category) == Shows(ApplyFilter([win EXCEPT !.list = WithCategory(@, category)]))

ToggleSort == Shows(ApplyFilter([win EXCEPT !.list = ToggledSort(@)]))

ClearFilters ==
  Shows(ApplyFilter(Searching([win EXCEPT !.list = ResetFilters(@)], NoQuery)))

GoPage(page) ==
  /\ page \in 0..(Pages(Len(Filter(win.views, win.list))) - 1)
  /\ Shows(ApplyFilter([win EXCEPT !.list = WithPage(@, page)]))

\* The command palette lists what is not in the trash.
JumpToEntry(name) ==
  /\ \E i \in DOMAIN win.views : win.views[i].name = name /\ ~win.views[i].deleted
  /\ LET cleared == ResetFilters(WithSection(win.list, "Vault"))
         searched == Searching([win EXCEPT !.list = cleared], name)
         jumped == [searched EXCEPT !.list = WithSelection(WithQuery(@, name), name)]
     IN  Shows(Selected(ApplyFilter(jumped), name))

(***************************************************************************)
(* The secret in the detail pane.  Its buttons are off for an entry in the *)
(* trash.                                                                  *)
(***************************************************************************)
\* Slip: an entry in the trash is not looked up.
StoredLive(name) ==
  session = "open" /\ \E i \in DOMAIN vault : vault[i].name = name /\ ~vault[i].deleted

Stored(name) == session = "open" /\ \E i \in DOMAIN vault : vault[i].name = name

Live == win.current # Nothing /\ ~win.current.deleted

\* `_revealed` is set before the secret is read, which raises if the entry is gone.
Revealed(w, permits) ==
  IF w.revealed THEN [w EXCEPT !.revealed = FALSE, !.label = Dots]
  ELSE IF ~permits THEN w
  ELSE [w EXCEPT !.revealed = TRUE,
                 !.label = IF Stored(w.current.name) THEN w.current.name ELSE @]

ToggleReveal(permits) ==
  /\ Used /\ Live
  /\ win' = Revealed(win, permits)
  /\ UNCHANGED <<content, lock, lastSelected, modal, clipboard, tickDue>>

\* Slip: nothing clears the clipboard later.
CopySecretForGood(permits) ==
  /\ Used /\ Live /\ permits
  /\ RevealFirst => win.revealed
  /\ Stored(win.current.name)
  /\ clip' = [of |-> win.current.name, age |-> 0]
  /\ UNCHANGED <<content, lock, win, lastSelected, modal, timers, tickDue>>

\* Every copy has a timer of its own, and none is ever stopped.
CopySecret(permits) ==
  /\ Used /\ Live /\ permits
  /\ RevealFirst => win.revealed
  /\ Stored(win.current.name)
  /\ clip' = [of |-> win.current.name, age |-> 0]
  /\ timers' = timers \cup {ClearSeconds}
  /\ UNCHANGED <<content, lock, win, lastSelected, modal, tickDue>>

(***************************************************************************)
(* Changes of the vault.  The session changes its vault first and saves it *)
(* then: when the save raises the handler ends there, and the change is    *)
(* neither undone nor shown.                                               *)
(***************************************************************************)
Set(name, field, value) ==
  [i \in DOMAIN vault |->
     IF vault[i].name = name THEN [vault[i] EXCEPT ![field] = value] ELSE vault[i]]

Without(name) ==
  LET i == CHOOSE i \in DOMAIN vault : vault[i].name = name
  IN  SubSeq(vault, 1, i - 1) \o SubSeq(vault, i + 1, Len(vault))

NewEntry(name) == [name |-> name, deleted |-> FALSE, favorite |-> FALSE, shared |-> FALSE]

Change(entries, raises, w) ==
  /\ changes < MaxChanges
  /\ changes' = changes + 1
  /\ vault' = entries
  /\ adrift' = raises
  /\ win' = IF raises THEN win ELSE w
  /\ UNCHANGED moves

NoChange == UNCHANGED <<content, win>>

RestoreEntry(raises) ==
  /\ Used /\ win.current # Nothing /\ win.current.deleted
  /\ IF Stored(win.current.name)
     THEN LET restored == Set(win.current.name, "deleted", FALSE) IN
          /\ Change(restored, raises, Reload(win, restored))
          /\ lastSelected' = IF raises THEN lastSelected ELSE win.current.name
     ELSE NoChange /\ UNCHANGED lastSelected
  /\ UNCHANGED <<lock, modal, clipboard, tickDue>>

ToggleFavorite(raises) ==
  /\ Used /\ Live
  /\ IF Stored(win.current.name)
     THEN LET was == \E i \in DOMAIN vault : vault[i].name = win.current.name /\ vault[i].favorite
              marked == Set(win.current.name, "favorite", ~was)
          IN  /\ Change(marked, raises, Selected(Reload(win, marked), win.current.name))
              /\ lastSelected' = IF raises THEN lastSelected ELSE win.current.name
     ELSE NoChange /\ UNCHANGED lastSelected
  /\ UNCHANGED <<lock, modal, clipboard, tickDue>>

(***************************************************************************)
(* Dialogs.  One is asked for, and answered in a later step, when the      *)
(* filter or the auto-lock may have run in between.                        *)
(***************************************************************************)
Ask(m) ==
  /\ Used
  /\ modal' = m
  /\ UNCHANGED <<content, lock, win, lastSelected, clipboard, tickDue>>

Answered(kind) ==
  /\ modal.kind = kind /\ locked # "told"
  /\ modal' = NoModal
  /\ idle' = 0
  /\ UNCHANGED <<clipboard, tickDue>>

AskDelete ==
  /\ win.current # Nothing
  /\ Ask([kind |-> "delete", name |-> win.current.name, forever |-> win.current.deleted])

\* The entry in the pane by then; if there is none, reading its name raises.
Delete(permits, raises) ==
  /\ Answered("delete")
  /\ IF win.current # Nothing /\ Stored(win.current.name) /\ (modal.forever => permits)
     THEN LET left == IF modal.forever THEN Without(win.current.name)
                      ELSE Set(win.current.name, "deleted", TRUE)
          IN  /\ Change(left, raises, ShowDetail(Reload(win, left), Nothing))
              /\ lastSelected' = IF raises THEN lastSelected ELSE NoName
     ELSE NoChange /\ UNCHANGED lastSelected
  /\ UNCHANGED lock

\* An entry of that name, also one in the trash, is in the way of a new one.
AddEntry(name, raises) ==
  /\ Answered("add")
  /\ IF session = "open" /\ ~Stored(name)
     THEN LET more == Append(vault, NewEntry(name)) IN
          /\ Change(more, raises, Selected(Reload(win, more), name))
          /\ lastSelected' = IF raises THEN lastSelected ELSE name
     ELSE NoChange /\ UNCHANGED lastSelected
  /\ UNCHANGED lock

Cancel ==
  /\ Answered("delete") \/ Answered("add") \/ Answered("sync")
  /\ NoChange
  /\ UNCHANGED <<lock, lastSelected>>

\* Without an entry shown, _selected_name is read, which raises until it is set.
OpenSharingCenter ==
  LET name == IF win.current # Nothing THEN win.current.name ELSE lastSelected IN
  /\ name # Unset
  /\ Ask([kind |-> "center", name |-> name])

\* What the center does is module Sharing's; here an entry may come out shared.
CloseSharingCenter(entries) ==
  /\ Answered("center")
  /\ LET loaded == IF session = "open" THEN entries ELSE <<>>
         shown == Selected(Reload(win, loaded), modal.name)
     IN  /\ lastSelected' = modal.name
         /\ IF entries = vault
            THEN win' = shown /\ adrift' = FALSE /\ UNCHANGED <<vault, changes, moves>>
            ELSE session = "open" /\ Change(entries, FALSE, shown)
  /\ UNCHANGED lock

\* An imported bundle locks the session and closes the window.
ImportBundle ==
  /\ Answered("sync") /\ session = "open"
  /\ session' = "locked" /\ open' = FALSE
  /\ NoChange
  /\ UNCHANGED <<lastSelected, locked>>

CloseWindow ==
  /\ Used
  /\ open' = FALSE
  /\ UNCHANGED <<content, session, locked, win, lastSelected, modal, clipboard, tickDue>>

(***************************************************************************)
(* Timers.  They fire also while something modal is open, and before the   *)
(* next second is over.                                                    *)
(***************************************************************************)
Second ==
  /\ open /\ ~tickDue /\ ~win.filterDue /\ 0 \notin timers
  /\ tickDue' = TRUE
  /\ idle' = IF idle < LockSeconds THEN idle + 1 ELSE idle
  /\ timers' = {t - 1 : t \in timers}
  /\ clip' = IF clip = NoClip THEN NoClip ELSE [clip EXCEPT !.age = @ + 1]
  /\ UNCHANGED <<content, lock, win, lastSelected, modal>>

FilterTimeout ==
  /\ open /\ win.filterDue
  /\ win' = [ApplyFilter(win) EXCEPT !.filterDue = FALSE]
  /\ UNCHANGED <<content, lock, lastSelected, modal, clipboard, idle, tickDue>>

ClearTimeout ==
  /\ open /\ 0 \in timers
  /\ clip' = NoClip
  /\ timers' = timers \ {0}
  /\ UNCHANGED <<content, lock, win, lastSelected, modal, idle, tickDue>>

\* Slip: with no entry shown there is no code to refresh, and nothing to lock.
TickForCode ==
  /\ open /\ tickDue
  /\ tickDue' = FALSE
  /\ IF win.current # Nothing /\ locked = "no" /\ LockSeconds > 0 /\ idle >= LockSeconds
     THEN locked' = "told" /\ clip' = NoClip /\ session' = "locked"
     ELSE UNCHANGED <<locked, clip, session>>
  /\ UNCHANGED <<content, open, win, lastSelected, modal, timers, idle>>

\* The lock first, then the code of the entry shown, which raises once it is locked.
Tick ==
  /\ open /\ tickDue
  /\ tickDue' = FALSE
  /\ IF locked = "no" /\ LockSeconds > 0 /\ idle >= LockSeconds
     THEN locked' = "told" /\ clip' = NoClip /\ session' = "locked"
     ELSE UNCHANGED <<locked, clip, session>>
  /\ UNCHANGED <<content, open, win, lastSelected, modal, timers, idle>>

\* The user has read that the vault is locked; a dialog below the box stays open.
Dismiss ==
  /\ locked = "told"
  /\ locked' = "yes" /\ open' = FALSE /\ idle' = 0
  /\ UNCHANGED <<content, session, win, lastSelected, modal, clipboard, tickDue>>

Browse ==
  \/ \E query \in Queries : Type(query)
  \/ \E row \in 1..PageSize : Pick(row)
  \/ \E section \in Sections : SetSection(section)
  \/ \E category \in Categories : FilterCategory(category)
  \/ \E category \in Categories \cup {AllCategories} : PickCategory(category)
  \/ ToggleSort \/ ClearFilters
  \/ \E page \in 0..Len(win.views) : GoPage(page)
  \/ \E name \in Names : JumpToEntry(name)

Act ==
  \/ \E permits \in BOOLEAN : ToggleReveal(permits) \/ CopySecret(permits)
  \/ \E raises \in BOOLEAN : RestoreEntry(raises) \/ ToggleFavorite(raises)
  \/ AskDelete \/ Ask([kind |-> "add"]) \/ Ask([kind |-> "sync"])
  \/ OpenSharingCenter
  \/ \E permits, raises \in BOOLEAN : Delete(permits, raises)
  \/ \E name \in Names, raises \in BOOLEAN : AddEntry(name, raises)
  \/ \E entries \in {vault} \cup {Set(n, "shared", TRUE) : n \in Names} :
       CloseSharingCenter(entries)
  \/ Cancel \/ ImportBundle \/ CloseWindow \/ Dismiss

Time == Second \/ FilterTimeout \/ ClearTimeout \/ Tick

WindowNext == Browse \/ Act \/ Time

(***************************************************************************)
(* Properties.                                                             *)
(***************************************************************************)
\* Besides the types: the names in a vault are unique, those in its trash included.
WindowTypeOK ==
  /\ vault \in Seq(View)
  /\ \A i, j \in DOMAIN vault : vault[i].name = vault[j].name => i = j
  /\ session \in {"none", "open", "locked"} /\ open \in BOOLEAN
  /\ win \in Window
  /\ lastSelected \in Names \cup {NoName, Unset}
  /\ modal.kind \in {"none", "delete", "add", "center", "sync"}
  /\ locked \in {"no", "told", "yes"}
  /\ clip.of \in Names \cup {NoName} /\ clip.age \in Nat
  /\ timers \subseteq 0..ClearSeconds
  /\ idle \in 0..LockSeconds /\ tickDue \in BOOLEAN
  /\ changes \in 0..MaxChanges /\ moves \in 0..MaxMoves /\ adrift \in BOOLEAN

\* The entry in the detail pane is the list's current row, and its label is covered
\* or shows that very entry's secret while the button says Hide.
DetailIsTheRow ==
  win.current # Nothing =>
    /\ win.item \in DOMAIN win.rows /\ win.rows[win.item] = win.current
    /\ win.label = Dots \/ (win.label = win.current.name /\ win.revealed)

\* Unless the filter's timer runs, the list shows what its search box, section and
\* page select, and a page that exists; unless a change raised, of the vault itself.
ListIsCurrent ==
  session = "open" /\ open /\ ~win.filterDue =>
    /\ win.search = win.list.query
    /\ win.rows = PageOf(win.views, win.list)
    /\ win.rows = <<>> => Filter(win.views, win.list) = <<>>
    /\ win.views = vault \/ adrift

\* What is on the screen is what the session holds and the user selected: the list
\* and the detail pane agree with each other and with the vault.
ScreenIsTrue == DetailIsTheRow /\ ListIsCurrent

Copied == clip'.of # NoName /\ (clip'.of # clip.of \/ clip'.age < clip.age)

\* Where a secret has to be revealed before it is copied, a secret that gets into
\* the clipboard is on the screen at that moment, whatever was revealed before.
WhatIsCopiedWasShown ==
  [][Copied /\ RevealFirst =>
       win.current.name = clip'.of /\ win.label = clip'.of]_windowVars

\* No secret stays in the clipboard longer than the settings say while the window
\* is open, and none once the vault has been locked for inactivity: a timer of an
\* earlier copy may clear it earlier, never instead of its own.
ClipboardIsBrief ==
  /\ open => clip.age <= ClearSeconds
  /\ locked # "no" => clip = NoClip

Vanished(n) ==
  /\ \E i \in DOMAIN vault : vault[i].name = n
  /\ ~ \E i \in DOMAIN vault' : vault'[i].name = n

Trashed(n) ==
  /\ \E i \in DOMAIN vault : vault[i].name = n /\ ~vault[i].deleted
  /\ \E i \in DOMAIN vault' : vault'[i].name = n /\ vault'[i].deleted

AsAsked ==
  \A n \in Names :
    /\ session = "open" /\ Vanished(n) =>
         modal.kind = "delete" /\ modal.forever /\ modal.name = n
    /\ Trashed(n) => modal.kind = "delete" /\ ~modal.forever /\ modal.name = n

\* An entry is deleted, or moved to the trash, only by an answer to the question
\* that named it, though the filter may run while the question is open.
DeletesWhatWasAsked == [][AsAsked]_windowVars

\* When the second's timer has run, a window left alone for as long as the settings
\* say is locked, whatever is shown and whatever is open above it.
LocksWhenIdle ==
  open /\ ~tickDue /\ LockSeconds > 0 /\ idle >= LockSeconds => session = "locked"

=============================================================================

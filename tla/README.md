# AegisVault: a TLA+ model

AegisVault (package `ferrovault`) is a local password manager: a command line, a desktop
window and a socket agent over one encrypted vault, with recovery shares, sharing, access
policies and an audit ledger. This directory holds TLA+ modules for the parts of it whose
correctness depends on order, interleaving, failure or arithmetic, the TLC runs that check
them on small instances, and theorems that TLAPS checks for every instance. Paths below are
under `src/src/ferrovault/` unless they begin with `README` or `tests`.

## 1. The system

| Component | State | Operations | Uses |
|---|---|---|---|
| Vault use cases, `application/services/vault_service.py` | none of its own: each call loads, changes and saves | init, add, remove, import, mark_rotated, share, revoke, rotate, enrol, recover, sync export and import | repository, cipher, KDF, ledger |
| Session, `session.py` | password, DEK, recovery block, entries, ledger, from unlock to lock | the same on the copy in memory, each followed by `_persist`; trash, restore, purge, favourite; lock | use cases' `_seal`, repository |
| Envelope and serialization, `vault_service.py:77-110`, `serialization.py` | values only | `_seal`, `_open`, `serialize`, `deserialize` | cipher |
| Audit ledger, `domain/model/audit.py` | chain of blocks | append, verify, head hash | SHA-256 |
| Recovery shares, `domain/services/shamir.py` | tables of GF(256) | split, combine | |
| File repository, `adapters/outbound/storage/`, `cli.py` backup and restore | the stored artifact | exists, load, save; `restore` copies onto the path | file system |
| Agent, `adapters/inbound/agent.py` | session, socket, lock flag, idle clock | LIST, GET, CODE, LOCK, idle timeout | session |
| Sharing, directory, gateway | grants on entries, labels, principals in the settings | create, revoke by any handle, receive, upsert, deactivate, resolve, deliver | sealed box, session, policy |
| Settings, access requests | a JSON file, the window's copy, the dialogs' copies | load, normalize, save, request, decide, edit rules and directory | |
| Policy engine, packs, roles, identities | settings, SCIM users and groups, the identity of a request | authorize, break-glass, claims of a token, SCIM changes | settings |
| Unlock and recovery dialogs, `adapters/inbound/gui/` | attempts on worker threads, queued signals, busy flag | submit, recover, reject | use cases |
| Desktop window | list, selection, reveal flag, clipboard, timers, open question | user events and timers on one event loop | session, settings, policy, sharing center |
| Rotation planner, health, Merkle root, generators, importers, exporters, breach check, TOTP, presentation | none that lasts | pure functions, parsing, formatting, output | |

What interacts: the processes (commands, windows, agents) share the stored artifact and
nothing else; no file is locked. Inside a process calls are synchronous, except for the
window's timers, which also fire inside every box or dialog that a handler has opened, and
the unlock dialog's worker threads. The dialogs above the window share the settings file and
each hold a copy of it. The agent's clients speak to it over a Unix socket.

What is hard: load-then-save by several processes; sessions that outlive other people's
saves; saves that raise after memory has changed; the order of save and split in an
enrolment; a header that is authenticated with the body and changed by three operations;
kills and power cuts inside a save; an idle timeout that only one of two blocking calls has;
sockets and temporary files whose names are shared; a handler that goes on after a question
during which timers have run; signals of an attempt that arrive after the next one has begun;
row numbers looked up in a table that has been sorted anew; labels recomputed from labels;
a setting that is normalized when it is stored; the zeros of a field. `PROJECT.json` lists
each hazard at its line, with the properties that cover it.

What makes each part correct:

* vault: what is stored can be opened, its ledger accounts for its entries, an acknowledged
  password or recovery enrolment is not lost, and the content changes only with its ledger;
* ledger: append-only histories are accepted, every other change is noticed, and located;
* shares: enough of them recover, fewer of them tell nothing;
* repository: a save is atomic, a load sees one artifact;
* agent: it never ends, and never idles, with the vault open, and keeps no client waiting;
* sharing: who is shown to have access has it, a revocation takes the grant that was picked,
  a deactivated key gets nothing, and no grant gets past the policy;
* settings: what is in force is what is stored, a button acts on the row it shows, and a
  saved decision stays;
* policy: no order of exceptions and overrides lets a secret out without its factor, and
  neither more proof nor a tighter setting turns a verdict round;
* desktop: every attempt to unlock ends, the screen shows what the session holds, a question
  is answered for the entry it named, no secret outstays the settings in the clipboard, an
  idle window is locked.

## 2. Modules

| Module | Models | Code |
|---|---|---|
| `Envelope` | stored values and envelope encryption, histories of blocks; constant-level | `vault_service.py` `_seal`, `_open`, `serialization.py`, `dto.py` |
| `VaultStore` | commands and sessions over one artifact | `vault_service.py`, `session.py` |
| `VaultPromise` | abstract: what a user is promised of a vault | implemented by `VaultStore` with one client |
| `AuditLedger` | the chain, and whoever changes it | `domain/model/audit.py` |
| `RecoveryShares` | the arithmetic of splitting and combining | `domain/services/shamir.py` |
| `FileRepository` | a save and a load as file operations on inodes | `file_repository.py`, `cli.py:258-261` |
| `StoredValue` | abstract: the repository port, an atomic value | implemented by `FileRepository` with one saver |
| `VaultAgent` | `serve()`, `_handle()` and the clients | `agent.py` |
| `Sharing` | grants, labels, the sharing center, the directory and the gateway | `sharing.py`, `directory.py`, `sync_gateway.py`, `share_dialog.py`, `controllers.py` |
| `Settings` | the settings file, the window's settings, and four dialogs with copies | `settings.py`, `access_requests.py`, the settings, access, policy and directory dialogs |
| `AccessPolicy` | the verdict, the settings, rules, identities and SCIM directory it depends on | `policy.py`, `policy_pack.py`, `enterprise.py`, `identity.py` |
| `UnlockDialog` | attempts, threads, posted events | `unlock_dialog.py`, `async_unlock.py`, `RestoreDialog` |
| `VaultList` | what the list shows of the entries; constant-level | `view_models/vault_list.py` |
| `MainWindow` | list, detail pane, clipboard, auto-lock, questions | `main_window.py`, `controllers.py`, `panels.py` |
| `Desktop` | `main()`: the dialog, then the window over its session | composes `UnlockDialog` and `MainWindow` |
| `MC*` | constants of the runs, symmetry | |
| `*Proofs` | theorems of the module they are named after (`DesktopProofs` of the window and the dialog, `DomainProofs` of `AuditLedger` and `RecoveryShares`) | |

How they fit together. `VaultStore` and `VaultPromise` share `Envelope`, whose
`CombineShares` is what `RecoveryShares` shows of the arithmetic: k shares of one enrolment
recover its key. `VaultStore` stores in one step what `FileRepository` shows a save to be,
`StoredValue`. `MainWindow` extends `VaultList`; what its sharing center does while it is
open is `Sharing`'s, and the verdicts it asks for (`permits`) are `AccessPolicy`'s, which
takes a well-formed settings record from `Settings`. The three are separate modules because
what they share is small: a set of marks, a Boolean, a record.

Operators marked "Slip:" are plausible mistakes in the operator near them. No module uses
them; replacing the operator by its slip breaks the property that guards it, which is how
each property is known to be able to fail.

### Abstractions

*Cryptography* is ideal. A ciphertext is a record naming its key and authenticated data.
Keys are numbers drawn from a counter, so two draws never coincide; a key-encryption key is
named by its password. The hash of a block is the tuple it is computed from. A sealed box is
opened by the key it names. The arithmetic of the shares is not abstracted: `RecoveryShares`
computes in GF(256) with tables built as the code builds them, one byte of the key at a time.
A byte is the set of its bits, each named by its weight, so that xor is the symmetric
difference; the code's loops are recursive functions over the turns (`Loop`), and the part of
`_EXP` from 255 on, which repeats the first, is a remainder (`Exp`).

*Entries* of the store are a function from folded names to absent, live or trashed;
`Vault._names` folds names in the same way. Edits of an entry's fields are their audit
blocks. An *audit block* is its action with the entry it names or the number of entries it
counts. In the window an entry is its name, whether it is in the trash, a favourite, shared.

*A command* is two steps: the one that loads and opens, and the one that changes, seals and
saves; other clients run in between. The saves of `recover`, `init` and the enrolments are
split at the points where the code can stop or be overtaken (`RecoverSave`, `InitSave`,
`Deliver`). *A session* changes memory and persists in one step, since nothing of its own
runs in between; with `SaveMayFail` the second half may raise. `Quit` is a client that
returns, raises or is killed, at any point between two steps. A locked session is one whose
memory cannot be sealed: its calls still run, on an empty vault, and their save raises.

*A file* is an inode with the parts written to it; a name refers to an inode, a descriptor
keeps the one it was opened on, and a rename moves a name. With `PowerFails` only parts
written back survive. `damaged` remembers that a restore has begun, or that a power cut has
taken parts of the file at the path, and that nothing has been stored since.

*The agent's time* is counted in seconds of one `accept()`, up to `Timeout`; a connection
can wait in the queue, be served, be answered or be dropped.

*The event loop.* A handler is one step, unless it opens a box or a dialog: then the timers
may fire, and what comes after the answer is a step of its own that starts from what they
left (`Ask`, `Answered`). `modal` is what is open. A second passes only when the timers due
before it have fired, as in Qt's loop. A worker of `UnlockDialog` is on a thread of its own:
its steps interleave with the loop's, and what it emits waits in `events` for `Deliver`.

*Dialogs over settings* hold a copy taken when they open (`settings`), a draft that is
edited, the table on the screen and its current row. `adrift` records why what is in force
need not be what is stored: a save raised, or the file could not be read.

*A verdict* is a function of settings, identity, action and context, evaluated over sets of
them. `TighteningTrustsOnlyThisDevice` and `MoreProofNeverLoses` compare the verdicts before
and after every step, so that the settings, identities and packs they compare are ones that occur.

## 3. Properties and runs

| Run | Module | Bounds | Shows |
|---|---|---|---|
| `store_one_client` | `VaultStore` | 1 client, 1 name, 2 passwords, 4 blocks, 3 keys, saves may raise, bundles | opens, password and shares work, ledger grows, implements `VaultPromise` |
| `store_two_clients` | `VaultStore` | 2 interchangeable clients, 3 blocks, 2 keys | the stored ledger explains the stored entries under every interleaving |
| `ledger` | `AuditLedger` | 4 blocks, 2 records, 3 changes | what `verify` accepts and names |
| `recovery_shares` | `RecoveryShares` | 3 byte values, 5 share counts, 4 thresholds, shares 0-3 and 255, up to 3 brought | k recover in any order, k-1 fit every secret by one draw |
| `file_repository` | `FileRepository` | 1 saver, 1 reader, 2 parts, 3 inodes, restores, kills, power cuts | implements `StoredValue` |
| `agent` | `VaultAgent` | 2 agents, 2 clients, timeout 2, 3 lines | ends locked, one agent for each connection, idle lock, keeps nobody waiting |
| `sharing` | `MCSharing` | 1 entry and 1 received name, 2 labels, 1 key, 2 grants | labels, revocation, offboarding, registry |
| `settings` | `MCSettings` | 2 requests, 2 rules, 1 person, 3 dialogs opened, unreadable file | in force is stored, decisions last, buttons act on their row |
| `access_policy` | `MCAccessPolicy` | 3 rules, packs of 2, 4 contexts, all toggles, 2 devices, 2 groups, 3 changes | factors, rules, monotonicity, normalization |
| `desktop` | `MCDesktop` | 2 attempts, 1 recovery, 2 entries, pages of 1, 3 sections, 2 changes, 2 moves, delays of 1 | the dialog, then the window |
| `trash_lost` | `MCVaultStore` | 1 client | violated, section 5 |
| `settings_overwrite` | `MCSettings` | as `settings` | violated, section 5 |

**The store.** `EveryArtifactOpens`: what is stored opens with a password, and with its
recovery key. `LedgerExplainsEntries`: an entry is stored exactly if the stored ledger has a
block that brings it in, followed by none that takes it out; overwriting saves lose changes,
and lose them together with their blocks. Both hold for any number of clients; the second is
checked where they interleave, and proved for the rest. For one
client: `PasswordIsAcknowledged`, `SharesRecover`, `LedgerOnlyGrows` (which is also what a
call on a locked session would break) and `PromiseKept`, the refinement of `VaultPromise`,
all of them when any save of a session may raise after its memory has changed. Three keys
are a DEK and two enrolments, so that the second can replace the first; four blocks hold an
init and three operations in any order. One name is enough because operations on different
names do not meet: `Explains` speaks of each name by itself, and the proof is for any number.

**The ledger.** `WrittenIsAccepted`; `HeadHashPinsHistory`: of all ledgers that `verify`
accepts only the written one has its head hash; `EditedBlockIsNamed`: after one edit it is
the edited block that is reported. Four blocks give a first, a last and two inner ones, and
three changes are what it takes to edit, re-hash and fit the next block.

**The shares.** `EnoughSharesRecover` and `FewerSharesTellNothing`, at the counts 0, 2, 3,
255, 256 and thresholds 0 to 3, with shares brought in any order or twice. The second says
more than that k-1 shares rule no secret out: each byte is the secret of exactly one draw of
the other coefficients, so that no secret is likelier than another. 0, 1 and 131 are
the byte values with no logarithm, with logarithm 0, and with the high bit set. Counts and
thresholds that the code refuses are among the inputs.

**The file.** `SavesAndLoadsAreAtomic` is the refinement of `StoredValue`, in which only a
restore and a power cut may do anything but replace the value. Two parts let a file be empty,
partly and wholly written; three inodes are the path, the temporary file and the reader's old
one.

**The agent.** `EndsLocked`; `WaitsForOneAgent`: whoever is connected waits for exactly one
agent, which still listens, whatever agents take the path from one another; `IdleLocks`,
`NobodyIsLeftWaiting`. A timeout of two seconds
distinguishes a clock that has started from one that has run out. The lines clients send fall
into three kinds, of which the run has one each: answered, raising, and LOCK. Two agents are
needed for one to remove the other's socket and for `bind()` to raise; two clients for one to
wait in the queue while the other is served, hangs up, or locks the agent.

**Sharing.** `ShownIsWhoHasAccess`: an entry's recipients are those of its active grants and
the labels set by hand since its last revocation, although the code recomputes labels from
its own earlier answers. `PickedRowIsWhatIsRevoked`, `OffboardedGetsNothing`,
`RegistryIsTheSession`. One key under two labels is the case in which
matching by label, by fingerprint and by id differ; two grants are what a revocation can
confuse; the received name is one that the vault did not have when the center was filled.

**Settings.** `InForceIsStored`: the engine judges by what the window shows and the file
holds. `OnlyAStaleCenterUndoes`: a saved decision is lost only to a center opened before it
or to a file that could not be read. `ActsOnTheRowShown`: the current row stays where it is
when a decided request moves down its table. Two requests are what sorting can exchange; three
openings are a center, a dialog above it and another one after them.

**Policy.** `HighNeedsMfa` and `RulesBindEverybody` are statements about every identity and
context: not break-glass, not the owner, not an empty pack or a later rule gets past.
`MoreProofNeverLoses` and `TighteningTrustsOnlyThisDevice` compare two verdicts. The second
says of every setting that is tightened what it may nevertheless permit. Settings are
normalized afterwards, and a required list of devices that is then empty comes to hold this
device (`settings.py:60-61`): turning the requirement on with no device listed, or taking the
last one off, permits on this device what was refused there, up to what listing it would have
permitted. Nothing else that is tightened permits anything new. A run makes up to
three changes to settings, rules or directory, with every identity presented between them;
packs of two have a first and a last rule, and the rules are the two kinds of the shipped
pack (with factors, without) and one on managing.

**The desktop.** `NoSessionIsLost`, `BusyForAReason`, `UnlockEnds`: one answer for each
attempt, and controls disabled only while one is to come, with the signals of an attempt
arriving while the next one runs. `ScreenIsTrue`: list, detail pane, label and vault agree
unless the filter's timer is due or a change raised. `WhatIsCopiedWasShown`,
`ClipboardIsBrief`, `LocksWhenIdle`, `DeletesWhatWasAsked`. Two entries, one in another
order than by name, on pages of one are what selection, paging and sorting can confuse; the
second initial vault holds a trashed entry only. Delays of one second order every pair of timers
both ways. Two attempts let a late event of the first meet the second. Two changes are what
it takes to trash or restore an entry and to meet it again, each of them with a save that may
raise.

Deadlock is checked in `store_one_client`, `store_two_clients`, `file_repository` and
`agent`; in the others the user may stop for ever, and the configuration says so.

### Fairness

`VaultAgent`: `AgentsRun` is weak fairness of each agent's own steps, since its process is
scheduled and the timeout of `accept()` is kept by the operating system. Starting and killing
agents are under no fairness. `PoliteSpec` adds weak fairness of what a connected client does
next (it sends a line or closes). Nobody is obliged to connect, and a stream of connections
keeps an agent open by design, so `IdleLocks` exempts it.

`UnlockDialog`: `UnlockFairness` is weak fairness of each worker's thread and of `Deliver`:
threads are scheduled, and Qt's loop, which also runs inside a message box, delivers what is
posted. The user is under no fairness: no box need ever be dismissed. `UnlockEnds` exempts a
worker that was collected before its thread called it, which the code permits: the references
that keep it alive are dropped when any thread finishes, an earlier attempt's included
(`_clear_worker_refs`).

## 4. Theorems

All are about the specification of the module, for every value of its constants that meets
its assumptions: no bound of a run is used.

| Module | Theorem | Property |
|---|---|---|
| `VaultStoreProofs` | `TypesHold`, `ArtifactsOpen`, `LedgerExplains` | `TypeOK`, `EveryArtifactOpens`, `LedgerExplainsEntries`, any clients |
| | `PasswordAcknowledged`, `LastSharesRecover`, `LedgerGrows`, `PromiseIsKept` | one client: the four properties of `store_one_client` that need it, the refinement among them |
| `FileRepositoryProofs` | `StoredWhole`, `ImplementsPort` | one saver: `StoredIsWhole` and the refinement of `StoredValue` |
| `DomainProofs` | `WrittenAccepted`, `EditNamed`, `HeadPins` | all three of the run `ledger` |
| | `EnoughRecover`, `FewerTellNothing` | both of the run `recovery_shares` |
| | `FieldLaws` | the tables, `_mul` and `_inv` make the bytes a field |
| `VaultAgentProofs` | `StoppedIsLocked`, `OneAgentEach` | `EndsLocked`, `WaitsForOneAgent` |
| `SharingProofs` | `SharingTypes`, `ShownHaveAccess`, `Offboarded`, `PickedIsRevoked`, `RegistryShown` | all five of the run |
| `SettingsProofs` | `SettingsTypes`, `InForceStored`, `StaleCenterUndoes`, `ActsOnShown` | all four of the run |
| | `EveryRowIsARequest`, `AddRuleKeepsTheOthers` | what sorting a table and editing a pack compute, for every queue and pack |
| `AccessPolicyProofs` | `AccessTypes`, `HighFactorAlways`, `RulesBind`, `MoreProof`, `TighterSettings` | all five of the run |
| `DesktopProofs` | `DesktopTypes`, `NobodyUnlocksUnseen`, `NotBusyForNothing`, `ScreenTrue`, `CopiedWasShown` | `TypeOK`, `NoSessionIsLost`, `BusyForAReason`, `ScreenIsTrue`, `WhatIsCopiedWasShown` |
| | `IdleIsLocked`, `ClipboardCleared`, `DeletesAsAsked` | `LocksWhenIdle`, `ClipboardIsBrief`, `DeletesWhatWasAsked` |
| | `EveryEntryHasAPage` | what filter, sort and pager compute, for every vault and list |

*The store, any clients.* None of the three is inductive: a save stores what is in some
client's memory, however old, and an import stores what is in a bundle. `IndInv` therefore
asks of every memory that its recovery block wraps its DEK (or that the DEK is gone) and that
its ledger explains its entries (`Sound`); of the stored artifact and of the bundles that the
wraps, the authenticated data and the sealing key agree (`WellSealed`); and of an init between
its two steps that its memory is that of a new vault (`Fresh`). The arithmetic of histories is
one lemma, `ExplainsAppend`: a block added to a ledger that explains its entries explains the
new ones if, name by name, it takes the entry out, brings it in, or says nothing of an entry
that stays. This is also the reason an overwritten update cannot corrupt a vault: every copy
is a consistent one.

*The store, one client* (`ASSUME NEW u, Clients = {u}`, the weakest assumption under which
the code keeps them: section 5 has the counterexamples for two). `OneInv` adds to `IndInv`
what the user was told (`Told`) and what the client's memory has to do with the stored
artifact in each mode (`Knows`): after a load they agree; in a session the memory's ledger
extends the stored one by the blocks of the saves that raised (`Ahead`), and the entries, the
password and the recovery key differ only as those blocks say. A save that succeeds stores
that difference at once, which is a `Commit` of `VaultPromise`.

*The file.* `FileInv`: the one saver writes from the beginning, to the temporary file or, in a
restore, to a file that counts as damaged; nobody reads the temporary file; what is at the
path is whole unless damaged. Each step is then a step of `StoredValue` or a stutter.

*The ledger.* The invariant is that the ledger is a sequence of blocks whatever is done to it
(`IsLedger`) and that what append() alone has written is a chain. A block contains the hash of
the one before, so there is no set of all blocks, and a ledger is typed as a sequence over
some set. `HeadPins` walks two chains back from their heads: were they to differ, the
difference nearest to the head (`LeastMember`) would be between blocks of one hash.

*The shares.* The inductive invariant, `SharesInv`, is modest: what was split meets the bounds
that `split_secret` checks and has as many coefficients as its threshold, and what was brought
back is what `combine_shares` makes of shares with numbers of that split. All the difficulty
is in the arithmetic, for any split and any shares, in four parts.

1. *The field* (`FieldLaws`). Commutativity, associativity and inverses of `_mul` are sums of
   logarithms modulo 255. It distributes over xor because multiplication by the generator
   does, and every product is a number of multiplications by the generator. What the tables
   hold is `TablesAssumption`, a statement about 255 given bytes that mentions no constant of
   the module: it is true or false once and for all, and TLC finds it true before each run.
2. *Loops*. That a recursive function is what its equation says needs an induction, and so does
   whatever is said of a loop. The library's induction takes the goal as an operator, which is
   out of the prover's reach; here it is first-order: the set of counterexamples would have a
   least member (`LeastMember`, `Induction`). `LoopExists` puts the function together from
   its beginnings, and `LoopTurns` gives the equation.
3. *Enough shares*. Lagrange's weights at 0 of distinct points, none of them 0, add up to 1
   (`WeightsAddUp`, by induction on their number, leaving out the first and the last point in
   turn). By induction on its degree, the values of a polynomial at no fewer points than it has
   coefficients, so weighted, add up to its value at 0 (`Interpolation`). The points may come
   in any order.
4. *Fewer shares*. A polynomial of n coefficients that is 0 at n points is 0 (`OnlyZero`), so
   two draws that give the same secret and the same k-1 shares are one draw; and there is a
   polynomial of n coefficients through any n points (`Through`, `ThroughByte`), built one
   point at a time.

*The agent.* `LockInv` adds that the lock flag was cleared when an agent started, without
which `bind()` would lead from a flag of the last run to a loop that accepts. `PlaceInv` is
`WaitsForOneAgent` with what keeps a connection in one place (`QueueIs`): a queue holds no
connection twice, nor the one being served, and an agent that does not listen has none. Every
step but `Connect` closes the connections of some set and moves no other (`Closes`): the set
is empty, the peer, or all that one agent holds.

*Sharing.* `IInv` is `TypeOK` with what the window needs: the form's match is the id of the
row that filled it, and the lists are the session's unless the window knows they are behind.
`ShownInv` is `ShownIsWhoHasAccess` for every name, in the vault or not, so that it survives a
lock.

*Settings.* `IInv` says what the window, the dialog above it and the file owe one another
between a save and the close of its dialog: the dialog's table shows its draft, its copy has
every decision the window knows of, and what was saved last is what a restart finds. It holds
whatever the dialogs put into the settings. What they do put there is the second invariant,
`Types`: settings are well-formed, with a trusted device where one is required; packs,
directories and queues hold an item of a name once; and no request has an id that is still to
be drawn, without which a new request could meet an old one of its id.

*Policy.* The verdict is shown monotone lemma by lemma (roles, device, factors, rules), then
step by step; a pack is compared by the rules that occur in it. Settings that are tighter in
every part permit no more (`TighterAllows`). What is asked for is always tighter; what is
stored is so too unless this device was added to it, and then a caller from another device
keeps its verdict (`OthersGainNothing`), and for one from this device the stored settings are
tighter than the old ones with this device listed.

*Desktop.* Four invariants, of which the later ones use the earlier. `TimeInv`: a secret in
the clipboard has a timer that runs out in time, be it one of an earlier copy (`Covered`).
`TalkInv`: only the last attempt may be under way, and only while the dialog is busy; what is
posted comes from attempts that are done, and at most one answer is among it, the last
attempt's. `AskInv`: names in the vault are unique, and as long as the question is open the
pane shows the entry it named, or none. `ScreenInv`, for what is seen: the pane shows the
current row or nothing, and its label dots or that row's secret (`WellShown`); rows, search
field and filter agree unless the filter's timer is to fire (`Synced`); what the window holds
is the vault unless a change raised, and even then an entry it shows as live is one the vault
has (`LiveIn`), which is why a copy after a failed change still finds the secret it shows; a
revealed label is that of the entry in the pane (`Uncovered`); and an open question asks to
delete for good exactly if the entry in the pane is in the trash. `DeskTypes` and `DialogInv`
add the remaining types.

*Sorted lists.* The list of the window, the tables of the dialogs and an edited pack are
sorted or filtered sequences. Each is defined by positions: an item's row is one more than the
number of items before it. That such rows are the numbers 1 to n, each taken once, is one
counting argument over a finite set, made in `DesktopProofs` and `SettingsProofs`; it is what
types the list and what `EveryEntryHasAPage`, `EveryRowIsARequest` and
`AddRuleKeepsTheOthers` say to a user. A sort by recursion would have needed an induction
over it.

Assumptions used: those of the modules' constants (`SentinelAssumption`,
`EditKindsAssumption`, `StoreAssumption`, `NamesAssumption`, `PromiseAssumption`,
`RepositoryAssumption`, `HoleAssumption`, `LedgerAssumption`, `AgentAssumption`,
`SharingAssumption`, `SettingsAssumption`, `AccessAssumption`, `WindowAssumption`,
`NamesAreNumbers`, `UnlockAssumption`, `SharesAssumption`), which TLC evaluates in the runs.
They say that the values standing for "nothing" are none of the others and that constants have
their types. `TablesAssumption` is about no constant: it is a computation that TLC does.

Only model-checked: liveness (`IdleLocks`, `NobodyIsLeftWaiting`, `UnlockEnds`), which is
beyond the prover. Every other property of the passing runs is a theorem, all of the
invariants and the refinements among them; the types of `VaultStore` are a theorem only.

## 5. Where the code and its documents disagree

Two are runs that TLC finds violated:

* `trash_lost`: `serialize()` writes `vault.list()`, which leaves out trashed entries, so
  moving an entry to the trash deletes it at the next unlock. `README.md:177-178` lists the
  trash among the core features.
* `settings_overwrite`: a decision saved in the access-requests dialog, which can be opened
  from the settings center, is undone when the center is accepted. `access_dialog.py:96` says
  "Access requests and approval decisions were saved locally."

Further counterexamples are kept as configurations, to be run by hand:

| Configuration, module | Property | What happens | What is said |
|---|---|---|---|
| `StalePassword`, `MCVaultStore` | `PasswordIsAcknowledged` | a command begun before a rotation puts the old password back | `tests/integration/test_recovery.py:33-34` |
| `EnrolWithoutShares`, `MCVaultStore` | `EnrolmentHasShares` | the block is saved before the threshold is validated | `vault_service.py:8-9` |
| `RotationReseals`, `MCVaultStore` | `RotationLeavesBody` | rotation opens and seals the whole body | `README.md:111-114`, `vault_service.py:7` |
| `ReadmeFigure`, `AuditLedger` | `FollowingBlockIsNamed` | `verify` names the edited block, not the next | `README.md:163-164` |
| `TwoSavers`, `FileRepository` | `StoredIsWhole` | one temporary name for all processes | `file_repository.py:4` |
| `SilentClient`, `VaultAgent` | `IdleLocks` | `recv()` has no timeout | `agent.py:6` |
| `CliSharesUnasked`, `MCSharing` | `GrantsFollowPolicy` | the command `share` asks no policy (`cli.py:288-290`), the Sharing Center does | `policy.py:45` |
| `StarterRule`, `MCAccessPolicy` | `CriticalNeedsBoth` | a rule that asks for factors applies only to a caller who has neither | `policy_pack.py:141` |

Seen while modelling, and in the models as the code has it:

* with two clients `LedgerOnlyGrows` fails: of two commands that load the same artifact the
  later save drops the earlier one's entry together with its block;
* a session enrolment whose save raises leaves its recovery block in memory; the next
  operation stores it, and the shares in users' hands stop working. `SharesRecover` therefore
  speaks of enrolments up to one that raised;
* a power cut after the rename can leave a vault cut short, since nothing is synced;
* an agent that starts or stops removes whatever socket is at the path, another agent's
  included, which then serves nobody until its timeout;
* a late `_clear_worker_refs` of one attempt can drop the references to the next one's
  worker; a dialog built before a vault existed can never open one that was created meanwhile;
* in the window: restoring an entry sets the sidebar to Vault while the list stays in Trash;
  the Sharing Center raises `AttributeError` on a window in which nothing was ever selected
  (`controllers.py:192`); a revealed secret stays on the screen behind the box that says the
  vault was locked; `_tick` asks the session it has just locked for a code, which raises; a
  clear timer clears whatever is in the clipboard by then, and none runs once the window is
  closed; a save that raises in an addition leaves the entry in memory;
* two steps that look like tightening trust this device (`settings.py:60-61`): requiring a
  trusted device while none is listed, and taking the last one off a required list. Somebody
  at this device whom distrusting it had shut out is let in again by either;
* deactivated SCIM users still get identities, with MFA taken for granted; users stay in the
  member lists of their former groups; the desktop's identity has no groups, so an entry with
  allowed groups is refused there to everybody.

## 6. Not modelled

Ciphers, key derivation, sealed boxes, TOTP and random generators are library calls, taken as
ideal where they are used. Import parsers, exporters, breach queries, QML, themes and icons
transform data or pixels and keep no state. Passkey unlock describes a capability and unlocks
nothing. The rotation planner and the health report are functions of one entry's age and
strength that only the screen reads. The Merkle fingerprint is shown and never compared; under
an ideal hash every property of it is the hash's. The audit export and SIEM stream print the
blocks of `AuditLedger`. The SQLite repository is one SQL statement for each operation, atomic
by the library's transactions. Argument parsing and printing of the command line are left out;
its commands are those of the use cases.

Left out inside modelled parts: an entry's fields beyond those named above; the manifest of a
bundle beyond what an import reads; a rule's category selector, the posture report, and the
e-mail domain check of `OidcClaimMapper`; the window's health and icon workers and its audit
views; `ShareSecretDialog` (`share_dialog.py:34`), which nothing opens; settings that only
change looks.

# BENCpass in TLA+

A verification development kept beside BENCpass, the password manager whose
machines share one encrypted vault through a sync server that cannot read it.
Paths below are relative to the repository root: `src/core/sync.js`,
`server/store.go`.

## 1. The system

| component | code | state | operations |
|---|---|---|---|
| three-way merge | `src/core/merge.js` | none (pure) | `merge`, `confirmPushed` |
| sync engine | `src/core/sync.js` | sync state `{seq, highestSeq, syncedRev}`, the client's preferred address | `syncOnce` and its helpers, `syncHeader`, `joinVault`, the signed requests |
| vault | `src/core/vault.js` | header, envelopes, parked queue, fork marks, pending header, key and plaintexts while unlocked | records (add, update, touch, remove), conflicts (`park`, `resolveParked`, `supersede`, `applyEnvelopes`), unlock and lock, wrappings, import |
| background page | `src/ext/background.js` | the vault and sync state in memory, settings, sessions, captures, timers | boot, setup, join, unlock, lock, sync, fill, capture, devices, settings |
| server store | `server/store.go` | sequence, header, records, devices, codes, mints; one file and its snapshots | `Since`, `Put`, `Meta`, `PutMeta`, `Redeem`, `NewCodeFor`, `Forget`, `Rename`, `OpenStore` |
| server handlers | `server/main.go`, `auth.go`, `replay.go` | spent nonces | one handler per route, `auth` around most |
| pages and content scripts | `src/ext/*.js`, `src/ui/manager.js` | what is on screen; the boxes of a page, their roles, the menu, what was typed and filled | messages to the background page |
| form recognition, generator, transfer | `src/core/fields.js`, `address.js`, `match.js`, `generate.js`, `transfer.js` | none | pure functions |
| rescue tool, native host, tools | `rescue/`, `hosts/`, `tools/` | files | offline and sequential |

How they interact.  A page sends the background page a message; the handler
calls the vault and writes the vault, or the settings with the sync state, to
`storage.local` as a whole.  Every five minutes, or when asked, the background
page runs `syncOnce`: it reads the header, pulls what changed since its last
sequence, merges, applies, pushes under compare-and-swap (`If-Match`), reads the
push back and only then advances its ancestor map.  It does this on a locked
vault too.  The server runs every store method under one mutex and saves the
whole file after each write.

What is hard.  A sync waits for the network four times or more, and between two
waits the person may edit or lock, other machines write, messages are lost, the
browser dies and other handlers save the half-advanced state.  On the server a
write changes memory before a save that may fail.  The full list, each at its
line, is `hazards` in `PROJECT.json`.

What makes each component correct.

* Merge: an edit is never dropped unseen, a deletion is final, a server going
  backwards is noticed, an agreed record is not pushed again.
* Sync and vault: invariants A to E of `test/model.test.js` — no silent loss, no
  live regression, convergence, deletions stick, what is parked is retrievable —
  and: an honest server is never refused, and the ancestor map vouches only for
  what the server holds.
* Store: what a 200 acknowledged survives, records only move forward, deltas
  are complete, no write replaces what its author has not seen.
* Header: an old password never comes back, a header is replaced by a newer one
  only and another machine can adopt it, a vault is never overwritten by another,
  a fingerprint stays on its machine, a recovery code somebody keeps opens.
* Enrolment: a code gives one device, a request handled late or twice gives
  nothing new, a revoked device stays out, a granted one stays in, and somebody
  can always sign.
* Background page: no password anybody relies on is lost; one typed or made for a
  site goes to no other; a lock leaves no plaintext behind.
* Content script: a password is filled into the box it was asked for, what was
  filled is not offered back, one menu is on screen, and what is drawn follows
  the lock and the offers of the background page.

## 2. The modules

| module | what it is |
|---|---|
| `Merge` | `merge.js`: the outcome of one record's merge as a function of local envelope, remote envelope and ancestor; the map-wide function; `confirmPushed` |
| `StoreOps` | the record operations of `store.go` as functions of a stored value, shared by the next two |
| `Store` | the server alone: memory, file, devices that read deltas and write under compare-and-swap, failed saves, failed snapshots, restarts, the test outside the lock |
| `Ledger` | what the server promises of its file, abstractly; `Store` implements it with `book <- disk` |
| `Sync` | several machines with their vaults, the sync in flight on each, their storage, and the server between them |
| `SyncProps` | the types and properties of `Sync` |
| `Enrol` | the server's codes, mints, devices and nonces, its start and stop, the machines that hold the keys, and the signed requests on their way |
| `Header` | the header of the vault on several machines and on the server: setup, join, password change, recovery sheet, fingerprint, publication and adoption |
| `Page` | the background page of one machine at the grain of its awaits: menus, fills, generated passwords, offers, editor, import, pull, unlock and lock on one vault |
| `Tab` | the content script of one tab, its menu and its toast, what the background page keeps for them, and the messages on their way between the two |
| `MCStore`, `MCSync`, `MCEnrol`, `MCHeader`, `MCPage`, `MCTab` | small instances for TLC: model values and symmetry |
| `StoreProofs`, `EnrolProofs`, `HeaderProofs`, `PageProofs`, `TabProofs`, `SyncProofs` | theorems about the module of that name and their proofs |
| `LineageProofs` | on top of `SyncProofs`: which machine alone has a plaintext, and that no record reverts |
| `LossProofs` | on top of `LineageProofs`: what machines and server may rely on each other to have, and that nothing is lost |

The modules meet where one fixes what another lets move.  `Sync` has one header
and atomic edits, `Header` reduces records to the key they are sealed under,
`Page` reduces the server to a pull that brings one changed record, `Tab` reduces
the vault to one entry, `Enrol` knows only who may send, `Store` what becomes of it.

### Correspondence: `Sync`

An envelope is `[rev, deleted, body, seal]`.  `body` is the plaintext (a number;
0 in a tombstone); `seal` stands for the nonce and ciphertext, fresh at every
`sealRecord`, so equal seals mean equal bytes.  Merge compares seals and never
looks at bodies; `resolveParked` compares bodies, as `sameContent` does.

| variable | code |
|---|---|
| `srv` | `Store.d`: sequence, records, and the sequence each was written at |
| `vault[m]` | `envelopes`, `parked`, `forkedMarks`, whether there is a key; `past` is a ghost: which bodies this machine's list has moved past |
| `state[m]` | the `syncState` object of `background.js`, mutated by `syncOnce` as it goes |
| `disk[m]` | the two keys of `storage.local` |
| `pc[m]`, `job[m]` | where `syncOnce` waits, and the batch it is pushing |
| `minted`, `fresh`, `owed` | ids and nonces never repeat; `owed` is a ghost: bodies written and neither replaced nor deleted by a user |

One action is everything a client does between the reply to one request and the
sending of the next.  `Pull` is what follows a delta, be it the first, the one
after a 409 or the full one after a 422: rollback guards, merge, then one of four
branches.  `PullRefused` is a guard firing, `PullLockedConflict` is
`refuseLockedConflict`, `PullLocked` and `PullUnlocked` contain
`applyEnvelopes`, `settleConflicts` with its superseding and forking, and the new
sync state.  `PushAccepted`, `PushRetried`, `PushGivenUp`, `VerifyRefused`,
`VerifyConfirmed`, `SaveVault`, `SaveState` are the rest of `syncOnce` and
`handleSync`; `Add`, `Edit`, `Touch`, `Delete`, `Unlock` are the person; `Lock`,
`LoseRequest`, `LoseAck`, `Crash`, `SettingsWrite` and `Restore` the
disturbances.  `GiveUp` is `handleSync`'s catch: the vault is saved, the sync
state is not, and what `syncOnce` had already changed in memory stays changed.

`ops` and `faults` count and name the operations and disturbances so far.  They
bound the runs, and properties read them to say what they do not cover.

`\E out \in {Merged(m)}` is a LET that TLC evaluates once; it chooses nothing.

`Init` has record 1 on the server; any non-empty set of machines has joined and
synced, the others are blank and will pull it.

A handler that the server completes atomically is taken at the moment the server
answers: the reading of a delta and its merge are one step.  A write by another
machine between the two would be noticed by the push's `If-Match`; a read-only
sync that a reply is delayed for is the same as one that ran earlier.

### Correspondence: `Store`

`mem` is `Store.d`, `disk` is `store.json`.  `view[c]` and `head[c]` are what a
device was last served, `gate[c]` that its request without `If-Match` has passed
the handler's test of an empty store and is yet to take the lock, `acked` is a
ghost: the last content answered with a 200.  `lapsed` is another: a restart has
forgotten a write whose save failed, or a write without `If-Match` has landed on
a store no longer empty.  A write has three endings: saved
and acknowledged; not saved (500, memory stays ahead of the file); saved with a
failed snapshot (500, though durable).  `Restart` reads the file back.

### Correspondence: `Enrol`

| variable | code |
|---|---|
| `mem`, `disk` | `Store.d` and `store.json`: devices, codes with their expiry, `Mints` |
| `up`, `seen`, `running` | the process; `seen.when` of `replay.go`; requests that `auth` let through and whose handler has not taken the lock yet |
| `sentinel` | the file `bootstrap-code` |
| `code`, `reqs` | codes somebody has been shown; every signed request ever sent, by nonce |
| `cred[m]`, `call[m]` | `settings.deviceId` and its key; what the machine is waiting for |
| `log` | a ghost: what was bought with which code, granted, asked for, removed, lost |

`Authenticate` and the handlers (`MintCode`, `ForgetDevice`, `RenameDevice`) are
separate steps, since they take the store's lock separately.  A request stays in
`reqs`: it may arrive again at any time.  `Thrown` is `#reach` going to its next
address with a new nonce.  `BootEmpty`, `BootFatal`, `BootPlain` and `BootAsked`
are the four ways `main` comes up; `Rescue` is the rescue tool on a stopped
server's file.  A request let through is handled within its tick of the clock.

### Correspondence: `Header`

A header is `[key, gen, salt, rec, bio, proof]`.  Every password wrapping draws a
new salt, which therefore stands for the password; `rec` is the recovery code that
is wrapped in, `bio` whether there is a fingerprint wrapping, and `proof` what the
proof was computed over and under which key.  A vault is its header, the one
parked by `stashHeader` (`pending`) and the keys its records are sealed under.

A handler of a page (`StartX`, `FinishX`) is two steps around its key derivation;
`job[m][p]` is what it read before.  `Persist` puts a write on its way, `Flush`
lands it, `Crash` drops it.  `ReadHeader` is `syncHeader` at its reply, `Publish`
its `putMeta`; `MoveRecords` and `FailRecords` are the rest of the sync.
`RefuseDiverged` is its refusal of two headers of one generation.  `Backup` and
`Restore` replace the server's file by an older one.

`log.late` names the machines on which a handler finished on another header than
the one it started from.  Nothing in the code prevents that: `handleSetup`,
`handleJoin`, `#rewrapPassword` and `#adoptPendingHeader` test, wait for Argon2
and write.  Properties say what holds as long as it has not happened.

### Correspondence: `Page`

| variable | code |
|---|---|
| `env`, `plain`, `locked` | `Vault.envelopes`, `Vault.#plain`, whether there is a key |
| `disk` | the vault in `storage.local` |
| `tasks` | every handler that awaits: a seal, the opening of what was pulled, an unlock, the page's answer, or its turn to write to storage, with the values it read before |
| `menu`, `offer`, `never`, `form` | `sessions`, `pendingCaptures`, `settings.neverSites`, the manager's editor with its draft |
| `log` | a ghost: `home`, the sites each password was typed, made or filed for; `given`, those it came to with an entry whose sites were widened behind it; which passwords are owed to somebody; and which overlaps have happened |

One action starts a handler (`Choose`, `Generate`, `Submit`, `Save`, `SaveForm`,
`Delete`, `Import`, `SyncPull`, `StartUnlock`); `LandWrite`, `LandRotation`,
`LandSync`, `FinishUnlock` are what it does after its await, `Stored` and
`StoreFails` what follows its write to storage, in the order the writes were
made.  `LandSync` reproduces `applyEnvelopes`: it goes through the list it pulled
while others write, and then installs its maps.

Pages are not state, so a form may be met or sent on any site at any time: more
than `offerCapture` lets through, which leaves out what the extension has just
filled. A fill is the exception. `Choose`, `Generate` and `ChooseActive` check a
site (`site`), and keep of it a tab and a frame, which are numbers, across their
await. What matters then is the document the frame holds when the password
comes, and `there` is its site: as checked at first, another after `Leave`, none
after `CloseTab`. Neither the handler nor `fill` in `content.js` looks at it. A
menu's choice and a generated password are sent once storage has been written
(`Stored`; a fill also when that fails); `ChooseActive` sends to the page first,
and `Answered` is the page filling its form, or nobody being there.

### Correspondence: `Tab`

| variable | code |
|---|---|
| `doc`, `page`, `val` | the document of the tab and its site; its boxes in order; what is in them |
| `fields`, `groups`, `due` | `content.js`'s variables of that name, and `rescanTimer` |
| `active`, `anchor`, `bound`, `frames`, `shown`, `painted` | `activeGroup`; `anchorEl` with `menuKind`; the click handler each box was given; the iframes with the menu's id; `menuSession`; `locked` |
| `toast`, `last`, `filled` | the toast's notice, `lastSubmitted`, `lastFilled` |
| `locked`, `sessions`, `offer` | of `background.js`: the vault's lock, `sessions`, the tab's entry in `pendingCaptures` |
| `picks`, `saving`, `opening`, `casts` | handlers that wait: for storage before they fill or save, between an unlock and its announcement, for the list of tabs |
| `up`, `down` | messages to the background page and to the document, each delivered in order |
| `log` | a ghost: where stored passwords were put, and what had happened by then |

A box keeps what it asks for; its index is its place among the boxes described
last, and a role is an index, as in `describeIndices`.  `Scan`, `Describe` and
`TakeGroups` are `scan` around its await; `Request`, `Candidates` and `DrawMenu`
are `openMenu`; `Pick`, `SendFill` and `TakeStored` are a choice, `handleChoose`
after its write, and `fill`.  `Redraw` is whatever the page does to its own boxes.
What is on its way to a document is lost when the document is left; what a
document sent still arrives, and an answer goes to the tab.

## 3. The runs

The runs of `Sync`, `Store` and `Page` check deadlock: the bounds never stop a
machine, which can always start another sync, nor a device, which can always
read, nor a browser, which can always die.  In `Enrol` and `Header` the nonces,
codes and salts run out, and the clock stops; in `Tab` the person and the page
have only so many acts.

| run | instance | properties |
|---|---|---|
| `sync_faults` | two machines, two edits or deletions, any two of: a lock, a lost request, a lost acknowledgement, a crash, a settings save mid-sync, a restored server | `NothingLostUnlocked` (A), `NoRevertUndisturbed` (B), `DeletionsStick` (D), `ParkedKept` (E), `NoSpuriousRefusal` (F), `NothingPushedTwice`, `NoFalseAgreement`, `AgreementLasts` (C, its safety half) |
| `sync_converges` | two adds, edits, fills or deletions, a lock or a lost request, under fairness | `Convergence` (C) |
| `store` | two devices, one of which may omit `If-Match`, a record and a header, failed saves and snapshots, restarts | `AckedDurable`, `FileIsLedger`, `CaughtUp`, `CompareAndSwapHolds`, types |
| `enrol` | two machines, device ids and codes, one request, three ticks; failed saves and snapshots, restarts, a reinstalled machine, the rescue tool, a bootstrap request | `CodeBuysOne`, `OneCodePerRequest`, `HonouredOnce`, `RevokedStaysOut`, `EnrolledDurable`, `StillReachable`, `BootstrapOnce`, types |
| `header` | two machines of two pages each, three password wrappings, a recovery code, two vaults, three handlers or crashes or backups | `OldPasswordStaysOut`, `PublishedOutranks`, `PublishedAdoptable`, `VaultStays`, `ToldCodeOpens`, `FingerprintStaysHome`, `JoinKeepsUp`, types |
| `page` | one machine, two sites, two records, three passwords, two handlers at once, three handlers started in all (fills from a menu, tabs that go elsewhere, and the steps after an await are not counted) | `KeptOnDisk`, `StaysHome`, `LockedIsBlank`, `MapsAgree`, `OneProvisional`, types |
| `tab` | one tab, up to two documents on two sites, a log-in form of two boxes and a box for a new password, in three layouts; three acts of the person or the page | `FilledWhereAsked`, `OneMenu`, `ScreenIsTrue`, types |

The letters are those of `test/model.test.js`, whose machines sync one at a time
and whole; here requests interleave.

Violation runs, each a disagreement between the code and what the repository
says of it (`findings` in `PROJECT.json` quotes both):

| run | what happens |
|---|---|
| `sync_lock_loses_edit` | A locally edited record; the other machine deleted it.  A locked sync parks the edit and stops.  The unlock marks it as handled and drops it, since the live record still shows the same content.  The next sync lets the tombstone win; `park` refuses the edit because of its mark.  The edit is nowhere. |
| `sync_touch_reverts` | A fill on a machine that has not pulled re-seals the old password at the next revision.  It is now a rival edit; the local side wins, is superseded above the new password, and the other machine fast-forwards back. |
| `sync_wedged` | A handler saves the settings, and with them the state a sync in flight has advanced; a crash pairs it with the old vault.  A record then stands one revision below its ancestor: every sync pushes it, is answered 422, pulls everything, reads "only we moved", and pushes it again. |
| `tab_stale_fill` | The menu is open on a log-in form; the page drops a box, `scan` replaces `fields`; `fill` looks `activeGroup`'s old index up in the new list and puts the stored password into the box for a new one. |
| `page_fill_strays` | A password is picked from a menu; while `handleChoose` seals and saves the vault, the tab goes to another site; the password is put into the form there. |

### What the conditional properties leave out, and why

A property that the code keeps only until something happens says so by name, and
a run without the exception would find the counterexample.  Where an exception is
the very case of a hazard, the hazard's note in `PROJECT.json` says so and names
the property without it, if there is one:

* `NothingLostUnlocked`, not after a **lock** or a **crash** (a browser starts
  locked): `sync_lock_loses_edit`.  Not after a **restored** server: its
  sequence counts up again through numbers already seen, so a push can pass the
  compare-and-swap over another machine's edit that its author was never served.
* `NoRevertUndisturbed`, not after a **fill**: `sync_touch_reverts`.  Not after a
  **lost request**, a **lost acknowledgement** or a **crash**: the push was
  applied and the ancestor stays behind.  Merge's case for a remote that was
  built on our own lost push (`merge.js:184`) requires that there be no ancestor
  at all; with an older one, the local copy that the other machine has already
  built upon counts as a rival edit, wins, and is superseded above the newer body.
  Not after a **restored** server: a push is accepted, another machine builds on it,
  the server is put back before the author has read its batch again, and the
  author's later edit wins two conflicts in a row, superseded each time, above a
  machine that had moved past it.  That takes four edits on three machines, more
  than the runs allow, and was found while the proof was being prepared.
* `NothingPushedTwice`, not after a **restored** server, a delta of which may leave
  out a record it does hold, nor for a machine *half saved* (below): an
  acknowledgement is lost, the next sync pulls the record back and remembers it, a
  settings save and a crash pair that memory with a vault that had not got it, and
  the machine pushes what the server has.  That takes five disturbances, more than
  the runs allow, and was found when the proof failed.
* `NoSpuriousRefusal` and `NoFalseAgreement`, not after a **restored** server,
  which is not an honest one, nor for a machine *half saved*: a **settings save**
  mid-sync **and a crash**.  The state on disk is then ahead of the vault beside
  it, and a later local edit can reach exactly the ancestor's revision with other
  bytes, which merge takes for agreement.
* `CaughtUp` and `CompareAndSwapHolds`, until `lapsed`: a save fails after memory
  moved, a device reads that sequence, the restart takes it back and gives it to
  other content, and the device's compare-and-swap then passes; or two writes
  without `If-Match` pass the empty-store test together.  The
  extension always publishes a header first and sends `If-Match` ever after, so
  the second is the server's rule alone.

* `RevokedStaysOut`, not for a device whose removal failed to save
  (`log.undone`): `Forget` has changed memory, answers 500, and its retry finds
  the device gone and answers 200; the restart brings it back.  The same window
  lets `Redeem`'s code come back, against the comment above it ("deleted whether
  or not the save succeeds"): it buys another device then, never two that are
  both in force (`CodeBuysOne`).
* `StillReachable`, not after a machine has lost its key, the rescue tool was
  used or a removal half failed: an orphaned device counts as "not the last".
* `OldPasswordStaysOut`, `VaultStays` and `ToldCodeOpens`, not on a machine where
  a handler landed `late`.  Two password changes, or an adoption and a change, at
  once leave whichever writes last; two setups both pass `vaultOnDisk`.
* `VaultStays`, not when the vault holds a record of another vault.  A locked
  vault takes records it cannot open, and `#adoptPendingHeader`'s test that *some*
  record opens under the new key is then met by that one.
* `PublishedAdoptable`: a recovery code replaced after a password change that is
  not published yet makes a header whose proof no longer covers it, and which
  no other machine can ever adopt.
* `ToldCodeOpens`: adopting another machine's header brings that machine's
  recovery code, silently in place of the one acknowledged here.
* `PublishedOutranks` and `JoinKeepsUp`, not over a restored server (the second
  only once it is written to again, and then for good: putting the server back
  once more does not undo what was handed out meanwhile).
* `KeptOnDisk`, not for a password a write that overlapped another dropped
  (`gone`): both take revision and body from before their seal and the last one
  stays, and a sync that lands over a write overwrites it; a fill or an edit made
  afterwards from the record still on screen then drops what was saved a second
  time, in order, without any overlap of its own.  Nor after an unlock
  that overlapped a sync (`late`), whose stale plaintext is written back by the
  next edit.  `MapsAgree` leaves out `late` and the records a sync tore.
* `LockedIsBlank`, not when a write was waiting for its seal as the vault locked
  (`under`): it lands all the same, and puts its plaintext into a locked vault.
* `StaysHome`, not when the document a password was asked for was left before it
  came: `page_fill_strays` (`ReceiverMatches` is the same claim of a menu's
  fill, without the exception).  `handleGenerate`, the context menu and the
  popup's fill await between check and use just the same.  Nor on a site the
  password came to by being written to an entry of more than the form's site
  (`given`).  With `home` alone TLC finds, in five jobs: a password is typed on a
  site with a half-made entry and offered for it, the editor gives that entry a
  second site, the offer is taken, and the password is filled there.  A half-made
  entry that the editor widened takes what is typed or made at any one of its
  sites to all of them, though `handleCapture` says of it that it is "made with
  exactly one URL".  What somebody files in the editor counts as home: there the
  sites are on screen beside the password.
* `OneProvisional`, not for a site two handlers generated for at once, nor for one
  the editor moved a half-made entry to (`twice`).
* `FilledWhereAsked`, not once the boxes were described otherwise, another menu
  was asked for or the document was left between the menu and the answer:
  `tab_stale_fill`.  A stored password sent after the tab went elsewhere reaches
  the new document, whichever that is: `page_fill_strays`.
* `OneMenu`, not when two menus are asked for before the first is drawn
  (`twice`): two iframes of one id are then in the document, the keys go to the
  second, and `closeMenu` removes the first.
* `ScreenIsTrue` speaks of moments when nothing is on its way.

Met on the way, without a property of their own: a machine whose password change
lost to another's ('header-diverged') can never adopt the winner's header, which
has no higher generation, and every later sync of it stops there; a fingerprint
wrapping made while the header is replaced is lost with the old object; the
request a device sent before it was revoked may still be handled, and mint;
`handleSave` clears a newer offer of the same tab along with the one it saved; on a
page with nothing but a box for a new password, the keyboard command opens the menu
there as a log-in menu, with the stored entries in it (`content.js:850`, against
`background.js:411`: "a new-password box is offered a generated password and
nothing else").

`AgreementLasts`, `DeletionsStick`, `ParkedKept`, `AckedDurable`, `FileIsLedger`,
`CodeBuysOne`, `OneCodePerRequest`, `HonouredOnce`, `EnrolledDurable`,
`BootstrapOnce` and `FingerprintStaysHome` hold without exceptions (a crash itself
goes back to the disk and is not a step `AgreementLasts`, `DeletionsStick` and
`ParkedKept` speak of).

### Bounds

* Two machines are enough for every tie, retry and conflict of `merge`, which
  compares one local with one remote side.
* `MaxOps` and `MaxFaults` are two (one disturbance for convergence), enough for a conflict and for harm that needs a
  partner (a settings save and a crash; an acknowledgement lost twice); each may
  strike at any point.  Three operations, which can conflict over a record already
  forked or superseded, with one disturbance of any kind pass as well.
* `MaxIds` = 4: record 1 and three adds or forks.  It never binds: in every
  passing configuration the parked envelopes to fork fit into the ids left.
* `store`: `MaxSeq` = 2 is a write that a restart may take back and one made from
  it; numbers start again at the one that was taken back.  `MaxRev` = 2 tells
  "below", "equal" and "above".
* `enrol`: two of everything that two parties can contend for; the one nonce is a
  request that is delivered again and again, beside enrolments, which carry none.
  `MaxTime` = 2 with a window of one tick on either side and codes of two lets a
  request be sent with a wrong clock, outlive the memory of its nonce and meet its
  code expired.  Only `Skew + Future <= CodeTTL` matters of the real times.
* `header`: three salts are two rival changes from one header, or a change and a
  vault of another machine; `MaxSeq` = 2 is a header and its replacement.
  `MaxJobs` counts handlers, crashes and backups; syncs and writes are free.
* `page`: two records are an entry and a half-made one.  Three passwords are the
  old, the generated and the typed one.  Two waiting handlers are the least that
  overlap; three jobs, with fills, pulls of storage and locks free, are one before
  and one after an overlap.  The vault starts empty, with an entry of one site, or
  with one of two.  The cap of twenty on a password history is out of reach.
* `tab`: the three layouts let a box disappear before another and a page hold
  nothing but a new password; an act is what the person or the page does (a
  message, an answer, a closed menu is none), and three are a menu, a change of
  the page and a choice, in any order.  A second document is enough for whatever
  arrives late.
* Machines are interchangeable (any of them may be the one that has joined), and
  so are devices of a kind, records, and headers.  Symmetry is not used where
  liveness is checked.
* Only a restart reads a machine's storage.  In `sync_faults`, states that differ in
  storage alone are one as soon as there are no faults left (`VIEW Readable`): what
  may follow them is the same, and no property of the run reads storage.

### Fairness

`Convergence` assumes that on each machine a sync goes on and another starts
(`scheduleSync`'s interval, and promises that settle), and that a locked vault is
eventually unlocked (the person returns: a conflict met while locked waits for
the key by design).  Nothing is assumed of users or of disturbances, which the
bounds end.  `Store`, `Enrol`, `Header`, `Page` and `Tab` state no fairness: everything
said of them is safety, and what they wait for is a person or a network.

## 4. The proofs

`StoreProofs`, `SyncProofs`, `LineageProofs`, `LossProofs`, `EnrolProofs`,
`HeaderProofs`, `PageProofs` and `TabProofs` are checked by TLAPS with no step left open, for any sets of devices,
machines, pages, layouts, boxes, sites, tabs, records, passwords, headers, codes and requests, any
bounds, and every mixture of faults.  They assume of the constants what the
modules' ASSUMEs say: that `None` is no value of a kind it stands beside, that
bounds are numbers, and one with content: `ClockAssumption`, that a code lives as
long as a signed request can be presented.

`StoreProofs`.  `AcknowledgedIsDurable` and `FileImplementsLedger` rest on one
inductive invariant, `Durability`: types, the acknowledged content is followed
by the file's, and memory is `Ahead` of the file — its sequence is no smaller and,
record by record, it follows it.  `Ahead` is what makes a late save safe:
whatever failed saves piled up in memory, writing it next is a step forward for
the file, by the transitivity of `Follows`.

`DeltasCatchUp` and `NothingOverwrittenBlind` rest on `Unlapsed`: as long as
`lapsed` is false, `InStep` holds.  `CaughtUp` alone is not inductive; it needs
that no record is stamped above the sequence (`Stamped`), or a new write could
be stamped no higher than what a device has read, and that a header answered at
the present sequence is the present header (`HeadCurrent`).  A lemma per kind of
write shows that it is then sighted; `LapsedForGood` says a lapse is never
undone.

`SyncProofs`.  `TypeCorrect` is by induction over every action, and stands in for the
type invariant the other runs check.
`DeletionsAreFinal` needs that a fork can never land on a tombstone, hence the
invariant `Unminted`: ids above `minted` hold no envelope on the server, in a
vault, in a vault on disk or in a batch in flight.  From it, one lemma about
`MergeOne` (a merge at a tombstone yields a tombstone, whatever is served) and
one per action give the property under all disturbances.  `ParkedIsKept` needs
the same invariant the other way round: a fork must not land on the very record
whose content made another fork unnecessary.

The second half of `SyncProofs` is about agreement.  Everything a sync decides is read off one number for the
server and one per record.  `Coherent` says what they are worth:

* a record's ancestor is no newer than the server's envelope or the machine's own,
  and of a record written before the sequence read up to, the machine holds the
  server's very envelope, and remembers so, or one that outranks it (`Stands`);
* what is about to be pushed is not what the server holds, and outranks what its
  author had read (`Outgoing`); what was accepted is still there, or has been
  outranked since, and nothing came in between (`Accepted`); an author still has
  what it sends, or something newer (`SentFrom`);
* a seal belongs to one envelope (`Seals`), and what two machines both hold, the
  server holds or has moved on from (`Shared`) — without which a machine could be
  about to push what another has just pushed;
* the vault in storage stands as well to the sync state in storage (`OnDisk`), but
  only as long as no settings have been saved mid-sync.

The invariant is `Agreement`: `Coherent`, unless the server was put back or a
machine was half saved.  A step of a machine is one of five kinds: it edits what it
shows and leaves the server alone, or pulls, or lands a push, or confirms one, or
writes or reads storage.  For a pull, `MergeOfLevel` goes through the outcomes of
`MergeOne` once, for a machine whose memory can be relied on.  `NothingPushedTwice`,
`NoSpuriousRefusal` and `NoFalseAgreement` each follow from it in a few lines.  That
a 422 never comes is part of it: the full pull after one (`pull422`) is code no
honest, undisturbed server makes a machine run.

`AgreementIsStable`, last in `SyncProofs`, is the half of convergence that is safety:
once all machines and the server hold the same and nothing is parked, only a person,
a crash or a server put back ends it.  A pull cannot: a record merged with itself is
in sync whatever the ancestor says.  A push could, if its batch had been overtaken by
an edit and the server agreed with the edit.  `InTransit` says that it cannot: while a
machine is sending a record, it still shows what it sends, or shows what it has sealed
since and nobody else has.  That needs nothing of what is remembered of the server, so it
holds after a restored server and on a machine half saved too, where `Coherent` does
not.  TLC checked `InTransit` on all four operations and any two faults (6,206,309
states).

`LineageProofs`.  `NoRevertUndisturbed` cannot be had from revisions: a merge may keep
the older body and seal it above the newer.  What decides is whether anybody else has
the body.  The invariant is `Forward`, a statement about one record as all the
machines and the server have it (`View`), in three parts for each machine:

* what it shows is known to be the server's, or is being confirmed, or is its alone —
  not on the server, and never shown or sent by any other machine (`Placed`, `Apart`);
* what it sends is its alone until it lands, and what it shows meanwhile is that or
  something newer with another body (`Sending`);
* it does not show what it has moved past; if the server still has that, then below
  what the machine shows; and a body on both sides is in one envelope (`Straight`).

A conflict that the machine wins is then always won by a body of its alone, so nobody
is taken back to it; and what it takes from the server is, by `Straight`, nothing it
had moved past, since the server's is not below what it shows.  What a step does to a
record is one of six things (`Steady`, `Authored`, `Forked`, `Took`, `Landing`,
`Confirming`), one lemma each, over views rather than over the state; the rest of the module shows that each action does one of them to each
record.  `AgreementInvariant` supplies what the merge may rely on.

`LossProofs`.  That every plaintext is still somewhere says too little to be
inductive: a merge drops the local body because the server has one, and a push
drops the server's because its author has taken that up, and each is right only if
the other side has what it was relied on for.  `Safekeeping` follows one record at a
time (`Sight`), and says for each machine:

* of the plaintexts to be looked after, what the server has and the machine has
  read, it shows; what it shows under the revision it was told the server has, the
  server has; what it sends it shows, and the server has it once it landed; and what
  the machine is about to write over, its envelope carries (`Backed`);
* an envelope the machine has parked and forked never meets it again (`Marked`) —
  or a second conflict with it would be dropped for its mark, and its body with it.

To be looked after is what is owed and not `Safe`.  A body is safe when a record
carries it wherever that record is (`Whole`): a fresh fork, until somebody edits it.
Without that, the body two machines both fork would seem lost to the second.  A step
does to a record what one of six relations says (`Waits`, `Pens`, `Sprouts`,
`Settles`, `Lands`, `Learns`), with one lemma each for `Guarded`; the rest of the
module shows that each action does one of them to each record and that what is shown
is still shown somewhere.  It leans on `AgreementInvariant` for revisions and
on `Unminted` for forks.  TLC checked `Entrusted` on two machines with two edits and two
faults before it was proved.

`EnrolProofs`.  The many actions are first reduced to the few things they do to
keys (`KeyStep`: `Tame`, `Drops`, `Buys`, `Reloads`, `Rescues`, `Loses`, one lemma
per action), so that each property is proved over six kinds of step.
`OneDevicePerCode`, `RevocationHolds`, `EnrolmentDurable` and `NeverLockedOut`
share `KeyInv`.  For the first, what is inductive is that a code live in memory has
bought no device that memory or the file holds or that was granted, that a code
live in the file has bought none that the file holds or that was granted (`Once`),
and that a code nobody has drawn is in neither (`Fresh`); a failed save leaves a
device in memory alone, and the restart that brings its code back takes it away
again.  For `NeverLockedOut`, every device is held by a machine or lost
(`Holders`), and no removal empties the list (`NotEmpty`).  `RequestHonouredOnce`
rests on `NonceInv`: a nonce was recorded no earlier than its timestamp less
`Future`, so once it is forgotten the window is closed.  `OneBootstrapCode`
counts: printed codes plus the file that is still there are no more than the
requests made.  `RequestBuysOneCode` rests on `MintInv`: as long as a request is
inside its window, it is remembered what it was answered with, in memory and in
the file, since a mint lives as long as its request can be presented; and where the
two differ because a save failed, this process has seen the request and will not
handle it again.

`HeaderProofs`.  Three invariants.  `ServerInv` is about numbers: while the server
is whole, a header on its way to it outranks what it holds at that sequence, its
copies are older, and nobody has seen more than it holds; until it is written to
after a restore, nobody's floor is above what it would serve (`KeepsUp`).
`HeaderInv` is about contents: wherever a header may be — server, copy, memory,
storage, a write, a handler, a sync — its proof fits it up to its recovery wrapping,
and a fingerprint is only where it was made.  `LocalInv` is about time: there is one
table that says which vault and generation each salt was drawn for, memory is in
step with the last write, and a machine on which nothing landed late is past every
password it has retired (`MovedOn`).  The table is what makes it inductive: two
headers of one generation are told apart by their salt alone, so "older" cannot be
said of headers without it.

`PageProofs`.  `EveryStep` reduces some thirty actions to a few kinds of step on
maps and waiting handlers (a write starts, an envelope lands, a pull is taken,
storage is written).  `BlankInv`: a locked vault has no seal under way, unless one
was when it locked.  `MapsAgree` is inductive as it stands.  `HomeInv`: every body,
shown, sealed, stored or on its way, stands only for sites its password was filed
for or given to, and a handler that waits to fill has checked one of those.
`StaysHome` speaks of the step that fills, and follows from the handler's part.
`KeptInv` is a chain: storage, the writes that wait for it in their order, and the
envelopes, each holding the passwords of the one before it but for what was dropped;
and a sealed write holds no less than what it is written over.

`HalfInv`, for `OneProvisional`.  The envelopes alone do not tell whether there will
be one half-made entry or two: a write that waits for its seal was made from an
earlier record, and so were the maps that wait to be stored, one of which a crash
brings back.  So the spots where a site's entry may turn up are counted together
(`Spot`): ids that hold one, and ids for which a write made from what the record is
now will put one; there is one such id at most (`OneSpot`), and at most one in every
map stored or waiting (`Alone`).  A write that was overtaken does not count, for
revisions only rise and an overtaken one stays so (`Overtaken`); a write that makes
one where there is none is a generate for that site (`Makes`).  TLC checked it on the
instance of `page` to the end (2,429,882 states) and on random behaviours with more
ids, passwords, handlers and jobs before it was proved.

`TabProofs`.  What makes a tab hard is what is on its way: the two queues, the
frames, the handlers that wait.  All four invariants speak of them in a few words:
`Standing` is the last message of one kind with nothing of another kind behind it,
`Free` is a queue without a kind, `Once` a queue with at most one, and `Moves` the
effect of a step on a queue.  `TypeInv` is types, and that no number anywhere is
above the acts there were: a fresh menu or offer is then told from every older one.
One lemma per property (`MenuAside`, `ScreenAside`, `FillAside`) sets aside the
actions that cannot disturb it; each of the rest has a case of its own.

* `MenuInv`: at most one menu is asked for, answered or on screen at a time, and what
  the keys go to is that one.
* `ScreenInv`: whatever the last lock message in the queue says is the truth, or an
  announcement of the truth is still to come; no menu that disagrees is without a
  lock message behind it; and of what is to become of the toast, the last word is
  the offer that stands, unless a lock is still to be announced.
* `FillInv`: a menu's number stands for one form, that of the box it was asked at;
  a number no menu was opened under has reached nobody (`Unused`), whoever uses the
  last one has a form (`TurnInv`), and the groups are those of the boxes described.

TLC checked all of them before they were proved: exhaustively with three acts
(804,843 states), and on random behaviours of nine.

The proofs changed the models where they were wrong.  `KeptOnDisk` was false with
one handler more than the run allowed (a second drop, in order, of what an
overlap had dropped: `Overlapped`); `OneProvisional` needed its exception for the
editor; `Header.Restore` must not make a rewritten server whole again;
`NothingPushedTwice` had to leave out a machine half saved, and
`NoRevertUndisturbed` a restored server; `ScreenIsTrue` need not except a document
without boxes, as it did for menus.

Only model-checked: `Convergence`, which is liveness and beyond the prover, as are
`ENABLED` and induction over data.  Every other property of the passing runs is a
theorem.
No module declares a recursive operator.

## 5. What is not modelled, and the plan

Left out by abstraction.

* Ciphers, encodings and signatures: a seal is an opaque fresh value, a proof is
  what it covers, a signed request cannot be forged.
* Servers that lie (the runs' server is honest, though it may be restored from an
  old copy).
* In `Sync`: two overlapping syncs of one machine, `handleSyncForget`, the bounds
  of the parked queue, the header (which `Header` has).
* In `Enrol`: a pasted `device-id:key`, `checkProtocol`, the device list and names.
* In `Header`: whether a vault is locked (whoever runs a handler has a secret that
  opens it); the sequence a machine has seen and its floor are stored at once;
  `forgetRecovery`, which nothing calls.
* In `Page`: addresses; hosts, ports and plain http (a site is a registrable
  domain); implausible user names and masked passwords; `resolveParked`; session
  and notice clocks, and ids of notices; titles, dates and use counts, so an import
  row that only changes a date; a draft that comes back after its record was deleted, which is a new entry.
* In `Tab`: addresses; frames within a page; a document the browser keeps and
  brings back; the confirmation boxes of the overlay; the popup's fill of the tab in
  front; which box is taken for which role, which is heuristics over text.

Not modelled: the parsers of `transfer.js`, the heuristics of `fields.js`,
`address.js`, `generate.js` and `listing.js`, which are pure functions over text;
the popup, which shows what the background page answers; the status page; WebAuthn;
the rest of the rescue tool, which reads and exports offline; build tools and
vendored code.

What is done: `Merge`, `StoreOps`, `Sync`; `Store`, `Ledger`; `Enrol`; `Header`
(with setup and join); `Page` (the vault at the grain of its awaits, captures and
import); `Tab`; the proofs of the store, of enrolment, of the header, of the
background page, of a tab, and of the sync's deletions, parked queue, agreement with
the server, reversions and losses.

What is left, in order of importance: two overlapping syncs and `handleSyncForget` on one machine;
`resolveParked` met by a sync and an unlock at once.

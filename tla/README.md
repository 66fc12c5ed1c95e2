# Verification of the offline sync core of payload-expo-tauri

The repository turns a Payload CMS configuration into native, desktop and web
admin clients. What is hard in it is the *local-first* part: every client keeps
its documents in RxDB over SQLite, lets the user edit them offline, and
replicates them with the Payload REST API. This directory models that part in
TLA+, checks it with TLC and proves the central safety properties with TLAPS.

Paths below are relative to `src/payload_universal/packages/` unless they start
with `src/`.

## 1. Inventory

| Part | State it keeps | Operations | Hard behaviour |
|---|---|---|---|
| **Polling replication** `local-db/src/sync/replication.ts` | per collection: RxDB's fork, assumed master state and checkpoint (persisted); a push and a pull handler in progress (not persisted) | pull (documents, then tombstones, then filter and checkpoint), push (DELETE / POST / PATCH, lookup after 400, POST after 404, skip) | pushes interleave with pulls, local writes and other users; lost answers, retries of the same row, eviction and restart in the middle; cursor arithmetic over two streams |
| **Local mutations** `local-db/src/hooks/hooks.ts` | `_locallyModified`, `updatedAt`, `_deleted` of a document | create, update and remove of two hooks, one of which sets the flag | writes land while handlers run |
| **Local database** `local-db/src/database.ts` | open collections, replications, LRU order, lazily opened definitions, calls in flight | `ensureCollection`, eviction, conflict resolution, `patchLocalDoc`, DB6 recovery, destroy, reset | calls interleave at awaits; RxDB's limit on parallel collections |
| **Upload queue** `local-db/src/queue/uploadQueue.ts` | persisted rows, local files, the `processing` flag | enqueue, processQueue, retry, retryAll, remove, clearCompleted | snapshots used after awaits, lost answers, stop of the app |
| **Tombstones** `schema/src/endpoints/syncTombstones.ts` | `_sync_tombstones` | afterDelete hook | stamped before inserted; error swallowed |
| **Payload operations** `src/payload-main/` (vendored) | the server's documents | create, update, delete, find | which operation sets `updatedAt` |
| **WebSocket client** `local-db/src/sync/syncReplication.ts` | checkpoints, connection | handle change event, connect, catch up | re-check and upsert are two awaits; its upserts are local writes for polling |
| **Server sync endpoints** `schema/src/endpoints/sync{Push,Pull,Diff,WebSocket}.ts` | none (database) | three-way merge, diff, broadcast | read-merge-write without a transaction |
| **Provider** `local-db/src/contexts/LocalDBProvider.tsx` | `initRef`, `dbRef`, readiness | init, reset, unmount | effects cancelled in mid-init |
| **SQLite storage** `local-db/src/storage/*.ts` | open write count, closed promise, tables | bulkWrite, query, close, remove; Mango to SQL | exceptions inside a transaction; a pre-filter that must not lose rows |
| **Validated mutations** `local-db/src/hooks/validatedHooks.ts`, `client-validators/` | errors | validate a patch over the current document, then write | validates a document read before an await |
| **Schema and code generation** `schema/`, `admin-schema/`, `admin-core/`, `src/payload_universal/tools/` | none at run time | build configuration and schema maps | none |
| **User interfaces and hosts** `admin-native/`, `src/test_app/apps/*` | view state, IPC | rendering, autosave, workspace tabs | outside the sync core |
| **Reference material** `src/spacedrive-main/`, `src/memory-bank/` | - | - | vendored code, design notes |

### How the parts interact

The hooks write to an RxCollection. RxDB's *upstream* sees that the local state
(the **fork**) differs from the master state it assumes (**meta**) and calls the
push handler with one row (`batchSize: 1`). The handler talks to Payload's REST
API; what it returns decides what RxDB notes in meta. On a `RESYNC` tick RxDB
calls the pull handler, and its *downstream* writes what comes back to fork and
meta, unless the fork holds an unpushed write. Deletions reach clients as
tombstones that a server hook writes. A collection, with its handlers, exists
only while it is open: `ensureCollection` opens it on first use, closing the
least recently used one. The upload queue stores picked files in a collection
of its own and, when a file is stored, patches the referencing document with
`patchLocalDoc`.

### What makes each part correct

* *Replication*: a local write is never lost before the server answered it, a
  pulled document is never sent back, an answered write was stored, every
  pushable write is pushed; the cursor skips nothing.
* *Local database*: every slot is accounted for, every collection stays
  openable and evictable, mounted screens get their collection.
* *WebSocket client*: what an event brings never replaces a protected local edit,
  and a reconnection tells the client what it missed.
* *Provider*: what it shows is an open database, none is left open behind it, and
  unsynced edits are removed only by what is meant to remove them.
* *Push endpoint*: the merge keeps both sides' changes; concurrent requests are no
  worse than requests one after the other.
* *Storage instance*: what is reported written is in the table; `close` ends, and
  nothing is written after it. *Queries* return the documents that match.
* *Upload queue*: no file is deleted before it is stored, no row is stuck, no
  file is sent twice without cause, attempts are bounded.

The hazards, each at its line with the properties that cover it, are in
`PROJECT.json` ("hazards").

## 2. Modules

| Module | Models | Lines |
|---|---|---|
| `DocSync.tla` | one document on one client and the server: hooks, push handler, pull handler, conflict handler, restarts, other users | ~430 |
| `DocSyncProofs.tla` | its inductive invariant, the safety theorems, and that it implements LocalEdits | ~900 |
| `PullCursor.tla` | the cursor of the pull handler over a collection | ~270 |
| `PullCursorProofs.tla` | why a page skips nothing; its safety theorems | ~410 |
| `CollectionSlots.tla` | lazy opening and LRU eviction under the hooks | ~250 |
| `CollectionSlotsProofs.tla` | its inductive invariant and all its safety theorems | ~570 |
| `UploadQueue.tla` | the upload queue | ~290 |
| `FileDelivery.tla` | abstract: what the upload queue promises of a file | ~105 |
| `UploadQueueProofs.tla` | its inductive invariant, all its safety theorems, and that it implements FileDelivery | ~790 |
| `LocalEdits.tla` | abstract: what the client promises about local edits | ~60 |
| `DocSyncWS.tla` | the WebSocket client and the server's broadcasts beside polling, on one document, with another of its collection | ~440 |
| `DocSyncWSProofs.tla` | its inductive invariant and all its safety theorems | ~890 |
| `ClientSession.tla` | the provider, `createLocalDB`, `destroy`, `resetLocalDB` over logins, changes and restarts | ~390 |
| `ClientSessionProofs.tla` | its inductive invariant and all its safety theorems | ~1170 |
| `SyncPush.tla`, `SyncPushProofs.tla` | the push endpoint and its three-way merge; theorems about both | ~190, ~450 |
| `SqliteInstance.tla` | `bulkWrite`, `close` and `remove` of one storage instance | ~180 |
| `MangoToSQL.tla` | the translation of selectors, in SQL's three-valued logic | ~140 |
| `StorageProofs.tla` | the theorems of the storage instance, and when the translation is sound | ~590 |

`SyncPush`, `SqliteInstance` and `MangoToSQL` have no TLC run: they are small, their
theorems hold for every value of the constants, and the runs are kept for the
parts that only a model checker reaches (liveness, and the large
interleavings).
DocSync and PullCursor split the replication along what can be told apart:
DocSync has contents, local writes and the push handler for one document,
because `batchSize: 1` and RxDB's per-document meta make documents independent;
PullCursor has many documents, ties and pages but no local writes, because what
a page delivers does not depend on them.

### DocSync

| In the model | In the code |
|---|---|
| `fork`, `meta` | RxDB's local document and `assumedMasterState` |
| `srv`, `tomb`, `now` | the document in Payload, `deletedAt` of its newest tombstone, the time |
| `push.stage`, `.doc`, `.new`, `.resp`, `.got` | where the push handler is, `row.newDocumentState`, `isNew`, the outstanding answer, `existing` |
| `pull.stage`, `.got`, `cp` | the pull handler between its two fetches, the element it will deliver, the checkpoint |
| `lm`, `del`, `upd`, `valid` | `_locallyModified`, `_deleted`, `updatedAt`, whether the server's validation accepts the content |
| `own`, `owed`, `skipped`, `stored` | history only: whether a local write gave the content, the write not yet answered, the write skipped, all the server has held |
| `LocalCreate`, `LocalUpdate`, `LocalRemove` | `useLocalMutations`, `useLocalDocument`, `patchLocalDoc` |
| `PushServed`, `PushLost` | one `fetch` of the push handler, with the server's side; its loss before or after the server acted |
| `PushRetry`, `PushFallback`, `PushAcked`, `PushSkipped`, `PushConflict` | the branches on the answer, `replication.ts:183-272` |
| `PullTick`, `PullDocs`, `PullTombstones`, `PullNoTombstones`, `PullApply` | the pull handler between its awaits, `replication.ts:70-157` |

Contents are numbers: only equality matters to replication.

### PullCursor

Documents are `(updatedAt, id)` pairs; ids are numbers because the cursor
compares them. `Matching`, `FirstOf`, `Fresh` and `NextCheckpoint` are the query, the
page, the filter (`replication.ts:136-142`) and the checkpoint (144-149). `Write`
gives several documents one millisecond; `PushCreated` is another client's POST,
which keeps its old `updatedAt`; `Delete` stamps a tombstone that
`TombstoneInserted` makes visible or `TombstoneFailed` loses.

### CollectionSlots

`ensuring[s]` is the call in flight for slug `s` and the await it is at: `cancel`,
`close` or `add`. JavaScript runs to completion between awaits, so `CancelDone`,
`CloseDone`, `AddDone` and `AddFailed` are each everything between two awaits of
`database.ts:315-345`. `toNotify` holds the listeners still to be called by a
notification: other steps wait for it, as the calls are synchronous. `rx` is
RxDB's own count of open collections.

Eager collections whose opening failed at start-up (`Init`) are in the LRU order
without being open, as in `database.ts:285`: `ClosedIsReopenable` counts on an
eviction to give them back. In a configuration of at most `OPEN_CAP` collections no
eviction ever comes, and such a collection stays unopenable.

### LocalEdits

Four variables: what the user sees (`shown`), what the user wrote last for as long as that
waits (`wish`), whether it waits for an answer, was refused or is settled, and the contents the
server has held. Only `Write`, the user's step, gives `wish` a content, and a write that waits
can only end as taken (its content is one the server has held, or it is a removal) or as
refused (the user goes on seeing it), both with `shown = wish`, or be replaced by the next
write. What the user sees is refreshed with something the server has held only while nothing
waits. So a pull or a resolution that overwrites a waiting write is no step of LocalEdits.
`DocSync!Content` and `DocSync!EditStatus` map a state of DocSync to it: `shown` is the content
of `fork`, `wish` the content of `owed`. `Promise` is the abstract specification under that
mapping, checked by TLC (`doc_sync`) and proved (section 5).

### DocSyncWS

| In the model | In the code |
|---|---|
| `up`, `asked`, `wire` | the socket, the catch-up request the server is answering, the events on their way |
| `wcp` | `checkpoints[slug]`, in memory only |
| `other`, `OtherDocument` | another document of the collection, whose events move the checkpoint too |
| `tomb`, `graves`, `Tombstone`, `Bury` | the newest tombstone in `_sync_tombstones`; those the hook has stamped and not inserted, which may never come |
| `told`, `skipped` | history: the document's newest change was heard; the catch-up could not tell it |
| `handler[h].stage` | `handleChangeEvent` between its awaits: `find`, `fetch`, `recheck`, `upsert`, `remove` |
| `Look`, `Fetch`, `Recheck`, `Upsert`, `RemoveLocal` | its steps, `syncReplication.ts:71-111` |
| `ServerWrite`, `CatchUp`, `CatchUpCutShort` | `broadcastChange` in the hooks; `handleCatchup`; the same when a limit of 500 or a failing query, which is swallowed, leaves part of the answer out |
| `Deleted`, `Posted`, `Patched`, `PushLooked`, `PushConflict`, `PushAcked` | the branches of the push handler, as in DocSync but without lost requests |
| `owed` | history: the protected write that no push has answered or skipped; one that falls after a handler's last look, or is a removal or unflagged, is not protected (`Protected`) |

`createPayloadConfig.ts:108-122` injects the broadcasting hooks, and after them the tombstone's, and `createLocalDB`
starts polling replication beside the socket. Six facts of the code shape the properties:

* `findOne` does not see a removed document, so a removal that is not pushed yet is
  undone by an event; and an edit without the flag is overwritten. `FlaggedEditKept`
  speaks of protected edits, and each exemption of `Protected` (late, removals, unflagged)
  is needed: without any one of them TLC finds a violation.
* An upsert is a local write to RxDB. Polling pushes it; the PATCH gives the document
  a new `updatedAt`; its broadcast makes the client fetch and upsert again. That loop
  (the header of `syncReplication.ts` calls the socket pull-only) does not end while
  the client is connected; `FlaggedEditAnswered` shows that it starves no edit.
* An upsert of an older answer is pushed back as if the user had written it.
* The checkpoint is the collection's and moves with every event. An event of another document
  that is heard before the catch-up is answered, or that the answer lists before this
  document's tombstone, moves it past a change that was not heard; a connection
  lost then loses that change for the socket. The POST of a push stores the client's old stamp,
  which may lie behind the checkpoint.
* A catch-up has at most 500 documents and 500 tombstones, ends at a failing query without a
  word, and finds no tombstone that is not inserted yet or never was
  (`syncWebSocket.ts:81, 109, 125-130`, `syncTombstones.ts:63-66`). Nothing asks again before
  the socket is connected the next time. `CatchUpCovers` exempts these, and the skipped
  checkpoint, as `skipped`, until the next catch-up. Polling still brings the change, unless
  it is a tombstone that was never written.
* A PATCH that the server's validation refuses is thrown and sent again for ever
  (`replication.ts:261`): `FlaggedEditAnswered` says nothing while such a row is in flight. A
  refused POST is a conflict or is skipped, and counts as an answer.

### ClientSession

`init[i]` is one call of `createLocalDB` and the await it is at; `open` and `closing` are the
RxDatabase instances, all of one name; `existing` is the module's `_existingDB`; `initRef`
and `dbRef` are the provider's refs; `unsynced` says whose edits are on disk and not yet
pushed. `createLocalDB` may throw at any of its awaits, `destroy` may end before it has closed the
database (a replication rejects its cancellation), and a removal may fail. The provider is remounted when the server changes (the key in
`src/test_app/apps/desktop-electron/src/renderer/App.tsx:168-171`). Four exemptions of its
properties are behaviour a maintainer should know of:

* `EditsSurvive` exempts a second `createLocalDB` in one run of the app. `destroy` leaves
  `_existingDB` set, so the next login, or another server, calls `_existingDB.db.remove()`
  (`database.ts:110-115`), and edits that no push has sent are gone.
* `NoLeakedDatabase` and `LogoutCloses` exempt what an error has left open (`stranded`). When
  adding the upload queue's collection throws (`database.ts:364`), the database is open, its
  replications and its socket run, and neither `dbRef` nor `_existingDB` names it; when a
  replication rejects its cancellation, `destroy` ends before `db.close()` (403-407), and all
  its callers swallow that. Nothing closes such a database before the next `createLocalDB`
  (`closeDuplicates`) or the end of the process. Without the exemption TLC finds both.
* `NoLeakedDatabase` exempts a second reset in a session where inits have overlapped.
  `resetAndResync` clears `dbRef` after it has awaited `destroy`
  (`LocalDBProvider.tsx:128-129`), also when another init has published to it meanwhile; if that
  init's own drop of the previous database cleared `_existingDB`, nobody closes what it opened.
  TLC finds this in 22 steps with five inits, two resets, two faults and one server.
* `BecomesReady` exempts an init that a change of token or schema cancelled. `initRef` stays
  set, the next effect returns at once (`LocalDBProvider.tsx:153`), and the provider is
  neither ready nor in error until a reset.

### SyncPush

`req[r]` is one entry of `writes[]` and where the handler is with it: each call of the
local API is a step, so requests of several clients and writes of other users fall
between `findByID` and `update`. The clocks of the clients and of the server are not related:
a write may carry any stamp, one that another state of the document has among them.
`ThreeWayMerge` works on the fields outside `SKIP_FIELDS`;
an absent key and an explicit null are told apart, because the merge compares them as
equal and `update` does not store them alike: a client that removes a key does not
clear the field.

### SqliteInstance

`stage[w]` is a call of `bulkWrite`, `counted` the calls `openWriteCount$` stands for,
`closing` the progress of `close`. The counter goes down in the callback (`Finish`), and the
`COMMIT` or `ROLLBACK` that the callback asked for is a step of its own after it, so `close` may
see zero before the rows are committed; what it does next waits for the transaction. `ahead` is
the promise of the transaction queue that `close` awaits first, which does not cover a call
that has not yet queued its transaction, and which may reject (`CloseThrows`). `overtaken` is
the history that matters: a callback that runs when `closed` is set ends in a rollback,
and `bulkWrite` reports its rows as written. `Break` is a throw anywhere: `databasePromise`
rejects, `BEGIN`, a statement or the `COMMIT` fails; before `Finish` it leaves the call counted.
`remove` drops the table at once or inside whatever transaction is open.

### MangoToSQL

A selector is seen by one document: what its clause evaluates to (or that it has
none), whether rows are filtered again, and whether RxDB's matcher accepts the
document. So the recursion of the code is not modelled, only what each level of it
does with the results of the next.

### UploadQueue

`step`, `todo` and `current` are the program counter and the snapshots of
`processQueue`; `retrying` and `removing` hold what `retry`, `retryAll` and `remove`
have read and have yet to write. `copies` counts the media documents the server
made from a file. Rows are taken in any order (the code sorts by `createdAt`);
no property depends on it, and it only adds behaviours.

### FileDelivery

A file waits, is synced, or is gone; it is on the device or not; the server has some copies of
it. It is synced only when stored, goes back to waiting only when the user has asked to send it
again (`asked`: a retry that read a failed row, while a pass completed it), and is gone only when
synced or withdrawn. The device deletes it only when it is stored or withdrawn. The server
stores it again only while its copies do not exceed the `excuses`: lost answers, stops, clicks.
`UploadQueue!Shown` maps a row to what `SyncStatusSection.tsx` tells apart; `Promise` is
FileDelivery under that mapping, checked by TLC (`upload_queue`) and proved (section 5).

## 3. Runs

| Run | Bounds | Shows |
|---|---|---|
| `doc_sync` | 3 contents, 1 fault | no unanswered edit is lost, no echo, honest answers, pushes end, and LocalEdits is implemented (716,544 states) |
| `doc_sync_ws` | 2 contents, 1 fault, 2 handlers, 2 events | a flagged edit is kept and answered, a reconnection catches up (1,063,693 states) |
| `doc_sync_skip` | 2 contents, no fault | **violation**: a skipped edit is overwritten by a pull |
| `pull_cursor` | 4 ids, pages of 3, 3 stamps, 1 disorder, 1 failure | in-order writes are all delivered; the checkpoint only advances; pulls end (167,032 states) |
| `pull_cursor_late` | 2 ids | **violation**: a create pushed with an old stamp is never fetched elsewhere |
| `pull_cursor_pages` | 3 ids, pages of 2, 1 deletion | **violation**: a tombstone makes the cursor skip documents |
| `pull_cursor_tombstones` | 2 ids | **violation**: a late tombstone is filtered out for ever |
| `collection_slots` | 4 slugs, cap 2, RxDB limit 3, 2 mounted, 2 calls | slots are accounted for, evictions settle (564,144 states) |
| `collection_slots_cap` | 4 slugs, 1 mounted, 3 calls | **violation**: a mounted consumer is left without its collection |
| `client_session` | 2 servers, 3 inits, 1 change, 1 reset, 2 faults | no leaked database but what an error left, edits survive, the provider becomes ready (644,518 states) |
| `upload_queue` | 2 rows, 2 retries, 1 loss, 1 restart, 2 clicks | files are kept, copies explained, rows resolve, and FileDelivery is implemented (927,988 states) |
| `upload_queue_restart` | 1 row, 1 restart | **violation**: a row left 'uploading' is stuck |

### Why the bounds are enough

* `doc_sync`: a bad interleaving needs a write being pushed, a newer one landing
  meanwhile and another user's: three contents. One fault gives each of a lost
  request, a lost answer, a failed tombstone fetch and a restart in turn. For
  *safety* the bounds do not matter: section 5 proves it for all of them.
* `pull_cursor`: a page of three with four documents has a following page; two
  documents may share a stamp across the edge of a page; one deletion or one late
  create is enough to break the order, and both together add nothing that either
  does not do to the cursor.
* `collection_slots`: cap 2 with four slugs lets two calls evict each other's
  last opening; RxDB's limit one above the cap is the code's headroom
  (14 against 16 less the upload queue, which leaves 1).
* `upload_queue`: two rows show the effect of one row's pass on another's
  snapshot; two retries reach the limit; two clicks allow a retry and a removal
  of the same row.

* `doc_sync_ws`: two handlers are what a reordering of two events needs; one of the
  two contents is the user's, and every echo is a further write of an old content.
  A write of the other document takes one of the contents. The one fault is in turn a lost
  connection, a failed fetch, a catch-up cut short, a late or failed tombstone and a restart. Events beyond
  the bound are lost, as on a dead connection, and `CatchUpCovers` then says nothing.
* `client_session`: three inits are a session, the one that follows it and one more for
  an overlap; two servers tell whose edits are removed; two faults give a schema conflict
  or a failing removal before a restart, and a failing `createLocalDB` or `destroy` before each
  other.

Bounds are constants of the modules, named `Max...`, and appear in guards only.
Deadlock is checked in every run but `client_session` and `doc_sync_ws`, where a user who
has used up the bounds on what he may do leaves nothing to be done.

### Disagreements with the documentation

Six runs are expected to be violated, and `PROJECT.json` ("findings") quotes what
the repository says in each case. None concerns a property of the passing runs:
there, the properties state what the code does guarantee.
`CheckpointCovers` and `DocumentsArrive`, in particular, are stated for the time
before a deletion or a late create; `EveryDocumentArrives` without that condition
is what the three other cursor runs refute.

## 4. Fairness

* *DocSync*: weak fairness of `PushStart`, `PushServed`, of the handler's reaction
  and of the pull. RxDB retries a push that threw every `retryTime` (5 s), ticks
  every `pullInterval` (30 s), and a `fetch` that is not lost is answered; faults
  are bounded, so the network answers in the end. No fairness for local writes,
  other users, faults or restarts.
* *PullCursor*: weak fairness of the pull (same reasons) and of the insertion of a
  stamped tombstone, since a hook that began ends. A failing insertion is bounded.
* *CollectionSlots*: weak fairness of each call's next step: `cancel`, `close` and
  `addCollections` settle. Nothing is assumed of the user; `EvictionsSettle` is
  stated under the condition that the user stops.
* *DocSyncWS*: as DocSync for polling; the socket reconnects (a timer of 3 s), the
  server answers a catch-up, a live socket delivers, and the awaits of a handler settle.
  A failing fetch is a fault. Nothing is assumed of users.
* *ClientSession*: the awaited calls of `createLocalDB`, `destroy` and `resetAndResync` settle,
  successfully or not.
* *UploadQueue*: weak fairness of the pass (a timer starts it every 15 s) and of
  the awaited patches.

## 5. Proofs

### DocSync

`DocSyncProofs.tla` proves, for every number of contents and faults and for every
set of validities:

| Theorem | Statement |
|---|---|
| `Inductive` | `Spec => []IInv` |
| `TypeCorrect` | `Spec => []TypeOK` |
| `EditsAreKept` | `Spec => []UnansweredEditKept` |
| `NoEcho` | `Spec => []PushesLocalWritesOnly` |
| `AnswersAreHonest` | `Spec => AnsweredMeansStored` |

The argument. `UnansweredEditKept` is not inductive: a pull takes the local
document away exactly when `fork = meta`, so the invariant must say that an owed
write makes the two differ. `OwedIsDirty` says it; the difficult step is
`PushDone`, which sets `meta` to the row that was pushed: if that row shows what
is owed then it *is* what is owed (contents are never reused, `KnownBodies`),
and the debt is settled in the same step, otherwise fork and meta still differ.
A conflict resolves to the server's state only when the local document is not
flagged; `RowInFlight` says that a row that can meet a conflict is new, hence
came from `create`, hence is flagged. `DirtyIsLocal` (what differs from meta was
written locally) gives `NoEcho`, which leaves out deletions: a row that deletes carries no content
to echo; `ServerState` (what the server holds was stored)
and `RowInFlight` (an `ok` answer means the content was stored) give
`AnswersAreHonest`. One lemma per action shows that `IInv` is preserved; the
theorems combine them with `PTL`.

The proofs use no assumption beyond `BoundsAssumption` and `ValidityAssumption`.

### CollectionSlots

`CollectionSlotsProofs.tla` proves, for every set of collections, every cap, every
limit of RxDB and any number of calls in flight:

| Theorem | Statement |
|---|---|
| `Inductive` | `Spec => []IInv` |
| `TypeCorrect` | `Spec => []TypeOK` |
| `SlotsCanBeReclaimed` | `Spec => []OpenIsEvictable` |
| `OpenCollectionsReplicate` | `Spec => []OpenReplicates` |
| `NoSlotLeaks` | `Spec => []SlotsAccountedFor` |
| `NoneBecomesUnopenable` | `Spec => []ClosedIsReopenable` |

The argument. The four properties exempt a collection that is being evicted, and
that is what keeps them from being inductive: `OpenIsEvictable` allows a victim to
be open in *any* phase of its eviction, so nothing says that the end of the
eviction finds it closed. The invariant names the phase. While a call awaits
`cancel` its victim is out of the order and of the replications but still in the map
(`Cancelling`); while it awaits `close` the victim is out of the map, closing, and not
yet openable (`CloseAwaited`). `EvictableOrCancelling`, `ReplicatesOrCancelling`,
`RxAgrees` and `OpenableOrClosing` are the properties with the phase written in, and
`VictimsAreSlugs` says that a call in either phase has a victim. What the loop does
at its head is one lemma (`LoopEffect`), used by the two actions that reach it. The
LRU order is a sequence: `TouchElems` shows that splicing out the first
occurrence and pushing keeps its elements, the first occurrence existing because
strict inclusion is well-founded on the finite prefixes. The assumptions used are `SlugsAssumption` and
`CapsAssumption`.

The proofs do not bound how many collections are open: no such bound holds
(`collection_slots_cap`).

### DocSync implements LocalEdits

`DocSyncProofs.tla` also proves `ImplementsLocalEdits == Spec => Promise`: an initial state maps to an
initial state, and each step of DocSync to a step of LocalEdits or to a stutter. Local
writes are `Write`, the end of a push `Taken` or `Refused` (with `shown = wish`, which
`OwedIsDirty` of `IInv` gives), what a pull or a resolution writes
`Refresh`, what the server takes `Hold`; a restart, a retry or a fallback is a stutter. `IInv` is
not enough for that: a `Refresh` must show something the server has held, also when the
pull fetched it long before (`FromHistory`), a push that ends as taken must have sent
what it was to send (`RowKind`), and an edit cannot wait and be refused at once (`OneStatus`).
`RInv` adds these three.

### SyncPush

For any fields, values and number of requests:

| Theorem | Statement |
|---|---|
| `MergeKeepsBothSides` | a push over the merge stores every value the client changed, and leaves alone what it did not change |
| `RepeatedPushIsIdempotent` | pushing again what was pushed changes nothing |
| `DisjointPushesCommute` | two clients with one base and different fields end with one document, in either order |
| `NeitherSideIsLost` | `Spec => BothSidesKept` |
| `ClientEditsPrevail` | `Spec => ClientPrevails` |

The invariant says that what a request has read was a state of the document.
`NeitherSideIsLost` needs that no write fell between `findByID` and
`update` (`Undisturbed`); one that did is overwritten in the fields the merge took from the
stale read. And it needs that the base and what was read do not differ under one `updatedAt`
(`ToldApart`): the test that skips the merge compares nothing else (`syncPush.ts:183`), and stamps
are milliseconds of clocks that nothing relates. `ClientEditsPrevail` needs neither.

### SqliteInstance (`StorageProofs.tla`)

For any number of concurrent writes: `DoneIsInTheTable` (`ReturnedIsStored`), `CloseIsClean`
(`ClosedIsQuiet`), `ClosedStaysClosed` (`ClosedIsFinal`) and `CloseWaitsForWrites`
(`OnlyBrokenBlocksClose`). A call is counted from its first line to the end of its
callback (`ProgressIsCounted`), so when `close` has seen zero no callback runs; a transaction may
still be committing, and the connection is closed only after it (`ClosedIsQuiet`); what begins
later reads `closed` and is refused (`QuietWhenDrained`). `DoneIsInTheTable`
exempts a transaction that `close` overtook, `CloseWaitsForWrites` a call that broke before the
counter went down: it stays counted, and `close` waits for ever.

### MangoToSQL (`StorageProofs.tla`)

The comment at `storage/mango-to-sql.ts:15-17` promises a superset when a post-filter is needed;
`Sound` is that, and exactness without one. `ConditionIsExact`, `InIsExact`,
`NotInIsExact` and `ExistsIsExact` state it for a condition, `AllIsSound`, `OrIsSound` and
`NorIsSound` for a combinator over sound parts, `QueryReturnsMatches` for the query. Their
hypotheses are what the code needs and does not check:

* `$ne` and `$nin` lose documents without the field (`NULL != x` is not true in SQL), and
  `$exists` takes an explicit null for a missing field;
* no condition looks into a list, and booleans equal 0 and 1;
* an alternative of `$or` without a clause (a lone `$regex`, say) is dropped, and with
  it the documents only it matches;
* `$nor` over anything SQL does not decide loses documents.

No selector in the repository mixes alternatives that way; `processQueue`'s is translated
exactly (`ProcessQueueFindsItsRows`). That a whole selector is sound when all its
levels are is an induction over its depth, which is left to the reader.

### UploadQueue

`UploadQueueProofs.tla` proves, for every set of files, every retry limit and any number of
lost answers, restarts and clicks: `TypeCorrect`, `FilesAreKept` (`FileKeptUntilStored`),
`CompletedRowsAreStored` (`CompletedIsStored`), `RetriesEnd` (`RetriesBounded`) and
`EveryCopyExplained` (`CopiesExplained`).

The argument. What a pass holds is a snapshot, and the row goes on without it; so the invariant
speaks of snapshots: they are of rows that were there (`RowsTaken`), below the limit
(`BelowLimit`), one per row (`OnePass`), and one about to be marked completed was stored
(`SentIsStored`). `CopiesExplained` bounds the copies on the server, which no step can see to be
right. `CopiesAccounted` counts what may still be sent too: a row has one token while a pass may
take it or has it and has not sent it (`ToSend`), a second while a retry is under way, and
copies and tokens together are at most one more than the lost answers, restarts and clicks.
Sending turns a token into a copy; a lost answer or a click pays for the token it creates.

`ImplementsFileDelivery == Spec => Promise` is the refinement. A pass that starts, finds, begins
or fails is a stutter; `Completed` is `Sync`, and a retry that ends is `Requeue`, also of a file
that was synced or is gone. The token count of `CopiesAccounted` is what allows a `Store`. Two
more invariants are needed: a request under way was made by the user (`RequestsKnown`), and a
pass holds no completed row before it has completed it (`NotYetSynced`), so that neither
'uploading' nor 'error' ever replaces 'completed'.

### PullCursor

`PullCursorProofs.tla` proves, for every set of documents, every page size and any number of
writes, deletions, late creates and failures: `TypeCorrect`, `NothingSkipped`
(`CheckpointCovers`) and `CursorAdvances` (the action property `CheckpointAdvances`).

The argument. The checkpoint moves to the last element of a page, over everything before it; so
the page must hold everything between the checkpoint and any of its elements
(`PageComplete`), also after writes that land between the two fetches. Those give a document a
stamp later than all that are on the page (`StampsPast`): it leaves the interval. That
`FirstOf` takes a prefix in the cursor's order is `FirstOfIsPrefix`; that the element at which
the checkpoint stops comes last is `LastIsLast`, which needs that a finite set has a last
element: strict inclusion is well-founded on its subsets, so no induction is used.
`CheckpointCovers` holds before a deletion or a late create only (`InOrder`), as section 3 says.

### ClientSession

`ClientSessionProofs.tla` proves, for any number of servers, inits, changes, resets and faults:
`TypeCorrect`, `ReadyStaysOpen` (`ReadyIsOpen`), `NoDatabaseLeaks` (`NoLeakedDatabase`) and
`EditsAreKept` (the action property `EditsSurvive`).

The argument. A leak shows only when everything has settled; `Held` says at each moment who
will close an open database: the call that is closing it, the init that is opening it, the provider
(through `dbRef`), or the reset that has it in a local variable; or that an error has left it to
nobody (`stranded`). `DestroySettles` says that what a reset awaits to be destroyed is closed
then, or stranded. The difficult steps are the two
halves of a reset. While it awaits `destroy`, `dbRef` may come to name another database;
`Clobbered` says that the reset then still finds that one as `_existingDB`, unless inits have
overlapped. `StaleRef` says that a stale `dbRef` under a running init takes a reset that went
before. `AwaitedByProvider` (one init at most has not been cleaned up), `OneOpen` (
`closeDuplicates` leaves one database) and `ShownIsCurrent` carry `ReadyIsOpen`;
`DropsAreLater` (only the second `createLocalDB` of a run of the app removes a predecessor)
carries `EditsSurvive`. The type invariant is not inductive by itself: that an edit belongs to a
known server needs `ServersKnown`.

### DocSyncWS

`DocSyncWSProofs.tla` proves, for any number of contents, events, concurrent handlers and
faults: `TypeCorrect`, `LocalChangesTakePrecedence` (`FlaggedEditKept`) and `CatchUpIsComplete`
(`CatchUpCovers`).

The argument. A protected edit is what the client holds, differs from `meta`, and no
handler is between its last look and its write (`EditHeld`). A push acknowledges it only when
it is what was sent, because contents are not reused (`BodiesSeen`), and a conflict brings a
state that is not flagged (`ConflictIsServed`), so `resolve` keeps the edit. For the
catch-up, `HeardOrAsked` says that the newest change was told, could not be told, is told by
an event on the wire, or will be by the catch-up under way. `CatchUpTells` is the lemma
behind it: the answer has the document's newest state if that is newer than the checkpoint
asked for, and buried if it is deleted, wherever the other document's events fall. `Appended`
and `HeadHeard` say what sending events and hearing one do to `HeardOrAsked`. It exempts more
than `MaxEvents` events, as `CatchUpCovers` does.

### How the inductive invariants were found

Every conjunct above was first checked by TLC: a proof module with the cfg of its component's
run and `INVARIANT IInv` (`RInv` for DocSync, `DInv` for UploadQueue) in the place of the
properties. ClientSession and DocSyncWS were also tried on larger instances, as far as those go;
that is where `NoLeakedDatabase` turned out to be too strong (section 2). Each proof has one lemma
per action. The assumptions used are those on the constants that the modules name
(`...Assumption`): finite sets, natural bounds, a cap below RxDB's limit, pages of two at least.

### Only model-checked

Liveness (`EditsGetAnswered`, `PullEnds`, `DocumentsArrive`, `EvictionsSettle`,
`UploadsResolve`, `FlaggedEditAnswered`, `BecomesReady`, `LogoutCloses`) is out of the
prover's reach, and so is induction over the depth of a selector. Every invariant and every
action property of the passing runs has a theorem.

## 6. Assumptions

*RxDB* is an npm dependency whose source is not in the repository. From how
`replication.ts` configures and answers it, and from its documented protocol, the
models take that

1. upstream hands over a document when fork and meta differ, and a row whose
   handler threw is handed over again unchanged;
2. a push that reports no conflict makes meta the pushed state; one that reports
   a conflict makes meta the reported state and writes the resolution to the fork
   if the fork has not changed since;
3. downstream ignores a pulled state while fork and meta differ, and otherwise
   writes it to both; within a batch the last state of an id counts;
4. `RESYNC` ticks wait for a running push, but a push may start during a pull, and
   on start both begin; a full batch makes RxDB ask for the next one at once;
5. fork, meta and checkpoint are in SQLite and survive eviction and restart;
6. a document a query returned is a snapshot, `incrementalPatch` applies to the
   latest state and is invisible on a removed row, `remove` fails when the row was
   written since; `close` frees a COL23 slot.

These definitions are marked external in the map.

*The server* is Payload 3.74 as vendored, on MongoDB without transactions (the
adapter `createPayloadConfig` sets up): validation and a duplicate id are 400, an
update gets a fresh `updatedAt`, a create keeps the one it is sent, a deletion
first removes the document and then runs the hook that stamps and inserts the
tombstone. *Clocks* of client and server agree in DocSync, PullCursor and DocSyncWS; SyncPush assumes
nothing of them. In PullCursor fewer documents
share an `updatedAt` than fit a page (a tie of 50 documents would hold the
cursor), and stamps come in the order of the commits except in `PushCreated`.

## 7. Not modelled, and why

* Rendering, form state, code generation, schema extraction, validators' field
  walks: no interaction with the sync state beyond "this edit is (in)valid".
* Hosts (Electron, Tauri, Expo): I/O around the storage.
* `src/payload-main` beyond the operations above, `src/spacedrive-main`: vendored.
* Authentication, drafts and access control: they change which documents a
  request sees, not the protocol.
* DocSync's deletion writes its tombstone in the same step; the insertion that
  comes later, or fails, is in PullCursor, where it matters to the cursor, and in DocSyncWS,
  where it matters to the catch-up.
* Lost requests of the push handler beside the socket: DocSync has them. In DocSyncWS a
  `PATCH` that is refused stays under way, with no step of its own.
* `syncPull.ts` and `syncDiff.ts`: nothing in the repository calls them.
* Reads of the storage instance, its cleanup and its change stream: single statements.
* `patchLocalDoc` returning without effect when the referencing document's collection is
  evicted (`database.ts:371`): the upload queue with that document and its eviction has
  more states than TLC can visit here; FileDelivery is the abstraction to compose it with.
* DocSyncWS follows one document, and of the other ones of its collection the events that
  move the checkpoint, not the handlers. Events for a collection that
  is closed are dropped, but move its checkpoint. A write is visible when it is broadcast: on a database with transactions the hook would run before the commit.

## 8. Plan

Done: DocSync with LocalEdits, PullCursor, CollectionSlots,
UploadQueue with FileDelivery, DocSyncWS, ClientSession, SyncPush, SqliteInstance, MangoToSQL; theorems for
every safety property of all of them.

1. FileDelivery in the place of UploadQueue, composed with the collection of the referencing
   document and its eviction, for `patchLocalDoc`.
2. Abstract specifications of PullCursor (every document arrives, in order) and of
   CollectionSlots (a cache of bounded size), proved the same way.

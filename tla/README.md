# A specification of cloud-storage-freeloader

TLA+ models of the Go program in `src/`: a file system that spreads
erasure-coded shards over free storage accounts, keeps its metadata in SQLite,
and exchanges operations and patches between devices over the same accounts.
The models are translated from the code; `PROJECT.json` maps each definition to
its lines.

## 1. The system

### Components, their state and operations

| Component | State | Operations |
|---|---|---|
| `vfs/fs.go` VFS | none of its own: store, log, cache, engine, backends by ID | Write, Read, ReadDir, Stat, Delete, Rename, Mkdir |
| `vfs/cache.go` SegmentCache | map and LRU list of decoded segments, bytes used | Put, Get |
| `metadata/store.go` Store | SQLite tables `files` (path), `shards` (path, segment, shard), provider usage | CreateFile, GetFile, ListDirectory, DeleteFile, RenameFile, AddShard, UpdateShardLocation, GetShardMap, DeleteShards, Mkdir |
| `metadata/ops.go` OpLog | SQLite table `ops` (ID, device, number) | Append, ReadAll, ReadSince |
| `metadata/sync.go` SyncEngine | `pushedSeq`, `pulledSeq`, in memory | Push, Pull, Snapshot, Restore |
| `metadata/conflict.go` | none | DetectConflicts, ResolveConflicts |
| `placement/engine.go` Engine | provider infos as of its construction; `k` of the last Place | Place, SelectForRead |
| `placement/migration.go`, `repair.go` | none; work on the store and the backends | Migrate; Rebalance (stub); Scan; Repair (stub) |
| `erasure/` Chunker, Encoder | none | Chunk, Reassemble, Encode, Decode |
| `provider/profile.go` | tiers; BandwidthTracker: bytes per day | Classify; CanDownload, CanUpload, Record |
| `provider/{memory,gdrive,onedrive,s3,webdav}` | the blobs; Drive caches the ID of its base folder | Put, Get, Delete, Exists, List, Available |
| `provider/{gdrive,onedrive}/oauth.go` tokenSource | access and refresh token, expiry; OneDrive a mutex | Token, refresh |
| `livesync/watcher.go` | last event per path, self-write marks, a channel of 100 | handleEvent, MarkSelfWrite, Close |
| `livesync/differ.go`, `merger.go`, `patch.go` | none | Diff, ApplyPatches, ThreeWayMerge, serialisation |
| `livesync/batcher.go` Batcher | buffer, its bytes, a ticker | Add, flush, Stop |
| `livesync/syncer.go`, `patchlog.go`, `snapshot.go` | `pushSeq` and pulled keys in memory; SQLite table of patches; last snapshot numbers | Push, Pull; Append, PatchesSince, GarbageCollect; CreateSnapshot, RestoreSnapshot |
| `api/server.go` | none | HTTP handlers, one goroutine per request |
| `config/`, `bootstrap/`, `fuse/`, `cmd/` | token file; otherwise stubs and construction | LoadTokens, SaveTokens |

### How they interact

An HTTP handler calls the VFS in its own goroutine; the VFS has no lock. A
Write deletes the old shards one backend call at a time, then the rows, then
asks the engine for providers, creates the file row, stores each shard and then
records it, and at the end appends to the operations log. Read takes the size,
the shard map and then shards until K have come, segment by segment, through
the cache. Every SQL statement commits on its own; no operation runs in a
transaction that spans two of them.

The SyncEngine uploads the operations of a device as files named by their last
number, to every provider, and imports those of other devices. In live sync the
watcher's events lead to patches, the batcher collects them and hands batches to
a callback, meant to be the syncer. Nothing in the repository yet starts the
sync or the live sync loop: the modules take any order of calls.

A backend is shared by all goroutines and has no lock. Each of its calls is one
or more HTTP requests, and each request first asks the token source for a token,
which may refresh it, with a request of its own, and save it in the token file.
What the requests have done to the account stays when a call fails or the
program ends.

### What is hard

Handlers that overlap on one path; the order of deletions, rows and uploads in
the face of crashes and failing backends; providers lost for good; a cache that
no change invalidates; numbers taken in one statement and used in another;
marks kept in memory and lost by a restart; listings in any order; callbacks
outside locks; requests that are refused, or carried out and not answered;
tokens that end meanwhile. `PROJECT.json` lists each under `hazards` with its line.

### What makes each part correct

- VFS: acknowledged files can be decoded while at most M providers are lost; no
  row without its file; no blob that no row points to; reads return what was
  acknowledged; the log tells which files there are.
- Log and sync: numbers of a device grow; what is counted as pushed is stored;
  providers forget nothing; imports come in order, once each.
- Batcher: nothing lost or handed over twice, bounded, and in the end handed over.
- Syncer, patch log: a batch is handed to each peer once and never to its
  author; a patch that no snapshot covers is kept, and snapshot and patches
  together restore what was appended.
- Watcher: no event for the syncer's own writes, none twice within the debounce,
  Close always ends the goroutine.
- Engine: what is selected for a read decodes, if the code has two parity shards
  or more; daily limits are passed by no more than what is under way.
- Metadata snapshots: what is uploaded was in the table; a restore never changes
  a file that the device has.
- Migration: between two providers no shard's only copy is taken away, and a
  download that runs into it still finds enough shards.
- Conflicts: an edit is not lost to a deletion, and no concurrent edit goes
  unseen by both devices.
- Erasure coding: any shards that a selection may name give the contents back.
- Differ and merger: patches lead from the old version to the new; two devices
  that merge each other's edits end with one text and drop no line unseen.
- Backends: a name has one file with what was acknowledged last, and what a call
  answers was true while it ran.
- Token sources: a token that is handed out is good; the newest refresh token is
  in memory and in the file.

## 2. Modules

| Module | Models |
|---|---|
| `Placement` | `Engine.Place` as the set of maps it may return: `sort.Slice` is not stable, so any order of the providers of one tier |
| `Vfs` | the VFS with its callers, tables, log, cache and backends |
| `VfsProps` | what it promises: type invariant, invariants, and the claims that fail |
| `VfsInv` | the inductive invariant `IInv`, and what is invariant besides |
| `MetaSync` | `OpLog` and `SyncEngine.Push`/`Pull` on several devices |
| `Handover`, `Batcher` | what a batcher promises; the batcher, which implements it |
| `Syncer` | `Syncer.Push`/`Pull` of several devices |
| `PatchLog` | the patch table and the snapshots of files |
| `Watcher` | debounce, self-write marks, the event channel, Close |
| `Codec` | `Chunker` and `Encoder` |
| `Engine` | `SelectForRead` and `BandwidthTracker`; EXTENDS `Placement`, `Codec` |
| `SyncSnapshot` | `SyncEngine.Snapshot` and `Restore` next to the handlers of each device |
| `Migration` | `Migrate` composed with all of `Vfs`; EXTENDS `VfsProps` |
| `Conflicts` | `DetectConflicts` and `ResolveConflicts` over what two devices log |
| `Differ`, `Merger` | `Diff` and `ApplyPatches`; `ThreeWayMerge` |
| `Decisions` | what a device decides by itself: EXTENDS `Engine`, `Conflicts`, `Differ`, `Merger`, which do not call each other |
| `TokenSource` | the token sources of Drive and OneDrive and the token file |
| `Account` | what the backends share: callers, requests, the files of the account; EXTENDS `TokenSource` |
| `GDrive`, `OneDrive`, `S3` | the calls of each backend as series of requests; EXTEND `Account` |
| `Accounts` | an account behind one of the three, and what all promise |
| `VfsProofs`, `MigrationProofs`, `DecisionsProofs`, `LiveSyncProofs`, `AccountsProofs`, `SyncerProofs`, `MetaSyncProofs`, `SyncSnapshotProofs` | the proofs (section 4) |
| `MC*` | instances for TLC |

### Vfs and the code

Variables `files`, `rows`, `log` are the tables; `blobs[x][p][s]` is what
provider `x` holds under the key of path `p` and slot `s = <<segment, shard>>`;
`cache` is the LRU list; `pc`, `call`, `plan`, `todo`, `cur`, `held`, `limit`,
`got`, `out` are the local variables of each handler. A step is one SQL
statement, one backend call or one cache operation with the code around it.

| Code | Actions |
|---|---|
| Write | `Check`, `Scan`, `Purge`\*, `Unrow`, `Unlink`, then `CreateEmpty`, `CreateFile` or `CreateFails`, (`Put`, `Record`)\* or `PutFails`, `Log` |
| Delete | `Scan`, `Purge`\*, `Unrow`, `Unlink`, `Log` |
| Rename | `Scan`, (`Get`, `Copy`, `Erase`)\*, `Retable` or `RetableFails`, `Log` |
| Read | `Stat` (twice: the handler's Stat and Read's GetFile), `ReadMap`, per segment `Hit` or `Miss`, `Fetch`\*, `Decode` or `DecodeFails`; `Finish`, `Respond`; `NotFound`, `Panic` |
| Mkdir | `Mkdir` |
| environment | `Lose` (a provider is gone), `Crash`, and `Fault` inside the steps that call a backend |

Data: the bytes of a file are a version; a segment decodes to its version from
any K shards of that version and to `Garbage` from a mix. Sizes count segments,
since the chunker pads each to `SegmentSize`. SQL fails only on a primary key.

Several variables are history: `acked` (what clients were told), `due` and
`clean` (what a call owes), `contended` (paths that overlapping calls have
changed), `soiled` and `unlogged` (paths where a failure may have left a blob,
or a record missing). No guard reads them. The code promises nothing of a path
that two calls change at once, so the invariants leave contended paths out; a
path becomes contended only when calls that change it really overlap. A rename
ends being `clean` when a call of it fails, or when a shard is missing at a
provider that is not lost: it then leaves the shard out and reports success, and
owes nothing. In `Vfs` alone that does not happen to an acknowledged file; it
does after a Migrate that was cut short between its Delete and its update.

### MetaSync and the code

`ops[d]` is the table `ops` of device `d` in insertion order; a row's type and
path are abstracted to the operation it stands for. The callers append under the
ID of their `SyncEngine`, as in the tests; the VFS appends under `"vfs-default"`
(`fs.go:58`), and records under an ID that no `SyncEngine` has are never pushed. `Number` and `Insert` are
the two statements of Append. `StartPush`, `Put`/`PutFails` are Push, whose
ignored errors make a failed Put look like a good one; `StartPull`, `List`,
`Get`, `Import` and their failures are Pull, record by record. `Restart` keeps
the log and forgets `pushedSeq` and `pulledSeq`. `kept`, `missed` and `fetched`
are history.

### Batcher and the code

What Add and flush do under the mutex is one step each, the callback another.
`Tick`, `Fire` and `Quit` are the ticker and the select of its goroutine;
`StopTicker` and `CloseDone` are Stop. The ticker follows the semantics of the
Go version in `go.mod`, in which no tick is left after `Stop`.

### Syncer and the code

`blobs[x]` holds the batches at provider `x` under keys `<<device, number>>`.
Several goroutines of a device may be in Push, since the batcher calls its
callback outside its lock: the load and the store of `pushSeq++` and the read of
`pushSeq` for the key are steps of their own. Pull goes from provider to
provider and key to key; a key is marked as pulled when its Get has succeeded.
`Restart` forgets `pushSeq` and the marks. A stored batch can always be decoded:
encryption and compression are left out.

### PatchLog and the code

`rows` is the table `patch_log`. Append is a SELECT of the highest number and an
INSERT, by any number of editors at once. The content of a file is the number of
edits it has had, a patch the edit that it makes, so that the IDs of a file's
rows are in the order of their edits. A snapshot is made of a file's content and
the number of the last of the patches since the one before (`Latest`);
CreateSnapshot stores it at one provider after the other, outside the mutex that
guards `lastSeqs`. The rows are those of one device; merging version vectors is
left out.

### Watcher and the code

`handleEvent` is cut where other goroutines can come between: what it does under
the mutex (`Skip`, `Admit`) is one step, and `Send`, which drops the event when
the channel is full, another. One write may give several events of fsnotify.
Time is in ticks.

### Engine and the code

`k` is what the last Place left in the engine, 0 after a start. Its only caller,
Write, gives it the number of shards less two and 2 (`fs.go:113`), whatever K and
M are: `PlaceFile` leaves K + M - 2, and `Maps` has the tiers that this division
into data and parity prefers. A selection asks
each tracker for one byte and chooses the first `k` by tier in any order within
one; a reader then downloads and records shard by shard. Any file may be read
that Place could have placed, as the metadata outlive the engine. What a
selection is good for is said with `Codec`: contents are sequences of bytes, cut,
padded, encoded, decoded from the shards that were chosen and trimmed again.
Reed-Solomon is external: a parity shard stands for what it was computed from.

### SyncSnapshot and the code

Each device has its table `files`; a file is known by its size, which no other
file has, so that a rename can be told from a deletion and a new file. The
listing, each GetFile and each Put are steps of Snapshot; Get, GetFile and
CreateFile those of Restore. A whole VFS call is one step on the tables here.

### Migration and the code

The variables of `Vfs` and those of Migrate: the files and slots it has still to
visit (Go maps are ranged over in any order), and the shard in its hands. Get,
Put, Delete and UpdateShardLocation are a step each; errors of the last two are
ignored as in the code. A Migrate takes any two providers that there are, also one
twice, as the code only asks whether it has them: it then stores each shard where
it is and deletes it. History names the paths that calls changed while Migrate
was at them, and those of which it has put a shard where it had it from
(`crossed`, `Onto`): nothing is promised of these.

### Conflicts and the code

Two devices start from the same files and log what their calls log, both under the
one `deviceID` of NewVFS; at any time the lists are compared from either side. `Kinds` are the pairs of types that the
chain of conditions in DetectConflicts takes for a conflict, and `LastAt` the
map it builds.

### Differ, Merger and the code

Pure functions become operators of the same names. A byte is a letter, Nul, or
one that is no UTF-8. The diff library is external and may return any diff of
the runes (`Matchings`); that an invalid byte comes back as the three bytes of
U+FFFD is in `Bytes`. The merger's texts are sequences of lines; its loop over
places is `LineAt` for each place, its two loops at the end a fold of `AddLine`.

### Backends and the code

`files` and `folders` are the account: on Drive a file has an ID and names
repeat, on OneDrive and S3 a name has one file. Each caller is at one request of
its call (`pc`), with what the code keeps between requests in `dir`, `id`,
`left` and `then`. A request is carried out (`Serve`), refused (`Refuse`: its
token has ended, or another fault), or not answered (`Unanswered`, after which
its effect, `GEffect`, `OEffect` or `SEffect`, may be there or not).

| Code | Actions |
|---|---|
| Drive: Put | `GStart`, (`SearchFolder`, `CreateFolder`), `Find`, `Erase`, `Upload` |
| Drive: Get, Delete, Exists, List | the same, then `Download`, `Erase`, nothing, `List` |
| OneDrive: Put | `OStart`, then `putSmall`, or `Session` and `putLarge`\* |
| OneDrive: Get, Delete, Exists, List | `Get`; `FindItem`, `DeleteItem`; `Exists`; `List` |
| S3 | `SStart`, then `Change` (Put, Delete), `Get`, `Exists` or `List`; `Again` is the retry of the SDK |
| Token, RoundTrip | `Spend` in each request; `Refresh`, `Answered`, `Save` and their failures before it |
| NewFromConfig | `Restart`: `Reload` reads the token file |

Where the code looks at no status, a refusal reads as an answer without files:
`Blank` in `GDrive`. `Exists` of S3 takes for an absence any error whose text
has "404" in it. An answer `out[c]` is the set of contents of which it is true:
`Gone` for "not there", `Some` for "there", all of them for an error.

A token is the time at which it ends; `ts.expiry` is what the program believes.
The numbers of refresh tokens grow with each rotation, which only OneDrive has.
Whether an old one is still good is the server's choice. On OneDrive a refresh
holds `mu`; on Drive nothing does, and answers come in any order.

History: `latest` and `unsure` say what was acknowledged under a name and which
names a failed call has left half done; `mixed` names are changed by two calls at
once, or by one that was not shown its file; `blind` calls were not shown all
that they asked for; `seen` is what was there while a call ran; `fresh`, `slow`,
`behind` and `unsaved` say what has become of tokens. No guard reads them.

## 3. Runs

All configurations say `CHECK_DEADLOCK FALSE`: the number of calls is bounded,
a system whose clients are silent stops, and a merge is over when it is done.

| Run | Instance | Shows |
|---|---|---|
| `vfs_faults` | 1 handler, 2 paths, an empty file and files of 1 and 2 segments, 3 providers (one of each tier), RS(2,1), 3 calls, 1 fault | `TypeOK`, `IInv`, `RowsHaveFile`, `ReadBack` |
| `vfs_shared` | 2 handlers, 2 paths of which one is also a directory, 2 providers, RS(1,1), a provider that may be full at a start, 3 calls, 1 fault | `Durable`, `NoReadPanic`, `NoLeak`, `ReadBack`, `LogMatchesStore` |
| `vfs_stale` | 1 handler, 4 calls, no fault | a read after an overwrite returns the old content (violated: `OverwriteVisible`) |
| `migrate_faults` | 1 handler with 2 calls, 2 Migrates between any 2 providers or from one to itself, 3 providers, RS(1,1), 1 fault | `Emptied`, `ReadsThrough`, `NoShardLost` |
| `sync_faults` | 2 devices with 2 appending handlers each, 2 providers, 3 operations, 1 fault | `PushedStored`, `ImportedInOrder`, `NeverForgotten` |
| `snapshot_faults` | 2 devices, 2 paths, 2 providers, 3 tasks, 1 fault | `SnapshotTrue`, `KeepsOwn` |
| `batcher` | 2 producers, 2 patches each of 1 or 2 bytes, thresholds 2 patches and 3 bytes | `BufferBounded`, `HandedOnce` (refines `Handover`), `EventuallyHanded`, `StopEnds` |
| `patch_faults` | 2 devices, 2 providers, 2 batches, 2 restarts or failing calls | `NoEcho`, `ReturnedOnce`, `PullComplete` |
| `log_faults` | 2 files, 2 editors, 2 writers of snapshots, collection at any time, 2 providers, 2 edits of a file, 2 faults | `NothingLost`, `Recoverable` |
| `watcher` | 2 paths, a channel for one event that may never be read, 3 writes, 3 ticks, a debounce of 2 | `UserEdits`, `CloseEnds` |
| `decisions` | 2 readers, a hot, a warm and 2 cold providers, RS(2,2), segments of 4 bytes, contents of 1, 3, 4 and 6, limits of one shard of 2 bytes at all but the hot one, 2 days; 5 operations on 2 paths in any split and order; contents of up to 3 bytes, 2 letters and 2 invalid ones; texts of up to 3 lines | `Decodable`, `BoundedOverrun`, `EditSurvives`, `FoundByOne`, `BothKept`, `Patched`, `Converges`, `NoEditLost` |
| `accounts_faults` | 2 goroutines with 2 calls, 1 key, a small and a large content (2 chunks), pages of 1 file, tokens of 2 ticks with a margin of 1, 2 ticks, 1 fault or restart, for each of the three backends | `OneFile`, `AnswersTrue`, `HandsOutLive`, `NewestKept` |

### Claims that do not hold

`vfs_stale` is one of several places where the code does something else than a
comment or `PLAN.md` says. Each is stated as a property of its module and quoted
there. Put in the place of the properties of the configuration named here (two
have one of their own), it is violated, and TLC shows a short behaviour. Only `vfs_stale` is among the
regular runs; the properties of the regular runs are stated so that they say
exactly what holds in spite of these.

| Configuration | Property | What happens |
|---|---|---|
| `VfsRename.cfg` | `RenameKeepsContent` | Puts of a rename fail, it returns nil, the content is gone |
| `VfsFaults.cfg` | `EveryMutationLogged` | an empty file is never logged |
| `MigrateFaults.cfg` | `MovesAll` | a shard cannot be read and stays, Migrate returns nil |
| | `SpreadAcrossProviders` | the target has a shard of the segment already |
| | `ShardsThere` | source and target are one provider: Migrate deletes what it has put and returns nil |
| `SyncFaults.cfg` | `OwnSequence` | two handlers take one number |
| | `PullMerges` | an ops file listed after a later one never enters the log |
| | `NoDuplicates` | after a restart operations are imported again under new IDs |
| `SnapFaults.cfg` | `FullMetadata` | a file renamed during Snapshot is missing in it |
| | `RestoredMatches` | restored files have no shard rows |
| `PatchFaults.cfg` | `PullDownloadsNew` | a restarted device uses a key again that its peer never fetches twice |
| | `PushUploads` | two Pushes at once store under one key |
| `LogFaults.cfg` | `CollectsCovered` | numbers start over after a collection, the next takes new patches |
| | `RestoresLatest` | a provider that missed a Put hides the newer snapshots of others |
| `LogBackward.cfg` | `OnlySuperseded` | of two snapshots made at once the older is stored last |
| `WatcherLive.cfg` | `FiltersForDebounce` | a self-write mark never ends |
| `Decisions.cfg` with `M = 1` | `DecodableAnyCode` | with one parity shard Write leaves K - 1 in the engine, and so many shards are selected |
| `Decisions.cfg` | `DegradedMode` | after a start, k is taken for the number of all shards, and a read with one provider down fails |
| | `CopyNamesDevice` | all operations carry `"vfs-default"`, and so does every conflict copy |
| | `LatestWins` | the version of the device that compares wins |
| | `BothDeleted` | edit and delete against delete is a conflict |
| | `BothCreated` | create against create and update is none |
| | `PatchedAlways` | bytes that are no UTF-8 come back as U+FFFD |
| | `InsertionsMerge` | after an insertion every line has changed by its place |
| `Accounts.cfg` | `Overwrites` | Drive refuses a search, and Put uploads next to the old file |
| | `OneFolder` | two goroutines that find no base folder both make one |
| | `ValidToken` | the life in an old token file counts from the start of the program |

Why the bounds are enough to be of interest. Three calls are write, then read,
overwrite, rename or delete, then one more; with two handlers, two calls overlap
in every way on a file that a third has left. Two paths give a rename a source
and a target that may exist. RS(2,1) over three providers has a data shard on a
warm provider and none to spare; RS(1,1) over two keeps the interleavings of two
handlers in reach; a crash during the clean-up of a failure takes two faults,
which `IInv` is proved for (section 4). In `MetaSync` two operations of a device
give two ops files that can be fetched in the wrong order, the third is appended
meanwhile or on the other device, and one restart gives a second use of a key.
Two batches of a device are the first use of a key and its second after a restart. Two edits with a snapshot and
a collection in any order reach every way in which numbers start over. Three
writes within three ticks put a debounced event, one beyond the debounce and one
that finds the channel full into one behaviour. Two readers and a limit of one
shard make a selection that is outdated when the download begins. RS(2,2)
is the smallest code of more than one data shard for which Write leaves K in the engine. Two Migrates
are one that a crash has ended and the one that is run again. Five operations
are the shortest lists in which a device deletes a file, creates it again and
edits it while the other does two things to it. Contents of one byte, of less
than a segment, of just one and of one and a half meet the padding in all its
forms. Three bytes have a prefix, a middle and a suffix, which may overlap, and
room for a deletion and an insertion before an equal rune and another after it.
Three lines have one that is kept, one that both change and one beyond the base
that both append. Two calls on an account are a change and another change, or a
reader, in every order of their requests; the blob of an earlier run takes the
place of a call that would have stored one. One fault makes a call fail at any
request or lose its answer after it took effect, and the other call shows what
is left; a second fault on top is out of reach. Tokens of two ticks with a margin
of one have a tick in which they are good, one in which they are refreshed, and
then end.

Bounds are the constants `MaxCalls`, `MaxFaults`, `MaxSegs`, `MaxOps`,
`MaxAdds`, `MaxBatches`, `MaxEdits`, `MaxWrites`, `MaxTime`, `MaxTasks`,
`MaxMoves`, `MaxBytes` and `MaxLines`, and `MCInit` of `MCAccounts`, which starts
a new account with a token file made by hand and one with a blob with a file of
an earlier session. Symmetry is used over sets whose elements nothing tells apart, in
runs without liveness properties.

`ReadBack` holds of downloads that start with nothing older in the cache and
without another download that could add it; `vfs_stale` shows what happens
otherwise. `PushedStored` leaves out an operation that comes into the log after
one with its number or a higher one, which `OwnSequence` shows to happen.

`NothingLost` and `Recoverable` leave out logs in which a number was used twice
(`reused`), and files of which a Put of a snapshot has failed or two snapshots
were made at once (`unsaved`). The two may be stored in the other order
(`OnlySuperseded`); when the log has been collected up to the newer meanwhile,
the edits between them are lost.

`Emptied`, `NoShardLost` and `ReadsThrough` leave out files that a call changes
while Migrate is at them and files that Migrate moves from a provider to that same
one, which it destroys (`ShardsThere`), and `ReadsThrough` maps in which a provider
has two shards of a segment already. `Decodable` says of codes with fewer than two
parity shards only that the shards are at different providers: RS(2,1) selects one
shard, which `DecodableAnyCode` shows; no reader in the repository uses
`SelectForRead` yet, `VFS.Read` tries all shards of the map. `BothKept` is about
edits only: two creations are kept in the same way, but `BothCreated` shows that
they may go unseen. It does not say whose name the copy bears (`CopyNamesDevice`).

`OneFile` and `AnswersTrue` leave out accounts with two base folders, names that
two calls change at once, calls that were not shown what they searched for, and,
for `OneFile`, names that a failed call has left half done until a change of them
succeeds. `HandsOutLive` leaves out a source that has not refreshed since it was
loaded and one whose refresh took longer than the margin; `NewestKept` what an
answer or a save that is lost makes unavoidable.

Fairness. All modules but `Batcher` and `Watcher` have safety properties only:
nothing in the code makes a client retry or starts a sync. `Watcher` assumes
that its goroutine runs when it can, and nothing of those who write files or
read the channel. `Batcher` assumes that goroutines that
can run do, that the callback returns and that the ticker goes on ticking, which
the Go runtime and `time.Ticker` provide; no one has to call Add or Stop.

## 4. Proofs

Checked by TLAPS for all values of the constants that satisfy the `ASSUME`s. In
each module the theorems follow from an inductive invariant, which TLC has also
been given as an invariant of the run's instance; it is shown to hold at the
start and to be kept by every action, one lemma for each.

| Module | Theorems | Property, or what it says |
|---|---|---|
| `VfsProofs` | `TypeCorrect`, `Inductive` | `TypeOK`, `IInv` |
| | `RowsHaveFileAlways`, `DurableAlways` | `RowsHaveFile`, `Durable` |
| | `ReadBackAlways`, `NoReadPanicAlways` | `ReadBack`, `NoReadPanic` |
| | `NoLeakAlways`, `LogMatchesStoreAlways` | `NoLeak`, `LogMatchesStore` |
| `MigrationProofs` | `MigrateInductive` | `MigrateInv` |
| | `NoShardLostAlways` | `NoShardLost`, an action property |
| | `EmptiedAlways`, `ReadsThroughAlways` | `Emptied`, `ReadsThrough` |
| `DecisionsProofs` | `EditSurvivesAlways`, `BothKeptAlways`, `FoundByOneAlways` | `EditSurvives`, `BothKept`, `FoundByOne` |
| | `BoundedOverrunAlways`, `DecodableAlways` | `BoundedOverrun`, `Decodable` |
| | `NoEditLostAlways`, `ConvergesAlways` | `NoEditLost`, `Converges` |
| `LiveSyncProofs` | `NeverTwice`, `BufferStaysBounded` | no patch in two places; `BufferBounded` |
| | `BatcherKeepsPromise` | `HandedOnce`: `Batcher` implements `Handover` |
| | `NothingLostAlways`, `RecoverableAlways` | `NothingLost`, `Recoverable` |
| | `UserEditsOnly` | `UserEdits` |
| `AccountsProofs` | `OneFileAlways`, `AnswersTrueAlways` | `OneFile`, `AnswersTrue` |
| | `TokensLive`, `NewestRefreshKept` | `HandsOutLive`, `NewestKept` |
| `SyncerProofs` | `NeverEchoed`, `NeverReturnedTwice`, `PullsAreComplete` | `NoEcho`, `ReturnedOnce`, `PullComplete` |
| `MetaSyncProofs` | `ImportsAreInOrder`, `PushedIsStored` | `ImportedInOrder`, `PushedStored` |
| | `NothingForgotten` | `NeverForgotten`, an action property |
| `SyncSnapshotProofs` | `SnapshotsAreTrue`, `RestoresKeepOwn` | `SnapshotTrue`, `KeepsOwn` |

### Vfs: what is stored

`Durable` is not inductive: in the middle of an upload or a rename nothing is
acknowledged, and what makes the acknowledgement at the end true is what the
loop has done so far. `IInv` says it: `UploadInv` (the slots passed are stored
and recorded, but for the one between Put and AddShard), `RenameInv` (the slots
passed are at the new path, the others at the old one, the one in hand is held),
`PurgeInv` (rows go before the file). `Separate` and `Pending` say that calls on
a path that is not contended have it to themselves and that nothing is promised
of it meanwhile; `DeadEmpty` that a lost provider holds nothing. `Kept` then
says of an acknowledged file that its rows spread each segment over different
providers, each of which is lost or has the shard; at most M lost providers
take at most M shards, so K of the K + M are left (`PlaceInjective` and a
counting argument on `Cardinality`). The proof uses that a step of a call
changes its own paths and variables only (`Frame`), so that for each action only
its own paths remain to be shown (`Local`).

### Vfs: what is read, left behind and logged

Four more invariants, each inductive once `IInv` is known:

- `ReadInv`, for `ReadBack`. A download that still owes a version has its path to
  itself (`Rivals` is empty); the size, the map and every shard it has read are
  of that version, and so is each piece put out, if no older one was in the cache
  when it began. That needs `FreshCache` to survive what other downloads add.
- `OrderInv`, for `NoReadPanic`. `got` is indexed by the shard numbers of a map;
  they have no gap (`Gapless`) because Write records a segment's shards from 0 up
  (`UpperPart`: what is still to be stored is the upper part), and rows of a path
  go all at once.
- `BlobInv`, for `NoLeak`. The blobs of a path (`Placed`) are among those that a
  map names (`Named`): the rows when no call is at it, and in the middle of a
  call the slots that its loop has still to delete, or has passed (`ClearInv`,
  `MoveInv`).
- `LogInv`, for `LogMatchesStore`. While a call is at a path the log tells of it
  what it was before, and from the last change of the tables on the record to
  come would set that right (`RecordInv`). What a log tells is `FoldLeft` over
  its records. That the fold takes one more step for one more record is itself
  proved: a recursive function over positions exists for each log (`FoldExists`),
  two that agree on the records agree on what they tell (`FoldsAgree`, by the
  least position at which they would not), hence `Told' = Replayed(Told, record)`
  after an append (`FoldAppend`), and only the record's own paths change
  (`ReplayedEffect`).

### Migration

`IInv` does not hold next to Migrate: two shards of a segment may meet at one
provider, and a Migrate that is cut short between Delete and
UpdateShardLocation leaves a row that names a provider without the shard. What
does hold (`ServeInv`) is that the provider of a row has the right shard or, once
anything has failed or while Migrate is just there, nothing: never that of
another version (`There`). The calls keep it, of the paths that are not tangled
(`Tangled`: contended, or changed by a call while Migrate was at them, or moved to
where they were), by the
same division into what is a call's own and what is not (`Frame`, `Within`).

`MigrateInv` adds Migrate. `Hands`: the rows that it has still to change name the
old provider, and what it holds is what was acknowledged, stored at the old
provider before its Put and at the new one until its update; the two differ, or the
path is tangled (`MigrateOK`). `Leaving`: no path
but those still to be visited names the old provider, or a shard was skipped, or
a call has changed the path meanwhile. `Attended` and `DownloadPart`: a download
has the map of the table but for the shards that Migrate has moved since, which
were at providers that are being left (`away`); where there is no shard for it, its
map names one of these, or something has failed. From these the properties follow:
a step of Migrate takes a shard away only at the old provider in Delete, when
`Hands` has it at the new one; and a download lacks no more shards of a segment
than there are providers being left, as no two of its shards are at one.

None of the three properties is inductive by itself: Delete takes a shard away
on the strength of a Get and a Put made before, and what has become of the file
since is what `Hands` keeps track of.

### Decisions of one device

- Metadata conflicts. A log is in the order of its times (`Stamped`) and tells
  how its device came to have a path or not: a path it has and the base had not
  was created, one it lacks was deleted, one created again was deleted before, an
  update of a new path follows its creation (`Accounted`; paths that a rename
  left or reached are out, as in the properties). The last entry of a path is
  then what `DetectConflicts` pairs with each of the other's, and the properties
  follow from which types may meet. `DetectConflicts` is a `FlattenSeq` of one
  row for each operation; that an element of it is an element of a row, and the
  other way round, is proved (`RowExists`, `RowElements`).
- Reading. A reader waits for shards it has chosen, at least K of them if M is 2 or
  more (`Picked`), and each waiting reader has been promised one shard at each provider it waits for,
  at a time when there was room: what is used and what is awaited stay below
  the limit plus one shard for each reader (`Promised`). A reader waits for one
  shard of a provider at most, since a map is injective. `Decodable`
  adds that chunking into padded segments and cutting off the padding gives the
  contents back (`BlocksInARow`, `ReadsBack`), and that a code word decodes from K
  shards (`CodecAssumption`): a selection has K + M - 2 of them, or all, and with
  M at least 2 that is K or more.
- Merging. The merge is a fold over the lines of both sides; that the fold is
  what its steps say is proved as for the log (`SumExists`, `GrowthExists`). A
  line up to the longest length comes out in its place (`InPlace`) or is
  reported, and a line beyond the base is appended (`Added`), whichever side runs
  the merge.

### Live sync

- `Batcher`: a thread holds a batch just when it is about to hand it over
  (`Held`), patches are numbered up to what was added (`Numbered`), and buffer,
  batches and what was handed over are disjoint and without repetition
  (`Apart`). Every step is then one of `Handover` or a stutter, with
  `waiting` mapped to what is in the buffer or in a batch. `BufferBounded` is
  proved by counting the producers that have passed the check and not flushed.
- `Watcher`: an event of the syncer that waits is of a marked path
  (`SelfMarked`), what was sent is no later than what the debouncing remembers
  (`Remembered`), and what is in hand may be sent (`HandFit`). Time is unbounded.
- `Syncer`: two Pushes may take one number, but a batch goes under one key
  (`Pushing`), and a key's batches are of its device (`StoreInv`); a marked key has
  been returned, what was returned has its key marked, and what Pull still owes
  is at a key that its loop has yet to reach (`Pulling`, `Ahead`).
- `PatchLog`: of a file's edits the log has the last, in the order of their
  numbers (`Ordered`). Each snapshot, stored or on its way, divides it: the rows
  up to its number are the edits that it contains (`Divides`), also when edits
  and collections come between the two halves of an Append or of
  CreateSnapshot. An edit is logged or in the snapshots of all providers, the
  one on its way is newer than those that are stored, and it is at all providers
  by the time that `lastSeqs` says so (`Stored`). `NothingLost` alone is not
  inductive for want of `Divides`: GarbageCollect looks at numbers only.

### Metadata sync

- `MetaSync`: numbers stay below the count of operations (`CountInv`), a record is
  that of its device's row (`RowInv`, `BlobInv`, `FileOf`), what was imported since
  the restart is in order and at most at the mark (`OrderOf`). For `PushedStored`
  a Push needs its file to have each row above the mark, but those inserted since
  (`InFile`), and to cover the ops files above the mark that an earlier run has
  left (`Above`), so that writing under a key in use loses nothing: which is
  `NeverForgotten`.
- `SyncSnapshot`: a path listed and not changed since is still to be read or has
  been read (`Listed`), and what has been read was in the table (`Reading`).

### Storage accounts: blobs

`AccountInv` is `Shape` and `BlobInv`.

- `Shape` is where a call may be in its course (`InCourse`: the requests that the
  calls of each backend send, `Serves`), what it holds (`Holding`: a file whose
  ID it holds has the name it asked for, or is gone; `IdsDiffer`) and in which
  folders things lie (`FolderOf`). A new file's ID is one that nobody
  holds because there are more numbers than files and callers (`NewFileIs`).
- `BlobInv` is about names that are not `mixed`. One call changes such a name at a
  time (`Lone`); it has one file at most (`OneEach`); while a Put of Drive is about
  to upload, or looks for the folder before that, it has none (`Cleared`);
  and when no call is changing it and none has failed, its file holds what was
  acknowledged last (`Acked`). `OneFile` alone is not inductive for want of
  `Cleared`: Drive's upload makes a file and looks at nothing.

Other calls' requests do not disturb the names they are not about (`LoneStep`,
`OneEachStep`, `ClearedStep`, `AckedStep`, `TrueStep`), so each of the 27 actions has
only to be shown to do its part for its own name (`Sound`). That is done once
for each thing that can happen to a call (`BeginStep`, `MoveStep`, `ReadStep`,
`AnswerStep`, `FailStep`), and each action of each backend is then one of these.

### Token sources

Every action of `Accounts`, of all three backends, is for the token source one
of its own steps or none (`SourceStep`). Then: an answer ends a life after it was
made (`Asked`), the source takes a token for good at most the margin too long
(`Timely`), and a refresh under OneDrive's mutex is alone with the server
(`Alone`). The theorems are about `Accounts!Spec`, with any number of callers,
names, contents and faults; the run starts from some of its initial states.

### Assumptions

Of `Vfs`: finitely many providers, K and M positive, tiers and limits of the
right type, `None` and `Garbage` apart from the versions. Of the others: the
list of providers is a sequence without repetition, bounds are natural numbers,
`None` is apart from batches, sizes and callers. Bounds on calls, operations,
ticks and faults are arbitrary in all theorems, and so are the numbers of
handlers, devices, paths and threads.

Of `Decisions`: two devices, finitely many readers, contents that are sequences,
and segments whose size K divides; of `Engine`, two shards of a segment at least (Place
panics for one), and for `Decodable` two parity shards. Of `Accounts`: finitely many callers, keys
and contents, chunks and page sizes that are numbers.

Of `Migration`: no more than `Vfs`, any number of Migrates, and any arguments of
each, also the same provider twice. What a Migrate from a provider to itself does to
the files it moves is left out of the properties, not out of the model.

The proofs have changed the modules in a few places. One was wrong: `Accounts` let
a step of Drive or OneDrive be taken by a call of another backend that
was at a request of the same name (a List of S3 answered by `GDrive!List`);
each disjunct of `Drive` and `Graph` now has its backend. `NothingLost` and
`Recoverable` of `PatchLog` held of one writer of snapshots only; `unsaved` now
takes the files of which two are made at once, and the properties hold of
any number. A rename in `Vfs` that skipped a shard missing at a provider that is up
counted as one that owes the content; in `Migration` that is too much (`clean`). The names
of `Watcher` are its own (`WatchInit`, `WatchNext`), so that it can be proved about in one
module with `Batcher` and `PatchLog`. The other changes are none of behaviour: `rows` of `PatchLog` as a
set, the last assumption about `None`, those about lists of providers and about
callers, the reading of the log in `MetaSync` said as a relation between rows
and records (`ReadSince`), a pair of parentheses in `Handover`, and
`DetectConflicts` as the rows of one operation each (`Hit`).

### Only model-checked

`Patched` of `Differ`: that the patches of `Diff` lead from one text to the other
takes an induction over the patches, each of which moves the offsets of the next. The liveness
properties `EventuallyHanded`, `StopEnds` and `CloseEnds` are out of the prover's
reach. `IInv` is the only one of the invariants among the regular
runs; the others were checked by TLC on the instances of section 3 before they
were proved.

## 5. Plan

Done, in this order: `Placement`, `Vfs` with its proofs, `MetaSync`, `Batcher`,
`Syncer`, `PatchLog`, `Watcher`, `Engine`, `SyncSnapshot`, `Migration`,
`Conflicts`; then `TokenSource`, `Account`, `GDrive`, `OneDrive`, `S3`,
`Accounts`, `Codec`, `Differ`, `Merger` and `Decisions`; then the proofs of
section 4. To come:

1. `Repair`: Scan next to `Migration`, what it reports while shards move.
2. An abstract file store that `Vfs` implements on uncontended paths, and an
   abstract exchange that `Syncer` and `MetaSync` implement.
3. `LiveSync`: watcher, batcher and syncer composed, when the repository
   composes them.

## 6. Not modelled

- JSON and HTTP formats, the binary format and the encryption of batches, the
  parsing of the configuration, logging. WebDAV only hands calls on to a store,
  and FUSE mount and command line are stubs.
- Data races: SQLite's lock errors, the unsynchronised `SegmentCache`, the fields
  of Drive's token source read while another goroutine writes them. They are
  hazards; statements, cache calls and the assignments after a refresh are atomic
  here.
- Of the backends: a request that takes effect after its call has failed; a search
  of Drive that does not yet show a file just made; several keys in one account,
  and with them prefixes of more than one key; `Available`.
- Repair: Scan reads only and Repair counts what it would do.

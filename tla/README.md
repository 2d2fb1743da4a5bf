# A TLA+ model of DashQL's persistence, query execution, result views and SQL catalog

DashQL is an SQL notebook: a React application (web, and native with Tauri) around a C++ SQL core
and DuckDB. This directory holds TLA+ modules for the parts of the application in which several
activities overlap, TLC configurations that check them on small instances, and TLAPS proofs for
instances of any size. All paths below are relative to `packages/dashql-app/src` unless they start
with `docs/` or `packages/`; `catalog.cc` is `packages/dashql-core/src/catalog.cc`.

## Inventory of the system

| Part | State it keeps | Operations | What is hard about it |
| --- | --- | --- | --- |
| Storage writer `platform/storage/storage_writer.ts` | pending task and timer per write key, global pause, held notebooks, executions in flight, write generations, last written content | `write`, `processTask`, `flush`, `pause`/`resume`, `pauseNotebook`/`resumeNotebook`, `cancelPendingWritesForNotebook`, `settle` | debounce timers, two kinds of pause that overlap, a flush that awaits between keys, failing writes |
| Relocation flow `platform/storage/storage_migration_flow.ts` | none of its own: it pauses and drains the writer, copies, then reloads the page | `relocateNotebookToNative`, the flow that adds an existing folder | the app goes on while it copies |
| Native synchronisation `platform/storage/native_notebook_sync_react.tsx` | queue of notebooks, one running loop | `enqueueReload`, `reloadNotebook` | other programs edit the same files; the user answers dialogs while editing on; own writes come back as events |
| Watcher service `platform/storage/native_notebook_sync.ts` | subscription per notebook, generation | `reconcile`, `close` | overlapping asynchronous calls, late registrations |
| Scripts reducer `scripts/notebook_scripts.ts` | scripts and folders of a notebook | create, edit, delete, rename, reorder, promote | schedules writes, deletes and renames under different keys |
| Storage backends `platform/storage/*_backend.ts`, `storage_migration.ts`, `notebook_import.ts`, `app_state_loader.ts` | files, registry of notebooks, their routes in memory | load, save, import, delete, reorder, relocate, add a folder, clear, restore | the registry is read and rewritten as a whole by overlapping operations; a crash between copy, registry update and deletion |
| Query executor `connection/query_executor.tsx`, `query_execution_state.ts` | one state machine per query, runtimes | `execute`, `cancel`, state reducer | cancellation at every await, cache hits, result analysis |
| Query result cache | files with access markers | load, save, touch, evict, delete | eviction against concurrent use |
| Catalog loader `connection/catalog_loader.tsx` | refresh queue, running updates | enqueue, update | effects that run again |
| Computation state and scheduler `compute/` | one state per analysed table, its tasks, reference counts of data frames | schedule, run, accept or reject a result, delete | results arrive in any order, for a table, filter or order that is gone |
| Result views `view/query_result/` | queue of filter requests, claims of summaries | effects that filter, sort and summarise | effects act on the state of the last render |
| Agent runs `agent/` | transcript, current run | start, step, cancel | loop around a remote service |
| Native proxies `packages/dashql-native/src`, `platform/grpc` | streams with a bounded channel | start, read with timeouts, destroy | producers outlive their readers; a query is cancelled while its stream starts |
| SQL catalog `packages/dashql-core/src/catalog.cc` | loaded analyses, two indexes of their schemas, declared databases and schemas with ids, a version | analyse, `LoadScript`, `UpdateScript`, `DropScript`, `Clear`, `ResolveTable` | ids are allocated by an analysis and declared by a later load; indexes and declarations are maintained incrementally and shared by scripts |
| Rest of the SQL core `packages/dashql-core` | texts, syntax trees | parse, complete, format | large sequential algorithms |
| Others | | | logger, views, cloud worker, packaging, UMAP, data sets: no concurrent state of interest |

How they interact: a reducer changes the visible state and calls `write()` of the storage writer,
which saves through a storage backend after a debounce. The relocation flow and the
synchronisation are the two clients that hold the writer back, one globally and one per notebook.
The watcher service turns file system events into `enqueueReload`. JavaScript runs one task at a
time, so everything between two `await`s is atomic, and everything else interleaves: timers, promises,
user input, dialogs and file system events.

What makes them correct:

* writer: no accepted write is lost, answered twice or overtaken by an older one; pauses end; a drain drains;
* relocation: the storage does not change while it is copied (a second relocation may break this, see *Known behaviours*);
* registry: whatever fails, a notebook is stored completely somewhere, and the registry says where;
* scripts: the tasks on their way turn the files on disk into what the notebook shows;
* synchronisation: no local edit is discarded behind the user's back, no external edit is missed, and the writer is always released;
* watchers: what is watched is what the latest call asked for, and nothing leaks;
* executor: every query ends in exactly one final state, a cancelled one does not succeed, only successes are cached, and the result on display keeps its computation;
* result views: what is shown belongs to the current selection in the end, and no result in use is dropped;
* catalog: a loaded script is found where it is looked up, what it references is declared, an id stands for one name, and an unchanged version means that references are still right;
* streams: a reader gets every message once, in order; a cancelled query leaves nothing behind, and one that has read to the end of its stream neither.

## Modules

| Module | Models | Extends |
| --- | --- | --- |
| `StorageWriter` | the writer with its two clients as it sees them | |
| `NotebookSync` | the writer composed with files, editor, other programs and the reload loop | `StorageWriter` |
| `NotebookWatches` | the watcher service | |
| `ScriptFiles` | scripts and pages of a notebook, the tasks their reducer schedules, the files of a native folder | |
| `NotebookRegistry` | registry, routes and files of all notebooks, with crashes | |
| `QueryExecution` | executor, query state reducer, computations and cached result of one entry | |
| `CrossFilters` | filters, orderings and summaries of one analysed table: reducer, scheduler, effects | |
| `SqlCatalog` | the catalog of the SQL core, the analyses loaded into it and the resolution of table names | |
| `ServerStream` | one server stream of the gRPC proxy with its client | |
| `MessageStream` | what such a stream promises; `ServerStream` implements it | |
| `MC...` | values for the constants of the module of that name | it |
| `...Proofs` | theorems about the module of that name; those about `StorageWriter` are the first part of `NotebookSyncProofs` | it |

`NotebookSync` composes writer, files, editor and reload loop. The others meet at an abstract boundary: `ScriptFiles` keeps of the
writer its keys and timers and leaves its pauses to `StorageWriter`; `NotebookRegistry` keeps of a relocation what it does to the files, and
`StorageWriter` what it does to the writer; `CrossFilters` begins where the analysis in `QueryExecution` ends; and the stream that
`QueryExecution` awaits is that of `ServerStream`. `SqlCatalog` is called by the editors and by the scripts reducer, whose analyses it takes as they come.

Definitions whose comment begins with *mutant* are plausible bugs of the definition that follows them. No
specification uses them; substituting one for the definition must make the property it is paired with
fail.

### StorageWriter

A `write()` call is named by its generation (`nextWriteGeneration`), so a generation stands for the task,
its content and its promise. `pending` is `pendingTasks`; `armed` are the entries whose `timer` is armed.
`setTimeout` in `resume()` and `resumeNotebook()` overwrites the handle of a timer that may still be armed, and
`processTask()` deletes the entry of a key whose new timer is armed: such timers are counted in
`stray`; they fire later for whatever task the key has then. `running` is `inFlight`, `promise` is what the
caller of a generation was answered.

| Action | Code |
| --- | --- |
| `Write` | `write()`: the slot and the timer of the former task are taken over, its promise answers false |
| `TimerFires`, `StrayTimerFires` | `processTask(key)` from a timer: returns early without a task, or when paused or held |
| `ExecutionSucceeds`, `ExecutionFails` | the end of the execution started by `processTask` |
| `RelocateBegins` | `pause()` and `flush()` up to its first await; the history variable `disturbed` marks the relocations whose pause another one lifts, or writes in spite of, after their own `flush()` (`PastFlush`) |
| `FlushContinues`, `FlushReturns` | the loop of `flush()` from await to await, then the drain of `inFlight` |
| `RelocateFails`, `RelocateSucceeds` | `resume()` after a failure; the page reload, after which the model rests (`Reloaded`) |
| `PauseNotebook`, `ResumeNotebook`, `CancelPendingWritesForNotebook` | the same methods, called in this order by a reload |

### NotebookSync

Each write key of a notebook is one file, `disk` and `memory` are its contents on disk and in the visible
state, `completed` is `completedFileContents`. Every action is an action of `StorageWriter` with
its effect on the files and the loop, or leaves the writer alone (theorem `SyncImplementsWriter`).
`EditScript` is the `SET_SCRIPT_TEXT` reducer with its `write()`. A save has two steps, the change of the
file (`SaveReachesDisk`) and the return of the backend call (`SaveSucceeds`, or `SaveFails` before or after
the change). Any change of a reloadable file, by the app or by `ExternalEdit`, leaves an undelivered event,
and undelivered events of a notebook merge.

The reload loop goes through the phases *settling* (`await writer.settle()`), *reading* (files one by
one, in any order), then `Compare`: nothing differs, or every difference is something the writer has
completed itself (`OwnWrite`), or the user is asked. *asking* and *warning* are the first dialog without and
with pending local edits, *confirming* the second dialog. `AcceptStale` is the generation check that
requeues the notebook, `AcceptReload` the replacement of the visible state, `Release` the `finally` block.
No timer, edit or event comes between `Release` and the next `pauseNotebook` of the loop (`Free`), because
only a microtask separates them.

### NotebookWatches

A call of `reconcile` is named by its generation. `Reconcile` is the synchronous part; `SkipNotebook`,
`RegisterNotebook`, `WatchRegistered`, `WatchFails` and `InstallWatch` are the loop from await to await; `Close` is
`close()`. `live` are the subscriptions the operating system keeps. `Map`s are iterated in any order. The check
`desired.get(notebookId) !== dir` after the await compares a constant with itself and is left out.

### QueryExecution

An execution is a coroutine with a number (`NEXT_QUERY_ID`); `pc` is the await at which it is suspended, and an action runs it to the next.
The module has one connection and one notebook entry, whose query text does not change, so that one cache entry (`file`) stands for its
result; `kind` separates the entry's executions (analyzed and cacheable) from those of the catalog and the health check (neither).
`active`, `finished` and the two `...Ordered` lists are those of `ConnectionState`, the lists as sets. The executor reads none of
the state it dispatches to, so an action is reduced when it is dispatched, although the registry batches actions in a microtask. Actions
dispatched in one turn are one step (`RECEIVED_ALL_BATCHES` and `PROCESSING_RESULTS`, `PROCESSED_RESULTS` and `SUCCEEDED`).

| Action | Code |
| --- | --- |
| `RunEntry`, `RunCatalogQuery` | `execute()` up to its first await; `REGISTER_QUERY` makes it the entry's latest |
| `RefreshEntry`, `RefreshContinues` | `handleRerun`: delete the cache entry if its key is known, then `rerunEntry` with the captured script |
| `KeyComputed` | the cache key; `EXECUTE_QUERY` registers the query only now |
| `CacheMisses`, `CacheHits` | the cache read, with the check for a cancellation after it |
| `StreamOpens`, `ProgressArrives`, `BatchArrives`, `StreamEnds`, `SchemaArrives` | connector and result stream |
| `FrameCreated`, `TaskIsDropped`, `AnalysisEnds` | `analyzeTable`; its scheduler tasks are one await |
| `ExecutionFails` | both catch blocks, from any await inside them |
| `Cancel` | `cancel()`; the awaited call may nevertheless succeed |
| `SaveLands`, `SaveIsLost`, `CacheEntryRemoved` | the write that nobody awaits; eviction |
| `ResetConnection`, `DeleteConnection` | the reducer's cases; executions go on |

When a reducer throws (`crashed`), React unmounts the providers and the model rests.

### ScriptFiles

A name is a pair of an ordering prefix (0 for none) and a clean name: `2_extract.sql` is `<<2, c>>`. `shown` is what the notebook shows,
a text for each path; `files` and `folders` are the notebook's folder on disk. Every action of the user is one case of
`reduceNotebookScripts` with the `write()` calls it makes (`Persists`). All timers run for the same 100 ms, so that `pending` is a queue;
a task whose key is pending takes its place in that queue (`Scheduled`), as in `write()`. `TaskStarts` is the first half of a task's
execution, which looks for its files and makes the folder of a new one, `TaskEnds` the second half. Two history variables mark what the code does
not order: `displaced` (a task took a place ahead of an earlier one on the same file, or the creation of a page replaced its deletion,
since both have the key of the page) and `overlapped` (two executions at a time on one file).

What this covers of the disagreements between disk and notebook: after `displaced`, a deletion followed by a pending write may bring a page
back, and a rename may overwrite another script's file (see *Findings*). After `overlapped`, a rename during a write of the old name
leaves the old file behind. The comment at `native_storage_backend.ts:227-228`, that "the pending write under the new name will create it", does not
hold either, because `RENAME_SCRIPT` schedules no write.

### NotebookRegistry

An operation in flight occupies a slot and goes from await to await: `read` and `write` are the two halves of every update of the root
manifest, and `seen` is the copy it has read. `locations` are the routes of `CompositeStorageBackend`, `files` says which parts of a notebook
(metadata, scripts) are where. `Fails` ends an operation at any await, `RemovesPart` a recursive removal half way, and `Restart`
is a crash, a reload or a quit at any moment: routes and notebooks come from the manifest. `kept` and `overwritten` are history
variables: the notebooks that were finished and not deleted by the user, and those whose entry was replaced by an update which had not seen it, or by that of a folder
with another copy. The OPFS backend writes a file by swapping it in, the native one truncates the file in the folder and writes (`native_storage_backend.ts:86-90`): `torn` are the metadata files
that such a write has truncated and not completed. They are there, and `CopyIsKept` and `EntryFindsFiles` count them, but nobody can read them (`Readable`): a relocation does not verify such a copy, and a
restart shows such a notebook as one that can only be deleted.

| Action | Code |
| --- | --- |
| `ImportBegins`, `WritesMetadata`, `ReadsRegistry`, `ImportEntry`, `ImportScripts`, `ImportFails` | `importNotebookFromZip`, and its rollback |
| `SaveBegins`, `WritesMetadata`, `TruncatesMetadata`, `SaveEntry` | `saveNotebookManifest` by the writer; in a folder its write may be cut off |
| `DeleteBegins`, `DeletesFiles`, `DeleteEntry` | `deleteNotebook`; a folder on disk stays |
| `ReorderBegins`, `ReorderWrites` | `reorderNotebooks`, `saveAppSettings` |
| `RelocateBegins`, `TruncatesMetadata`, `CopiesMetadata`, `CopiesScripts`, `Verifies`, `FlipsEntry`, `DropsOpfsCopy` | `relocateNotebookToNative` |
| `LoadBegins`, `LoadEntry` | `loadNativeNotebook` |
| `ClearBegins`, `ClearsManifest`, `ClearsFolder` | `clearAllStorage` |

### CrossFilters

`table` is the `TableComputationState` of one analysed table with one summarised column; `filtering`, `ordering` and `aggregating` are its task slots,
`filterTable`, `orderingTable` and `aggregate` the results on display. The rows of a result are represented by the task that computed it,
whose id is also its data frame; `refs` are the reference counts of `DataFrameRegistry`. `seen` is the state of the last render: effects
compute from `seen` and their dispatches are reduced on `table`. `due` are the effects of the last render that have not run; a new render waits
for them. `queue` is the `FilterTaskQueue` of the table.

| Action | Code |
| --- | --- |
| `Select`, `Sort`, `ClearOrdering`, `DeleteComputation` | `SET_CROSS_FILTERS`, `orderByColumn`, `CLEAR_TABLE_ORDERING`, `DELETE_COMPUTATION` |
| `Render` | React |
| `FilterEffect`, `OrderEffect`, `SummaryEffect` | the effects of `useCrossFilters`, `DataTable` and `HeaderPlotsCell` |
| `Launch` | the scheduler's effect, up to the first await of `processTask` |
| `FilterCompletes`, `OrderingCompletes`, `AggregateCompletes`, `TaskFails` | the rest of `processTask`, with the reducer's acceptance and what follows the promise (`Settles`) |

Behaviours that the module shows and no property forbids: a failed task stays in `schedulerTasks`, and the effect that asked for it asks again, for ever if
it fails for ever; a `SCHEDULE_TASK` for a table that is gone never settles its promise; frames are acquired twice per task and released once,
so that temporary tables stay in DuckDB until the page is closed; an effect on an old snapshot may acquire a frame that has just been dropped.

### ServerStream

`producer` is the task spawned by `start_server_stream`, `queue` its channel, `registered` the entry in `server_streams`; `reader` and `batch` are one
call of `read_server_stream`; `client`, `buffered` and `reachedEnd` are `NativeGrpcServerStream` with its message iterator and the query
that iterates over it. Messages are numbered, so that order and completeness can be told. A read that finds its batch empty at the timeout
fails; with messages in hand it flushes them at any time. `FlushAfterClose` and the error for a closed stream are unreachable, because the producer task holds
the entry with the receiver.

Above the iterator is an Arrow reader, which belongs to a library: `produce()` (`platform/hyperdb/native_hyperdb_grpc_client.ts:118-153`) asks it for record batches until it is done, and that is at the
marker of the Arrow stream, which need not be the last message of the gRPC stream. `marker` is the message with which the reader is done, if there is one; `ResultComplete` is the end of the query
there, with or without another look at the stream; `RejectsMessage` a message that it cannot decode. The query then reads no further and destroys nothing.

`MessageStream` is the promise: messages are delivered one by one in their order; the iteration finishes only with the message that completes the result, or when the server has ended and the last
message is delivered; a failure or the cancellation may come at any time. `Abstract == INSTANCE MessageStream WITH outcome <- Outcome` is the refinement, and `DeliversInOrder` states it.

What the properties except is what the code does: a query that fails (also of a read that times out), or whose result is complete before it has been told of the end of the stream, leaves the stream
registered; and the producer of a full channel waits for ever once the query is over.

### SqlCatalog

A script is a catalog entry; its rank is fixed, with ties broken by the id of the entry. A text is the tables it creates and one table it reads from. `analysis` is the script's
`analyzed_script`, `loaded` what the analysis declares that its entry holds, and `synced` whether the two are the same object. The editor analyses in one call and the notebook's
reducer loads in another one, so that anything may come between.

| Action | Code |
| --- | --- |
| `Analyze` | `ReplaceText`, `Analyze`: ids for what is not declared, then the resolution of the table that is read |
| `LoadFirst`, `LoadFails` | `LoadScript` of a new entry; `CATALOG_ID_OUT_OF_SYNC` leaves what was declared before the conflict |
| `Update` | `UpdateScript` |
| `Drop` | `DropScript`, also from the destructor of a script |
| `Clear` | `Clear` |

A lookup (`ResolveInCatalog`) is the direct one by qualified name, then by schema, then by table, each in the order of ranks. A result is a set, because a hash map or a schema of several
tables yields any of them first. What is declared already keeps its id (`Extended`); what it references, an analysis declares (`Declarations`). `MaxId` bounds both counters of ids.

## Runs

| Run | Instance | What it shows |
| --- | --- | --- |
| `storage_writer` | 3 keys, 2 notebooks, 1 relocation (repeatable), 3 writes, 1 hold; 347,000 states | `NoLostWrite`, `OneOwner`, `DrainedBeforeCopy`, `NoWriteDuringCopy`; `EveryWriteAnswered` under fairness |
| `notebook_sync` | 1 notebook with 2 script files, 2 contents, 2 edits, 2 external edits; 1,283,000 states | `NoSilentDiscard`, `StableRead`, `HeldWhileReloading`, `SecondAnswerIsStale`, `DivergenceIsExplained`; `SyncSettles` under fairness |
| `notebook_watches` | 2 notebooks, 2 directories, 2 calls | `NoLeakedWatch`, `WatchesAreCurrent`, `DesiredAreWatched`; `ClosedServiceEnds` under fairness |
| `query_execution` | 2 executions; 263,000 states | `ActiveIsRunning`, `TallyMatches`, `LatestHasComputation`, `CacheHoldsResults`, `StatusMovesForward`, `CancelPrevails`; `ExecutionsEnd` under fairness |
| `rerun_crash` | 2 executions | counterexample to `RetiringIsSafe`, finding 1 |
| `server_stream` | a channel of 2, 4 messages; 9,100 states | `EntriesAreReleased`, the refinement `DeliversInOrder`; `CancelEnds`, `ProducerAdvances` under fairness |
| `notebook_registry` | 2 notebooks, 1 folder, 2 operations at a time, symmetric; 2,795,000 states | `CopyIsKept`, `EntryFindsFiles` |
| `registry_overwrite` | 1 notebook, 1 folder, 1 operation at a time | counterexample to `AddsOnlyUnregistered`, finding 2 |
| `cross_filters` | 1 selection besides the empty one, 1 order, 2 consumers, 3 disturbances; 538,000 states | `LatestFilterIsShown`, `SummaryIsOfFilter`, `ShownFramesAreAlive`; `SelectionIsShown` under fairness |
| `script_files` | 3 notebooks of 2 scripts, 2 page and 3 script names, 3 actions, 2 executions at a time; 324,000 states | `TasksLeadToNotebook`, `RenameTargetIsFreeInOrder` |
| `sql_catalog` | 3 scripts, 3 texts, 2 databases, 2 schemas, versions up to 4, 3 schema ids; 372,000 states | `IndexesFollowEntries`, `ReferencedIsDeclared`, `IdsNameOneThing`, `QualifiedNamesAreCurrent`, `VersionProtectsReferences` |
| `sql_index` | 2 scripts, versions up to 8, 5 schema ids | counterexample to `SchemaIndexIsComplete`, finding 3 |

The run of `SqlCatalog` checks its type invariant, which is inductive only together with `IndexesFollowEntries`; the types of the other modules are proved only, and so are `NewestIsPending`, `PauseIsOwned` and `NotebookIsNeverEmpty`,
which no run repeats.

Bounds. Three writes are enough for one in flight, one in the slot and one that replaces it. Two notebooks
let a held and a free key meet one flush. One relocation at a time keeps the check of liveness small; the safety of the writer is proved for any number of overlapping ones. The number of relocations in a behaviour is not bounded, since a
failed one returns to *idle*. In `NotebookSync` every reload is caused by a save (`MaxWrites`), an external edit
(`MaxExternal`) or an edit that made a decision stale (`MaxWrites`), so with
`MaxHolds = 2 * MaxWrites + MaxExternal` the bound on `pauseNotebook` calls never cuts a reload off; TLC's deadlock check
confirms it. Two external edits are needed to go away from a version and back. Two `reconcile` calls are an
outdated one and the latest. Two executions are one that overtakes or replaces another; a third would only replace the second in the same
way, and `QueryExecutionProofs` covers any number of them. Four messages fill a channel of two while one is in hand and one is being read. Two operations
on the registry are one that overlaps another; any number of them follow one another, since slots are used again, and `NotebookRegistryProofs` covers any number
at a time. Three disturbances never cause more than eleven tasks, so that `MaxTasks = 12`
cuts no effect off. Three actions of `ScriptFiles` are the two that
are displaced or overlap and one between them. Three scripts are one that reads and two that compete for the name; the three texts move a schema
between databases, share one between scripts and read with every kind of name, and four versions are three loads, updates or drops with any number of analyses between them. What does not depend on a bound is proved.

The runs of `QueryExecution`, `CrossFilters`, `ScriptFiles` and `SqlCatalog` do not check deadlock: a settled application may rest for ever, and does when the bounded
number of executions, disturbances, actions or versions is over or a reducer has thrown. The other runs do.

Fairness. Timers fire and backend calls and watcher registrations return, successfully or not: weak fairness of
each. A relocation's copy ends and the `finally` block of a reload runs. For `SyncSettles` the user answers an open
dialog, in any way. For `ExecutionsEnd` every call that an execution awaits returns: key, cache, connector, stream, schema, DuckDB
and the tasks that a scheduler knows; the connectors have no timeout of their own, so a server that never answers is excluded. No call is assumed to
fail. For `SelectionIsShown` the browser keeps rendering and a task that was launched ends, well or not; failures are among the
bounded disturbances, so that a task which fails for ever is excluded. In `ServerStream` requests are answered, native tasks are scheduled and
timeouts expire, while the server may be silent for ever once it has answered the start of the stream: `packages/dashql-native/src/grpc_proxy.rs:319` awaits that answer without a timeout, so that a
cancellation behind a start which is never answered does not end. Users, edits and external programs are never assumed to act.

## Proofs

TLAPS proves, for any sets of keys, notebooks, relocations, directories, selections, orders, names and texts and for any bounds:

* `NotebookSyncProofs`, about the writer: `TypeCorrect`; `WritesAreNotLost`; `WritesHaveOneOwner`; `NewestStaysPending`; `PauseHasOwner`; `RelocationDrains`;
  `CopyIsUndisturbed`. About the composition: `SyncImplementsWriter` (`SyncSpec => Spec`, from which everything proved of the writer holds in the
  composition); `SyncTypeCorrect`; `HoldsAreReleased`; `ReadsAreStable`; `SecondAnswerNeverApplies`;
  `EditsAreNotDiscardedSilently`; `DivergencesAreExplained`.
* `NotebookWatchesProofs`: `WatchTypes`; `RegistryIsCurrent`; `WatchesDoNotLeak`; `LatestCallPrevails`.
* `QueryExecutionProofs`: `QueryTypes`; `ShownIsRunning` (`KnownIsListed` and `ActiveIsRunning`); `OnlySuccessesAreCached`;
  `LatestIsComputed`; `CancelledNeverSucceeds`; `OutcomesAreCounted`; `StatusesMoveForward`. That is every safety property of its passing run.
* `ServerStreamProofs`: `TypeCorrect`; `EntriesGo`; `ImplementsMessageStream` (`Spec => Abstract!Spec`).
* `NotebookRegistryProofs`: `TypeCorrect`; `CopiesSurvive`; `EntriesFindFiles`.
* `CrossFiltersProofs`: `TypeCorrect`; `LatestIsShown`; `SummaryFitsFilter`; `FramesStayAlive`.
* `ScriptFilesProofs`: `TypeCorrect` and `NotebookHasScript`, about what the notebook shows; `TasksLeadThere` and `RenameTargetsAreFree`, the properties of its passing run, with
  the hypothesis `NotebooksDiffer`: no notebook is loaded that has two pages of the same clean name. The code relies on it, too: "Page clean names are unique
  (uniqueScriptFolderName)" (`notebook_scripts.ts:455`), which chooses the clean name of a new or renamed page; the proof shows that every action keeps it so. Without it the properties are false (see *Known behaviours*).
* `SqlCatalogProofs`: `CatalogTypeCorrect`; `IndexesAreTrue`; `ReferencesStayDeclared`; `IdsAreUnique`; `VersionGuardsReferences`; `QualifiedNamesStayCurrent`. That
  is every property of its passing run.

The assumptions are those stated as `ASSUME` in the modules: keys belong to notebooks, bounds are natural numbers,
the value for "no directory" is not a directory; a text creates finitely many tables with names of three parts, the scripts of a catalog are ordered by their ranks, and
the value for "nothing" is not what an analysis declares. TLC evaluates them in every run.

Along which argument. Each safety property is the consequence of an inductive invariant in the proof module:

* A pending task may be without timer while the writer is paused or its notebook is held, so `NoLostWrite` is inductive only
  together with "a flush that is under way found the writer paused" (`FlushFoundPause`): its end restores the pause that
  covers the tasks written meanwhile.
* `OneOwner` needs that slots and executions have generations below `nextGen`, that no generation is in two slots, and that an
  execution is older than the slot of its key (`OwnerInv`, `NewestInv`).
* `RelocationDrains` tracks, for every relocation, that each older open generation is among the keys that are still to visit or in
  flight; `CopyIsUndisturbed` that the writer is paused from the end of
  a relocation's own flush on, as long as no other one has disturbed it; that a flush restores a pause is `FlushFoundPause` again.
* `EditsAreNotDiscardedSilently` follows from the generation taken for the dialog being an upper bound of what was written
  when it was opened; that `Max` of a finite set of naturals exists is proved from well-founded induction
  (`BoundedHasMax`).
* `DivergencesAreExplained` needs three invariants: a file that differs is covered by an event, a queued or running reload, a pending or
  running save, or an excuse (`CoverInv`); that a save which has reached the disk has caused an event that is not
  handled before its execution is over (`SavedInv`); and that the files already
  read are current or have a newer event (`SnapInv`).
* `NoLeakedWatch` needs that a subscription is in the registry once, under its own call and notebook (`InstallInv`), so that giving it
  back cannot remove another one.
* `ShownIsRunning` needs that ids which are not given out belong to nothing (`Unissued`) and that only ended executions are listed as finished
  (`FinishedHasEnded`); the same two facts show for `OnlySuccessesAreCached` that no later action touches a cached execution.
* `LatestIsComputed` needs that an execution replaces an earlier one only and that the latest is the newest of the entry (`EntryInv`), and that
  its computation is there from the registration on (`AnalyzedHasComputation`).
* `StatusesMoveForward` bounds the rank of a status by the await at which its execution is (`RankInv`).

* `ImplementsMessageStream` needs that what is delivered, buffered, collected in a batch, queued in the channel and in hand are, one behind the other,
  the messages of the server so far, as long as nothing was thrown away (`Chain`); that an end or a failure is the last event of the channel and tells what the
  server did; and that a client which has been told the end has received everything (`EndInv`).
* `EntriesGo` follows from the ways in which an entry is left: the client destroys the stream it knows when it is cancelled or has been told the end, and remembers to do so while the start is not answered.
* `CopiesSurvive` and `EntriesFindFiles` are inductive together with what each kind of operation in flight relies on at each step: a relocation that
  has verified its copy has in the folder whatever is left of the original (`CopyCovers`), files are removed only of a notebook that is
  deleted or lives in a folder (`OldFilesUnused`), a notebook under import exists nowhere else (`ImportIsNew`), and a relocation has the writer for itself
  (`Exclusive`).
* `LatestIsShown` needs that at most one filter task can still write the slot (`OneFilter`), and that this task, and a shown result of the latest version, agree with the
  slot (`Fits`). `FramesStayAlive` needs that the shown results have frames of their own, with a count, which are not those of tasks that may still end (`Alive`, `Ids`).
* `CatalogTypeCorrect` and `IndexesAreTrue` are one induction: a lookup returns tables of loaded entries only because the indexes lead to
  entries (`entries.at()` in the code), and the indexes follow the entries because a loaded declaration is typed. For `ReferencesStayDeclared` an update erases only what no entry
  has in the qualified index, which by `IndexesFollowEntries` is what no other script uses.
* `IdsAreUnique` needs that every id given out, declared or only analysed, is below its counter (`IdsAreCounted`), and that an analysis numbers the names that are not
  declared apart (`NumberedApart`). Two scripts may have different ids for one name, but not one id for two.
* `VersionGuardsReferences` needs that an analysis of the current version is followed only by analyses and failed loads, which leave the entries and indexes as they are (`CurrentAnalyses`).
  `QualifiedNamesStayCurrent` adds that the lookup by qualified name meets every entry that declares the name, by `IndexesFollowEntries`, and that the first one it visits has the lowest rank (`LowestRank`).
* `TasksLeadThere` and `RenameTargetsAreFree` follow from `QueueInv`: the queue has a *course*, a function from places to disks that starts with the files on disk, performs one task after
  the other, finds every rename and move ready, and ends with what the notebook shows. It is kept by three arguments. What a task changes and what it depends on are the paths of its region
  (`OutsideRegion`, `InsideRegion`), so that tasks without a common file commute (`TasksCommute`), and a task may end ahead of earlier ones (`CourseSkips`) or make its folder early
  (`CourseEnsures`). The calls of one action touch no common file and have different keys, so that they can be performed together (`Together`); that holds wherever their keys are found
  in the queue, as long as no later task touches their files (`CourseSchedules`), which is what `displaced` excludes. And for every action the calls, performed together on what is shown, give what
  the reducer shows next (`WriteFits`, `RenameFits`, `PagesMove` and so on). A course is a function given by its values, so that no induction over the queue is needed
  beyond the least place at which two courses differ.

Only model-checked: the liveness properties, since the prover has no fairness or `ENABLED`.

## Findings

1. *A rerun retires a computation in use* (`rerun_crash`). `connection/query_execution_args.ts:11-12`: the previous computation "can be
   retired before analyzing this result". When the previous execution is itself being analyzed, `CREATED_DATA_FRAME` may find no computation, and
   the reducer throws; or its next task is dropped, and it stays in `PROCESSING_RESULTS` for ever. The second outcome is the exception
   that `ExecutionsEnd` makes for an execution that another one has replaced.
2. *Adding a folder may replace a registered notebook* (`registry_overwrite`). `composite_storage_backend.ts:350-351`: it fails if "a notebook
   with the same UUID is already registered (we never silently overwrite an existing entry". The check looks at the routes, and a notebook in OPFS that was
   imported or created since the last start has none. The files in OPFS stay, but nothing refers to them.
3. *A schema disappears from the index by name* (`sql_index`). `docs/design/core_catalog.md:145`: "`schema.table` | Search all entries via `entries_by_schema` index". `UpdateScript` erases the
   key of a lost <database, schema>, but that key names the schema only. A script with tables in `d.a` and `e.a` that gives up the second is not found under `a` any more.

Known behaviours of the application that no run states. A rename that takes the place of an earlier pending one of the same name is executed ahead of the renames between them and may
overwrite another script's file (`native_storage_backend.ts:232-233` calls its destination free): with renames a to c, b to a and a to b in one debounce interval. This is the
exception `displaced` of `RenameTargetIsFreeInOrder`. A filter's version is allocated when it is scheduled, so that a sort over the rows of the filter before it may be accepted
after it and is shown until the sort over the new filter completes (`view/query_result/visible_rows.ts:9-10` says that an ordering runs over the filtered subset). Two relocations may overlap: the pause is one flag of the writer, and what disables the button is state of the overlay
(`view/storage/notebook_storage_overlay.tsx:114`), which is gone when the overlay is closed and opened again. The `flush()` of the second one then force-writes what the first one's pause held back, and lets timers through while it awaits; its
failure ends the pause. If the first one is copying meanwhile, OPFS is "mutated mid-copy" (`storage_migration_flow.ts:41`), and what is written there may be lost, since the first one deletes the old files. That nothing else disturbs a copy is
`NoWriteDuringCopy`; this case is its exception `disturbed`. When another program puts back what the app itself wrote last, after the user has accepted a different external version, the file is taken for the app's own
write and nobody is asked. An execution that is overtaken, or whose successor fails, leaves its computation and its DuckDB tables behind. A Refresh while the
previous result is on its way to the cache deletes nothing and is served by that result. Relocating a notebook into a folder that
holds another one replaces the other's manifest. A stop of the app, or a full disk, in the middle of a save to a folder leaves a truncated manifest (`native_storage_backend.ts:89`), and the notebook cannot be opened any more. A script that is reordered is deleted by one task and written again by another, and a stop of the app between them loses its text.
A folder made by another program may hold two pages of the same clean name, such as `1_a` and `2_a`. `reprefixPages` keeps clean names and gives each page the prefix of its place: put into the other
order, `2_a` is to become `1_a`, which is occupied, and neither move takes place (`native_storage_backend.ts:185-190` calls the destination free), while the notebook shows the pages exchanged. This is the case that the hypothesis
`NotebooksDiffer` excludes.

Known behaviour of the streams. A query whose Arrow result ends before the gRPC stream does, or whose read fails, ends without destroying the stream (`native_hyperdb_grpc_client.ts:133-153` only removes the listener of the abort):
the entry in `server_streams` stays, with up to a channel of messages, until the app is closed.

Known behaviours of the catalog, in the terms of `SqlCatalog`. `UpdateScript` does not repeat the check of ids that `LoadScript` makes (`catalog.cc:572-586`), so that two loaded scripts may have
different ids for one database or schema. `DropScript`, `Clear` and a failed `LoadScript` leave declarations behind that no script has; when a later update erases the database of such a schema,
scripts that declare it again get a schema id with the id of the old database, which `Flatten` does not find (`catalog.cc:383`). A bare table name is looked up in the script's own entry, too, which holds the
analysis of an earlier text (`catalog.cc:873`). A lookup by schema takes any table of the schema (`ResolveTableInSchema` does not use `table_name`), so that `a.missing` resolves if `a` has a table.

Besides these, `SecondAnswerIsStale` holds: the dialog at `native_notebook_sync_react.tsx:156` is opened only after an edit that changes the
generation compared at line 161, so that its "Reload" never applies and the user is asked once more.

Noticed in the code that `QueryExecution` abstracts from: `queryDurationMs` ("The total query duration", `connection/query_execution_state.ts:128`) is
a timestamp for cancelled and failed queries (lines 386 and 412); and `QUEUED` is never set, because line 295 asks for status `SENDING` while
progress is reported in `RUNNING` only.

## Not modelled, and the plan

Left out of the modules above:

* `StorageWriter`, `NotebookSync`: the writer's statistics; the moment at which catalog scripts are turned
  into text (at execution, not at `write()`); a relocation within `NotebookSync`; the replaced-notebook guard of a reload; React's batching.
* `QueryExecution`: of a query state the times and byte counts, the error, the batches and the flag set by `QUERY_CACHE_DELETED`; the order of the query
  lists; the access markers of the cache; the moment between the end of an execution and the removal of its runtime.
* `ScriptFiles`: prefixes of two digits and legacy hyphens, and with them the re-padding of names; `PROMOTE_UNCOMMITTED_SCRIPT`, the draft, focus and
  analysis; pauses, flushes and holds of the writer; the OPFS backend's files; failures of the file system other than missing files.
* `NotebookRegistry`: the order of the entries and the settings, although reordering and saving settings are there as updates; files other than metadata and scripts;
  a target folder that holds another notebook; more than one relocation at a time, and the saves that come through when there are; scripts that are written half way.
* `CrossFilters`: the analysis of the table, during which the data version changes; UMAP; more than one column; tables of other queries.
* `SqlCatalog`: columns, functions, common table expressions, the alternatives of an ambiguous name, the table a script publishes as `dashql.script."<path>"`, the flattened catalog and its completion, and the lifetime
  of the buffers that names and indexes point into.
* `ServerStream`: the Arrow reader beyond the moment at which it is done; the HTTP stream manager, which has the same shape and whose client never destroys a stream.

`PROJECT.json` lists the components that are out of scope with the reason. The rest of the SQL core is a set of large sequential algorithms over generated grammars; the
connectors, agents and the cloud worker are input and output around remote services; views draw.

What could follow: the composition of `StorageWriter` with `NotebookRegistry`, so that the saves that a relocation excludes follow from the pause instead of being a guard; the eviction of the
query result cache; the HTTP stream manager as a second implementation of `MessageStream`.

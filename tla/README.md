# A verification project for DocLattice

DocLattice is a Django application: corpora of versioned documents in a folder
tree, with Celery tasks that ingest, analyse and research them, and a GraphQL
API, websocket consumers and a React client in front. Its state is in
PostgreSQL. Every GraphQL request runs in one transaction
(`ATOMIC_REQUESTS`, `config/settings/base.py`) at READ COMMITTED, tasks open
their own transactions, and the database's row locks and constraints are all
that orders two of them. What is hard in this code is therefore what a unit
test on one connection does not reach: a row that is read, and written back
later; a check that is made before the transaction it protects; a worker that
dies, or is believed dead, between two commits.

Paths below are relative to `src/doclatticeserver/` unless they start with
`config/` or `docs/`.

## Inventory

| Component | State | Operations | Hard behaviour | What makes it correct |
|---|---|---|---|---|
| Document version store (`documents/versioning.py`, `documents/models.py`, `corpuses/models.py`, `corpuses/services/{lifecycle,paths,folder_documents}.py`, `config/graphql/document_mutations.py`) | `Document` rows (content tree), `DocumentPath` rows (path tree) | import (new, version-up, unchanged), add to corpus, move, rename, soft delete, bulk delete, empty corpus, remove, restore, restore to version, permanent delete, empty trash | requests that lock their rows overlap with requests that do not; full saves of stale rows; cascades | rules C1-C3, P1-P6, I1 of `versioning.py`: history is immutable, numbered and acyclic, one head per version tree, corpora isolated, only trash is purged |
| Corpus folder tree (`corpuses/services/folders.py`, `paths.py`) | `CorpusFolder` rows; folder and path string of each current `DocumentPath` | create, rename, move, delete (keeping or trashing contents), structure from zip paths | checks before the transaction; statements of one transaction that see different snapshots; a constraint that NULL escapes | a forest, names unique, documents never stranded, folder-derived paths follow their folder |
| Worker upload queue (`worker_uploads/tasks.py`) | `WorkerDocumentUpload.status`, `processing_started` | submit, claim batch (`skip_locked`), process, fail, sweep stale | a worker that is slow and one that is dead look alike | each upload is imported, at most once; none waits for ever |
| Chunked uploads (`document_imports/services.py`) | sessions, parts, status | create, store part, complete, purge | assembly without the session lock | a completed session is exactly its parts; parts are not purged under an assembly |
| Ingestion (`tasks/doc_tasks.py`, `pipeline/`) | processing state of a document, pending annotations | parse, retry, remap, finish | retries and duplicates | annotations are imported once; a document leaves "processing" |
| Research reports (`research/`, `tasks/research_tasks.py`) | report status, log, findings, cancel flag | start, run, append, cancel, reap, finalize | reaper re-enqueues a live worker's report | one active report per user and corpus; a terminal report stays terminal |
| Authority frontier (`enrichment/services/authority_frontier_service.py`) | rows queued, in_progress, done, failed | seed, claim, settle, requeue | concurrent crawls | no row is crawled twice at once; none is lost in progress |
| Corpus actions and agent results (`tasks/{agent,corpus}_tasks.py`, `corpuses/services/corpus_actions.py`, `agents/models.py`) | executions and results with a status, tasks in the broker | trigger, run, batch-run, claim, answer, fail, retry | redelivered and doubled tasks on one result; saves of old instances | one agent at a time on a document, one answer; every execution ends |
| Analyses and extracts (`analyzer/services/`, `tasks/data_extract_tasks.py`) | status, tasks outstanding | dispatch, callback, finish, delete | duplicate dispatch | one active analysis per analyzer and corpus |
| Rate limiter (`config/ratelimit/engine.py`) | counters in a cache | add, incr, expire | expiry between two calls | no more than the quota per window |
| Blob storage (`documents/models.py`) | blobs, references from documents | share, delete when unreferenced | count, then delete | a referenced blob exists |
| Conversations and votes (`conversations/models.py`) | messages, locks, approvals, votes | post, lock, delete, approve, vote | approval racing a resumed agent | an approved call runs once |

How they interact: uploads, worker uploads, zip imports and agents all write
documents through the version store (`Corpus.import_content`,
`Corpus.add_document`). A new `DocumentPath` row fires a signal that starts the
ingestion tasks and the corpus actions. Folder requests rewrite the path rows
of the store. Analyses, extracts, research and enrichment read documents and
write their own rows. Components share the database; there are no in-process
callbacks between them other than Django signals.

`PROJECT.json` lists the remaining components (permissions, embeddings,
exports, notifications, LLM agents, the API layers, the frontend) with the
reason why they are not modelled, and under `hazards` each place in the code
that is hard to test.

## Plan

The order is by importance: first the store on which all others write, then the
queues and sessions in the order of what a lost or doubled step costs.

1. `DocVersioning`, with `CorpusFiles` and `DocFilesystem`: done, with proofs.
2. `CorpusFolders`: done, with proofs.
3. `WorkerUploads`: done, with proofs and liveness.
4. `ChunkedUploads`: done, with proofs and liveness.
5. `ResearchReports`: done, with proofs and liveness.
6. `Ingestion`: done, with proofs and liveness.
7. `AuthorityFrontier`: done, with proofs.
8. `AgentActions`: done for agent actions on documents, with proofs and liveness.
9. Left: the completion of analyses and extracts with the executions that wait for
   them, the rate limiter, shared blobs, approvals in conversations.

Each module has one passing run or two, and where code and docs disagree in a
way that only an interleaving shows, a run that finds the disagreement. The
suite is kept to twelve runs so that it can be run after every change; the
disagreements that need no run to be believed are listed under
[Divergences](#divergences-without-a-run).

Compositions: `DocFilesystem` composes the store with the abstract filesystem;
`Ingestion` composes the chains of several documents with the importer and the
finalizer; the other components share no state but finished documents.

Every safety and action property of the runs, and the refinement, is now
proved for every value of the constants; what stays with TLC is listed at the
end of [What is proved](#what-is-proved). Still worth proving: an assumption
weaker than running alone under which the folders stay a forest (a stale move, and a
deletion that sends children up to a parent it read too early, both can close a
cycle), and what a request on a version tree may still rely on when another
one works on the same tree.

## How the models relate to the code

A table is a function from primary keys to rows; a sequence is a counter that
is never reset, and its order is the order of `created`. A request that takes
its rows with `select_for_update` is one action: between lock and commit
nobody changes what it read, and what it writes nobody sees. A request that
reads without a lock is split where it reads: `Start...` copies rows into `op`
(the Python objects in memory), `Commit...` runs its writes on whatever the
tables hold by then. A full `Model.save()` is `Put`: it updates the row, and
inserts it when it is gone. A transaction whose result breaks a constraint
rolls back. `Fail` is an exception or a crash at any point before the commit.
Where the code looks for a free name or path without a lock and inserts later, the unique
index decides: what is committed was free when it was inserted, and the loser
of a race rolls back and takes another candidate or gives up.
Permissions are granted, and logging, signals and payload building have no
state. Path strings are records or sequences of names; what disambiguation and
the file-name split do to them is kept, the characters are not.

### DocVersioning

| Variable | Code |
|---|---|
| `docs` | `Document`: `version_tree_id`, `parent`, `is_current` |
| `nodes` | `DocumentPath`: `document`, `corpus`, `path`, `version_number`, `parent`, `is_deleted`, `is_current`, and the three lineage fields as one value `ext` |
| `lastDoc`, `lastNode` | the primary-key sequences |
| `op` | the rows an unlocked request holds in memory |

Locked requests: `ImportNew`, `ImportVersion`, `ImportMetadata`,
`RecordMetadata` (the four outcomes of `import_document`), `AddDocument`,
`MoveToFolder`, `Rename`, `EmptyCorpus`. The last stands for every
`bulk_soft_delete_documents`: on documents that a user chose, or that `empty_corpus` or the deletion of a
folder has listed; they list without a lock and lock later, so any document may be missing from
the list. `Disambiguated` is the set of paths that
`disambiguate_path` and the insert after it can end up with: free by now, but not
always the first that is, as a candidate that was taken when it was read may have been
given up since. A restore disambiguates at its commit. Unlocked requests:
soft delete, `Corpus.remove_document`, restore, restore to version (three
steps: it reads the current version, then the path, then writes), permanent
deletion (which `empty_trash` runs per document).

`Spec` lets all of them overlap. `SpecApart` is the same next-state relation
where no step changes a version tree that another request in flight has read:
the assumption under which the unlocked requests were written. `CorpusFiles`
is what the store promises its users, a filesystem of files that are created,
replaced, moved, trashed, restored and purged; `DocFilesystem` gives the
refinement mapping (a file is a version tree with a current path node).

### CorpusFolders

| Variable | Code |
|---|---|
| `folders` | `CorpusFolder`: `name`, `parent` |
| `place` | the current `DocumentPath` of each document: `folder`, the directory of `path`, `is_deleted` |
| `op` | a folder request: what it loaded, then what its open transaction has written |

A folder request loads and validates (`StartRename`, `StartUpdate`, `StartMove`,
`StartDelete`; `Create` and `StartEmpty`, `empty_corpus`, have no folder to load), runs its statements
(`SaveRelocate`; `SaveUpdate`; `EmptyOut`, or `ListContents` and `TrashListed`, then `DeleteRows`) and ends in
`Commit` or `Fail`. Its writes are its own until `Commit`; other requests wait
for the rows it has written. `update_folder` saves the whole row that it loaded, also
when neither name nor parent changes (`StartUpdate`). A deletion with contents is three
steps: the documents are listed without a lock, then locked and trashed, and the
cascade sees rows that were committed after both. The
documents' requests are atomic here; how they overlap with each other is the
subject of `DocVersioning`. `SpecApart` runs folder requests alone.

`get_path()` and the tree queries are modelled as queries on the committed rows
and the request's own writes: a folder that is deleted, or below no root, is in no tree. django-tree-queries is not part of the
repository; were it to answer from an ancestor list kept on a loaded instance,
more would go wrong than the model says (see the hazards).

### WorkerUploads

| Variable | Code |
|---|---|
| `status`, `stale` | status of `WorkerDocumentUpload` and `WorkerAuthoritySectionBatch`; whether `processing_started` is before the sweep's cutoff |
| `file` | the staging file of an upload |
| `imported` | documents that were made from an upload |
| `slot` | what a Celery slot executes: its step, the uploads it claimed and has not opened (`pending_ids`), the row in hand, batches claimed so far |
| `overrun` | history: uploads that the sweep took from a live slot |

Every commit is an action, and so is every point between two commits where a
slot may die: claim (`ClaimUploads`), import up to its end or its exception
(`OpenUpload`), commit (`CommitImport`, with the status, in one transaction),
`FailUpload`, `CleanUp` of the file, and the end of the task. `ClaimBatch` and
`FinishBatch` are the section drain. `Sweep` is one action since the rows it
selects stay locked until it commits; its two transactions touch disjoint
tables. It sees rows of live slots as well as of dead ones, as no slot keeps a
row locked while it works on it. Time is abstract: `Age` may make a row stale at
any moment after its claim. Claims take the oldest rows in the code and any
rows here, so the model allows every order of arrival. `Crash` is the death of
a slot or an exception that leaves the task. A settled batch row stands for a
later batch, so that pushes never end.

### ChunkedUploads

| Variable | Code |
|---|---|
| `status`, `stale` | `ChunkedUploadSession.status` and whether `modified` is before the purge's cutoff; `"ABSENT"` and `"GONE"` stand for no row |
| `lock` | the request that holds the row lock of the session, from `select_for_update` or from its compare-and-swap |
| `parts`, `files` | `ChunkedUploadPart` rows; the storage, with the names it can give to a part's file |
| `imported` | committed imports of the session |
| `req`, `purge` | where each request and the purge task are, and what they hold in memory |
| `selected`, `tainted` | history: a purge has selected the session; something broke off after it had touched the storage |

A request is one transaction, so it is split where it waits for the row lock and
at each access to the storage, which no transaction covers: `StoreBegin`,
`StoreLock`, `StoreFile`, `StoreCommit` for a part; `CompleteCheck`,
`CompleteClaim`, `CompleteList`, `Assemble`, `CompleteFailed`, `CompleteClean`,
`CompleteCommit` for the import. `ASSEMBLING` is written and overwritten in one
transaction, so nobody else reads it: it is the lock. The purge commits
each statement (`PurgeSelect`, `PurgeList`, `PurgeFile`, `PurgeRows`,
`PurgeSession`). `Break` rolls a request back, the storage excepted.

### ResearchReports

| Variable | Code |
|---|---|
| `status`, `findings`, `steps`, `stale` | the `ResearchReport` row: status, findings, `step_count`, and whether `last_progress_at` is before the reaper's cutoff |
| `queue` | messages in the broker |
| `worker` | each worker's step, the findings of the instance it loaded, and what its run has retrieved |
| `recorded`, `told`, `composed`, `legs`, `shared`, `reopened` | history: findings ever recorded, notifications sent, compositions, runs, two workers at once, a run started on an ended report |

`Deliver` to `Tell` are the commits of `run_deep_research`; what the language
model decides is a choice (`Retrieve`, `RecordFinding`, `FinalizeReport`,
`ChatEnds`). `RecordFinding` and `FinalizeReport` lock the row; `MarkStarted`,
`MarkFailed`, `MarkCancelled` are saves from an instance, whatever the row has
become. `Die` is a death, with or without a redelivery; `Reap` sends a message
for a report whose worker may be alive.

### Ingestion

| Variable | Code |
|---|---|
| `status`, `locked`, `parsed` | `processing_status`, `backend_lock`, and whether there is a text layer, of each `Document` |
| `row` | status of its `PendingDocumentAnnotations` |
| `import`, `holder` | status of the `PendingCorpusImport`, and who has that row locked |
| `at` | where each chain and the importer are |
| `final` | deliveries of `finalize_corpus_import_relationships` |
| `sweep` | the document that `reconcile_stuck_documents` has read and is about to mark |
| `imports`, `dispatched`, `wired`, `overwritten`, `disturbed` | history |

Each task of a chain is split between what it reads and what it saves:
`Convert`; `IngestBegin`, `IngestEnd`; `Remap`, `AnchorClaim`, `AnchorCommit`;
`Unlock`, `UnlockSave`; `Errback`, `ErrbackMark`. `Trigger` is
`_maybe_finalize_corpus_import`, by a chain or by the importer: `Observe`,
`Claim`, `Yield`, `Dispatch`. Between `Claim` and `Yield` the observer has
looked and still has the lock, which is the race of the run `import_lost`. `Redeliver`
begins a second chain at a task that still runs or that has just sent its
successor; `Retry` begins one by the user's wish; `Die` rolls back.
`ImportDocument` creates a document with its pending row and its chain;
`ConvergeDocument` finds one that is there, unchanged, and adds a row that is DONE from the
start, `"KEPT"` in the model, and no chain. Such a document has an outcome already; one that
an earlier import still works on is not distinguished from a new one.

### AuthorityFrontier

| Variable | Code |
|---|---|
| `row` | `AuthorityFrontier` of each key: primary key, `discovery_state`, `depth`, whether it has a document, and of `candidate_sources` the candidates listed, the responses approved and the one that waits for approval |
| `worker` | a crawl, or discovery on a selected row: step, scope, the row in hand and the instance that was read of it, the tally per jurisdiction |
| `admin` | what a superuser's request is about to write, and the instance it checked |
| `trail`, `granted`, `shared`, `stale`, `lost` | history: what was recorded and approved; keys that were put back, or selected, beside a worker; keys whose trail grew beside an older instance; keys in progress that a dead worker, or one that an exception ended, has left |

`Claim` is `dequeue_queued` (`skip_locked`, one action); `Park`, `Begin`,
`Fetch`, `Refuse`, `Bootstrap`, `Settle`, `Cite` are what `crawl` and
`discover_and_bootstrap` commit for the row in hand; `Seed` is `get_or_create`, for several
keys at once (in the code each key is a transaction of its own, and nothing reads
several of them). `Escape` is an exception that no handler has: the choice of a
provider, a type that `Fetch` does not catch, the search for citations; `Die` is
a death.
Every save writes its `update_fields` from the instance, and raises when the
row is gone (`Raises`). `Ask` is a request's check, on an unlocked read;
`Requeue` (also reset and reroute) and `Approve` are its write. `Delete` leaves a key
whose row comes back with another primary key.

### AgentActions

| Variable | Code |
|---|---|
| `exec`, `force` | `CorpusActionExecution.status` of each execution, and whether its task has `force=True` |
| `result` | the one `AgentActionResult` of the action and the document: status, and whose `agent_response` it has |
| `queue` | messages in the broker, by execution and number of retries |
| `worker` | each worker's step, its execution, `request.retries`, and the response in the instance it claimed |
| `lost`, `answered`, `crossed` | history: messages and tasks that are gone for good, answers, writes over a result that was finished or in other hands |

`Trigger`, `RunNow` and `BatchSelect`/`BatchQueue` are the three requesters;
the last is split, since its look for earlier executions locks nothing.
`Deliver` to `Complete` are the commits of `run_agent_corpus_action`: `FindNone` and
`Create` are two steps as there is no row to lock, `Claim` holds the row's
lock. `FailExecution`, `FailResult` and `Retry` are its handler. `Die` and
`Redeliver` are the broker's at-least-once delivery. Two executions
stand for two triggers, a trigger and a forced run, or two batch requests.

## Runs

Counts are distinct states. The runs of the store and the folders need no
fairness: the properties are safety properties and every request may stop at
any time, so deadlock checking is off (a quiescent store, or a store at its
bounds, may stop). It is also off where a finished report, import, session, execution or
crawl is the end; `uploads` and the runs of the folders check for deadlock.

| Run | Specification | Bounds | Shows |
|---|---|---|---|
| `doc_overlap` | `DocVersioning!Spec` | 2 corpora, 1 directory and name, 1 lineage, 2 unlocked requests, 3 documents, 4 path rows | `TypeOK`, `VersionsCount`, `CorpusIsolation`, `HistoryImmutable`, `HeadsAreReplaced` under any overlap (183 310) |
| `doc_apart` | `SpecApart` | 1 corpus, 2 directories, 2 requests, 3 documents, 5 path rows | `OneHeadPerTree`, `VersionIsDepth`, `ImplementsFiles` (48 377) |
| `folders_overlap` | `CorpusFolders!Spec` | 2 folders ever, 2 names, 1 document, 2 folder requests | `TypeOK`, `DocumentsKeepTheirFolder`, `TrashKeepsItsPaths` (1 185 212) |
| `folders_apart` | `SpecApart` | 3 folders ever, 2 names, 1 document | `RelocationKeepsPaths`, `NoDocumentStranded` (244 910) |
| `uploads` | `WorkerUploads!Spec` | 1 upload, 2 section batches, 2 slots, claims of 2, cap 2, 2 crashes | `TypeOK`, `FileOutlivesUpload`, `StatusTellsImport`, `EveryPushSettles` (97 730) |
| `chunked` | `ChunkedUploads!Spec` | 2 parts, 3 file names a part, 2 requests at once, 4 calls, 1 fault | `TypeOK`, `ImportedOnce`, `ImportedWhole`, `RowsMatchStorage`, `EverySessionPurged` (438 916) |
| `research` | `ResearchReports!Spec` | 2 findings, one a card, 2 workers, 1 message at once, 1 fault | `TypeOK`, `FindingsKept`, `FinalizedOnce`, `OwnerIsTold`, `EveryRunEnds` (882 971) |
| `ingest` | `Ingestion!Spec` | 1 document, 2 chains, the importer, 2 finalizers, 1 fault | `TypeOK`, `AnnotationsOnce`, `FanInOnce`, `OutcomeStands`, `EveryIngestionEnds` (537 654) |
| `frontier` | `AuthorityFrontier!Spec` | 1 key, 2 workers, 1 superuser, 3 responses of which 2 need approval, 1 candidate, 2 requests; deaths unbounded | `TypeOK`, `OneWorkerPerRow`, `IngestedAsApproved`, `TrailKept`, `NothingStranded` (2 124 900) |
| `actions` | `AgentActions!Spec` | 2 executions of one action on one document, 2 workers, 1 retry, 1 fault | `TypeOK`, `OneAgentAtATime`, `EveryExecutionEnds` (522 096) |

Why the bounds are enough: four path rows make a chain of three nodes beside
another file, so a version-up, a move and a trash of one document can meet a
second document at the same path; three documents let a second corpus hold a
copy, or an old version be restored as a third. The overlap is pairwise, as
every race here is between a stale read and one other commit; a third request
only adds commits, which the locked requests already are. Two folders suffice
for a cycle, a collision and a deletion under a move; three make a path two
levels below the folder that is renamed. Corpora, names and request slots are
symmetric in the runs that check no liveness. In `uploads` two batches are
enough to keep both slots busy for ever, were it not for the cap; two slots and
two crashes let an upload be claimed, lost, claimed again and lost again, or be
held twice. In `chunked` four calls store both parts and leave two for a repeat,
a second completion, or a part that comes too late; a third file name lets a part be
stored while two names are taken. In `research` one fault makes a death and
its redelivery, and the reaper, which is bounded by the queue only, brings
the second worker beside a live one; a card and another finding tell the evidence
gate from a lost update. In `ingest` two chains are a retry, or a redelivery, beside
the first; the fan-in of one document has two observers, its chain and
the importer, and with a second chain three. In `frontier` the interesting
cases are all on one row: two workers, one of which may have been selected onto
the row of the other, an approval between read and save, a row that is deleted
and seeded again; two responses that need approval tell an approval from the
approval of something else. In `actions` two workers have the same task, by a redelivery, or two
executions of one result; with one retry and one fault a failure, its mark and the
second attempt fall between any two steps of the other worker. The safety and
action properties of all these runs, and the refinement, are
proved for all constants, so the bounds serve the liveness properties and
the mutants only.

### Fairness

`WorkerUploads`: a slot goes on with the task it has begun (weak, since nothing
disables its next step but its death); a row in process becomes stale; the two
claims and the sweep happen again and again if there is again and again an idle
slot and something for them (strong). The last holds because Beat sends each of
the three tasks every one or five minutes (`config/settings/base.py`, lines
876-891), the broker hands tasks out in the order they came, and a claim takes
the oldest rows. That the deaths of slots end is the bound `MaxCrashes`; if
they never did, an upload that kills its slot would be retried for ever. The
same holds of `MaxFaults` in the other modules.

`ChunkedUploads`: a request in flight goes on (weak; it may end by `Break`,
too), an untouched session grows old, and Beat starts the purge every hour. The
purge's last statement waits for a row lock that one request after the other may
take; PostgreSQL queues those who wait, so it is strongly fair.

`ResearchReports`: a worker goes on: every run ends at its usage limits or at
the soft time limit at the latest, both of which are enabled throughout; some
worker takes a message that waits; a RUNNING report without progress becomes
stale, and Beat starts the reaper every five minutes.

`Ingestion`: the importer arms the import once it has enumerated the archive;
chains, observers and finalizers go on with what they have begun, with a
deadline in the parser and a retry limit; the sweep, every five minutes, gets to
each document that is in process again and again (strong: a retry and a failure
may come in between).

`AgentActions`: workers take what is in the broker, and a task goes on to its end,
as the agent has usage limits and the task a time limit (weak: nothing else
moves a worker). A task is sent again `MaxRetries` times at most.

`AuthorityFrontier` states no fairness. That a crawl ends follows from its bounds
and the tally, and nothing in the code waits for another step to happen; a row
that a dead worker leaves in progress stays so (see the divergences).

### Runs that find a disagreement

Each finds a counterexample to what the code or its documents say:

| Run | Property | What happens |
|---|---|---|
| `folders_cycle` | `AllReachable` | two concurrent moves make a cycle, and both folders leave the tree |
| `import_lost` | `ImportFinalizes` | the last remap finds the import locked by an observer that has already looked: nobody finalizes it. No fault is needed, and the fairness of the module is assumed |

### Divergences without a run

They were met while modelling, are plain in the code, and the models contain
the behaviour (or say where they leave it out).

Version store and folders:

- An unlocked soft delete against a version-up or a move leaves the document
  both in the trash and active (`corpuses/services/lifecycle.py:134`; rule P3,
  `documents/versioning.py:17`).
- Permanent deletion checks the trash without a lock
  (`documents/versioning.py:1014`; docstring at 982): a restore that commits
  between the check and the deletion makes the document active, and it is
  deleted for good (`StartPurge`, `CommitPurge`).
- The time-travel query shows a moved file at its old path too
  (`documents/versioning.py:919`; `docs/architecture/document_versioning.md:236`).
- An upload between the trash query and the cascade of a folder deletion stays
  active, without a folder (`corpuses/services/folders.py:917`; docstring at 745).
- Move, rename, trash and restore by the corpus services drop the ingestion
  lineage, which a comment says they copy (`documents/versioning.py:518`).
- A full save of a stale row inserts it again after a permanent deletion (`Put`
  in `CommitRestoreVersion`) or a folder deletion (`Put` in `SaveRelocate`).
- `update_folder` saves every column of the row it loaded before the transaction, so a change of
  the color undoes a rename or a move that was committed meanwhile, without the
  path rewrite, or brings a deleted folder back (`corpuses/services/folders.py:567`; `StartUpdate`, `SaveUpdate`).
- A document that is moved out of a folder between the listing and the lock of a deletion with
  contents is trashed although it is in another folder by then
  (`corpuses/services/folders.py:918-929`; `TrashListed`).
- `empty_corpus` asks the tree manager for the folders to delete, and it does not find
  folders on a cycle: they stay (`corpuses/services/lifecycle.py:422`; `Doomed`).
- Deleting a folder without its contents reparents its sub-folders without the
  path rewrite and the name check of `move_folder` (`EmptyOut`), so documents
  keep the name of the deleted folder in their paths and two root folders can
  get one name.
- A zip import into a target folder stores paths without their leading slash
  (`Upload`, where such a path is `Elsewhere`).

Worker and chunked uploads:

- The sweep takes an upload from a live, slow slot, and it is imported twice
  (`worker_uploads/tasks.py:158`; `docs/architecture/worker_celery_setup.md:74`).
- The purge is said never to race a live completion
  (`document_imports/services.py:1402`), but `ASSEMBLING` is never committed
  while one is live: the purge sees `PENDING`, deletes the files of the parts,
  and the session after the completion.
- A part that is repeated between the integrity check and the claim makes the
  check stale (`document_imports/services.py:1261`); one that waited for
  the lock is added to a session that has ended meanwhile.
- The failure path is meant to let "the client ... re-attempt" (line 1247), but
  a FAILED session refuses; when what raised came after the document was made,
  the document stays with a FAILED session. A part file that is missing raises
  out of the assembly and rolls back to PENDING instead of FAILED.
- A crash after the part files are deleted and before the commit leaves a
  PENDING session whose rows lead nowhere.

Research reports (`RR` is `research/services/research_reports.py`):

- A requested cancel does not cancel: `ResearchCancelled` is raised inside a
  tool, and the tool wrapper (`llms/tools/pydantic_ai_tools.py:612`) answers the
  model with it (docstring of `request_cancel`, `RR:1173`).
- The soft time limit after a finalize makes a COMPLETED report CANCELLED
  (`RR:312`; comment at 745); `mark_started` opens an ended report again; the
  end of a resumed run withholds, and removes, cards that were recorded before a crash.
- Two first `start` requests both create a report, which the guard's comment
  (`RR:160`) says it prevents.
- A report whose first message is lost stays QUEUED: the reaper looks for
  RUNNING. A death between the terminal write and the notification notifies
  nobody. A salvage that is refused, or rolled back by a database error in the
  copy to the workspace, is announced as a completion.

Ingestion (`tasks/doc_tasks.py`):

- A retry while the failed document's first chain is still running lets the old
  chain unlock the document as COMPLETED, and the new one fail it unlocked
  (line 391; docstring at 119).
- A parse that is refused for permissions returns without marking the document,
  and the chain completes it, unparsed (lines 746-769).
- A retry whose chain was not sent leaves the document PENDING for ever; the
  sweep looks for PROCESSING. The clock of the sweep starts at creation, so a
  backlog of more than its window makes it fail documents that a chain is
  working on, which the comment (`config/settings/base.py:955`) excludes.
- A row that failed because its document did is not anchored again when a retry
  succeeds.
- A death between the last remap's commit and its trigger, between FINALIZING
  and the dispatch, or of the importer before it arms the import, leaves the
  import unfinished; the code defers a sweeper for it. A failing finalizer may
  overwrite another's DONE with FAILED (line 2055), and a redelivery then wires
  the relationships twice.

Corpus actions (`tasks/agent_tasks.py`):

- Two first tasks of a document both find no result; the loser of the insert
  raises, and the handler marks the winner's RUNNING result FAILED (line 517), so
  that the loser's retry claims it and a second agent runs beside the first
  (`docs/architecture/agent_corpus_actions_design.md:80`, and the test
  it names at 421). `OneAgentAtATime` excludes it by `crossed`.
- After a death the redelivered task finds the dead run's result RUNNING and skips: the
  execution is COMPLETED, not SKIPPED (`mark_skipped`,
  `corpuses/models.py:2551`, has no caller here), and the result stays RUNNING,
  which only a forced run mends.
- An error in `mark_completed`, or in the link after it, makes the handler
  mark a completed result FAILED, and the retry asks the agent again.
- A forced run that fails saves the whole instance it claimed, over an answer
  that another run has given since.
- Batch-run says that it "narrows (does not eliminate) the double-queue race"
  (`corpuses/services/corpus_actions.py:117`). An execution whose message was
  lost stays QUEUED and keeps the document out of every later batch.
- Fieldset actions: the callback after the commit sends the chord and then marks the
  executions RUNNING (`tasks/corpus_tasks.py:350`); a chord that is quicker leaves
  them so for ever. `mark_extract_complete` completes all RUNNING executions of an
  extract that several triggers share, those included whose cells still run.
  Analyzer actions: an analysis that ends before its executions are linked to it
  completes none of them.

Authority frontier (`enrichment/services/`):

- A row in progress whose worker died "stays until an admin resets it by hand"
  (`authority_discovery_service.py:529`), but reset, requeue and reroute refuse
  a row in progress; only deletion or discovery on the selected row helps.
- An exception strands a row in the same way, with nobody dead: `provider.fetch` catches a
  fixed list of types (`authority_discovery_service.py:451-459`), against "a failure here
  ... must not strand the row in in_progress" (616) and the comment at 525-533, which knows
  dead workers only. Uncaught as well are the choice of a provider and, after the row is settled,
  the search for citations (`Escape`).
- "append-only; never overwrite prior attempts"
  (`authority_frontier_service.py:562`): `mark` saves the list from an instance
  that may be older than an approval.
- The verbs of superusers check the state on an unlocked read, so a row can be
  put back while a worker takes it, and is then processed twice.
- An approved row that was ingested before keeps its document, and the
  constraint refuses it the queue. The depth of a row is never lowered. A crawl
  that dies between the mark and the next seeds never seeds them.

## What is proved

### DocVersioning: whatever requests overlap

`DocVersioningProofs` proves, for every corpus, path, request set and bound,
under arbitrary overlap (`Spec`):

- `TypeCorrect`: `Spec => []TypeOK`
- `VersionsAlwaysCount`: `Spec => []VersionsCount`
- `CorporaAreIsolated`: `Spec => []CorpusIsolation`
- `HistoryIsImmutable`: `Spec => HistoryImmutable`
- `HeadsAreAlwaysReplaced`: `Spec => HeadsAreReplaced`

The assumptions are the named ones of the module: the bounds are natural
numbers, and the absent lineage is not a lineage.

The properties are not inductive, because the requests in flight write from
rows they read earlier, and those rows may since have been superseded, or
deleted and their keys' rows cascaded away. The strengthening is a ledger:
`Inv` says there are functions that assign to every path id ever issued the
immutable part of its row (document, corpus, path, version, parent), and to every
document id its tree and the corpus of that tree, such that every row of the
tables and every row in memory agrees with them (`Agree`), and the ledger itself
satisfies the rules: parents are older, versions count, trees stay in their
corpus. A step extends the ledger with the ids it issues and changes nothing
in it; so a stale row that comes back is still the row that was there.
Immutability of history follows from the agreement before and after a step,
and the replacement of heads from the form of each write.

### DocVersioning: requests that keep apart

For `SpecApart`, where no step changes a version tree that another request in
flight has read, with the same assumptions on the constants:

- `OneHeadAlways`: `SpecApart => []OneHeadPerTree`
- `VersionsAreDepths`: `SpecApart => []VersionIsDepth`
- `StoreIsAFilesystem`: `SpecApart => ImplementsFiles`

None of the three holds under `Spec`: TLC finds counterexamples to the first and the
third within the bounds of `doc_apart`, and to `VersionIsDepth` with four documents and
six path rows (two restores of one file, an upload over the one, a restore
to version of the other). The hypothesis is on the steps and not on the number of
requests: requests on different version trees overlap as they like, in any corpus.

The invariant is `Inv` and `ApartInv`, where `ApartInv` is `SchemaOK`, `Forest` and
`Fresh` for every request. `Fresh` says that the rows in memory are the rows of the
tables, and are what the kind of request has looked for (a restore holds a current row
in the trash, a soft delete an active one). `Forest` says that a document's
parent is older and in its tree (`DocTrees`), that a path row is in its parent's
tree (`NodeTrees`), that a tree has one head and the head's document is the
current one (`OneHead`), that no path has more suffixes than its node has
ancestors (`ShortPaths`: the bound on suffixes never cuts a
path off), and that some function counts the ancestors of every document and agrees
with the version numbers of the path rows (`Depths`).

Every write is one of five forms (a new tree; a head that gets a successor,
with or without a new version of the document; heads that get successors in the
trash; a cascade), and for each form the proof shows that the forest is
preserved and which step of `CorpusFiles` it is, or that no file changes: this is the refinement,
step by step. `VersionIsDepth` is about a recursive function. That its equation has
a solution is `Depths`; that it has one only follows because parents are older: the
oldest document on which two solutions differ would have an older one. The
least number of a set comes from the well-foundedness of `<`, which the library states
without a parameter.

### CorpusFolders

`CorpusFoldersProofs` proves, for any names, documents, requests and number of
folders, under arbitrary overlap (`Spec`; `NamesAssumption`: the directory that no
folder explains is not a name):

- `FoldersTypeCorrect`: `Spec => []TypeOK`
- `FoldersKeepDocuments`: `Spec => DocumentsKeepTheirFolder`
- `FoldersLeaveTheTrash`: `Spec => TrashKeepsItsPaths`

`Subtree` is the least set that is closed under children. So what holds of a root, and
of the children of what it holds of, holds of all that is `Reachable`: by this
induction `get_path` is defined on all of it and gives sequences of names. The
invariant `Inv` adds three facts about open transactions. `Locks`: no two
requests have written the path row of one document. `Kept`: a row that a request
has written is in the folder of the table's row, unless that folder goes when it
commits; so a commit puts back no older folder. `InTrash`: over a row that is in the
trash, a request has written one that is in the trash, with the same path; this rests on the
lock as well, since a document that was active when it was listed or reconciled cannot
be trashed before the commit. What the database checks at a commit (`ConstraintsHold`) is
part of `Inv`, since the tree queries need it, and no result of its own.

For `SpecApart`, where folder requests run one after the other:

- `AloneAllReachable`: `SpecApart => []AllReachable`
- `DeletionStrandsNothing`: `SpecApart => NoDocumentStranded`
- `RelocationsKeepPaths`: `SpecApart => RelocationKeepsPaths`

The first is what `folders_cycle` refutes when two moves overlap: so it is the
overlap, and nothing else, that loses folders. `AloneInv` says that all folders are
reachable, that one request at most is under way, and that it is `Ready`: what it
has loaded is what the tables hold, and what it has written will do. `Emptied`, after the
first statement of a deletion, says that whatever is active at or below
the folder has been sent away; `Written`, before a commit, that the tables it leaves
have every folder reachable, that no active document goes with a folder, and that, when nothing
is deleted, path strings that were right stay right. The lemmas under it are
about trees that change: a folder that hangs off a root is not its own parent;
outside what lies below a folder no path changes when the folder gets a new row
(`SamePaths`); the path of a folder below it is the folder's path and a rest that
the new row does not change (`RestOfPath`), which is why the reconciliation finds the
documents by prefix and rest; children that go up stay reachable and leave nothing below
(`RaisedTree`); a folder that goes with all that is below it cuts nothing off
(`PrunedReachable`). All are inductions over the tree, by the least closed set.

### The other components

`WorkerUploadsProofs` proves, for any rows, slots, claim sizes and number of
crashes (`QueueAssumption`: uploads and batches are different rows, the bounds
are natural numbers):

- `QueueTypeCorrect`: `Spec => []TypeOK`
- `FilesAreKept`: `Spec => []FileOutlivesUpload`
- `ImportedAsTold`: `Spec => []StatusTellsImport`

`FileOutlivesUpload` needs that a slot about to delete a file works on a
settled upload (`CleanUpSettled`), and that an upload never leaves the settled
states. `StatusTellsImport` needs
ownership (`OneOwner`): an upload that was never overrun and that some slot
holds is `PROCESSING`, and no other slot holds it. A claim preserves this since
it takes `PENDING` rows only, the sweep since it adds what it takes from a live
slot to `overrun`; a crash only loosens it.

`ChunkedUploadsProofs` proves, for any parts, names, requests and bounds:

- `UploadTypeCorrect`: `Spec => []TypeOK`
- `NeverImportedTwice`: `Spec => []ImportedOnce`
- `StorageAgrees`: `Spec => []RowsMatchStorage`
- `ImportedWholeUnlessPurged`: `Spec => []ImportedWhole`

The argument goes through the lock: `ClaimPending` says that who has claimed
the session still finds it PENDING, which makes the compare-and-swap exclusive
although its result is never committed; `ImportedOnce` follows. `StorageKept` adds
that the lock holder's part is the only one whose row and file may disagree,
and that no two parts share a file; `WholeKept` carries the set of parts from
the check, through the claim and the list, to the assembly. `ImportedWhole` and
`RowsMatchStorage` are about sessions that no purge has selected, and the sizes
about those that no part has overtaken: in the excluded cases a truncated file may be imported
(see the divergences).

`ResearchReportsProofs` proves, for any findings, cards and workers:

- `ReportTypeCorrect`: `Spec => []TypeOK`
- `FindingsKeptUntilComposed`: `Spec => []FindingsKept`
- `ComposedOnceUnlessReopened`: `Spec => []FinalizedOnce`
- `OwnerLearnsWithoutFaults`: `Spec => []OwnerIsTold`

Each says less than a reader may hope. Findings are all there until a composition, and
after it when the report had one run only; a composition after a resumed run may
withhold cards, and of one by workers that share the report nothing is said. That a report is not composed twice
holds unless a run was started on one that had ended. That the owner
learns the outcome holds while there was no fault.

`FindingsKept` needs that in its first run (`OneRun`, `legs = 1`) whatever is
recorded has been retrieved, so the gate withholds nothing, and that a worker
that has the report alone (`Alone`) has all of its findings in its instance.
`OwnerIsTold` needs, without faults, that an ended report has either been told
or has a worker that is about to tell (`ToldOK`).

`IngestionProofs` proves, for any documents, chains and finalizers:

- `IngestionTypeCorrect`: `Spec => []TypeOK`
- `AnnotationsImportedOnce`: `Spec => []AnnotationsOnce`
- `FinalizedAtMostOnce`: `Spec => []FanInOnce`
- `OutcomesStand`: `Spec => []OutcomeStands`

`FinalizedAtMostOnce` is half of what the code calls "exactly-once": no second finalizer is sent,
none before the last annotations, and no second one wires unless a failing one has overwritten
DONE. The other half does not hold (`import_lost`).
`FanIn` is the strengthening for the fan-in: one observer at most is between the claim
and its dispatch, and has dispatched nothing yet; what has been armed gets no
new pending row. `Annotations` says that the chain that has the pending row locked is
alone and the annotations are not imported; `Outcome` relates the step of the one
chain of an undisturbed document to its status, lock and text layer.

`AuthorityFrontierProofs` proves, for any keys, workers, superusers, responses
and bounds of a crawl:

- `FrontierTypeCorrect`: `Spec => []TypeOK`
- `OneWorkerEach`: `Spec => []OneWorkerPerRow`
- `OnlyWhatWasApproved`: `Spec => []IngestedAsApproved`
- `TrailIsKept`: `Spec => []TrailKept`
- `NobodyStranded`: `Spec => []NothingStranded`

`Ids` says that no instance is of a later row than the table's: a deleted
row never comes back as the one that was read. On it rest `Records` (the approvals in
a row and in each instance of it were granted, and a trail that no older
instance met is complete in all of them), `Hands` (one worker has a row that was not
put back or selected) and `Tended` (a row in progress is in somebody's hands, unless a worker died on it or was ended by an
exception that nothing catches: `lost`).

`AgentActionsProofs` proves, for any executions and workers, retries and faults:

- `ActionTypeCorrect`: `Spec => []TypeOK`
- `OneAgentOnly`: `Spec => []OneAgentAtATime`

The result is the lock: who works has it RUNNING, and an answer leaves it
COMPLETED. With the shape of the state (`Shape`) this is inductive as it stands,
since a claim, or the mark of a failure, that finds one of the two is recorded
in `crossed`. The proof shows that nothing but these two writes can
bring a second agent to a document: no redelivery, retry or death alone does.

### What stays with TLC

The liveness properties `EveryPushSettles`, `EverySessionPurged`,
`EveryRunEnds`, `EveryIngestionEnds` and `EveryExecutionEnds`, because liveness
under fairness and `ENABLED` are outside the prover's reach, and the two runs that find
a disagreement. Induction over data is outside it too, as a rule that takes a
formula as its parameter; where a property is about a recursive function
(`VersionIsDepth`, `RelocationKeepsPaths`) the proof argues from a least
counterexample or a least closed set, and needs no such rule.

## Not modelled

Of the modelled components: file contents and hashes (rule C1 is about hashes;
`import_document` no longer looks them up), permissions, signals, thumbnails;
PostgreSQL's internal deadlock detection (it ends a request as `Fail` does); of
the worker endpoints, tokens and the size and rate limits, which only refuse a
push; what the import of a chunked session does with its file (the store has
the import of one document); the guard against a second research report, whose
hole is listed above; parsers, converters, embedders and language models, whose
results are choices; what a provider fetches and how the gate verifies it; agent
actions on threads, whose task is the modelled one without `force` and without the
handler's mark of the result; fieldset and analyzer actions; what an agent's
tools do to the document.

Components that are not modelled at all are in `PROJECT.json` with the reason.
Those with a protocol of their own, which a next module would be about, are the
completion of analyses and extracts, shared
blobs and the approval of agent tool calls. The rest is either a pure function of
rows (permissions, search), one long transformation (exports, forks), or a client
of the services modelled here (the API layers, the frontend): the greater part of
the repository's lines is of that kind.

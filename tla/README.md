# A TLA+ verification of ToucanShelf

ToucanShelf is a self-hosted knowledge base: a Go server (`server/`, `store/`,
`internal/`) over SQLite, a web client (`web/`), and `memogit`
(`internal/memogit`, `cmd/memogit`), a command that keeps a git work tree in step
with a knowledge base. The modules here model the parts in which several actors
change shared state in steps that interleave or fail, check them with TLC and
prove facts about them with TLAPS. The source is the reference throughout:
`PROJECT.json` maps every definition to the lines it stands for.

## Inventory

| Part | State | Operations | What is hard |
|---|---|---|---|
| **memogit synchronisation** (`internal/memogit`) | work tree, `.remote` sidecars, `.memogit/state/<dir>.json`; the server's memos | `push`, `pull`, `clone`; the person's edits, moves, copies, deletions; web edits, renames, archiving | three parties, one RPC at a time, state saved only at the end of a run, identity by marker or path |
| **search-index queue** (`internal/rag`, `store/memo.go`) | `memo_index_job`, `memo_chunk`, the worker's memory | enqueue on write, delete, rebuild, backfill, drain, index, retry, cool down | a worker reading, calling a provider and writing while handlers re-enqueue; restarts; swallowed errors |
| **memo versions** (`memo_auto_version.go`, `memo_agent_baseline.go`, `memo_agent_acknowledgement.go`, `memo_history_service.go`) | memo content and payload, `memo_history` | save, periodic auto-save, agent write, name a version, restore, acknowledge | read-modify-write of a whole payload, retention against de-duplication |
| memo requests (`memo_service.go`) | memos, relations, attachments, reactions | create, update, archive, delete | a write and its side effects are separate statements |
| **document links and their repair** (`DocumentLinkContext.tsx`, `internal/linkindex`, `link_index.go`, `link_repair.go`, `workspace_service.go`) | memo content, places and titles, `memo_link` | write, rename or move a document, a folder, a knowledge base; archive, restore, delete; index | a link means what it resolves to when read, so every move may break or redirect links in documents nobody opened |
| **web document editor** (`web/src/components/MemoEditor`, `DocumentView.tsx`) | the editor's store, the localStorage draft, saves under way, the query cache | open, type, save, timed save, cancel, leave, reload, edit in the preview | three awaits per save with the editor closing in between, debounces, a draft that must neither be lost nor come back |
| **live refresh** (`web/src/hooks/useLiveMemoRefresh.ts`, `sse_hub.go`, `sse_handler.go`) | lock, stream, broadcast channel and caches of every tab; the hub's subscribers and buffers | elect, connect, relay, resync, hand over; subscribe, broadcast, restart | events lost in outages and hand-overs, of which nobody is told |
| sub-documents (`subdoc.go`) | parent/child memos | create, cascade of archive and delete | a cascade that fails half way |
| job scheduler (`internal/scheduler`, `internal/cron`) | jobs, `running`, stop channel | Register, Start, Stop, run | imported by nothing in the program |
| background runners (`server/runner`, `server/backup`) | memo payloads, visibility, backup files | passes at start-up, daily backup | passes over pages read earlier |
| attachment migration (`internal/storage/attachmentmigrate`) | objects, attachment rows | plan, copy, repoint | interrupted and repeated runs |
| site publishing (`site_publish*.go`, `internal/publish`) | publications and their snapshots | publish, cascade, unpublish | snapshots against later edits |
| workspaces, grants, shares, users, auth, planner, secret blocks | rows of their own | CRUD, access decisions | mostly single statements |
| webhooks, mail | none | deliver | best effort |
| web session (`connect.ts`, `auth-state.ts`) | the access token, shared by tabs | refresh, retry of a request | refreshes of several tabs |
| web pages and views | their own view state | single requests | the cache behind them is the live refresh's |
| filters, markdown, routes, providers, generated code | none of their own | pure or I/O | |

The parts meet at the memo. Every write of one goes through `store.UpdateMemo`,
which owes the index queue an enqueue, and ends in a broadcast, which the live
refresh turns into fetches; memogit and the editor are two more writers of it
through the same RPCs; rename, restore and publish read content and write it, or
something computed from it, back; and a move rewrites the content of documents its
author never opened.

## Modules

| Module | Models | Proofs |
|---|---|---|
| `Memogit.tla` | one knowledge base, one checkout, one run of `push` or `pull` at a time, its web users and its person | `Memogit_proofs.tla`, `Memogit_safe_proofs.tla` |
| `IndexQueue.tla` | the index jobs, the handlers that enqueue them, the worker | `IndexQueue_proofs.tla` |
| `SearchIndex.tla` | what the index promises one who searches: a memo is found by its text, or is due or openly lost; `IndexQueue` implements it | (the refinement is in `IndexQueue_proofs.tla`) |
| `MemoVersions.tla` | one document, its versions and the requests on it | `MemoVersions_proofs.tla`, `MemoVersions_undo_proofs.tla` |
| `DocumentEditor.tla` | one document in one tab: editor, draft, saves, the stored document and its other writers | `DocumentEditor_proofs.tla` |
| `LiveRefresh.tla` | the tabs of one browser, their lock, channel and stream, and the server's hub | `LiveRefresh_proofs.tla` |
| `Freshness.tla` | what the refresh promises: what is out of date is fetched or openly missed; `LiveRefresh` implements it | (the refinement is in `LiveRefresh_proofs.tla`) |
| `DocumentLinks.tla` | documents in folders of knowledge bases, their links, the reverse index and the repairs | `DocumentLinks_proofs.tla` |
| `MC*.tla` | instances for TLC; the symmetries permute edits, texts or request slots, which are interchangeable model values; `MCIndexQueue` chooses where the bound on events starts | |

### Memogit

A text is the set of edits it contains. Everybody's edit adds a fresh element, a
merge is a union, and `CanonicalHash` is the identity on texts: the question the
properties ask is only ever whether a given edit is still in a given text.

| Variable | Code |
|---|---|
| `memo` | the server's memos: state, path (folder and title), content |
| `file`, `side` | the documents in the work tree with the marker they carry, and the `<path>.remote` sidecars |
| `base`, `mem` | `State.Memos` as saved and as the run holds it; `hash`, `conflict`, `chash` are `Hash`, `Conflict`, `ConflictServerHash` |
| `recent` | the memos a listing filtered by `updated_ts` past `LastSync` returns |
| `cmd`, `pc`, `docs`, `claim`, `live`, `todoP`, `todoU`, `cur` | the local variables of `Push` and `Pull` |
| `used`, `unpushed`, `onServer`, `removed`, `aborts` | history: what the properties speak about |

`push` is `PushStart` (load the tree, resolve identities, list the server), then
for each document in path order `PushCreate`/`PushStamp`, `PushOrphan`,
`PushMove`, `PushRefused` or the content steps `PushNothing`, `PushConflict`,
`PushGet`/`PushUpdate`/`PushReply`, then `PushDocsDone`, `PushArchive` and
`PushEnd`, which saves. Every RPC is a step of its own, and an update is three:
the re-check, the store, and the read-back whose text becomes the new baseline.
`pull` is `PullStart`, `PullIncremental`, `PullListing`, `PullReconcile`,
`PullReconciled`, `PullAdopt` and `PullEnd` (`ensureLocalIDs` and the save).
`Abort` is any error, an interrupt or a crash at any step: the in-memory state is
lost, files and server stay as they are.

`push`'s two listings of the server are one step, as are `relocateAndWrite`'s write
and removal. A bulk folder rename does not stamp `updated_ts` and a single rename
does: `WebRename` may do either. Left out: PDF documents, attachments,
sub-documents, checkouts of part of a knowledge base, dry runs, the sanitising of
titles, and the saved state file being cut in the middle of a write.

### IndexQueue

A memo's text is the number of index-affecting writes it has had; a text is one
chunk and its vector is named by the model that made it. A handler's write and the
enqueue it owes are separate steps (`Write`, `Enqueue`), deletion is three, and the
worker's steps are its SQL statements. One of those statements may fail where the
code handles an error; `Crash` restarts the server between any two.

The backfill (`worker.go:70-101`) pages through the memos of status NORMAL by LIMIT
and OFFSET, each page a query of its own. `ahead` is what lies beyond the offset and
`todo` what is left of the page at hand; `BackfillPage` reads the next page, of any
number of rows and in any order. Meanwhile the listing moves: when a memo or another document
that a page has listed is deleted, archived or dated anew, the rows behind it move up
and one that was ahead may slip past the offset (`Leaves`, `OtherRows`, `Skip`); when one
joins, a page repeats a row (`Joins`). A memo passed over without a job is enqueued by
nobody, and no error tells: it is `missed`. `enqueueRebuild` pages in the same way;
its walk enqueues some of the memos there are (`StartRebuild`), and no property
relies on it to enqueue all.

`missed`, a ghost, collects the memos with a write that no later read of the worker
can have seen: it names the exact condition under which the queue's guarantee
fails. `SearchIndex` is the queue without its jobs, worker and provider: memos with
their texts, the text each is found by, and the sets of memos due and lost. A memo is
due (`Due`) while a handler is busy with it, its job is not settled, it is in the
worker's hands, on its list or ahead of its backfill, or the server has just started; lost is `missed`; only
live memos can be found (`rag_service.go`, `accessibleMemoIDs`).
A poll takes all pending jobs rather than the 20 oldest, and how long a
cool-down lasts is left open.

### MemoVersions

| Variable | Code |
|---|---|
| `memo` | the stored content, `agent_session_open` and `agent_edit_acknowledged` |
| `linked`, `files` | the attachments linked to the memo, and those that exist |
| `hist`, `next` | the rows of `memo_history`, and the next id |
| `req` | the requests in flight: the copy each has loaded (`memo`, `atts`), the versions it has listed (`seen`), the one it found, made or restores (`row`), the attachments still to do (`todo`) |
| `now` | the clock retention and throttling read |
| `by`, `torn`, `handed`, `unpruned`, `req[i].fresh` | history: who chose the stored text, whether it or the bit was last written from a copy that was out of date, one thing a person wrote and an agent then overwrote, automatic versions without a prune, which of a request's copies are still up to date |

Each slot runs one request at a time, and a step is one SQL statement. `Load` reads
the memo; `FirstStep` is what follows it. An automatic save goes through `Throttle`
(periodic ones only), `ReadAtts`, `Match`, `Insert` and `Prune` to `Write`; an
agent's write over a person's text through `ReadAtts`, `Match` and `Insert`; naming a
version is `ReadAtts` and `Insert`; a restore is `List`, `ReadAtts` (with the guard),
`WriteRestored`, one `Relink` per attachment and `EndRestore`; an acknowledgement
and the other payload fields are `WritePayload`, which writes the whole payload back
as loaded. `Drop` ends a request anywhere: a statement fails, the client goes away,
the server stops. `HashMemoState` is taken to be injective. Left out: titles, which
the hash leaves out too; who owns an attachment (a restore skips files of others);
`SetMemoAttachments` as one request (its statements are `Attach` and `Detach`).

### DocumentEditor

| Variable | Code |
|---|---|
| `server`, `now` | the stored text and update time, and the server's clock |
| `memo` | the query cache's copy, which `DocumentView` hands to the editor |
| `place`, `editor` | which mode the notebook is in; the editor's content, `timestamps.updateTime`, `isLoading.saving` and `lastPeriodicSaveContentRef` |
| `saves` | calls of `saveMemo` under way: the state each took, how far it has come, and whether its editor is still mounted |
| `draft`, `pending` | the localStorage entry, and the write `cacheService.save` has put off |
| `auto` | the per-document opt-in to timed saves |
| `work`, `exit`, `foreign` | history: the text the user is owed, how the last editor closed, whether the open editor missed a write |

A save is `StartSave` (`SaveNow` or `Tick`), `Read` (the document as the server
holds it, and the mask of what differs) or `NoChanges`, `Land` and `Finish`, which
waits for the queries it invalidated; `Fail` is any of the three exchanges failing.
Everything else may happen between two of them, the editor's closing included: the
save of an editor that is gone goes on, and a button's save then discards the draft
and turns whatever editor is open to the preview. Texts are compared, never
computed. Left out: creating a memo, comments, attachments and uploads (`CanSave`
asks for a text), visibility and location, and the annotations.

### LiveRefresh

| Variable | Code |
|---|---|
| `life` | signed out or closed, waiting for the Web Lock, holding it |
| `conn`, `earlier`, `once` | how far `connect()` has come; an earlier effect's `connect()` that still awaits its token; `hasConnectedOnceRef` |
| `status`, `inbox` | the status shown, and the messages of the broadcast channel not yet handled |
| `sub`, `buffer` | the hub's side of the stream: headers sent, subscribed, events queued |
| `unsent` | changes stored by requests that have yet to broadcast |
| `stale`, `invalid` | queries on screen that the server has changed, and those being fetched again |
| `missed` | history: stale queries nothing on its way will tell the tab about |

`missed` grows only in the steps the code makes no arrangements for, which end in
`Missing`; everywhere else `ComesToKnow` has to hold by what the step does. The hub
is one buffer per subscriber; which user may receive an event is left out, as are
browsers without Web Locks, in which every tab holds a stream of its own. `Focus` may
invalidate at any time. A deleted comment's event does not name its parent
(`memo_service.go:1196`), so the thread that shows it is not refreshed: that is
`Affected` less `Invalidated`, and `NoGaps` names it.

### DocumentLinks

| Variable | Code |
|---|---|
| `life`, `place`, `name` | a memo's row status, its `workspace_id`, `folder_path` and `title`; the workspaces' titles |
| `ref`, `also` | the document's link by path, and its `/memos/{uid}` links |
| `rows` | `memo_link` |
| `means` | history: what the author's link named when it was written |

A path is a sequence of folder names and a title; decoding, extensions and case are
left out, so titles differ by more than those. Authors write a relative link with
any climb that reaches its folder (`RelativeTo`), not only the shortest. `Find`, `Spelled` and `Reaches` are
`findDocInFolder`, `resolveRelativePath` and the dispatch between the forms, which
`internal/linkindex` mirrors and `resolve_cases.json` pins together. The repairs are
functions from state to state in the order the handlers apply them: inbound links,
then the moved document's own. Each request is one step, so a repair never races
with a save; the code accepts that race (`link_repair.go:187`). Left out:
sub-documents, the Home folder, permissions, anchor texts, the uid link used when a
moved document's knowledge base cannot be loaded, moving a folder into itself.

`Risks` names the moves the repair is not up to; the run takes none of them, and
the table of conditions says what each breaks.

## Runs

The passing runs:

| Run | Question | Bounds |
|---|---|---|
| `Memogit_server` | are web edits safe from push, and does a completed pull reconcile? `TypeOK`, `NoServerEditLost`, `PullReconciles` | 2 memos, 3 paths, 2 edits, no files moved; web users act between runs and between any two steps of a push, except inside an update; not inside a pull |
| `Memogit_moves` | are identities right when files move, are copies and deletions told apart, and does pull reconcile then? `NoLocalEditLost`, `ArchiveOnlyRemoved`, `PullReconciles` | 3 memos (2 cloned), 3 paths, 1 edit |
| `Memogit_interrupted` | is local work safe when runs end anywhere and the web acts inside them? `NoLocalEditLost`, `ArchiveOnlyRemoved` | 1 memo, 2 paths, 3 edits, 2 interrupted runs |
| `Memogit_collisions` | does a completed pull reconcile when both sides create documents at paths the other uses or has left? `PullReconciles` | 3 memos (1 cloned), 3 paths, 2 edits, web users between runs |
| `IndexQueue_worker` | is a settled memo searchable, does done mean embedded, is nothing forgotten or given up early, does every pending job settle, and is `SearchIndex` implemented? `TypeOK`, `WorkerInv`, `SettledMeansSearchable`, `DoneMeansEmbedded`, `NothingForgotten`, `FailedOnlyAfterRetries`, `Settles`, `KeepsIndex` | a model and none; 2 memos and any 2 events, or 1 memo and any 4: writes, deletions, rebuilds, other documents leaving or joining the listing, failing database calls, restarts |
| `MemoVersions_writes` | does the bit tell the author, is what a person handed over kept, are automatic versions bounded, can unasked writes be undone? `TypeOK`, `BitTellsAuthor`, `HandedKept`, `AutoBounded`, `OverwritesUndoable` | 2 requests at a time, of six kinds; 2 texts, no attachments, 2 versions, 1 tick |
| `MemoVersions_restores` | does a restore overwrite only what a version holds, and leave what it promises? `BitTellsAuthor`, `OverwritesUndoable`, `RestoreRestores` | one slot restoring and setting payload fields, one with first saves and an agent; 2 texts, 1 attachment, 2 versions |
| `DocumentEditor_drafts` | is typed work always in the editor or the draft, does a discarded draft stay away, does the editor's time follow its own saves, does the timer save? `TypeOK`, `WorkKept`, `DiscardSticks`, `InSync`, `TimedSaves` | 2 texts and the blank one, 1 change of the text, 1 write by others or in the preview, 1 fault, reload or save that outlives its editor |
| `LiveRefresh_relay` | does every tab come to know, are outages bridged, does the waiting tab's status follow, is `Freshness` implemented with its liveness? `TypeOK`, `ComesToKnow`, `StatusFollows`, `NoGaps`, `Refreshed` | 2 tabs, 2 mounts, 1 kind of query, 2 changes, buffers of 1, 1 fault |
| `DocumentLinks_moves` | does a link keep its meaning, does the index know it, is it rewritten only at need? `TypeOK`, `LinksKeepMeaning`, `IndexTells`, `AsWritten` | 3 documents with 2 titles, 2 knowledge bases and 3 titles, folders root, `ff` and `gg/ff`, 1 link, 3 moves |

Why these bounds. Every rule of the synchronisation concerns one document, or two
of which one takes a path or a marker the other has; two documents and a third path
to move through give every such pair, and a third uid lets a copy become a document.
Three edits suffice for one text known to both sides, one on each side, and one made
after a conflict was recorded. Two interrupted runs let an interrupted recovery be
interrupted again. In the queue two memos relate only in the backfill, by its emptiness
test and by the one that a page has passed moving the other up, and in a batch, where one
waits as it waits in the queue. Two events suffice for either: the deletion and what
follows it, or a write to each. One memo gets four, enough for a write before and a write after the
worker's read with a fault and a restart between; the theorems hold for all of these. `MaxAttempts` and
`MaxLimits` are 2 instead of 3 and 10: each leaves one retry, but the run does not tell the two limits
apart (`NotGivenUpEarly` does, for any two of which the second is no lower; with
`MaxLimits = 3` TLC finds no error either, in 1,560,000 states). Two requests give every pair that
can interleave on one document, and a third can only take a turn one of them could
take. Retention keeps one version instead of ten and a tick is a whole interval, so
that two versions and one tick reach the limit of the count, of the age and of the
throttle.

In the editor one change of the text gives a text that is in the editor only, in the
pending write, in the draft, on its way to the server or stored, and a second text
comes from the other writer; a save that outlives its editor counts as the fault,
so that a reload and a failing exchange each meet every stage of a save. Two tabs
are a holder and a waiter, and closing or signing out one makes the other the
holder; a third could only wait too. A buffer of one is full after the first of the
two changes. What the theorems prove of both they prove for all bounds. A link
involves its document, its target and, where resolution could go astray, one more
document at a place the link may come to name; three moves let a document leave, another
take its place, and the first return or its folder follow.

### Conditions

The runs split the space because a guarantee of one part fails in another: each
passing run states the conditions under which the guarantee holds. `UserOps` and
`WebOps` are what the two sides do, `WebWhen` the steps of a run at which web users
may act (`"idle"`: between runs), `Collide` the operations that may choose a path
the other side already uses. Two runs drop a condition or an exception and end in a violation of
something a comment of the repository says; `findings` in
`PROJECT.json` quotes the lines.

| Run | What happens |
|---|---|
| `Memogit_move_overwrites` | a file is moved and edited, its document is edited on the web; the move's response becomes the baseline, so the content check compares the server with itself and the web edit is overwritten |
| `MemoVersions_baseline_pruned` | an agent overwrites a text an automatic version holds, so no baseline is taken; retention later deletes that version, and the person's text is in none |

Further conditions can be dropped by changing one line of a configuration:

| Change | What TLC then finds |
|---|---|
| `Memogit_server`, `"update"` in `WebWhen` | an edit between push's re-check and its store is overwritten (`NoServerEditLost`): the window of any check followed by an unconditional write |
| `Memogit_server`, `"reply"` in `WebWhen` | an edit between an update's store and its read-back becomes the baseline unseen (`push.go:448`) and the next push overwrites it (`NoServerEditLost`) |
| `Memogit_interrupted`, `"restore"` in `WebOps` | a pull cut off after removing a file (`pull.go:289`), and the document restored on the web: push archives it again (`ArchiveOnlyRemoved`) |
| `Memogit_interrupted`, `"create"` in `UserOps` | a push cut off after creating a document has not saved it (`push.go:260`): the next pull overwrites the file with what was sent (`NoLocalEditLost`) |
| `Memogit_moves`, `Collide = {"rename"}`, `UserOps = {"edit"}` | two documents renamed on the web so that one takes the path the other left: pull overwrites the edited file that still sits there (`NoLocalEditLost`, `sync.go:205`), although "A locally modified file is never overwritten" (`pull.go:325`) |
| `Memogit_moves`, `Collide = {"rename"}` | a pull that cannot move an edited document leaves two records at one path, of which push archives one (`ArchiveOnlyRemoved`, `push.go:527`) |
| `Memogit_moves`, `Collide = {"move"}` | pull writes a document renamed on the web over a file moved to its new path (`NoLocalEditLost`, `sync.go:205`) |
| the same, without `"rename"` in `WebOps` | pull stamps a document's marker on whatever file is at its recorded path (`sync.go:111`); push then takes the document of a file moved there for deleted (`ArchiveOnlyRemoved`) |
| `DocumentEditor_drafts`, `WhileSaving = TRUE` | what is typed while a save of the button is under way is lost when the save ends, discards the draft and closes the editor (`WorkKept`, `MemoEditor/index.tsx:417`) |
| `LiveRefresh_relay`, `Overlap = TRUE`, `MaxMounts = 3` | a tab that signs out and in again while its first `connect()` still waits for a token has its status set by that late token (`StatusFollows`, `useLiveMemoRefresh.ts:169`) |
| `DocumentLinks_moves`, `Risks = {"qualified"}` | a document that others name with `@base/...` is renamed or moved: those links are indexed but never repaired (`LinksKeepMeaning`), although "every document that links to it (per the P0 reverse-link index) gets repaired" (`link_repair.go:13`) |
| ... `{"shadowed"}` | a document moves, or is carried by its folder's rename, to a folder from which its relative link happens to name another document: the link is left and now means that one |
| ... `{"merged"}` | a folder is renamed onto, or moved into, a path that already has documents: their links are swept along with the folder's own |
| ... `{"doubled"}` | documents arrive from another knowledge base, and at the path one of them had there is another, or a link of one carried along spells that path from its new folder: the wrong link is repaired |
| ... `{"climbing"}` | a folder is renamed, and a link between two of its documents climbs out of it and in again (`../../ff/x.md`): it is left, because "a relative href between them is still exactly as correct as the author wrote it" (`workspace_service.go:653`), and names the old folder |
| ... `{"swept"}` | a folder changes both path and knowledge base, and documents at its destination use its old path: their links have the path swapped |

Two divergences have no property of their own. The first timed save that overwrites
something is sent as `PERIODIC` when an earlier tick found nothing to save
(`MemoEditor/index.tsx:156-169`: such a tick counts as the session's start), and a
periodic save may be throttled out of its version, although the first is to be
"Always" versioned (`memo_service.proto:686`). And `MoveWorkspaceFolder` that fails
after some documents can be retried (`workspace_service.go:857`), but the retry
repairs the links to the remaining documents only.

The queue's properties carry their exceptions in themselves instead, in the ghosts
`missed` and `tries` and in `Stranded`: a model changed while a batch is being worked
on (`worker.go:164`), a backfill that was cut off or found the queue in use
(`worker.go:65`), or whose pages passed over a memo because a document they had listed
left the listing (`worker.go:79`), so that "Backfill enqueues every indexable memo"
(`worker.go:52`) holds only while none does, a job enqueued again while the worker holds its row, whose attempts
are then written over (`worker.go:244`), a job left in processing by a restart or a
failing statement (`worker.go:197`). An edit made while its memo is being indexed is
one of the missed: `process` marks the job done without looking whether it was
enqueued again (`worker.go:206`). The jobs listed with one that was rate limited
are still sent to the provider during the cool-down (`worker.go:170`), which the model
does and no property judges. Nor does one judge the chunks of a memo deleted while it
is being indexed, which the worker may insert after `DeleteMemo` removed them
(`store/memo.go:253`).

`MemoVersions`' properties do the same with `torn` and `fresh`: `UpdateMemo` has no
precondition on what it overwrites, so they speak of what a request overwrites when
nobody changed it since the request loaded it. `BitTellsAuthor` excepts a restore and
a payload write whose copy was out of date (`memo_history_service.go:207`,
`memo_agent_acknowledgement.go:43`), until the next authorship write; `HandedKept`
excepts a text an automatic version held, which is the violation above.

## Fairness

`IndexQueue`'s `FairSpec` assumes `WF(Worker)`: the goroutine of `Run` is never
blocked by anything but its own calls, all of which carry time-outs; and
`WF(CoolDownEnds)`: time passes. Nothing is assumed of handlers, which may stop half
way, of users, of faults or of the provider, which may refuse every call. `Memogit` has
no liveness property: nothing makes anybody run `push` or `pull`.

`DocumentEditor`'s assumes `WF(Tick)`, an interval timer that runs as long as the
editor is mounted, and `WF(Exchange)`: requests are answered or, within the bound,
fail. `LiveRefresh`'s assumes that handlers, timers, requests and fetches of a tab that is
open run, that a request that stored a change broadcasts it unless the server
restarts, and that a tab whose session is gone cleans its effect up (the
application redirects to the sign-in page). Nothing is assumed of tabs, changes or
faults. `DocumentLinks` has no liveness: nothing is owed after a request.

## Proofs

`IndexQueue_proofs.tla`:

- `TypeCorrect`: `Spec => []TypeOK`.
- `WorkerKnows` (`[]WorkerInv`) and `Searchable` (`[]SettledMeansSearchable`). That a settled job
  means a searchable memo is not inductive: between the worker's read of the memo
  and its marking the job done nothing in the property itself ties what the worker
  holds to what is stored. `WorkerInv` supplies that: the row of the memo in hand
  is not settled, and, unless a handler is busy with the memo or a write of it was
  missed, the text read is still its text, the chunks read are still the ones
  stored (which is why skipping an identical replacement is sound), and once
  written they are of its text. `IInv` adds typing to the two. `HandlersInv`,
  `WorkerStepInv` and `RestInv` prove that the three kinds of step preserve it.
- `Embedded`: `Spec => []DoneMeansEmbedded`, relative to `IInv`: `HandlersQuiet` says
  what a handler's step leaves of what the worker holds, `DoneStep` covers the rest.
- `Complete`: `Spec => []NothingForgotten`, from `CoverInv`. While the backfill runs,
  every memo is spared it (`Spared`: it has no text, is in a handler's hands, has a job
  or was missed), in the page at hand or ahead of it: a move of the listing takes a memo from
  `ahead` only if it is spared (`ListingMisses`, `Kept`). Once the backfill is over, every
  memo is spared or searchable, or the worker is between reading it and writing its
  chunks. The last case is the one the property cannot do without: a deletion may take
  the row while the memo stays, and only `WorkerInv` says that the write then covers it.
- `NotGivenUpEarly`: `Spec => FailedOnlyAfterRetries`, from `CountInv`: the attempts on
  a row, and those a batch has listed, are failures that were.
- `Implemented`: `Spec => KeepsIndex`, the queue implements `SearchIndex`. Each step is,
  for each memo, one of its steps or a stutter: the memo `Rests` (and then becomes due,
  stays, or settles, by `LeavesServed` only with its text or lost), `Misses` having been
  due, or is written, withdrawn, removed, served or recovered. That an index never
  goes back and never drops a memo found by its text takes `OrderInv`: what is stored
  is no later than the memo, what the worker holds lies between the two, and a memo it
  read without a text is not found by the one it has. `Promised` draws from the steps
  of `SearchIndex` alone what they come to: found by its text, due or lost.

`Memogit_proofs.tla`: `TypeCorrect`, `Spec => []TypeOK`. The lemmas on texts and
record shapes and one lemma per party carry it.

`Memogit_safe_proofs.tla`: `LocalEditsKept` (`[]NoLocalEditLost`), `ArchivesRemoved`
(`ArchiveOnlyRemoved`) and `PullsReconcile` (`PullReconciles`), each under `Apart`: every
operation of either side, moves and copies included, but nobody at a path the other
side uses, no run cut off, and no web user inside a pull. The runs `Memogit_moves` and
`Memogit_server` are instances. None of the three is inductive; `SafeInv` is, one lemma
per action:

- `RecordInv`: a document on record is one the server knows, in a text the server has
  had; so overwriting or removing a clean file loses nothing.
- `PathInv`: on the server and on record a path is one document's.
- `FileInv`: a file at a path some document has on the server is that document's file
  on record, and one where a document is recorded carries its marker; so pull never
  writes over another file (`PullExportSafe`, `PullRelocateSafe`), re-stamping changes
  nothing (`StampsKeep`) and no push is refused (`PushUnrefused`).
- `StoodInv`: a document on record has a file with its marker somewhere, or was taken
  out. It makes sense of an archived document only with `ClaimInv`: push has exactly one
  file claim each document that has one, the one at the recorded path if that is there.
  `PushStartSafe` proves it of `resolveIdentities`; that several copies have a first is
  `FirstOf`, by counting lower bounds, where an induction would need a principle no
  installed prover can instantiate.
- `SideInv`: the sidecar of a conflict on record is that document's, so a file replaced
  by it keeps its marker.
- `PushInv`: what push read is still in the work tree, and the document it is at is
  claimed by that file.
- `PullInv`: the listing is what the server holds, and each document a pass has been
  through is as `PullReconciles` wants it (`Brought`).
- `EditInv`: an edit not yet pushed is in no text of the server's.

`ServerEditsKept` (`[]NoServerEditLost`) needs more, `Unmoved`: a document whose file is
somewhere else than recorded loses web edits (`Memogit_move_overwrites`), so nothing is
moved, nor copied where originals are deleted, and web users also stay out of the steps
between an update's re-check and its answer; `Memogit_server` is an instance.
On top of `SafeInv`, `KnownInv` is inductive:

- `GrownInv` and `KeptInv`: what is on record as seen by the checkout is contained in
  the server's text, and in the file, or in the sidecar while a conflict is open.
- `OwnInv`: no document on record has only a file elsewhere, so push finds each where it
  is recorded (`PushOwn`, `PushNoMove`).
- `StageInv`: the text an update is about to store contains the server's, because the
  re-check saw what the file already held (`PushGetKnown`).

`MemoVersions_proofs.tla`: `TypeCorrect`, `AuthorTold` (`BitTellsAuthor`) and
`HandedSafe` (`HandedKept`), from `VersionInv`. Neither property is inductive.
`CopyInv` says that a copy nobody overtook is what is stored, which is why a restore
may clear the bit or leave it; `FoundInv`, that an agent about to write over a
person's text has found or made a version that holds it; `PlaceInv` and `TargetInv`
place the requests of an agent and of a restore among the steps. `Elsewhere` says
what a step leaves of a request that does not take it, `Holding` and `NextPlace` where
a request goes that keeps its copy, `KeptStays` that retention deletes automatic
versions only; `CopyStep`, `PlaceStep`, `FoundStep`, `BitStep` and `HandedStep` are
one per conjunct. `Bounded` (`AutoBounded`) counts: rows are written in the order of
their ids and of the clock (`RowsInv`), so of the automatic rows retention leaves all
but the oldest are newer than that one, which is not crowded out (`RetentionBounds`);
a row inserted goes with a request still to prune, and a request that leaves that
state without pruning is counted in `unpruned`.

`MemoVersions_undo_proofs.tla`: `Recoverable` (`OverwritesUndoable`) and `Restores`
(`RestoreRestores`), both about a request that acts on what it read earlier.
`Overtaking` says that a step of somebody else changes nothing of a request but takes
its copy for outdated when it changes what that is of. `HeldInv` says that a request
about to overwrite unasked has noted a version of what it loaded, which is there or
has been pushed out; that it stays so is `CrowdedStays`: a row crowded out before
retention runs is crowded out by what retention leaves, because the last of the newer
rows it deletes is crowded out by rows it keeps. `RestoreInv` says how far a restore
has got with its attachments.

`DocumentEditor_proofs.tla`:

- `TypeCorrect`, and `Discarded` (`DiscardSticks`) with `SavesInv`: at most one save
  under way is the open editor's, and there is none of a closed one.
- `TimeKnown` (`InSync`) from `SyncInv`: a landed save of the open editor holds the
  time the server has, unless `foreign` says that somebody else has written since.
- `WorkSafe`: `WorkKept`, under `~WhileSaving`. It is not inductive: the end of a
  button's save discards the draft and closes whichever editor is open, so one has
  to know that nothing is owed then but that save's own text, which is `ButtonInv`.

`LiveRefresh_proofs.tla`: `TypeCorrect`, `NothingLost` (`[]ComesToKnow`), `OutagesBridged`
(`NoGaps`) and `KeepsPromise`: every behaviour of `Spec` satisfies the initial
condition and the steps of `Freshness` with `due` read as `stale` less `missed`. The
invariant behind them is `KnowInv`: typing, `ComesToKnow`, that a tab that is
out shows nothing, and that a tab whose stream is open has connected before; without
the last the end of a stream would not be known to lead to a resync. One lemma per
action says what it leaves of what is on its way to each tab. `MenusFollow`:
`StatusFollows`, under `~Overlap`, from `FollowInv`: a tab signed in has no earlier
`connect()` waiting, and a waiting tab has been told the status of a holder that has
its token (`Told`: the last status in its inbox, or on its menu with none in the
inbox), or the holder has yet to answer a greeting, which it answers to everyone. The
first part is why `Overlap` matters: a late token would set a status nobody is told of.

`DocumentLinks_proofs.tla`:

- `TypeCorrect`, whatever the `Risks`. The part that takes an argument is that two
  documents are never at one place, nor two knowledge bases under one title, as
  resolution takes for granted. The documents a folder carries stay apart from each
  other because swapping the leading folder of a path is injective (`RebasedApart`),
  and from the rest by the refusal.
- `LinksKept` (`LinksKeepMeaning`), `IndexKept` (`IndexTells`) and `LinksAsWritten`
  (`AsWritten`), under `Risks = {}`. None of the three is inductive alone: a repair
  finds the referrers by the index, and leaves the links that still resolve. Their
  invariant is `LinkInv`: a link that is meant to name another document reaches it and
  is in `rows` (`Right`), and its document exists.

  The argument: places being distinct, a link resolves to a document exactly when it
  spells that document's spot (`ReachesIs`), which does away with the trees. The
  repairs are functions of a state, applied one to the result of the other, so each
  has a lemma saying what it leaves of one document's link: `InboundRight`,
  `FossilizedRight`, `OutboundRight`, `SweptRight`, and `RewrittenIs` for the text and
  its rows under all of them. What a folder's move does to the paths below it is
  `RebasedIs` and `RebasedApart`. One lemma per request (`...Serves`) composes them:
  every link comes out `Right`, and is the old one where that still reaches its
  document (`Served`). Each of the `Risks` is excluded where one of these lemmas needs
  it, and the run shows of each that the property fails with it.

The assumptions are those of the modules: the embedding that is off is one of the
models, there is a memo, the limit on attempts is positive and that on rate limits no lower (3 and 10
in the code), the bounds are natural numbers; uids and paths are
sets of numbers that do not contain their empty value; no edit is the text a
document was cloned with; the kinds of request are those
of `AllKinds`, there are finitely many in flight, retention keeps at least one version; documents start at distinct places
under distinct titles of knowledge bases, and any set of them has a first one in the
order the store lists them. No bound on memos, edits, paths,
faults, restarts, requests, versions, texts or tabs is assumed beyond that.

Only model-checked: the safety properties of `Memogit` outside `Apart` and `Unmoved`, when
runs are cut off, web users act inside pulls or both sides use a path;
and what needs fairness and is beyond the prover: `Settles`, `TimedSaves` and the
liveness half of `Refreshed`. Where a theorem has a condition (`~WhileSaving`,
`~Overlap`, `Risks = {}`), TLC refutes the property without it: see Conditions.

## Plan

In this order:

1. An abstract specification of a document's history (what a person handed over is
   never lost) and `MemoVersions` shown to implement it; titles, which a version keeps
   and the hash leaves out.
2. The repairs of `DocumentLinks` as steps of their own, against saves of the referring
   documents and a folder move cut off half way, composed with the enqueues they owe.
3. The web session: tokens refreshed by several tabs, and the retry of a request.
4. `AttachmentMigrate.tla`: interrupted and repeated migrations.
5. Sub-documents and attachments of `Memogit`, and sub-documents of `DocumentLinks`.
6. Proofs: `Memogit`'s safety properties under the conditions of
   `Memogit_interrupted`; the refinements to come.

## Not modelled

The parts marked `not_modelled` in `PROJECT.json` that the plan does not name are
read-only (search ranking, filters, rendering), hold no state that two actors
change (planner, secret blocks, favourites), are decision tables (access, grants,
sharing), are external calls or are generated.

The scheduler is used by nothing. Most of the repository's lines are the web
client's: generated protocol code, and components that lay out what single requests
return. Of the client the models take what has steps that interleave, the editor,
the refresh and the resolution of links, which is a small share of its lines; the
rest of the models' lines stand for the Go server and memogit.

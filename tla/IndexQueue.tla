----------------------------- MODULE IndexQueue -----------------------------
(***************************************************************************)
(* The search-index queue: one memo_index_job row per memo, written by the *)
(* request handlers (store/memo.go, rag_service.go) and drained by the one *)
(* worker goroutine of the server (internal/rag/worker.go, index.go).      *)
(*                                                                         *)
(* Every statement that commits is a step of its own, so a handler can act *)
(* between any two steps of the worker, a listing read page by page can    *)
(* change between two of its pages, and the server can die between any two *)
(* statements.  A memo's text is the number of index-affecting writes it   *)
(* has had; a text is cut into one chunk, whose vector is named by the     *)
(* embedding model that made it.  A poll lists every pending job (the code *)
(* takes the 20 oldest), and how long a cool-down lasts is left open.      *)
(***************************************************************************)
EXTENDS Naturals

CONSTANTS
  Memos,        \* memo ids
  Models,       \* embedding models an administrator may configure
  Off,          \* embedding disabled, or never configured
  MaxAttempts,  \* worker.go: failures before a job is given up
  MaxLimits,    \* worker.go: rate limits before a job is given up
  MaxEvents     \* bound on what happens to the queue from outside: writes and
                \*   deletions, rebuilds, failing database calls, restarts

ASSUME ModelsAssumption   == Off \in Models
ASSUME AttemptsAssumption == MaxAttempts \in Nat \ {0} /\ MaxLimits \in Nat /\ MaxAttempts <= MaxLimits
ASSUME MemosAssumption    == Memos # {}
ASSUME BoundsAssumption   == MaxEvents \in Nat

VARIABLES
  doc,      \* memo rows: "none", "live" or "archived"
  ver,      \* index-affecting writes each memo has had, i.e. its text
  owed,     \* enqueues that handlers have still to make after their write
  del,      \* how far DeleteMemo has come, 3 when done
  job,      \* the queue rows
  chunk,    \* the memo_chunk rows
  model,    \* the configured embedding model
  walk,     \* memos the rebuilds under way have still to enqueue
  phase,    \* where the worker is
  todo,     \* memos the running backfill or batch has still to do
  tried,    \* attempts of each batched job, as listed
  seen,     \* memos attempted in this drain
  emb,      \* the model resolved for the batch
  cur,      \* the memo being processed
  got,      \* its text as read
  old,      \* its chunks as read
  cool,     \* cooldownUntil lies in the future
  ahead,    \* memos the pages of the running backfill have still to reach
  missed,   \* ghost: memos whose text no later read of the worker has seen
  tries,    \* ghost: failures of each job, to MaxAttempts, since it was last
            \*   enqueued while out of the worker's hands
  events

memoVars   == <<doc, ver, owed, del>>
workerVars == <<phase, todo, tried, seen, emb, cur, got, old, cool>>
adminVars  == <<model, walk>>
vars == <<memoVars, job, chunk, adminVars, workerVars, missed, tries, ahead, events>>

AnyMemo  == CHOOSE m \in Memos : TRUE
NoJob    == [st |-> "none", att |-> 0]
NoChunk  == [text |-> 0, vec |-> Off]
Jobs     == [st: {"none", "pending", "processing", "done", "failed"}, att: Nat]
Chunks   == [text: Nat, vec: Models]
HasJob(m)  == job[m].st # "none"
\* IsIndexable: an archived memo has no text to index.
Text(m)    == IF doc[m] = "live" THEN ver[m] ELSE 0
Indexable  == {m \in Memos : doc[m] = "live"}
InFlight(m) == cur = m /\ phase \in {"chunks", "write", "done", "failed", "limited"}
InHands(m)  == InFlight(m) \/ (cur = m /\ phase = "read") \/ (m \in todo /\ phase # "backfill")

\* A server started on a database that may hold memos older than the index, or
\* have held some; how much of the bound is left is chosen here.
Init ==
  /\ doc \in [Memos -> {"none", "live"}]
  /\ del \in [Memos -> {0, 3}] /\ \A m \in Indexable : del[m] = 0
  /\ ver = [m \in Memos |-> IF doc[m] = "live" \/ del[m] = 3 THEN 1 ELSE 0]
  /\ owed = [m \in Memos |-> 0]
  /\ job = [m \in Memos |-> NoJob] /\ chunk = [m \in Memos |-> NoChunk]
  /\ model \in Models /\ walk = {}
  /\ phase = "boot" /\ todo = {} /\ tried = [m \in Memos |-> 0] /\ seen = {}
  /\ emb = Off /\ cur = AnyMemo /\ got = 0 /\ old = NoChunk /\ cool = FALSE
  /\ missed = {} /\ tries = [m \in Memos |-> 0]
  /\ ahead = {} /\ events \in 0..MaxEvents

-----------------------------------------------------------------------------
(***************************************************************************)
(* UpsertMemoIndexJob.                                                     *)
(***************************************************************************)
\* a slip: a row that exists is left as it is
UpsertIgnored(m) ==
  /\ job' = IF HasJob(m) THEN job ELSE [job EXCEPT ![m] = [st |-> "pending", att |-> 0]]
  /\ tries' = IF InHands(m) THEN tries ELSE [tries EXCEPT ![m] = 0]
  /\ missed' = IF InFlight(m) THEN missed \cup {m} ELSE missed
\* a slip: the attempts of the row are kept
UpsertKeepsAttempts(m) ==
  /\ job' = [job EXCEPT ![m] = [st |-> "pending", att |-> @.att]]
  /\ tries' = IF InHands(m) THEN tries ELSE [tries EXCEPT ![m] = 0]
  /\ missed' = IF InFlight(m) THEN missed \cup {m} ELSE missed
Upsert(m) ==
  /\ job' = [job EXCEPT ![m] = [st |-> "pending", att |-> 0]]
  /\ tries' = IF InHands(m) THEN tries ELSE [tries EXCEPT ![m] = 0]
  /\ missed' = IF InFlight(m) THEN missed \cup {m} ELSE missed

\* UpdateMemoIndexJob changes nothing when there is no row.
SetJob(m, j) == job' = IF HasJob(m) THEN [job EXCEPT ![m] = j] ELSE job

\* A thing that happens from outside, a failing database call among them.
Event == events < MaxEvents /\ events' = events + 1

(***************************************************************************)
(* The listing a backfill pages through: the memos of status NORMAL, the   *)
(* newest first, by LIMIT and OFFSET.  Each page is a query of its own and *)
(* OFFSET counts the rows of the pages before, wherever they are by then.  *)
(* ahead is what the rows beyond the offset are, in whatever order.        *)
(***************************************************************************)
\* The first of them moves up across the offset, and no page has it.
Skip(m) ==
  /\ m \in ahead /\ ahead' = ahead \ {m}
  /\ missed' = IF HasJob(m) THEN missed ELSE missed \cup {m}
\* m leaves the listing: if a page had it, the others move up, and the first of
\* them is one of ahead or a document that the index leaves out.
Leaves(m) ==
  \/ ahead' = ahead \ {m} /\ UNCHANGED missed
  \/ /\ m \notin ahead /\ doc[m] = "live"
     /\ \E n \in ahead : Skip(n)
\* m joins it, and is ahead itself or moves the last that a page had down, which
\* a page then repeats.
Joins(m) ==
  /\ \/ UNCHANGED ahead
     \/ phase = "backfill" /\ \E n \in (Indexable \cup {m}) \ ahead : ahead' = ahead \cup {n}
  /\ UNCHANGED missed

-----------------------------------------------------------------------------
(***************************************************************************)
(* Request handlers.                                                       *)
(***************************************************************************)
\* store.CreateMemo, and store.UpdateMemo of a field updateAffectsIndex names;
\* archiving and restoring are such updates.  The enqueue comes afterwards.
Write(m, st) ==
  /\ Event
  /\ doc[m] # "none" \/ (ver[m] = 0 /\ st = "live")
  /\ doc' = [doc EXCEPT ![m] = st]
  /\ ver' = [ver EXCEPT ![m] = @ + 1]
  /\ owed' = [owed EXCEPT ![m] = @ + 1]
  /\ CASE st = "archived"                  -> Leaves(m)
       [] st = "live" /\ doc[m] # "live"    -> Joins(m)
       [] OTHER                             -> UNCHANGED <<ahead, missed>>
  /\ UNCHANGED <<del, job, chunk, adminVars, workerVars, tries>>

Enqueue(m) ==
  /\ owed[m] > 0
  /\ owed' = [owed EXCEPT ![m] = @ - 1]
  /\ Upsert(m)
  /\ UNCHANGED <<doc, ver, del, chunk, adminVars, workerVars, ahead, events>>

\* The error is logged and swallowed.
EnqueueFails(m) ==
  /\ owed[m] > 0 /\ Event
  /\ owed' = [owed EXCEPT ![m] = @ - 1]
  /\ missed' = missed \cup {m}
  /\ UNCHANGED <<doc, ver, del, job, chunk, adminVars, workerVars, tries, ahead>>

\* store.DeleteMemo: the chunks, the job, then the memo.  Errors of the first
\* two are ignored; one of the last leaves the memo without its index.
DeleteChunks(m) ==
  /\ Event
  /\ doc[m] # "none" /\ del[m] = 0
  /\ del' = [del EXCEPT ![m] = 1]
  /\ chunk' \in {chunk, [chunk EXCEPT ![m] = NoChunk]}
  /\ UNCHANGED <<doc, ver, owed, job, adminVars, workerVars, missed, tries, ahead>>

DeleteJob(m) ==
  /\ del[m] = 1
  /\ del' = [del EXCEPT ![m] = 2]
  /\ \/ job' = [job EXCEPT ![m] = NoJob] /\ UNCHANGED events
     \/ Event /\ UNCHANGED job
  /\ UNCHANGED <<doc, ver, owed, chunk, adminVars, workerVars, missed, tries, ahead>>

DeleteRow(m) ==
  /\ del[m] = 2
  /\ del' = [del EXCEPT ![m] = 3]
  /\ doc' = [doc EXCEPT ![m] = "none"]
  /\ Leaves(m)
  /\ UNCHANGED <<ver, owed, job, chunk, adminVars, workerVars, tries, events>>

DeleteRefused(m) ==
  /\ del[m] = 2 /\ Event
  /\ del' = [del EXCEPT ![m] = 0]
  /\ missed' = missed \cup {m}
  /\ UNCHANGED <<doc, ver, owed, job, chunk, adminVars, workerVars, tries, ahead>>

\* Documents the index leaves out, rows of the listing like the others, leave it
\* or join it; a memo given another creation time does both.
OtherRows ==
  /\ phase = "backfill" /\ Event
  /\ \/ \E m \in ahead : Skip(m)
     \/ \E m \in Indexable \ ahead : ahead' = ahead \cup {m} /\ UNCHANGED missed
  /\ UNCHANGED <<memoVars, job, chunk, adminVars, workerVars, tries>>

\* An administrator's change of embedding model, or a user's RebuildIndex when
\* n is the model already configured; switching embedding off rebuilds nothing.
\* enqueueRebuild pages as the backfill does, for a user through that user's
\* memos only: some of the memos are enqueued.  One that a page repeats, or that
\* joins meanwhile, is like one of a further rebuild.
StartRebuild(n) ==
  /\ Event
  /\ model' = n
  /\ IF n = Off /\ model # Off THEN walk' = walk
     ELSE \E some \in SUBSET Indexable : walk' = walk \cup some
  /\ UNCHANGED <<memoVars, job, chunk, workerVars, missed, tries, ahead>>

RebuildOne(m) ==
  /\ m \in walk
  /\ walk' = walk \ {m}
  /\ Upsert(m)
  /\ UNCHANGED <<memoVars, chunk, model, workerVars, ahead, events>>

Handlers == \/ \E m \in Memos : \/ Enqueue(m) \/ DeleteJob(m) \/ DeleteRow(m) \/ RebuildOne(m)
                                \/ EnqueueFails(m) \/ DeleteChunks(m) \/ DeleteRefused(m)
                                \/ \E st \in {"live", "archived"} : Write(m, st)
            \/ \E n \in Models : StartRebuild(n)
            \/ OtherRows

-----------------------------------------------------------------------------
(***************************************************************************)
(* The worker goroutine: Backfill, then Run.                               *)
(***************************************************************************)
\* A queue that is not empty, whoever filled it, is taken to be complete.
Backfill ==
  /\ phase = "boot"
  /\ IF \E m \in Memos : HasJob(m)
     THEN /\ phase' = "idle" /\ todo' = {}
          /\ missed' = missed \cup {m \in Indexable : ~HasJob(m)}
          /\ UNCHANGED ahead
     ELSE /\ phase' = "backfill" /\ todo' = {} /\ ahead' = Indexable
          /\ UNCHANGED missed
  /\ UNCHANGED <<memoVars, job, chunk, adminVars, tried, seen, emb, cur, got, old, cool,
                 tries, events>>

\* a slip: the offset is one too high after a page
PageTooFar ==
  /\ phase = "backfill" /\ todo = {}
  /\ \E page \in (SUBSET ahead) \ {{}}, m \in ahead :
       todo' = page /\ ahead' = ahead \ (page \cup {m})
  /\ UNCHANGED <<memoVars, job, chunk, adminVars, phase, tried, seen, emb, cur, got, old, cool,
                 missed, tries, events>>
\* The next page, of however many rows, and the offset moved past it.
BackfillPage ==
  /\ phase = "backfill" /\ todo = {}
  /\ \E page \in (SUBSET ahead) \ {{}} : todo' = page /\ ahead' = ahead \ page
  /\ UNCHANGED <<memoVars, job, chunk, adminVars, phase, tried, seen, emb, cur, got, old, cool,
                 missed, tries, events>>

BackfillOne(m) ==
  /\ phase = "backfill" /\ m \in todo
  /\ todo' = todo \ {m}
  /\ Upsert(m)
  /\ UNCHANGED <<memoVars, chunk, adminVars, phase, tried, seen, emb, cur, got, old, cool,
                 ahead, events>>

\* An error is logged, and ends the backfill where it is.
BackfillFails ==
  /\ phase \in {"boot", "backfill"} /\ Event
  /\ phase' = "idle" /\ todo' = {} /\ ahead' = {}
  /\ missed' = missed \cup {m \in Indexable : ~HasJob(m)}
  /\ UNCHANGED <<memoVars, job, chunk, adminVars, tried, seen, emb, cur, got, old, cool,
                 tries>>

\* An empty page.
BackfillEnd ==
  /\ phase = "backfill" /\ todo = {} /\ ahead = {}
  /\ phase' = "idle"
  /\ UNCHANGED <<memoVars, job, chunk, adminVars, todo, tried, seen, emb, cur, got, old, cool,
                 missed, tries, ahead, events>>

\* drain, on a tick outside a cool-down.
Drain ==
  /\ phase = "idle" /\ ~cool
  /\ phase' = "list" /\ seen' = {}
  /\ UNCHANGED <<memoVars, job, chunk, adminVars, todo, tried, emb, cur, got, old, cool,
                 missed, tries, ahead, events>>

\* One round of drain: the pending jobs this drain has not attempted, ...
ListJobs ==
  LET fresh == {m \in Memos : job[m].st = "pending"} \ seen IN
  /\ phase = "list"
  /\ todo' = fresh
  /\ tried' = [m \in Memos |-> IF m \in fresh THEN job[m].att ELSE 0]
  /\ IF fresh = {} THEN phase' = "idle" /\ seen' = {}
                   ELSE phase' = "resolve" /\ seen' = seen
  /\ UNCHANGED <<memoVars, job, chunk, adminVars, emb, cur, got, old, cool,
                 missed, tries, ahead, events>>

\* ... and the embedding configuration for all of them.
ResolveEmbedding ==
  /\ phase = "resolve"
  /\ emb' = model
  /\ phase' = "next"
  /\ UNCHANGED <<memoVars, job, chunk, adminVars, todo, tried, seen, cur, got, old, cool,
                 missed, tries, ahead, events>>

DrainFails ==
  /\ phase \in {"list", "resolve"} /\ Event
  /\ phase' = "idle" /\ todo' = {} /\ tried' = [m \in Memos |-> 0] /\ seen' = {}
  /\ UNCHANGED <<memoVars, job, chunk, adminVars, emb, cur, got, old, cool,
                 missed, tries, ahead>>

\* The cool-down is looked at between batches only.  What a batch, or a drain,
\* knows goes with it.
EndBatch ==
  /\ phase = "next" /\ todo = {}
  /\ tried' = [m \in Memos |-> 0] /\ emb' = Off /\ cur' = AnyMemo
  /\ IF cool THEN phase' = "idle" /\ seen' = {}
             ELSE phase' = "list" /\ seen' = seen
  /\ UNCHANGED <<memoVars, job, chunk, adminVars, todo, got, old, cool,
                 missed, tries, ahead, events>>

\* process: the job is marked processing, or skipped when marking it fails.
Take(m) ==
  /\ phase = "next" /\ m \in todo
  /\ todo' = todo \ {m} /\ seen' = seen \cup {m} /\ cur' = m
  /\ \/ /\ phase' = "read"
        /\ SetJob(m, [job[m] EXCEPT !.st = "processing"])
        /\ UNCHANGED events
     \/ Event /\ UNCHANGED <<phase, job>>
  /\ UNCHANGED <<memoVars, chunk, adminVars, tried, emb, got, old, cool, missed, tries, ahead>>

\* indexMemo: the memo, ...
ReadMemo ==
  /\ phase = "read"
  /\ got' = Text(cur)
  /\ missed' = missed \ {cur}
  /\ phase' = IF Text(cur) = 0 THEN "write" ELSE "chunks"
  /\ UNCHANGED <<memoVars, job, chunk, adminVars, todo, tried, seen, emb, cur, old, cool,
                 tries, ahead, events>>

\* ... the chunks it has now, if there is a text to index, ...
\* a slip: they are taken out of the index as well
ReadAndClear ==
  /\ phase = "chunks"
  /\ old' = chunk[cur] /\ chunk' = [chunk EXCEPT ![cur] = NoChunk]
  /\ phase' = "write"
  /\ UNCHANGED <<memoVars, job, adminVars, todo, tried, seen, emb, cur, got, cool,
                 missed, tries, ahead, events>>
ReadChunks ==
  /\ phase = "chunks"
  /\ old' = chunk[cur]
  /\ phase' = "write"
  /\ UNCHANGED <<memoVars, job, chunk, adminVars, todo, tried, seen, emb, cur, got, cool,
                 missed, tries, ahead, events>>

\* ... the new chunks, with a vector carried over where text and model allow.
Reusable == old.text = got /\ old.vec # Off /\ emb \in {Off, old.vec}
NeedsCall == got # 0 /\ emb # Off /\ ~Reusable
Carried  == [text |-> got, vec |-> IF Reusable THEN old.vec ELSE Off]
\* a slip: chunksEqual looks at the texts only
ReplaceByText(new) == IF new.text = old.text THEN UNCHANGED chunk
                      ELSE chunk' = [chunk EXCEPT ![cur] = new]
\* ReplaceMemoChunks, skipped when the chunks that were read are the same.
Replace(new) == IF new = old THEN UNCHANGED chunk ELSE chunk' = [chunk EXCEPT ![cur] = new]
\* a slip: a failing provider leaves the index as it was
FallBackNone == UNCHANGED chunk
\* When the provider fails they are stored in any case, for the keyword search.
FallBack == chunk' = [chunk EXCEPT ![cur] = Carried]

IndexMemo ==
  /\ phase = "write"
  /\ \/ got = 0 /\ chunk' = [chunk EXCEPT ![cur] = NoChunk] /\ phase' = "done"
     \/ got # 0 /\ ~NeedsCall /\ Replace(Carried) /\ phase' = "done"
     \/ NeedsCall /\ Replace([text |-> got, vec |-> emb]) /\ phase' = "done"
     \/ NeedsCall /\ FallBack /\ phase' \in {"failed", "limited"}
  /\ old' = NoChunk
  /\ UNCHANGED <<memoVars, job, adminVars, todo, tried, seen, emb, cur, got, cool,
                 missed, tries, ahead, events>>

\* A database error in indexMemo, with nothing stored.
IndexFails ==
  /\ phase \in {"read", "chunks", "write"} /\ Event
  /\ missed' = missed \cup {cur}
  /\ phase' = "failed" /\ old' = NoChunk
  /\ UNCHANGED <<memoVars, job, chunk, adminVars, todo, tried, seen, emb, cur, got, cool,
                 tries, ahead>>

MarkDone ==
  /\ phase = "done"
  /\ phase' = "next" /\ got' = 0
  /\ SetJob(cur, [job[cur] EXCEPT !.st = "done"])
  /\ UNCHANGED <<memoVars, chunk, adminVars, todo, tried, seen, emb, cur, old, cool,
                 missed, tries, ahead, events>>

\* a slip: the attempt is not counted
RetryUncounted(max) ==
  SetJob(cur, [st |-> IF tried[cur] + 1 >= max THEN "failed" ELSE "pending", att |-> tried[cur]])
\* a slip: attempts are counted down
RetryCountdown(max) ==
  SetJob(cur, [st |-> IF tried[cur] + 1 >= max THEN "failed" ELSE "pending",
               att |-> tried[cur] - 1])
\* The attempts counted are those of the row as it was listed.
Retry(max) ==
  SetJob(cur, [st |-> IF tried[cur] + 1 >= max THEN "failed" ELSE "pending",
               att |-> tried[cur] + 1])

MarkFailed ==
  /\ phase \in {"failed", "limited"}
  /\ Retry(IF phase = "limited" THEN MaxLimits ELSE MaxAttempts)
  /\ cool' = (cool \/ phase = "limited")
  /\ tries' = [tries EXCEPT ![cur] = IF @ < MaxAttempts THEN @ + 1 ELSE @]
  /\ phase' = "next" /\ got' = 0
  /\ UNCHANGED <<memoVars, chunk, adminVars, todo, tried, seen, emb, cur, old,
                 missed, ahead, events>>

\* The update at the end of process fails: logged, and the row stays behind.
MarkLost ==
  /\ phase \in {"done", "failed", "limited"} /\ Event
  /\ cool' = (cool \/ phase = "limited")
  /\ phase' = "next" /\ got' = 0
  /\ UNCHANGED <<memoVars, job, chunk, adminVars, todo, tried, seen, emb, cur, old,
                 missed, tries, ahead>>

CoolDownEnds ==
  /\ cool /\ cool' = FALSE
  /\ UNCHANGED <<memoVars, job, chunk, adminVars, phase, todo, tried, seen, emb, cur, got, old,
                 missed, tries, ahead, events>>

Worker == \/ Backfill \/ BackfillPage \/ BackfillFails \/ BackfillEnd
          \/ Drain \/ ListJobs \/ ResolveEmbedding \/ DrainFails \/ EndBatch
          \/ ReadMemo \/ ReadChunks \/ IndexFails \/ IndexMemo \/ MarkDone \/ MarkFailed \/ MarkLost
          \/ \E m \in Memos : BackfillOne(m) \/ Take(m)

\* The server stops: requests end where they are, the worker's memory is lost.
Crash ==
  /\ Event
  /\ phase' = "boot" /\ todo' = {} /\ tried' = [m \in Memos |-> 0] /\ seen' = {}
  /\ emb' = Off /\ cur' = AnyMemo /\ got' = 0 /\ old' = NoChunk /\ cool' = FALSE
  /\ owed' = [m \in Memos |-> 0]
  /\ missed' = missed \cup {m \in Memos : owed[m] > 0 \/ del[m] \in {1, 2}}
  /\ del' = [m \in Memos |-> IF del[m] = 3 THEN 3 ELSE 0]
  /\ walk' = {} /\ ahead' = {}
  /\ UNCHANGED <<doc, ver, job, chunk, model, tries>>

Next == Handlers \/ Worker \/ CoolDownEnds \/ Crash
Spec == Init /\ [][Next]_vars
\* The goroutine keeps running and time passes; nothing is assumed of handlers,
\* users, faults or the provider.
FairSpec == Spec /\ WF_vars(Worker) /\ WF_vars(CoolDownEnds)

-----------------------------------------------------------------------------
(***************************************************************************)
(* Properties.                                                             *)
(***************************************************************************)
Phases == {"boot", "backfill", "idle", "list", "resolve", "next",
           "read", "chunks", "write", "done", "failed", "limited"}

\* Every row is well formed and the worker holds a memo it can name.
TypeOK ==
  /\ doc \in [Memos -> {"none", "live", "archived"}]
  /\ ver \in [Memos -> Nat] /\ owed \in [Memos -> Nat] /\ del \in [Memos -> 0..3]
  /\ job \in [Memos -> Jobs] /\ chunk \in [Memos -> Chunks]
  /\ model \in Models /\ walk \subseteq Memos
  /\ phase \in Phases /\ todo \subseteq Memos /\ tried \in [Memos -> Nat]
  /\ seen \subseteq Memos /\ emb \in Models /\ cur \in Memos
  /\ got \in Nat /\ old \in Chunks /\ cool \in BOOLEAN
  /\ missed \subseteq Memos /\ tries \in [Memos -> Nat]
  /\ ahead \subseteq Memos /\ events \in Nat

Idle(m)    == del[m] = 0 /\ owed[m] = 0  \* no handler is busy with m
Settled(m) == Idle(m) /\ job[m].st \in {"done", "failed"}

\* What the queue does guarantee: a memo whose job is done, or given up, is
\* searchable by the text it has now (a failing provider costs the vectors
\* only), unless a write was missed: its enqueue landed on the job in flight
\* after the worker had read the memo, or failed, or was cut off by a crash.
SettledMeansSearchable ==
  \A m \in Memos : Settled(m) /\ m \notin missed => chunk[m].text = Text(m)

\* What the worker knows of the memo in hand, and so why the above holds: its
\* row is not settled; and unless a handler is busy with it or a write of it
\* was missed, the text that was read is its text, the chunks that were read
\* are the ones stored, and once written they are of its text.
WorkerInv ==
  /\ phase \in {"read", "chunks", "write", "done", "failed", "limited"} =>
       job[cur].st \notin {"done", "failed"}
  /\ (Idle(cur) /\ cur \notin missed) =>
       /\ phase \in {"chunks", "write"} => got = Text(cur)
       /\ phase = "write" /\ got # 0 => old = chunk[cur]
       /\ phase \in {"done", "failed", "limited"} => chunk[cur].text = Text(cur)

\* What tech-design.md:62 says of a change of model, as far as it holds: a job
\* is done with vectors of the model its batch resolved.
DoneMeansEmbedded ==
  (phase = "done" /\ Idle(cur) /\ cur \notin missed /\ got # 0 /\ emb # Off) => chunk[cur].vec = emb

\* worker.go:52, "Backfill enqueues every indexable memo": once it is over, a
\* live memo without a job is searchable by its text, unless it was missed: by a
\* backfill that failed, was cut off or found the queue already in use, or whose
\* pages passed it over because a document they had listed left the listing.
NothingForgotten ==
  phase \notin {"boot", "backfill"} =>
    \A m \in Indexable : (Idle(m) /\ ~InHands(m) /\ ~HasJob(m) /\ m \notin missed)
                            => chunk[m].text = Text(m)

\* worker.go:16, "maxAttempts caps retries before a job is marked failed": a
\* job is given up only after that many failures since it was last enqueued,
\* not counting an enqueue that found it in the worker's hands.
FailedOnlyAfterRetries ==
  [][\A m \in Memos : (job[m].st # "failed" /\ job'[m].st = "failed") => tries'[m] >= MaxAttempts]_vars

\* Left in processing by a restart or by a failing update, with the worker busy
\* elsewhere: nothing lists such a job again.
Stranded(m) == job[m].st = "processing" /\ ~InHands(m)

\* No job is retried for ever: whatever the provider does, a job that is enqueued
\* ends done, given up or deleted, time after time, unless it is stranded.
Settles ==
  \A m \in Memos : []<>(job[m].st \in {"none", "done", "failed"} \/ Stranded(m))

\* The index of m is going to be looked at: a handler is busy with m, it has a
\* job that is not settled or is in the worker's hands, or the backfill of a
\* server that has just started is still to pass it.
Due(m) == \/ owed[m] > 0 \/ del[m] \in {1, 2}
          \/ job[m].st \in {"pending", "processing"}
          \/ InHands(m) \/ m \in todo \/ m \in ahead
          \/ (phase = "boot" /\ ~HasJob(m))

Index == INSTANCE SearchIndex WITH
  last    <- ver,
  live    <- Indexable,
  indexed <- [m \in Memos |-> chunk[m].text],
  going   <- {m \in Memos : del[m] \in {1, 2}},
  due     <- {m \in Memos : Due(m)},
  lost    <- missed

\* The queue implements SearchIndex: whatever handlers, worker, provider, faults
\* and restarts do, the index of a memo never goes back to an older text, a memo
\* found by its text is not taken from the index while it is being indexed
\* again, and it leaves the queue only searchable by its text or missed, as a
\* memo that a backfill passes over is.
KeepsIndex == Index!Spec
=============================================================================

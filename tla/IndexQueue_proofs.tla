------------------------- MODULE IndexQueue_proofs -------------------------
(***************************************************************************)
(* Proofs about IndexQueue, for every set of memos and models and every    *)
(* bound: its rows are well formed; a memo whose job has come to an end is *)
(* searchable by its present text unless a write was missed, a job that is *)
(* done was embedded, no memo is forgotten and none given up early.  None  *)
(* but the first is inductive by itself: WorkerInv says why the worker     *)
(* ends a job only with chunks that agree with the memo, CoverInv what a   *)
(* memo without a job has instead, CountInv what an attempt stands for.    *)
(* The first two, and OrderInv, carry the refinement of SearchIndex.       *)
(***************************************************************************)
EXTENDS IndexQueue, TLAPS

\* What UpsertMemoIndexJob leaves behind is well formed.
LEMMA UpsertType ==
  ASSUME TypeOK, NEW m \in Memos, Upsert(m)
  PROVE  /\ job' \in [Memos -> Jobs]
         /\ tries' \in [Memos -> Nat]
         /\ missed' \subseteq Memos
  BY SMT DEF TypeOK, Upsert, Jobs

\* UpdateMemoIndexJob with a well-formed row.
LEMMA SetJobType ==
  ASSUME TypeOK, NEW m \in Memos, NEW j \in Jobs, SetJob(m, j)
  PROVE  job' \in [Memos -> Jobs]
  BY SMT DEF TypeOK, SetJob, HasJob

\* A text is a natural number and NoChunk is a chunk.
LEMMA TextType ==
  ASSUME TypeOK
  PROVE  (\A m \in Memos : Text(m) \in Nat) /\ NoChunk \in Chunks
  BY ModelsAssumption, SMT DEF TypeOK, Text, NoChunk, Chunks

\* The memo the worker is said to hold when it holds none.
LEMMA AnyMemoType == AnyMemo \in Memos
  BY MemosAssumption DEF AnyMemo

\* A move of the listing leaves the backfill with memos.
LEMMA ListingType ==
  ASSUME TypeOK, NEW m \in Memos, Leaves(m) \/ Joins(m) \/ UNCHANGED <<ahead, missed>>
  PROVE  ahead' \subseteq Memos /\ missed' \subseteq Memos
  BY SMT DEF TypeOK, Leaves, Joins, Skip, Indexable

\* A memo that comes to be missed by it was still ahead of the backfill, and one
\* ahead stays so, but the one that leaves, unless it is missed or has a job.
LEMMA ListingMisses ==
  ASSUME NEW m \in Memos, Leaves(m) \/ Joins(m) \/ UNCHANGED <<ahead, missed>>
  PROVE  /\ missed \subseteq missed'
         /\ m \in missed' => m \in missed
         /\ \A n \in missed' : n \in missed \/ n \in ahead
         /\ \A n \in ahead \ {m} : n \in ahead' \/ n \in missed' \/ HasJob(n)
  BY DEF Leaves, Joins, Skip

\* Every state the queue starts in is well formed.
LEMMA InitType == Init => TypeOK
<1> SUFFICES ASSUME Init PROVE TypeOK
  OBVIOUS
<1>1. NoJob \in Jobs /\ NoChunk \in Chunks
  BY ModelsAssumption DEF NoJob, NoChunk, Jobs, Chunks
<1>2. job \in [Memos -> Jobs] /\ chunk \in [Memos -> Chunks] /\ old \in Chunks
  BY <1>1 DEF Init
<1>3. doc \in [Memos -> {"none", "live", "archived"}] /\ ver \in [Memos -> Nat]
  BY SMT DEF Init
<1>4. cool \in BOOLEAN /\ phase \in Phases /\ emb \in Models
  BY ModelsAssumption DEF Init, Phases
<1>5. /\ owed \in [Memos -> Nat] /\ del \in [Memos -> 0..3]
      /\ tried \in [Memos -> Nat] /\ tries \in [Memos -> Nat]
  BY SMT DEF Init
<1>6. got \in Nat /\ ahead \subseteq Memos /\ events \in Nat
  BY BoundsAssumption, SMT DEF Init
<1>7. model \in Models /\ cur \in Memos
  BY AnyMemoType DEF Init
<1>8. walk \subseteq Memos /\ todo \subseteq Memos /\ seen \subseteq Memos /\ missed \subseteq Memos
  BY DEF Init
<1> QED
  BY <1>2, <1>3, <1>4, <1>5, <1>6, <1>7, <1>8 DEF TypeOK

-----------------------------------------------------------------------------
\* The request handlers keep the rows well formed.
LEMMA HandlersType == TypeOK /\ Handlers => TypeOK'
<1> SUFFICES ASSUME TypeOK, Handlers PROVE TypeOK'
  OBVIOUS
<1>0. NoChunk \in Chunks /\ NoJob \in Jobs
  BY TextType DEF NoJob, Jobs
<1>1. ASSUME NEW m \in Memos, NEW st \in {"live", "archived"}, Write(m, st) PROVE TypeOK'
  <2>1. ahead' \subseteq Memos /\ missed' \subseteq Memos
    BY <1>1, ListingType DEF Write
  <2> QED
    BY <1>1, <2>1, SMT DEF TypeOK, Write, Event, adminVars, workerVars
<1>2. ASSUME NEW m \in Memos, Enqueue(m) PROVE TypeOK'
  <2>1. job' \in [Memos -> Jobs] /\ tries' \in [Memos -> Nat] /\ missed' \subseteq Memos
    BY <1>2, UpsertType DEF Enqueue
  <2>2. owed' \in [Memos -> Nat]
    BY <1>2, SMT DEF TypeOK, Enqueue
  <2> QED
    BY <1>2, <2>1, <2>2, SMT DEF TypeOK, Enqueue, adminVars, workerVars
<1>3. ASSUME NEW m \in Memos, EnqueueFails(m) PROVE TypeOK'
  BY <1>3, SMT DEF TypeOK, EnqueueFails, Event, adminVars, workerVars
<1>4. ASSUME NEW m \in Memos, DeleteChunks(m) PROVE TypeOK'
  BY <1>0, <1>4, SMT DEF TypeOK, DeleteChunks, Event, adminVars, workerVars
<1>5. ASSUME NEW m \in Memos, DeleteJob(m) PROVE TypeOK'
  BY <1>0, <1>5, SMT DEF TypeOK, DeleteJob, Event, adminVars, workerVars
<1>6. ASSUME NEW m \in Memos, DeleteRow(m) PROVE TypeOK'
  <2>1. ahead' \subseteq Memos /\ missed' \subseteq Memos
    BY <1>6, ListingType DEF DeleteRow
  <2> QED
    BY <1>6, <2>1, SMT DEF TypeOK, DeleteRow, adminVars, workerVars
<1>7. ASSUME NEW n \in Models, StartRebuild(n) PROVE TypeOK'
  BY <1>7, SMT DEF TypeOK, StartRebuild, Event, Indexable, memoVars, workerVars
<1>8. ASSUME NEW m \in Memos, RebuildOne(m) PROVE TypeOK'
  <2>1. job' \in [Memos -> Jobs] /\ tries' \in [Memos -> Nat] /\ missed' \subseteq Memos
    BY <1>8, UpsertType DEF RebuildOne
  <2> QED
    BY <1>8, <2>1, SMT DEF TypeOK, RebuildOne, memoVars, workerVars
<1>9. ASSUME NEW m \in Memos, DeleteRefused(m) PROVE TypeOK'
  BY <1>9, SMT DEF TypeOK, DeleteRefused, Event, adminVars, workerVars
<1>10. CASE OtherRows
  BY <1>10, SMT DEF TypeOK, OtherRows, Event, Skip, Indexable, memoVars, adminVars, workerVars
<1> QED
  BY <1>1, <1>2, <1>3, <1>4, <1>5, <1>6, <1>7, <1>8, <1>9, <1>10 DEF Handlers

\* So does the worker.
LEMMA WorkerType == TypeOK /\ Worker => TypeOK'
<1> SUFFICES ASSUME TypeOK, Worker PROVE TypeOK'
  OBVIOUS
<1> USE DEF memoVars, adminVars
<1>1. CASE Backfill
  BY <1>1, SMT DEF TypeOK, Backfill, Indexable, Phases
<1>2. ASSUME NEW m \in Memos, BackfillOne(m) PROVE TypeOK'
  <2>1. job' \in [Memos -> Jobs] /\ tries' \in [Memos -> Nat] /\ missed' \subseteq Memos
    BY <1>2, UpsertType DEF BackfillOne
  <2> QED
    BY <1>2, <2>1, SMT DEF TypeOK, BackfillOne
<1>3. CASE BackfillEnd
  BY <1>3, SMT DEF TypeOK, BackfillEnd, Phases
<1>4. CASE Drain
  BY <1>4, SMT DEF TypeOK, Drain, Phases
<1>5. CASE ListJobs
  BY <1>5, SMT DEF TypeOK, ListJobs, Jobs, Phases
<1>6. CASE ResolveEmbedding
  BY <1>6, SMT DEF TypeOK, ResolveEmbedding, Phases
<1>7. CASE BackfillFails \/ DrainFails
  <2>1. CASE BackfillFails
    <3>1. missed' \subseteq Memos
      BY <2>1 DEF BackfillFails, Indexable, TypeOK
    <3> QED
      BY <2>1, <3>1, SMT DEF TypeOK, BackfillFails, Event, Phases
  <2>2. CASE DrainFails
    BY <2>2, SMT DEF TypeOK, DrainFails, Event, Phases
  <2> QED
    BY <1>7, <2>1, <2>2
<1>8. CASE EndBatch
  BY <1>8, AnyMemoType, ModelsAssumption, SMT DEF TypeOK, EndBatch, Phases
<1>9. ASSUME NEW m \in Memos, Take(m) PROVE TypeOK'
  <2>1. [job[m] EXCEPT !.st = "processing"] \in Jobs
    BY SMT DEF TypeOK, Jobs
  <2>2. job' \in [Memos -> Jobs]
    BY <1>9, <2>1, SetJobType DEF Take, TypeOK
  <2>3. phase' \in Phases /\ events' \in Nat
    BY <1>9, SMT DEF Take, Event, TypeOK, Phases
  <2> QED
    BY <1>9, <2>2, <2>3, SMTT(30) DEF TypeOK, Take
<1>10. CASE ReadMemo
  <2>1. got' \in Nat
    BY <1>10, TextType DEF ReadMemo, TypeOK
  <2> QED
    BY <1>10, <2>1, SMT DEF TypeOK, ReadMemo, Phases
<1>11. CASE ReadChunks
  BY <1>11, SMT DEF TypeOK, ReadChunks, Phases
<1>12. CASE IndexMemo
  <2>1. Carried \in Chunks /\ [text |-> got, vec |-> emb] \in Chunks /\ NoChunk \in Chunks
    BY TextType, ModelsAssumption, SMT DEF TypeOK, Carried, Chunks
  <2>2. chunk' \in [Memos -> Chunks] /\ phase' \in Phases
    BY <1>12, <2>1, SMT DEF TypeOK, IndexMemo, Replace, FallBack, Phases
  <2> QED
    BY <1>12, <2>1, <2>2, SMT DEF TypeOK, IndexMemo
<1>13. CASE IndexFails
  BY <1>13, TextType, SMTT(30) DEF TypeOK, IndexFails, Event, Phases
<1>14. CASE MarkDone
  <2>1. [job[cur] EXCEPT !.st = "done"] \in Jobs
    BY SMT DEF TypeOK, Jobs
  <2>2. job' \in [Memos -> Jobs]
    BY <1>14, <2>1, SetJobType DEF MarkDone, TypeOK
  <2> QED
    BY <1>14, <2>2, SMT DEF TypeOK, MarkDone, Phases
<1>15. CASE MarkFailed
  <2>1. PICK max : Retry(max)
    BY <1>15 DEF MarkFailed
  <2>2. [st |-> IF tried[cur] + 1 >= max THEN "failed" ELSE "pending",
         att |-> tried[cur] + 1] \in Jobs
    BY SMT DEF TypeOK, Jobs
  <2>3. job' \in [Memos -> Jobs]
    BY <2>1, <2>2, SetJobType DEF Retry, TypeOK
  <2>4. cool' \in BOOLEAN /\ phase' \in Phases
    BY <1>15 DEF MarkFailed, Phases
  <2>5. tries' \in [Memos -> Nat]
    BY <1>15, SMT DEF TypeOK, MarkFailed
  <2>6. /\ UNCHANGED <<memoVars, chunk, adminVars, todo, tried, seen, emb, cur, old,
                       missed, ahead, events>>
        /\ got' = 0
    BY <1>15 DEF MarkFailed
  <2> QED
    BY <2>3, <2>4, <2>5, <2>6, SMT DEF TypeOK
<1>16. CASE MarkLost
  BY <1>16, SMT DEF TypeOK, MarkLost, Event, Phases
<1>17. CASE BackfillPage
  BY <1>17, SMT DEF TypeOK, BackfillPage
<1> QED
  BY <1>1, <1>2, <1>3, <1>4, <1>5, <1>6, <1>7, <1>8, <1>9,
     <1>10, <1>11, <1>12, <1>13, <1>14, <1>15, <1>16, <1>17 DEF Worker

\* And so do a cool-down that ends, and a restart.
LEMMA RestType == TypeOK /\ (CoolDownEnds \/ Crash \/ UNCHANGED vars) => TypeOK'
<1> SUFFICES ASSUME TypeOK, CoolDownEnds \/ Crash \/ UNCHANGED vars PROVE TypeOK'
  OBVIOUS
<1> USE DEF memoVars, adminVars, workerVars
<1>1. CASE CoolDownEnds
  <2>1. cool' \in BOOLEAN
    BY <1>1 DEF CoolDownEnds
  <2>2. UNCHANGED <<memoVars, job, chunk, adminVars, phase, todo, tried, seen, emb, cur, got,
                    old, missed, tries, ahead, events>>
    BY <1>1 DEF CoolDownEnds
  <2> QED
    BY <2>1, <2>2, SMT DEF TypeOK
<1>2. CASE Crash
  <2>1. NoChunk \in Chunks
    BY TextType
  <2>2. /\ phase' \in Phases /\ todo' \subseteq Memos /\ seen' \subseteq Memos
        /\ emb' \in Models /\ old' \in Chunks /\ cool' \in BOOLEAN /\ walk' \subseteq Memos
        /\ cur' \in Memos /\ ahead' \subseteq Memos
    BY <1>2, <2>1, AnyMemoType, ModelsAssumption, Zenon DEF Crash, Phases
  <2>3. tried' \in [Memos -> Nat] /\ owed' \in [Memos -> Nat]
    <3>1. tried' = [m \in Memos |-> 0] /\ owed' = [m \in Memos |-> 0]
      BY <1>2 DEF Crash
    <3> QED
      BY <3>1, SMT
  <2>4. del' \in [Memos -> 0..3] /\ got' \in Nat /\ events' \in Nat
    <3>1. /\ del' = [m \in Memos |-> IF del[m] = 3 THEN 3 ELSE 0]
          /\ got' = 0 /\ events' = events + 1
      BY <1>2 DEF Crash, Event
    <3> QED
      BY <3>1, SMT DEF TypeOK
  <2>5. missed' \subseteq Memos
    BY <1>2, Zenon DEF Crash, TypeOK
  <2>6. UNCHANGED <<doc, ver, job, chunk, model, tries>>
    BY <1>2 DEF Crash
  <2> QED
    BY <2>2, <2>3, <2>4, <2>5, <2>6, SMT DEF TypeOK
<1>3. CASE UNCHANGED vars
  BY <1>3, SMT DEF TypeOK, vars
<1> QED
  BY <1>1, <1>2, <1>3

\* The rows are well formed in every reachable state.
THEOREM TypeCorrect == Spec => []TypeOK
<1>1. TypeOK /\ [Next]_vars => TypeOK'
  BY HandlersType, WorkerType, RestType DEF Next
<1> QED
  BY InitType, <1>1, PTL DEF Spec

-----------------------------------------------------------------------------
(***************************************************************************)
(* The inductive invariant.                                                *)
(***************************************************************************)
IInv == TypeOK /\ WorkerInv /\ SettledMeansSearchable

\* The queue starts with no row settled and the worker with nothing in hand.
LEMMA InitInv == Init => IInv
<1> SUFFICES ASSUME Init PROVE IInv
  OBVIOUS
<1>1. TypeOK
  BY InitType
<1>2. WorkerInv
  BY DEF Init, WorkerInv
<1>3. \A m \in Memos : job[m].st = "none"
  <2>1. job = [m \in Memos |-> NoJob]
    BY DEF Init
  <2> QED
    BY <2>1, Zenon DEF NoJob
<1>4. SettledMeansSearchable
  BY <1>3 DEF SettledMeansSearchable, Settled
<1> QED
  BY <1>1, <1>2, <1>4 DEF IInv

\* A handler that writes owes an enqueue, one that enqueues makes the job
\* pending and is missed by a worker that holds the memo, and one that deletes
\* is busy with the memo till it is gone.
LEMMA HandlersInv == IInv /\ Handlers => WorkerInv' /\ SettledMeansSearchable'
<1> SUFFICES ASSUME IInv, Handlers PROVE WorkerInv' /\ SettledMeansSearchable'
  OBVIOUS
<1> USE DEF IInv, TypeOK, Jobs, Chunks, memoVars, adminVars, workerVars,
            Idle, Settled, Text, WorkerInv, SettledMeansSearchable
<1>1. ASSUME NEW m \in Memos, NEW st \in {"live", "archived"}, Write(m, st)
      PROVE WorkerInv' /\ SettledMeansSearchable'
  <2>1. missed \subseteq missed'
    BY <1>1, ListingMisses DEF Write
  <2>2. UNCHANGED <<del, job, chunk, cur, phase, got, old>>
    BY <1>1 DEF Write
  <2>3. /\ owed'[m] > 0
        /\ \A n \in Memos \ {m} : owed'[n] = owed[n] /\ doc'[n] = doc[n] /\ ver'[n] = ver[n]
    BY <1>1, SMT DEF Write
  <2> QED
    BY <2>1, <2>2, <2>3, SMT
<1>2. ASSUME NEW m \in Memos, Enqueue(m) PROVE WorkerInv' /\ SettledMeansSearchable'
  BY <1>2, SMT DEF Enqueue, Upsert, InFlight
<1>3. ASSUME NEW m \in Memos, EnqueueFails(m) PROVE WorkerInv' /\ SettledMeansSearchable'
  BY <1>3, SMT DEF EnqueueFails, Event
<1>4. ASSUME NEW m \in Memos, DeleteChunks(m) PROVE WorkerInv' /\ SettledMeansSearchable'
  BY <1>4, SMT DEF DeleteChunks
<1>5. ASSUME NEW m \in Memos, DeleteJob(m) PROVE WorkerInv' /\ SettledMeansSearchable'
  <2>1. /\ \A n \in Memos : job'[n] = job[n] \/ job'[n].st = "none"
        /\ \A n \in Memos : del'[n] = 0 => del[n] = 0 /\ n # m
    BY <1>5 DEF DeleteJob, NoJob
  <2>2. \A n \in Memos \ {m} : job'[n] = job[n]
    BY <1>5 DEF DeleteJob
  <2>3. UNCHANGED <<doc, ver, owed, chunk, cur, phase, got, old, missed>>
    BY <1>5 DEF DeleteJob
  <2>4. WorkerInv'
    BY <2>1, <2>3
  <2>5. SettledMeansSearchable'
    BY <2>1, <2>2, <2>3
  <2> QED
    BY <2>4, <2>5
<1>6. ASSUME NEW m \in Memos, DeleteRow(m) PROVE WorkerInv' /\ SettledMeansSearchable'
  <2>1. missed \subseteq missed'
    BY <1>6, ListingMisses DEF DeleteRow
  <2>2. UNCHANGED <<ver, owed, job, chunk, cur, phase, got, old>>
    BY <1>6 DEF DeleteRow
  <2>3. del'[m] = 3 /\ \A n \in Memos \ {m} : del'[n] = del[n] /\ doc'[n] = doc[n]
    BY <1>6, SMT DEF DeleteRow
  <2> QED
    BY <2>1, <2>2, <2>3, SMT
<1>7. ASSUME NEW n \in Models, StartRebuild(n) PROVE WorkerInv' /\ SettledMeansSearchable'
  BY <1>7, SMT DEF StartRebuild
<1>8. ASSUME NEW m \in Memos, RebuildOne(m) PROVE WorkerInv' /\ SettledMeansSearchable'
  BY <1>8, SMT DEF RebuildOne, Upsert, InFlight
<1>9. ASSUME NEW m \in Memos, DeleteRefused(m) PROVE WorkerInv' /\ SettledMeansSearchable'
  BY <1>9, SMT DEF DeleteRefused
<1>10. CASE OtherRows
  BY <1>10, SMT DEF OtherRows, Skip
<1> QED
  BY <1>1, <1>2, <1>3, <1>4, <1>5, <1>6, <1>7, <1>8, <1>9, <1>10 DEF Handlers

\* The worker takes a memo with its row unsettled, forgives what was missed
\* when it reads, writes what it read, and ends the job after that.
LEMMA WorkerStepInv == IInv /\ Worker => WorkerInv' /\ SettledMeansSearchable'
<1> SUFFICES ASSUME IInv, Worker PROVE WorkerInv' /\ SettledMeansSearchable'
  OBVIOUS
<1> USE DEF IInv, TypeOK, Jobs, Chunks, memoVars, adminVars,
            Idle, Settled, Text, WorkerInv, SettledMeansSearchable
<1>1. CASE Backfill
  BY <1>1, SMT DEF Backfill
<1>2. ASSUME NEW m \in Memos, BackfillOne(m) PROVE WorkerInv' /\ SettledMeansSearchable'
  BY <1>2, SMT DEF BackfillOne, Upsert, InFlight
<1>3. CASE BackfillEnd
  BY <1>3, SMT DEF BackfillEnd
<1>4. CASE Drain
  BY <1>4, SMT DEF Drain
<1>5. CASE ListJobs
  BY <1>5, SMT DEF ListJobs
<1>6. CASE ResolveEmbedding
  BY <1>6, SMT DEF ResolveEmbedding
<1>7. CASE BackfillFails \/ DrainFails
  BY <1>7, SMT DEF BackfillFails, DrainFails
<1>8. CASE EndBatch
  <2>1. phase' \in {"idle", "list"}
    BY <1>8 DEF EndBatch
  <2>2. UNCHANGED <<doc, ver, owed, del, job, chunk, missed>>
    BY <1>8 DEF EndBatch
  <2> QED
    BY <2>1, <2>2, SMT
<1>9. ASSUME NEW m \in Memos, Take(m) PROVE WorkerInv' /\ SettledMeansSearchable'
  <2>1. UNCHANGED <<doc, ver, owed, del, chunk, missed>> /\ cur' = m
    BY <1>9 DEF Take
  <2>2. CASE phase' = "next" /\ UNCHANGED job
    BY <2>1, <2>2, SMT
  <2>3. CASE phase' = "read" /\ SetJob(m, [job[m] EXCEPT !.st = "processing"])
    <3>1. job'[m].st \notin {"done", "failed"} /\ \A n \in Memos \ {m} : job'[n] = job[n]
      BY <2>3, SMT DEF SetJob, HasJob
    <3> QED
      BY <2>1, <2>3, <3>1, SMT
  <2> QED
    BY <1>9, <2>2, <2>3 DEF Take
<1>10. CASE ReadMemo
  BY <1>10, SMT DEF ReadMemo
<1>11. CASE ReadChunks
  BY <1>11, SMT DEF ReadChunks
<1>12. CASE IndexMemo
  <2>1. phase = "write" /\ phase' \in {"done", "failed", "limited"}
    BY <1>12 DEF IndexMemo
  <2>2. UNCHANGED <<doc, ver, owed, del, job, cur, missed>>
    BY <1>12 DEF IndexMemo
  <2>3. /\ \A m \in Memos \ {cur} : chunk'[m] = chunk[m]
        /\ (got = 0 \/ old = chunk[cur]) => chunk'[cur].text = got
    <3>1. CASE got = 0
      BY <1>12, <3>1, SMT DEF IndexMemo, NeedsCall, NoChunk
    <3>2. CASE got # 0
      <4>1. PICK new : /\ new.text = got
                       /\ Replace(new) \/ chunk' = [chunk EXCEPT ![cur] = new]
        BY <1>12, <3>2 DEF IndexMemo, FallBack, Carried
      <4> QED
        BY <3>2, <4>1, SMT DEF Replace
    <3> QED
      BY <3>1, <3>2
  <2>4. job'[cur'].st \notin {"done", "failed"}
    BY <2>1, <2>2
  <2>5. Idle(cur) /\ cur \notin missed => chunk'[cur].text = Text(cur)
    BY <2>1, <2>3
  <2>6. Idle(cur)' /\ cur' \notin missed' => chunk'[cur'].text = Text(cur)'
    BY <2>2, <2>5
  <2>7. WorkerInv'
    BY <2>1, <2>4, <2>6
  <2>8. ASSUME NEW m \in Memos, Settled(m)', m \notin missed' PROVE chunk'[m].text = Text(m)'
    <3>1. m # cur
      BY <2>2, <2>4, <2>8
    <3>2. Settled(m) /\ m \notin missed /\ Text(m)' = Text(m)
      BY <2>2, <2>8
    <3> QED
      BY <2>3, <3>1, <3>2
  <2> QED
    BY <2>7, <2>8 DEF SettledMeansSearchable
<1>13. CASE IndexFails
  BY <1>13, SMT DEF IndexFails
<1>14. CASE MarkDone
  BY <1>14, SMT DEF MarkDone, SetJob, HasJob
<1>15. CASE MarkFailed
  <2>1. phase \in {"failed", "limited"} /\ phase' = "next"
    BY <1>15 DEF MarkFailed
  <2>2. \A m \in Memos \ {cur} : job'[m] = job[m]
    BY <1>15, SMT DEF MarkFailed, Retry, SetJob, HasJob
  <2>3. UNCHANGED <<doc, ver, owed, del, chunk, cur, missed>>
    BY <1>15 DEF MarkFailed
  <2>4. WorkerInv'
    BY <2>1
  <2>5. ASSUME NEW m \in Memos, Settled(m)', m \notin missed' PROVE chunk'[m].text = Text(m)'
    <3>1. CASE m = cur
      BY <2>1, <2>3, <2>5, <3>1
    <3>2. CASE m # cur
      BY <2>2, <2>3, <2>5, <3>2
    <3> QED
      BY <3>1, <3>2
  <2> QED
    BY <2>4, <2>5 DEF SettledMeansSearchable
<1>16. CASE MarkLost
  BY <1>16, SMT DEF MarkLost
<1>17. CASE BackfillPage
  BY <1>17, SMT DEF BackfillPage
<1> QED
  BY <1>1, <1>2, <1>3, <1>4, <1>5, <1>6, <1>7, <1>8, <1>9,
     <1>10, <1>11, <1>12, <1>13, <1>14, <1>15, <1>16, <1>17 DEF Worker

\* A restart counts as missed the enqueues and deletions it cuts off.
LEMMA RestInv == IInv /\ (CoolDownEnds \/ Crash \/ UNCHANGED vars)
                    => WorkerInv' /\ SettledMeansSearchable'
<1> SUFFICES ASSUME IInv, CoolDownEnds \/ Crash \/ UNCHANGED vars
             PROVE  WorkerInv' /\ SettledMeansSearchable'
  OBVIOUS
<1> USE DEF IInv, TypeOK, Idle, Settled, Text, WorkerInv, SettledMeansSearchable
<1>1. CASE CoolDownEnds \/ UNCHANGED vars
  <2>1. UNCHANGED <<doc, ver, owed, del, job, chunk, phase, cur, got, old, missed>>
    BY <1>1 DEF CoolDownEnds, vars, memoVars, workerVars
  <2> QED
    BY <2>1, SMT
<1>2. CASE Crash
  <2>1. phase' = "boot" /\ UNCHANGED <<doc, ver, job, chunk>>
    BY <1>2 DEF Crash
  <2>2. \A m \in Memos : m \notin missed' => m \notin missed /\ owed[m] = 0 /\ del[m] \in {0, 3}
    BY <1>2, SMT DEF Crash
  <2>3. \A m \in Memos : del[m] \in {0, 3} => del'[m] = del[m]
    <3>1. del' = [m \in Memos |-> IF del[m] = 3 THEN 3 ELSE 0]
      BY <1>2 DEF Crash
    <3> QED
      BY <3>1, SMT
  <2> QED
    BY <2>1, <2>2, <2>3, SMT
<1> QED
  BY <1>1, <1>2

\* Every step preserves it.
LEMMA Inductive == IInv /\ [Next]_vars => IInv'
<1> SUFFICES ASSUME IInv, [Next]_vars PROVE IInv'
  OBVIOUS
<1>1. TypeOK'
  BY HandlersType, WorkerType, RestType DEF Next, IInv
<1>2. WorkerInv' /\ SettledMeansSearchable'
  BY HandlersInv, WorkerStepInv, RestInv DEF Next
<1> QED
  BY <1>1, <1>2 DEF IInv

\* In every reachable state the worker knows of the memo in hand what WorkerInv
\* says: its row is not settled, and what was read is what is stored.
THEOREM WorkerKnows == Spec => []WorkerInv
<1>1. IInv => WorkerInv
  BY DEF IInv
<1> QED
  BY InitInv, Inductive, <1>1, PTL DEF Spec

\* In every reachable state a memo whose job has come to an end is searchable by
\* its text unless a write of it was missed.
THEOREM Searchable == Spec => []SettledMeansSearchable
<1>1. IInv => SettledMeansSearchable
  BY DEF IInv
<1> QED
  BY InitInv, Inductive, <1>1, PTL DEF Spec

-----------------------------------------------------------------------------
\* A handler that leaves nothing owed for the memo in hand, and by which it is
\* not missed, has touched neither the memo nor its chunks.
LEMMA HandlersQuiet ==
  ASSUME TypeOK, Handlers, phase = "done", Idle(cur)', cur \notin missed'
  PROVE  Idle(cur) /\ cur \notin missed /\ chunk'[cur] = chunk[cur] /\ UNCHANGED workerVars
<1> USE DEF TypeOK, Idle, workerVars
<1>1. ASSUME NEW m \in Memos, NEW st \in {"live", "archived"}, Write(m, st)
      PROVE  Idle(cur) /\ cur \notin missed /\ chunk'[cur] = chunk[cur] /\ UNCHANGED workerVars
  <2>1. missed \subseteq missed'
    BY <1>1, ListingMisses DEF Write
  <2> QED
    BY <1>1, <2>1, SMT DEF Write
<1>2. ASSUME NEW m \in Memos, Enqueue(m) \/ RebuildOne(m) \/ EnqueueFails(m)
      PROVE  Idle(cur) /\ cur \notin missed /\ chunk'[cur] = chunk[cur] /\ UNCHANGED workerVars
  BY <1>2, SMT DEF Enqueue, RebuildOne, EnqueueFails, Upsert, InFlight, memoVars
<1>3. ASSUME NEW m \in Memos, DeleteChunks(m) \/ DeleteJob(m) \/ DeleteRow(m) \/ DeleteRefused(m)
      PROVE  Idle(cur) /\ cur \notin missed /\ chunk'[cur] = chunk[cur] /\ UNCHANGED workerVars
  <2>1. missed \subseteq missed'
    BY <1>3, ListingMisses DEF DeleteChunks, DeleteJob, DeleteRow, DeleteRefused
  <2> QED
    BY <1>3, <2>1, SMT DEF DeleteChunks, DeleteJob, DeleteRow, DeleteRefused
<1>4. ASSUME NEW n \in Models, StartRebuild(n)
      PROVE  Idle(cur) /\ cur \notin missed /\ chunk'[cur] = chunk[cur] /\ UNCHANGED workerVars
  BY <1>4, SMT DEF StartRebuild, memoVars
<1>5. CASE OtherRows
  BY <1>5 DEF OtherRows
<1> QED
  BY <1>1, <1>2, <1>3, <1>4, <1>5 DEF Handlers

\* Only IndexMemo makes a job done, and it leaves vectors of the batch's model.
LEMMA DoneStep == IInv /\ DoneMeansEmbedded /\ [Next]_vars => DoneMeansEmbedded'
<1> SUFFICES ASSUME IInv, DoneMeansEmbedded, [Next]_vars, phase' = "done", Idle(cur)',
                    cur' \notin missed', got' # 0, emb' # Off
             PROVE  chunk'[cur'].vec = emb'
  BY DEF DoneMeansEmbedded
<1> USE DEF memoVars, adminVars
<1>1. CASE IndexMemo
  <2>1. /\ UNCHANGED <<owed, del, cur, got, emb, missed>>
        /\ phase = "write" /\ chunk \in [Memos -> Chunks] /\ cur \in Memos
    BY <1>1 DEF IndexMemo, IInv, TypeOK
  <2>2. old = chunk[cur]
    BY <2>1 DEF IInv, WorkerInv, Idle
  <2>3. PICK new : new.vec = emb /\ Replace(new)
    <3>1. CASE ~NeedsCall
      <4>1. Reusable /\ old.vec = emb
        BY <2>1, <3>1 DEF NeedsCall, Reusable
      <4> QED
        BY <1>1, <2>1, <3>1, <4>1 DEF IndexMemo, Carried
    <3>2. CASE NeedsCall
      BY <1>1, <2>1, <3>2 DEF IndexMemo
    <3> QED
      BY <3>1, <3>2
  <2> QED
    BY <2>1, <2>2, <2>3, SMT DEF Replace
<1>2. CASE Handlers
  <2>1. workerVars' = workerVars => phase = "done" /\ UNCHANGED <<cur, got, emb>>
    BY DEF workerVars
  <2>2. workerVars' = workerVars
    BY <1>2, SMT DEF Handlers, Write, Enqueue, EnqueueFails, DeleteChunks, DeleteJob,
                     DeleteRow, DeleteRefused, StartRebuild, RebuildOne, OtherRows
  <2>3. Idle(cur) /\ cur \notin missed /\ chunk'[cur] = chunk[cur]
    BY <1>2, <2>1, <2>2, HandlersQuiet DEF IInv, Idle
  <2> QED
    BY <2>1, <2>2, <2>3 DEF DoneMeansEmbedded
<1>3. CASE CoolDownEnds \/ UNCHANGED vars
  <2>1. UNCHANGED <<owed, del, chunk, phase, cur, got, emb, missed>>
    BY <1>3 DEF CoolDownEnds, vars, workerVars
  <2> QED
    BY <2>1 DEF DoneMeansEmbedded, Idle
<1>4. CASE Worker /\ ~IndexMemo
  BY <1>4, Zenon DEF Worker, Backfill, BackfillPage, BackfillFails, BackfillEnd, Drain, ListJobs,
     ResolveEmbedding, DrainFails, EndBatch, ReadMemo, ReadChunks, IndexFails, MarkDone, MarkFailed,
     MarkLost, BackfillOne, Take
<1>5. CASE Crash
  BY <1>5 DEF Crash
<1> QED
  BY <1>1, <1>2, <1>3, <1>4, <1>5 DEF Next

\* In every reachable state a job about to be marked done has its memo's
\* chunks embedded by the model the batch resolved, unless it was missed.
THEOREM Embedded == Spec => []DoneMeansEmbedded
<1>1. Init => IInv /\ DoneMeansEmbedded
  BY InitInv DEF Init, DoneMeansEmbedded
<1>2. IInv /\ DoneMeansEmbedded /\ [Next]_vars => (IInv /\ DoneMeansEmbedded)'
  BY Inductive, DoneStep
<1> QED
  BY <1>1, <1>2, PTL DEF Spec

-----------------------------------------------------------------------------
(***************************************************************************)
(* No memo is left out.                                                    *)
(***************************************************************************)
\* A memo that the backfill need not reach: it has no text or a job, a handler is
\* busy with it, or it was missed.
Spared(m) == doc[m] # "live" \/ ~Idle(m) \/ HasJob(m) \/ m \in missed
\* What a memo has when nobody is to come to it.
Covered(m) == Spared(m) \/ chunk[m].text = Text(m)

\* Between the worker's read and its write the memo's row may go and the memo
\* stay: the deletion that took the row was refused, and the read has forgiven
\* that the refusal was missed.  WorkerInv covers the memo from the write on.
CoverInv ==
  /\ phase = "backfill" => \A m \in Memos : Spared(m) \/ m \in todo \/ m \in ahead
  /\ phase \notin {"boot", "backfill"} =>
       \A m \in Memos : Covered(m) \/ (cur = m /\ phase \in {"chunks", "write"})

LEMMA CoverSuffices == CoverInv => NothingForgotten
  BY DEF CoverInv, Covered, Spared, NothingForgotten, Indexable, InHands, InFlight

\* A handler that stops being busy with a memo has enqueued it or is missed, and
\* one that moves a memo out of the backfill's way leaves it spared.
Kept(m) == /\ Spared(m) => Spared(m)'
           /\ Covered(m) => Covered(m)'
           /\ m \in ahead => m \in ahead' \/ Spared(m)'
LEMMA HandlersCover ==
  ASSUME TypeOK, Handlers
  PROVE  UNCHANGED workerVars /\ \A m \in Memos : Kept(m)
<1> USE DEF TypeOK, Jobs, Chunks, memoVars, adminVars, workerVars, Kept, Covered, Spared, Idle,
            HasJob, Text
<1>1. ASSUME NEW n \in Memos, NEW st \in {"live", "archived"}, Write(n, st)
      PROVE  UNCHANGED workerVars /\ \A m \in Memos : Kept(m)
  <2>1. /\ missed \subseteq missed'
        /\ \A m \in ahead \ {n} : m \in ahead' \/ m \in missed' \/ HasJob(m)
    BY <1>1, ListingMisses DEF Write
  <2>2. UNCHANGED <<del, job, chunk, workerVars>>
    BY <1>1 DEF Write
  <2>3. /\ owed'[n] > 0
        /\ \A m \in Memos \ {n} : owed'[m] = owed[m] /\ doc'[m] = doc[m] /\ ver'[m] = ver[m]
    BY <1>1, SMT DEF Write
  <2> QED
    BY <2>1, <2>2, <2>3, SMT
<1>2. ASSUME NEW n \in Memos, Enqueue(n) \/ RebuildOne(n)
      PROVE  UNCHANGED workerVars /\ \A m \in Memos : Kept(m)
  BY <1>2, SMT DEF Enqueue, RebuildOne, Upsert
<1>3. ASSUME NEW n \in Memos, EnqueueFails(n)
      PROVE  UNCHANGED workerVars /\ \A m \in Memos : Kept(m)
  BY <1>3, SMT DEF EnqueueFails
<1>4. ASSUME NEW n \in Memos, DeleteChunks(n)
      PROVE  UNCHANGED workerVars /\ \A m \in Memos : Kept(m)
  BY <1>4, SMT DEF DeleteChunks
<1>5. ASSUME NEW n \in Memos, DeleteJob(n)
      PROVE  UNCHANGED workerVars /\ \A m \in Memos : Kept(m)
  BY <1>5, SMT DEF DeleteJob
<1>6. ASSUME NEW n \in Memos, DeleteRow(n)
      PROVE  UNCHANGED workerVars /\ \A m \in Memos : Kept(m)
  <2>1. /\ missed \subseteq missed'
        /\ \A m \in ahead \ {n} : m \in ahead' \/ m \in missed' \/ HasJob(m)
    BY <1>6, ListingMisses DEF DeleteRow
  <2>2. UNCHANGED <<ver, owed, job, chunk, workerVars>>
    BY <1>6 DEF DeleteRow
  <2>3. doc'[n] = "none" /\ \A m \in Memos \ {n} : del'[m] = del[m] /\ doc'[m] = doc[m]
    BY <1>6, SMT DEF DeleteRow
  <2> QED
    BY <2>1, <2>2, <2>3, SMT
<1>7. ASSUME NEW n \in Models, StartRebuild(n)
      PROVE  UNCHANGED workerVars /\ \A m \in Memos : Kept(m)
  BY <1>7, SMT DEF StartRebuild
<1>8. ASSUME NEW n \in Memos, DeleteRefused(n)
      PROVE  UNCHANGED workerVars /\ \A m \in Memos : Kept(m)
  BY <1>8, SMT DEF DeleteRefused
<1>9. CASE OtherRows
  BY <1>9, SMT DEF OtherRows, Skip
<1> QED
  BY <1>1, <1>2, <1>3, <1>4, <1>5, <1>6, <1>7, <1>8, <1>9 DEF Handlers

\* A row is never removed by UpdateMemoIndexJob.
LEMMA SetJobKeepsRows ==
  ASSUME TypeOK, NEW n \in Memos, NEW j, j.st # "none", SetJob(n, j)
  PROVE  \A m \in Memos : HasJob(m) => HasJob(m)'
  BY SMT DEF TypeOK, SetJob, HasJob

LEMMA WorkerCover == IInv /\ CoverInv /\ Worker => CoverInv'
<1> SUFFICES ASSUME IInv, CoverInv, Worker PROVE CoverInv'
  OBVIOUS
<1> USE DEF memoVars, adminVars
<1> DEFINE Same == UNCHANGED <<doc, ver, owed, del, job, chunk, missed>>
<1>0. ASSUME Same PROVE \A m \in Memos : Covered(m)' = Covered(m) /\ Spared(m)' = Spared(m)
  BY <1>0 DEF Covered, Spared, Idle, HasJob, Text
<1>1. CASE Backfill
  BY <1>1 DEF Backfill, CoverInv, Covered, Spared, Idle, HasJob, Text, Indexable
<1>2. ASSUME NEW n \in Memos, BackfillOne(n) PROVE CoverInv'
  <2>1. /\ phase = "backfill" /\ phase' = "backfill" /\ todo' = todo \ {n}
        /\ UNCHANGED <<doc, ver, owed, del, chunk, ahead>> /\ missed \subseteq missed'
    BY <1>2 DEF BackfillOne, Upsert
  <2>2. HasJob(n)' /\ \A m \in Memos \ {n} : job'[m] = job[m]
    BY <1>2, SMT DEF BackfillOne, Upsert, HasJob, IInv, TypeOK
  <2> QED
    BY <2>1, <2>2 DEF CoverInv, Covered, Spared, Idle, HasJob, Text
<1>3. CASE BackfillPage \/ BackfillEnd
  <2>1. Same /\ phase = "backfill" /\ phase' \in {"backfill", "idle"} /\ todo = {}
    BY <1>3 DEF BackfillPage, BackfillEnd
  <2>2. /\ phase' = "backfill" => ahead \subseteq todo' \cup ahead'
        /\ phase' = "idle" => ahead = {}
    BY <1>3 DEF BackfillPage, BackfillEnd
  <2> QED
    BY <1>0, <2>1, <2>2 DEF CoverInv, Covered
<1>4. CASE BackfillFails
  BY <1>4 DEF BackfillFails, CoverInv, Covered, Spared, Idle, HasJob, Text, Indexable
<1>5. CASE Drain \/ ListJobs \/ ResolveEmbedding \/ DrainFails \/ EndBatch
  <2>1. Same /\ phase \in {"idle", "list", "resolve", "next"}
        /\ phase' \in {"idle", "list", "resolve", "next"}
    BY <1>5 DEF Drain, ListJobs, ResolveEmbedding, DrainFails, EndBatch
  <2> QED
    BY <1>0, <2>1 DEF CoverInv
<1>6. ASSUME NEW n \in Memos, Take(n) PROVE CoverInv'
  <2>1. /\ phase = "next" /\ phase' \in {"next", "read"}
        /\ UNCHANGED <<doc, ver, owed, del, chunk, missed>>
    BY <1>6 DEF Take
  <2>2. \A m \in Memos : HasJob(m) => HasJob(m)'
    <3>1. [job[n] EXCEPT !.st = "processing"].st # "none"
      BY DEF IInv, TypeOK, Jobs
    <3>2. UNCHANGED job \/ SetJob(n, [job[n] EXCEPT !.st = "processing"])
      BY <1>6 DEF Take
    <3> QED
      BY <3>1, <3>2, SetJobKeepsRows DEF IInv, HasJob
  <2> QED
    BY <2>1, <2>2 DEF CoverInv, Covered, Spared, Idle, Text
<1>7. CASE ReadMemo
  <2>1. /\ phase = "read" /\ phase' \in {"chunks", "write"} /\ cur' = cur
        /\ UNCHANGED <<doc, ver, owed, del, job, chunk>> /\ missed' = missed \ {cur}
    BY <1>7 DEF ReadMemo
  <2> QED
    BY <2>1 DEF CoverInv, Covered, Spared, Idle, HasJob, Text
<1>8. CASE ReadChunks
  <2>1. Same /\ phase = "chunks" /\ phase' = "write" /\ cur' = cur
    BY <1>8 DEF ReadChunks
  <2> QED
    BY <1>0, <2>1 DEF CoverInv
<1>9. CASE IndexFails
  <2>1. /\ phase \in {"read", "chunks", "write"} /\ phase' = "failed" /\ cur' = cur
        /\ UNCHANGED <<doc, ver, owed, del, job, chunk>> /\ missed' = missed \cup {cur}
    BY <1>9 DEF IndexFails
  <2> QED
    BY <2>1 DEF CoverInv, Covered, Spared, Idle, HasJob, Text
<1>10. CASE IndexMemo
  <2>1. /\ phase = "write" /\ phase' \in {"done", "failed", "limited"} /\ cur' = cur
        /\ UNCHANGED <<doc, ver, owed, del, job, missed>>
    BY <1>10 DEF IndexMemo
  <2>2. \A m \in Memos \ {cur} : chunk'[m] = chunk[m]
    <3>1. cur \in Memos /\ chunk \in [Memos -> Chunks]
      BY DEF IInv, TypeOK
    <3>2. UNCHANGED chunk \/ \E c : chunk' = [chunk EXCEPT ![cur] = c]
      BY <1>10 DEF IndexMemo, Replace, FallBack
    <3> QED
      BY <3>1, <3>2
  <2>3. WorkerInv'
    BY <1>10, Inductive DEF IInv, Next
  <2>4. Covered(cur)'
    BY <2>1, <2>3 DEF WorkerInv, Covered, Spared, Idle, Text
  <2> QED
    BY <2>1, <2>2, <2>4 DEF CoverInv, Covered, Spared, Idle, HasJob, Text
<1>11. CASE MarkDone \/ MarkFailed \/ MarkLost
  <2>1. /\ phase \in {"done", "failed", "limited"} /\ phase' = "next"
        /\ UNCHANGED <<doc, ver, owed, del, chunk, missed>>
    BY <1>11 DEF MarkDone, MarkFailed, MarkLost
  <2>2. \A m \in Memos : HasJob(m) => HasJob(m)'
    <3>1. UNCHANGED job \/ \E j : j.st # "none" /\ SetJob(cur, j)
      <4>1. CASE MarkDone
        <5>1. [job[cur] EXCEPT !.st = "done"].st # "none"
          BY DEF IInv, TypeOK, Jobs
        <5> QED
          BY <4>1, <5>1 DEF MarkDone
      <4>2. CASE MarkFailed
        BY <4>2 DEF MarkFailed, Retry
      <4>3. CASE MarkLost
        BY <4>3 DEF MarkLost
      <4> QED
        BY <1>11, <4>1, <4>2, <4>3
    <3> QED
      BY <3>1, SetJobKeepsRows DEF IInv, TypeOK, HasJob
  <2> QED
    BY <2>1, <2>2 DEF CoverInv, Covered, Spared, Idle, Text
<1> QED
  BY <1>1, <1>2, <1>3, <1>4, <1>5, <1>6, <1>7, <1>8, <1>9, <1>10, <1>11 DEF Worker

\* Nor does a restart leave one out, which starts the backfill anew.
LEMMA CoverStep == IInv /\ CoverInv /\ [Next]_vars => CoverInv'
<1> SUFFICES ASSUME IInv, CoverInv, [Next]_vars PROVE CoverInv'
  OBVIOUS
<1>1. CASE Handlers
  <2>1. UNCHANGED <<phase, todo, cur>> /\ \A m \in Memos : Kept(m)
    BY <1>1, HandlersCover DEF IInv, workerVars
  <2> QED
    BY <2>1 DEF CoverInv, Kept
<1>2. CASE Crash
  BY <1>2 DEF Crash, CoverInv
<1>3. CASE CoolDownEnds \/ UNCHANGED vars
  <2>1. UNCHANGED <<phase, todo, ahead, cur, doc, ver, owed, del, job, chunk, missed>>
    BY <1>3 DEF CoolDownEnds, vars, memoVars, workerVars
  <2> QED
    BY <2>1 DEF CoverInv, Covered, Spared, Idle, HasJob, Text
<1> QED
  BY <1>1, <1>2, <1>3, WorkerCover DEF Next

\* Once the backfill is over, a live memo that no job stands for, that nobody
\* is busy with and that was not missed is searchable by its text: an empty
\* queue means that nothing is owed.
THEOREM Complete == Spec => []NothingForgotten
<1>1. Init => IInv /\ CoverInv
  BY InitInv DEF Init, CoverInv
<1>2. IInv /\ CoverInv /\ [Next]_vars => (IInv /\ CoverInv)'
  BY Inductive, CoverStep
<1> QED
  BY <1>1, <1>2, CoverSuffices, PTL DEF Spec

-----------------------------------------------------------------------------
(***************************************************************************)
(* No job is given up early.                                               *)
(***************************************************************************)
\* n attempts are accounted for by the failures of m's job.
Counted(m, n) == n <= tries[m] \/ MaxAttempts <= tries[m]

\* The attempts on a row, and those a batch has listed, are failures that were.
\* An enqueue forgets the failures of a job that is not in the worker's hands,
\* and with them the attempts of its row; what a batch has listed is forgotten
\* with the batch.
CountInv == \A m \in Memos : /\ Counted(m, job[m].att)
                             /\ InHands(m) => Counted(m, tried[m])

LEMMA UpsertCounts ==
  ASSUME TypeOK, CountInv, NEW n \in Memos, Upsert(n), UNCHANGED <<phase, cur, tried>>,
         phase = "backfill" \/ UNCHANGED todo
  PROVE  CountInv'
<1> SUFFICES ASSUME NEW m \in Memos
             PROVE  /\ Counted(m, job[m].att)'
                    /\ InHands(m)' => Counted(m, tried[m])'
  BY DEF CountInv
<1>1. InHands(m)' => InHands(m)
  BY DEF InHands, InFlight
<1>2. CASE m = n
  <2>1. job'[m].att = 0 /\ (tries'[m] = tries[m] \/ ~InHands(m)) /\ tries'[m] \in Nat
    BY <1>2, SMT DEF TypeOK, Upsert
  <2> QED
    BY <1>1, <2>1, SMT DEF CountInv, Counted
<1>3. CASE m # n
  <2>1. job'[m] = job[m] /\ tries'[m] = tries[m]
    BY <1>3, SMT DEF TypeOK, Upsert
  <2> QED
    BY <1>1, <2>1 DEF CountInv, Counted
<1> QED
  BY <1>2, <1>3

\* A step that fails no job, lists none and enqueues none.
Quiet == /\ UNCHANGED tries
         /\ \A m \in Memos : job'[m].att \in {job[m].att, 0}
         /\ \A m \in Memos : InHands(m)' => InHands(m) /\ tried'[m] = tried[m]

LEMMA QuietCounts ==
  ASSUME TypeOK, CountInv, Quiet
  PROVE  CountInv'
  BY SMT DEF TypeOK, CountInv, Counted, Quiet

LEMMA SetJobCounts ==
  ASSUME TypeOK, NEW n \in Memos, NEW st, SetJob(n, [job[n] EXCEPT !.st = st])
  PROVE  \A m \in Memos : job'[m].att = job[m].att
  BY SMT DEF TypeOK, SetJob, HasJob, Jobs

LEMMA HandlersCount == TypeOK /\ CountInv /\ Handlers => CountInv'
<1> SUFFICES ASSUME TypeOK, CountInv, Handlers PROVE CountInv'
  OBVIOUS
<1> USE DEF memoVars, adminVars, workerVars, InHands, InFlight
<1>1. ASSUME NEW m \in Memos, Enqueue(m) \/ RebuildOne(m) PROVE CountInv'
  <2>1. Upsert(m) /\ UNCHANGED <<phase, cur, tried, todo>>
    BY <1>1 DEF Enqueue, RebuildOne
  <2> QED
    BY <2>1, UpsertCounts DEF TypeOK
<1>2. ASSUME NEW m \in Memos, DeleteJob(m) PROVE CountInv'
  <2>1. \A n \in Memos : job'[n].att \in {job[n].att, 0}
    BY <1>2, SMT DEF DeleteJob, NoJob, TypeOK
  <2> QED
    BY <1>2, <2>1, QuietCounts DEF DeleteJob, Quiet
<1>3. CASE UNCHANGED <<job, tries, phase, cur, tried, todo>>
  BY <1>3, QuietCounts DEF Quiet
<1> QED
  BY <1>1, <1>2, <1>3 DEF Handlers, EnqueueFails, DeleteChunks, DeleteRow,
                          DeleteRefused, Write, StartRebuild, OtherRows

LEMMA WorkerCount == TypeOK /\ CountInv /\ Worker => CountInv'
<1> SUFFICES ASSUME TypeOK, CountInv, Worker PROVE CountInv'
  OBVIOUS
<1> USE DEF memoVars, adminVars, InHands, InFlight
<1>1. CASE \/ Backfill \/ BackfillPage \/ BackfillFails \/ BackfillEnd \/ Drain
           \/ ResolveEmbedding \/ DrainFails \/ EndBatch
  BY <1>1, QuietCounts DEF Backfill, BackfillPage, BackfillFails, BackfillEnd, Drain,
                           ResolveEmbedding, DrainFails, EndBatch, Quiet
<1>2. ASSUME NEW m \in Memos, BackfillOne(m) PROVE CountInv'
  <2>1. Upsert(m) /\ UNCHANGED <<phase, cur, tried>> /\ phase = "backfill"
    BY <1>2 DEF BackfillOne
  <2> QED
    BY <2>1, UpsertCounts DEF TypeOK
<1>3. CASE ListJobs
  <2>1. UNCHANGED <<job, tries, cur>> /\ phase' \in {"idle", "resolve"}
    BY <1>3 DEF ListJobs
  <2>2. \A m \in Memos : tried'[m] \in {job[m].att, 0}
    BY <1>3 DEF ListJobs
  <2> QED
    BY <2>1, <2>2, SMT DEF CountInv, Counted, TypeOK
<1>4. ASSUME NEW n \in Memos, Take(n) PROVE CountInv'
  <2>1. /\ UNCHANGED <<tries, tried>> /\ phase = "next" /\ phase' \in {"next", "read"}
        /\ n \in todo /\ todo' = todo \ {n} /\ cur' = n
    BY <1>4 DEF Take
  <2>2. \A m \in Memos : job'[m].att = job[m].att
    BY <1>4, SetJobCounts DEF Take
  <2> QED
    BY <2>1, <2>2, QuietCounts DEF Quiet
<1>5. CASE ReadMemo \/ ReadChunks \/ IndexFails \/ IndexMemo
  <2>1. /\ UNCHANGED <<job, tries, tried, cur, todo>>
        /\ phase \in {"read", "chunks", "write"}
        /\ phase' \in {"chunks", "write", "done", "failed", "limited"}
    BY <1>5 DEF ReadMemo, ReadChunks, IndexFails, IndexMemo
  <2> QED
    BY <2>1, QuietCounts DEF Quiet
<1>6. CASE MarkDone \/ MarkLost
  <2>1. /\ UNCHANGED <<tries, tried, cur, todo>> /\ phase # "backfill" /\ phase' = "next"
    BY <1>6 DEF MarkDone, MarkLost
  <2>2. \A m \in Memos : job'[m].att = job[m].att
    BY <1>6, SetJobCounts DEF MarkDone, MarkLost, TypeOK
  <2> QED
    BY <2>1, <2>2, QuietCounts DEF Quiet
<1>7. CASE MarkFailed
  <2>1. /\ UNCHANGED <<tried, cur, todo>> /\ phase \in {"failed", "limited"} /\ phase' = "next"
        /\ tries' = [tries EXCEPT ![cur] = IF @ < MaxAttempts THEN @ + 1 ELSE @]
    BY <1>7 DEF MarkFailed
  <2>2. Counted(cur, tried[cur])
    BY <2>1 DEF CountInv, TypeOK
  <2>3. \A m \in Memos \ {cur} : job'[m] = job[m] /\ tries'[m] = tries[m]
    BY <1>7, <2>1, SMT DEF MarkFailed, Retry, SetJob, HasJob, TypeOK
  <2>4. job'[cur].att \in {job[cur].att, tried[cur] + 1}
    BY <1>7, SMT DEF MarkFailed, Retry, SetJob, HasJob, TypeOK
  <2>5. tries'[cur] = IF tries[cur] < MaxAttempts THEN tries[cur] + 1 ELSE tries[cur]
    BY <2>1, SMT DEF TypeOK
  <2>6. /\ cur \in Memos /\ tried[cur] \in Nat /\ job[cur].att \in Nat /\ tries[cur] \in Nat
        /\ MaxAttempts \in Nat
    BY AttemptsAssumption DEF TypeOK, Jobs
  <2>7. Counted(cur, job[cur].att)' /\ Counted(cur, tried[cur])'
    BY <2>1, <2>2, <2>4, <2>5, <2>6, SMT DEF CountInv, Counted
  <2> QED
    BY <2>1, <2>3, <2>7 DEF CountInv, Counted
<1> QED
  BY <1>1, <1>2, <1>3, <1>4, <1>5, <1>6, <1>7 DEF Worker

LEMMA CountStep == TypeOK /\ CountInv /\ [Next]_vars => CountInv'
<1> SUFFICES ASSUME TypeOK, CountInv, [Next]_vars PROVE CountInv'
  OBVIOUS
<1>1. CASE Crash
  <2>1. UNCHANGED <<job, tries>> /\ phase' = "boot" /\ todo' = {}
    BY <1>1 DEF Crash
  <2> QED
    BY <2>1 DEF CountInv, Counted, InHands, InFlight
<1>2. CASE CoolDownEnds \/ UNCHANGED vars
  <2>1. UNCHANGED <<job, tries, phase, cur, tried, todo>>
    BY <1>2 DEF CoolDownEnds, vars, workerVars
  <2> QED
    BY <2>1, QuietCounts DEF Quiet, InHands, InFlight
<1> QED
  BY <1>1, <1>2, HandlersCount, WorkerCount DEF Next

\* Only MarkFailed gives a job up, and the attempts it goes by were failures.
LEMMA GivenUp ==
  ASSUME TypeOK, CountInv, [Next]_vars, NEW m \in Memos,
         job[m].st # "failed", job'[m].st = "failed"
  PROVE  tries'[m] >= MaxAttempts
<1> USE DEF memoVars, adminVars
<1>1. CASE MarkFailed
  <2>1. m = cur
    BY <1>1, SMT DEF MarkFailed, Retry, SetJob, HasJob, TypeOK
  <2>2. /\ tries' = [tries EXCEPT ![cur] = IF @ < MaxAttempts THEN @ + 1 ELSE @]
        /\ phase \in {"failed", "limited"}
    BY <1>1 DEF MarkFailed
  <2>3. PICK max \in {MaxAttempts, MaxLimits} : Retry(max)
    BY <1>1 DEF MarkFailed
  <2>4. tried[cur] + 1 >= max
    BY <2>1, <2>3, SMT DEF Retry, SetJob, HasJob, TypeOK
  <2>5. /\ tried[cur] \in Nat /\ tries[cur] \in Nat /\ MaxAttempts \in Nat
        /\ max \in Nat /\ MaxAttempts <= max
    BY AttemptsAssumption DEF TypeOK
  <2>6. Counted(cur, tried[cur])
    BY <2>2 DEF CountInv, TypeOK, InHands, InFlight
  <2>7. tries'[cur] = IF tries[cur] < MaxAttempts THEN tries[cur] + 1 ELSE tries[cur]
    BY <2>2, SMT DEF TypeOK
  <2> QED
    BY <2>1, <2>4, <2>5, <2>6, <2>7, SMT DEF Counted
<1>2. ~(\E n \in Memos : Upsert(n) \/ DeleteJob(n))
  BY SMT DEF Upsert, DeleteJob, NoJob, TypeOK
<1>3. ~MarkDone /\ ~(\E n \in Memos : Take(n))
  <2>1. ~MarkDone
    BY SMT DEF MarkDone, SetJob, HasJob, TypeOK, Jobs
  <2>2. ASSUME NEW n \in Memos, Take(n) PROVE FALSE
    <3>1. UNCHANGED job \/ SetJob(n, [job[n] EXCEPT !.st = "processing"])
      BY <2>2 DEF Take
    <3> QED
      BY <3>1, SMT DEF SetJob, HasJob, TypeOK, Jobs
  <2> QED
    BY <2>1, <2>2
<1>4. job' # job
  OBVIOUS
<1>5. ~Handlers
  BY <1>2, <1>4, Zenon DEF Handlers, Write, Enqueue, EnqueueFails, DeleteChunks, DeleteRow,
                    DeleteRefused, StartRebuild, RebuildOne, OtherRows
<1>6. Worker => MarkFailed
  BY <1>2, <1>3, <1>4, Zenon DEF Worker, Backfill, BackfillPage, BackfillFails, BackfillEnd, BackfillOne, Drain, ListJobs,
     ResolveEmbedding, DrainFails, EndBatch, ReadMemo, ReadChunks, IndexFails, IndexMemo, MarkLost
<1>7. ~(CoolDownEnds \/ Crash \/ UNCHANGED vars)
  BY <1>4 DEF CoolDownEnds, Crash, vars
<1> QED
  BY <1>1, <1>5, <1>6, <1>7 DEF Next

\* Whatever is enqueued, deleted, restarted or lost in between, a job is given
\* up only after as many failures as the limit says since it was last enqueued
\* out of the worker's hands; for rate limits too, as theirs is the higher one.
THEOREM NotGivenUpEarly == Spec => FailedOnlyAfterRetries
<1>1. Init => TypeOK /\ CountInv
  <2>1. Init => CountInv
    <3> SUFFICES ASSUME Init, NEW m \in Memos PROVE job[m].att <= tries[m] /\ ~InHands(m)
      BY DEF CountInv, Counted
    <3>1. job[m] = NoJob /\ tries[m] = 0 /\ phase = "boot" /\ todo = {}
      BY DEF Init
    <3> QED
      BY <3>1, SMT DEF NoJob, InHands, InFlight
  <2> QED
    BY <2>1, InitType
<1>2. TypeOK /\ CountInv /\ [Next]_vars => (TypeOK /\ CountInv)'
  BY CountStep, HandlersType, WorkerType, RestType DEF Next
<1>3. TypeOK /\ CountInv /\ [Next]_vars
        => \A m \in Memos : (job[m].st # "failed" /\ job'[m].st = "failed") => tries'[m] >= MaxAttempts
  BY GivenUp
<1> QED
  BY <1>1, <1>2, <1>3, PTL DEF Spec, FailedOnlyAfterRetries

-----------------------------------------------------------------------------
(***************************************************************************)
(* The queue implements SearchIndex.                                       *)
(***************************************************************************)
\* Texts are indexed in the order in which they were written: what is stored is
\* no later than the memo, what the worker holds lies between the two, and a
\* memo it holds as without a text is not found by the text it has.
OrderInv ==
  /\ \A m \in Memos : /\ chunk[m].text <= ver[m]
                      /\ doc[m] # "none" \/ del[m] # 0 => ver[m] > 0
                      /\ del[m] = 3 => doc[m] = "none"
  /\ phase \in {"chunks", "write"} =>
       /\ got <= ver[cur]
       /\ got # 0 => chunk[cur].text <= got
       /\ got = 0 /\ doc[cur] = "live" => chunk[cur].text < ver[cur]

\* Only IndexMemo stores a text, and stores the one that was read.
LEMMA Stored ==
  ASSUME TypeOK, IndexMemo
  PROVE  /\ \A m \in Memos \ {cur} : chunk'[m] = chunk[m]
         /\ chunk'[cur].text \in {chunk[cur].text, got}
<1> USE DEF TypeOK, Chunks
<1>1. CASE got = 0
  BY <1>1, SMT DEF IndexMemo, NeedsCall, NoChunk
<1>2. CASE got # 0
  <2>1. PICK new : /\ new.text = got
                   /\ Replace(new) \/ chunk' = [chunk EXCEPT ![cur] = new]
    BY <1>2 DEF IndexMemo, FallBack, Carried
  <2> QED
    BY <2>1, SMT DEF Replace
<1> QED
  BY <1>1, <1>2

\* A step that leaves memos, deletions, chunks and what was read alone.
LEMMA QuietOrder ==
  ASSUME OrderInv, UNCHANGED <<doc, ver, del, chunk>>,
         phase' \in {"chunks", "write"} => phase \in {"chunks", "write"} /\ UNCHANGED <<cur, got>>
  PROVE  OrderInv'
  BY DEF OrderInv

LEMMA HandlersOrder == TypeOK /\ OrderInv /\ Handlers => OrderInv'
<1> SUFFICES ASSUME TypeOK, OrderInv, Handlers PROVE OrderInv'
  OBVIOUS
<1> USE DEF memoVars, adminVars, workerVars
<1>1. ASSUME NEW n \in Memos, NEW st \in {"live", "archived"}, Write(n, st) PROVE OrderInv'
  <2>1. UNCHANGED <<del, chunk, phase, cur, got>>
    BY <1>1 DEF Write
  <2>2. /\ ver'[n] = ver[n] + 1 /\ (doc[n] # "none" \/ ver[n] = 0)
        /\ \A m \in Memos \ {n} : ver'[m] = ver[m] /\ doc'[m] = doc[m]
    BY <1>1, SMT DEF Write, TypeOK
  <2> QED
    BY <2>1, <2>2, SMT DEF OrderInv, TypeOK, Chunks
<1>2. ASSUME NEW n \in Memos, DeleteChunks(n) PROVE OrderInv'
  <2>1. UNCHANGED <<doc, ver, phase, cur, got>> /\ doc[n] # "none"
    BY <1>2 DEF DeleteChunks
  <2>2. /\ del'[n] = 1 /\ chunk'[n].text \in {0, chunk[n].text}
        /\ \A m \in Memos \ {n} : del'[m] = del[m] /\ chunk'[m] = chunk[m]
    BY <1>2, SMT DEF DeleteChunks, TypeOK, NoChunk
  <2> QED
    BY <2>1, <2>2, SMT DEF OrderInv, TypeOK, Chunks
<1>3. ASSUME NEW n \in Memos, DeleteJob(n) \/ DeleteRow(n) \/ DeleteRefused(n) PROVE OrderInv'
  <2>1. UNCHANGED <<ver, chunk, phase, cur, got>> /\ del[n] # 0
    BY <1>3 DEF DeleteJob, DeleteRow, DeleteRefused
  <2>2. /\ \A m \in Memos \ {n} : del'[m] = del[m]
        /\ \A m \in Memos : doc'[m] \in {doc[m], "none"}
        /\ del'[n] = 3 => doc'[n] = "none"
    BY <1>3, SMT DEF DeleteJob, DeleteRow, DeleteRefused, TypeOK
  <2> QED
    BY <2>1, <2>2, SMT DEF OrderInv, TypeOK, Chunks
<1>4. CASE UNCHANGED <<doc, ver, del, chunk, phase, cur, got>>
  BY <1>4, QuietOrder
<1> QED
  BY <1>1, <1>2, <1>3, <1>4 DEF Handlers, Enqueue, EnqueueFails, StartRebuild, RebuildOne,
                                OtherRows

LEMMA OrderStep == TypeOK /\ OrderInv /\ [Next]_vars => OrderInv'
<1> SUFFICES ASSUME TypeOK, OrderInv, [Next]_vars PROVE OrderInv'
  OBVIOUS
<1> USE DEF memoVars, adminVars, workerVars
<1>1. CASE ReadMemo
  <2>1. UNCHANGED <<doc, ver, del, chunk, cur>> /\ got' = Text(cur)
    BY <1>1 DEF ReadMemo
  <2> QED
    BY <2>1, SMT DEF OrderInv, Text, TypeOK, Chunks
<1>2. CASE IndexMemo
  <2>1. UNCHANGED <<doc, ver, del, cur>> /\ phase = "write" /\ phase' \notin {"chunks", "write"}
    BY <1>2 DEF IndexMemo
  <2> QED
    BY <1>2, <2>1, Stored, SMT DEF OrderInv, TypeOK, Chunks
<1>3. ASSUME NEW n \in Memos, Take(n) PROVE OrderInv'
  <2>1. UNCHANGED <<doc, ver, del, chunk>> /\ phase' \notin {"chunks", "write"}
    BY <1>3 DEF Take
  <2> QED
    BY <2>1 DEF OrderInv
<1>4. CASE Crash
  <2>1. UNCHANGED <<doc, ver, chunk>> /\ phase' = "boot"
    BY <1>4 DEF Crash
  <2>2. \A m \in Memos : del'[m] \in {0, del[m]}
    <3>1. del' = [m \in Memos |-> IF del[m] = 3 THEN 3 ELSE 0]
      BY <1>4 DEF Crash
    <3> QED
      BY <3>1
  <2> QED
    BY <2>1, <2>2, SMT DEF OrderInv
<1>5. ASSUME NEW n \in Memos, BackfillOne(n) PROVE OrderInv'
  BY <1>5, QuietOrder DEF BackfillOne
<1>6. CASE \/ Backfill \/ BackfillPage \/ BackfillFails \/ BackfillEnd \/ Drain \/ ListJobs \/ ResolveEmbedding
           \/ DrainFails \/ EndBatch \/ ReadChunks \/ IndexFails \/ MarkDone \/ MarkFailed
           \/ MarkLost \/ CoolDownEnds \/ UNCHANGED vars
  BY <1>6, QuietOrder DEF Backfill, BackfillPage, BackfillFails, BackfillEnd, Drain, ListJobs, ResolveEmbedding,
     DrainFails, EndBatch, ReadChunks, IndexFails, MarkDone, MarkFailed, MarkLost, CoolDownEnds, vars
<1> QED
  BY <1>1, <1>2, <1>3, <1>4, <1>5, <1>6, HandlersOrder DEF Next, Worker

-----------------------------------------------------------------------------
\* What SearchIndex allows to become of a memo in a step.
Simulates(m) == \/ Index!Stay(m) \/ Index!Write(m) \/ Index!Withdraw(m) \/ Index!Remove(m)
                \/ Index!Claim(m) \/ Index!Serve(m) \/ Index!Settle(m) \/ Index!Lose(m)
                \/ Index!Recover(m)

\* Nothing leaves the queue but by its text, or missed.
LEMMA LeavesServed ==
  ASSUME TypeOK', OrderInv', SettledMeansSearchable', CoverInv', NEW m \in Memos,
         ~Due(m)', doc'[m] = "live", m \notin missed'
  PROVE  chunk'[m].text = ver'[m]
<1>1. Idle(m)'
  BY SMT DEF Due, Idle, TypeOK, OrderInv
<1>2. CASE HasJob(m)'
  <2>1. Settled(m)'
    BY <1>1, <1>2 DEF Due, Settled, HasJob, TypeOK, Jobs
  <2> QED
    BY <2>1 DEF SettledMeansSearchable, Text
<1>3. CASE ~HasJob(m)'
  BY <1>1, <1>3 DEF Due, CoverInv, Covered, Spared, InHands, InFlight, Text
<1> QED
  BY <1>2, <1>3

\* The memo, its chunks, its deletion and what was missed are left as they are.
Rests(m) == /\ ver'[m] = ver[m] /\ doc'[m] = doc[m] /\ chunk'[m].text = chunk[m].text
            /\ del'[m] \in {1, 2} <=> del[m] \in {1, 2}
            /\ m \in missed' <=> m \in missed

\* A memo that is due comes to be missed.
Misses(m) == /\ Due(m) /\ m \in missed'
             /\ del'[m] \in {1, 2} => del[m] \in {1, 2}
             /\ ver'[m] = ver[m] /\ doc'[m] = doc[m] /\ chunk'[m].text = chunk[m].text

Accounted(m) == Rests(m) \/ Misses(m) \/ Simulates(m)

\* A memo that rests comes to be due, stays as it is, or settles.
LEMMA Resting ==
  ASSUME TypeOK', OrderInv', SettledMeansSearchable', CoverInv', NEW m \in Memos,
         Rests(m)
  PROVE  Simulates(m)
<1>1. /\ Index!SameText(m) /\ Index!SameIndex(m) /\ Index!SameGoing(m) /\ Index!SameLost(m)
  BY DEF Rests, Indexable, Index!SameText, Index!SameIndex, Index!SameGoing, Index!SameLost
<1>2. CASE Due(m)'
  BY <1>1, <1>2 DEF Simulates, Index!Claim
<1>3. CASE Due(m) /\ ~Due(m)'
  <2>1. m \in Indexable /\ m \notin missed => chunk[m].text = ver[m]
    BY <1>3, LeavesServed DEF Rests, Indexable
  <2>2. Index!Settle(m)
    BY <1>1, <1>3, <2>1 DEF Index!Settle
  <2> QED
    BY <2>2 DEF Simulates
<1>4. CASE ~Due(m) /\ ~Due(m)'
  BY <1>1, <1>4 DEF Simulates, Index!Stay
<1> QED
  BY <1>2, <1>3, <1>4

\* One that is missed was due before.
LEMMA Missing ==
  ASSUME NEW m \in Memos, Misses(m)
  PROVE  Simulates(m)
<1>1. Index!Lose(m)
  BY DEF Misses, Index!Lose, Index!SameText, Index!SameIndex, Indexable
<1> QED
  BY <1>1 DEF Simulates

\* A write makes the memo due, a deletion is one, and an enqueue for a memo in
\* the worker's hands is missed.
LEMMA HandlersAccounted ==
  ASSUME IInv, OrderInv, Handlers
  PROVE  \A m \in Memos : Accounted(m)
<1> USE DEF memoVars, adminVars, workerVars, IInv, TypeOK
<1>1. ASSUME NEW n \in Memos, NEW st \in {"live", "archived"}, Write(n, st), NEW m \in Memos
      PROVE  Accounted(m)
  <2>1. UNCHANGED <<del, chunk>>
    BY <1>1 DEF Write
  <2>4. /\ missed \subseteq missed' /\ (n \in missed' => n \in missed)
        /\ \A k \in missed' : k \in missed \/ k \in ahead
    BY <1>1, ListingMisses DEF Write
  <2>2. CASE m = n
    <3>1. ver'[m] = ver[m] + 1 /\ owed'[m] > 0
      BY <1>1, <2>2, SMT DEF Write
    <3>2. Due(m)'
      BY <3>1 DEF Due
    <3>3. Index!Write(m)
      BY <2>1, <2>2, <2>4, <3>1, <3>2 DEF Index!Write, Index!SameIndex, Index!SameGoing, Index!SameLost
    <3> QED
      BY <3>3 DEF Accounted, Simulates
  <2>3. CASE m # n
    BY <1>1, <2>1, <2>3, <2>4 DEF Write, Accounted, Rests, Misses, Due
  <2> QED
    BY <2>2, <2>3
<1>2. ASSUME NEW n \in Memos, Enqueue(n) \/ RebuildOne(n), NEW m \in Memos PROVE Accounted(m)
  <2>1. UNCHANGED <<ver, doc, chunk, del>> /\ Upsert(n)
    BY <1>2 DEF Enqueue, RebuildOne
  <2>2. CASE missed' = missed
    BY <2>1, <2>2 DEF Accounted, Rests
  <2>3. CASE missed' # missed
    <3>1. InFlight(n) /\ missed' = missed \cup {n}
      BY <2>1, <2>3 DEF Upsert
    <3>2. m = n => Misses(m)
      BY <2>1, <3>1 DEF Misses, Due, InHands
    <3>3. m # n => Rests(m)
      BY <2>1, <3>1 DEF Rests
    <3> QED
      BY <3>2, <3>3 DEF Accounted
  <2> QED
    BY <2>2, <2>3
<1>3. ASSUME NEW n \in Memos, EnqueueFails(n) \/ DeleteRefused(n), NEW m \in Memos
      PROVE  Accounted(m)
  <2>1. /\ UNCHANGED <<ver, doc, chunk>> /\ missed' = missed \cup {n} /\ Due(n)
        /\ del'[n] \in {1, 2} => del[n] \in {1, 2}
    BY <1>3, SMT DEF EnqueueFails, DeleteRefused, Due
  <2>2. m # n => del'[m] = del[m]
    BY <1>3 DEF EnqueueFails, DeleteRefused
  <2> QED
    BY <2>1, <2>2 DEF Accounted, Rests, Misses
<1>4. ASSUME NEW n \in Memos, DeleteChunks(n), NEW m \in Memos PROVE Accounted(m)
  <2>1. UNCHANGED <<ver, doc, missed>> /\ del[n] = 0
    BY <1>4 DEF DeleteChunks
  <2>2. del'[n] = 1 /\ chunk'[n].text \in {chunk[n].text, 0}
    BY <1>4, SMT DEF DeleteChunks, NoChunk
  <2>3. CASE m = n
    <3>1. Due(m)'
      BY <2>2, <2>3 DEF Due
    <3>2. Index!SameText(m) /\ Index!SameLost(m)
      BY <2>1 DEF Index!SameText, Index!SameLost, Indexable
    <3>3. Index!Withdraw(m)
      BY <2>1, <2>2, <2>3, <3>1, <3>2, SMT DEF Index!Withdraw
    <3> QED
      BY <3>3 DEF Accounted, Simulates
  <2>4. CASE m # n
    BY <1>4, <2>1, <2>4 DEF DeleteChunks, Accounted, Rests
  <2> QED
    BY <2>3, <2>4
<1>5. ASSUME NEW n \in Memos, DeleteJob(n), NEW m \in Memos PROVE Accounted(m)
  BY <1>5, SMT DEF DeleteJob, Accounted, Rests
<1>6. ASSUME NEW n \in Memos, DeleteRow(n), NEW m \in Memos PROVE Accounted(m)
  <2>1. UNCHANGED <<ver, chunk>> /\ del[n] = 2
    BY <1>6 DEF DeleteRow
  <2>4. /\ missed \subseteq missed' /\ (n \in missed' => n \in missed)
        /\ \A k \in missed' : k \in missed \/ k \in ahead
    BY <1>6, ListingMisses DEF DeleteRow
  <2>2. CASE m = n
    <3>1. del'[m] = 3 /\ doc'[m] = "none"
      BY <1>6, <2>2 DEF DeleteRow
    <3>2. Index!Remove(m)
      BY <2>1, <2>2, <2>4, <3>1, SMT DEF Index!Remove, Index!SameIndex, Index!SameLost, Indexable
    <3> QED
      BY <3>2 DEF Accounted, Simulates
  <2>3. CASE m # n
    BY <1>6, <2>1, <2>3, <2>4 DEF DeleteRow, Accounted, Rests, Misses, Due
  <2> QED
    BY <2>2, <2>3
<1>7. ASSUME NEW n \in Models, StartRebuild(n), NEW m \in Memos PROVE Accounted(m)
  BY <1>7 DEF StartRebuild, Accounted, Rests
<1>8. ASSUME OtherRows, NEW m \in Memos PROVE Accounted(m)
  BY <1>8 DEF OtherRows, Skip, Accounted, Rests, Misses, Due
<1> QED
  BY <1>1, <1>2, <1>3, <1>4, <1>5, <1>6, <1>7, <1>8 DEF Handlers

\* The worker stores what it read, which is no older than what is stored, and
\* all it misses is on its list, in its hands or still to be backfilled.
LEMMA WorkerAccounted ==
  ASSUME IInv, CoverInv, OrderInv, Worker
  PROVE  \A m \in Memos : Accounted(m)
<1> USE DEF memoVars, adminVars, IInv, TypeOK
<1>1. ASSUME Backfill \/ BackfillFails, NEW m \in Memos PROVE Accounted(m)
  <2>1. UNCHANGED <<ver, doc, chunk, del>> /\ phase \in {"boot", "backfill"}
    BY <1>1 DEF Backfill, BackfillFails
  <2>2. missed' \in {missed, missed \cup {n \in Indexable : ~HasJob(n)}}
    BY <1>1 DEF Backfill, BackfillFails
  <2>3. CASE m \in missed' <=> m \in missed
    BY <2>1, <2>3 DEF Accounted, Rests
  <2>4. CASE m \in missed' /\ m \notin missed
    <3>1. doc[m] = "live" /\ ~HasJob(m)
      BY <2>2, <2>4 DEF Indexable
    <3>2. Due(m)
      <4>1. CASE phase = "boot"
        BY <3>1, <4>1 DEF Due
      <4>2. CASE phase = "backfill"
        <5>1. ~Idle(m) \/ m \in todo \/ m \in ahead
          BY <2>4, <3>1, <4>2 DEF CoverInv, Spared
        <5>2. ~Idle(m) => owed[m] > 0 \/ del[m] \in {1, 2}
          BY <3>1, SMT DEF Idle, OrderInv
        <5> QED
          BY <5>1, <5>2 DEF Due
      <4> QED
        BY <2>1, <4>1, <4>2
    <3> QED
      BY <2>1, <2>4, <3>2 DEF Accounted, Misses
  <2> QED
    BY <2>2, <2>3, <2>4
<1>2. ASSUME NEW n \in Memos, BackfillOne(n), NEW m \in Memos PROVE Accounted(m)
  <2>1. UNCHANGED <<ver, doc, chunk, del>> /\ phase = "backfill" /\ Upsert(n)
    BY <1>2 DEF BackfillOne
  <2>2. missed' = missed
    BY <2>1 DEF Upsert, InFlight
  <2> QED
    BY <2>1, <2>2 DEF Accounted, Rests
<1>3. ASSUME NEW n \in Memos, Take(n), NEW m \in Memos PROVE Accounted(m)
  BY <1>3 DEF Take, Accounted, Rests
<1>4. ASSUME ReadMemo, NEW m \in Memos PROVE Accounted(m)
  <2>1. /\ UNCHANGED <<ver, doc, chunk, del, cur>> /\ missed' = missed \ {cur}
        /\ phase = "read" /\ phase' \in {"chunks", "write"}
    BY <1>4 DEF ReadMemo
  <2>2. CASE m = cur
    <3>1. Due(m) /\ Due(m)'
      BY <2>1, <2>2 DEF Due, InHands, InFlight
    <3>2. Index!SameText(m) /\ Index!SameIndex(m) /\ Index!SameGoing(m)
      BY <2>1 DEF Index!SameText, Index!SameIndex, Index!SameGoing, Indexable
    <3>3. Index!Recover(m)
      BY <2>1, <2>2, <3>1, <3>2 DEF Index!Recover
    <3> QED
      BY <3>3 DEF Accounted, Simulates
  <2>3. CASE m # cur
    BY <2>1, <2>3 DEF Accounted, Rests
  <2> QED
    BY <2>2, <2>3
<1>5. ASSUME IndexFails, NEW m \in Memos PROVE Accounted(m)
  <2>1. /\ UNCHANGED <<ver, doc, chunk, del>> /\ missed' = missed \cup {cur}
        /\ phase \in {"read", "chunks", "write"}
    BY <1>5 DEF IndexFails
  <2>2. m = cur => Misses(m)
    BY <2>1 DEF Misses, Due, InHands, InFlight
  <2> QED
    BY <2>1, <2>2 DEF Accounted, Rests
<1>6. ASSUME IndexMemo, NEW m \in Memos PROVE Accounted(m)
  <2>1. /\ UNCHANGED <<ver, doc, del, cur, missed>>
        /\ phase = "write" /\ phase' \in {"done", "failed", "limited"}
    BY <1>6 DEF IndexMemo
  <2>2. CASE m = cur /\ chunk'[m].text # chunk[m].text
    <3>1. Due(m) /\ Due(m)'
      BY <2>1, <2>2 DEF Due, InHands, InFlight
    <3>2. Index!SameText(m) /\ Index!SameGoing(m) /\ Index!SameLost(m)
      BY <2>1 DEF Index!SameText, Index!SameGoing, Index!SameLost, Indexable
    <3>3. chunk'[m].text = got
      BY <1>6, <2>2, Stored
    <3>4. /\ got # 0 => chunk[m].text <= got /\ got <= ver[m]
          /\ got = 0 /\ doc[m] = "live" => chunk[m].text # ver[m]
          /\ got \in Nat /\ chunk[m].text \in Nat /\ ver[m] \in Nat
      BY <2>1, <2>2, SMT DEF OrderInv, Chunks
    <3>5. \/ chunk'[m].text \in chunk[m].text .. ver[m]
          \/ chunk'[m].text = 0 /\ ~(doc[m] = "live" /\ chunk[m].text = ver[m])
      BY <3>3, <3>4, SMT
    <3>6. Index!Serve(m)
      BY <3>1, <3>2, <3>5 DEF Index!Serve, Indexable
    <3> QED
      BY <3>6 DEF Accounted, Simulates
  <2>3. CASE m # cur \/ chunk'[m].text = chunk[m].text
    <3>1. chunk'[m].text = chunk[m].text
      BY <1>6, <2>3, Stored
    <3> QED
      BY <2>1, <3>1 DEF Accounted, Rests
  <2> QED
    BY <2>2, <2>3
<1>7. ASSUME NEW m \in Memos, UNCHANGED <<ver, doc, chunk, del, missed>> PROVE Accounted(m)
  BY <1>7 DEF Accounted, Rests
<1> QED
  BY <1>1, <1>2, <1>3, <1>4, <1>5, <1>6, <1>7, Zenon DEF Worker, BackfillPage, BackfillEnd, Drain, ListJobs,
     ResolveEmbedding, DrainFails, EndBatch, ReadChunks, MarkDone, MarkFailed, MarkLost

\* A restart counts as missed what was on its way and is no longer.
LEMMA CrashAccounted ==
  ASSUME IInv, Crash
  PROVE  \A m \in Memos : Accounted(m)
<1> SUFFICES ASSUME NEW m \in Memos PROVE Accounted(m)
  OBVIOUS
<1>1. UNCHANGED <<ver, doc, chunk>>
  BY DEF Crash
<1>2. missed' = missed \cup {n \in Memos : owed[n] > 0 \/ del[n] \in {1, 2}}
  BY DEF Crash
<1>3. del'[m] = IF del[m] = 3 THEN 3 ELSE 0
  BY DEF Crash
<1>4. CASE m \in missed' /\ Due(m)
  BY <1>1, <1>3, <1>4 DEF Accounted, Misses
<1>5. CASE ~Due(m)
  BY <1>1, <1>2, <1>3, <1>5, SMT DEF Due, Accounted, Rests
<1>6. CASE m \notin missed'
  BY <1>1, <1>2, <1>3, <1>6, SMT DEF Accounted, Rests
<1> QED
  BY <1>4, <1>5, <1>6

\* Every step is one of SearchIndex.
LEMMA StepIndexes ==
  ASSUME IInv, CoverInv, OrderInv, [Next]_vars
  PROVE  Index!Next
<1>1. TypeOK' /\ SettledMeansSearchable'
  BY Inductive DEF IInv
<1>2. OrderInv'
  BY OrderStep DEF IInv
<1>3. CoverInv'
  BY CoverStep
<1>5. \A m \in Memos : Accounted(m)
  <2>1. CASE CoolDownEnds \/ UNCHANGED vars
    BY <2>1 DEF CoolDownEnds, vars, memoVars, workerVars, Accounted, Rests
  <2> QED
    BY <2>1, HandlersAccounted, WorkerAccounted, CrashAccounted DEF Next
<1>6. \A m \in Memos : Simulates(m)
  BY <1>1, <1>2, <1>3, <1>5, Resting, Missing DEF Accounted
<1>7. Index!TypeOK'
  BY <1>1, SMT DEF TypeOK, Chunks, Index!TypeOK, Indexable
<1> QED
  BY <1>6, <1>7 DEF Index!Next, Simulates

\* The queue implements SearchIndex: in every behaviour, whatever handlers,
\* worker, provider, faults and restarts do, indexes move on to later texts
\* only, a memo found by its text stays found by it until it is written or
\* deleted, and none leaves the queue but searchable by its text or missed.
THEOREM Implemented == Spec => KeepsIndex
<1>1. Init => IInv /\ CoverInv /\ OrderInv /\ Index!Init
  <2> SUFFICES ASSUME Init PROVE CoverInv /\ OrderInv /\ Index!Init
    BY InitInv
  <2>1. TypeOK
    BY InitType
  <2>2. /\ phase = "boot" /\ missed = {}
        /\ \A m \in Memos : /\ chunk[m].text = 0 /\ del[m] \in {0, 3} /\ ~HasJob(m)
                            /\ doc[m] # "none" => del[m] = 0
                            /\ doc[m] # "none" \/ del[m] = 3 => ver[m] = 1
    BY SMT DEF Init, NoChunk, NoJob, HasJob, Indexable
  <2>3. CoverInv /\ OrderInv
    BY <2>1, <2>2, SMT DEF CoverInv, OrderInv, TypeOK
  <2>4. Index!TypeOK
    BY <2>1, SMT DEF TypeOK, Chunks, Index!TypeOK, Indexable
  <2>5. Indexable \subseteq {m \in Memos : Due(m)}
    BY <2>2 DEF Indexable, Due
  <2> QED
    BY <2>2, <2>3, <2>4, <2>5, SMT DEF Index!Init
<1>2. IInv /\ CoverInv /\ OrderInv /\ [Next]_vars => (IInv /\ CoverInv /\ OrderInv)'
  BY Inductive, CoverStep, OrderStep DEF IInv
<1>3. IInv /\ CoverInv /\ OrderInv /\ [Next]_vars => [Index!Next]_(Index!vars)
  BY StepIndexes
<1> QED
  BY <1>1, <1>2, <1>3, PTL DEF Spec, KeepsIndex, Index!Spec

\* What the steps of SearchIndex come to, whoever implements them: a memo that
\* can be found is found by its text, or is due, or is lost.
THEOREM Promised == KeepsIndex => []Index!Found
<1>1. Index!Init => Index!Found
  BY DEF Index!Init, Index!Found
<1>2. Index!Found /\ [Index!Next]_(Index!vars) => Index!Found'
  <2> SUFFICES ASSUME Index!Found, [Index!Next]_(Index!vars) PROVE Index!Found'
    OBVIOUS
  <2>1. CASE UNCHANGED Index!vars
    BY <2>1 DEF Index!vars, Index!Found
  <2>2. CASE Index!Next
    <3>1. Indexable' \subseteq Memos
      BY DEF Indexable
    <3> QED
      BY <2>2, <3>1 DEF Index!Next, Index!Found, Index!Stay, Index!Write, Index!Withdraw, Index!Remove,
         Index!Claim, Index!Serve, Index!Settle, Index!Lose, Index!Recover, Index!SameText,
         Index!SameIndex, Index!SameGoing, Index!SameLost
  <2> QED
    BY <2>1, <2>2
<1> QED
  BY <1>1, <1>2, PTL DEF KeepsIndex, Index!Spec
=============================================================================

--------------------------- MODULE Retrieval_proofs ---------------------------
(***************************************************************************)
(* Proofs about the embedding queue, alone and under the ingestion of a    *)
(* source, for every value of their constants.  What the queue needs to    *)
(* know of its surroundings is little: chunks are replaced as a whole, and *)
(* passes start on chunks.  So its invariant is proved for any such        *)
(* surroundings (QueueNext), and holds of both.  Then how the database     *)
(* they work on is opened, and last what becomes of the texts: chunks, and *)
(* the context of a question.                                              *)
(***************************************************************************)
EXTENDS RetrievalIngestion, Startup, RetrievalContext, Lists_proofs, FiniteSetTheorems, SequenceTheorems, TLAPS

(* Document d is cut into the chunks fresh; a pass starts on some chunks.   *)
CutAnew(d, fresh) ==
  /\ \A c \in fresh : chunkStatus[c] = "none"
  /\ ReplaceChunks(d, fresh)
  /\ UNCHANGED <<worker, enq>>

PassStarts(e, cs) == StartPass(e, cs) /\ UNCHANGED <<tables, worker>>

QueueNext ==
  \/ \E d \in Doc, fresh \in SUBSET Chunk : CutAnew(d, fresh)
  \/ \E e \in Enqueuer, cs \in SUBSET Chunk : PassStarts(e, cs)
  \/ \E e \in Enqueuer : PassStep(e) \/ AbortPass(e)
  \/ \E w \in Worker : WorkerStep(w) \/ StepRaises(w) \/ Crash(w)

QueueInv == TypeOK /\ HeldJobLeftQueue /\ NoOrphanRows /\ QueuedChunkHasQueuedJob

---------------------------------------------------------------------------
(* Types *)

LEMMA ChunkFacts == Nil \notin Chunk /\ Nil \notin Job
BY NilAssumption

LEMMA WorkerTyping ==
  ASSUME worker \in [Worker -> WorkerRecord], NEW w \in Worker
  PROVE  /\ \A pc \in WorkerPC : GoTo(w, pc) => worker' \in [Worker -> WorkerRecord]
         /\ Rest(w) => worker' \in [Worker -> WorkerRecord]
BY DEF GoTo, Rest, IdleWorker, WorkerRecord, WorkerPC

LEMMA JobStatusTyping ==
  ASSUME jobs \in [Job -> JobRecord], NEW j, NEW s \in JobLife
  PROVE  [jobs EXCEPT ![j].status = s] \in [Job -> JobRecord]
BY DEF JobRecord

LEMMA ClaimedTyping == \A row \in JobRecord : Claimed(row) \in JobRecord
<1> TAKE row \in JobRecord
<1>1. PICK n \in Nat : n = row.attempts + 1
  BY DEF JobRecord
<1>2. Claimed(row) = [row EXCEPT !.status = "processing", !.attempts = n]
  BY <1>1 DEF Claimed
<1>3. [row EXCEPT !.status = "processing", !.attempts = n] \in JobRecord
  BY DEF JobRecord, JobLife
<1> QED
  BY <1>2, <1>3

LEMMA TypeStep == TypeOK /\ [QueueNext]_vars => TypeOK'
<1> SUFFICES ASSUME TypeOK, [QueueNext]_vars PROVE TypeOK'
  OBVIOUS
<1> USE DEF TypeOK
<1>1. ASSUME NEW d \in Doc, NEW fresh \in SUBSET Chunk, CutAnew(d, fresh) PROVE TypeOK'
  <2>1. ReplaceChunks(d, fresh)
    BY <1>1 DEF CutAnew
  <2>2. UNCHANGED <<worker, enq>>
    BY <1>1 DEF CutAnew
  <2>3. jobs' \in [Job -> JobRecord]
    BY <2>1 DEF ReplaceChunks, JobRecord
  <2> QED
    BY <2>1, <2>2, <2>3 DEF ReplaceChunks, ChunkLife
<1>2. ASSUME NEW e \in Enqueuer, NEW cs \in SUBSET Chunk, PassStarts(e, cs) PROVE TypeOK'
  BY <1>2 DEF PassStarts, StartPass, tables, PassRecord
<1>3. ASSUME NEW e \in Enqueuer, FindActive(e) PROVE TypeOK'
  <2>1. PICK c \in enq[e].todo :
          enq' = [enq EXCEPT ![e] =
            IF \E j \in Job : Active(j) /\ jobs[j].chunk = c
            THEN PassAfter(e, c)
            ELSE [@ EXCEPT !.pc = "insert", !.chunk = c]]
    BY <1>3 DEF FindActive
  <2>2. c \in Chunk /\ enq[e] \in PassRecord
    BY DEF PassRecord
  <2>3. PassAfter(e, c) \in PassRecord
    BY <2>2 DEF PassAfter, IdlePass, PassRecord
  <2>4. [enq[e] EXCEPT !.pc = "insert", !.chunk = c] \in PassRecord
    BY <2>2 DEF PassRecord
  <2>5. enq' \in [Enqueuer -> PassRecord]
    BY <2>1, <2>3, <2>4
  <2> QED
    BY <1>3, <2>5 DEF FindActive, tables
<1>4. ASSUME NEW e \in Enqueuer, InsertJob(e) PROVE TypeOK'
  <2>1. enq[e].chunk \in Chunk \cup {Nil}
    BY DEF PassRecord
  <2>2. jobs' \in [Job -> JobRecord]
    BY <1>4, <2>1 DEF InsertJob, JobRecord, JobLife
  <2>3. enq' \in [Enqueuer -> PassRecord]
    BY <1>4 DEF InsertJob, PassAfter, IdlePass, PassRecord
  <2> QED
    BY <1>4, <2>1, <2>2, <2>3 DEF InsertJob, ChunkLife
<1>5. ASSUME NEW e \in Enqueuer, InsertRefused(e) \/ AbortPass(e) PROVE TypeOK'
  BY <1>5 DEF InsertRefused, AbortPass, IdlePass, tables, PassRecord
<1>6. ASSUME NEW w \in Worker, WorkerStep(w) PROVE TypeOK'
  <2> USE WorkerTyping
  <2> USE DEF WorkerPC, tables
  <2>1. CASE SelectNext(w)
    BY <2>1 DEF SelectNext, WorkerRecord, JobRecord
  <2>2. CASE ClaimJob(w)
    <3>1. jobs' \in [Job -> JobRecord]
      <4>1. \A row \in JobRecord : Claimed(row) \in JobRecord
        BY ClaimedTyping
      <4>2. [jobs EXCEPT ![worker[w].job] = Claimed(@)] \in [Job -> JobRecord]
        BY <4>1
      <4> QED
        BY <2>2, <4>2 DEF ClaimJob
    <3>2. chunkStatus' \in [Chunk -> ChunkLife \cup {"none", "deleted"}]
      BY <2>2 DEF ClaimJob, ChunkLife
    <3> QED
      BY <2>2, <3>1, <3>2 DEF ClaimJob
  <2>3. CASE ReloadJob(w)
    BY <2>3 DEF ReloadJob
  <2>4. CASE LoadChunk(w)
    BY <2>4 DEF LoadChunk
  <2>5. CASE DeleteEmbeddings(w)
    BY <2>5 DEF DeleteEmbeddings
  <2>6. CASE CreateEmbedding(w)
    <3>1. worker' \in [Worker -> WorkerRecord]
      BY <2>6 DEF CreateEmbedding
    <3>2. embeddings' \in [Chunk -> Nat]
      BY <2>6 DEF CreateEmbedding
    <3> QED
      BY <2>6, <3>1, <3>2 DEF CreateEmbedding
  <2>7. CASE MarkChunkReady(w)
    <3>1. worker' \in [Worker -> WorkerRecord]
      BY <2>7 DEF MarkChunkReady
    <3>2. chunkStatus' \in [Chunk -> ChunkLife \cup {"none", "deleted"}]
      BY <2>7 DEF MarkChunkReady, ChunkLife
    <3> QED
      BY <2>7, <3>1, <3>2 DEF MarkChunkReady
  <2>8. CASE CompleteJob(w)
    <3>1. worker' \in [Worker -> WorkerRecord]
      BY <2>8 DEF CompleteJob
    <3>2. jobs' \in [Job -> JobRecord]
      <4>1. [jobs EXCEPT ![worker[w].job].status = "completed"] \in [Job -> JobRecord]
        BY JobStatusTyping DEF JobLife
      <4> QED
        BY <2>8, <4>1 DEF CompleteJob
    <3> QED
      BY <2>8, <3>1, <3>2 DEF CompleteJob
  <2>9. CASE FailJob(w)
    <3>1. jobs' \in [Job -> JobRecord]
      <4>1. [jobs EXCEPT ![worker[w].job].status = "failed"] \in [Job -> JobRecord]
        BY JobStatusTyping DEF JobLife
      <4> QED
        BY <2>9, <4>1 DEF FailJob
    <3>2. chunkStatus' \in [Chunk -> ChunkLife \cup {"none", "deleted"}]
      BY <2>9 DEF FailJob, ChunkLife
    <3> QED
      BY <2>9, <3>1, <3>2 DEF FailJob
  <2> QED
    BY <1>6, <2>1, <2>2, <2>3, <2>4, <2>5, <2>6, <2>7, <2>8, <2>9 DEF WorkerStep
<1>7. ASSUME NEW w \in Worker, StepRaises(w) PROVE TypeOK'
  BY <1>7, WorkerTyping DEF StepRaises, WorkerPC, tables
<1>8. ASSUME NEW w \in Worker, Crash(w) PROVE TypeOK'
  BY <1>8, WorkerTyping DEF Crash, tables
<1>9. CASE UNCHANGED vars
  BY <1>9 DEF vars
<1> QED
  BY <1>1, <1>2, <1>3, <1>4, <1>5, <1>6, <1>7, <1>8, <1>9 DEF QueueNext, PassStep

LEMMA TypeStart == Init => TypeOK
BY DEF Init, TypeOK, NoJobRow, IdleWorker, IdlePass, WorkerPC, JobRecord, WorkerRecord, PassRecord

---------------------------------------------------------------------------
(* A worker past its claim holds a job that no replacement, claim or insert *)
(* brings back into the queue.                                              *)
LEMMA HeldStep == TypeOK /\ HeldJobLeftQueue /\ [QueueNext]_vars => HeldJobLeftQueue'
<1> USE DEF HeldJobLeftQueue, Queued
<1> SUFFICES ASSUME TypeOK, HeldJobLeftQueue, [QueueNext]_vars PROVE HeldJobLeftQueue'
  OBVIOUS
<1> USE DEF TypeOK
<1>1. ASSUME NEW d \in Doc, NEW fresh \in SUBSET Chunk, CutAnew(d, fresh) PROVE HeldJobLeftQueue'
  BY <1>1 DEF CutAnew, ReplaceChunks, JobRow, JobLife, JobRecord
<1>2. ASSUME NEW e \in Enqueuer, NEW cs \in SUBSET Chunk, PassStarts(e, cs)
      PROVE HeldJobLeftQueue'
  BY <1>2 DEF PassStarts, tables
<1>3. ASSUME NEW e \in Enqueuer, FindActive(e) PROVE HeldJobLeftQueue'
  BY <1>3 DEF FindActive, tables
<1>4. ASSUME NEW e \in Enqueuer, InsertJob(e) PROVE HeldJobLeftQueue'
  BY <1>4 DEF InsertJob
<1>5. ASSUME NEW e \in Enqueuer, InsertRefused(e) \/ AbortPass(e) PROVE HeldJobLeftQueue'
  BY <1>5 DEF InsertRefused, AbortPass, tables
<1>6. ASSUME NEW w \in Worker, WorkerStep(w) PROVE HeldJobLeftQueue'
  <2> USE DEF GoTo, Rest, IdleWorker, WorkerRecord, tables
  <2>1. CASE SelectNext(w)
    BY <2>1 DEF SelectNext
  <2>2. CASE ClaimJob(w)
    BY <2>2 DEF ClaimJob, Claimed, JobRow, JobLife, JobRecord
  <2>3. CASE ReloadJob(w)
    BY <2>3 DEF ReloadJob
  <2>4. CASE LoadChunk(w)
    BY <2>4 DEF LoadChunk
  <2>5. CASE DeleteEmbeddings(w)
    BY <2>5 DEF DeleteEmbeddings
  <2>6. CASE CreateEmbedding(w)
    BY <2>6 DEF CreateEmbedding
  <2>7. CASE MarkChunkReady(w)
    BY <2>7 DEF MarkChunkReady
  <2>8. CASE CompleteJob(w)
    BY <2>8 DEF CompleteJob, JobRecord
  <2>9. CASE FailJob(w)
    BY <2>9 DEF FailJob, JobRecord
  <2> QED
    BY <1>6, <2>1, <2>2, <2>3, <2>4, <2>5, <2>6, <2>7, <2>8, <2>9 DEF WorkerStep
<1>7. ASSUME NEW w \in Worker, StepRaises(w) PROVE HeldJobLeftQueue'
  BY <1>7 DEF StepRaises, GoTo, WorkerRecord, tables
<1>8. ASSUME NEW w \in Worker, Crash(w) PROVE HeldJobLeftQueue'
  BY <1>8 DEF Crash, Rest, IdleWorker, WorkerRecord, tables
<1>9. CASE UNCHANGED vars
  BY <1>9 DEF vars
<1> QED
  BY <1>1, <1>2, <1>3, <1>4, <1>5, <1>6, <1>7, <1>8, <1>9 DEF QueueNext, PassStep

LEMMA HeldStart == Init => HeldJobLeftQueue
BY DEF Init, IdleWorker, HeldJobLeftQueue, Queued

---------------------------------------------------------------------------
(* The deletes of a replacement take the jobs and vectors along; the two    *)
(* inserts meet the foreign key.                                            *)
LEMMA OrphanStep == TypeOK /\ HeldJobLeftQueue /\ NoOrphanRows /\ [QueueNext]_vars => NoOrphanRows'
<1> USE DEF NoOrphanRows, JobRow, ChunkRow, JobLife, ChunkLife
<1> SUFFICES ASSUME TypeOK, HeldJobLeftQueue, NoOrphanRows, [QueueNext]_vars
             PROVE NoOrphanRows'
  OBVIOUS
<1> USE DEF TypeOK
<1>1. ASSUME NEW d \in Doc, NEW fresh \in SUBSET Chunk, CutAnew(d, fresh) PROVE NoOrphanRows'
  <2>1. ReplaceChunks(d, fresh)
    BY <1>1 DEF CutAnew
  <2>2. \A j \in Job : JobRow(j)' =>
          /\ JobRow(j) /\ jobs'[j].chunk = jobs[j].chunk
          /\ jobs[j].chunk \notin ChunksOf(d)
    BY <2>1 DEF ReplaceChunks, JobRecord
  <2>3. \A c \in Chunk : ChunkRow(c) /\ c \notin ChunksOf(d) => ChunkRow(c)'
    BY <2>1 DEF ReplaceChunks
  <2>4. \A c \in Chunk : embeddings'[c] > 0 =>
          embeddings[c] > 0 /\ c \notin ChunksOf(d)
    BY <2>1 DEF ReplaceChunks
  <2> QED
    BY <2>2, <2>3, <2>4
<1>2. ASSUME NEW e \in Enqueuer, NEW cs \in SUBSET Chunk, PassStarts(e, cs) PROVE NoOrphanRows'
  BY <1>2 DEF PassStarts, tables
<1>3. ASSUME NEW e \in Enqueuer, FindActive(e) PROVE NoOrphanRows'
  BY <1>3 DEF FindActive, tables
<1>4. ASSUME NEW e \in Enqueuer, InsertJob(e) PROVE NoOrphanRows'
  <2>1. PICK i \in Job :
          jobs' = [jobs EXCEPT ![i] = [status |-> "queued", chunk |-> enq[e].chunk,
                                       created |-> e, attempts |-> 0]]
    BY <1>4 DEF InsertJob
  <2>2. enq[e].chunk \in Chunk
    BY <1>4 DEF InsertJob
  <2>3. \A c \in Chunk : ChunkRow(c) => ChunkRow(c)'
    BY <1>4 DEF InsertJob
  <2> QED
    BY <1>4, <2>1, <2>2, <2>3 DEF InsertJob, JobRecord
<1>5. ASSUME NEW e \in Enqueuer, InsertRefused(e) \/ AbortPass(e) PROVE NoOrphanRows'
  BY <1>5 DEF InsertRefused, AbortPass, tables
<1>6. ASSUME NEW w \in Worker, WorkerStep(w) PROVE NoOrphanRows'
  <2>1. CASE SelectNext(w)
    BY <2>1 DEF SelectNext, tables
  <2>2. CASE ClaimJob(w)
    <3>1. \A j \in Job : JobRow(j)' => JobRow(j) /\ jobs'[j].chunk = jobs[j].chunk
      BY <2>2 DEF ClaimJob, Claimed, JobRecord
    <3>2. \A c \in Chunk : ChunkRow(c) => ChunkRow(c)'
      BY <2>2 DEF ClaimJob
    <3> QED
      BY <2>2, <3>1, <3>2 DEF ClaimJob
  <2>3. CASE ReloadJob(w)
    BY <2>3 DEF ReloadJob, tables
  <2>4. CASE LoadChunk(w)
    BY <2>4 DEF LoadChunk, tables
  <2>5. CASE DeleteEmbeddings(w)
    BY <2>5 DEF DeleteEmbeddings
  <2>6. CASE CreateEmbedding(w)
    BY <2>6 DEF CreateEmbedding
  <2>7. CASE MarkChunkReady(w)
    BY <2>7 DEF MarkChunkReady
  <2>8. CASE CompleteJob(w)
    BY <2>8 DEF CompleteJob, JobRecord
  <2>9. CASE FailJob(w)
    <3>1. \A j \in Job : JobRow(j)' => JobRow(j) /\ jobs'[j].chunk = jobs[j].chunk
      BY <2>9 DEF FailJob, JobRecord
    <3>2. \A c \in Chunk : ChunkRow(c) => ChunkRow(c)'
      BY <2>9 DEF FailJob
    <3> QED
      BY <2>9, <3>1, <3>2 DEF FailJob
  <2> QED
    BY <1>6, <2>1, <2>2, <2>3, <2>4, <2>5, <2>6, <2>7, <2>8, <2>9 DEF WorkerStep
<1>7. ASSUME NEW w \in Worker, StepRaises(w) PROVE NoOrphanRows'
  BY <1>7 DEF StepRaises, tables
<1>8. ASSUME NEW w \in Worker, Crash(w) PROVE NoOrphanRows'
  BY <1>8 DEF Crash, tables
<1>9. CASE UNCHANGED vars
  BY <1>9 DEF vars
<1> QED
  BY <1>1, <1>2, <1>3, <1>4, <1>5, <1>6, <1>7, <1>8, <1>9 DEF QueueNext, PassStep

LEMMA OrphanStart == Init => NoOrphanRows
BY DEF Init, NoJobRow, NoOrphanRows, JobRow, ChunkRow, JobLife, ChunkLife

---------------------------------------------------------------------------
(* Completions and failures are written by job id, so the argument needs    *)
(* that the id a worker holds is not the queued one (HeldJobLeftQueue).     *)
LEMMA QueuedStep == TypeOK /\ HeldJobLeftQueue /\ QueuedChunkHasQueuedJob /\ [QueueNext]_vars
        => QueuedChunkHasQueuedJob'
<1> USE DEF QueuedChunkHasQueuedJob, Queued
<1> SUFFICES ASSUME TypeOK, HeldJobLeftQueue, QueuedChunkHasQueuedJob, [QueueNext]_vars
             PROVE QueuedChunkHasQueuedJob'
  OBVIOUS
<1> USE DEF TypeOK
<1>1. ASSUME NEW d \in Doc, NEW fresh \in SUBSET Chunk, CutAnew(d, fresh)
      PROVE QueuedChunkHasQueuedJob'
  BY <1>1 DEF CutAnew, ReplaceChunks, ChunksOf, ChunkRow, ChunkLife, JobRecord
<1>2. ASSUME NEW e \in Enqueuer, NEW cs \in SUBSET Chunk, PassStarts(e, cs)
      PROVE QueuedChunkHasQueuedJob'
  BY <1>2 DEF PassStarts, tables
<1>3. ASSUME NEW e \in Enqueuer, FindActive(e) PROVE QueuedChunkHasQueuedJob'
  BY <1>3 DEF FindActive, tables
<1>4. ASSUME NEW e \in Enqueuer, InsertJob(e) PROVE QueuedChunkHasQueuedJob'
  BY <1>4 DEF InsertJob
<1>5. ASSUME NEW e \in Enqueuer, InsertRefused(e) \/ AbortPass(e) PROVE QueuedChunkHasQueuedJob'
  BY <1>5 DEF InsertRefused, AbortPass, tables
<1>6. ASSUME NEW w \in Worker, WorkerStep(w) PROVE QueuedChunkHasQueuedJob'
  <2> USE DEF HeldJobLeftQueue
  <2>1. CASE SelectNext(w)
    BY <2>1 DEF SelectNext, tables
  <2>2. CASE ClaimJob(w)
    BY <2>2 DEF ClaimJob, Claimed, JobRecord, ChunkRow, ChunkLife
  <2>3. CASE ReloadJob(w)
    BY <2>3 DEF ReloadJob, tables
  <2>4. CASE LoadChunk(w)
    BY <2>4 DEF LoadChunk, tables
  <2>5. CASE DeleteEmbeddings(w)
    BY <2>5 DEF DeleteEmbeddings
  <2>6. CASE CreateEmbedding(w)
    BY <2>6 DEF CreateEmbedding
  <2>7. CASE MarkChunkReady(w)
    BY <2>7 DEF MarkChunkReady
  <2>8. CASE CompleteJob(w)
    BY <2>8 DEF CompleteJob, JobRecord
  <2>9. CASE FailJob(w)
    BY <2>9 DEF FailJob, JobRecord
  <2> QED
    BY <1>6, <2>1, <2>2, <2>3, <2>4, <2>5, <2>6, <2>7, <2>8, <2>9 DEF WorkerStep
<1>7. ASSUME NEW w \in Worker, StepRaises(w) PROVE QueuedChunkHasQueuedJob'
  BY <1>7 DEF StepRaises, tables
<1>8. ASSUME NEW w \in Worker, Crash(w) PROVE QueuedChunkHasQueuedJob'
  BY <1>8 DEF Crash, tables
<1>9. CASE UNCHANGED vars
  BY <1>9 DEF vars
<1> QED
  BY <1>1, <1>2, <1>3, <1>4, <1>5, <1>6, <1>7, <1>8, <1>9 DEF QueueNext, PassStep

LEMMA QueuedStart == Init => QueuedChunkHasQueuedJob
BY DEF Init, QueuedChunkHasQueuedJob, Queued

---------------------------------------------------------------------------
LEMMA QueueInvStep == QueueInv /\ [QueueNext]_vars => QueueInv'
BY TypeStep, HeldStep, OrphanStep, QueuedStep DEF QueueInv

LEMMA QueueInvStart == Init => QueueInv
BY TypeStart, HeldStart, OrphanStart, QueuedStart DEF QueueInv

(* The queue by itself is in such surroundings. *)
LEMMA AloneIsQueue == Next => QueueNext
<1> SUFFICES ASSUME Next PROVE QueueNext
  OBVIOUS
<1>1. ASSUME NEW d \in Doc, NEW n \in 1 .. 2, Recut(d, n) PROVE QueueNext
  <2>1. PICK fresh \in SUBSET Chunk : FreshChunks(fresh, n) /\ ReplaceChunks(d, fresh)
    BY <1>1 DEF Recut
  <2>2. CutAnew(d, fresh)
    BY <1>1, <2>1 DEF Recut, FreshChunks, CutAnew
  <2> QED
    BY <2>2 DEF QueueNext
<1>2. ASSUME NEW e \in Enqueuer, NEW d \in Doc, BeginPass(e, d) PROVE QueueNext
  <2>1. PassStarts(e, ChunksOf(d)) /\ ChunksOf(d) \in SUBSET Chunk
    BY <1>2 DEF BeginPass, PassStarts, ChunksOf
  <2> QED
    BY <2>1 DEF QueueNext
<1> QED
  BY <1>1, <1>2 DEF Next, QueueNext

LEMMA Alone == Spec => []QueueInv
<1>1. QueueInv /\ [Next]_vars => QueueInv'
  BY AloneIsQueue, QueueInvStep
<1> QED
  BY <1>1, QueueInvStart, PTL DEF Spec

(* The rows and process records have their types in every reachable state.  *)
THEOREM TypeCorrect == Spec => []TypeOK
<1>1. QueueInv => TypeOK
  BY DEF QueueInv
<1> QED
  BY <1>1, Alone, PTL

(* A worker past its claim never holds a queued job again.                  *)
THEOREM HeldJobs == Spec => []HeldJobLeftQueue
<1>1. QueueInv => HeldJobLeftQueue
  BY DEF QueueInv
<1> QED
  BY <1>1, Alone, PTL

(* No job row outlives its chunk, no vector outlives its chunk.             *)
THEOREM NoOrphans == Spec => []NoOrphanRows
<1>1. QueueInv => NoOrphanRows
  BY DEF QueueInv
<1> QED
  BY <1>1, Alone, PTL

(* A chunk shown as queued always has a queued job, however claims race.    *)
THEOREM QueuedChunks == Spec => []QueuedChunkHasQueuedJob
<1>1. QueueInv => QueuedChunkHasQueuedJob
  BY DEF QueueInv
<1> QED
  BY <1>1, Alone, PTL

---------------------------------------------------------------------------
(* Under ingestion *)

DocRecord == [status : {"none", "pending", "ready", "failed"}, checksum : Text \cup {Nil},
              body : Text \cup {Nil}, version : Nat]

(* The rows and the copies a refresh holds have their types, and who is     *)
(* about to cut chunks knows which document they are of.                    *)
IngestTyped ==
  /\ profile \in Text
  /\ source \in {Nil, "pending", "ready", "failed"}
  /\ docs \in [Doc -> DocRecord]
  /\ cutFrom \in [Chunk -> Text \cup {Nil}]
  /\ run \in [Run -> RunRecord]
  /\ failures \in Nat
  /\ \A r \in Run : run[r].pc = "replace" => run[r].doc \in Doc

LEMMA IngestStart == IngestInit => IngestTyped
BY DEF IngestInit, IngestTyped, NoDocRow, DocRecord, NewRun, RunRecord, RunPC, Text

(* A refresh moves on in its own record. *)
LEMMA MovesTyped ==
  ASSUME IngestTyped, NEW r \in Run, NEW q \in RunRecord, run' = [run EXCEPT ![r] = q],
         q.pc = "replace" => q.doc \in Doc
  PROVE  run' \in [Run -> RunRecord] /\ \A p \in Run : run'[p].pc = "replace" => run'[p].doc \in Doc
BY DEF IngestTyped

LEMMA GoTyped ==
  ASSUME IngestTyped, NEW r \in Run, NEW pc \in RunPC \ {"replace"}, Go(r, pc)
  PROVE  run' \in [Run -> RunRecord] /\ \A p \in Run : run'[p].pc = "replace" => run'[p].doc \in Doc
<1>1. PICK q \in RunRecord : q = [run[r] EXCEPT !.pc = pc]
  BY DEF IngestTyped, RunRecord
<1>2. run' = [run EXCEPT ![r] = q] /\ q.pc = pc
  BY <1>1 DEF Go, IngestTyped, RunRecord
<1> QED
  BY <1>2, MovesTyped

LEMMA LifecycleTyped ==
  ASSUME IngestTyped, NEW r \in Run, NEW status \in {"ready", "failed"},
         Lifecycle(r, status, run[r].version)
  PROVE  docs' \in [Doc -> DocRecord]
<1>1. run[r].body \in Text \cup {Nil} /\ run[r].version \in Nat
  BY DEF IngestTyped, RunRecord
<1>2. ASSUME NEW d \in Doc
      PROVE  [docs[d] EXCEPT !.status = status, !.checksum = run[r].body,
                             !.version = run[r].version] \in DocRecord
  BY <1>1 DEF IngestTyped, DocRecord
<1> QED
  BY <1>2 DEF Lifecycle, IngestTyped

(* The reads and writes of a refresh that leave the queue alone. *)
LEMMA RunTyped ==
  ASSUME IngestTyped, TypeOK, NEW r \in Run,
         \/ BuildDocument(r) \/ FindSource(r) \/ InsertSource(r) \/ UpdateSource(r)
         \/ FindDocument(r) \/ FailSource(r) \/ FailDocument(r) \/ NoopDocument(r)
         \/ NoopSource(r) \/ FindAgain(r) \/ UpsertDocument(r) \/ ListChunks(r)
         \/ ReadyDocument(r) \/ ReadySource(r) \/ RecoverSource(r) \/ RecoverDocument(r)
  PROVE  IngestTyped'
<1> USE DEF RunPC, NoTables
<1>1. /\ run[r] \in RunRecord /\ profile \in Text
      /\ \A d \in Doc : docs[d] \in DocRecord
  BY DEF IngestTyped
<1>2. CASE BuildDocument(r)
  <2>1. PICK q \in RunRecord : q = [run[r] EXCEPT !.body = profile, !.pc = "findSource"]
    BY <1>1 DEF RunRecord
  <2>2. run' = [run EXCEPT ![r] = q] /\ q.pc # "replace"
    BY <1>1, <1>2, <2>1 DEF BuildDocument, IngestTyped, RunRecord
  <2> QED
    BY <1>2, <2>2, MovesTyped DEF BuildDocument, IngestTyped
<1>3. CASE FindSource(r)
  BY <1>3, GoTyped DEF FindSource, IngestTyped
<1>4. CASE InsertSource(r) \/ UpdateSource(r)
  <2>1. /\ run' \in [Run -> RunRecord]
        /\ \A p \in Run : run'[p].pc = "replace" => run'[p].doc \in Doc
    BY <1>4, GoTyped DEF InsertSource, UpdateSource
  <2> QED
    BY <1>4, <2>1 DEF InsertSource, UpdateSource, IngestTyped
<1>5. CASE FindDocument(r)
  <2> DEFINE seen(d, sum, version) ==
        [run[r] EXCEPT !.doc = d, !.version = version, !.pc =
          IF run[r].body = Empty THEN "failSource"
          ELSE IF sum = run[r].body THEN "noopDoc"
          ELSE "findAgain"]
  <2>1. ASSUME NEW d \in Doc \cup {Nil}, NEW sum, NEW version \in Nat,
               run' = [run EXCEPT ![r] = seen(d, sum, version)]
        PROVE  /\ run' \in [Run -> RunRecord]
               /\ \A p \in Run : run'[p].pc = "replace" => run'[p].doc \in Doc
    <3>1. PICK q \in RunRecord : q = seen(d, sum, version)
      BY <1>1 DEF RunRecord
    <3>2. q.pc # "replace"
      BY <1>1, <3>1 DEF RunRecord
    <3> QED
      BY <2>1, <3>1, <3>2, MovesTyped
  <2>2. \/ \E d \in Doc : run' = [run EXCEPT ![r] = seen(d, docs[d].checksum, docs[d].version)]
        \/ run' = [run EXCEPT ![r] = seen(Nil, Nil, 0)]
    BY <1>5 DEF FindDocument, IngestTyped
  <2> HIDE DEF seen
  <2>3. /\ run' \in [Run -> RunRecord]
        /\ \A p \in Run : run'[p].pc = "replace" => run'[p].doc \in Doc
    <3>1. CASE \E d \in Doc : run' = [run EXCEPT ![r] = seen(d, docs[d].checksum, docs[d].version)]
      <4>1. PICK d \in Doc : run' = [run EXCEPT ![r] = seen(d, docs[d].checksum, docs[d].version)]
        BY <3>1
      <4>2. docs[d].version \in Nat
        BY <1>1 DEF DocRecord
      <4> QED
        BY <2>1, <4>1, <4>2
    <3>2. CASE run' = [run EXCEPT ![r] = seen(Nil, Nil, 0)]
      BY <2>1, <3>2
    <3> QED
      BY <2>2, <3>1, <3>2
  <2> QED
    BY <1>5, <2>3 DEF FindDocument, IngestTyped
<1>6. CASE FailSource(r) \/ NoopSource(r) \/ ReadySource(r) \/ RecoverSource(r)
  <2>1. /\ run' \in [Run -> RunRecord]
        /\ \A p \in Run : run'[p].pc = "replace" => run'[p].doc \in Doc
    BY <1>6, GoTyped DEF FailSource, NoopSource, ReadySource, RecoverSource
  <2> QED
    BY <1>6, <2>1 DEF FailSource, NoopSource, ReadySource, RecoverSource, IngestTyped
<1>7. CASE FailDocument(r) \/ NoopDocument(r) \/ ReadyDocument(r) \/ RecoverDocument(r)
  <2>1. /\ run' \in [Run -> RunRecord]
        /\ \A p \in Run : run'[p].pc = "replace" => run'[p].doc \in Doc
    BY <1>7, GoTyped DEF FailDocument, NoopDocument, ReadyDocument, RecoverDocument
  <2>2. docs' \in [Doc -> DocRecord]
    BY <1>7, LifecycleTyped DEF FailDocument, NoopDocument, ReadyDocument, RecoverDocument
  <2> QED
    BY <1>7, <2>1, <2>2
    DEF FailDocument, NoopDocument, ReadyDocument, RecoverDocument, IngestTyped
<1>8. CASE FindAgain(r)
  <2>1. PICK d \in Doc \cup {Nil} : run' = [run EXCEPT ![r].doc = d, ![r].pc = "upsertDoc"]
    BY <1>8 DEF FindAgain
  <2>2. PICK q \in RunRecord : q = [run[r] EXCEPT !.doc = d, !.pc = "upsertDoc"]
    BY <1>1 DEF RunRecord
  <2>3. run' = [run EXCEPT ![r] = q] /\ q.pc # "replace"
    BY <1>1, <2>1, <2>2 DEF IngestTyped, RunRecord
  <2> QED
    BY <1>8, <2>3, MovesTyped DEF FindAgain, IngestTyped
<1>9. CASE UpsertDocument(r)
  <2>1. PICK v \in Nat : v = run[r].version + 1
    BY <1>1 DEF RunRecord
  <2>2. PICK d \in Doc :
          /\ docs' = [docs EXCEPT ![d] = [status |-> "pending", checksum |-> run[r].body,
                                          body |-> run[r].body, version |-> v]]
          /\ run' = [run EXCEPT ![r].doc = d, ![r].version = v, ![r].pc = "replace"]
    BY <1>9, <2>1 DEF UpsertDocument
  <2>3. PICK q \in RunRecord : q = [run[r] EXCEPT !.doc = d, !.version = v, !.pc = "replace"]
    BY <1>1 DEF RunRecord
  <2>4. run' = [run EXCEPT ![r] = q] /\ q.doc \in Doc
    BY <1>1, <2>2, <2>3 DEF IngestTyped, RunRecord
  <2>5. docs' \in [Doc -> DocRecord]
    BY <1>1, <2>2 DEF IngestTyped, DocRecord, RunRecord
  <2> QED
    BY <1>9, <2>4, <2>5, MovesTyped DEF UpsertDocument, IngestTyped
<1>10. CASE ListChunks(r)
  <2>1. PICK q \in RunRecord : q = [run[r] EXCEPT !.chunks = ChunksOf(run[r].doc), !.pc = "readyDoc"]
    BY <1>1 DEF RunRecord, ChunksOf
  <2>2. run' = [run EXCEPT ![r] = q] /\ q.pc # "replace"
    BY <1>1, <1>10, <2>1 DEF ListChunks, IngestTyped, RunRecord
  <2> QED
    BY <1>10, <2>2, MovesTyped DEF ListChunks, IngestTyped
<1> QED
  BY <1>2, <1>3, <1>4, <1>5, <1>6, <1>7, <1>8, <1>9, <1>10

LEMMA IngestStep == IngestTyped /\ TypeOK /\ [IngestNext]_ingestVars => IngestTyped'
<1> SUFFICES ASSUME IngestTyped, TypeOK, [IngestNext]_ingestVars PROVE IngestTyped'
  OBVIOUS
<1> USE DEF RunPC
<1>1. ASSUME NEW r \in Run, SaveText(r) PROVE IngestTyped'
  <2>1. /\ run' \in [Run -> RunRecord]
        /\ \A p \in Run : run'[p].pc = "replace" => run'[p].doc \in Doc
    <3> DEFINE alone == InFlight # {} /\ \A d \in Doc : ~DocRow(d)
    <3>1. PICK q \in RunRecord : q = [run[r] EXCEPT !.pc = "build", !.rival = alone]
      BY DEF IngestTyped, RunRecord
    <3>2. run' = [run EXCEPT ![r] = q] /\ q.pc = "build"
      BY <1>1, <3>1 DEF SaveText, IngestTyped, RunRecord
    <3> QED
      BY <3>2, MovesTyped
  <2> QED
    BY <1>1, <2>1 DEF SaveText, NoTables, IngestTyped
<1>2. ASSUME NEW r \in Run, ReplaceRunChunks(r) PROVE IngestTyped'
  <2>1. /\ run' \in [Run -> RunRecord]
        /\ \A p \in Run : run'[p].pc = "replace" => run'[p].doc \in Doc
    BY <1>2, GoTyped DEF ReplaceRunChunks
  <2>2. run[r].body \in Text \cup {Nil}
    BY DEF IngestTyped, RunRecord
  <2> QED
    BY <1>2, <2>1, <2>2 DEF ReplaceRunChunks, NoQueue, IngestTyped
<1>3. ASSUME NEW r \in Run, EnqueueChunks(r) PROVE IngestTyped'
  <2>1. /\ run' \in [Run -> RunRecord]
        /\ \A p \in Run : run'[p].pc = "replace" => run'[p].doc \in Doc
    BY <1>3, GoTyped DEF EnqueueChunks
  <2> QED
    BY <1>3, <2>1 DEF EnqueueChunks, IngestTyped
<1>4. ASSUME NEW r \in Run, RunRaises(r) \/ RunDies(r) PROVE IngestTyped'
  <2>1. /\ run' \in [Run -> RunRecord]
        /\ \A p \in Run : run'[p].pc = "replace" => run'[p].doc \in Doc
    BY <1>4, GoTyped DEF RunRaises, RunDies
  <2> QED
    BY <1>4, <2>1 DEF RunRaises, RunDies, FailOnce, IngestTyped
<1>5. CASE QueueStep \/ QueueFails
  BY <1>5 DEF QueueStep, QueueFails, FailOnce, ingest, IngestTyped
<1>6. CASE UNCHANGED ingestVars
  BY <1>6 DEF ingestVars, IngestTyped
<1> QED
  BY <1>1, <1>2, <1>3, <1>4, <1>5, <1>6, RunTyped DEF IngestNext, RunStep

(* A step of ingestion is a step of the queue or leaves it alone. *)
LEMMA IngestIsQueue ==
  ASSUME IngestTyped, [IngestNext]_ingestVars
  PROVE  [QueueNext]_vars
<1>1. ASSUME NEW r \in Run, ReplaceRunChunks(r) PROVE QueueNext
  <2>1. PICK fresh \in SUBSET Chunk :
          FreshChunks(fresh, ChunksIn[run[r].body]) /\ ReplaceChunks(run[r].doc, fresh)
    BY <1>1 DEF ReplaceRunChunks
  <2>2. PICK d \in Doc : d = run[r].doc
    BY <1>1 DEF IngestTyped, ReplaceRunChunks, At
  <2>3. CutAnew(d, fresh)
    BY <1>1, <2>1, <2>2 DEF ReplaceRunChunks, NoQueue, FreshChunks, CutAnew
  <2> QED
    BY <2>3 DEF QueueNext
<1>2. ASSUME NEW r \in Run, EnqueueChunks(r) PROVE QueueNext
  <2>1. run[r].chunks \in SUBSET Chunk /\ r \in Enqueuer
    BY DEF IngestTyped, RunRecord, Run
  <2>2. PassStarts(r, run[r].chunks)
    BY <1>2 DEF EnqueueChunks, PassStarts
  <2> QED
    BY <2>1, <2>2 DEF QueueNext
<1>3. ASSUME NEW r \in Run, RunStep(r), ~ReplaceRunChunks(r), ~EnqueueChunks(r)
      PROVE  UNCHANGED vars
  BY <1>3 DEF RunStep, BuildDocument, FindSource, InsertSource, UpdateSource, FindDocument,
     FailSource, FailDocument, NoopDocument, NoopSource, FindAgain, UpsertDocument, ListChunks,
     ReadyDocument, ReadySource, RecoverSource, RecoverDocument, NoTables
<1>4. ASSUME NEW r \in Run, SaveText(r) \/ RunRaises(r) \/ RunDies(r) PROVE UNCHANGED vars
  BY <1>4 DEF SaveText, RunRaises, RunDies, NoTables
<1>5. CASE QueueStep \/ QueueFails
  BY <1>5 DEF QueueStep, QueueFails, QueueNext
<1>6. CASE UNCHANGED ingestVars
  BY <1>6 DEF ingestVars
<1> QED
  BY <1>1, <1>2, <1>3, <1>4, <1>5, <1>6 DEF IngestNext

LEMMA UnderIngestion == IngestSpec => [](QueueInv /\ IngestTyped)
<1>1. IngestInit => QueueInv /\ IngestTyped
  BY IngestStart, QueueInvStart DEF IngestInit
<1>2. QueueInv /\ IngestTyped /\ [IngestNext]_ingestVars => (QueueInv /\ IngestTyped)'
  BY IngestIsQueue, IngestStep, QueueInvStep DEF QueueInv
<1> QED
  BY <1>1, <1>2, PTL DEF IngestSpec

(* The tables of the queue agree also under ingestion, whose refreshes cut  *)
(* documents anew and start passes while others do the same or die.         *)
THEOREM IngestedQueue == IngestSpec => [](HeldJobLeftQueue /\ NoOrphanRows /\ QueuedChunkHasQueuedJob)
<1>1. QueueInv => HeldJobLeftQueue /\ NoOrphanRows /\ QueuedChunkHasQueuedJob
  BY DEF QueueInv
<1> QED
  BY <1>1, UnderIngestion, PTL

---------------------------------------------------------------------------
(* One text *)

(* Besides the replacement no step makes or moves a chunk. *)
LEMMA ChunksStay ==
  ASSUME TypeOK, [IngestNext]_ingestVars, \A r \in Run : ~ReplaceRunChunks(r)
  PROVE  UNCHANGED <<chunkDoc, cutFrom>> /\ \A c \in Chunk : ChunkRow(c)' <=> ChunkRow(c)
<1> USE DEF ChunkRow, ChunkLife
<1>1. ASSUME NEW e \in Enqueuer, PassStep(e) \/ AbortPass(e)
      PROVE  UNCHANGED chunkDoc /\ \A c \in Chunk : ChunkRow(c)' <=> ChunkRow(c)
  BY <1>1 DEF PassStep, FindActive, InsertJob, InsertRefused, AbortPass, tables, TypeOK
<1>2. ASSUME NEW w \in Worker, WorkerStep(w) \/ StepRaises(w) \/ Crash(w)
      PROVE  UNCHANGED chunkDoc /\ \A c \in Chunk : ChunkRow(c)' <=> ChunkRow(c)
  <2>1. CASE ClaimJob(w)
    BY <2>1 DEF ClaimJob, TypeOK
  <2>2. CASE MarkChunkReady(w)
    BY <2>2 DEF MarkChunkReady, TypeOK
  <2>3. CASE FailJob(w)
    BY <2>3 DEF FailJob, TypeOK
  <2>4. CASE ~ClaimJob(w) /\ ~MarkChunkReady(w) /\ ~FailJob(w)
    BY <1>2, <2>4 DEF WorkerStep, SelectNext, ReloadJob, LoadChunk, DeleteEmbeddings,
       CreateEmbedding, CompleteJob, StepRaises, Crash, tables
  <2> QED
    BY <2>1, <2>2, <2>3, <2>4
<1>3. ASSUME NEW r \in Run, RunStep(r)
      PROVE  UNCHANGED <<chunkStatus, chunkDoc, cutFrom>>
  BY <1>3 DEF RunStep, BuildDocument, FindSource, InsertSource, UpdateSource, FindDocument,
     FailSource, FailDocument, NoopDocument, NoopSource, FindAgain, UpsertDocument, ListChunks,
     ReadyDocument, ReadySource, EnqueueChunks, RecoverSource, RecoverDocument, NoTables, vars,
     tables
<1>4. ASSUME NEW r \in Run, SaveText(r) \/ RunRaises(r) \/ RunDies(r)
      PROVE  UNCHANGED <<chunkStatus, chunkDoc, cutFrom>>
  BY <1>4 DEF SaveText, RunRaises, RunDies, NoTables, vars
<1>5. CASE QueueStep
  BY <1>1, <1>2, <1>5 DEF QueueStep, ingest
<1>6. CASE QueueFails
  BY <1>1, <1>2, <1>6 DEF QueueFails, ingest
<1>7. CASE UNCHANGED ingestVars
  BY <1>7 DEF ingestVars, vars
<1> QED
  BY <1>3, <1>4, <1>5, <1>6, <1>7 DEF IngestNext

LEMMA OneTextStep ==
  TypeOK /\ ChunksOfOneText /\ [IngestNext]_ingestVars => ChunksOfOneText'
<1> SUFFICES ASSUME TypeOK, ChunksOfOneText, [IngestNext]_ingestVars PROVE ChunksOfOneText'
  OBVIOUS
<1>1. ASSUME NEW r \in Run, ReplaceRunChunks(r) PROVE ChunksOfOneText'
  <2>1. PICK fresh \in SUBSET Chunk :
          /\ ReplaceChunks(run[r].doc, fresh)
          /\ cutFrom' = [c \in Chunk |-> IF c \in fresh THEN run[r].body ELSE cutFrom[c]]
    BY <1>1 DEF ReplaceRunChunks
  <2>2. \A c \in fresh : chunkDoc'[c] = run[r].doc /\ cutFrom'[c] = run[r].body
    BY <2>1 DEF ReplaceChunks
  <2>3. \A c \in Chunk \ fresh : ChunkRow(c)' =>
          /\ ChunkRow(c) /\ chunkDoc[c] # run[r].doc
          /\ chunkDoc'[c] = chunkDoc[c] /\ cutFrom'[c] = cutFrom[c]
    BY <2>1 DEF ReplaceChunks, ChunkRow, ChunksOf, ChunkLife
  <2> QED
    BY <2>2, <2>3 DEF ChunksOfOneText
<1>2. CASE \A r \in Run : ~ReplaceRunChunks(r)
  BY <1>2, ChunksStay DEF ChunksOfOneText
<1> QED
  BY <1>1, <1>2

(* Whatever overlaps or dies, also with any number of workers, the chunks   *)
(* of one document are cut from one text: a search never mixes passages of  *)
(* two versions of a document.                                              *)
THEOREM OneTextTheorem == IngestSpec => []ChunksOfOneText
<1>1. IngestInit => ChunksOfOneText
  BY DEF IngestInit, Init, ChunksOfOneText, ChunkRow, ChunkLife
<1>2. QueueInv => TypeOK
  BY DEF QueueInv
<1> QED
  BY <1>1, <1>2, OneTextStep, UnderIngestion, PTL DEF IngestSpec

---------------------------------------------------------------------------
(* One vector *)

(* What a single worker knows of the chunk it embeds.                       *)
Embeds(w) ==
  LET c  == worker[w].chunk
      pc == worker[w].pc IN
  /\ pc # "idle" => c \in Chunk /\ chunkStatus[c] # "none"
  /\ pc \in {"reload", "load", "embed", "create", "ready"} => chunkStatus[c] # "ready"
  /\ pc = "create" => embeddings[c] = 0
  /\ pc = "ready" /\ ChunkRow(c) => embeddings[c] = 1

VectorInv == ReadyChunkHasOneVector /\ \A w \in Worker : Embeds(w)

LEMMA VectorStart == Init => VectorInv
BY DEF Init, VectorInv, ReadyChunkHasOneVector, Embeds, IdleWorker

LEMMA VectorStep ==
  ASSUME \A v, w \in Worker : v = w, QueueInv, VectorInv, [QueueNext]_vars
  PROVE  VectorInv'
<1> USE DEF VectorInv, ReadyChunkHasOneVector, Embeds
<1>1. TypeOK /\ HeldJobLeftQueue /\ NoOrphanRows
  BY DEF QueueInv
<1>2. ASSUME NEW d \in Doc, NEW fresh \in SUBSET Chunk, CutAnew(d, fresh) PROVE VectorInv'
  <2> DEFINE old == ChunksOf(d)
  <2>a. /\ \A c \in fresh : chunkStatus[c] = "none"
        /\ chunkStatus' = [c \in Chunk |-> IF c \in fresh THEN "pending"
                                          ELSE IF c \in old THEN "deleted"
                                          ELSE chunkStatus[c]]
        /\ embeddings' = [c \in Chunk |-> IF c \in old THEN 0 ELSE embeddings[c]]
        /\ UNCHANGED worker
    BY <1>2 DEF CutAnew, ReplaceChunks
  <2>b. \A c \in old : ChunkRow(c)
    BY DEF ChunksOf
  <2>1. /\ \A c \in fresh : chunkStatus[c] = "none" /\ chunkStatus'[c] = "pending"
        /\ \A c \in Chunk \ fresh : chunkStatus'[c] \in {chunkStatus[c], "deleted"}
        /\ \A c \in Chunk : \/ embeddings'[c] = embeddings[c]
                            \/ embeddings'[c] = 0 /\ ChunkRow(c)
        /\ \A c \in Chunk : embeddings'[c] # embeddings[c] => chunkStatus'[c] = "deleted"
        /\ UNCHANGED worker
    <3> HIDE DEF old
    <3> QED
      BY <2>a, <2>b DEF ChunkRow, ChunkLife
  <2>2. ReadyChunkHasOneVector'
    BY <2>1
  <2>3. ASSUME NEW w \in Worker PROVE Embeds(w)'
    <3>1. Embeds(w)
      OBVIOUS
    <3> QED
      BY <2>1, <3>1 DEF ChunkRow, ChunkLife, ChunksOf
  <2> QED
    BY <2>2, <2>3
<1>3. ASSUME NEW e \in Enqueuer, NEW cs \in SUBSET Chunk, PassStarts(e, cs) PROVE VectorInv'
  BY <1>3 DEF PassStarts, tables, ChunkRow
<1>4. ASSUME NEW e \in Enqueuer, PassStep(e) \/ AbortPass(e) PROVE VectorInv'
  <2>1. CASE InsertJob(e)
    <3>1. /\ UNCHANGED <<worker, embeddings>> /\ ChunkRow(enq[e].chunk)
          /\ \A c \in Chunk : chunkStatus'[c] = IF c = enq[e].chunk THEN "queued" ELSE chunkStatus[c]
      BY <1>1, <2>1 DEF InsertJob, TypeOK
    <3> QED
      BY <3>1 DEF ChunkRow, ChunkLife
  <2>2. CASE ~InsertJob(e)
    BY <1>4, <2>2 DEF PassStep, FindActive, InsertRefused, AbortPass, tables, ChunkRow
  <2> QED
    BY <2>1, <2>2
<1>5. ASSUME NEW w \in Worker, WorkerStep(w) \/ StepRaises(w) \/ Crash(w) PROVE VectorInv'
  <2> DEFINE c == worker[w].chunk
  <2>1. worker[w] \in WorkerRecord /\ Embeds(w) /\ Worker = {w}
    BY <1>1 DEF TypeOK
  <2>2. worker[w].pc # "idle" => c \in Chunk /\ chunkStatus[c] # "none"
    BY <2>1
  <2> USE DEF GoTo, Rest, IdleWorker, WorkerRecord, tables, TypeOK
  <2>3. CASE SelectNext(w)
    <3>1. PICK j \in Job : /\ Queued(j)
                           /\ worker' = [worker EXCEPT ![w] = [pc |-> "claim", job |-> j,
                                                               chunk |-> jobs[j].chunk]]
      BY <2>3 DEF SelectNext
    <3>2. jobs[j].chunk \in Chunk /\ chunkStatus[jobs[j].chunk] # "none"
      BY <1>1, <3>1 DEF NoOrphanRows, JobRow, JobLife, Queued, ChunkRow, ChunkLife
    <3> QED
      BY <1>1, <2>1, <2>3, <3>1, <3>2 DEF SelectNext
  <2>4. CASE ClaimJob(w)
    <3>1. /\ chunkStatus'[c] # "ready" /\ chunkStatus'[c] # "none" /\ c \in Chunk
          /\ \A b \in Chunk \ {c} : chunkStatus'[b] = chunkStatus[b]
          /\ UNCHANGED embeddings
          /\ worker'[w].pc = "reload" /\ worker'[w].chunk = c
      BY <1>1, <2>1, <2>4 DEF ClaimJob, ChunkRow, ChunkLife
    <3> QED
      BY <2>1, <3>1
  <2>5. CASE ReloadJob(w)
    BY <1>1, <2>1, <2>5 DEF ReloadJob, ChunkRow
  <2>6. CASE LoadChunk(w)
    BY <1>1, <2>1, <2>6 DEF LoadChunk, ChunkRow
  <2>7. CASE DeleteEmbeddings(w)
    <3>1. /\ c \in Chunk /\ embeddings'[c] = 0 /\ UNCHANGED chunkStatus
          /\ \A b \in Chunk \ {c} : embeddings'[b] = embeddings[b]
          /\ worker'[w].pc = "create" /\ worker'[w].chunk = c
          /\ chunkStatus[c] \notin {"ready", "none"}
      BY <1>1, <2>1, <2>7 DEF DeleteEmbeddings
    <3> QED
      BY <2>1, <3>1
  <2>8. CASE CreateEmbedding(w)
    <3>1. /\ c \in Chunk /\ UNCHANGED chunkStatus
          /\ \A b \in Chunk \ {c} : embeddings'[b] = embeddings[b]
          /\ worker'[w].pc \in {"ready", "fail"} /\ worker'[w].chunk = c
          /\ worker'[w].pc = "ready" => embeddings'[c] = 1
          /\ chunkStatus[c] \notin {"ready", "none"}
      BY <1>1, <2>1, <2>8 DEF CreateEmbedding
    <3> QED
      BY <2>1, <3>1 DEF ChunkRow
  <2>9. CASE MarkChunkReady(w)
    <3>1. /\ c \in Chunk /\ UNCHANGED embeddings
          /\ \A b \in Chunk \ {c} : chunkStatus'[b] = chunkStatus[b]
          /\ worker'[w].pc \in {"complete", "fail"} /\ worker'[w].chunk = c
          /\ chunkStatus'[c] = "ready" => embeddings[c] = 1
          /\ chunkStatus'[c] # "none"
      BY <1>1, <2>1, <2>9 DEF MarkChunkReady, ChunkRow, ChunkLife
    <3> QED
      BY <2>1, <3>1
  <2>10. CASE CompleteJob(w)
    BY <1>1, <2>1, <2>10 DEF CompleteJob, ChunkRow
  <2>11. CASE FailJob(w)
    <3>1. /\ UNCHANGED embeddings /\ worker'[w].pc = "idle"
          /\ \A b \in Chunk : chunkStatus'[b] = chunkStatus[b] \/ chunkStatus'[b] = "failed"
      BY <1>1, <2>1, <2>11 DEF FailJob
    <3> QED
      BY <2>1, <3>1
  <2>12. CASE StepRaises(w) \/ Crash(w)
    BY <1>1, <2>1, <2>12 DEF StepRaises, Crash, ChunkRow
  <2> QED
    BY <1>5, <2>3, <2>4, <2>5, <2>6, <2>7, <2>8, <2>9, <2>10, <2>11, <2>12 DEF WorkerStep
<1>6. CASE UNCHANGED vars
  BY <1>6 DEF vars, ChunkRow
<1> QED
  BY <1>2, <1>3, <1>4, <1>5, <1>6 DEF QueueNext

(* Each passage once *)

LEMMA EachOnceStep ==
  TypeOK /\ EachPassageOnce /\ [IngestNext]_ingestVars => EachPassageOnce'
<1> SUFFICES ASSUME TypeOK, EachPassageOnce, [IngestNext]_ingestVars PROVE EachPassageOnce'
  OBVIOUS
<1>1. ASSUME NEW r \in Run, ReplaceRunChunks(r) PROVE EachPassageOnce'
  <2>1. PICK fresh \in SUBSET Chunk :
          /\ FreshChunks(fresh, ChunksIn[run[r].body])
          /\ ReplaceChunks(run[r].doc, fresh)
          /\ cutFrom' = [c \in Chunk |-> IF c \in fresh THEN run[r].body ELSE cutFrom[c]]
    BY <1>1 DEF ReplaceRunChunks
  <2>2. \A c \in fresh : ChunkRow(c)' /\ chunkDoc'[c] = run[r].doc /\ cutFrom'[c] = run[r].body
    BY <2>1 DEF ReplaceChunks, ChunkRow, ChunkLife
  <2>3. \A c \in Chunk \ fresh : ChunkRow(c)' =>
          /\ ChunkRow(c) /\ chunkDoc[c] # run[r].doc
          /\ chunkDoc'[c] = chunkDoc[c] /\ cutFrom'[c] = cutFrom[c]
    BY <2>1 DEF ReplaceChunks, ChunkRow, ChunksOf, ChunkLife
  <2>4. \A c \in Chunk : ChunkRow(c) /\ chunkDoc[c] # run[r].doc
                           => c \notin fresh /\ ChunkRow(c)' /\ chunkDoc'[c] = chunkDoc[c]
    BY <2>1 DEF ReplaceChunks, FreshChunks, ChunkRow, ChunksOf, ChunkLife
  <2>5. PICK doc : doc = run[r].doc
    OBVIOUS
  <2>6. ASSUME NEW c \in fresh
        PROVE  Cardinality(ChunksOf(chunkDoc[c])') = ChunksIn[cutFrom'[c]]
    <3>1. {b \in Chunk : ChunkRow(b)' /\ chunkDoc'[b] = chunkDoc'[c]} = fresh
      BY <2>2, <2>3
    <3> QED
      BY <2>1, <2>2, <3>1 DEF FreshChunks, ChunksOf
  <2>7. ASSUME NEW c \in Chunk \ fresh, ChunkRow(c)'
        PROVE  Cardinality(ChunksOf(chunkDoc[c])') = ChunksIn[cutFrom'[c]]
    <3>1. ChunkRow(c) /\ chunkDoc[c] # doc /\ chunkDoc'[c] = chunkDoc[c] /\ cutFrom'[c] = cutFrom[c]
      BY <2>3, <2>5, <2>7
    <3>2. {b \in Chunk : ChunkRow(b)' /\ chunkDoc'[b] = chunkDoc'[c]}
            = {b \in Chunk : ChunkRow(b) /\ chunkDoc[b] = chunkDoc[c]}
      BY <2>2, <2>3, <2>4, <2>5, <3>1
    <3>3. Cardinality({b \in Chunk : ChunkRow(b) /\ chunkDoc[b] = chunkDoc[c]}) = ChunksIn[cutFrom[c]]
      BY <3>1 DEF EachPassageOnce, ChunksOf
    <3> QED
      BY <3>1, <3>2, <3>3 DEF ChunksOf
  <2> QED
    BY <2>6, <2>7 DEF EachPassageOnce
<1>2. CASE \A r \in Run : ~ReplaceRunChunks(r)
  <2>1. UNCHANGED <<chunkDoc, cutFrom>> /\ \A c \in Chunk : ChunkRow(c)' <=> ChunkRow(c)
    BY <1>2, ChunksStay
  <2>2. \A c \in Chunk : ChunksOf(chunkDoc[c])' = ChunksOf(chunkDoc[c])
    BY <2>1 DEF ChunksOf
  <2> QED
    BY <2>1, <2>2 DEF EachPassageOnce
<1> QED
  BY <1>1, <1>2

---------------------------------------------------------------------------
(* One document *)

Underway(r) == run[r].pc \notin {"waiting", "done", "raised"}

(* A document row a run or a chunk refers to is there; and unless two first *)
(* refreshes overlapped there is at most one: while there is none a single  *)
(* refresh is under way, and once there is one nobody is about to insert.   *)
OneDocument ==
  /\ \A r \in Run : run[r].doc # Nil => DocRow(run[r].doc)
  /\ \A r \in Run : run[r].pc = "waiting" => ~run[r].rival
  /\ \A c \in Chunk : ChunkRow(c) => DocRow(chunkDoc[c])
  /\ ~FirstRefreshesOverlapped =>
       /\ \A d, e \in Doc : DocRow(d) /\ DocRow(e) => d = e
       /\ (\A d \in Doc : ~DocRow(d)) => \A q, r \in Run : Underway(q) /\ Underway(r) => q = r
       /\ (\E d \in Doc : DocRow(d)) => \A r \in Run : run[r].pc = "upsertDoc" => run[r].doc # Nil

LEMMA OneDocumentStart == IngestInit => OneDocument
BY DEF IngestInit, Init, OneDocument, DocRow, NoDocRow, NewRun, Underway, FirstRefreshesOverlapped,
   ChunkRow, ChunkLife

(* What a step of a run does that neither starts it nor inserts a document. *)
LEMMA RunGoesOn ==
  ASSUME IngestTyped, OneDocument, NEW r \in Run, Underway(r),
         \A q \in Run : q # r => run'[q] = run[q],
         run'[r].rival = run[r].rival, run'[r].pc # "waiting",
         \A d : DocRow(d)' <=> DocRow(d),
         (run[r].doc # Nil => DocRow(run[r].doc))',
         (run[r].pc = "upsertDoc" => run[r].doc # Nil \/ \A d \in Doc : ~DocRow(d))',
         \A c \in Chunk : (ChunkRow(c) => DocRow(chunkDoc[c]))'
  PROVE  OneDocument'
<1>1. ASSUME NEW q \in Run
      PROVE  (run[q].doc # Nil => DocRow(run[q].doc))'
  <2>1. CASE q = r
    BY <2>1
  <2>2. CASE q # r
    <3>1. PICK d : d = run[q].doc
      OBVIOUS
    <3>2. run'[q].doc = d /\ (d # Nil => DocRow(d))
      BY <2>2, <3>1 DEF OneDocument
    <3> QED
      BY <3>2
  <2> QED
    BY <2>1, <2>2
<1>2. \A q \in Run : run'[q].pc = "waiting" => ~run'[q].rival
  BY DEF OneDocument
<1>3. FirstRefreshesOverlapped' <=> FirstRefreshesOverlapped
  BY DEF FirstRefreshesOverlapped
<1>4. \A q \in Run : Underway(q)' => Underway(q)
  BY DEF Underway
<1>5. ASSUME ~FirstRefreshesOverlapped, \E d \in Doc : DocRow(d)
      PROVE  \A q \in Run : run'[q].pc = "upsertDoc" => run'[q].doc # Nil
  BY <1>5 DEF OneDocument
<1>6. ASSUME ~FirstRefreshesOverlapped
      PROVE  /\ \A d, e \in Doc : DocRow(d)' /\ DocRow(e)' => d = e
             /\ (\A d \in Doc : ~DocRow(d)') => \A q, p \in Run : Underway(q)' /\ Underway(p)' => q = p
  BY <1>4, <1>6 DEF OneDocument
<1> QED
  BY <1>1, <1>2, <1>3, <1>5, <1>6 DEF OneDocument

(* An update of a document row leaves it a row, and makes none.             *)
LEMMA LifecycleKeepsRows ==
  ASSUME IngestTyped, OneDocument, NEW r \in Run, NEW status \in {"ready", "failed"},
         Lifecycle(r, status, run[r].version)
  PROVE  \A d : DocRow(d)' <=> DocRow(d)
<1>1. run[r].doc # Nil => DocRow(run[r].doc)
  BY DEF OneDocument
<1>2. CASE run[r].doc = Nil
  BY <1>2, NilAssumption DEF Lifecycle, DocRow, IngestTyped
<1>3. CASE run[r].doc # Nil
  <2>1. PICK e \in Doc : e = run[r].doc /\ DocRow(e)
    BY <1>1, <1>3 DEF DocRow
  <2>2. docs'[e].status = status /\ \A d \in Doc : d # e => docs'[d] = docs[d]
    BY <2>1 DEF Lifecycle, IngestTyped, DocRecord
  <2> QED
    BY <2>1, <2>2 DEF DocRow
<1> QED
  BY <1>2, <1>3

LEMMA RunKeepsOneDocument ==
  ASSUME TypeOK, IngestTyped, OneDocument, [IngestNext]_ingestVars, NEW r \in Run, RunStep(r)
  PROVE  OneDocument'
<1> USE DEF At
<1>1. Underway(r) /\ run[r] \in RunRecord
  BY DEF RunStep, BuildDocument, FindSource, InsertSource, UpdateSource, FindDocument, FailSource,
     FailDocument, NoopDocument, NoopSource, FindAgain, UpsertDocument, ReplaceRunChunks,
     ListChunks, ReadyDocument, ReadySource, EnqueueChunks, RecoverSource, RecoverDocument,
     Underway, IngestTyped
<1>2. \A q \in Run : q # r => run'[q] = run[q]
  BY DEF RunStep, BuildDocument, FindSource, InsertSource, UpdateSource, FindDocument, FailSource,
     FailDocument, NoopDocument, NoopSource, FindAgain, UpsertDocument, ReplaceRunChunks,
     ListChunks, ReadyDocument, ReadySource, EnqueueChunks, RecoverSource, RecoverDocument,
     IngestTyped, Go
<1>3. run[r].doc # Nil => DocRow(run[r].doc)
  BY DEF OneDocument
<1>4. \A c \in Chunk : ChunkRow(c) => DocRow(chunkDoc[c])
  BY DEF OneDocument
<1>5. ASSUME ~ReplaceRunChunks(r), \A d : DocRow(d) => DocRow(d)'
      PROVE  \A c \in Chunk : (ChunkRow(c) => DocRow(chunkDoc[c]))'
  <2>1. \A q \in Run : ~ReplaceRunChunks(q)
    BY <1>2, <1>5 DEF ReplaceRunChunks, Go, IngestTyped, RunRecord
  <2>2. UNCHANGED chunkDoc /\ \A c \in Chunk : ChunkRow(c)' <=> ChunkRow(c)
    BY <2>1, ChunksStay
  <2>3. ASSUME NEW c \in Chunk PROVE (ChunkRow(c) => DocRow(chunkDoc[c]))'
    <3>1. PICK d : d = chunkDoc[c]
      OBVIOUS
    <3> QED
      BY <1>4, <1>5, <2>2, <3>1
  <2> QED
    BY <2>3
<1>6. ASSUME NEW pc \in RunPC \ {"waiting", "upsertDoc"}, Go(r, pc), ~ReplaceRunChunks(r),
             \A d : DocRow(d)' <=> DocRow(d)
      PROVE  OneDocument'
  <2>1. /\ run'[r].rival = run[r].rival /\ run'[r].doc = run[r].doc
        /\ run'[r].pc # "waiting" /\ run'[r].pc # "upsertDoc"
    BY <1>1, <1>6 DEF Go, IngestTyped, RunRecord
  <2>2. PICK d : d = run[r].doc
    OBVIOUS
  <2>3. (run[r].doc # Nil => DocRow(run[r].doc))'
    BY <1>3, <1>6, <2>1, <2>2
  <2> QED
    BY <1>1, <1>2, <1>5, <1>6, <2>1, <2>3, RunGoesOn
<1>7. ASSUME UNCHANGED docs PROVE \A d : DocRow(d)' <=> DocRow(d)
  BY <1>7 DEF DocRow
<1>8. CASE FindSource(r) \/ InsertSource(r) \/ UpdateSource(r)
           \/ FailSource(r) \/ NoopSource(r) \/ ReadySource(r) \/ RecoverSource(r)
           \/ EnqueueChunks(r)
  <2>1. PICK pc \in RunPC \ {"waiting", "upsertDoc"} : Go(r, pc)
    BY <1>8 DEF FindSource, InsertSource, UpdateSource, FailSource, NoopSource, ReadySource,
       RecoverSource, EnqueueChunks, RunPC
  <2>2. ~ReplaceRunChunks(r) /\ UNCHANGED docs
    BY <1>8 DEF FindSource, InsertSource, UpdateSource, FailSource, NoopSource, ReadySource,
       RecoverSource, EnqueueChunks, ReplaceRunChunks
  <2> QED
    BY <1>6, <1>7, <2>1, <2>2
<1>9. CASE FailDocument(r) \/ NoopDocument(r) \/ ReadyDocument(r) \/ RecoverDocument(r)
  <2>1. PICK pc \in RunPC \ {"waiting", "upsertDoc"} : Go(r, pc)
    BY <1>9 DEF FailDocument, NoopDocument, ReadyDocument, RecoverDocument, RunPC
  <2>2. ~ReplaceRunChunks(r)
    BY <1>9 DEF FailDocument, NoopDocument, ReadyDocument, RecoverDocument, ReplaceRunChunks
  <2>3. \A d : DocRow(d)' <=> DocRow(d)
    BY <1>9, LifecycleKeepsRows DEF FailDocument, NoopDocument, ReadyDocument, RecoverDocument
  <2> QED
    BY <1>6, <2>1, <2>2, <2>3
<1>10. ASSUME NEW d, d = Nil \/ DocRow(d), NEW pc \in RunPC \ {"waiting"},
              run'[r].rival = run[r].rival, run'[r].doc = d, run'[r].pc = pc,
              pc = "upsertDoc" => d # Nil \/ \A e \in Doc : ~DocRow(e),
              UNCHANGED docs, ~ReplaceRunChunks(r)
       PROVE  OneDocument'
  <2>1. \A e : DocRow(e)' <=> DocRow(e)
    BY <1>7, <1>10
  <2>2. (run[r].doc # Nil => DocRow(run[r].doc))'
    BY <1>10, <2>1
  <2>3. (run[r].pc = "upsertDoc" => run[r].doc # Nil \/ \A e \in Doc : ~DocRow(e))'
    BY <1>10, <2>1
  <2> QED
    BY <1>1, <1>2, <1>5, <1>10, <2>1, <2>2, <2>3, RunGoesOn
<1>11. CASE BuildDocument(r) \/ ListChunks(r)
  <2>1. /\ run'[r].rival = run[r].rival /\ run'[r].doc = run[r].doc
        /\ run'[r].pc \in {"findSource", "readyDoc"}
    BY <1>1, <1>11 DEF BuildDocument, ListChunks, IngestTyped, RunRecord
  <2>2. UNCHANGED docs /\ ~ReplaceRunChunks(r)
    BY <1>11 DEF BuildDocument, ListChunks, ReplaceRunChunks
  <2>3. PICK d : d = run[r].doc
    OBVIOUS
  <2>4. PICK pc : pc = run'[r].pc
    OBVIOUS
  <2>5. pc \in RunPC \ {"waiting"} /\ pc # "upsertDoc"
    BY <2>1, <2>4 DEF RunPC
  <2> QED
    BY <1>3, <1>10, <2>1, <2>2, <2>3, <2>4, <2>5
<1>12. CASE FindDocument(r)
  <2> DEFINE seen(d, sum, version) ==
        [run[r] EXCEPT !.doc = d, !.version = version, !.pc =
          IF run[r].body = Empty THEN "failSource"
          ELSE IF sum = run[r].body THEN "noopDoc"
          ELSE "findAgain"]
  <2>1. \/ \E d \in Doc : /\ Latest(d)
                          /\ run' = [run EXCEPT ![r] = seen(d, docs[d].checksum, docs[d].version)]
        \/ run' = [run EXCEPT ![r] = seen(Nil, Nil, 0)]
    BY <1>12 DEF FindDocument, IngestTyped
  <2>2. \A d, sum, version :
          /\ seen(d, sum, version).rival = run[r].rival /\ seen(d, sum, version).doc = d
          /\ seen(d, sum, version).pc \in {"failSource", "noopDoc", "findAgain"}
    BY <1>1 DEF RunRecord
  <2> HIDE DEF seen
  <2>3. PICK d, sum, version :
          /\ d = Nil \/ DocRow(d)
          /\ run' = [run EXCEPT ![r] = seen(d, sum, version)]
    BY <2>1 DEF Latest
  <2>4. /\ seen(d, sum, version).rival = run[r].rival /\ seen(d, sum, version).doc = d
        /\ seen(d, sum, version).pc \in {"failSource", "noopDoc", "findAgain"}
    BY <2>2
  <2>5. /\ run'[r].rival = run[r].rival /\ run'[r].doc = d
        /\ run'[r].pc \in {"failSource", "noopDoc", "findAgain"}
    BY <2>3, <2>4 DEF IngestTyped
  <2>6. UNCHANGED docs /\ ~ReplaceRunChunks(r)
    BY <1>12 DEF FindDocument, ReplaceRunChunks
  <2>7. PICK pc : pc = run'[r].pc
    OBVIOUS
  <2>8. pc \in RunPC \ {"waiting"} /\ pc # "upsertDoc"
    BY <2>5, <2>7 DEF RunPC
  <2> QED
    BY <1>10, <2>3, <2>5, <2>6, <2>7, <2>8
<1>13. CASE FindAgain(r)
  <2>1. \/ \E d \in Doc : DocRow(d) /\ run' = [run EXCEPT ![r].doc = d, ![r].pc = "upsertDoc"]
        \/ (\A d \in Doc : ~DocRow(d)) /\ run' = [run EXCEPT ![r].doc = Nil, ![r].pc = "upsertDoc"]
    BY <1>13 DEF FindAgain, Latest
  <2>2. PICK d \in Doc \cup {Nil} :
          /\ d = Nil \/ DocRow(d)
          /\ d # Nil \/ \A e \in Doc : ~DocRow(e)
          /\ run' = [run EXCEPT ![r].doc = d, ![r].pc = "upsertDoc"]
    <3>1. CASE \E d \in Doc : DocRow(d) /\ run' = [run EXCEPT ![r].doc = d, ![r].pc = "upsertDoc"]
      BY <3>1, NilAssumption
    <3>2. CASE /\ \A d \in Doc : ~DocRow(d)
               /\ run' = [run EXCEPT ![r].doc = Nil, ![r].pc = "upsertDoc"]
      BY <3>2
    <3> QED
      BY <2>1, <3>1, <3>2
  <2>3. run'[r].rival = run[r].rival /\ run'[r].doc = d /\ run'[r].pc = "upsertDoc"
    BY <1>1, <2>2 DEF IngestTyped, RunRecord
  <2>4. UNCHANGED docs /\ ~ReplaceRunChunks(r) /\ "upsertDoc" \in RunPC \ {"waiting"}
    BY <1>13 DEF FindAgain, ReplaceRunChunks, RunPC
  <2> QED
    BY <1>10, <2>2, <2>3, <2>4
<1>14. CASE ReplaceRunChunks(r)
  <2>1. PICK fresh \in SUBSET Chunk : ReplaceChunks(run[r].doc, fresh)
    BY <1>14 DEF ReplaceRunChunks
  <2>2. PICK d \in Doc : d = run[r].doc /\ DocRow(d)
    BY <1>3, <1>14, NilAssumption DEF ReplaceRunChunks, IngestTyped
  <2>3. UNCHANGED docs /\ Go(r, "list")
    BY <1>14 DEF ReplaceRunChunks
  <2>4. \A e : DocRow(e)' <=> DocRow(e)
    BY <1>7, <2>3
  <2>5. /\ run'[r].rival = run[r].rival /\ run'[r].doc = d /\ run'[r].pc = "list"
    BY <1>1, <2>2, <2>3 DEF Go, IngestTyped, RunRecord
  <2>6. \A c \in Chunk : ChunkRow(c)' => \/ chunkDoc'[c] = d
                                         \/ ChunkRow(c) /\ chunkDoc'[c] = chunkDoc[c]
    BY <2>1, <2>2 DEF ReplaceChunks, ChunkRow, ChunkLife
  <2>7. ASSUME NEW c \in Chunk PROVE (ChunkRow(c) => DocRow(chunkDoc[c]))'
    <3>1. PICK e : e = chunkDoc'[c]
      OBVIOUS
    <3>2. ChunkRow(c)' => DocRow(e)
      BY <1>4, <2>2, <2>6, <3>1
    <3> QED
      BY <2>4, <3>1, <3>2
  <2>8. (run[r].doc # Nil => DocRow(run[r].doc))'
    BY <2>2, <2>4, <2>5
  <2> QED
    BY <1>1, <1>2, <2>4, <2>5, <2>7, <2>8, RunGoesOn
<1>15. CASE UpsertDocument(r)
  <2>10. PICK d \in Doc :
          /\ \E row : row.status = "pending" /\ docs' = [docs EXCEPT ![d] = row]
          /\ run' = [run EXCEPT ![r].doc = d, ![r].version = run[r].version + 1, ![r].pc = "replace"]
          /\ run[r].doc # Nil => d = run[r].doc
    BY <1>15 DEF UpsertDocument
  <2>11. PICK row : row.status = "pending" /\ docs' = [docs EXCEPT ![d] = row]
    BY <2>10
  <2>1. /\ row.status = "pending"
        /\ docs' = [docs EXCEPT ![d] = row]
        /\ run' = [run EXCEPT ![r].doc = d, ![r].version = run[r].version + 1, ![r].pc = "replace"]
        /\ run[r].doc # Nil => d = run[r].doc
    BY <2>10, <2>11
  <2>2. /\ run'[r].rival = run[r].rival /\ run'[r].doc = d /\ run'[r].pc = "replace"
    BY <1>1, <2>1 DEF IngestTyped, RunRecord
  <2>3. DocRow(d)' /\ \A e : e # d => (DocRow(e)' <=> DocRow(e))
    BY <2>1 DEF DocRow, IngestTyped
  <2>4. \A e : DocRow(e) => DocRow(e)'
    BY <2>3
  <2>5. ~ReplaceRunChunks(r)
    BY <1>15 DEF UpsertDocument, ReplaceRunChunks
  <2>6. \A c \in Chunk : (ChunkRow(c) => DocRow(chunkDoc[c]))'
    BY <1>5, <2>4, <2>5
  <2>7. CASE run[r].doc # Nil
    <3>1. \A e : DocRow(e)' <=> DocRow(e)
      BY <1>3, <2>1, <2>3, <2>7
    <3>2. (run[r].doc # Nil => DocRow(run[r].doc))'
      BY <2>2, <2>3
    <3> QED
      BY <1>1, <1>2, <2>2, <2>6, <3>1, <3>2, RunGoesOn
  <2>8. CASE run[r].doc = Nil
    <3>1. ASSUME NEW q \in Run
          PROVE  (run[q].doc # Nil => DocRow(run[q].doc))'
      <4>1. CASE q = r
        BY <2>2, <2>3, <4>1
      <4>2. CASE q # r
        <5>1. PICK e : e = run[q].doc
          OBVIOUS
        <5>2. run'[q].doc = e /\ (e # Nil => DocRow(e))
          BY <1>2, <4>2, <5>1 DEF OneDocument
        <5> QED
          BY <2>4, <5>2
      <4> QED
        BY <4>1, <4>2
    <3>2. \A q \in Run : run'[q].pc = "waiting" => ~run'[q].rival
      BY <1>2, <2>2 DEF OneDocument
    <3>3. FirstRefreshesOverlapped' <=> FirstRefreshesOverlapped
      BY <1>2, <2>2 DEF FirstRefreshesOverlapped
    <3>4. ASSUME ~FirstRefreshesOverlapped
          PROVE  /\ \A e, f \in Doc : DocRow(e)' /\ DocRow(f)' => e = f
                 /\ \A q \in Run : run'[q].pc # "upsertDoc"
      <4>1. At(r, "upsertDoc")
        BY <1>15 DEF UpsertDocument
      <4>2. \A e \in Doc : ~DocRow(e)
        BY <2>8, <3>4, <4>1 DEF OneDocument
      <4>3. \A q \in Run : Underway(q) => q = r
        BY <1>1, <3>4, <4>2 DEF OneDocument
      <4>4. \A q \in Run : run'[q].pc # "upsertDoc"
        BY <1>2, <2>2, <4>3 DEF Underway
      <4>5. \A e \in Doc : DocRow(e)' => e = d
        BY <2>3, <4>2
      <4> QED
        BY <4>4, <4>5
    <3> QED
      BY <2>3, <2>6, <3>1, <3>2, <3>3, <3>4 DEF OneDocument
  <2> QED
    BY <2>7, <2>8
<1> QED
  BY <1>8, <1>9, <1>11, <1>12, <1>13, <1>14, <1>15 DEF RunStep

LEMMA OneDocumentStep ==
  TypeOK /\ IngestTyped /\ OneDocument /\ [IngestNext]_ingestVars => OneDocument'
<1> SUFFICES ASSUME TypeOK, IngestTyped, OneDocument, [IngestNext]_ingestVars PROVE OneDocument'
  OBVIOUS
<1>1. ASSUME NEW r \in Run, RunStep(r) PROVE OneDocument'
  BY <1>1, RunKeepsOneDocument
<1>2. ASSUME UNCHANGED docs, \A q \in Run : ~ReplaceRunChunks(q)
      PROVE  /\ \A d : DocRow(d)' <=> DocRow(d)
             /\ \A c \in Chunk : (ChunkRow(c) => DocRow(chunkDoc[c]))'
  <2>1. \A d : DocRow(d)' <=> DocRow(d)
    BY <1>2 DEF DocRow
  <2>2. UNCHANGED chunkDoc /\ \A c \in Chunk : ChunkRow(c)' <=> ChunkRow(c)
    BY <1>2, ChunksStay
  <2>3. ASSUME NEW c \in Chunk PROVE (ChunkRow(c) => DocRow(chunkDoc[c]))'
    <3>1. PICK d : d = chunkDoc[c]
      OBVIOUS
    <3> QED
      BY <2>1, <2>2, <3>1 DEF OneDocument
  <2> QED
    BY <2>1, <2>3
<1>3. ASSUME NEW r \in Run, SaveText(r) PROVE OneDocument'
  <2>1. UNCHANGED docs /\ \A q \in Run : ~ReplaceRunChunks(q)
    <3>1. \A q \in Run : q # r => run'[q] = run[q]
      BY <1>3 DEF SaveText, IngestTyped
    <3> QED
      BY <1>3, <3>1 DEF SaveText, ReplaceRunChunks, Go, At, IngestTyped, RunRecord
  <2>2. /\ \A d : DocRow(d)' <=> DocRow(d)
        /\ \A c \in Chunk : (ChunkRow(c) => DocRow(chunkDoc[c]))'
    BY <1>2, <2>1
  <2>3. /\ \A q \in Run : q # r => run'[q] = run[q]
        /\ run'[r].pc = "build" /\ run'[r].doc = run[r].doc
        /\ run'[r].rival <=> (InFlight # {} /\ \A d \in Doc : ~DocRow(d))
        /\ ~run[r].rival
    BY <1>3 DEF SaveText, At, IngestTyped, RunRecord, OneDocument
  <2>4. ASSUME NEW q \in Run PROVE (run[q].doc # Nil => DocRow(run[q].doc))'
    <3>1. PICK d : d = run[q].doc
      OBVIOUS
    <3>2. run'[q].doc = d /\ (d # Nil => DocRow(d))
      BY <2>3, <3>1 DEF OneDocument
    <3> QED
      BY <2>2, <3>2
  <2>5. \A q \in Run : run'[q].pc = "waiting" => ~run'[q].rival
    BY <2>3 DEF OneDocument
  <2>6. FirstRefreshesOverlapped => FirstRefreshesOverlapped'
    BY <2>3 DEF FirstRefreshesOverlapped
  <2>7. ASSUME ~FirstRefreshesOverlapped'
        PROVE  /\ \A d, e \in Doc : DocRow(d)' /\ DocRow(e)' => d = e
               /\ (\A d \in Doc : ~DocRow(d)') => \A q, p \in Run : Underway(q)' /\ Underway(p)' => q = p
               /\ (\E d \in Doc : DocRow(d)') => \A q \in Run : run'[q].pc = "upsertDoc" => run'[q].doc # Nil
    <3>1. ~FirstRefreshesOverlapped
      BY <2>6, <2>7
    <3>2. ASSUME \A d \in Doc : ~DocRow(d), NEW q \in Run, Underway(q)' PROVE q = r
      <4>1. InFlight = {}
        BY <2>3, <2>7, <3>2 DEF FirstRefreshesOverlapped
      <4> QED
        BY <2>3, <3>2, <4>1 DEF InFlight, Underway
    <3>3. \A q \in Run : run'[q].pc = "upsertDoc" => run[q].pc = "upsertDoc" /\ run'[q].doc = run[q].doc
      BY <2>3
    <3> QED
      BY <2>2, <3>1, <3>2, <3>3 DEF OneDocument
  <2> QED
    BY <2>2, <2>4, <2>5, <2>7 DEF OneDocument
<1>4. ASSUME NEW r \in Run, RunRaises(r) \/ RunDies(r) PROVE OneDocument'
  <2>1. PICK pc \in RunPC \ {"waiting", "upsertDoc"} : Go(r, pc)
    BY <1>4 DEF RunRaises, RunDies, RunPC
  <2>2. Underway(r)
    BY <1>4 DEF RunRaises, RunDies, Underway
  <2>3. /\ \A q \in Run : q # r => run'[q] = run[q]
        /\ run'[r].rival = run[r].rival /\ run'[r].doc = run[r].doc
        /\ run'[r].pc # "waiting" /\ run'[r].pc # "upsertDoc"
    BY <2>1 DEF Go, IngestTyped, RunRecord
  <2>4. UNCHANGED docs /\ \A q \in Run : ~ReplaceRunChunks(q)
    <3>1. UNCHANGED <<docs, vars>>
      BY <1>4 DEF RunRaises, RunDies
    <3>2. r \in Run /\ run'[r].pc # "list"
      BY <1>4 DEF RunRaises, RunDies, Go, IngestTyped, RunRecord
    <3> QED
      BY <2>3, <3>1, <3>2 DEF ReplaceRunChunks, Go, IngestTyped, RunRecord, At
  <2>5. /\ \A d : DocRow(d)' <=> DocRow(d)
        /\ \A c \in Chunk : (ChunkRow(c) => DocRow(chunkDoc[c]))'
    BY <1>2, <2>4
  <2>6. PICK d : d = run[r].doc
    OBVIOUS
  <2>7. (run[r].doc # Nil => DocRow(run[r].doc))'
    BY <2>3, <2>5, <2>6 DEF OneDocument
  <2> QED
    BY <2>2, <2>3, <2>5, <2>7, RunGoesOn
<1>5. CASE QueueStep \/ QueueFails \/ UNCHANGED ingestVars
  <2>1. UNCHANGED <<docs, run>>
    BY <1>5 DEF QueueStep, QueueFails, ingest, ingestVars
  <2>2. \A q \in Run : ~ReplaceRunChunks(q)
    BY <2>1 DEF ReplaceRunChunks, Go, At, IngestTyped, RunRecord
  <2>3. /\ \A d : DocRow(d)' <=> DocRow(d)
        /\ \A c \in Chunk : (ChunkRow(c) => DocRow(chunkDoc[c]))'
    BY <1>2, <2>1, <2>2
  <2>4. \A q \in Run : (Underway(q)' <=> Underway(q))
    BY <2>1 DEF Underway
  <2>5. FirstRefreshesOverlapped' <=> FirstRefreshesOverlapped
    BY <2>1 DEF FirstRefreshesOverlapped
  <2>6. ASSUME NEW q \in Run PROVE (run[q].doc # Nil => DocRow(run[q].doc))'
    <3>1. PICK d : d = run[q].doc
      OBVIOUS
    <3> QED
      BY <2>1, <2>3, <3>1 DEF OneDocument
  <2> QED
    BY <2>1, <2>3, <2>4, <2>5, <2>6 DEF OneDocument
<1> QED
  BY <1>1, <1>3, <1>4, <1>5 DEF IngestNext

(* With one worker, whatever refreshes overlap, raise or die, the chunks of *)
(* a document are the passages of one text, each once, and a chunk a search *)
(* finds has one vector; and unless two first refreshes overlapped a search *)
(* answers with chunks of one document.  (Two workers may claim the same    *)
(* job and leave a ready chunk with two vectors.)                           *)
THEOREM SearchTheorem ==
  ASSUME \A v, w \in Worker : v = w
  PROVE  IngestSpec => []SearchFindsOneText
<1>1. IngestInit => VectorInv
  BY VectorStart DEF IngestInit
<1>2. QueueInv /\ IngestTyped /\ VectorInv /\ [IngestNext]_ingestVars => VectorInv'
  BY IngestIsQueue, VectorStep
<1>3. IngestInit => EachPassageOnce
  BY DEF IngestInit, Init, EachPassageOnce, ChunkRow, ChunkLife
<1>4. QueueInv => TypeOK
  BY DEF QueueInv
<1>5. ASSUME OneDocument
      PROVE  ~FirstRefreshesOverlapped => \A b, c \in Served : chunkDoc[b] = chunkDoc[c]
  <2>1. \A c \in Served : DocRow(chunkDoc[c])
    BY <1>5 DEF Served, ChunkRow, ChunkLife, OneDocument
  <2> QED
    BY <1>5, <2>1 DEF OneDocument, DocRow
<1>6. ChunksOfOneText /\ EachPassageOnce /\ VectorInv /\ OneDocument => SearchFindsOneText
  BY <1>5 DEF VectorInv, SearchFindsOneText
<1> QED
  BY <1>1, <1>2, <1>3, <1>4, <1>6, OneTextTheorem, EachOnceStep, OneDocumentStart, OneDocumentStep,
     UnderIngestion, PTL DEF IngestSpec

---------------------------------------------------------------------------
(* Startup: an opening of the database, for every script that satisfies     *)
(* ScriptAssumption, every file it may meet and every number of openings.   *)

Known == (UNION {f.recorded : f \in Files}) \cup {Script[i].of : i \in Step}
Place == [pc : {"closed", "running", "open", "failed"}, at : Nat, missing : BOOLEAN,
          applied : SUBSET Known, raced : BOOLEAN]

StartupTyped == recorded \subseteq Known /\ bare \in BOOLEAN /\ opening \in [Opening -> Place]

(* A statement that was executed left what it is for; a backfill also had    *)
(* the column, which keeps it from being added again, empty.                 *)
Left(i) == InEffect(Script[i]) /\ (Script[i].kind = "backfill" => ApiJobId \in objects)

(* What opening o has behind it. *)
Behind(o) ==
  /\ o.pc \in {"running", "open"} => \A i \in Step : i < o.at => Left(i)
  /\ o.pc = "open" => o.at > Len(Script)
  /\ o.applied \subseteq recorded

WholeInv == StartupTyped /\ \A p \in Opening : Behind(opening[p])

(* What a step may do to the file: nothing is taken away, and api_job_id is  *)
(* empty only when it is new.                                                *)
Grows ==
  /\ objects \subseteq objects' /\ recorded \subseteq recorded'
  /\ bare' => bare \/ ApiJobId \notin objects

LEMMA LeftStays == ASSUME NEW i \in Step, Left(i), Grows PROVE Left(i)'
BY DEF Left, InEffect, Grows

(* The others stay where they are; p goes on, with the statement it executed *)
(* behind it.                                                                *)
LEMMA MoveOn ==
  ASSUME WholeInv, Grows, recorded' \subseteq Known, bare' \in BOOLEAN,
         NEW p \in Opening, NEW a, a \subseteq recorded',
         NEW k \in Step, Left(k)', opening[p].pc = "running", opening[p].at = k,
         Goto(p, k + 1, FALSE, a)
  PROVE  WholeInv'
<1> DEFINE o == [pc |-> "running", at |-> k + 1, missing |-> FALSE, applied |-> a,
                 raced |-> opening[p].raced]
<1>1. opening \in [Opening -> Place] /\ opening[p] \in Place /\ Behind(opening[p])
  BY DEF WholeInv, StartupTyped
<1>2. o \in Place /\ o.pc = "running" /\ o.at = k + 1 /\ o.applied = a
  BY <1>1 DEF Place
<1>3. opening' = [opening EXCEPT ![p] = o] BY DEF Goto
<1> HIDE DEF o
<1>4. opening' \in [Opening -> Place] /\ opening'[p] = o /\ \A q \in Opening \ {p} : opening'[q] = opening[q]
  BY <1>1, <1>2, <1>3
<1>5. \A i \in Step : Left(i) => Left(i)' BY LeftStays
<1>6. Behind(opening[p])'
  <2>1. \A i \in Step : i < o.at => i < opening[p].at \/ i = k
    BY <1>1, <1>2, ScriptAssumption DEF Step, Place
  <2>2. \A i \in Step : i < o.at => Left(i)' BY <1>1, <1>5, <2>1 DEF Behind
  <2> QED BY <2>2, <1>2, <1>4 DEF Behind
<1>7. ASSUME NEW q \in Opening \ {p} PROVE Behind(opening[q])'
  <2>1. Behind(opening[q]) BY DEF WholeInv
  <2> QED BY <2>1, <1>4, <1>5 DEF Behind, Grows
<1>8. \A q \in Opening : Behind(opening[q])' BY <1>6, <1>7
<1> QED BY <1>4, <1>8 DEF WholeInv, StartupTyped

(* A step of one opening that leaves the file alone and executes nothing.    *)
LEMMA StandStill ==
  ASSUME WholeInv, UNCHANGED file, opening' \in [Opening -> Place],
         \A q \in Opening :
           /\ opening'[q].applied \subseteq opening[q].applied
           /\ opening'[q].pc = "running" =>
                opening'[q].at = 1 \/ (opening[q].pc = "running" /\ opening'[q].at = opening[q].at)
           /\ opening'[q].pc = "open" => opening[q].pc = "open" /\ opening'[q].at = opening[q].at
  PROVE  WholeInv'
<1>1. \A i \in Step : Left(i)' <=> Left(i) BY DEF Left, InEffect, file
<1>2. ASSUME NEW q \in Opening PROVE Behind(opening[q])'
  <2>1. Behind(opening[q]) BY DEF WholeInv
  <2>2. \A i \in Step : ~(i < 1) BY ScriptAssumption DEF Step
  <2> QED BY <1>1, <2>1, <2>2 DEF Behind, file
<1> QED BY <1>2 DEF WholeInv, StartupTyped, file

LEMMA RaiseStep ==
  ASSUME WholeInv, NEW p \in Opening, Raise(p), UNCHANGED file
  PROVE  WholeInv'
<1>1. opening \in [Opening -> Place] BY DEF WholeInv, StartupTyped
<1>2. /\ opening' \in [Opening -> Place]
      /\ opening'[p].pc = "failed" /\ opening'[p].applied = opening[p].applied
      /\ \A q \in Opening \ {p} : opening'[q] = opening[q]
  BY <1>1 DEF Raise, Place
<1> QED BY <1>2, StandStill

LEMMA CloseStep ==
  ASSUME WholeInv, NEW p \in Opening, opening' = [opening EXCEPT ![p] = Closed], UNCHANGED file
  PROVE  WholeInv'
<1>1. opening \in [Opening -> Place] BY DEF WholeInv, StartupTyped
<1>2. /\ opening' \in [Opening -> Place]
      /\ opening'[p].pc = "closed" /\ opening'[p].applied = {}
      /\ \A q \in Opening \ {p} : opening'[q] = opening[q]
  BY <1>1 DEF Closed, Place
<1> QED BY <1>2, StandStill

LEMMA MadeBefore ==
  ASSUME WholeInv, NEW p \in Opening, Running(p), opening[p].at \in Step
  PROVE  Needs(opening[p].at) \subseteq objects
<1>1. Behind(opening[p]) BY DEF WholeInv
<1>2. \A j \in Step : j < opening[p].at => Makes(j) \subseteq objects
  BY <1>1 DEF Running, Behind, Left, InEffect, Makes
<1> QED BY <1>2, ScriptAssumption

THEOREM WholeStep == WholeInv /\ [StartupNext]_startupVars => WholeInv'
<1> SUFFICES ASSUME WholeInv, [StartupNext]_startupVars PROVE WholeInv' OBVIOUS
<1> USE DEF AtStatement, Running, Now
<1>a. opening \in [Opening -> Place] /\ recorded \subseteq Known /\ bare \in BOOLEAN
  BY DEF WholeInv, StartupTyped
<1>b. \A i \in Step : Script[i].always BY ScriptAssumption
<1>1. ASSUME NEW p \in Opening, BeginOpening(p) PROVE WholeInv'
  <2>1. opening' \in [Opening -> Place]
    BY <1>a, <1>1 DEF BeginOpening, Place, Closed
  <2>2. /\ opening'[p].pc = "running" /\ opening'[p].at = 1 /\ opening'[p].applied = {}
        /\ \A q \in Opening \ {p} : /\ opening'[q].pc = opening[q].pc /\ opening'[q].at = opening[q].at
                                     /\ opening'[q].applied = opening[q].applied
    BY <1>a, <1>1 DEF BeginOpening, Place, Closed
  <2>3. UNCHANGED file BY <1>1 DEF BeginOpening
  <2> QED BY <2>1, <2>2, <2>3, StandStill
<1>2. ASSUME NEW p \in Opening, CreateTable(p) PROVE WholeInv'
  <2>1. Grows /\ recorded' \subseteq Known /\ bare' \in BOOLEAN
    BY <1>a, <1>2 DEF CreateTable, Grows
  <2>2. PICK k \in Step : k = opening[p].at BY <1>2 DEF CreateTable
  <2>3. Left(k)' BY <1>b, <1>2, <2>2 DEF CreateTable, Left, InEffect, Skips
  <2>4. opening[p].applied \subseteq recorded' BY <1>2 DEF WholeInv, Behind, CreateTable
  <2> QED BY <1>2, <2>1, <2>2, <2>3, <2>4, MoveOn DEF CreateTable, Continue
<1>3. ASSUME NEW p \in Opening, CreateIndex(p) PROVE WholeInv'
  <2>1. Grows /\ recorded' \subseteq Known /\ bare' \in BOOLEAN
    BY <1>a, <1>3 DEF CreateIndex, Grows, file
  <2>2. PICK k \in Step : k = opening[p].at BY <1>3 DEF CreateIndex
  <2>3. Needs(k) \subseteq objects BY <1>3, <2>2, MadeBefore DEF CreateIndex
  <2>4. Left(k)' /\ Continue(p) BY <1>3, <2>2, <2>3 DEF CreateIndex, Left, InEffect, Needs
  <2>5. opening[p].applied \subseteq recorded' BY <1>3 DEF WholeInv, Behind, CreateIndex, file
  <2> QED BY <1>3, <2>1, <2>2, <2>4, <2>5, MoveOn DEF CreateIndex, Continue
<1>4. ASSUME NEW p \in Opening, LookForColumn(p) PROVE WholeInv'
  <2>1. Grows /\ recorded' \subseteq Known /\ bare' \in BOOLEAN
    BY <1>a, <1>4 DEF LookForColumn, Grows, file
  <2>2. PICK k \in Step : k = opening[p].at BY <1>4 DEF LookForColumn
  <2>3. opening[p].applied \subseteq recorded' BY <1>4 DEF WholeInv, Behind, LookForColumn, file
  <2>4. CASE Script[k].columns \subseteq objects
    <3>1. Left(k)' /\ Continue(p) BY <1>4, <2>2, <2>4 DEF LookForColumn, Left, InEffect, file
    <3> QED BY <1>4, <2>1, <2>2, <2>3, <3>1, MoveOn DEF LookForColumn, Continue
  <2>5. CASE ~(Script[k].columns \subseteq objects)
    <3>1. Goto(p, opening[p].at, TRUE, opening[p].applied)
      BY <1>b, <1>4, <2>2, <2>5 DEF LookForColumn, Skips
    <3>2. opening' \in [Opening -> Place] BY <1>a, <3>1 DEF Goto, Place
    <3>3. /\ opening'[p].pc = "running" /\ opening'[p].at = opening[p].at
          /\ opening'[p].applied = opening[p].applied
          /\ \A q \in Opening \ {p} : opening'[q] = opening[q]
      BY <1>a, <3>1 DEF Goto
    <3>4. UNCHANGED file /\ opening[p].pc = "running" BY <1>4 DEF LookForColumn
    <3> QED BY <3>2, <3>3, <3>4, StandStill
  <2> QED BY <2>4, <2>5
<1>5. ASSUME NEW p \in Opening, AddColumn(p) PROVE WholeInv'
  <2>1. PICK k \in Step : k = opening[p].at BY <1>5 DEF AddColumn
  <2>2. CASE Continue(p) /\ objects' = objects \cup Script[k].columns
             /\ bare' = (bare \/ ApiJobId \in Script[k].columns) /\ Script[k].columns \cap objects = {}
    <3>1. Grows /\ recorded' \subseteq Known /\ bare' \in BOOLEAN
      BY <1>a, <1>5, <2>2 DEF AddColumn, Grows
    <3>2. Left(k)' BY <1>5, <2>1, <2>2 DEF AddColumn, Left, InEffect
    <3>3. opening[p].applied \subseteq recorded' BY <1>5 DEF WholeInv, Behind, AddColumn
    <3> QED BY <1>5, <2>1, <2>2, <3>1, <3>2, <3>3, MoveOn DEF AddColumn, Continue
  <2>3. CASE Raise(p) /\ UNCHANGED <<objects, bare>>
    BY <1>5, <2>3, RaiseStep DEF AddColumn, file
  <2> QED BY <1>5, <2>1, <2>2, <2>3 DEF AddColumn
<1>6. ASSUME NEW p \in Opening, Backfill(p) PROVE WholeInv'
  <2>1. PICK k \in Step : k = opening[p].at BY <1>6 DEF Backfill
  <2>2. Needs(k) \subseteq objects BY <1>6, <2>1, MadeBefore DEF Backfill
  <2>3. Continue(p) /\ bare' = FALSE /\ UNCHANGED <<objects, recorded>> /\ ApiJobId \in objects
    BY <1>b, <1>6, <2>1, <2>2, ScriptAssumption DEF Backfill, Needs, Skips
  <2>4. Grows /\ recorded' \subseteq Known /\ bare' \in BOOLEAN BY <1>a, <2>3 DEF Grows
  <2>5. Left(k)' BY <1>6, <2>1, <2>3 DEF Backfill, Left, InEffect
  <2>6. opening[p].applied \subseteq recorded' BY <2>3 DEF WholeInv, Behind
  <2> QED BY <1>6, <2>1, <2>3, <2>4, <2>5, <2>6, MoveOn DEF Backfill, Continue
<1>7. ASSUME NEW p \in Opening, ReadRegistry(p) PROVE WholeInv'
  <2>1. PICK k \in Step : k = opening[p].at BY <1>7 DEF ReadRegistry
  <2>2. Grows /\ recorded' \subseteq Known /\ bare' \in BOOLEAN /\ recorded \subseteq recorded'
    BY <1>a, <1>7 DEF ReadRegistry, Grows, file
  <2>3. Left(k)' BY <1>7, <2>1 DEF ReadRegistry, Left, InEffect
  <2> QED BY <1>7, <2>1, <2>2, <2>3, MoveOn DEF ReadRegistry
<1>8. ASSUME NEW p \in Opening, RecordMigration(p) PROVE WholeInv'
  <2>1. PICK k \in Step : k = opening[p].at BY <1>8 DEF RecordMigration
  <2>2. opening[p].applied \subseteq recorded BY DEF WholeInv, Behind
  <2>3. CASE Raise(p) /\ UNCHANGED recorded
    BY <1>8, <2>3, RaiseStep DEF RecordMigration, file
  <2>4. CASE Continue(p) /\ recorded' = recorded \cup {Script[k].of}
    <3>1. Script[k].of \in Known BY <2>1 DEF Known
    <3>2. Grows /\ recorded' \subseteq Known /\ bare' \in BOOLEAN
      BY <1>a, <1>8, <2>4, <3>1 DEF RecordMigration, Grows
    <3>3. Left(k)' BY <1>8, <2>1, <2>4 DEF RecordMigration, Left, InEffect
    <3>4. opening[p].applied \subseteq recorded' BY <2>2, <2>4
    <3> QED BY <1>8, <2>1, <2>4, <3>2, <3>3, <3>4, MoveOn DEF RecordMigration, Continue
  <2>5. CASE Continue(p) /\ recorded' = recorded /\ Script[k].of \in opening[p].applied
    <3>1. recorded' = recorded \cup {Script[k].of} BY <2>2, <2>5
    <3> QED BY <2>4, <2>5, <3>1
  <2> QED BY <1>8, <2>1, <2>3, <2>4, <2>5 DEF RecordMigration
<1>9. ASSUME NEW p \in Opening, Opened(p) PROVE WholeInv'
  <2>1. Behind(opening[p]) /\ opening[p].at > Len(Script) /\ opening[p].pc = "running"
    BY <1>9 DEF WholeInv, Opened
  <2>2. /\ UNCHANGED file /\ opening' \in [Opening -> Place]
        /\ opening'[p].pc = "open" /\ opening'[p].at = opening[p].at
        /\ opening'[p].applied = opening[p].applied
        /\ \A q \in Opening \ {p} : opening'[q] = opening[q]
    BY <1>a, <1>9 DEF Opened, Place
  <2>3. \A i \in Step : Left(i)' <=> Left(i) BY <2>2 DEF Left, InEffect, file
  <2>4. ASSUME NEW q \in Opening PROVE Behind(opening[q])'
    <3>1. Behind(opening[q]) BY DEF WholeInv
    <3> QED BY <2>1, <2>2, <2>3, <3>1 DEF Behind, file
  <2> QED BY <1>a, <2>2, <2>4 DEF WholeInv, StartupTyped, file
<1>10. ASSUME NEW p \in Opening, close_connection(p) PROVE WholeInv'
  <2>1. UNCHANGED file /\ opening' = [opening EXCEPT ![p] = Closed] BY <1>10 DEF close_connection
  <2> QED BY <2>1, CloseStep
<1>11. ASSUME NEW p \in Opening, Kill(p) PROVE WholeInv'
  <2>1. UNCHANGED file /\ opening' = [opening EXCEPT ![p] = Closed] BY <1>11 DEF Kill
  <2> QED BY <2>1, CloseStep
<1>12. CASE UNCHANGED startupVars
  BY <1>12 DEF startupVars, file, WholeInv, StartupTyped, Behind, Left, InEffect
<1> QED BY <1>1, <1>2, <1>3, <1>4, <1>5, <1>6, <1>7, <1>8, <1>9, <1>10, <1>11, <1>12
        DEF StartupNext, Execute

FilesAreFiles == \A f \in Files : f.bare \in BOOLEAN

(* A request that has the database open works on a whole schema.             *)
THEOREM OpenedTheorem == ASSUME FilesAreFiles PROVE StartupSpec => []OpenedIsWhole
<1>1. StartupInit => WholeInv
  BY DEF StartupInit, WholeInv, StartupTyped, Behind, Closed, Place, Known, FilesAreFiles
<1>2. WholeInv => OpenedIsWhole
  <2> SUFFICES ASSUME WholeInv, NEW p \in Opening, opening[p].pc = "open", NEW i \in Step
               PROVE  InEffect(Script[i])
    BY DEF OpenedIsWhole
  <2>1. Behind(opening[p]) /\ opening[p].at \in Nat BY DEF WholeInv, StartupTyped, Place
  <2>2. i < opening[p].at BY <2>1, ScriptAssumption DEF Behind, Step
  <2> QED BY <2>1, <2>2 DEF Behind, Left
<1> QED BY <1>1, <1>2, WholeStep, PTL DEF StartupSpec
---------------------------------------------------------------------------
(* Who fails was raced *)

(* What opening o knows of the file as long as nobody else changes it: that  *)
(* the column it is about to add is missing, and who is recorded.            *)
Passed(o) == \E i \in Step : i < o.at /\ Script[i].kind = "registry"
RecordedBefore(o) == {Script[i].of : i \in {j \in Step : j < o.at /\ Script[j].kind = "record"}}
Knows(o) ==
  o.pc = "running" /\ ~o.raced =>
    /\ o.missing => Script[o.at].columns \cap objects = {}
    /\ Passed(o) => recorded \subseteq o.applied \cup RecordedBefore(o)

RaceInv ==
  /\ WholeInv
  /\ \A p, q \in Opening : p # q /\ Running(p) /\ Running(q) => opening[p].raced
  /\ \A p \in Opening : Knows(opening[p])
  /\ FailsOnlyWhenRaced

(* An opening that runs and moves: the others are raced, or do not run.      *)
LEMMA RaceMoves ==
  ASSUME RaceInv, WholeInv', NEW p \in Opening, Running(p), NEW o,
         opening' = [opening EXCEPT ![p] = o],
         o.pc = "running" => o.raced = opening[p].raced,
         o.pc = "failed" => o.raced,
         Knows(opening[p])'
  PROVE  RaceInv'
<1>1. opening \in [Opening -> Place] BY DEF RaceInv, WholeInv, StartupTyped
<1>2. opening'[p] = o /\ \A q \in Opening \ {p} : opening'[q] = opening[q] BY <1>1
<1>3. \A q \in Opening \ {p} : Running(q) => opening[q].raced BY DEF RaceInv
<1>4. (\A q, r \in Opening : q # r /\ Running(q) /\ Running(r) => opening[q].raced)'
  BY <1>2, <1>3 DEF RaceInv, Running
<1>5. ASSUME NEW q \in Opening \ {p} PROVE Knows(opening[q])'
  <2>1. opening'[q].pc = "running" => opening'[q].raced BY <1>2, <1>3 DEF Running
  <2> QED BY <2>1 DEF Knows
<1>6. (\A q \in Opening : Knows(opening[q]))' BY <1>5
<1>7. FailsOnlyWhenRaced' BY <1>2 DEF FailsOnlyWhenRaced, RaceInv
<1> QED BY <1>4, <1>6, <1>7 DEF RaceInv

(* An opening that goes on to the next statement, after any but the registry. *)
LEMMA KnowsOn ==
  ASSUME RaceInv, NEW p \in Opening, NEW k \in Step, Running(p), opening[p].at = k, Continue(p),
         Script[k].kind # "registry",
         \/ recorded' \subseteq recorded
         \/ Script[k].kind = "record" /\ recorded' \subseteq recorded \cup {Script[k].of}
  PROVE  Knows(opening[p])'
<1>1. opening \in [Opening -> Place] BY DEF RaceInv, WholeInv, StartupTyped
<1>2. opening'[p] = [pc |-> "running", at |-> k + 1, missing |-> FALSE,
                     applied |-> opening[p].applied, raced |-> opening[p].raced]
  BY <1>1 DEF Continue, Goto
<1>3. SUFFICES ASSUME ~opening[p].raced, Passed(opening'[p])
               PROVE  recorded' \subseteq opening[p].applied \cup RecordedBefore(opening'[p])
  BY <1>2 DEF Knows, Passed, RecordedBefore
<1>4. k \in Nat /\ \A i \in Step : i \in Nat /\ (i < k + 1 <=> i < k \/ i = k)
  BY ScriptAssumption DEF Step
<1>5. Passed(opening[p])
  <2>1. PICK j \in Step : Script[j].kind = "registry" /\ j < opening'[p].at
    BY <1>3 DEF Passed
  <2>2. j < k + 1 /\ j # k
    BY <1>2, <2>1
  <2>3. j < opening[p].at
    BY <1>4, <2>2
  <2> QED
    BY <2>1, <2>3 DEF Passed
<1>6. recorded \subseteq opening[p].applied \cup RecordedBefore(opening[p])
  BY <1>3, <1>5 DEF RaceInv, Knows, Running
<1>7. RecordedBefore(opening[p]) \subseteq RecordedBefore(opening'[p])
  BY <1>2, <1>4 DEF RecordedBefore
<1>8. Script[k].kind = "record" => Script[k].of \in RecordedBefore(opening'[p])
  BY <1>2, <1>4 DEF RecordedBefore
<1> QED BY <1>6, <1>7, <1>8

LEMMA RaceGoesOn ==
  ASSUME RaceInv, WholeInv', NEW p \in Opening, Running(p), opening[p].at \in Step, Continue(p),
         Now(p).kind # "registry",
         \/ recorded' \subseteq recorded
         \/ Now(p).kind = "record" /\ recorded' \subseteq recorded \cup {Now(p).of}
  PROVE  RaceInv'
<1>1. PICK k \in Step : k = opening[p].at OBVIOUS
<1>2. Knows(opening[p])' BY <1>1, KnowsOn DEF Now
<1> QED BY <1>2, RaceMoves DEF Continue, Goto

LEMMA RaceRaises ==
  ASSUME RaceInv, WholeInv', NEW p \in Opening, Running(p), opening[p].raced, Raise(p)
  PROVE  RaceInv'
<1>1. opening \in [Opening -> Place] BY DEF RaceInv, WholeInv, StartupTyped
<1>2. PICK o : o = [opening[p] EXCEPT !.pc = "failed"] OBVIOUS
<1>3. o.pc = "failed" /\ o.raced = opening[p].raced BY <1>1, <1>2 DEF Place
<1>4. opening' = [opening EXCEPT ![p] = o] BY <1>1, <1>2 DEF Raise
<1>5. opening'[p] = o BY <1>1, <1>4
<1>6. Knows(opening[p])' BY <1>3, <1>5 DEF Knows
<1> QED BY <1>3, <1>4, <1>6, RaceMoves

LEMMA RaceCloses ==
  ASSUME RaceInv, WholeInv', NEW p \in Opening, opening' = [opening EXCEPT ![p] = Closed], UNCHANGED file
  PROVE  RaceInv'
<1>1. opening \in [Opening -> Place] BY DEF RaceInv, WholeInv, StartupTyped
<1>2. opening'[p].pc = "closed" /\ \A q \in Opening \ {p} : opening'[q] = opening[q]
  BY <1>1 DEF Closed
<1>3. (\A q, r \in Opening : q # r /\ Running(q) /\ Running(r) => opening[q].raced)'
  BY <1>2 DEF RaceInv, Running
<1>4. \A q \in Opening : Knows(opening[q])'
  BY <1>2 DEF RaceInv, Knows, Passed, RecordedBefore, file
<1>5. FailsOnlyWhenRaced' BY <1>2 DEF FailsOnlyWhenRaced, RaceInv
<1> QED BY <1>3, <1>4, <1>5 DEF RaceInv

(* A record that is refused was written meanwhile. *)
LEMMA NobodyElseRecords ==
  ASSUME RaceInv, NEW p \in Opening, AtStatement(p, "record"),
         Now(p).of \notin opening[p].applied, Now(p).of \in recorded
  PROVE  opening[p].raced
<1>1. PICK k \in Step : k = opening[p].at /\ Script[k].kind = "record" BY DEF AtStatement
<1>2. SUFFICES ASSUME ~opening[p].raced PROVE FALSE OBVIOUS
<1>3. Passed(opening[p]) BY <1>1, ScriptAssumption DEF Passed
<1>4. recorded \subseteq opening[p].applied \cup RecordedBefore(opening[p])
  BY <1>2, <1>3 DEF RaceInv, Knows, AtStatement, Running
<1>5. Script[k].of \in RecordedBefore(opening[p]) BY <1>1, <1>4 DEF Now
<1>6. PICK j \in Step : j < k /\ Script[j].kind = "record" /\ Script[j].of = Script[k].of
  BY <1>1, <1>5 DEF RecordedBefore
<1>7. j = k BY <1>1, <1>6, ScriptAssumption
<1> QED BY <1>6, <1>7, ScriptAssumption DEF Step

THEOREM RaceStep == RaceInv /\ [StartupNext]_startupVars => RaceInv'
<1> SUFFICES ASSUME RaceInv, [StartupNext]_startupVars PROVE RaceInv' OBVIOUS
<1>a. WholeInv /\ WholeInv' BY WholeStep DEF RaceInv
<1>b. opening \in [Opening -> Place] BY <1>a DEF WholeInv, StartupTyped
<1>c. \A i \in Step : Script[i].always BY ScriptAssumption
<1>1. ASSUME NEW p \in Opening, BeginOpening(p) PROVE RaceInv'
  <2>1. ~Running(p) BY <1>1 DEF BeginOpening, Running
  <2>2. /\ opening'[p].pc = "running" /\ opening'[p].at = 1 /\ ~opening'[p].missing
        /\ opening'[p].raced <=> (\E q \in Opening \ {p} : Running(q))
    BY <1>b, <1>1 DEF BeginOpening, Closed
  <2>3. \A q \in Opening \ {p} : /\ opening'[q].pc = opening[q].pc
                                 /\ opening'[q].raced <=> (opening[q].raced \/ Running(q))
    BY <1>b, <1>1 DEF BeginOpening, Place
  <2>4. (\A q, r \in Opening : q # r /\ Running(q) /\ Running(r) => opening[q].raced)'
    BY <2>2, <2>3 DEF Running
  <2>5. ASSUME NEW q \in Opening \ {p} PROVE Knows(opening[q])'
    BY <2>3 DEF Knows, Running
  <2>6. Knows(opening[p])'
    <3>1. \A i \in Step : ~(i < 1) BY ScriptAssumption DEF Step
    <3> QED BY <2>2, <3>1 DEF Knows, Passed
  <2>7. (\A q \in Opening : Knows(opening[q]))' BY <2>5, <2>6
  <2>8. FailsOnlyWhenRaced' BY <2>2, <2>3 DEF FailsOnlyWhenRaced, RaceInv
  <2> QED BY <1>a, <2>4, <2>7, <2>8 DEF RaceInv
<1>2. ASSUME NEW p \in Opening, CreateTable(p) PROVE RaceInv'
  BY <1>a, <1>2, RaceGoesOn DEF CreateTable, AtStatement, Now
<1>3. ASSUME NEW p \in Opening, CreateIndex(p) PROVE RaceInv'
  <2>1. PICK k \in Step : k = opening[p].at /\ Script[k].kind = "index" BY <1>3 DEF CreateIndex, AtStatement
  <2>2. Needs(k) \subseteq objects BY <1>a, <1>3, <2>1, MadeBefore DEF CreateIndex, AtStatement
  <2>3. Continue(p) BY <1>3, <2>1, <2>2 DEF CreateIndex, Needs, Now
  <2> QED BY <1>a, <1>3, <2>3, RaceGoesOn DEF CreateIndex, AtStatement, Now, file
<1>4. ASSUME NEW p \in Opening, LookForColumn(p) PROVE RaceInv'
  <2>1. PICK k \in Step : k = opening[p].at /\ Script[k].kind = "column" BY <1>4 DEF LookForColumn, AtStatement
  <2>2. CASE Script[k].columns \subseteq objects
    <3>1. Continue(p) BY <1>4, <2>1, <2>2 DEF LookForColumn, Now
    <3> QED BY <1>a, <1>4, <3>1, RaceGoesOn DEF LookForColumn, AtStatement, Now, file
  <2>3. CASE ~(Script[k].columns \subseteq objects)
    <3>1. Goto(p, opening[p].at, TRUE, opening[p].applied)
      BY <1>c, <1>4, <2>1, <2>3 DEF LookForColumn, Skips, Now
    <3>2. PICK o : o = [pc |-> "running", at |-> opening[p].at, missing |-> TRUE,
                        applied |-> opening[p].applied, raced |-> opening[p].raced] OBVIOUS
    <3>3. opening' = [opening EXCEPT ![p] = o] BY <3>1, <3>2 DEF Goto
    <3>4. opening'[p] = o BY <1>b, <3>3
    <3>5. Script[k].columns \cap objects' = {}
      <4>1. PICK c : Script[k].columns = {c} BY <2>1, ScriptAssumption
      <4> QED BY <1>4, <2>3, <4>1 DEF LookForColumn, file
    <3>6. Passed(opening[p]) => recorded \subseteq opening[p].applied \cup RecordedBefore(opening[p])
          \/ opening[p].raced
      BY <1>4 DEF RaceInv, Knows, LookForColumn, AtStatement, Running
    <3>7. Knows(opening[p])'
      BY <1>4, <2>1, <3>2, <3>4, <3>5, <3>6 DEF Knows, Passed, RecordedBefore, LookForColumn, file
    <3> QED BY <1>a, <1>4, <3>2, <3>3, <3>7, RaceMoves DEF LookForColumn, AtStatement
  <2> QED BY <2>2, <2>3
<1>5. ASSUME NEW p \in Opening, AddColumn(p) PROVE RaceInv'
  <2>1. PICK k \in Step : k = opening[p].at /\ Script[k].kind = "column" BY <1>5 DEF AddColumn, AtStatement
  <2>2. Needs(k) \subseteq objects BY <1>a, <1>5, <2>1, MadeBefore DEF AddColumn, AtStatement
  <2>3. <<Now(p).table>> \in objects BY <2>1, <2>2 DEF Needs, Now
  <2>4. CASE Continue(p)
    BY <1>a, <1>5, <2>4, RaceGoesOn DEF AddColumn, AtStatement, Now
  <2>5. CASE Raise(p) /\ ~(Now(p).columns \cap objects = {})
    <3>1. opening[p].raced BY <1>5, <2>1, <2>5 DEF RaceInv, Knows, AddColumn, AtStatement, Running, Now
    <3> QED BY <1>a, <1>5, <2>5, <3>1, RaceRaises DEF AddColumn, AtStatement
  <2> QED BY <1>5, <2>3, <2>4, <2>5 DEF AddColumn
<1>6. ASSUME NEW p \in Opening, Backfill(p) PROVE RaceInv'
  <2>1. PICK k \in Step : k = opening[p].at /\ Script[k].kind = "backfill" BY <1>6 DEF Backfill, AtStatement
  <2>2. Needs(k) \subseteq objects BY <1>a, <1>6, <2>1, MadeBefore DEF Backfill, AtStatement
  <2>3. Continue(p) BY <1>6, <2>1, <2>2 DEF Backfill, Needs, Now
  <2> QED BY <1>a, <1>6, <2>3, RaceGoesOn DEF Backfill, AtStatement, Now
<1>7. ASSUME NEW p \in Opening, ReadRegistry(p) PROVE RaceInv'
  <2>1. PICK o : o = [pc |-> "running", at |-> opening[p].at + 1, missing |-> FALSE,
                      applied |-> recorded, raced |-> opening[p].raced] OBVIOUS
  <2>2. opening' = [opening EXCEPT ![p] = o] BY <1>7, <2>1 DEF ReadRegistry, Goto
  <2>3. opening'[p] = o BY <1>b, <2>2
  <2>4. Knows(opening[p])' BY <1>7, <2>1, <2>3 DEF Knows, ReadRegistry, file
  <2> QED BY <1>a, <1>7, <2>1, <2>2, <2>4, RaceMoves DEF ReadRegistry, AtStatement
<1>8. ASSUME NEW p \in Opening, RecordMigration(p) PROVE RaceInv'
  <2>1. CASE Continue(p) /\ recorded' \subseteq recorded \cup {Now(p).of}
    BY <1>a, <1>8, <2>1, RaceGoesOn DEF RecordMigration, AtStatement, Now
  <2>2. CASE Raise(p) /\ Now(p).of \notin opening[p].applied /\ Now(p).of \in recorded
    <3>1. opening[p].raced BY <1>8, <2>2, NobodyElseRecords DEF RecordMigration
    <3> QED BY <1>a, <1>8, <2>2, <3>1, RaceRaises DEF RecordMigration, AtStatement
  <2> QED BY <1>8, <2>1, <2>2 DEF RecordMigration
<1>9. ASSUME NEW p \in Opening, Opened(p) PROVE RaceInv'
  <2>1. PICK o : o = [opening[p] EXCEPT !.pc = "open"] OBVIOUS
  <2>2. o.pc = "open" BY <1>b, <2>1 DEF Place
  <2>3. opening' = [opening EXCEPT ![p] = o] BY <1>b, <1>9, <2>1 DEF Opened
  <2>4. opening'[p] = o BY <1>b, <2>3
  <2>5. Knows(opening[p])' BY <2>2, <2>4 DEF Knows
  <2> QED BY <1>a, <1>9, <2>2, <2>3, <2>5, RaceMoves DEF Opened
<1>10. ASSUME NEW p \in Opening, close_connection(p) PROVE RaceInv'
  BY <1>a, <1>10, RaceCloses DEF close_connection
<1>11. ASSUME NEW p \in Opening, Kill(p) PROVE RaceInv'
  BY <1>a, <1>11, RaceCloses DEF Kill
<1>12. CASE UNCHANGED startupVars
  BY <1>a, <1>12 DEF startupVars, file, RaceInv, Running, Knows, Passed, RecordedBefore, FailsOnlyWhenRaced
<1> QED BY <1>1, <1>2, <1>3, <1>4, <1>5, <1>6, <1>7, <1>8, <1>9, <1>10, <1>11, <1>12
        DEF StartupNext, Execute

(* An opening is refused only when another one ran at the same time.         *)
THEOREM RacedTheorem == ASSUME FilesAreFiles PROVE StartupSpec => []FailsOnlyWhenRaced
<1>1. StartupInit => WholeInv
  BY DEF StartupInit, WholeInv, StartupTyped, Behind, Closed, Place, Known, FilesAreFiles
<1>2. StartupInit => RaceInv
  BY <1>1 DEF StartupInit, RaceInv, Closed, Running, Knows, FailsOnlyWhenRaced
<1>3. RaceInv => FailsOnlyWhenRaced BY DEF RaceInv
<1> QED BY <1>2, <1>3, RaceStep, PTL DEF StartupSpec
-----------------------------------------------------------------------------
(* Numbers.                                                                *)

\* The larger and the smaller of two numbers.
LEMMA MaxOfTwo ==
  ASSUME NEW a \in Int, NEW b \in Int
  PROVE  Max({a, b}) = IF a >= b THEN a ELSE b
<1>1. PICK m : m = IF a >= b THEN a ELSE b
  OBVIOUS
<1>2. m \in {a, b} /\ \A y \in {a, b} : m >= y
  BY <1>1
<1>3. \A x \in {a, b} : (\A y \in {a, b} : x >= y) => x = m
  BY <1>1
<1> QED
  BY <1>1, <1>2, <1>3 DEF Max

LEMMA MinOfTwo ==
  ASSUME NEW a \in Int, NEW b \in Int
  PROVE  Min({a, b}) = IF a <= b THEN a ELSE b
<1>1. PICK m : m = IF a <= b THEN a ELSE b
  OBVIOUS
<1>2. m \in {a, b} /\ \A y \in {a, b} : m <= y
  BY <1>1
<1>3. \A x \in {a, b} : (\A y \in {a, b} : x <= y) => x = m
  BY <1>1
<1> QED
  BY <1>1, <1>2, <1>3 DEF Min

\* A part of a list, item by item.
LEMMA PartIs ==
  ASSUME NEW S, NEW s \in Seq(S), NEW m \in Nat, NEW n \in Nat, 1 <= m, m <= n + 1, n <= Len(s)
  PROVE  /\ SubSeq(s, m, n) \in Seq(S) /\ Len(SubSeq(s, m, n)) = n - m + 1
         /\ SubSeq(s, m, n) = [k \in 1..(n - m + 1) |-> s[m + k - 1]]
         /\ \A k \in 1..(n - m + 1) : SubSeq(s, m, n)[k] = s[m + k - 1] /\ m + k - 1 \in 1..Len(s)
<1>0. n - m + 1 \in Nat
  OBVIOUS
<1>1. PICK w, d : w = SubSeq(s, m, n) /\ d = n - m + 1
  OBVIOUS
<1>2. w = [k \in 1..d |-> s[m + k - 1]] /\ d \in Nat
  BY <1>0, <1>1
<1>3. \A k \in 1..d : m + k - 1 \in 1..Len(s)
  BY <1>1
<1>4. \A k \in 1..d : w[k] = s[m + k - 1] /\ w[k] \in S
  <2> SUFFICES ASSUME NEW k \in 1..d PROVE w[k] = s[m + k - 1] /\ w[k] \in S
    OBVIOUS
  <2>1. PICK j \in 1..Len(s) : j = m + k - 1
    BY <1>3
  <2>2. w[k] = s[j]
    BY <1>2, <2>1
  <2> QED
    BY <2>1, <2>2
<1>5. w \in [1..d -> S]
  BY <1>2, <1>4
<1>6. w \in Seq(S) /\ Len(w) = d
  BY <1>1, <1>5
<1> QED
  BY <1>1, <1>2, <1>3, <1>4, <1>6

\* The end of a list.
LEMMA LastOnes ==
  ASSUME NEW S, NEW s \in Seq(S), NEW n \in Nat
  PROVE  /\ LastOf(s, n) \in Seq(S) /\ Len(LastOf(s, n)) \in 0..Len(s)
         /\ n <= Len(s) => Len(LastOf(s, n)) = n
         /\ n >= 1 /\ s # <<>> => LastOf(s, n) # <<>>
         /\ \A k \in 1..Len(LastOf(s, n)) : LastOf(s, n)[k] = s[Len(s) - Len(LastOf(s, n)) + k]
<1>1. PICK m \in Int : m = Len(s) - n + 1
  OBVIOUS
<1>2. PICK f : f = Max({1, m})
  OBVIOUS
<1>3. f = IF 1 >= m THEN 1 ELSE m
  BY <1>2, MaxOfTwo
<1>4. f \in Nat /\ 1 <= f /\ f <= Len(s) + 1
  BY <1>1, <1>3
<1>5. PICK w : w = LastOf(s, n)
  OBVIOUS
<1>6. w = SubSeq(s, f, Len(s))
  BY <1>1, <1>2, <1>5 DEF LastOf
<1>7. /\ w \in Seq(S) /\ Len(w) = Len(s) - f + 1
      /\ \A k \in 1..(Len(s) - f + 1) : w[k] = s[f + k - 1]
  BY <1>4, <1>6, PartIs
<1>8. \A k \in 1..Len(w) : w[k] = s[Len(s) - Len(w) + k]
  <2> SUFFICES ASSUME NEW k \in 1..Len(w) PROVE w[k] = s[Len(s) - Len(w) + k]
    OBVIOUS
  <2>1. Len(s) - Len(w) + k = f + k - 1
    BY <1>4, <1>7
  <2> QED
    BY <1>7, <2>1
<1>9. n <= Len(s) => Len(w) = n
  BY <1>1, <1>3, <1>7
<1>10. n >= 1 /\ s # <<>> => w # <<>>
  <2>1. n >= 1 /\ s # <<>> => Len(w) >= 1
    BY <1>1, <1>3, <1>7
  <2> QED
    BY <1>7, <2>1
<1> QED
  BY <1>4, <1>5, <1>7, <1>8, <1>9, <1>10

-----------------------------------------------------------------------------
(* Chunks.                                                                 *)

Paragraph == DOMAIN Length
ChunkPiece == [text : Seq(Paragraph), from : Int, to : Int]
Cutting == [done : Seq(ChunkPiece), now : Seq(Paragraph), from : Int]

\* What a paragraph more does to the chunk being made.
LEMMA ParagraphAdded ==
  ASSUME NEW s \in Cutting, NEW i \in Nat, NEW t \in Paragraph
  PROVE  LET w == WithParagraph(s, i, t)
             full == s.now # <<>> /\ Chars(s.now) + 2 + Length[t] > MaxChars
         IN  /\ w \in Cutting
             /\ ~full => /\ w.done = s.done /\ w.now = Append(s.now, t)
                         /\ w.from = IF s.now = <<>> THEN i ELSE s.from
             /\ full => /\ s.now # <<>> /\ w.done = Append(s.done, Piece(s.now, s.from, i - 1))
                        /\ \E kept \in Seq(Paragraph) :
                              /\ w.now = Append(kept, t) /\ Len(kept) \in 0..Len(s.now)
                              /\ \A k \in 1..Len(kept) : kept[k] = s.now[Len(s.now) - Len(kept) + k]
                              /\ w.from = IF kept = <<>> THEN i ELSE Max({1, i - Len(kept)})
<1>1. s.done \in Seq(ChunkPiece) /\ s.now \in Seq(Paragraph) /\ s.from \in Int
  BY DEF Cutting
<1>2. PICK full : full = (s.now # <<>> /\ Chars(s.now) + 2 + Length[t] > MaxChars)
  OBVIOUS
<1>3. PICK w : w = WithParagraph(s, i, t)
  OBVIOUS
<1>4. CASE ~full
  <2>1. w = [done |-> s.done, now |-> Append(s.now, t), from |-> IF s.now = <<>> THEN i ELSE s.from]
    BY <1>2, <1>3, <1>4 DEF WithParagraph
  <2>2. Append(s.now, t) \in Seq(Paragraph)
    BY <1>1
  <2>3. w \in Cutting
    BY <1>1, <2>1, <2>2 DEF Cutting
  <2>4. /\ w.done = s.done /\ w.now = Append(s.now, t)
        /\ w.from = IF s.now = <<>> THEN i ELSE s.from
    BY <2>1
  <2>5. ~(s.now # <<>> /\ Chars(s.now) + 2 + Length[t] > MaxChars)
    BY <1>2, <1>4
  <2> QED
    BY <1>3, <2>3, <2>4, <2>5, Zenon
<1>5. CASE full
  <2>1. PICK kept : kept = IF Overlap = 0 THEN <<>> ELSE LastOf(s.now, Overlap)
    OBVIOUS
  <2>2. w = [done |-> Append(s.done, Piece(s.now, s.from, i - 1)), now |-> Append(kept, t),
             from |-> IF kept = <<>> THEN i ELSE Max({1, i - Len(kept)})]
    BY <1>2, <1>3, <1>5, <2>1 DEF WithParagraph
  <2>3. /\ kept \in Seq(Paragraph) /\ Len(kept) \in 0..Len(s.now)
        /\ \A k \in 1..Len(kept) : kept[k] = s.now[Len(s.now) - Len(kept) + k]
    <3>1. Overlap \in Nat
      BY ContextAssumption
    <3>2. CASE Overlap = 0
      BY <1>1, <2>1, <3>2
    <3>3. CASE Overlap # 0
      BY <1>1, <2>1, <3>1, <3>3, LastOnes
    <3> QED
      BY <3>2, <3>3
  <2>4. Piece(s.now, s.from, i - 1) \in ChunkPiece
    BY <1>1 DEF Piece, ChunkPiece
  <2>5. Append(s.done, Piece(s.now, s.from, i - 1)) \in Seq(ChunkPiece) /\ Append(kept, t) \in Seq(Paragraph)
    BY <1>1, <2>3, <2>4
  <2>6. Max({1, i - Len(kept)}) \in Int
    BY <2>3, MaxOfTwo
  <2>7. w \in Cutting
    BY <2>2, <2>5, <2>6 DEF Cutting
  <2>8. /\ w.now = Append(kept, t) /\ w.from = IF kept = <<>> THEN i ELSE Max({1, i - Len(kept)})
        /\ w.done = Append(s.done, Piece(s.now, s.from, i - 1))
    BY <2>2
  <2>9. \E some \in Seq(Paragraph) :
           /\ w.now = Append(some, t) /\ Len(some) \in 0..Len(s.now)
           /\ \A k \in 1..Len(some) : some[k] = s.now[Len(s.now) - Len(some) + k]
           /\ w.from = IF some = <<>> THEN i ELSE Max({1, i - Len(some)})
    <3>1. /\ kept \in Seq(Paragraph)
          /\ w.now = Append(kept, t) /\ Len(kept) \in 0..Len(s.now)
          /\ \A k \in 1..Len(kept) : kept[k] = s.now[Len(s.now) - Len(kept) + k]
          /\ w.from = IF kept = <<>> THEN i ELSE Max({1, i - Len(kept)})
      BY <2>3, <2>8
    <3> QED
      BY <3>1, Zenon
  <2>10. s.now # <<>> /\ Chars(s.now) + 2 + Length[t] > MaxChars
    BY <1>2, <1>5
  <2> QED
    BY <1>3, <2>7, <2>8, <2>9, <2>10, Zenon
<1> QED
  BY <1>4, <1>5

Start == [done |-> <<>>, now |-> <<>>, from |-> 1]
Cut(text) == FoldLeftDomain(LAMBDA s, i : WithParagraph(s, i, text[i]), Start, text)

\* Cutting a text, a paragraph at a time.
LEMMA CutRun ==
  ASSUME NEW text \in Seq(Paragraph)
  PROVE  \E p \in [0..Len([i \in DOMAIN text |-> i]) -> Cutting] :
           /\ p[0] = Start /\ p[Len([i \in DOMAIN text |-> i])] = Cut(text)
           /\ \A n \in 1..Len([i \in DOMAIN text |-> i]) : p[n] = WithParagraph(p[n - 1], [i \in DOMAIN text |-> i][n], text[[i \in DOMAIN text |-> i][n]])
<1>1. PICK N : N = Len([i \in DOMAIN text |-> i]) /\ N \in Nat /\ DOMAIN [i \in DOMAIN text |-> i] = 1..N
  OBVIOUS
<1>2. PICK iter : iter = CHOOSE g : g = [t \in SUBSET DOMAIN [i \in DOMAIN text |-> i] |->
            IF t = {} THEN Start ELSE LET x == Max(t) IN WithParagraph(g[t \ {x}], [i \in DOMAIN text |-> i][x], text[[i \in DOMAIN text |-> i][x]])]
  OBVIOUS
<1>3. Cut(text) = iter[DOMAIN [i \in DOMAIN text |-> i]]
  BY <1>2 DEF Cut, FoldLeftDomain, FoldLeft, MapThenFoldSet
<1>4. PICK V : V = Cutting
  OBVIOUS
<1>5. PICK step : step = [n \in 1..N |-> [v \in V |-> WithParagraph(v, [i \in DOMAIN text |-> i][n], text[[i \in DOMAIN text |-> i][n]])]]
  OBVIOUS
<1>6. Start \in V /\ step \in [1..N -> [V -> V]]
  <2>1. Start \in V
    BY <1>4 DEF Cutting, Start
  <2>2. \A n \in 1..N : \A v \in V : WithParagraph(v, [i \in DOMAIN text |-> i][n], text[[i \in DOMAIN text |-> i][n]]) \in V
    <3> SUFFICES ASSUME NEW n \in 1..N, NEW v \in V PROVE WithParagraph(v, [i \in DOMAIN text |-> i][n], text[[i \in DOMAIN text |-> i][n]]) \in V
      OBVIOUS
    <3>1. [i \in DOMAIN text |-> i][n] \in Nat /\ text[[i \in DOMAIN text |-> i][n]] \in Paragraph
      BY <1>1
    <3>2. v \in Cutting
      BY <1>4
    <3>3. WithParagraph(v, [i \in DOMAIN text |-> i][n], text[[i \in DOMAIN text |-> i][n]]) \in Cutting
      BY <3>1, <3>2, ParagraphAdded
    <3> QED
      BY <1>4, <3>3
  <2> QED
    BY <1>5, <2>1, <2>2
<1>7. \A n \in 1..N : \A v \in V : step[n][v] = WithParagraph(v, [i \in DOMAIN text |-> i][n], text[[i \in DOMAIN text |-> i][n]])
  BY <1>5
<1>8. iter = [t \in SUBSET DOMAIN [i \in DOMAIN text |-> i] |->
            IF t = {} THEN Start ELSE LET x == Max(t) IN WithParagraph(iter[t \ {x}], [i \in DOMAIN text |-> i][x], text[[i \in DOMAIN text |-> i][x]])]
  <2>1. PICK f : f \in FoldsBy(N, V, Start, step)
    <3>1. N \in Nat /\ Start \in V /\ step \in [1..N -> [V -> V]]
      BY <1>1, <1>6
    <3>2. FoldsBy(N, V, Start, step) # {}
      BY <3>1, FoldExists, Zenon
    <3> QED
      BY <3>2
  <2>2. /\ f \in [SUBSET (1..N) -> V]
        /\ \A t \in SUBSET (1..N) : f[t] = IF t = {} THEN Start ELSE step[Max(t)][f[t \ {Max(t)}]]
    BY <2>1 DEF FoldsBy
  <2>3. ASSUME NEW t \in SUBSET (1..N)
        PROVE  f[t] = IF t = {} THEN Start ELSE LET x == Max(t) IN WithParagraph(f[t \ {x}], [i \in DOMAIN text |-> i][x], text[[i \in DOMAIN text |-> i][x]])
    <3>1. t # {} => Max(t) \in 1..N
      BY <1>1, MaxIn
    <3>2. f[t \ {Max(t)}] \in V
      BY <2>2
    <3> QED
      BY <1>7, <2>2, <3>1, <3>2
  <2>4. f = [t \in SUBSET DOMAIN [i \in DOMAIN text |-> i] |->
            IF t = {} THEN Start ELSE LET x == Max(t) IN WithParagraph(f[t \ {x}], [i \in DOMAIN text |-> i][x], text[[i \in DOMAIN text |-> i][x]])]
    BY <1>1, <2>2, <2>3
  <2> QED
    BY <1>2, <2>4
<1>9. iter[{}] = Start
  BY <1>8
<1>10. \A t \in SUBSET (1..N) : t # {} /\ iter[t \ {Max(t)}] \in V => iter[t] = step[Max(t)][iter[t \ {Max(t)}]]
  <2> SUFFICES ASSUME NEW t \in SUBSET (1..N), t # {}, iter[t \ {Max(t)}] \in V
               PROVE  iter[t] = step[Max(t)][iter[t \ {Max(t)}]]
    OBVIOUS
  <2>1. Max(t) \in 1..N
    BY <1>1, MaxIn
  <2>2. iter[t] = WithParagraph(iter[t \ {Max(t)}], [i \in DOMAIN text |-> i][Max(t)], text[[i \in DOMAIN text |-> i][Max(t)]])
    BY <1>1, <1>8
  <2> QED
    BY <1>7, <2>1, <2>2
<1>a. iter[1..N] \in {q[N] : q \in RunsOf(N, V, Start, step)}
  BY <1>1, <1>6, <1>9, <1>10, FoldRun
<1>11. PICK p \in RunsOf(N, V, Start, step) : iter[1..N] = p[N]
  BY <1>a
<1>12. p \in [0..N -> V] /\ p[0] = Start /\ \A n \in 1..N : p[n] = step[n][p[n - 1]]
  BY <1>11 DEF RunsOf
<1>13. \A n \in 1..N : p[n] = WithParagraph(p[n - 1], [i \in DOMAIN text |-> i][n], text[[i \in DOMAIN text |-> i][n]])
  <2>1. \A n \in 1..N : p[n - 1] \in V
    BY <1>1, <1>12
  <2> QED
    BY <1>7, <1>12, <2>1
<1> QED
  BY <1>1, <1>3, <1>4, <1>11, <1>12, <1>13

\* What is cut of the first paragraphs: the chunk being made is the end of
\* them, those made say what they name, and no paragraph is left out.
CutSoFar(text, n, s) ==
  /\ s.from \in 1..(n + 1) /\ s.now = SubSeq(text, s.from, n) /\ (n > 0 => s.from <= n)
  /\ \A k \in 1..Len(s.done) : /\ s.done[k].from \in 1..Len(text) /\ s.done[k].to \in 1..Len(text)
                               /\ s.done[k].text = SubSeq(text, s.done[k].from, s.done[k].to)
  /\ \A m \in 1..n : \/ m \in s.from..n
                     \/ \E k \in 1..Len(s.done) : m \in s.done[k].from..s.done[k].to

\* What is cut so far stays true with one paragraph more.
LEMMA NextParagraph ==
  ASSUME NEW text \in Seq(Paragraph), NEW n \in 1..Len(text), NEW s \in Cutting, CutSoFar(text, n - 1, s)
  PROVE  CutSoFar(text, n, WithParagraph(s, n, text[n]))
<1>1. s.done \in Seq(ChunkPiece) /\ s.now \in Seq(Paragraph) /\ s.from \in Int
  BY DEF Cutting
<1>2. /\ s.from \in 1..n /\ s.now = SubSeq(text, s.from, n - 1) /\ (n > 1 => s.from <= n - 1)
      /\ \A k \in 1..Len(s.done) : /\ s.done[k].from \in 1..Len(text) /\ s.done[k].to \in 1..Len(text)
                                   /\ s.done[k].text = SubSeq(text, s.done[k].from, s.done[k].to)
      /\ \A m \in 1..(n - 1) : \/ m \in s.from..(n - 1)
                               \/ \E k \in 1..Len(s.done) : m \in s.done[k].from..s.done[k].to
  BY DEF CutSoFar
<1>3. /\ Len(s.now) = n - s.from
      /\ \A k \in 1..(n - s.from) : s.now[k] = text[s.from + k - 1]
  <2>1. s.from \in Nat /\ n - 1 \in Nat /\ 1 <= s.from /\ s.from <= (n - 1) + 1 /\ n - 1 <= Len(text)
    BY <1>2
  <2>2. /\ Len(SubSeq(text, s.from, n - 1)) = (n - 1) - s.from + 1
        /\ \A k \in 1..((n - 1) - s.from + 1) : SubSeq(text, s.from, n - 1)[k] = text[s.from + k - 1]
    BY <2>1, PartIs
  <2> QED
    BY <1>2, <2>1, <2>2
<1>4. s.now = <<>> <=> s.from = n
  <2>1. PICK now : now = s.now
    OBVIOUS
  <2>2. now \in Seq(Paragraph) /\ Len(now) = n - s.from /\ n \in Int /\ s.from \in Int
    BY <1>1, <1>2, <1>3, <2>1
  <2>3. now = <<>> <=> Len(now) = 0
    BY <2>2
  <2> QED
    BY <2>1, <2>2, <2>3
<1>5. PICK w : w = WithParagraph(s, n, text[n])
  OBVIOUS
<1>6. text[n] \in Paragraph /\ n \in Nat
  OBVIOUS
<1>7. PICK full : full = (s.now # <<>> /\ Chars(s.now) + 2 + Length[text[n]] > MaxChars)
  OBVIOUS
<1>8. /\ w \in Cutting
      /\ ~full => /\ w.done = s.done /\ w.now = Append(s.now, text[n])
                  /\ w.from = IF s.now = <<>> THEN n ELSE s.from
      /\ full => /\ s.now # <<>> /\ w.done = Append(s.done, Piece(s.now, s.from, n - 1))
                 /\ \E kept \in Seq(Paragraph) :
                       /\ w.now = Append(kept, text[n]) /\ Len(kept) \in 0..Len(s.now)
                       /\ \A k \in 1..Len(kept) : kept[k] = s.now[Len(s.now) - Len(kept) + k]
                       /\ w.from = IF kept = <<>> THEN n ELSE Max({1, n - Len(kept)})
  BY <1>5, <1>6, <1>7, ParagraphAdded
\* The chunk being made is the end of the text so far.
<1>9. ASSUME NEW f \in 1..n, NEW kept \in Seq(Paragraph), Len(kept) = n - f,
             \A k \in 1..(n - f) : kept[k] = text[f + k - 1]
      PROVE  Append(kept, text[n]) = SubSeq(text, f, n)
  <2>1. f \in Nat /\ 1 <= f /\ f <= n + 1 /\ n <= Len(text) /\ n \in Nat
    BY <1>9
  <2>2. SubSeq(text, f, n) = [k \in 1..(n - f + 1) |-> text[f + k - 1]]
    BY <2>1, PartIs
  <2>3. PICK a : a = Append(kept, text[n])
    OBVIOUS
  <2>4. /\ a \in Seq(Paragraph) /\ Len(a) = n - f + 1
        /\ \A k \in 1..(n - f) : a[k] = kept[k]
        /\ a[n - f + 1] = text[n]
    <3>1. PICK x \in Paragraph : x = text[n]
      BY <1>6
    <3>2. n - f \in Nat /\ kept \in Seq(Paragraph) /\ Len(kept) = n - f
      BY <1>9, <2>1
    <3>3. a = Append(kept, x)
      BY <2>3, <3>1
    <3>4. /\ a \in Seq(Paragraph) /\ Len(a) = Len(kept) + 1
          /\ \A k \in 1..Len(kept) : a[k] = kept[k]
          /\ a[Len(kept) + 1] = x
      <4>1. a \in Seq(Paragraph)
        BY <3>1, <3>2, <3>3
      <4>2. IsList(kept) /\ DOMAIN kept = 1..Len(kept)
        BY <3>2, SeqIsList
      <4> QED
        BY <3>3, <4>1, <4>2, AppendIs
    <3>5. Len(kept) + 1 = n - f + 1
      BY <3>2
    <3> QED
      BY <3>1, <3>2, <3>4, <3>5
  <2>5. \A k \in 1..(n - f + 1) : a[k] = text[f + k - 1]
    <3> SUFFICES ASSUME NEW k \in 1..(n - f + 1) PROVE a[k] = text[f + k - 1]
      OBVIOUS
    <3>1. CASE k = n - f + 1
      BY <2>1, <2>4, <3>1
    <3>2. CASE k # n - f + 1
      <4>1. k \in 1..(n - f)
        BY <2>1, <3>2
      <4> QED
        BY <1>9, <2>4, <4>1
    <3> QED
      BY <3>1, <3>2
  <2>6. a = [k \in 1..(n - f + 1) |-> a[k]]
    BY <2>4
  <2> QED
    BY <2>2, <2>3, <2>5, <2>6
<1>10. CASE ~full
  <2>1. w.done = s.done /\ w.now = Append(s.now, text[n]) /\ w.from = s.from
    BY <1>4, <1>8, <1>10
  <2>2. w.now = SubSeq(text, w.from, n)
    BY <1>1, <1>2, <1>3, <1>9, <2>1
  <2>3. \A m \in 1..n : \/ m \in w.from..n
                        \/ \E k \in 1..Len(w.done) : m \in w.done[k].from..w.done[k].to
    <3> SUFFICES ASSUME NEW m \in 1..n
                 PROVE  \/ m \in w.from..n
                        \/ \E k \in 1..Len(w.done) : m \in w.done[k].from..w.done[k].to
      OBVIOUS
    <3>1. CASE m = n
      BY <1>2, <2>1, <3>1
    <3>2. CASE m # n
      <4>1. m \in 1..(n - 1)
        BY <3>2
      <4>2. \/ m \in s.from..(n - 1)
            \/ \E k \in 1..Len(s.done) : m \in s.done[k].from..s.done[k].to
        BY <1>2, <4>1
      <4>3. m \in s.from..(n - 1) => m \in s.from..n
        BY <1>2
      <4> QED
        BY <2>1, <4>2, <4>3
    <3> QED
      BY <3>1, <3>2
  <2>4. w.from \in 1..(n + 1) /\ w.from <= n
    BY <1>2, <2>1
  <2>5. \A k \in 1..Len(w.done) : /\ w.done[k].from \in 1..Len(text) /\ w.done[k].to \in 1..Len(text)
                                  /\ w.done[k].text = SubSeq(text, w.done[k].from, w.done[k].to)
    BY <1>2, <2>1
  <2> QED
    BY <1>5, <2>2, <2>3, <2>4, <2>5 DEF CutSoFar
<1>11. CASE full
  <2>1. PICK kept \in Seq(Paragraph) :
          /\ w.now = Append(kept, text[n]) /\ Len(kept) \in 0..Len(s.now)
          /\ \A k \in 1..Len(kept) : kept[k] = s.now[Len(s.now) - Len(kept) + k]
          /\ w.from = IF kept = <<>> THEN n ELSE Max({1, n - Len(kept)})
    BY <1>8, <1>11
  <2>2. s.now # <<>> /\ w.done = Append(s.done, Piece(s.now, s.from, n - 1))
    BY <1>8, <1>11
  <2>3. s.from <= n - 1 /\ s.from >= 1
    BY <1>2, <1>4, <2>2
  <2>4. Len(kept) \in Nat /\ Len(kept) <= n - s.from
    BY <1>3, <2>1, <2>3
  <2>5. PICK f \in Int : f = n - Len(kept)
    BY <1>6, <2>4
  <2>6. f \in 1..n /\ Len(kept) = n - f /\ f >= s.from
    BY <1>1, <2>3, <2>4, <2>5
  <2>7. w.from = f
    <3>1. Max({1, f}) = f
      BY <2>6, MaxOfTwo
    <3>2. kept = <<>> => f = n
      BY <2>5, <2>6
    <3> QED
      BY <2>1, <2>5, <3>1, <3>2
  <2>8. \A k \in 1..(n - f) : kept[k] = text[f + k - 1]
    <3> SUFFICES ASSUME NEW k \in 1..(n - f) PROVE kept[k] = text[f + k - 1]
      OBVIOUS
    <3>1. k \in 1..Len(kept)
      BY <2>6
    <3>2. PICK j \in Int : j = Len(s.now) - Len(kept) + k
      BY <1>3, <2>3, <2>4
    <3>3. j \in 1..(n - s.from) /\ s.from + j - 1 = f + k - 1
      <4>1. n \in Int /\ s.from \in Int /\ k \in Int /\ k >= 1 /\ k <= n - f
        BY <1>1, <1>6, <2>5
      <4>2. j = (n - s.from) - (n - f) + k
        BY <1>3, <2>6, <3>2
      <4> QED
        BY <2>3, <2>5, <2>6, <4>1, <4>2
    <3>4. kept[k] = s.now[j]
      BY <2>1, <3>1, <3>2
    <3> QED
      BY <1>3, <3>3, <3>4
  <2>9. w.now = SubSeq(text, f, n)
    BY <1>9, <2>1, <2>6, <2>8
  <2>10. PICK piece : piece = Piece(s.now, s.from, n - 1)
    OBVIOUS
  <2>11. piece.text = SubSeq(text, s.from, n - 1) /\ piece.from = s.from /\ piece.to = n - 1
    BY <1>2, <2>10 DEF Piece
  <2>12. piece.from \in 1..Len(text) /\ piece.to \in 1..Len(text)
    BY <1>1, <2>3, <2>11
  <2>13. /\ Len(w.done) = Len(s.done) + 1 /\ w.done[Len(s.done) + 1] = piece /\ Len(s.done) \in Nat
         /\ \A k \in 1..Len(s.done) : w.done[k] = s.done[k]
    <3>1. piece \in ChunkPiece
      BY <1>1, <2>10 DEF Piece, ChunkPiece
    <3> QED
      BY <1>1, <2>2, <2>10, <3>1
  <2>14. \A k \in 1..Len(w.done) : /\ w.done[k].from \in 1..Len(text) /\ w.done[k].to \in 1..Len(text)
                                   /\ w.done[k].text = SubSeq(text, w.done[k].from, w.done[k].to)
    <3> SUFFICES ASSUME NEW k \in 1..Len(w.done)
                 PROVE  /\ w.done[k].from \in 1..Len(text) /\ w.done[k].to \in 1..Len(text)
                        /\ w.done[k].text = SubSeq(text, w.done[k].from, w.done[k].to)
      OBVIOUS
    <3>1. CASE k = Len(s.done) + 1
      BY <2>11, <2>12, <2>13, <3>1
    <3>2. CASE k # Len(s.done) + 1
      <4>1. k \in 1..Len(s.done)
        BY <2>13, <3>2
      <4> QED
        BY <1>2, <2>13, <4>1
    <3> QED
      BY <3>1, <3>2
  <2>15. \A m \in 1..n : \/ m \in w.from..n
                         \/ \E k \in 1..Len(w.done) : m \in w.done[k].from..w.done[k].to
    <3> SUFFICES ASSUME NEW m \in 1..n
                 PROVE  \/ m \in w.from..n
                        \/ \E k \in 1..Len(w.done) : m \in w.done[k].from..w.done[k].to
      OBVIOUS
    <3>1. CASE m = n
      BY <2>6, <2>7, <3>1
    <3>2. CASE m # n
      <4>1. m \in 1..(n - 1)
        BY <3>2
      <4>2. CASE m \in s.from..(n - 1)
        <5>1. m \in piece.from..piece.to
          BY <2>11, <4>2
        <5>2. Len(s.done) + 1 \in 1..Len(w.done)
          BY <2>13
        <5> QED
          BY <2>13, <5>1, <5>2
      <4>3. CASE \E k \in 1..Len(s.done) : m \in s.done[k].from..s.done[k].to
        <5>1. PICK k \in 1..Len(s.done) : m \in s.done[k].from..s.done[k].to
          BY <4>3
        <5>2. k \in 1..Len(w.done) /\ w.done[k] = s.done[k]
          BY <2>13
        <5> QED
          BY <5>1, <5>2
      <4> QED
        BY <1>2, <4>1, <4>2, <4>3
    <3> QED
      BY <3>1, <3>2
  <2> QED
    BY <1>5, <2>6, <2>7, <2>9, <2>14, <2>15 DEF CutSoFar
<1> QED
  BY <1>10, <1>11

\* A text in chunks: each says the paragraphs it names, and none is left out.
LEMMA ChunksOfBody ==
  ASSUME NEW text \in Seq(Paragraph)
  PROVE  /\ ChunkText(text) \in Seq(ChunkPiece)
         /\ \A k \in 1..Len(ChunkText(text)) :
               ChunkText(text)[k].text = SubSeq(text, ChunkText(text)[k].from, ChunkText(text)[k].to)
         /\ \A m \in 1..Len(text) : \E k \in 1..Len(ChunkText(text)) :
               m \in ChunkText(text)[k].from..ChunkText(text)[k].to
<1>1. PICK N : N = Len(text) /\ N \in Nat /\ DOMAIN text = 1..N
  OBVIOUS
<1>4. PICK p \in [0..N -> Cutting] :
        /\ p[0] = Start /\ p[N] = Cut(text)
        /\ \A n \in 1..N : p[n] = WithParagraph(p[n - 1], n, text[n])
  <2>1. \E q \in [0..Len([i \in DOMAIN text |-> i]) -> Cutting] :
           /\ q[0] = Start /\ q[Len([i \in DOMAIN text |-> i])] = Cut(text)
           /\ \A n \in 1..Len([i \in DOMAIN text |-> i]) :
                   q[n] = WithParagraph(q[n - 1], [i \in DOMAIN text |-> i][n], text[[i \in DOMAIN text |-> i][n]])
    BY CutRun
  <2>2. Len([i \in DOMAIN text |-> i]) = N /\ \A n \in 1..N : [i \in DOMAIN text |-> i][n] = n
    BY <1>1
  <2>3. PICK q : /\ q \in [0..N -> Cutting]
                   /\ q[0] = Start /\ q[N] = Cut(text)
                   /\ \A n \in 1..N : q[n] = WithParagraph(q[n - 1], [i \in DOMAIN text |-> i][n], text[[i \in DOMAIN text |-> i][n]])
    BY <2>1, <2>2
  <2>4. \A n \in 1..N : q[n] = WithParagraph(q[n - 1], n, text[n])
    BY <2>2, <2>3
  <2> QED
    BY <2>3, <2>4
<1>6. PICK Good : Good = {n \in 0..N : CutSoFar(text, n, p[n])}
  OBVIOUS
<1>7. 0 \in Good
  <2>1. p[0].done = <<>> /\ p[0].now = <<>> /\ p[0].from = 1
    BY <1>4 DEF Start
  <2>2. SubSeq(text, 1, 0) = <<>>
    OBVIOUS
  <2>3. CutSoFar(text, 0, p[0])
    BY <2>1, <2>2 DEF CutSoFar
  <2> QED
    BY <1>1, <1>6, <2>3
<1>8. \A n \in 1..N : n - 1 \in Good => n \in Good
  <2> SUFFICES ASSUME NEW n \in 1..N, n - 1 \in Good PROVE n \in Good
    OBVIOUS
  <2>1. CutSoFar(text, n - 1, p[n - 1]) /\ p[n - 1] \in Cutting
    BY <1>4, <1>6
  <2>2. CutSoFar(text, n, WithParagraph(p[n - 1], n, text[n]))
    BY <1>1, <2>1, NextParagraph
  <2> QED
    BY <1>1, <1>4, <1>6, <2>2
<1>9. N \in Good
  <2>1. \A n \in 0..N : n \in Good
    BY <1>1, <1>7, <1>8, PrefixInduction, Zenon
  <2> QED
    BY <1>1, <2>1
<1>10. PICK end : end = p[N]
  OBVIOUS
<1>11. end \in Cutting /\ CutSoFar(text, N, end)
  BY <1>1, <1>4, <1>6, <1>9, <1>10
<1>12. PICK all : all = ChunkText(text)
  OBVIOUS
<1>13. all = IF end.now = <<>> THEN end.done ELSE Append(end.done, Piece(end.now, end.from, N))
  BY <1>1, <1>4, <1>10, <1>12 DEF ChunkText, Cut, Start
<1>14. /\ end.done \in Seq(ChunkPiece) /\ end.now \in Seq(Paragraph) /\ end.from \in Int
       /\ end.from \in 1..(N + 1) /\ end.now = SubSeq(text, end.from, N) /\ (N > 0 => end.from <= N)
       /\ \A k \in 1..Len(end.done) : end.done[k].text = SubSeq(text, end.done[k].from, end.done[k].to)
       /\ \A m \in 1..N : \/ m \in end.from..N
                          \/ \E k \in 1..Len(end.done) : m \in end.done[k].from..end.done[k].to
  BY <1>11 DEF CutSoFar, Cutting
<1>15. end.now = <<>> => N = 0
  <2>1. Len(SubSeq(text, end.from, N)) = N - end.from + 1
    <3>1. end.from \in Nat /\ 1 <= end.from /\ end.from <= N + 1 /\ N <= Len(text)
      BY <1>1, <1>14
    <3> QED
      BY <1>1, <3>1, PartIs
  <2> QED
    BY <1>1, <1>14, <2>1
<1>16. CASE end.now = <<>>
  BY <1>1, <1>12, <1>13, <1>14, <1>15, <1>16
<1>17. CASE end.now # <<>>
  <2>1. PICK piece : piece = Piece(end.now, end.from, N)
    OBVIOUS
  <2>2. /\ piece.text = SubSeq(text, end.from, N) /\ piece.from = end.from /\ piece.to = N
        /\ piece \in ChunkPiece
    BY <1>1, <1>14, <2>1 DEF Piece, ChunkPiece
  <2>3. /\ all \in Seq(ChunkPiece)
        /\ Len(all) = Len(end.done) + 1 /\ all[Len(end.done) + 1] = piece /\ Len(end.done) \in Nat
        /\ \A k \in 1..Len(end.done) : all[k] = end.done[k]
    BY <1>13, <1>14, <1>17, <2>1, <2>2
  <2>4. \A k \in 1..Len(all) : all[k].text = SubSeq(text, all[k].from, all[k].to)
    <3> SUFFICES ASSUME NEW k \in 1..Len(all) PROVE all[k].text = SubSeq(text, all[k].from, all[k].to)
      OBVIOUS
    <3>1. CASE k = Len(end.done) + 1
      BY <2>2, <2>3, <3>1
    <3>2. CASE k # Len(end.done) + 1
      <4>1. k \in 1..Len(end.done)
        BY <2>3, <3>2
      <4> QED
        BY <1>14, <2>3, <4>1
    <3> QED
      BY <3>1, <3>2
  <2>5. \A m \in 1..N : \E k \in 1..Len(all) : m \in all[k].from..all[k].to
    <3> SUFFICES ASSUME NEW m \in 1..N PROVE \E k \in 1..Len(all) : m \in all[k].from..all[k].to
      OBVIOUS
    <3>1. CASE m \in end.from..N
      <4>1. m \in piece.from..piece.to
        BY <2>2, <3>1
      <4>2. Len(end.done) + 1 \in 1..Len(all)
        BY <2>3
      <4> QED
        BY <2>3, <4>1, <4>2
    <3>2. CASE \E k \in 1..Len(end.done) : m \in end.done[k].from..end.done[k].to
      <4>1. PICK k \in 1..Len(end.done) : m \in end.done[k].from..end.done[k].to
        BY <3>2
      <4>2. k \in 1..Len(all) /\ all[k] = end.done[k]
        BY <2>3
      <4> QED
        BY <4>1, <4>2
    <3> QED
      BY <1>14, <3>1, <3>2
  <2> QED
    BY <1>1, <1>12, <2>3, <2>4, <2>5
<1> QED
  BY <1>16, <1>17

-----------------------------------------------------------------------------
(* Sizes.                                                                  *)

\* A sum is the last of its partial sums.
LEMMA SumRun ==
  ASSUME NEW s \in Seq(Nat)
  PROVE  \E p \in [0..Len(s) -> Nat] :
           /\ p[0] = 0 /\ p[Len(s)] = SumOf(s)
           /\ \A n \in 1..Len(s) : p[n] = Plus(p[n - 1], s[n])
<1>1. PICK N : N = Len(s) /\ N \in Nat /\ DOMAIN s = 1..N
  OBVIOUS
<1>2. PICK iter : iter = CHOOSE g : g = [t \in SUBSET DOMAIN s |->
            IF t = {} THEN 0 ELSE LET x == Max(t) IN Plus(g[t \ {x}], s[x])]
  OBVIOUS
<1>3. SumOf(s) = iter[DOMAIN s]
  BY <1>2 DEF SumOf, FoldLeft, MapThenFoldSet
<1>4. PICK V : V = Nat
  OBVIOUS
<1>5. PICK step : step = [n \in 1..N |-> [v \in V |-> Plus(v, s[n])]]
  OBVIOUS
<1>6. 0 \in V /\ step \in [1..N -> [V -> V]]
  <2>1. 0 \in V
    BY <1>4
  <2>2. \A n \in 1..N : \A v \in V : Plus(v, s[n]) \in V
    BY <1>1, <1>4 DEF Plus
  <2> QED
    BY <1>5, <2>1, <2>2
<1>7. \A n \in 1..N : \A v \in V : step[n][v] = Plus(v, s[n])
  BY <1>5
<1>8. iter = [t \in SUBSET DOMAIN s |->
            IF t = {} THEN 0 ELSE LET x == Max(t) IN Plus(iter[t \ {x}], s[x])]
  <2>1. PICK f : f \in FoldsBy(N, V, 0, step)
    <3>1. N \in Nat /\ 0 \in V /\ step \in [1..N -> [V -> V]]
      BY <1>1, <1>6
    <3>2. FoldsBy(N, V, 0, step) # {}
      BY <3>1, FoldExists, Zenon
    <3> QED
      BY <3>2
  <2>2. /\ f \in [SUBSET (1..N) -> V]
        /\ \A t \in SUBSET (1..N) : f[t] = IF t = {} THEN 0 ELSE step[Max(t)][f[t \ {Max(t)}]]
    BY <2>1 DEF FoldsBy
  <2>3. ASSUME NEW t \in SUBSET (1..N)
        PROVE  f[t] = IF t = {} THEN 0 ELSE LET x == Max(t) IN Plus(f[t \ {x}], s[x])
    <3>1. t # {} => Max(t) \in 1..N
      BY <1>1, MaxIn
    <3>2. f[t \ {Max(t)}] \in V
      BY <2>2
    <3> QED
      BY <1>7, <2>2, <3>1, <3>2
  <2>4. f = [t \in SUBSET DOMAIN s |->
            IF t = {} THEN 0 ELSE LET x == Max(t) IN Plus(f[t \ {x}], s[x])]
    BY <1>1, <2>2, <2>3
  <2> QED
    BY <1>2, <2>4
<1>9. iter[{}] = 0
  BY <1>8
<1>10. \A t \in SUBSET (1..N) : t # {} /\ iter[t \ {Max(t)}] \in V => iter[t] = step[Max(t)][iter[t \ {Max(t)}]]
  <2> SUFFICES ASSUME NEW t \in SUBSET (1..N), t # {}, iter[t \ {Max(t)}] \in V
               PROVE  iter[t] = step[Max(t)][iter[t \ {Max(t)}]]
    OBVIOUS
  <2>1. Max(t) \in 1..N
    BY <1>1, MaxIn
  <2>2. iter[t] = Plus(iter[t \ {Max(t)}], s[Max(t)])
    BY <1>1, <1>8
  <2> QED
    BY <1>7, <2>1, <2>2
<1>a. iter[1..N] \in {q[N] : q \in RunsOf(N, V, 0, step)}
  BY <1>1, <1>6, <1>9, <1>10, FoldRun
<1>11. PICK p \in RunsOf(N, V, 0, step) : iter[1..N] = p[N]
  BY <1>a
<1>12. p \in [0..N -> V] /\ p[0] = 0 /\ \A n \in 1..N : p[n] = step[n][p[n - 1]]
  BY <1>11 DEF RunsOf
<1>13. \A n \in 1..N : p[n] = Plus(p[n - 1], s[n])
  <2>1. \A n \in 1..N : p[n - 1] \in V
    BY <1>1, <1>12
  <2> QED
    BY <1>7, <1>12, <2>1
<1> QED
  BY <1>1, <1>3, <1>4, <1>11, <1>12, <1>13

\* One number more.
LEMMA SumAppended ==
  ASSUME NEW s \in Seq(Nat), NEW x \in Nat
  PROVE  SumOf(s) \in Nat /\ SumOf(Append(s, x)) = SumOf(s) + x
<1>1. PICK N : N = Len(s) /\ N \in Nat
  OBVIOUS
<1>2. PICK t : t = Append(s, x)
  OBVIOUS
<1>3. t \in Seq(Nat) /\ Len(t) = N + 1 /\ t[N + 1] = x /\ \A n \in 1..N : t[n] = s[n]
  BY <1>1, <1>2
<1>4. PICK p \in [0..N -> Nat] : p[0] = 0 /\ p[N] = SumOf(s) /\ \A n \in 1..N : p[n] = Plus(p[n - 1], s[n])
  BY <1>1, SumRun
<1>5. PICK q \in [0..(N + 1) -> Nat] : /\ q[0] = 0 /\ q[N + 1] = SumOf(t)
                                       /\ \A n \in 1..(N + 1) : q[n] = Plus(q[n - 1], t[n])
  <2>1. \E q \in [0..Len(t) -> Nat] : /\ q[0] = 0 /\ q[Len(t)] = SumOf(t)
                                       /\ \A n \in 1..Len(t) : q[n] = Plus(q[n - 1], t[n])
    BY <1>3, SumRun
  <2> QED
    BY <1>3, <2>1
<1>6. PICK Good : Good = {n \in 0..N : q[n] = p[n]}
  OBVIOUS
<1>7. 0 \in Good
  BY <1>1, <1>4, <1>5, <1>6
<1>8. \A n \in 1..N : n - 1 \in Good => n \in Good
  <2> SUFFICES ASSUME NEW n \in 1..N, n - 1 \in Good PROVE n \in Good
    OBVIOUS
  <2>1. n \in 1..(N + 1) /\ q[n - 1] = p[n - 1]
    BY <1>1, <1>6
  <2>2. q[n] = Plus(q[n - 1], t[n]) /\ p[n] = Plus(p[n - 1], s[n]) /\ t[n] = s[n]
    BY <1>3, <1>4, <1>5, <2>1
  <2> QED
    BY <1>6, <2>1, <2>2
<1>9. N \in Good
  <2>1. \A n \in 0..N : n \in Good
    BY <1>1, <1>7, <1>8, PrefixInduction, Zenon
  <2> QED
    BY <1>1, <2>1
<1>10. q[N + 1] = q[N] + x /\ q[N] = p[N] /\ p[N] \in Nat
  <2>1. N + 1 \in 1..(N + 1) /\ (N + 1) - 1 = N /\ N \in 0..N
    BY <1>1
  <2>2. q[N + 1] = Plus(q[N], t[N + 1])
    BY <1>5, <2>1
  <2> QED
    BY <1>3, <1>4, <1>6, <1>9, <2>1, <2>2 DEF Plus
<1> QED
  BY <1>2, <1>4, <1>5, <1>10

\* Nothing sums up to nothing.
LEMMA NoSum == SumOf(<<>>) = 0
<1>1. <<>> \in Seq(Nat) /\ Len(<<>>) = 0
  OBVIOUS
<1>2. PICK p \in [0..0 -> Nat] : p[0] = 0 /\ p[0] = SumOf(<<>>)
  BY <1>1, SumRun
<1> QED
  BY <1>2

\* The characters of a text are counted.
LEMMA CharsAre == ASSUME NEW s \in Seq(Paragraph) PROVE Chars(s) \in Nat
<1>1. PICK sizes : sizes = [i \in DOMAIN s |-> Length[s[i]]]
  OBVIOUS
<1>2. \A i \in 1..Len(s) : Length[s[i]] \in Nat
  BY ContextAssumption DEF Paragraph
<1>3. sizes \in Seq(Nat)
  BY <1>1, <1>2
<1>4. SumOf(sizes) \in Nat
  <2>1. 0 \in Nat
    OBVIOUS
  <2> QED
    BY <1>3, <2>1, SumAppended
<1>5. s = <<>> \/ Len(s) >= 1
  OBVIOUS
<1>6. PICK rest \in Nat : rest = IF s = <<>> THEN 0 ELSE 2 * (Len(s) - 1)
  BY <1>5
<1>7. Chars(s) = SumOf(sizes) + rest
  BY <1>1, <1>6 DEF Chars
<1> QED
  BY <1>4, <1>7

\* Tokens are counted, and a text that is not empty has some.
LEMMA TokensAre ==
  ASSUME NEW c \in Nat
  PROVE  Tokens(c) \in Nat /\ (c > 0 => Tokens(c) >= 1) /\ (c = 0 => Tokens(c) = 0)
<1>1. PICK q \in Nat : q = c \div 4
  OBVIOUS
<1>2. Max({1, q}) = IF 1 >= q THEN 1 ELSE q
  BY MaxOfTwo
<1>3. Tokens(c) = IF c = 0 THEN 0 ELSE Max({1, q})
  BY <1>1 DEF Tokens
<1> QED
  BY <1>2, <1>3

Descends(f, N, stop, val, next) == f = [c \in 0..N |-> IF c \in stop THEN val[c] ELSE f[next[c]]]

\* A function that asks itself for smaller numbers only, is there.
LEMMA Descent ==
  ASSUME NEW N \in Nat, NEW stop, NEW val, NEW next,
         \A c \in 0..N : c \notin stop => next[c] \in 0..(c - 1)
  PROVE  \E f : Descends(f, N, stop, val, next)
<1>1. PICK Good : Good = {n \in 0..N : \E f : f = [c \in 0..n |-> IF c \in stop THEN val[c] ELSE f[next[c]]]}
  OBVIOUS
<1>2. 0 \in Good
  <2>1. PICK f : f = [c \in 0..0 |-> val[c]]
    OBVIOUS
  <2>2. \A c \in 0..0 : c \in 0..N /\ c \in stop
    OBVIOUS
  <2>3. f = [c \in 0..0 |-> IF c \in stop THEN val[c] ELSE f[next[c]]]
    BY <2>1, <2>2
  <2> QED
    BY <1>1, <2>3
<1>3. \A n \in 1..N : n - 1 \in Good => n \in Good
  <2> SUFFICES ASSUME NEW n \in 1..N, n - 1 \in Good PROVE n \in Good
    OBVIOUS
  <2>1. PICK f : f = [c \in 0..(n - 1) |-> IF c \in stop THEN val[c] ELSE f[next[c]]]
    BY <1>1
  <2>2. PICK here : here = IF n \in stop THEN val[n] ELSE f[next[n]]
    OBVIOUS
  <2>3. PICK g : g = [c \in 0..n |-> IF c = n THEN here ELSE f[c]]
    OBVIOUS
  <2>4. \A c \in 0..n : g[c] = IF c \in stop THEN val[c] ELSE g[next[c]]
    <3> SUFFICES ASSUME NEW c \in 0..n PROVE g[c] = IF c \in stop THEN val[c] ELSE g[next[c]]
      OBVIOUS
    <3>1. c \in 0..N /\ n \in Nat /\ n >= 1
      OBVIOUS
    <3>2. c \notin stop => next[c] \in 0..(n - 1) /\ g[next[c]] = f[next[c]]
      <4>1. SUFFICES ASSUME c \notin stop PROVE next[c] \in 0..(n - 1) /\ g[next[c]] = f[next[c]]
        OBVIOUS
      <4>2. PICK d \in 0..(c - 1) : d = next[c]
        BY <3>1, <4>1
      <4>3. d \in 0..(n - 1) /\ d \in 0..n /\ d # n
        BY <3>1, <4>2
      <4>4. g[d] = f[d]
        BY <2>3, <4>3
      <4> QED
        BY <4>2, <4>3, <4>4
    <3>3. CASE c = n
      BY <2>2, <2>3, <3>1, <3>2, <3>3
    <3>4. CASE c # n
      <4>1. c \in 0..(n - 1)
        BY <3>1, <3>4
      <4>2. f[c] = IF c \in stop THEN val[c] ELSE f[next[c]]
        BY <2>1, <4>1
      <4>3. g[c] = f[c]
        BY <2>3, <3>4
      <4> QED
        BY <3>2, <4>2, <4>3
    <3> QED
      BY <3>3, <3>4
  <2>5. g = [c \in 0..n |-> IF c \in stop THEN val[c] ELSE g[next[c]]]
    <3>1. g = [c \in 0..n |-> g[c]]
      BY <2>3
    <3> QED
      BY <2>4, <3>1
  <2> QED
    BY <1>1, <2>5
<1>4. N \in Good
  <2>1. \A n \in 0..N : n \in Good
    BY <1>2, <1>3, PrefixInduction, Zenon
  <2> QED
    BY <2>1
<1>5. PICK f : f = [c \in 0..N |-> IF c \in stop THEN val[c] ELSE f[next[c]]]
  BY <1>1, <1>4
<1> QED
  BY <1>5 DEF Descends

\* Cut to its share of the tokens a text gets shorter, or is given up.
LEMMA ShorterIs ==
  ASSUME NEW c \in Nat, c >= 1, NEW most \in Nat, Tokens(c) > most
  PROVE  /\ Shorter(c, most) \in Nat
         /\ ~(Shorter(c, most) <= Least /\ Tokens(Shorter(c, most)) > most) => Shorter(c, most) \in 0..(c - 1)
<1>1. PICK k \in Nat : k = Tokens(c) /\ k >= 1
  BY TokensAre
<1>2. PICK x \in Int : x = (c * most) \div k
  BY <1>1
<1>3. PICK share \in Int : share = Max({Least, x}) /\ share >= 32
  BY MaxOfTwo DEF Least
<1>4. PICK less \in Int : less = Max({Least, c - 16}) /\ less >= 32 /\ (less = 32 \/ less = c - 16)
  BY MaxOfTwo DEF Least
<1>5. PICK t : t = IF share >= c THEN less ELSE share
  OBVIOUS
<1>6. PICK left : left = Shorter(c, most)
  OBVIOUS
<1>7. left = Trim(c, t)
  BY <1>1, <1>2, <1>3, <1>4, <1>5, <1>6 DEF Shorter
<1>8. t \in Int /\ t >= 32
  BY <1>3, <1>4, <1>5
<1>9. left = IF c <= t THEN c ELSE t
  BY <1>7, <1>8 DEF Trim, Least
<1>10. CASE c <= t
  <2>1. share >= c
    BY <1>5, <1>10
  <2>2. c <= 32
    BY <1>4, <1>5, <1>10, <2>1
  <2> QED
    BY <1>6, <1>9, <1>10, <2>2 DEF Least
<1>11. CASE ~(c <= t)
  <2>1. left = t /\ t \in 0..(c - 1)
    BY <1>8, <1>9, <1>11
  <2> QED
    BY <1>6, <1>8, <2>1
<1> QED
  BY <1>10, <1>11

\* What is left of a text has no more tokens than there are.
LEMMA FitIs ==
  ASSUME NEW chars \in Nat, NEW most \in Nat
  PROVE  FitTokens(chars, most) \in 0..chars /\ Tokens(FitTokens(chars, most)) <= most
<1>1. PICK given : given = [c \in 0..chars |-> Shorter(c, most) <= Least /\ Tokens(Shorter(c, most)) > most]
  OBVIOUS
<1>2. PICK stop : stop = {c \in 0..chars : c = 0 \/ Tokens(c) <= most \/ given[c]}
  OBVIOUS
<1>3. PICK val : val = [c \in 0..chars |-> IF c = 0 \/ Tokens(c) <= most THEN c ELSE 0]
  OBVIOUS
<1>4. PICK next : next = [c \in 0..chars |-> Shorter(c, most)]
  OBVIOUS
<1>5. \A c \in 0..chars : c \notin stop => next[c] \in 0..(c - 1)
  <2> SUFFICES ASSUME NEW c \in 0..chars, c \notin stop PROVE next[c] \in 0..(c - 1)
    OBVIOUS
  <2>1. c # 0 /\ ~(Tokens(c) <= most) /\ ~given[c]
    BY <1>2
  <2>2. c \in Nat /\ c >= 1 /\ Tokens(c) > most
    BY <2>1, TokensAre
  <2>3. ~(Shorter(c, most) <= Least /\ Tokens(Shorter(c, most)) > most)
    BY <1>1, <2>1
  <2> QED
    BY <1>4, <2>2, <2>3, ShorterIs
<1>6. PICK f : f = [c \in 0..chars |-> IF c \in stop THEN val[c] ELSE f[next[c]]]
  <2>1. PICK f : Descends(f, chars, stop, val, next)
    BY <1>5, Descent
  <2> QED
    BY <2>1 DEF Descends
<1>7. PICK fit : fit = CHOOSE g : g = [c \in 0..chars |->
           IF c = 0 \/ Tokens(c) <= most THEN c
           ELSE LET left == Shorter(c, most)
                IN IF left <= Least /\ Tokens(left) > most THEN 0 ELSE g[left]]
  OBVIOUS
<1>8. fit = [c \in 0..chars |->
           IF c = 0 \/ Tokens(c) <= most THEN c
           ELSE LET left == Shorter(c, most)
                IN IF left <= Least /\ Tokens(left) > most THEN 0 ELSE fit[left]]
  <2>1. \A c \in 0..chars : (IF c \in stop THEN val[c] ELSE f[next[c]])
            = IF c = 0 \/ Tokens(c) <= most THEN c
              ELSE LET left == Shorter(c, most)
                   IN IF left <= Least /\ Tokens(left) > most THEN 0 ELSE f[left]
    <3> SUFFICES ASSUME NEW c \in 0..chars
                 PROVE  (IF c \in stop THEN val[c] ELSE f[next[c]])
                          = IF c = 0 \/ Tokens(c) <= most THEN c
                            ELSE IF Shorter(c, most) <= Least /\ Tokens(Shorter(c, most)) > most THEN 0
                            ELSE f[Shorter(c, most)]
      OBVIOUS
    <3>1. next[c] = Shorter(c, most) /\ (given[c] <=> Shorter(c, most) <= Least /\ Tokens(Shorter(c, most)) > most)
      BY <1>1, <1>4
    <3>2. c \in stop <=> c = 0 \/ Tokens(c) <= most \/ given[c]
      BY <1>2
    <3>3. val[c] = IF c = 0 \/ Tokens(c) <= most THEN c ELSE 0
      BY <1>3
    <3> QED
      BY <3>1, <3>2, <3>3
  <2>2. f = [c \in 0..chars |->
           IF c = 0 \/ Tokens(c) <= most THEN c
           ELSE LET left == Shorter(c, most)
                IN IF left <= Least /\ Tokens(left) > most THEN 0 ELSE f[left]]
    BY <1>6, <2>1
  <2> QED
    BY <1>7, <2>2
<1>9. FitTokens(chars, most) = fit[chars]
  BY <1>7 DEF FitTokens
<1>10. \A c \in 0..chars : fit[c] = IF c = 0 \/ Tokens(c) <= most THEN c
                                  ELSE IF Shorter(c, most) <= Least /\ Tokens(Shorter(c, most)) > most THEN 0
                                  ELSE fit[Shorter(c, most)]
  BY <1>8
<1>11. PICK Good : Good = {n \in 0..chars : \A c \in 0..n : fit[c] \in 0..c /\ Tokens(fit[c]) <= most}
  OBVIOUS
<1>12. Tokens(0) = 0
  BY TokensAre
<1>13. 0 \in Good
  <2>1. fit[0] = 0
    BY <1>10
  <2>2. \A c \in 0..0 : fit[c] \in 0..c /\ Tokens(fit[c]) <= most
    BY <1>12, <2>1
  <2> QED
    BY <1>11, <2>2
<1>14. \A n \in 1..chars : n - 1 \in Good => n \in Good
  <2> SUFFICES ASSUME NEW n \in 1..chars, n - 1 \in Good PROVE n \in Good
    OBVIOUS
  <2>1. \A c \in 0..(n - 1) : fit[c] \in 0..c /\ Tokens(fit[c]) <= most
    BY <1>11
  <2>2. fit[n] \in 0..n /\ Tokens(fit[n]) <= most
    <3>1. CASE Tokens(n) <= most
      <4>1. fit[n] = n
        BY <1>10, <3>1
      <4> QED
        BY <3>1, <4>1
    <3>2. CASE Shorter(n, most) <= Least /\ Tokens(Shorter(n, most)) > most /\ ~(Tokens(n) <= most)
      <4>1. fit[n] = 0
        BY <1>10, <3>2
      <4> QED
        BY <1>12, <4>1
    <3>3. CASE ~(Shorter(n, most) <= Least /\ Tokens(Shorter(n, most)) > most) /\ ~(Tokens(n) <= most)
      <4>1. Tokens(n) > most /\ n \in Nat /\ n >= 1
        BY <3>3, TokensAre
      <4>2. PICK d \in 0..(n - 1) : d = Shorter(n, most)
        BY <3>3, <4>1, ShorterIs
      <4>3. fit[n] = fit[d]
        <5>1. n # 0 /\ n \in 0..chars
          BY <4>1
        <5> QED
          BY <1>10, <3>3, <4>2, <5>1
      <4>4. fit[d] \in 0..d /\ Tokens(fit[d]) <= most
        BY <2>1, <4>2
      <4>5. fit[d] \in 0..n
        BY <4>1, <4>2, <4>4
      <4> QED
        BY <4>3, <4>4, <4>5
    <3> QED
      BY <3>1, <3>2, <3>3
  <2>3. \A c \in 0..n : c \in 0..(n - 1) \/ c = n
    OBVIOUS
  <2>4. \A c \in 0..n : fit[c] \in 0..c /\ Tokens(fit[c]) <= most
    BY <2>1, <2>2, <2>3
  <2> QED
    BY <1>11, <2>4
<1>15. chars \in Good
  <2>1. \A n \in 0..chars : n \in Good
    BY <1>13, <1>14, PrefixInduction, Zenon
  <2> QED
    BY <2>1
<1> QED
  BY <1>9, <1>11, <1>15

ContextItem == [doc : Documents, first : Int, refs : SUBSET (Documents \X Int), rank : Int, text : Seq(Paragraph), chars : Nat, cut : BOOLEAN]

\* An item in the budget that is left, the same item but for its length.
LEMMA FittedIs ==
  ASSUME NEW item \in ContextItem, NEW chars \in Int, NEW tokens \in Int
  PROVE  LET r == Fitted(item, chars, tokens)
         IN  /\ r \in ContextItem /\ r.text = item.text /\ r.refs = item.refs
             /\ r.chars # 0 => r.chars <= chars /\ Tokens(r.chars) <= tokens
<1>1. PICK r : r = Fitted(item, chars, tokens)
  OBVIOUS
<1>2. item.chars \in Nat
  BY DEF ContextItem
<1>3. CASE chars < Least \/ tokens < 1
  <2>1. r = [item EXCEPT !.chars = 0]
    BY <1>1, <1>3 DEF Fitted
  <2>2. r \in ContextItem /\ r.text = item.text /\ r.refs = item.refs /\ r.chars = 0
    BY <2>1 DEF ContextItem
  <2> QED
    BY <1>1, <2>2
<1>4. CASE ~(chars < Least \/ tokens < 1) /\ item.chars <= chars /\ Tokens(item.chars) <= tokens
  <2>1. r = item
    BY <1>1, <1>4 DEF Fitted
  <2> QED
    BY <1>1, <1>4, <2>1
<1>5. CASE ~(chars < Least \/ tokens < 1) /\ ~(item.chars <= chars /\ Tokens(item.chars) <= tokens)
  <2>1. chars >= 32 /\ tokens \in Nat
    BY <1>5 DEF Least
  <2>2. PICK t \in Nat : t = Trim(item.chars, chars) /\ t <= chars
    BY <1>2, <2>1 DEF Trim, Least
  <2>3. PICK left \in 0..t : left = FitTokens(t, tokens) /\ Tokens(left) <= tokens
    BY <2>1, <2>2, FitIs
  <2>4. r = [item EXCEPT !.chars = left, !.cut = left # item.chars]
    BY <1>1, <1>5, <2>2, <2>3 DEF Fitted
  <2>5. left \in Nat /\ left <= chars
    BY <2>2, <2>3
  <2>6. (left # item.chars) \in BOOLEAN
    OBVIOUS
  <2>7. r \in ContextItem /\ r.text = item.text /\ r.refs = item.refs /\ r.chars = left
    BY <2>4, <2>5, <2>6 DEF ContextItem
  <2> QED
    BY <1>1, <2>3, <2>5, <2>7
<1> QED
  BY <1>3, <1>4, <1>5

-----------------------------------------------------------------------------
(* The budget.                                                             *)

Bundle == [items : Seq(ContextItem), chars : Nat, tokens : Nat, cut : BOOLEAN]
Sizes(items) == [i \in DOMAIN items |-> items[i].chars]
Spent(items) == [i \in DOMAIN items |-> Tokens(items[i].chars)]

\* An item is put in when it fits what is left, or the context is cut.
FitsIn(fit, b, item, l) ==
  /\ fit \in ContextItem /\ fit.text = item.text /\ fit.refs = item.refs
  /\ fit.chars <= l.each /\ fit.chars <= l.total - b.chars
  /\ Tokens(fit.chars) <= l.tokens - b.tokens
LEMMA ItemAdded ==
  ASSUME NEW b \in Bundle, NEW item \in ContextItem, NEW l \in Limits
  PROVE  /\ WithItem(b, item, l) \in Bundle
         /\ \/ WithItem(b, item, l) = [b EXCEPT !.cut = TRUE]
            \/ /\ Len(b.items) < l.items
               /\ \E fit : /\ FitsIn(fit, b, item, l)
                           /\ WithItem(b, item, l) = [items |-> Append(b.items, fit), chars |-> b.chars + fit.chars,
                                                      tokens |-> b.tokens + Tokens(fit.chars), cut |-> b.cut \/ fit.cut]
<1>1. PICK w : w = WithItem(b, item, l)
  OBVIOUS
<1>2. b.items \in Seq(ContextItem) /\ b.chars \in Nat /\ b.tokens \in Nat /\ b.cut \in BOOLEAN
  BY DEF Bundle
<1>3. l.items \in Nat /\ l.total \in Nat /\ l.tokens \in Nat /\ l.each \in Nat
  BY ContextAssumption
<1>4. PICK most \in Int : /\ most = Min({l.each, l.total - b.chars})
                          /\ most <= l.each /\ most <= l.total - b.chars
  BY <1>2, <1>3, MinOfTwo
<1>5. PICK tokens \in Int : tokens = l.tokens - b.tokens
  BY <1>2, <1>3
<1>6. PICK fit : fit = Fitted(item, most, tokens)
  OBVIOUS
<1>7. /\ fit \in ContextItem /\ fit.text = item.text /\ fit.refs = item.refs
      /\ fit.chars # 0 => fit.chars <= most /\ Tokens(fit.chars) <= tokens
  BY <1>6, FittedIs
<1>8. [b EXCEPT !.cut = TRUE] \in Bundle
  BY DEF Bundle
<1>9. CASE Len(b.items) >= l.items
  BY <1>1, <1>8, <1>9 DEF WithItem
<1>10. CASE ~(Len(b.items) >= l.items) /\ fit.chars = 0
  BY <1>1, <1>4, <1>5, <1>6, <1>8, <1>10 DEF WithItem
<1>11. CASE ~(Len(b.items) >= l.items) /\ fit.chars # 0
  <2>1. w = [items |-> Append(b.items, fit), chars |-> b.chars + fit.chars,
             tokens |-> b.tokens + Tokens(fit.chars), cut |-> b.cut \/ fit.cut]
    BY <1>1, <1>4, <1>5, <1>6, <1>11 DEF WithItem
  <2>2. fit.chars \in Nat /\ fit.cut \in BOOLEAN
    BY <1>7 DEF ContextItem
  <2>3. FitsIn(fit, b, item, l)
    <3>1. fit.chars <= l.each /\ fit.chars <= l.total - b.chars
      BY <1>2, <1>3, <1>4, <1>7, <1>11, <2>2
    <3>2. Tokens(fit.chars) <= l.tokens - b.tokens
      BY <1>5, <1>7, <1>11
    <3> QED
      BY <1>7, <3>1, <3>2 DEF FitsIn
  <2>4. Tokens(fit.chars) \in Nat
    BY <2>2, TokensAre
  <2>5. Append(b.items, fit) \in Seq(ContextItem)
    BY <1>2, <1>7
  <2>6. b.chars + fit.chars \in Nat /\ b.tokens + Tokens(fit.chars) \in Nat /\ (b.cut \/ fit.cut) \in BOOLEAN
    BY <1>2, <2>2, <2>4
  <2>7. w \in Bundle
    BY <2>1, <2>5, <2>6 DEF Bundle
  <2>8. Len(b.items) < l.items
    BY <1>2, <1>3, <1>11
  <2> QED
    BY <1>1, <2>1, <2>3, <2>7, <2>8
<1> QED
  BY <1>9, <1>10, <1>11

Filled(items, l) == FoldLeft(LAMBDA b, item : WithItem(b, item, l), EmptyBundle, items)

\* The budget is filled an item at a time.
LEMMA FilledRun ==
  ASSUME NEW items \in Seq(ContextItem), NEW l \in Limits
  PROVE  \E p \in [0..Len(items) -> Bundle] :
           /\ p[0] = EmptyBundle /\ p[Len(items)] = Filled(items, l)
           /\ \A n \in 1..Len(items) : p[n] = WithItem(p[n - 1], items[n], l)
<1>1. PICK N : N = Len(items) /\ N \in Nat /\ DOMAIN items = 1..N
  OBVIOUS
<1>2. PICK iter : iter = CHOOSE g : g = [t \in SUBSET DOMAIN items |->
            IF t = {} THEN EmptyBundle ELSE LET x == Max(t) IN WithItem(g[t \ {x}], items[x], l)]
  OBVIOUS
<1>3. Filled(items, l) = iter[DOMAIN items]
  BY <1>2 DEF Filled, FoldLeft, MapThenFoldSet
<1>4. PICK V : V = Bundle
  OBVIOUS
<1>5. PICK step : step = [n \in 1..N |-> [v \in V |-> WithItem(v, items[n], l)]]
  OBVIOUS
<1>6. EmptyBundle \in V /\ step \in [1..N -> [V -> V]]
  <2>1. EmptyBundle \in V
    BY <1>4 DEF Bundle, EmptyBundle
  <2>2. \A n \in 1..N : \A v \in V : WithItem(v, items[n], l) \in V
    <3> SUFFICES ASSUME NEW n \in 1..N, NEW v \in V PROVE WithItem(v, items[n], l) \in V
      OBVIOUS
    <3>1. items[n] \in ContextItem /\ v \in Bundle
      BY <1>1, <1>4
    <3>2. WithItem(v, items[n], l) \in Bundle
      BY <3>1, ItemAdded
    <3> QED
      BY <1>4, <3>2
  <2> QED
    BY <1>5, <2>1, <2>2
<1>7. \A n \in 1..N : \A v \in V : step[n][v] = WithItem(v, items[n], l)
  BY <1>5
<1>8. iter = [t \in SUBSET DOMAIN items |->
            IF t = {} THEN EmptyBundle ELSE LET x == Max(t) IN WithItem(iter[t \ {x}], items[x], l)]
  <2>1. PICK f : f \in FoldsBy(N, V, EmptyBundle, step)
    <3>1. N \in Nat /\ EmptyBundle \in V /\ step \in [1..N -> [V -> V]]
      BY <1>1, <1>6
    <3>2. FoldsBy(N, V, EmptyBundle, step) # {}
      BY <3>1, FoldExists, Zenon
    <3> QED
      BY <3>2
  <2>2. /\ f \in [SUBSET (1..N) -> V]
        /\ \A t \in SUBSET (1..N) : f[t] = IF t = {} THEN EmptyBundle ELSE step[Max(t)][f[t \ {Max(t)}]]
    BY <2>1 DEF FoldsBy
  <2>3. ASSUME NEW t \in SUBSET (1..N)
        PROVE  f[t] = IF t = {} THEN EmptyBundle ELSE LET x == Max(t) IN WithItem(f[t \ {x}], items[x], l)
    <3>1. t # {} => Max(t) \in 1..N
      BY <1>1, MaxIn
    <3>2. f[t \ {Max(t)}] \in V
      BY <2>2
    <3> QED
      BY <1>7, <2>2, <3>1, <3>2
  <2>4. f = [t \in SUBSET DOMAIN items |->
            IF t = {} THEN EmptyBundle ELSE LET x == Max(t) IN WithItem(f[t \ {x}], items[x], l)]
    BY <1>1, <2>2, <2>3
  <2> QED
    BY <1>2, <2>4
<1>9. iter[{}] = EmptyBundle
  BY <1>8
<1>10. \A t \in SUBSET (1..N) : t # {} /\ iter[t \ {Max(t)}] \in V => iter[t] = step[Max(t)][iter[t \ {Max(t)}]]
  <2> SUFFICES ASSUME NEW t \in SUBSET (1..N), t # {}, iter[t \ {Max(t)}] \in V
               PROVE  iter[t] = step[Max(t)][iter[t \ {Max(t)}]]
    OBVIOUS
  <2>1. Max(t) \in 1..N
    BY <1>1, MaxIn
  <2>2. iter[t] = WithItem(iter[t \ {Max(t)}], items[Max(t)], l)
    BY <1>1, <1>8
  <2> QED
    BY <1>7, <2>1, <2>2
<1>a. iter[1..N] \in {q[N] : q \in RunsOf(N, V, EmptyBundle, step)}
  BY <1>1, <1>6, <1>9, <1>10, FoldRun
<1>11. PICK p \in RunsOf(N, V, EmptyBundle, step) : iter[1..N] = p[N]
  BY <1>a
<1>12. p \in [0..N -> V] /\ p[0] = EmptyBundle /\ \A n \in 1..N : p[n] = step[n][p[n - 1]]
  BY <1>11 DEF RunsOf
<1>13. \A n \in 1..N : p[n] = WithItem(p[n - 1], items[n], l)
  <2>1. \A n \in 1..N : p[n - 1] \in V
    BY <1>1, <1>12
  <2> QED
    BY <1>7, <1>12, <2>1
<1> QED
  BY <1>1, <1>3, <1>4, <1>11, <1>12, <1>13

\* What the bundle has of the first items.
InBudget(b, l, items, n) ==
  /\ Len(b.items) <= l.items
  /\ b.chars = SumOf(Sizes(b.items)) /\ b.chars <= l.total
  /\ b.tokens = SumOf(Spent(b.items)) /\ b.tokens <= l.tokens
  /\ \A i \in 1..Len(b.items) : b.items[i].chars <= l.each /\ \E m \in 1..n : b.items[i].refs = items[m].refs
  /\ \A i, k \in 1..Len(b.items) : i # k => b.items[i].refs \cap b.items[k].refs = {}
  /\ ~b.cut => \A m \in 1..n : \E i \in 1..Len(b.items) : b.items[i].text = items[m].text

\* One item more.
LEMMA NextItem ==
  ASSUME NEW items \in Seq(ContextItem), NEW l \in Limits, NEW n \in 1..Len(items), NEW b \in Bundle,
         \A m, k \in 1..Len(items) : m # k => items[m].refs \cap items[k].refs = {},
         InBudget(b, l, items, n - 1)
  PROVE  InBudget(WithItem(b, items[n], l), l, items, n)
<1>1. PICK w : w = WithItem(b, items[n], l)
  OBVIOUS
<1>2. PICK item \in ContextItem : item = items[n]
  OBVIOUS
<1>3. b.items \in Seq(ContextItem) /\ b.chars \in Nat /\ b.tokens \in Nat /\ b.cut \in BOOLEAN
  BY DEF Bundle
<1>4. l.items \in Nat /\ l.total \in Nat /\ l.tokens \in Nat /\ l.each \in Nat
  BY ContextAssumption
<1>5. /\ Len(b.items) <= l.items
      /\ b.chars = SumOf(Sizes(b.items)) /\ b.chars <= l.total
      /\ b.tokens = SumOf(Spent(b.items)) /\ b.tokens <= l.tokens
      /\ \A i \in 1..Len(b.items) : b.items[i].chars <= l.each /\ \E m \in 1..(n - 1) : b.items[i].refs = items[m].refs
      /\ \A i, k \in 1..Len(b.items) : i # k => b.items[i].refs \cap b.items[k].refs = {}
      /\ ~b.cut => \A m \in 1..(n - 1) : \E i \in 1..Len(b.items) : b.items[i].text = items[m].text
  BY DEF InBudget
<1>6. \A m \in 1..(n - 1) : m \in 1..n /\ m \in 1..Len(items) /\ m # n
  OBVIOUS
<1>7. CASE w = [b EXCEPT !.cut = TRUE]
  <2>1. w.items = b.items /\ w.chars = b.chars /\ w.tokens = b.tokens /\ w.cut = TRUE
    BY <1>7 DEF Bundle
  <2>2. \A i \in 1..Len(b.items) : b.items[i].chars <= l.each /\ \E m \in 1..n : b.items[i].refs = items[m].refs
    BY <1>5, <1>6
  <2> QED
    BY <1>1, <1>5, <2>1, <2>2 DEF InBudget
<1>8. CASE /\ Len(b.items) < l.items
           /\ \E fit : /\ FitsIn(fit, b, item, l)
                       /\ w = [items |-> Append(b.items, fit), chars |-> b.chars + fit.chars,
                               tokens |-> b.tokens + Tokens(fit.chars), cut |-> b.cut \/ fit.cut]
  <2>1. PICK fit : /\ FitsIn(fit, b, item, l)
                   /\ w = [items |-> Append(b.items, fit), chars |-> b.chars + fit.chars,
                           tokens |-> b.tokens + Tokens(fit.chars), cut |-> b.cut \/ fit.cut]
    BY <1>8
  <2>2. /\ fit \in ContextItem /\ fit.text = item.text /\ fit.refs = item.refs
        /\ fit.chars <= l.each /\ fit.chars <= l.total - b.chars
        /\ Tokens(fit.chars) <= l.tokens - b.tokens
    BY <2>1 DEF FitsIn
  <2>3. fit.chars \in Nat /\ Tokens(fit.chars) \in Nat
    BY <2>2, TokensAre DEF ContextItem
  <2>4. PICK own : own = b.items
    OBVIOUS
  <2>5. PICK L \in Nat : L = Len(own)
    BY <1>3, <2>4
  <2>6. own \in Seq(ContextItem) /\ DOMAIN own = 1..L
    BY <1>3, <2>4, <2>5
  <2>7. PICK all : all = Append(own, fit)
    OBVIOUS
  <2>8. /\ all \in Seq(ContextItem) /\ Len(all) = L + 1 /\ DOMAIN all = 1..(L + 1)
        /\ all[L + 1] = fit /\ \A i \in 1..L : all[i] = own[i]
    BY <2>2, <2>5, <2>6, <2>7
  <2>9. w.items = all /\ w.chars = b.chars + fit.chars /\ w.tokens = b.tokens + Tokens(fit.chars)
        /\ (w.cut <=> b.cut \/ fit.cut)
    BY <2>1, <2>4, <2>7
  <2>10. Sizes(own) \in Seq(Nat) /\ Sizes(all) = Append(Sizes(own), fit.chars)
    <3>1. \A i \in 1..L : own[i].chars \in Nat
      <4>1. \A i \in 1..L : own[i] \in ContextItem
        BY <2>5, <2>6
      <4>2. \A some \in ContextItem : some.chars \in Nat
        BY DEF ContextItem
      <4> QED
        BY <4>1, <4>2
    <3>2. PICK s : s = Sizes(own)
      OBVIOUS
    <3>3. s = [i \in 1..L |-> own[i].chars]
      BY <2>6, <3>2 DEF Sizes
    <3>4. s \in Seq(Nat) /\ Len(s) = L
      BY <2>5, <3>1, <3>3
    <3>5. PICK x \in Nat : x = fit.chars
      BY <2>3
    <3>6. PICK t : t = Append(s, x)
      OBVIOUS
    <3>7. t \in Seq(Nat) /\ Len(t) = L + 1 /\ t[L + 1] = x /\ \A i \in 1..L : t[i] = s[i]
      BY <3>4, <3>6
    <3>8. Sizes(all) = [i \in 1..(L + 1) |-> all[i].chars]
      BY <2>8 DEF Sizes
    <3>9. \A i \in 1..(L + 1) : t[i] = all[i].chars
      <4> SUFFICES ASSUME NEW i \in 1..(L + 1) PROVE t[i] = all[i].chars
        OBVIOUS
      <4>1. CASE i = L + 1
        BY <2>8, <3>5, <3>7, <4>1
      <4>2. CASE i # L + 1
        <5>1. i \in 1..L
          BY <4>2
        <5> QED
          BY <2>8, <3>3, <3>7, <5>1
      <4> QED
        BY <4>1, <4>2
    <3>10. t = [i \in 1..(L + 1) |-> t[i]]
      BY <3>7
    <3> QED
      BY <3>2, <3>4, <3>5, <3>6, <3>8, <3>9, <3>10
  <2>11. Spent(own) \in Seq(Nat) /\ Spent(all) = Append(Spent(own), Tokens(fit.chars))
    <3>1. \A i \in 1..L : Tokens(own[i].chars) \in Nat
      <4> SUFFICES ASSUME NEW i \in 1..L PROVE Tokens(own[i].chars) \in Nat
        OBVIOUS
      <4>1. own[i].chars \in Nat
        <5>1. own[i] \in ContextItem
          BY <2>5, <2>6
        <5>2. \A some \in ContextItem : some.chars \in Nat
          BY DEF ContextItem
        <5> QED
          BY <5>1, <5>2
      <4> QED
        BY <4>1, TokensAre
    <3>2. PICK s : s = Spent(own)
      OBVIOUS
    <3>3. s = [i \in 1..L |-> Tokens(own[i].chars)]
      BY <2>6, <3>2 DEF Spent
    <3>4. s \in Seq(Nat) /\ Len(s) = L
      BY <2>5, <3>1, <3>3
    <3>5. PICK x \in Nat : x = Tokens(fit.chars)
      BY <2>3
    <3>6. PICK t : t = Append(s, x)
      OBVIOUS
    <3>7. t \in Seq(Nat) /\ Len(t) = L + 1 /\ t[L + 1] = x /\ \A i \in 1..L : t[i] = s[i]
      BY <3>4, <3>6
    <3>8. Spent(all) = [i \in 1..(L + 1) |-> Tokens(all[i].chars)]
      BY <2>8 DEF Spent
    <3>9. \A i \in 1..(L + 1) : t[i] = Tokens(all[i].chars)
      <4> SUFFICES ASSUME NEW i \in 1..(L + 1) PROVE t[i] = Tokens(all[i].chars)
        OBVIOUS
      <4>1. CASE i = L + 1
        BY <2>8, <3>5, <3>7, <4>1
      <4>2. CASE i # L + 1
        <5>1. i \in 1..L
          BY <4>2
        <5> QED
          BY <2>8, <3>3, <3>7, <5>1
      <4> QED
        BY <4>1, <4>2
    <3>10. t = [i \in 1..(L + 1) |-> t[i]]
      BY <3>7
    <3> QED
      BY <3>2, <3>4, <3>5, <3>6, <3>8, <3>9, <3>10
  <2>12. w.chars = SumOf(Sizes(w.items)) /\ w.chars <= l.total
    <3>1. SumOf(Append(Sizes(own), fit.chars)) = SumOf(Sizes(own)) + fit.chars
      BY <2>3, <2>10, SumAppended
    <3>2. w.chars <= l.total
      BY <1>3, <1>4, <2>2, <2>3, <2>9
    <3> QED
      BY <1>5, <2>4, <2>9, <2>10, <3>1, <3>2
  <2>13. w.tokens = SumOf(Spent(w.items)) /\ w.tokens <= l.tokens
    <3>1. SumOf(Append(Spent(own), Tokens(fit.chars))) = SumOf(Spent(own)) + Tokens(fit.chars)
      BY <2>3, <2>11, SumAppended
    <3>2. w.tokens <= l.tokens
      BY <1>3, <1>4, <2>2, <2>3, <2>9
    <3> QED
      BY <1>5, <2>4, <2>9, <2>11, <3>1, <3>2
  <2>14. Len(w.items) <= l.items
    BY <1>4, <1>8, <2>4, <2>5, <2>8, <2>9
  <2>15. fit.refs = items[n].refs /\ fit.text = items[n].text
    BY <1>2, <2>2
  <2>16. \A i \in 1..L : own[i].chars <= l.each /\ \E m \in 1..(n - 1) : own[i].refs = items[m].refs
    BY <1>5, <2>4, <2>5
  <2>17. \A i \in 1..(L + 1) : i \in 1..L \/ i = L + 1
    OBVIOUS
  <2>18. \A i \in 1..(L + 1) : all[i].chars <= l.each /\ \E m \in 1..n : all[i].refs = items[m].refs
    <3> SUFFICES ASSUME NEW i \in 1..(L + 1)
                 PROVE  all[i].chars <= l.each /\ \E m \in 1..n : all[i].refs = items[m].refs
      OBVIOUS
    <3>1. CASE i \in 1..L
      BY <1>6, <2>8, <2>16, <3>1
    <3>2. CASE i = L + 1
      <4>1. n \in 1..n
        OBVIOUS
      <4> QED
        BY <2>2, <2>8, <2>15, <3>2, <4>1
    <3> QED
      BY <2>17, <3>1, <3>2
  <2>19. \A i \in 1..L : own[i].refs \cap fit.refs = {}
    <3> SUFFICES ASSUME NEW i \in 1..L PROVE own[i].refs \cap fit.refs = {}
      OBVIOUS
    <3>1. PICK m \in 1..(n - 1) : own[i].refs = items[m].refs
      BY <2>16
    <3>2. items[m].refs \cap items[n].refs = {}
      BY <1>6
    <3> QED
      BY <2>15, <3>1, <3>2
  <2>20. \A i, k \in 1..(L + 1) : i # k => all[i].refs \cap all[k].refs = {}
    <3> SUFFICES ASSUME NEW i \in 1..(L + 1), NEW k \in 1..(L + 1), i # k PROVE all[i].refs \cap all[k].refs = {}
      OBVIOUS
    <3>1. CASE i \in 1..L /\ k \in 1..L
      BY <1>5, <2>4, <2>5, <2>8, <3>1
    <3>2. CASE i \in 1..L /\ k = L + 1
      BY <2>8, <2>19, <3>2
    <3>3. CASE i = L + 1 /\ k \in 1..L
      BY <2>8, <2>19, <3>3
    <3> QED
      BY <2>17, <3>1, <3>2, <3>3
  <2>21. ~w.cut => \A m \in 1..n : \E i \in 1..(L + 1) : all[i].text = items[m].text
    <3> SUFFICES ASSUME ~w.cut, NEW m \in 1..n PROVE \E i \in 1..(L + 1) : all[i].text = items[m].text
      OBVIOUS
    <3>1. CASE m = n
      BY <2>8, <2>15, <3>1
    <3>2. CASE m # n
      <4>1. m \in 1..(n - 1) /\ ~b.cut
        BY <2>9, <3>2
      <4>2. PICK i \in 1..L : own[i].text = items[m].text
        BY <1>5, <2>4, <2>5, <4>1
      <4>3. i \in 1..(L + 1)
        OBVIOUS
      <4> QED
        BY <2>8, <4>2, <4>3
    <3> QED
      BY <3>1, <3>2
  <2> QED
    BY <1>1, <2>8, <2>9, <2>12, <2>13, <2>14, <2>18, <2>20, <2>21 DEF InBudget
<1> QED
  <2>1. \/ w = [b EXCEPT !.cut = TRUE]
        \/ /\ Len(b.items) < l.items
           /\ \E fit : /\ FitsIn(fit, b, item, l)
                       /\ w = [items |-> Append(b.items, fit), chars |-> b.chars + fit.chars,
                               tokens |-> b.tokens + Tokens(fit.chars), cut |-> b.cut \/ fit.cut]
    BY <1>1, <1>2, ItemAdded, Zenon
  <2> QED
    BY <1>7, <1>8, <2>1

\* The bundle of all items is within its budget.
LEMMA FilledInBudget ==
  ASSUME NEW items \in Seq(ContextItem), NEW l \in Limits,
         \A m, k \in 1..Len(items) : m # k => items[m].refs \cap items[k].refs = {}
  PROVE  Filled(items, l) \in Bundle /\ InBudget(Filled(items, l), l, items, Len(items))
<1>1. PICK N : N = Len(items) /\ N \in Nat
  OBVIOUS
<1>2. PICK p \in [0..N -> Bundle] : /\ p[0] = EmptyBundle /\ p[N] = Filled(items, l)
                                    /\ \A n \in 1..N : p[n] = WithItem(p[n - 1], items[n], l)
  BY <1>1, FilledRun
<1>3. PICK Good : Good = {n \in 0..N : InBudget(p[n], l, items, n)}
  OBVIOUS
<1>4. 0 \in Good
  <2>1. p[0].items = <<>> /\ p[0].chars = 0 /\ p[0].tokens = 0
    BY <1>2 DEF EmptyBundle
  <2>2. Sizes(<<>>) = <<>> /\ Spent(<<>>) = <<>> /\ Len(<<>>) = 0
    BY DEF Sizes, Spent
  <2>3. l.items \in Nat /\ l.total \in Nat /\ l.tokens \in Nat
    BY ContextAssumption
  <2>4. InBudget(p[0], l, items, 0)
    BY <2>1, <2>2, <2>3, NoSum DEF InBudget
  <2> QED
    BY <1>1, <1>3, <2>4
<1>5. \A n \in 1..N : n - 1 \in Good => n \in Good
  <2> SUFFICES ASSUME NEW n \in 1..N, n - 1 \in Good PROVE n \in Good
    OBVIOUS
  <2>1. InBudget(p[n - 1], l, items, n - 1) /\ p[n - 1] \in Bundle /\ n \in 1..Len(items)
    BY <1>1, <1>2, <1>3
  <2>2. InBudget(WithItem(p[n - 1], items[n], l), l, items, n)
    BY <2>1, NextItem
  <2> QED
    BY <1>1, <1>2, <1>3, <2>2
<1>6. N \in Good
  <2>1. \A n \in 0..N : n \in Good
    BY <1>1, <1>4, <1>5, PrefixInduction, Zenon
  <2> QED
    BY <1>1, <2>1
<1> QED
  BY <1>1, <1>2, <1>3, <1>6

-----------------------------------------------------------------------------
(* Orders.                                                                 *)

\* What a search can find: a vector of a chunk that is there.
Hit == [id : Documents \X Int, doc : Documents, at : Int, vector : Int, rank : Int]
Hits == {h \in Hit : h.id = <<h.doc, h.at>> /\ h.at \in 1..Len(chunks[h.doc])}
HitsOf(d) == {h \in Hits : h.doc = d}

\* The best first.
LEMMA BestFirst ==
  ASSUME NEW R \in SUBSET Hits, IsFiniteSet(R)
  PROVE  \E s \in Seq(Hits) :
           /\ s = InOrder(R, Best) /\ Len(s) = Cardinality(R)
           /\ \A i \in 1..Len(s) : s[i] \in R
           /\ \A r \in R : \E i \in 1..Len(s) : r = s[i]
           /\ \A i, k \in 1..Len(s) : s[i] = s[k] => i = k
<1>1. PICK below : below = [x \in R |-> {y \in R : Best(y, x)}]
  OBVIOUS
<1>2. \A x \in R : x.rank \in Int /\ x.doc \in Int /\ x.at \in Int /\ x.vector \in Int
  BY ContextAssumption DEF Hit, Hits, Documents
<1>3. Precedes(R, below)
  <2>1. \A x \in R : x \notin below[x]
    BY <1>1, <1>2 DEF Best
  <2>2. \A x \in R : \A y \in below[x] : below[y] \subseteq below[x]
    <3> SUFFICES ASSUME NEW x \in R, NEW y \in R, NEW z \in R, Best(y, x), Best(z, y) PROVE Best(z, x)
      BY <1>1
    <3> QED
      BY <1>2 DEF Best
  <2>3. \A x \in R : \A y \in R : x # y => x \in below[y] \/ y \in below[x]
    <3>1. SUFFICES ASSUME NEW x \in R, NEW y \in R, x # y PROVE Best(x, y) \/ Best(y, x)
      BY <1>1
    <3>2. x.rank # y.rank \/ x.doc # y.doc \/ x.at # y.at \/ x.vector # y.vector
      <4>1. x = [id |-> <<x.doc, x.at>>, doc |-> x.doc, at |-> x.at, vector |-> x.vector, rank |-> x.rank]
        BY DEF Hit, Hits
      <4>2. y = [id |-> <<y.doc, y.at>>, doc |-> y.doc, at |-> y.at, vector |-> y.vector, rank |-> y.rank]
        BY DEF Hit, Hits
      <4> QED
        BY <3>1, <4>1, <4>2
    <3> QED
      BY <1>2, <3>2 DEF Best
  <2>4. below \in [R -> SUBSET R]
    BY <1>1
  <2> QED
    BY <2>1, <2>2, <2>3, <2>4 DEF Precedes
<1>4. PICK N : N = Cardinality(R) /\ N \in Nat
  BY FS_CardinalityType
<1>5. PICK s \in [1..N -> R] :
        /\ \A i \in 1..N : \A x \in R : Cardinality(below[x]) = i - 1 <=> x = s[i]
        /\ \A x \in R : \E i \in 1..N : x = s[i]
        /\ \A i, k \in 1..N : s[i] = s[k] => i = k
  <2>1. \E list \in [1..Cardinality(R) -> R] :
           /\ \A i \in 1..Cardinality(R) : \A x \in R : Cardinality(below[x]) = i - 1 <=> x = list[i]
           /\ \A x \in R : \E i \in 1..Cardinality(R) : x = list[i]
           /\ \A i, k \in 1..Cardinality(R) : i < k => list[i] \in below[list[k]]
           /\ \A i, k \in 1..Cardinality(R) : list[i] = list[k] => i = k
    BY <1>3, OrderIs
  <2> QED
    BY <1>4, <2>1
<1>6. s \in Seq(Hits) /\ Len(s) = N /\ \A i \in 1..N : s[i] \in R
  <2>1. \A i \in 1..N : s[i] \in R /\ s[i] \in Hits
    BY <1>5
  <2>2. s \in [1..N -> Hits] /\ N \in Nat
    BY <1>4, <1>5
  <2> QED
    BY <2>1, <2>2
<1>7. InOrder(R, Best) = [i \in 1..N |-> CHOOSE x \in R : Cardinality({y \in R : Best(y, x)}) = i - 1]
  BY <1>4 DEF InOrder
<1>8. \A i \in 1..N : s[i] = CHOOSE x \in R : Cardinality({y \in R : Best(y, x)}) = i - 1
  <2> SUFFICES ASSUME NEW i \in 1..N PROVE s[i] = CHOOSE x \in R : Cardinality({y \in R : Best(y, x)}) = i - 1
    OBVIOUS
  <2>1. \A x \in R : Cardinality({y \in R : Best(y, x)}) = i - 1 <=> x = s[i]
    BY <1>1, <1>5
  <2> QED
    BY <1>6, <2>1
<1>9. s = [i \in 1..N |-> s[i]]
  BY <1>5
<1>10. s = InOrder(R, Best)
  BY <1>7, <1>8, <1>9
<1> QED
  BY <1>4, <1>5, <1>6, <1>10

\* By their places in a document.
LEMMA ByPlaceFirst ==
  ASSUME NEW d, NEW R \in SUBSET HitsOf(d), IsFiniteSet(R)
  PROVE  \E s \in Seq(HitsOf(d)) :
           /\ s = InOrder(R, ByPlace) /\ Len(s) = Cardinality(R)
           /\ \A i \in 1..Len(s) : s[i] \in R
           /\ \A r \in R : \E i \in 1..Len(s) : r = s[i]
           /\ \A i, k \in 1..Len(s) : s[i] = s[k] => i = k
<1>1. PICK below : below = [x \in R |-> {y \in R : ByPlace(y, x)}]
  OBVIOUS
<1>2. \A x \in R : x.rank \in Int /\ x.doc \in Int /\ x.at \in Int /\ x.vector \in Int
  BY ContextAssumption DEF HitsOf, Hit, Hits, Documents
<1>3. Precedes(R, below)
  <2>1. \A x \in R : x \notin below[x]
    BY <1>1, <1>2 DEF ByPlace, Best
  <2>2. \A x \in R : \A y \in below[x] : below[y] \subseteq below[x]
    <3> SUFFICES ASSUME NEW x \in R, NEW y \in R, NEW z \in R, ByPlace(y, x), ByPlace(z, y) PROVE ByPlace(z, x)
      BY <1>1
    <3> QED
      BY <1>2 DEF ByPlace, Best
  <2>3. \A x \in R : \A y \in R : x # y => x \in below[y] \/ y \in below[x]
    <3>1. SUFFICES ASSUME NEW x \in R, NEW y \in R, x # y PROVE ByPlace(x, y) \/ ByPlace(y, x)
      BY <1>1
    <3>2. x.rank # y.rank \/ x.doc # y.doc \/ x.at # y.at \/ x.vector # y.vector
      <4>1. x = [id |-> <<x.doc, x.at>>, doc |-> x.doc, at |-> x.at, vector |-> x.vector, rank |-> x.rank]
        BY DEF HitsOf, Hit, Hits
      <4>2. y = [id |-> <<y.doc, y.at>>, doc |-> y.doc, at |-> y.at, vector |-> y.vector, rank |-> y.rank]
        BY DEF HitsOf, Hit, Hits
      <4> QED
        BY <3>1, <4>1, <4>2
    <3> QED
      BY <1>2, <3>2 DEF ByPlace, Best
  <2>4. below \in [R -> SUBSET R]
    BY <1>1
  <2> QED
    BY <2>1, <2>2, <2>3, <2>4 DEF Precedes
<1>4. PICK N : N = Cardinality(R) /\ N \in Nat
  BY FS_CardinalityType
<1>5. PICK s \in [1..N -> R] :
        /\ \A i \in 1..N : \A x \in R : Cardinality(below[x]) = i - 1 <=> x = s[i]
        /\ \A x \in R : \E i \in 1..N : x = s[i]
        /\ \A i, k \in 1..N : s[i] = s[k] => i = k
  <2>1. \E list \in [1..Cardinality(R) -> R] :
           /\ \A i \in 1..Cardinality(R) : \A x \in R : Cardinality(below[x]) = i - 1 <=> x = list[i]
           /\ \A x \in R : \E i \in 1..Cardinality(R) : x = list[i]
           /\ \A i, k \in 1..Cardinality(R) : i < k => list[i] \in below[list[k]]
           /\ \A i, k \in 1..Cardinality(R) : list[i] = list[k] => i = k
    BY <1>3, OrderIs
  <2> QED
    BY <1>4, <2>1
<1>6. s \in Seq(HitsOf(d)) /\ Len(s) = N /\ \A i \in 1..N : s[i] \in R
  <2>1. \A i \in 1..N : s[i] \in R /\ s[i] \in HitsOf(d)
    BY <1>5
  <2>2. s \in [1..N -> HitsOf(d)] /\ N \in Nat
    BY <1>4, <1>5
  <2> QED
    BY <2>1, <2>2
<1>7. InOrder(R, ByPlace) = [i \in 1..N |-> CHOOSE x \in R : Cardinality({y \in R : ByPlace(y, x)}) = i - 1]
  BY <1>4 DEF InOrder
<1>8. \A i \in 1..N : s[i] = CHOOSE x \in R : Cardinality({y \in R : ByPlace(y, x)}) = i - 1
  <2> SUFFICES ASSUME NEW i \in 1..N PROVE s[i] = CHOOSE x \in R : Cardinality({y \in R : ByPlace(y, x)}) = i - 1
    OBVIOUS
  <2>1. \A x \in R : Cardinality({y \in R : ByPlace(y, x)}) = i - 1 <=> x = s[i]
    BY <1>1, <1>5
  <2> QED
    BY <1>6, <2>1
<1>9. s = [i \in 1..N |-> s[i]]
  BY <1>5
<1>10. s = InOrder(R, ByPlace)
  BY <1>7, <1>8, <1>9
<1> QED
  BY <1>4, <1>5, <1>6, <1>10

\* Items, the best first.
LEMMA BeforeFirst ==
  ASSUME NEW R \in SUBSET ContextItem, IsFiniteSet(R),
         \A x, y \in R : x # y => x.doc # y.doc \/ x.first # y.first
  PROVE  \E s \in Seq(ContextItem) :
           /\ s = InOrder(R, Better) /\ Len(s) = Cardinality(R)
           /\ \A i \in 1..Len(s) : s[i] \in R
           /\ \A r \in R : \E i \in 1..Len(s) : r = s[i]
           /\ \A i, k \in 1..Len(s) : s[i] = s[k] => i = k
<1>1. PICK below : below = [x \in R |-> {y \in R : Better(y, x)}]
  OBVIOUS
<1>2. \A x \in R : x.rank \in Int /\ x.doc \in Int /\ x.first \in Int
  BY ContextAssumption DEF ContextItem, Documents
<1>3. Precedes(R, below)
  <2>1. \A x \in R : x \notin below[x]
    BY <1>1, <1>2 DEF Better
  <2>2. \A x \in R : \A y \in below[x] : below[y] \subseteq below[x]
    <3> SUFFICES ASSUME NEW x \in R, NEW y \in R, NEW z \in R, Better(y, x), Better(z, y) PROVE Better(z, x)
      BY <1>1
    <3> QED
      BY <1>2 DEF Better
  <2>3. \A x \in R : \A y \in R : x # y => x \in below[y] \/ y \in below[x]
    <3>1. SUFFICES ASSUME NEW x \in R, NEW y \in R, x # y PROVE Better(x, y) \/ Better(y, x)
      BY <1>1
    <3>2. x.doc # y.doc \/ x.first # y.first
      BY <3>1
    <3> QED
      BY <1>2, <3>2 DEF Better
  <2>4. below \in [R -> SUBSET R]
    BY <1>1
  <2> QED
    BY <2>1, <2>2, <2>3, <2>4 DEF Precedes
<1>4. PICK N : N = Cardinality(R) /\ N \in Nat
  BY FS_CardinalityType
<1>5. PICK s \in [1..N -> R] :
        /\ \A i \in 1..N : \A x \in R : Cardinality(below[x]) = i - 1 <=> x = s[i]
        /\ \A x \in R : \E i \in 1..N : x = s[i]
        /\ \A i, k \in 1..N : s[i] = s[k] => i = k
  <2>1. \E list \in [1..Cardinality(R) -> R] :
           /\ \A i \in 1..Cardinality(R) : \A x \in R : Cardinality(below[x]) = i - 1 <=> x = list[i]
           /\ \A x \in R : \E i \in 1..Cardinality(R) : x = list[i]
           /\ \A i, k \in 1..Cardinality(R) : i < k => list[i] \in below[list[k]]
           /\ \A i, k \in 1..Cardinality(R) : list[i] = list[k] => i = k
    BY <1>3, OrderIs
  <2> QED
    BY <1>4, <2>1
<1>6. s \in Seq(ContextItem) /\ Len(s) = N /\ \A i \in 1..N : s[i] \in R
  <2>1. \A i \in 1..N : s[i] \in R /\ s[i] \in ContextItem
    BY <1>5
  <2>2. s \in [1..N -> ContextItem] /\ N \in Nat
    BY <1>4, <1>5
  <2> QED
    BY <2>1, <2>2
<1>7. InOrder(R, Better) = [i \in 1..N |-> CHOOSE x \in R : Cardinality({y \in R : Better(y, x)}) = i - 1]
  BY <1>4 DEF InOrder
<1>8. \A i \in 1..N : s[i] = CHOOSE x \in R : Cardinality({y \in R : Better(y, x)}) = i - 1
  <2> SUFFICES ASSUME NEW i \in 1..N PROVE s[i] = CHOOSE x \in R : Cardinality({y \in R : Better(y, x)}) = i - 1
    OBVIOUS
  <2>1. \A x \in R : Cardinality({y \in R : Better(y, x)}) = i - 1 <=> x = s[i]
    BY <1>1, <1>5
  <2> QED
    BY <1>6, <2>1
<1>9. s = [i \in 1..N |-> s[i]]
  BY <1>5
<1>10. s = InOrder(R, Better)
  BY <1>7, <1>8, <1>9
<1> QED
  BY <1>4, <1>5, <1>6, <1>10

\* Items by their sources.
LEMMA BySourceFirst ==
  ASSUME NEW R \in SUBSET ContextItem, IsFiniteSet(R),
         \A x, y \in R : x # y => x.doc # y.doc \/ x.first # y.first
  PROVE  \E s \in Seq(ContextItem) :
           /\ s = InOrder(R, BySource) /\ Len(s) = Cardinality(R)
           /\ \A i \in 1..Len(s) : s[i] \in R
           /\ \A r \in R : \E i \in 1..Len(s) : r = s[i]
           /\ \A i, k \in 1..Len(s) : s[i] = s[k] => i = k
<1>1. PICK below : below = [x \in R |-> {y \in R : BySource(y, x)}]
  OBVIOUS
<1>2. \A x \in R : x.rank \in Int /\ x.doc \in Int /\ x.first \in Int /\ SourceOf[x.doc] \in Int
  BY ContextAssumption DEF ContextItem, Documents
<1>3. Precedes(R, below)
  <2>1. \A x \in R : x \notin below[x]
    BY <1>1, <1>2 DEF BySource, Better
  <2>2. \A x \in R : \A y \in below[x] : below[y] \subseteq below[x]
    <3> SUFFICES ASSUME NEW x \in R, NEW y \in R, NEW z \in R, BySource(y, x), BySource(z, y) PROVE BySource(z, x)
      BY <1>1
    <3> QED
      BY <1>2 DEF BySource, Better
  <2>3. \A x \in R : \A y \in R : x # y => x \in below[y] \/ y \in below[x]
    <3>1. SUFFICES ASSUME NEW x \in R, NEW y \in R, x # y PROVE BySource(x, y) \/ BySource(y, x)
      BY <1>1
    <3>2. x.doc # y.doc \/ x.first # y.first
      BY <3>1
    <3> QED
      BY <1>2, <3>2 DEF BySource, Better
  <2>4. below \in [R -> SUBSET R]
    BY <1>1
  <2> QED
    BY <2>1, <2>2, <2>3, <2>4 DEF Precedes
<1>4. PICK N : N = Cardinality(R) /\ N \in Nat
  BY FS_CardinalityType
<1>5. PICK s \in [1..N -> R] :
        /\ \A i \in 1..N : \A x \in R : Cardinality(below[x]) = i - 1 <=> x = s[i]
        /\ \A x \in R : \E i \in 1..N : x = s[i]
        /\ \A i, k \in 1..N : s[i] = s[k] => i = k
  <2>1. \E list \in [1..Cardinality(R) -> R] :
           /\ \A i \in 1..Cardinality(R) : \A x \in R : Cardinality(below[x]) = i - 1 <=> x = list[i]
           /\ \A x \in R : \E i \in 1..Cardinality(R) : x = list[i]
           /\ \A i, k \in 1..Cardinality(R) : i < k => list[i] \in below[list[k]]
           /\ \A i, k \in 1..Cardinality(R) : list[i] = list[k] => i = k
    BY <1>3, OrderIs
  <2> QED
    BY <1>4, <2>1
<1>6. s \in Seq(ContextItem) /\ Len(s) = N /\ \A i \in 1..N : s[i] \in R
  <2>1. \A i \in 1..N : s[i] \in R /\ s[i] \in ContextItem
    BY <1>5
  <2>2. s \in [1..N -> ContextItem] /\ N \in Nat
    BY <1>4, <1>5
  <2> QED
    BY <2>1, <2>2
<1>7. InOrder(R, BySource) = [i \in 1..N |-> CHOOSE x \in R : Cardinality({y \in R : BySource(y, x)}) = i - 1]
  BY <1>4 DEF InOrder
<1>8. \A i \in 1..N : s[i] = CHOOSE x \in R : Cardinality({y \in R : BySource(y, x)}) = i - 1
  <2> SUFFICES ASSUME NEW i \in 1..N PROVE s[i] = CHOOSE x \in R : Cardinality({y \in R : BySource(y, x)}) = i - 1
    OBVIOUS
  <2>1. \A x \in R : Cardinality({y \in R : BySource(y, x)}) = i - 1 <=> x = s[i]
    BY <1>1, <1>5
  <2> QED
    BY <1>6, <2>1
<1>9. s = [i \in 1..N |-> s[i]]
  BY <1>5
<1>10. s = InOrder(R, BySource)
  BY <1>7, <1>8, <1>9
<1> QED
  BY <1>4, <1>5, <1>6, <1>10

-----------------------------------------------------------------------------
(* Merging.                                                                *)

\* A list has finitely many items.
LEMMA ListFinite ==
  ASSUME NEW S, NEW s \in Seq(S)
  PROVE  IsFiniteSet(ToSet(s)) /\ ToSet(s) \in SUBSET S /\ ToSet(s) = {s[i] : i \in 1..Len(s)}
<1>1. Len(s) \in Nat /\ DOMAIN s = 1..Len(s) /\ \A i \in 1..Len(s) : s[i] \in S
  OBVIOUS
<1>2. IsFiniteSet(1..Len(s))
  BY <1>1, FS_Interval
<1>3. ToSet(s) = {s[i] : i \in 1..Len(s)}
  BY <1>1 DEF ToSet
<1>4. IsFiniteSet({s[i] : i \in 1..Len(s)})
  BY <1>2, ImageFinite
<1> QED
  BY <1>1, <1>3, <1>4

LEMMA MinIn ==
  ASSUME NEW S \in SUBSET Nat, S # {}
  PROVE  Min(S) \in S /\ \A y \in S : Min(S) <= y
<1>1. PICK n \in S : \A i \in S : n <= i
  BY LeastOf
<1> QED
  BY <1>1 DEF Min

\* The largest of some integers is one.
LEMMA MaxOfList ==
  ASSUME NEW N \in Nat, N # 0, NEW f \in [1..N -> Int]
  PROVE  Max({f[k] : k \in 1..N}) \in Int /\ \A k \in 1..N : f[k] <= Max({f[k2] : k2 \in 1..N})
<1>1. PICK Good : Good = {n \in 0..N : n = 0 \/ \E m \in 1..n : \A k \in 1..n : f[k] <= f[m]}
  OBVIOUS
<1>2. 0 \in Good
  BY <1>1
<1>3. \A n \in 1..N : n - 1 \in Good => n \in Good
  <2> SUFFICES ASSUME NEW n \in 1..N, n - 1 \in Good PROVE n \in Good
    OBVIOUS
  <2>1. n - 1 = 0 \/ \E m \in 1..(n - 1) : \A k \in 1..(n - 1) : f[k] <= f[m]
    BY <1>1
  <2>2. \A k \in 1..n : k \in 1..(n - 1) \/ k = n
    OBVIOUS
  <2>3. \A k \in 1..n : f[k] \in Int
    OBVIOUS
  <2>4. CASE n - 1 = 0
    BY <1>1, <2>3, <2>4
  <2>5. CASE \E m \in 1..(n - 1) : \A k \in 1..(n - 1) : f[k] <= f[m]
    <3>1. PICK m \in 1..(n - 1) : \A k \in 1..(n - 1) : f[k] <= f[m]
      BY <2>5
    <3>2. m \in 1..n /\ n \in 1..n
      OBVIOUS
    <3>3. CASE f[m] >= f[n]
      BY <1>1, <2>2, <2>3, <3>1, <3>2, <3>3
    <3>4. CASE ~(f[m] >= f[n])
      <4>1. \A k \in 1..n : f[k] <= f[n]
        <5> SUFFICES ASSUME NEW k \in 1..n PROVE f[k] <= f[n]
          OBVIOUS
        <5>1. PICK a \in Int, b \in Int, c \in Int : a = f[k] /\ b = f[n] /\ c = f[m]
          BY <2>3, <3>2
        <5>2. k # n => a <= c
          BY <2>2, <3>1, <5>1
        <5>3. ~(c >= b)
          BY <3>4, <5>1
        <5>4. a <= b
          BY <5>1, <5>2, <5>3
        <5> QED
          BY <5>1, <5>4
      <4> QED
        BY <1>1, <3>2, <4>1
    <3> QED
      BY <3>3, <3>4
  <2> QED
    BY <2>1, <2>4, <2>5
<1>4. PICK m \in 1..N : \A k \in 1..N : f[k] <= f[m]
  <2>1. \A n \in 0..N : n \in Good
    BY <1>2, <1>3, PrefixInduction, Zenon
  <2>2. N \in Good
    BY <2>1
  <2> QED
    BY <1>1, <2>2
<1>5. PICK S : S = {f[k] : k \in 1..N}
  OBVIOUS
<1>6. f[m] \in S /\ \A y \in S : f[m] >= y
  BY <1>4, <1>5
<1>7. Max(S) \in S /\ \A y \in S : Max(S) >= y
  BY <1>6 DEF Max
<1> QED
  BY <1>5, <1>7

ChunksHere == \A d \in Documents : chunks[d] \in Seq(ChunkPiece)

\* What is read of a hit is a text.
LEMMA ContentIs == ASSUME ChunksHere, NEW h \in Hits PROVE Content(h) \in Seq(Paragraph)
<1>1. h.doc \in Documents /\ h.at \in 1..Len(chunks[h.doc])
  BY DEF Hits, Hit
<1>2. PICK c : c = chunks[h.doc]
  OBVIOUS
<1>3. c \in Seq(ChunkPiece) /\ h.at \in 1..Len(c)
  BY <1>1, <1>2 DEF ChunksHere
<1>4. c[h.at] \in ChunkPiece
  BY <1>3
<1> QED
  BY <1>2, <1>4 DEF Content, ChunkPiece

\* Two texts in one: nothing of either is lost.
LEMMA JoinedHasBoth ==
  ASSUME NEW left \in Seq(Paragraph), NEW right \in Seq(Paragraph)
  PROVE  /\ Joined2(left, right) \in Seq(Paragraph)
         /\ ToSet(left) \subseteq ToSet(Joined2(left, right)) /\ ToSet(right) \subseteq ToSet(Joined2(left, right))
<1>1. PICK j : j = Joined2(left, right)
  OBVIOUS
<1>2. PICK common : common = {n \in 1 .. Min({Len(left), Len(right)}) :
                               /\ LastOf(left, n) = SubSeq(right, 1, n)
                               /\ Chars(SubSeq(right, 1, n)) \in 32 .. 240}
  OBVIOUS
<1>3. j = IF left = right THEN left
          ELSE IF common = {} THEN left \o right
          ELSE left \o SubSeq(right, Max(common) + 1, Len(right))
  BY <1>1, <1>2 DEF Joined2
<1>4. CASE left = right
  BY <1>1, <1>3, <1>4
<1>5. CASE left # right /\ common = {}
  <2>1. j = left \o right
    BY <1>3, <1>5
  <2> QED
    BY <1>1, <2>1, ConcatSet
<1>6. CASE left # right /\ common # {}
  <2>1. PICK L \in Nat, R \in Nat : L = Len(left) /\ R = Len(right)
    OBVIOUS
  <2>2. PICK least \in Nat : least = Min({L, R}) /\ least <= L /\ least <= R
    BY MinOfTwo
  <2>3. \A n \in common : n \in 1..least /\ LastOf(left, n) = SubSeq(right, 1, n)
    BY <1>2, <2>1, <2>2
  <2>4. PICK n \in common : n = Max(common)
    <3>1. common \in SUBSET (1..least)
      BY <2>3
    <3> QED
      BY <1>6, <3>1, MaxIn
  <2>5. n \in Nat /\ n >= 1 /\ n <= L /\ n <= R /\ LastOf(left, n) = SubSeq(right, 1, n)
    <3>1. n \in 1..least /\ LastOf(left, n) = SubSeq(right, 1, n)
      BY <2>3
    <3> QED
      BY <2>1, <2>2, <3>1
  <2>6. PICK rest : rest = SubSeq(right, n + 1, R)
    OBVIOUS
  <2>7. /\ rest \in Seq(Paragraph) /\ Len(rest) = R - n
        /\ \A k \in 1..(R - n) : rest[k] = right[n + k]
    <3>1. /\ n + 1 \in Nat /\ R \in Nat /\ 1 <= n + 1 /\ n + 1 <= R + 1 /\ R <= Len(right)
      BY <2>1, <2>5
    <3>2. /\ rest \in Seq(Paragraph) /\ Len(rest) = R - (n + 1) + 1
          /\ \A k \in 1..(R - (n + 1) + 1) : rest[k] = right[(n + 1) + k - 1]
      BY <2>6, <3>1, PartIs
    <3>3. R - (n + 1) + 1 = R - n /\ \A k \in 1..(R - n) : (n + 1) + k - 1 = n + k
      BY <2>1, <2>5
    <3> QED
      BY <3>2, <3>3
  <2>8. j = left \o rest
    BY <1>3, <1>6, <2>1, <2>4, <2>6
  <2>9. j \in Seq(Paragraph) /\ ToSet(j) = ToSet(left) \cup ToSet(rest)
    BY <2>7, <2>8, ConcatSet
  <2>10. \A i \in 1..R : right[i] \in ToSet(left) \cup ToSet(rest)
    <3> SUFFICES ASSUME NEW i \in 1..R PROVE right[i] \in ToSet(left) \cup ToSet(rest)
      OBVIOUS
    <3>1. CASE i <= n
      <4>1. PICK part : part = SubSeq(right, 1, n)
        OBVIOUS
      <4>2. part[i] = right[i]
        <5>1. 1 \in Nat /\ n \in Nat /\ 1 <= 1 /\ 1 <= n + 1 /\ n <= Len(right)
          BY <2>1, <2>5
        <5>2. \A k \in 1..(n - 1 + 1) : part[k] = right[1 + k - 1]
          BY <4>1, <5>1, PartIs
        <5>3. i \in 1..(n - 1 + 1) /\ 1 + i - 1 = i
          BY <2>5, <3>1
        <5> QED
          BY <5>2, <5>3
      <4>3. /\ Len(LastOf(left, n)) = n
            /\ \A k \in 1..Len(LastOf(left, n)) : LastOf(left, n)[k] = left[Len(left) - Len(LastOf(left, n)) + k]
        BY <2>1, <2>5, LastOnes
      <4>4. part[i] = left[L - n + i]
        <5>1. i \in 1..n
          BY <2>5, <3>1
        <5> QED
          BY <2>1, <2>5, <4>1, <4>3, <5>1
      <4>5. L - n + i \in 1..L
        BY <2>5, <3>1
      <4>6. left[L - n + i] \in ToSet(left)
        BY <2>1, <4>5 DEF ToSet
      <4> QED
        BY <4>2, <4>4, <4>6
    <3>2. CASE ~(i <= n)
      <4>1. PICK k \in 1..(R - n) : n + k = i
        <5>1. i - n \in 1..(R - n) /\ n + (i - n) = i
          BY <2>5, <3>2
        <5> QED
          BY <5>1
      <4>2. rest[k] = right[i] /\ k \in DOMAIN rest
        BY <2>7, <4>1
      <4> QED
        BY <4>2 DEF ToSet
    <3> QED
      BY <3>1, <3>2
  <2>11. ToSet(right) \subseteq ToSet(j)
    <3>1. ToSet(right) = {right[i] : i \in 1..R}
      BY <2>1 DEF ToSet
    <3> QED
      BY <2>9, <2>10, <3>1
  <2> QED
    BY <1>1, <2>9, <2>11
<1> QED
  BY <1>4, <1>5, <1>6

Read(s, r) == IF s = <<>> THEN Content(r) ELSE Joined2(s, Content(r))
LEMMA ReadIs ==
  ASSUME ChunksHere, NEW s \in Seq(Paragraph), NEW h \in Hits
  PROVE  /\ Read(s, h) \in Seq(Paragraph)
         /\ ToSet(s) \subseteq ToSet(Read(s, h)) /\ ToSet(Content(h)) \subseteq ToSet(Read(s, h))
<1>1. Content(h) \in Seq(Paragraph)
  BY ContentIs
<1>2. CASE s = <<>>
  <2>1. ToSet(<<>>) = {}
    BY DEF ToSet
  <2> QED
    BY <1>1, <1>2, <2>1 DEF Read
<1>3. CASE s # <<>>
  BY <1>1, <1>3, JoinedHasBoth DEF Read
<1> QED
  BY <1>2, <1>3

Said(merged) == FoldLeft(LAMBDA s, r : IF s = <<>> THEN Content(r) ELSE Joined2(s, Content(r)), <<>>, merged)

\* Merged results are read one after the other.
LEMMA SaidRun ==
  ASSUME ChunksHere, NEW merged \in Seq(Hits)
  PROVE  \E p \in [0..Len(merged) -> Seq(Paragraph)] :
           /\ p[0] = <<>> /\ p[Len(merged)] = Said(merged)
           /\ \A n \in 1..Len(merged) : p[n] = (IF p[n - 1] = <<>> THEN Content(merged[n]) ELSE Joined2(p[n - 1], Content(merged[n])))
<1>1. PICK N : N = Len(merged) /\ N \in Nat /\ DOMAIN merged = 1..N
  OBVIOUS
<1>2. PICK iter : iter = CHOOSE g : g = [t \in SUBSET DOMAIN merged |->
            IF t = {} THEN <<>> ELSE LET x == Max(t) IN (IF g[t \ {x}] = <<>> THEN Content(merged[x]) ELSE Joined2(g[t \ {x}], Content(merged[x])))]
  OBVIOUS
<1>3. Said(merged) = iter[DOMAIN merged]
  BY <1>2 DEF Said, FoldLeft, MapThenFoldSet
<1>4. PICK V : V = Seq(Paragraph)
  OBVIOUS
<1>5. PICK step : step = [n \in 1..N |-> [v \in V |-> (IF v = <<>> THEN Content(merged[n]) ELSE Joined2(v, Content(merged[n])))]]
  OBVIOUS
<1>6. <<>> \in V /\ step \in [1..N -> [V -> V]]
  <2>1. <<>> \in V
    BY <1>4
  <2>2. \A n \in 1..N : \A v \in V : (IF v = <<>> THEN Content(merged[n]) ELSE Joined2(v, Content(merged[n]))) \in V
    <3> SUFFICES ASSUME NEW n \in 1..N, NEW v \in V
                 PROVE  (IF v = <<>> THEN Content(merged[n]) ELSE Joined2(v, Content(merged[n]))) \in V
      OBVIOUS
    <3>1. merged[n] \in Hits /\ v \in Seq(Paragraph)
      BY <1>1, <1>4
    <3>2. Read(v, merged[n]) \in Seq(Paragraph)
      BY <3>1, ReadIs
    <3> QED
      BY <1>4, <3>2 DEF Read
  <2> QED
    BY <1>5, <2>1, <2>2
<1>7. \A n \in 1..N : \A v \in V : step[n][v] = (IF v = <<>> THEN Content(merged[n]) ELSE Joined2(v, Content(merged[n])))
  BY <1>5
<1>8. iter = [t \in SUBSET DOMAIN merged |->
            IF t = {} THEN <<>> ELSE LET x == Max(t) IN (IF iter[t \ {x}] = <<>> THEN Content(merged[x]) ELSE Joined2(iter[t \ {x}], Content(merged[x])))]
  <2>1. PICK f : f \in FoldsBy(N, V, <<>>, step)
    <3>1. N \in Nat /\ <<>> \in V /\ step \in [1..N -> [V -> V]]
      BY <1>1, <1>6
    <3>2. FoldsBy(N, V, <<>>, step) # {}
      BY <3>1, FoldExists, Zenon
    <3> QED
      BY <3>2
  <2>2. /\ f \in [SUBSET (1..N) -> V]
        /\ \A t \in SUBSET (1..N) : f[t] = IF t = {} THEN <<>> ELSE step[Max(t)][f[t \ {Max(t)}]]
    BY <2>1 DEF FoldsBy
  <2>3. ASSUME NEW t \in SUBSET (1..N)
        PROVE  f[t] = IF t = {} THEN <<>> ELSE LET x == Max(t) IN (IF f[t \ {x}] = <<>> THEN Content(merged[x]) ELSE Joined2(f[t \ {x}], Content(merged[x])))
    <3>1. t # {} => Max(t) \in 1..N
      BY <1>1, MaxIn
    <3>2. f[t \ {Max(t)}] \in V
      BY <2>2
    <3> QED
      BY <1>7, <2>2, <3>1, <3>2
  <2>4. f = [t \in SUBSET DOMAIN merged |->
            IF t = {} THEN <<>> ELSE LET x == Max(t) IN (IF f[t \ {x}] = <<>> THEN Content(merged[x]) ELSE Joined2(f[t \ {x}], Content(merged[x])))]
    BY <1>1, <2>2, <2>3
  <2> QED
    BY <1>2, <2>4
<1>9. iter[{}] = <<>>
  BY <1>8
<1>10. \A t \in SUBSET (1..N) : t # {} /\ iter[t \ {Max(t)}] \in V => iter[t] = step[Max(t)][iter[t \ {Max(t)}]]
  <2> SUFFICES ASSUME NEW t \in SUBSET (1..N), t # {}, iter[t \ {Max(t)}] \in V
               PROVE  iter[t] = step[Max(t)][iter[t \ {Max(t)}]]
    OBVIOUS
  <2>1. Max(t) \in 1..N
    BY <1>1, MaxIn
  <2>2. iter[t] = (IF iter[t \ {Max(t)}] = <<>> THEN Content(merged[Max(t)]) ELSE Joined2(iter[t \ {Max(t)}], Content(merged[Max(t)])))
    BY <1>1, <1>8
  <2> QED
    BY <1>7, <2>1, <2>2
<1>a. iter[1..N] \in {q[N] : q \in RunsOf(N, V, <<>>, step)}
  BY <1>1, <1>6, <1>9, <1>10, FoldRun
<1>11. PICK p \in RunsOf(N, V, <<>>, step) : iter[1..N] = p[N]
  BY <1>a
<1>12. p \in [0..N -> V] /\ p[0] = <<>> /\ \A n \in 1..N : p[n] = step[n][p[n - 1]]
  BY <1>11 DEF RunsOf
<1>13. \A n \in 1..N : p[n] = (IF p[n - 1] = <<>> THEN Content(merged[n]) ELSE Joined2(p[n - 1], Content(merged[n])))
  <2>1. \A n \in 1..N : p[n - 1] \in V
    BY <1>1, <1>12
  <2> QED
    BY <1>7, <1>12, <2>1
<1> QED
  BY <1>1, <1>3, <1>4, <1>11, <1>12, <1>13

\* The text of merged results has all they say.
LEMMA SaidIs ==
  ASSUME ChunksHere, NEW merged \in Seq(Hits)
  PROVE  Said(merged) \in Seq(Paragraph) /\ \A k \in 1..Len(merged) : ToSet(Content(merged[k])) \subseteq ToSet(Said(merged))
<1>1. PICK N : N = Len(merged) /\ N \in Nat
  OBVIOUS
<1>2. PICK p \in [0..N -> Seq(Paragraph)] :
        /\ p[0] = <<>> /\ p[N] = Said(merged)
        /\ \A n \in 1..N : p[n] = (IF p[n - 1] = <<>> THEN Content(merged[n]) ELSE Joined2(p[n - 1], Content(merged[n])))
  BY <1>1, SaidRun
<1>3. PICK Good : Good = {n \in 0..N : \A k \in 1..n : ToSet(Content(merged[k])) \subseteq ToSet(p[n])}
  OBVIOUS
<1>4. 0 \in Good
  BY <1>1, <1>3
<1>5. \A n \in 1..N : n - 1 \in Good => n \in Good
  <2> SUFFICES ASSUME NEW n \in 1..N, n - 1 \in Good PROVE n \in Good
    OBVIOUS
  <2>1. \A k \in 1..(n - 1) : ToSet(Content(merged[k])) \subseteq ToSet(p[n - 1])
    BY <1>3
  <2>2. p[n] = Read(p[n - 1], merged[n])
    BY <1>2 DEF Read
  <2>3. p[n - 1] \in Seq(Paragraph) /\ merged[n] \in Hits
    BY <1>1, <1>2
  <2>4. ToSet(p[n - 1]) \subseteq ToSet(p[n]) /\ ToSet(Content(merged[n])) \subseteq ToSet(p[n])
    BY <2>2, <2>3, ReadIs
  <2>5. \A k \in 1..n : k \in 1..(n - 1) \/ k = n
    BY <1>1
  <2> QED
    BY <1>1, <1>3, <2>1, <2>4, <2>5
<1>6. N \in Good
  <2>1. \A n \in 0..N : n \in Good
    BY <1>1, <1>4, <1>5, PrefixInduction, Zenon
  <2> QED
    BY <1>1, <2>1
<1> QED
  BY <1>1, <1>2, <1>3, <1>6

\* An item says what all its results say, and names them.
Says(item) == /\ <<item.doc, item.first>> \in item.refs
              /\ \A h \in Hits : h.id \in item.refs => ToSet(Content(h)) \subseteq ToSet(item.text)

\* Two hits of one chunk read the same.
LEMMA SameChunk ==
  ASSUME NEW g \in Hits, NEW h \in Hits, g.id = h.id
  PROVE  Content(g) = Content(h)
<1>1. g.id = <<g.doc, g.at>> /\ h.id = <<h.doc, h.at>>
  BY DEF Hits
<1>2. g.doc = h.doc /\ g.at = h.at
  <2>1. \A a, b, c, d : <<a, b>> = <<c, d>> => a = c /\ b = d
    OBVIOUS
  <2>2. <<g.doc, g.at>> = <<h.doc, h.at>>
    BY <1>1
  <2> QED
    BY <2>1, <2>2, Zenon
<1> QED
  BY <1>2 DEF Content

\* An item of merged results says what they say.
LEMMA ItemIs ==
  ASSUME ChunksHere, NEW merged \in Seq(Hits), merged # <<>>
  PROVE  /\ Item(merged) \in ContextItem /\ Item(merged).refs = {r.id : r \in ToSet(merged)}
         /\ Says(Item(merged))
<1>1. PICK N : N = Len(merged) /\ N \in Nat /\ N # 0 /\ DOMAIN merged = 1..N
  OBVIOUS
<1>2. PICK item : item = Item(merged)
  OBVIOUS
<1>3. PICK refs, top, text : /\ refs = {r.id : r \in ToSet(merged)} /\ top = Max({r.rank : r \in ToSet(merged)})
                             /\ text = Said(merged)
  OBVIOUS
<1>4. item = [doc |-> merged[1].doc, first |-> merged[1].at, refs |-> refs, rank |-> top, text |-> text,
              chars |-> Chars(text), cut |-> FALSE]
  BY <1>2, <1>3 DEF Item, Said
<1>5. ToSet(merged) = {merged[k] : k \in 1..N} /\ \A k \in 1..N : merged[k] \in Hits
  BY <1>1 DEF ToSet
<1>6. merged[1] \in Hits /\ merged[1] \in ToSet(merged)
  <2>1. 1 \in 1..N
    BY <1>1
  <2> QED
    BY <1>5, <2>1
<1>7. top \in Int
  <2>1. PICK f : f = [k \in 1..N |-> merged[k].rank]
    OBVIOUS
  <2>2. f \in [1..N -> Int]
    <3>1. \A h \in Hits : h.rank \in Int
      BY DEF Hits, Hit
    <3> QED
      BY <1>5, <2>1, <3>1
  <2>3. {r.rank : r \in ToSet(merged)} = {f[k] : k \in 1..N}
    BY <1>5, <2>1
  <2>4. Max({f[k] : k \in 1..N}) \in Int
    BY <1>1, <2>2, MaxOfList
  <2> QED
    BY <1>3, <2>3, <2>4
<1>8. text \in Seq(Paragraph) /\ \A k \in 1..N : ToSet(Content(merged[k])) \subseteq ToSet(text)
  BY <1>1, <1>3, SaidIs
<1>9. Chars(text) \in Nat
  BY <1>8, CharsAre
<1>10. \A h \in Hits : h.id \in Documents \X Int /\ h.doc \in Documents /\ h.at \in Int /\ h.id = <<h.doc, h.at>>
  BY DEF Hits, Hit
<1>11. refs \in SUBSET (Documents \X Int)
  BY <1>3, <1>5, <1>10
<1>12. item \in ContextItem /\ item.refs = refs /\ item.text = text /\ item.doc = merged[1].doc /\ item.first = merged[1].at
  BY <1>4, <1>6, <1>7, <1>8, <1>9, <1>10, <1>11 DEF ContextItem
<1>13. <<item.doc, item.first>> \in item.refs
  <2>1. merged[1].id \in refs
    BY <1>3, <1>6
  <2> QED
    BY <1>6, <1>10, <1>12, <2>1
<1>14. \A h \in Hits : h.id \in item.refs => ToSet(Content(h)) \subseteq ToSet(item.text)
  <2> SUFFICES ASSUME NEW h \in Hits, h.id \in refs PROVE ToSet(Content(h)) \subseteq ToSet(text)
    BY <1>12
  <2>1. PICK k \in 1..N : h.id = merged[k].id
    BY <1>3, <1>5
  <2>2. Content(h) = Content(merged[k])
    BY <1>5, <2>1, SameChunk
  <2> QED
    BY <1>8, <2>2
<1> QED
  BY <1>2, <1>3, <1>12, <1>13, <1>14 DEF Says

\* The results around one: of its document, itself among them, none used.
LEMMA NeighboursAre ==
  ASSUME NEW found \in Seq(Hits), NEW seed \in ToSet(found), NEW used, seed.id \notin used
  PROVE  LET near == Neighbours(seed, found, used)
         IN  /\ near \in Seq(Hits) /\ near # <<>>
             /\ \A k \in 1..Len(near) : near[k].id \notin used
             /\ \E k \in 1..Len(near) : near[k].id = seed.id
<1> DEFINE Own     == InOrder({r \in ToSet(found) : r.doc = seed.doc}, ByPlace)
           I       == Min({k \in DOMAIN Own : Own[k].id = seed.id})
           Near(k) == Own[k + 1].at - Own[k].at <= Window
           Back    == {k \in 1 .. I : \A n \in k .. I - 1 : Own[n].id \notin used /\ Near(n)}
           Ahead   == {k \in I .. Len(Own) : \A n \in I + 1 .. k : Own[n].id \notin used /\ Near(n - 1)}
<1>1. PICK near, own, i, from, to : /\ near = Neighbours(seed, found, used)
                                    /\ own = Own /\ i = I /\ from = Min(Back) /\ to = Max(Ahead)
  OBVIOUS
<1>16. near = IF Window = 0 THEN <<seed>> ELSE SubSeq(own, from, to)
  BY <1>1 DEF Neighbours
<1>2. IsFiniteSet(ToSet(found)) /\ ToSet(found) \in SUBSET Hits
  BY ListFinite
<1>3. PICK R : R = {r \in ToSet(found) : r.doc = seed.doc}
  OBVIOUS
<1>4. IsFiniteSet(R) /\ R \in SUBSET HitsOf(seed.doc) /\ seed \in R
  BY <1>2, <1>3, FS_Subset DEF HitsOf
<1>5. /\ own \in Seq(HitsOf(seed.doc))
      /\ \A k \in 1..Len(own) : own[k] \in R
      /\ \A r \in R : \E k \in 1..Len(own) : r = own[k]
  <2>1. own = InOrder(R, ByPlace)
    BY <1>1, <1>3
  <2>2. \E s \in Seq(HitsOf(seed.doc)) :
           /\ s = InOrder(R, ByPlace) /\ Len(s) = Cardinality(R)
           /\ \A k \in 1..Len(s) : s[k] \in R
           /\ \A r \in R : \E k \in 1..Len(s) : r = s[k]
           /\ \A k, m \in 1..Len(s) : s[k] = s[m] => k = m
    BY <1>4, ByPlaceFirst
  <2> QED
    BY <2>1, <2>2
<1>6. PICK L : L = Len(own) /\ L \in Nat /\ DOMAIN own = 1..L
  BY <1>5
<1>7. own \in Seq(Hits)
  BY <1>5 DEF HitsOf
<1>8. PICK A : A = {k \in 1..L : own[k].id = seed.id}
  OBVIOUS
<1>9. i = Min(A)
  BY <1>1, <1>6, <1>8
<1>10. i \in 1..L /\ own[i].id = seed.id
  <2>1. PICK k \in 1..L : own[k] = seed
    BY <1>4, <1>5, <1>6
  <2>2. A \in SUBSET Nat /\ A # {}
    BY <1>8, <2>1
  <2>3. i \in A
    BY <1>9, <2>2, MinIn
  <2> QED
    BY <1>8, <2>3
<1>14. from \in 1..i /\ \A n \in from..(i - 1) : own[n].id \notin used
  <2>1. PICK B : B = Back
    OBVIOUS
  <2>2. \A k : k \in B => k \in 1..i /\ \A n \in k..(i - 1) : own[n].id \notin used
    BY <1>1, <2>1
  <2>3. i \in B
    <3>1. i \in 1..i /\ \A n \in i..(i - 1) : FALSE
      BY <1>6, <1>10
    <3> QED
      BY <1>1, <2>1, <3>1
  <2>4. B \in SUBSET Nat /\ B # {}
    <3>1. \A k \in 1..i : k \in Nat
      BY <1>6, <1>10
    <3> QED
      BY <2>2, <2>3, <3>1
  <2>5. from \in B
    BY <1>1, <2>1, <2>4, MinIn
  <2> QED
    BY <2>2, <2>5
<1>15. to \in i..L /\ \A n \in (i + 1)..to : own[n].id \notin used
  <2>1. PICK C : C = Ahead
    OBVIOUS
  <2>2. \A k : k \in C => k \in i..L /\ \A n \in (i + 1)..k : own[n].id \notin used
    BY <1>1, <1>6, <2>1
  <2>3. i \in C
    <3>1. i \in i..L /\ \A n \in (i + 1)..i : FALSE
      BY <1>6, <1>10
    <3> QED
      BY <1>1, <1>6, <2>1, <3>1
  <2>4. C \in SUBSET (1..L) /\ C # {}
    <3>1. \A k \in i..L : k \in 1..L
      BY <1>6, <1>10
    <3> QED
      BY <2>2, <2>3, <3>1
  <2>5. to \in C
    BY <1>1, <1>6, <2>1, <2>4, MaxIn
  <2> QED
    BY <2>2, <2>5
<1> HIDE DEF Own, I, Near, Back, Ahead
<1>17. CASE Window = 0
  <2>1. near = <<seed>> /\ seed \in Hits
    BY <1>2, <1>16, <1>17
  <2>2. near \in Seq(Hits) /\ Len(near) = 1 /\ near[1] = seed
    BY <2>1
  <2>3. near # <<>> /\ 1 \in 1..Len(near) /\ \A k \in 1..Len(near) : k = 1
    <3>1. 1 \in 1..1 /\ \A k \in 1..1 : k = 1
      OBVIOUS
    <3>2. near # <<>>
      BY <2>1
    <3> QED
      BY <2>2, <3>1, <3>2
  <2> QED
    BY <1>1, <2>2, <2>3
<1>18. CASE Window # 0
  <2>1. near = SubSeq(own, from, to)
    BY <1>16, <1>18
  <2>2. from \in Nat /\ to \in Nat /\ i \in Nat /\ 1 <= from /\ from <= i /\ i <= to /\ from <= to + 1 /\ to <= Len(own)
    BY <1>6, <1>10, <1>14, <1>15
  <2>3. /\ near \in Seq(Hits) /\ Len(near) = to - from + 1
        /\ \A k \in 1..(to - from + 1) : near[k] = own[from + k - 1]
    BY <1>7, <2>1, <2>2, PartIs
  <2>4. \A n \in from..to : own[n].id \notin used
    <3> SUFFICES ASSUME NEW n \in from..to PROVE own[n].id \notin used
      OBVIOUS
    <3>1. n \in from..(i - 1) \/ n = i \/ n \in (i + 1)..to
      BY <2>2
    <3> QED
      BY <1>10, <1>14, <1>15, <3>1
  <2>5. \A k \in 1..(to - from + 1) : near[k].id \notin used
    <3> SUFFICES ASSUME NEW k \in 1..(to - from + 1) PROVE near[k].id \notin used
      OBVIOUS
    <3>1. from + k - 1 \in from..to
      BY <2>2
    <3> QED
      BY <2>3, <2>4, <3>1
  <2>6. near[i - from + 1].id = seed.id /\ i - from + 1 \in 1..(to - from + 1)
    <3>1. PICK k \in 1..(to - from + 1) : k = i - from + 1 /\ from + k - 1 = i
      BY <2>2
    <3> QED
      BY <1>10, <2>3, <3>1
  <2>7. near # <<>>
    <3>1. Len(near) # 0
      BY <2>2, <2>3
    <3> QED
      BY <2>3, <3>1
  <2> QED
    BY <1>1, <2>3, <2>5, <2>6, <2>7
<1> QED
  BY <1>17, <1>18

-----------------------------------------------------------------------------
(* Candidates.                                                             *)

Gathering == [used : SUBSET (Documents \X Int), items : Seq(ContextItem)]
Nothing == [used |-> {}, items |-> <<>>]
GatheredOf(found) == FoldLeft(LAMBDA s, r : WithResult(s, r, found), Nothing, found)

\* A result that no item has begins one.
LEMMA ResultAdded ==
  ASSUME ChunksHere, NEW found \in Seq(Hits), NEW r \in ToSet(found), NEW s \in Gathering
  PROVE  /\ WithResult(s, r, found) \in Gathering
         /\ r.id \in s.used => WithResult(s, r, found) = s
         /\ r.id \notin s.used =>
              \E item \in ContextItem : /\ WithResult(s, r, found) = [used |-> s.used \cup item.refs, items |-> Append(s.items, item)]
                                        /\ Says(item) /\ item.refs \cap s.used = {} /\ r.id \in item.refs
<1>1. PICK w : w = WithResult(s, r, found)
  OBVIOUS
<1>2. CASE r.id \in s.used
  <2>1. w = s
    BY <1>1, <1>2 DEF WithResult
  <2> QED
    BY <1>1, <1>2, <2>1
<1>3. CASE r.id \notin s.used
  <2>1. PICK merged : merged = Neighbours(r, found, s.used)
    OBVIOUS
  <2>2. /\ merged \in Seq(Hits) /\ merged # <<>>
        /\ \A k \in 1..Len(merged) : merged[k].id \notin s.used
        /\ \E k \in 1..Len(merged) : merged[k].id = r.id
    BY <1>3, <2>1, NeighboursAre
  <2>3. PICK item : item = Item(merged)
    OBVIOUS
  <2>4. item \in ContextItem /\ item.refs = {m.id : m \in ToSet(merged)} /\ Says(item)
    BY <2>2, <2>3, ItemIs
  <2>5. w = [used |-> s.used \cup item.refs, items |-> Append(s.items, item)]
    BY <1>1, <1>3, <2>1, <2>3, <2>4 DEF WithResult
  <2>6. ToSet(merged) = {merged[k] : k \in 1..Len(merged)}
    BY <2>2, ListFinite
  <2>7. item.refs \cap s.used = {} /\ r.id \in item.refs
    BY <2>2, <2>4, <2>6
  <2>8. s.items \in Seq(ContextItem) /\ s.used \in SUBSET (Documents \X Int) /\ item.refs \in SUBSET (Documents \X Int)
    BY <2>4 DEF Gathering, ContextItem
  <2>9. Append(s.items, item) \in Seq(ContextItem) /\ s.used \cup item.refs \in SUBSET (Documents \X Int)
    BY <2>4, <2>8
  <2>10. w \in Gathering
    BY <2>5, <2>9 DEF Gathering
  <2> QED
    BY <1>1, <1>3, <2>4, <2>5, <2>7, <2>10
<1> QED
  BY <1>2, <1>3

\* Items are gathered a result at a time.
LEMMA GatheredRun ==
  ASSUME ChunksHere, NEW found \in Seq(Hits)
  PROVE  \E p \in [0..Len(found) -> Gathering] :
           /\ p[0] = Nothing /\ p[Len(found)] = GatheredOf(found)
           /\ \A n \in 1..Len(found) : p[n] = WithResult(p[n - 1], found[n], found)
<1>1. PICK N : N = Len(found) /\ N \in Nat /\ DOMAIN found = 1..N
  OBVIOUS
<1>2. PICK iter : iter = CHOOSE g : g = [t \in SUBSET DOMAIN found |->
            IF t = {} THEN Nothing ELSE LET x == Max(t) IN WithResult(g[t \ {x}], found[x], found)]
  OBVIOUS
<1>3. GatheredOf(found) = iter[DOMAIN found]
  BY <1>2 DEF GatheredOf, FoldLeft, MapThenFoldSet
<1>4. PICK V : V = Gathering
  OBVIOUS
<1>5. PICK step : step = [n \in 1..N |-> [v \in V |-> WithResult(v, found[n], found)]]
  OBVIOUS
<1>6. Nothing \in V /\ step \in [1..N -> [V -> V]]
  <2>1. Nothing \in V
    BY <1>4 DEF Gathering, Nothing
  <2>2. \A n \in 1..N : \A v \in V : WithResult(v, found[n], found) \in V
    <3> SUFFICES ASSUME NEW n \in 1..N, NEW v \in V PROVE WithResult(v, found[n], found) \in V
      OBVIOUS
    <3>1. found[n] \in ToSet(found) /\ v \in Gathering
      BY <1>1, <1>4 DEF ToSet
    <3>2. WithResult(v, found[n], found) \in Gathering
      BY <3>1, ResultAdded
    <3> QED
      BY <1>4, <3>2
  <2> QED
    BY <1>5, <2>1, <2>2
<1>7. \A n \in 1..N : \A v \in V : step[n][v] = WithResult(v, found[n], found)
  BY <1>5
<1>8. iter = [t \in SUBSET DOMAIN found |->
            IF t = {} THEN Nothing ELSE LET x == Max(t) IN WithResult(iter[t \ {x}], found[x], found)]
  <2>1. PICK f : f \in FoldsBy(N, V, Nothing, step)
    <3>1. N \in Nat /\ Nothing \in V /\ step \in [1..N -> [V -> V]]
      BY <1>1, <1>6
    <3>2. FoldsBy(N, V, Nothing, step) # {}
      BY <3>1, FoldExists, Zenon
    <3> QED
      BY <3>2
  <2>2. /\ f \in [SUBSET (1..N) -> V]
        /\ \A t \in SUBSET (1..N) : f[t] = IF t = {} THEN Nothing ELSE step[Max(t)][f[t \ {Max(t)}]]
    BY <2>1 DEF FoldsBy
  <2>3. ASSUME NEW t \in SUBSET (1..N)
        PROVE  f[t] = IF t = {} THEN Nothing ELSE LET x == Max(t) IN WithResult(f[t \ {x}], found[x], found)
    <3>1. t # {} => Max(t) \in 1..N
      BY <1>1, MaxIn
    <3>2. f[t \ {Max(t)}] \in V
      BY <2>2
    <3> QED
      BY <1>7, <2>2, <3>1, <3>2
  <2>4. f = [t \in SUBSET DOMAIN found |->
            IF t = {} THEN Nothing ELSE LET x == Max(t) IN WithResult(f[t \ {x}], found[x], found)]
    BY <1>1, <2>2, <2>3
  <2> QED
    BY <1>2, <2>4
<1>9. iter[{}] = Nothing
  BY <1>8
<1>10. \A t \in SUBSET (1..N) : t # {} /\ iter[t \ {Max(t)}] \in V => iter[t] = step[Max(t)][iter[t \ {Max(t)}]]
  <2> SUFFICES ASSUME NEW t \in SUBSET (1..N), t # {}, iter[t \ {Max(t)}] \in V
               PROVE  iter[t] = step[Max(t)][iter[t \ {Max(t)}]]
    OBVIOUS
  <2>1. Max(t) \in 1..N
    BY <1>1, MaxIn
  <2>2. iter[t] = WithResult(iter[t \ {Max(t)}], found[Max(t)], found)
    BY <1>1, <1>8
  <2> QED
    BY <1>7, <2>1, <2>2
<1>a. iter[1..N] \in {q[N] : q \in RunsOf(N, V, Nothing, step)}
  BY <1>1, <1>6, <1>9, <1>10, FoldRun
<1>11. PICK p \in RunsOf(N, V, Nothing, step) : iter[1..N] = p[N]
  BY <1>a
<1>12. p \in [0..N -> V] /\ p[0] = Nothing /\ \A n \in 1..N : p[n] = step[n][p[n - 1]]
  BY <1>11 DEF RunsOf
<1>13. \A n \in 1..N : p[n] = WithResult(p[n - 1], found[n], found)
  <2>1. \A n \in 1..N : p[n - 1] \in V
    BY <1>1, <1>12
  <2> QED
    BY <1>7, <1>12, <2>1
<1> QED
  BY <1>1, <1>3, <1>4, <1>11, <1>12, <1>13

Apart(items) == \A i, k \in 1..Len(items) : i # k => items[i].refs \cap items[k].refs = {}

\* What is gathered of the first results.
Gathered(s, found, n) ==
  /\ \A i \in 1..Len(s.items) : Says(s.items[i]) /\ s.items[i].refs \subseteq s.used
  /\ \A id \in s.used : \E i \in 1..Len(s.items) : id \in s.items[i].refs
  /\ Apart(s.items)
  /\ \A m \in 1..n : found[m].id \in s.used

\* One result more.
LEMMA NextResult ==
  ASSUME ChunksHere, NEW found \in Seq(Hits), NEW n \in 1..Len(found), NEW s \in Gathering, Gathered(s, found, n - 1)
  PROVE  Gathered(WithResult(s, found[n], found), found, n)
<1>1. PICK r : r = found[n] /\ r \in ToSet(found)
  BY DEF ToSet
<1>2. PICK w : w = WithResult(s, r, found)
  OBVIOUS
<1>3. /\ \A i \in 1..Len(s.items) : Says(s.items[i]) /\ s.items[i].refs \subseteq s.used
      /\ \A id \in s.used : \E i \in 1..Len(s.items) : id \in s.items[i].refs
      /\ \A i, k \in 1..Len(s.items) : i # k => s.items[i].refs \cap s.items[k].refs = {}
      /\ \A m \in 1..(n - 1) : found[m].id \in s.used
  BY DEF Gathered, Apart
<1>4. \A m \in 1..n : m \in 1..(n - 1) \/ m = n
  OBVIOUS
<1>5. CASE r.id \in s.used
  <2>1. w = s
    BY <1>1, <1>2, <1>5, ResultAdded
  <2>2. \A m \in 1..n : found[m].id \in s.used
    BY <1>1, <1>3, <1>4, <1>5
  <2> QED
    BY <1>1, <1>2, <1>3, <2>1, <2>2 DEF Gathered, Apart
<1>6. CASE r.id \notin s.used
  <2>1. PICK item \in ContextItem : /\ w = [used |-> s.used \cup item.refs, items |-> Append(s.items, item)]
                                    /\ Says(item) /\ item.refs \cap s.used = {} /\ r.id \in item.refs
    BY <1>1, <1>2, <1>6, ResultAdded
  <2>2. PICK own, L : own = s.items /\ L = Len(own)
    OBVIOUS
  <2>3. own \in Seq(ContextItem) /\ L \in Nat
    BY <2>2 DEF Gathering
  <2>4. PICK all : all = Append(own, item)
    OBVIOUS
  <2>5. all \in Seq(ContextItem) /\ Len(all) = L + 1 /\ all[L + 1] = item /\ \A i \in 1..L : all[i] = own[i]
    BY <2>1, <2>2, <2>3, <2>4
  <2>6. w.items = all /\ w.used = s.used \cup item.refs
    BY <2>1, <2>2, <2>4
  <2>7. \A i \in 1..(L + 1) : i \in 1..L \/ i = L + 1
    BY <2>3
  <2>8. \A i \in 1..L : i \in 1..(L + 1)
    BY <2>3
  <2>9. L + 1 \in 1..(L + 1)
    BY <2>3
  <2>10. \A i \in 1..(L + 1) : Says(all[i]) /\ all[i].refs \subseteq w.used
    BY <1>3, <2>1, <2>2, <2>5, <2>6, <2>7
  <2>11. \A id \in w.used : \E i \in 1..(L + 1) : id \in all[i].refs
    BY <1>3, <2>2, <2>5, <2>6, <2>8, <2>9
  <2>12. \A i \in 1..L : all[i].refs \cap item.refs = {}
    BY <1>3, <2>1, <2>2, <2>5
  <2>13. \A i, k \in 1..(L + 1) : i # k => all[i].refs \cap all[k].refs = {}
    <3> SUFFICES ASSUME NEW i \in 1..(L + 1), NEW k \in 1..(L + 1), i # k PROVE all[i].refs \cap all[k].refs = {}
      OBVIOUS
    <3>1. CASE i \in 1..L /\ k \in 1..L
      BY <1>3, <2>2, <2>5, <3>1
    <3>2. CASE i \in 1..L /\ k = L + 1
      BY <2>5, <2>12, <3>2
    <3>3. CASE i = L + 1 /\ k \in 1..L
      BY <2>5, <2>12, <3>3
    <3> QED
      BY <2>7, <3>1, <3>2, <3>3
  <2>14. \A m \in 1..n : found[m].id \in w.used
    BY <1>1, <1>3, <1>4, <2>1, <2>6
  <2> QED
    BY <1>1, <1>2, <2>5, <2>6, <2>10, <2>11, <2>13, <2>14 DEF Gathered, Apart
<1> QED
  BY <1>5, <1>6

\* The items have every result, each chunk in one of them.
LEMMA CandidatesAre ==
  ASSUME ChunksHere, NEW found \in Seq(Hits)
  PROVE  LET items == Candidates(found)
         IN  /\ items \in Seq(ContextItem) /\ Apart(items)
             /\ \A i \in 1..Len(items) : Says(items[i])
             /\ \A r \in ToSet(found) : \E i \in 1..Len(items) : ToSet(Content(r)) \subseteq ToSet(items[i].text)
<1>1. PICK N : N = Len(found) /\ N \in Nat /\ ToSet(found) = {found[k] : k \in 1..N} /\ \A k \in 1..N : found[k] \in Hits
  <2>1. Len(found) \in Nat /\ \A k \in 1..Len(found) : found[k] \in Hits
    OBVIOUS
  <2>2. ToSet(found) = {found[k] : k \in 1..Len(found)}
    BY ListFinite
  <2> QED
    BY <2>1, <2>2
<1>2. PICK p \in [0..N -> Gathering] : /\ p[0] = Nothing /\ p[N] = GatheredOf(found)
                                       /\ \A n \in 1..N : p[n] = WithResult(p[n - 1], found[n], found)
  <2>1. \E q \in [0..Len(found) -> Gathering] : /\ q[0] = Nothing /\ q[Len(found)] = GatheredOf(found)
                                       /\ \A n \in 1..Len(found) : q[n] = WithResult(q[n - 1], found[n], found)
    BY GatheredRun
  <2> QED
    BY <1>1, <2>1
<1>3. PICK Good : Good = {n \in 0..N : Gathered(p[n], found, n)}
  OBVIOUS
<1>4. 0 \in Good
  <2>1. p[0].used = {} /\ p[0].items = <<>> /\ Len(<<>>) = 0
    BY <1>2 DEF Nothing
  <2>2. Gathered(p[0], found, 0)
    BY <2>1 DEF Gathered, Apart
  <2> QED
    BY <1>1, <1>3, <2>2
<1>5. \A n \in 1..N : n - 1 \in Good => n \in Good
  <2> SUFFICES ASSUME NEW n \in 1..N, n - 1 \in Good PROVE n \in Good
    OBVIOUS
  <2>1. Gathered(p[n - 1], found, n - 1) /\ p[n - 1] \in Gathering /\ n \in 1..Len(found)
    BY <1>1, <1>2, <1>3
  <2>2. Gathered(WithResult(p[n - 1], found[n], found), found, n)
    BY <2>1, NextResult
  <2> QED
    BY <1>1, <1>2, <1>3, <2>2
<1>6. N \in Good
  <2>1. \A n \in 0..N : n \in Good
    BY <1>1, <1>4, <1>5, PrefixInduction, Zenon
  <2> QED
    BY <1>1, <2>1
<1>7. PICK s : s = GatheredOf(found) /\ s \in Gathering /\ Gathered(s, found, N)
  BY <1>1, <1>2, <1>3, <1>6
<1>8. PICK items : items = Candidates(found)
  OBVIOUS
<1>9. items = s.items
  BY <1>7, <1>8 DEF Candidates, GatheredOf, Nothing
<1>10. items \in Seq(ContextItem)
  BY <1>7, <1>9 DEF Gathering
<1>11. /\ \A i \in 1..Len(items) : Says(items[i])
       /\ \A id \in s.used : \E i \in 1..Len(items) : id \in items[i].refs
       /\ Apart(items)
       /\ \A m \in 1..N : found[m].id \in s.used
  BY <1>7, <1>9 DEF Gathered
<1>12. \A r \in ToSet(found) : \E i \in 1..Len(items) : ToSet(Content(r)) \subseteq ToSet(items[i].text)
  <2> SUFFICES ASSUME NEW r \in ToSet(found) PROVE \E i \in 1..Len(items) : ToSet(Content(r)) \subseteq ToSet(items[i].text)
    OBVIOUS
  <2>1. PICK m \in 1..N : r = found[m]
    BY <1>1
  <2>2. r \in Hits /\ r.id \in s.used
    BY <1>1, <1>11, <2>1
  <2>3. PICK i \in 1..Len(items) : r.id \in items[i].refs
    BY <1>11, <2>2
  <2>4. ToSet(Content(r)) \subseteq ToSet(items[i].text)
    BY <1>11, <2>2, <2>3 DEF Says
  <2> QED
    BY <2>4
<1> QED
  BY <1>8, <1>10, <1>11, <1>12

\* Items that are apart, as a set.
SetApart(D) == /\ \A x, y \in D : x # y => x.refs \cap y.refs = {}
               /\ \A x, y \in D : x # y => x.doc # y.doc \/ x.first # y.first

\* Items that are apart in a list are apart in its set.
LEMMA ApartAsSet ==
  ASSUME NEW items \in Seq(ContextItem), Apart(items), \A i \in 1..Len(items) : Says(items[i])
  PROVE  SetApart(ToSet(items))
<1>1. ToSet(items) = {items[i] : i \in 1..Len(items)}
  BY ListFinite
<1>2. SUFFICES ASSUME NEW x \in ToSet(items), NEW y \in ToSet(items), x # y
               PROVE  x.refs \cap y.refs = {} /\ (x.doc # y.doc \/ x.first # y.first)
  BY DEF SetApart
<1>3. PICK i \in 1..Len(items), k \in 1..Len(items) : x = items[i] /\ y = items[k]
  BY <1>1
<1>4. x.refs \cap y.refs = {}
  BY <1>2, <1>3 DEF Apart
<1>5. <<x.doc, x.first>> \in x.refs /\ <<y.doc, y.first>> \in y.refs
  BY <1>3 DEF Says
<1>6. <<x.doc, x.first>> # <<y.doc, y.first>>
  BY <1>4, <1>5
<1> QED
  BY <1>4, <1>6

\* Of items that say the same one stays.
LEMMA DistinctAre ==
  ASSUME NEW items \in Seq(ContextItem), SetApart(ToSet(items))
  PROVE  /\ Distinct(items) \in SUBSET ToSet(items)
         /\ \A x \in ToSet(items) : \E d \in Distinct(items) : d.text = x.text
<1>1. PICK R : R = ToSet(items)
  OBVIOUS
<1>2. IsFiniteSet(R) /\ R \in SUBSET ContextItem /\ \A x, y \in R : x # y => x.doc # y.doc \/ x.first # y.first
  BY <1>1, ListFinite DEF SetApart
<1>3. PICK sorted \in Seq(ContextItem) :
        /\ sorted = InOrder(R, Better)
        /\ \A i \in 1..Len(sorted) : sorted[i] \in R
        /\ \A r \in R : \E i \in 1..Len(sorted) : r = sorted[i]
  <2>1. \E s \in Seq(ContextItem) :
           /\ s = InOrder(R, Better) /\ Len(s) = Cardinality(R)
           /\ \A i \in 1..Len(s) : s[i] \in R
           /\ \A r \in R : \E i \in 1..Len(s) : r = s[i]
           /\ \A i, k \in 1..Len(s) : s[i] = s[k] => i = k
    BY <1>2, BeforeFirst
  <2> QED
    BY <2>1
<1>4. PICK L : L = Len(sorted) /\ L \in Nat /\ DOMAIN sorted = 1..L
  BY <1>3
<1>5. PICK D : D = Distinct(items)
  OBVIOUS
<1>6. D = {sorted[i] : i \in {k \in 1..L : \A m \in 1 .. k - 1 : sorted[m].text # sorted[k].text}}
  <2> DEFINE Sorted == InOrder(ToSet(items), Better)
  <2>1. D = {Sorted[i] : i \in {k \in DOMAIN Sorted : \A m \in 1 .. k - 1 : Sorted[m].text # Sorted[k].text}}
    BY <1>5 DEF Distinct
  <2>2. Sorted = sorted
    BY <1>1, <1>3
  <2> HIDE DEF Sorted
  <2>3. D = {sorted[i] : i \in {k \in DOMAIN sorted : \A m \in 1 .. k - 1 : sorted[m].text # sorted[k].text}}
    BY <2>1, <2>2
  <2> QED
    BY <1>4, <2>3
<1>7. D \subseteq R
  BY <1>3, <1>4, <1>6
<1>8. \A x \in R : \E d \in D : d.text = x.text
  <2> SUFFICES ASSUME NEW x \in R PROVE \E d \in D : d.text = x.text
    OBVIOUS
  <2>1. PICK i \in 1..L : x = sorted[i]
    BY <1>3, <1>4
  <2>2. PICK S : S = {k \in 1..L : sorted[k].text = x.text}
    OBVIOUS
  <2>3. S \in SUBSET Nat /\ S # {}
    BY <1>4, <2>1, <2>2
  <2>4. PICK k \in S : \A m \in S : k <= m
    BY <2>3, LeastOf
  <2>5. k \in 1..L /\ sorted[k].text = x.text
    BY <2>2
  <2>6. \A m \in 1..(k - 1) : sorted[m].text # sorted[k].text
    <3> SUFFICES ASSUME NEW m \in 1..(k - 1), sorted[m].text = sorted[k].text PROVE FALSE
      OBVIOUS
    <3>1. m \in 1..L /\ ~(k <= m)
      BY <1>4, <2>5
    <3> QED
      BY <2>2, <2>4, <2>5, <3>1
  <2>7. sorted[k] \in D
    BY <1>6, <2>5, <2>6
  <2> QED
    BY <2>5, <2>7
<1> QED
  BY <1>1, <1>5, <1>7, <1>8

\* The order loses no item and repeats none.
LEMMA OrderedAre ==
  ASSUME NEW D \in SUBSET ContextItem, IsFiniteSet(D), SetApart(D)
  PROVE  /\ Ordered(D) \in Seq(ContextItem) /\ Apart(Ordered(D))
         /\ \A x \in D : \E i \in 1..Len(Ordered(D)) : Ordered(D)[i] = x
<1>1. \A x, y \in D : x # y => x.doc # y.doc \/ x.first # y.first
  BY DEF SetApart
<1>2. PICK sorted \in Seq(ContextItem) :
        /\ sorted = InOrder(D, BySource)
        /\ \A i \in 1..Len(sorted) : sorted[i] \in D
        /\ \A r \in D : \E i \in 1..Len(sorted) : r = sorted[i]
        /\ \A i, k \in 1..Len(sorted) : sorted[i] = sorted[k] => i = k
  <2>1. \E s \in Seq(ContextItem) :
           /\ s = InOrder(D, BySource) /\ Len(s) = Cardinality(D)
           /\ \A i \in 1..Len(s) : s[i] \in D
           /\ \A r \in D : \E i \in 1..Len(s) : r = s[i]
           /\ \A i, k \in 1..Len(s) : s[i] = s[k] => i = k
    BY <1>1, BySourceFirst
  <2> QED
    BY <2>1
<1>3. PICK L : L = Len(sorted) /\ L \in Nat /\ DOMAIN sorted = 1..L
  BY <1>2
<1>4. PICK A : A = {i \in 1..L : \A k \in 1 .. i - 1 : SourceOf[sorted[k].doc] # SourceOf[sorted[i].doc]}
  OBVIOUS
<1>5. PICK B : B = {i \in 1..L : ~(\A k \in 1 .. i - 1 : SourceOf[sorted[k].doc] # SourceOf[sorted[i].doc])}
  OBVIOUS
<1>6. A \in SUBSET (1..L) /\ B \in SUBSET (1..L) /\ A \cap B = {} /\ \A i \in 1..L : i \in A \/ i \in B
  BY <1>4, <1>5
<1>7. PICK p, q : p = ItemsAt(sorted, A) /\ q = ItemsAt(sorted, B)
  OBVIOUS
<1>8. PICK o : o = Ordered(D)
  OBVIOUS
<1>9. o = p \o q
  BY <1>2, <1>3, <1>4, <1>5, <1>7, <1>8 DEF Ordered
<1>10. PICK a, b : a = Cardinality(A) /\ b = Cardinality(B)
  OBVIOUS
<1>11. a \in Nat /\ b \in Nat
  BY <1>3, <1>6, <1>10, Ranks
<1>12. PICK pos : /\ pos \in [1..a -> A] /\ p = [k \in 1..a |-> sorted[pos[k]]]
                  /\ \A k, m \in 1..a : pos[k] = pos[m] => k = m
                  /\ \A i \in A : \E k \in 1..a : pos[k] = i
  <2>1. PICK f : Placed(sorted, A, f)
    BY <1>3, <1>6, ItemsPlaced
  <2> QED
    BY <1>7, <1>10, <2>1 DEF Placed
<1>13. PICK qos : /\ qos \in [1..b -> B] /\ q = [k \in 1..b |-> sorted[qos[k]]]
                  /\ \A k, m \in 1..b : qos[k] = qos[m] => k = m
                  /\ \A i \in B : \E k \in 1..b : qos[k] = i
  <2>1. PICK f : Placed(sorted, B, f)
    BY <1>3, <1>6, ItemsPlaced
  <2> QED
    BY <1>7, <1>10, <2>1 DEF Placed
<1>14. \A i \in 1..L : sorted[i] \in ContextItem /\ sorted[i] \in D
  BY <1>2, <1>3
<1>15. p \in Seq(ContextItem) /\ Len(p) = a /\ q \in Seq(ContextItem) /\ Len(q) = b
  <2>1. \A k \in 1..a : sorted[pos[k]] \in ContextItem
    BY <1>6, <1>12, <1>14
  <2>2. \A k \in 1..b : sorted[qos[k]] \in ContextItem
    BY <1>6, <1>13, <1>14
  <2> QED
    BY <1>11, <1>12, <1>13, <2>1, <2>2
<1>16. /\ o \in Seq(ContextItem) /\ Len(o) = a + b
       /\ \A i \in 1..(a + b) : o[i] = IF i <= a THEN p[i] ELSE q[i - a]
  BY <1>9, <1>15, ConcatProperties
\* Where each item of the order comes from.
<1>17. PICK src : src = [i \in 1..(a + b) |-> IF i <= a THEN pos[i] ELSE qos[i - a]]
  OBVIOUS
<1>18. \A i \in 1..(a + b) : /\ i <= a => i \in 1..a /\ src[i] = pos[i] /\ src[i] \in A
                             /\ ~(i <= a) => i - a \in 1..b /\ src[i] = qos[i - a] /\ src[i] \in B
  <2> SUFFICES ASSUME NEW i \in 1..(a + b)
               PROVE  /\ i <= a => i \in 1..a /\ src[i] = pos[i] /\ src[i] \in A
                      /\ ~(i <= a) => i - a \in 1..b /\ src[i] = qos[i - a] /\ src[i] \in B
    OBVIOUS
  <2>1. i <= a => i \in 1..a
    BY <1>11
  <2>2. ~(i <= a) => i - a \in 1..b
    BY <1>11
  <2> QED
    BY <1>12, <1>13, <1>17, <2>1, <2>2
<1>19. \A i \in 1..(a + b) : src[i] \in 1..L /\ o[i] = sorted[src[i]]
  <2> SUFFICES ASSUME NEW i \in 1..(a + b) PROVE src[i] \in 1..L /\ o[i] = sorted[src[i]]
    OBVIOUS
  <2>1. CASE i <= a
    <3>1. i \in 1..a /\ src[i] = pos[i] /\ src[i] \in A /\ o[i] = p[i]
      BY <1>16, <1>18, <2>1
    <3> QED
      BY <1>6, <1>12, <3>1
  <2>2. CASE ~(i <= a)
    <3>1. PICK k \in 1..b : k = i - a
      BY <1>18, <2>2
    <3>2. src[i] = qos[k] /\ src[i] \in B /\ o[i] = q[k]
      BY <1>16, <1>18, <2>2, <3>1
    <3>3. q[k] = sorted[qos[k]]
      BY <1>13
    <3> QED
      BY <1>6, <3>2, <3>3
  <2> QED
    BY <2>1, <2>2
<1>20. \A i, k \in 1..(a + b) : src[i] = src[k] => i = k
  <2> SUFFICES ASSUME NEW i \in 1..(a + b), NEW k \in 1..(a + b), src[i] = src[k] PROVE i = k
    OBVIOUS
  <2>1. (i <= a <=> k <= a)
    BY <1>6, <1>18
  <2>2. CASE i <= a
    BY <1>12, <1>18, <2>1, <2>2
  <2>3. CASE ~(i <= a)
    <3>1. i - a = k - a
      BY <1>13, <1>18, <2>1, <2>3
    <3> QED
      BY <1>11, <3>1
  <2> QED
    BY <2>2, <2>3
<1>21. Apart(o)
  <2> SUFFICES ASSUME NEW i \in 1..Len(o), NEW k \in 1..Len(o), i # k PROVE o[i].refs \cap o[k].refs = {}
    BY DEF Apart
  <2>1. i \in 1..(a + b) /\ k \in 1..(a + b)
    BY <1>16
  <2>2. src[i] # src[k] /\ src[i] \in 1..L /\ src[k] \in 1..L
    BY <1>19, <1>20, <2>1
  <2>3. sorted[src[i]] # sorted[src[k]]
    BY <1>2, <1>3, <2>2
  <2>4. sorted[src[i]] \in D /\ sorted[src[k]] \in D
    BY <1>14, <2>2
  <2> QED
    BY <1>19, <2>1, <2>3, <2>4 DEF SetApart
<1>22. \A x \in D : \E i \in 1..Len(o) : o[i] = x
  <2> SUFFICES ASSUME NEW x \in D PROVE \E i \in 1..(a + b) : o[i] = x
    BY <1>16
  <2>1. PICK j \in 1..L : x = sorted[j]
    BY <1>2, <1>3
  <2>2. CASE j \in A
    <3>1. PICK k \in 1..a : pos[k] = j
      BY <1>12, <2>2
    <3>2. k \in 1..(a + b) /\ k <= a
      BY <1>11
    <3> QED
      BY <1>12, <1>16, <2>1, <3>1, <3>2
  <2>3. CASE j \in B
    <3>1. PICK k \in 1..b : qos[k] = j
      BY <1>13, <2>3
    <3>2. PICK i \in 1..(a + b) : i = a + k /\ ~(i <= a) /\ i - a = k
      BY <1>11
    <3>3. o[i] = q[k]
      BY <1>16, <3>2
    <3>4. q[k] = sorted[j]
      BY <1>13, <3>1
    <3> QED
      BY <2>1, <3>3, <3>4
  <2> QED
    BY <1>6, <2>1, <2>2, <2>3
<1> QED
  BY <1>8, <1>16, <1>21, <1>22

-----------------------------------------------------------------------------
(* The context of a question.                                              *)

\* A context within its limits, of results that are found.
Fits(b, l, found) ==
  /\ Len(b.items) <= l.items /\ SumOf(Sizes(b.items)) <= l.total /\ SumOf(Spent(b.items)) <= l.tokens
  /\ \A i \in DOMAIN b.items : b.items[i].chars <= l.each
  /\ \A i, k \in DOMAIN b.items : i # k => b.items[i].refs \cap b.items[k].refs = {}
  /\ ~b.cut => \A r \in ToSet(found) : ToSet(Content(r)) \subseteq UNION {ToSet(b.items[i].text) : i \in DOMAIN b.items}

\* A context is within its limits, and uncut it has all results.
LEMMA AssembledFits ==
  ASSUME ChunksHere, NEW found \in Seq(Hits), NEW l \in Limits
  PROVE  Fits(Assembled(found, l), l, found)
<1>1. PICK items : items = Candidates(found)
  OBVIOUS
<1>2. /\ items \in Seq(ContextItem) /\ Apart(items)
      /\ \A i \in 1..Len(items) : Says(items[i])
      /\ \A r \in ToSet(found) : \E i \in 1..Len(items) : ToSet(Content(r)) \subseteq ToSet(items[i].text)
  BY <1>1, CandidatesAre
<1>3. /\ SetApart(ToSet(items)) /\ IsFiniteSet(ToSet(items)) /\ ToSet(items) \in SUBSET ContextItem
      /\ ToSet(items) = {items[i] : i \in 1..Len(items)}
  BY <1>2, ApartAsSet, ListFinite
<1>4. PICK D : D = Distinct(items)
  OBVIOUS
<1>5. D \in SUBSET ToSet(items) /\ \A x \in ToSet(items) : \E d \in D : d.text = x.text
  BY <1>2, <1>3, <1>4, DistinctAre
<1>6. D \in SUBSET ContextItem /\ IsFiniteSet(D) /\ SetApart(D)
  BY <1>3, <1>5, FS_Subset DEF SetApart
<1>7. PICK o : o = Ordered(D)
  OBVIOUS
<1>8. /\ o \in Seq(ContextItem) /\ Apart(o)
      /\ \A x \in D : \E i \in 1..Len(o) : o[i] = x
  BY <1>6, <1>7, OrderedAre
<1>9. PICK b : b = Assembled(found, l)
  OBVIOUS
<1>10. b = Filled(o, l)
  BY <1>1, <1>4, <1>7, <1>9 DEF Assembled, Filled
<1>11. b \in Bundle /\ InBudget(b, l, o, Len(o))
  BY <1>8, <1>10, FilledInBudget DEF Apart
<1>12. b.items \in Seq(ContextItem) /\ DOMAIN b.items = 1..Len(b.items)
  BY <1>11 DEF Bundle
<1>13. /\ Len(b.items) <= l.items
       /\ b.chars = SumOf(Sizes(b.items)) /\ b.chars <= l.total
       /\ b.tokens = SumOf(Spent(b.items)) /\ b.tokens <= l.tokens
       /\ \A i \in 1..Len(b.items) : b.items[i].chars <= l.each
       /\ \A i, k \in 1..Len(b.items) : i # k => b.items[i].refs \cap b.items[k].refs = {}
       /\ ~b.cut => \A m \in 1..Len(o) : \E i \in 1..Len(b.items) : b.items[i].text = o[m].text
  BY <1>11 DEF InBudget
<1>14. ~b.cut => \A r \in ToSet(found) : ToSet(Content(r)) \subseteq UNION {ToSet(b.items[i].text) : i \in DOMAIN b.items}
  <2> SUFFICES ASSUME ~b.cut, NEW r \in ToSet(found)
               PROVE  ToSet(Content(r)) \subseteq UNION {ToSet(b.items[i].text) : i \in DOMAIN b.items}
    OBVIOUS
  <2>1. PICK j \in 1..Len(items) : ToSet(Content(r)) \subseteq ToSet(items[j].text)
    BY <1>2
  <2>2. items[j] \in ToSet(items)
    BY <1>3
  <2>3. PICK d \in D : d.text = items[j].text
    BY <1>5, <2>2
  <2>4. PICK m \in 1..Len(o) : o[m] = d
    BY <1>8
  <2>5. PICK i \in 1..Len(b.items) : b.items[i].text = o[m].text
    BY <1>13
  <2>6. ToSet(Content(r)) \subseteq ToSet(b.items[i].text) /\ i \in DOMAIN b.items
    BY <1>12, <2>1, <2>3, <2>4, <2>5
  <2> QED
    BY <2>6
<1> QED
  BY <1>9, <1>12, <1>13, <1>14 DEF Fits

\* A search returns hits.
LEMMA SearchIs ==
  ASSUME NEW V \in SUBSET Hits, IsFiniteSet(V)
  PROVE  Search(V) \in Seq(Hits)
<1>1. PICK R : R = {v \in V : v.rank >= MinRank}
  OBVIOUS
<1>2. R \in SUBSET Hits /\ IsFiniteSet(R)
  BY <1>1, FS_Subset
<1>3. PICK ranked \in Seq(Hits) : ranked = InOrder(R, Best)
  BY <1>2, BestFirst
<1>4. TopK \in Nat /\ Len(ranked) \in Nat
  BY <1>3, ContextAssumption
<1>5. PICK n \in Nat : n = Min({TopK, Len(ranked)}) /\ n <= Len(ranked)
  BY <1>4, MinOfTwo
<1>6. Search(V) = SubSeq(ranked, 1, n)
  <2> DEFINE Ranked == InOrder({v \in V : v.rank >= MinRank}, Best)
  <2>1. Search(V) = SubSeq(Ranked, 1, Min({TopK, Len(Ranked)}))
    BY DEF Search
  <2>2. Ranked = ranked
    BY <1>1, <1>3
  <2> HIDE DEF Ranked
  <2> QED
    BY <1>5, <2>1, <2>2
<1>7. 1 \in Nat /\ n \in Nat /\ 1 <= 1 /\ 1 <= n + 1 /\ n <= Len(ranked)
  BY <1>5
<1>8. SubSeq(ranked, 1, n) \in Seq(Hits)
  BY <1>7, PartIs
<1> QED
  BY <1>6, <1>8

\* The vectors of the chunks that are there.
LEMMA VectorsAre ==
  ASSUME ChunksHere,
         NEW near \in [{c \in ChunkKeys : c[2] <= Len(chunks[c[1]])} -> Rank],
         NEW twice \in SUBSET {c \in ChunkKeys : c[2] <= Len(chunks[c[1]])}
  PROVE  LET V == {VectorOf(c, 1, near[c]) : c \in {c \in ChunkKeys : c[2] <= Len(chunks[c[1]])}}
                    \cup {VectorOf(c, 2, near[c]) : c \in twice}
         IN  V \in SUBSET Hits /\ IsFiniteSet(V)
<1>1. PICK most : most = Max({Len(chunks[d]) : d \in Documents})
  OBVIOUS
<1>2. PICK there : there = {c \in ChunkKeys : c[2] <= Len(chunks[c[1]])}
  OBVIOUS
<1>3. IsFiniteSet(Documents) /\ Documents \subseteq Int /\ Rank \subseteq Int
  BY ContextAssumption DEF Documents
<1>4. IsFiniteSet(1..most) \/ Documents = {}
  <2>1. SUFFICES ASSUME Documents # {} PROVE most \in Int
    BY FS_Interval
  <2>2. PICK n \in Nat : ExistsSurjection(1..n, Documents)
    BY <1>3, FS_NatSurjection
  <2>3. PICK f \in [1..n -> Documents] : \A d \in Documents : \E k \in 1..n : f[k] = d
    BY <2>2 DEF ExistsSurjection, Surjection
  <2>4. n # 0
    BY <2>1, <2>3
  <2>5. PICK lens : lens = [k \in 1..n |-> Len(chunks[f[k]])]
    OBVIOUS
  <2>6. lens \in [1..n -> Int]
    <3>1. \A d \in Documents : Len(chunks[d]) \in Int
      BY DEF ChunksHere
    <3> QED
      BY <2>3, <2>5, <3>1
  <2>7. {Len(chunks[d]) : d \in Documents} = {lens[k] : k \in 1..n}
    BY <2>3, <2>5
  <2>8. Max({lens[k] : k \in 1..n}) \in Int
    BY <2>4, <2>6, MaxOfList
  <2> QED
    BY <1>1, <2>7, <2>8
<1>5. ChunkKeys = {<<d, i>> : d \in Documents, i \in 1 .. most}
  BY <1>1 DEF ChunkKeys
<1>6. IsFiniteSet(there)
  <2>1. CASE Documents = {}
    <3>1. there = {}
      BY <1>2, <1>5, <2>1
    <3> QED
      BY <3>1, FS_EmptySet
  <2>2. CASE IsFiniteSet(1..most)
    <3>1. IsFiniteSet(Documents \X (1..most))
      BY <1>3, <2>2, FS_Product
    <3>2. there \in SUBSET (Documents \X (1..most))
      BY <1>2, <1>5
    <3> QED
      BY <3>1, <3>2, FS_Subset
  <2> QED
    BY <1>4, <2>1, <2>2
<1>7. near \in [there -> Rank] /\ twice \in SUBSET there
  BY <1>2
<1>8. ASSUME NEW c \in there, NEW n \in Int PROVE VectorOf(c, n, near[c]) \in Hits
  <2>1. PICK d \in Documents, i \in 1..most : c = <<d, i>>
    BY <1>2, <1>5
  <2>2. i \in 1..Len(chunks[d])
    BY <1>2, <2>1
  <2>3. near[c] \in Int
    BY <1>3, <1>7
  <2>4. VectorOf(c, n, near[c]) = [id |-> <<d, i>>, doc |-> d, at |-> i, vector |-> n, rank |-> near[c]]
    BY <2>1 DEF VectorOf
  <2>5. <<d, i>> \in Documents \X Int /\ i \in Int
    BY <2>2
  <2> QED
    BY <2>2, <2>3, <2>4, <2>5 DEF Hits, Hit
<1>9. PICK one : one = [c \in there |-> VectorOf(c, 1, near[c])]
  OBVIOUS
<1>10. PICK two : two = [c \in there |-> VectorOf(c, 2, near[c])]
  OBVIOUS
<1>11. IsFiniteSet({one[c] : c \in there}) /\ {one[c] : c \in there} = {VectorOf(c, 1, near[c]) : c \in there}
  BY <1>6, <1>9, ImageFinite
<1>12. IsFiniteSet({two[c] : c \in twice}) /\ {two[c] : c \in twice} = {VectorOf(c, 2, near[c]) : c \in twice}
  <2>1. IsFiniteSet(twice)
    BY <1>6, <1>7, FS_Subset
  <2>2. IsFiniteSet({two[c] : c \in twice})
    BY <2>1, ImageFinite
  <2> QED
    BY <1>7, <1>10, <2>2
<1>13. PICK V : V = {VectorOf(c, 1, near[c]) : c \in there} \cup {VectorOf(c, 2, near[c]) : c \in twice}
  OBVIOUS
<1>14. IsFiniteSet(V)
  BY <1>11, <1>12, <1>13, FS_Union
<1>15. V \in SUBSET Hits
  BY <1>7, <1>8, <1>13
<1> QED
  BY <1>2, <1>13, <1>14, <1>15

-----------------------------------------------------------------------------
(* The states of a question.                                               *)

ChunksCut == chunks = [d \in Documents |-> ChunkText(body[d])]

\* What holds between the steps: the chunks are those of the texts, the results
\* are vectors of the chunks, and the context is of the results.
ContextInv ==
  /\ body \in [Documents -> Bodies] /\ limits \in Limits
  /\ chunks = <<>> \/ ChunksCut
  /\ results = <<>> \/ (ChunksCut /\ results \in Seq(Hits))
  /\ bundle = EmptyBundle \/ (results # <<>> /\ Fits(bundle, limits, results))

\* Chunks that are cut of texts are chunks.
LEMMA CutChunks ==
  ASSUME body \in [Documents -> Bodies], ChunksCut
  PROVE  ChunksHere
<1> SUFFICES ASSUME NEW d \in Documents PROVE chunks[d] \in Seq(ChunkPiece)
  BY DEF ChunksHere
<1>1. body[d] \in Seq(Paragraph)
  BY ContextAssumption DEF Paragraph
<1>2. chunks[d] = ChunkText(body[d])
  BY DEF ChunksCut
<1> QED
  BY <1>1, <1>2, ChunksOfBody

LEMMA ContextStarts == ContextInit => ContextInv
  BY DEF ContextInit, ContextInv

LEMMA ContextSteps == ContextInv /\ [ContextNext]_contextVars => ContextInv'
<1> SUFFICES ASSUME ContextInv, [ContextNext]_contextVars PROVE ContextInv'
  OBVIOUS
<1>1. /\ body \in [Documents -> Bodies] /\ limits \in Limits
      /\ chunks = <<>> \/ ChunksCut
      /\ results = <<>> \/ (ChunksCut /\ results \in Seq(Hits))
      /\ bundle = EmptyBundle \/ (results # <<>> /\ Fits(bundle, limits, results))
  BY DEF ContextInv
\* What is said of the chunks stays as long as they do.
<1>2. ASSUME chunks' = chunks, body' = body
      PROVE  /\ Hits' = Hits /\ ChunksCut' = ChunksCut
             /\ \A b, l, found : Fits(b, l, found)' = Fits(b, l, found)
  <2>1. Hits' = Hits /\ ChunksCut' = ChunksCut
    BY <1>2 DEF Hits, Hit, ChunksCut
  <2> QED
    BY <1>2, <2>1 DEF Fits, Content
<1>3. CASE UNCHANGED contextVars
  <2>1. chunks' = chunks /\ body' = body /\ results' = results /\ bundle' = bundle /\ limits' = limits
    BY <1>3 DEF contextVars
  <2> QED
    BY <1>1, <1>2, <2>1 DEF ContextInv
<1>4. CASE Ingest
  <2>1. /\ chunks = <<>> /\ chunks' = [d \in Documents |-> ChunkText(body[d])]
        /\ body' = body /\ results' = results /\ limits' = limits /\ bundle' = bundle
    BY <1>4 DEF Ingest
  <2>2. ChunksCut'
    BY <2>1 DEF ChunksCut
  <2>3. CASE results = <<>>
    BY <1>1, <2>1, <2>2, <2>3 DEF ContextInv
  <2>4. CASE results # <<>>
    <3>1. ChunksCut
      BY <1>1, <2>4
    <3>2. chunks' = chunks
      BY <2>1, <3>1 DEF ChunksCut
    <3> QED
      BY <1>1, <1>2, <2>1, <3>2 DEF ContextInv
  <2> QED
    BY <2>3, <2>4
<1>5. CASE SearchChunks
  <2>1. /\ chunks # <<>> /\ results = <<>>
        /\ chunks' = chunks /\ body' = body /\ bundle' = bundle /\ limits' = limits
    BY <1>5 DEF SearchChunks
  <2>2. ChunksCut /\ ChunksHere /\ bundle = EmptyBundle
    BY <1>1, <2>1, CutChunks
  <2>3. PICK near \in [{c \in ChunkKeys : c[2] <= Len(chunks[c[1]])} -> Rank],
             twice \in SUBSET {c \in ChunkKeys : c[2] <= Len(chunks[c[1]])} :
          results' = Search({VectorOf(c, 1, near[c]) : c \in {c \in ChunkKeys : c[2] <= Len(chunks[c[1]])}}
                              \cup {VectorOf(c, 2, near[c]) : c \in twice})
    BY <1>5 DEF SearchChunks
  <2>4. PICK V : V = {VectorOf(c, 1, near[c]) : c \in {c \in ChunkKeys : c[2] <= Len(chunks[c[1]])}}
                       \cup {VectorOf(c, 2, near[c]) : c \in twice}
    OBVIOUS
  <2>5. V \in SUBSET Hits /\ IsFiniteSet(V)
    BY <2>2, <2>4, VectorsAre
  <2>6. results' \in Seq(Hits)
    BY <2>3, <2>4, <2>5, SearchIs
  <2>7. ChunksCut' /\ Hits' = Hits
    BY <1>2, <2>1, <2>2
  <2> QED
    BY <1>1, <2>1, <2>2, <2>6, <2>7 DEF ContextInv
<1>6. CASE Assemble
  <2>1. /\ results # <<>> /\ bundle' = Assembled(results, limits)
        /\ chunks' = chunks /\ body' = body /\ results' = results /\ limits' = limits
    BY <1>6 DEF Assemble
  <2>2. ChunksCut /\ results \in Seq(Hits) /\ ChunksHere
    BY <1>1, <2>1, CutChunks
  <2>3. Fits(Assembled(results, limits), limits, results)
    BY <1>1, <2>2, AssembledFits
  <2>4. Fits(bundle, limits, results)'
    <3>1. PICK b, l, found : b = Assembled(results, limits) /\ l = limits /\ found = results
      OBVIOUS
    <3>2. Fits(b, l, found)'
      BY <1>2, <2>1, <2>3, <3>1
    <3> QED
      BY <2>1, <3>1, <3>2 DEF Fits, Content
  <2>5. ChunksCut' /\ Hits' = Hits
    BY <1>2, <2>1, <2>2
  <2> QED
    BY <1>1, <2>1, <2>2, <2>4, <2>5 DEF ContextInv
<1> QED
  BY <1>3, <1>4, <1>5, <1>6 DEF ContextNext

LEMMA ContextHolds == ContextInv => ContextOfTheText
<1> SUFFICES ASSUME ContextInv PROVE ContextOfTheText
  OBVIOUS
<1>1. /\ body \in [Documents -> Bodies] /\ limits \in Limits
      /\ chunks = <<>> \/ ChunksCut
      /\ bundle = EmptyBundle \/ Fits(bundle, limits, results)
  BY DEF ContextInv
<1>2. ChunksNameParagraphs
  <2> SUFFICES ASSUME chunks # <<>>, NEW d \in Documents
               PROVE  /\ \A i \in DOMAIN chunks[d] :
                           chunks[d][i].text = SubSeq(body[d], chunks[d][i].from, chunks[d][i].to)
                      /\ \A n \in DOMAIN body[d] : \E i \in DOMAIN chunks[d] : n \in chunks[d][i].from .. chunks[d][i].to
    BY DEF ChunksNameParagraphs
  <2>1. chunks[d] = ChunkText(body[d])
    BY <1>1 DEF ChunksCut
  <2>2. PICK text \in Seq(Paragraph) : text = body[d]
    BY <1>1, ContextAssumption DEF Paragraph
  <2>3. PICK all : all = ChunkText(text)
    OBVIOUS
  <2>4. /\ all \in Seq(ChunkPiece)
        /\ \A k \in 1..Len(all) : all[k].text = SubSeq(text, all[k].from, all[k].to)
        /\ \A m \in 1..Len(text) : \E k \in 1..Len(all) : m \in all[k].from..all[k].to
    BY <2>3, ChunksOfBody
  <2>5. DOMAIN all = 1..Len(all) /\ DOMAIN text = 1..Len(text)
    BY <2>4
  <2> QED
    BY <2>1, <2>2, <2>3, <2>4, <2>5
<1>3. ContextWithinBudget
  <2>1. CASE Fits(bundle, limits, results)
    BY <2>1 DEF Fits, Sizes, Spent, ContextWithinBudget
  <2>2. CASE bundle = EmptyBundle
    <3>1. bundle.items = <<>> /\ DOMAIN <<>> = {} /\ Len(<<>>) = 0
      BY <2>2 DEF EmptyBundle
    <3>2. limits.items \in Nat /\ limits.total \in Nat /\ limits.tokens \in Nat
      BY <1>1, ContextAssumption
    <3>3. /\ [i \in DOMAIN <<>> |-> <<>>[i].chars] = <<>>
          /\ [i \in DOMAIN <<>> |-> Tokens(<<>>[i].chars)] = <<>>
      BY <3>1
    <3> QED
      BY <2>2, <3>1, <3>2, <3>3, NoSum DEF ContextWithinBudget
  <2> QED
    BY <1>1, <2>1, <2>2
<1> QED
  BY <1>2, <1>3 DEF ContextOfTheText

(* The context of a question is made of the texts it names, and as much of  *)
(* them as its limits allow: every chunk says the paragraphs its metadata   *)
(* names and no paragraph is left out (chunk_text), a context stays within  *)
(* every limit of its request, quotes no chunk twice, and uncut has all     *)
(* that the search found (assemble_retrieval_context_bundle).               *)
THEOREM ContextOfTheTextTheorem == ContextSpec => []ContextOfTheText
<1> QED
  BY ContextStarts, ContextSteps, ContextHolds, PTL DEF ContextSpec
=============================================================================

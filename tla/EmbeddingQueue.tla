--------------------------- MODULE EmbeddingQueue ---------------------------
(***************************************************************************)
(* The retrieval embedding queue: the tables retrieval_chunks,             *)
(* retrieval_embedding_jobs and retrieval_embeddings, the enqueue passes   *)
(* that fill the queue and the embedding workers that drain it             *)
(* (services/retrieval/embedding_jobs.py over db/repository.py).           *)
(*                                                                         *)
(* Every process has an SQLite connection of its own.  A `with             *)
(* self.connection` block opens its transaction at the first INSERT,       *)
(* UPDATE or DELETE, so a SELECT before it is a separate step: each action *)
(* below is one read, or one write transaction with the reads after it     *)
(* that decide the next step.                                              *)
(***************************************************************************)
EXTENDS Naturals, FiniteSets

CONSTANTS Worker,    \* processes running process-retrieval-embeddings
          Enqueuer,  \* enqueue passes, numbered by their created_at stamp
          Doc,       \* retrieval documents
          MaxChunk,  \* bound: rows ever inserted into retrieval_chunks
          MaxJob,    \* bound: rows ever inserted into the job table
          Nil

Chunk == 1 .. MaxChunk
Job   == 1 .. MaxJob

ASSUME EnqueuerAssumption == Enqueuer \subseteq Nat
ASSUME BoundsAssumption   == MaxChunk \in Nat /\ MaxJob \in Nat
ASSUME WorkerAssumption   == IsFiniteSet(Worker)
ASSUME NilAssumption      == Nil \notin Chunk /\ Nil \notin Job /\ Nil \notin Doc
                                /\ Nil \notin Enqueuer

(***************************************************************************)
(* Row ids are AUTOINCREMENT, hence never reused: "none" marks an id not   *)
(* yet given out and "deleted" one whose row is gone.                      *)
(***************************************************************************)
ChunkLife == {"pending", "queued", "processing", "ready", "failed"}
JobLife   == {"queued", "processing", "completed", "failed"}

VARIABLES
  chunkStatus,  \* embedding_status of each chunk row
  chunkDoc,     \* document_id of each chunk row
  jobs,         \* the job rows
  embeddings,   \* number of embedding rows of each chunk
  worker,       \* where each worker is in process_next_embedding_job
  enq           \* where each pass is in enqueue_chunk_embedding_jobs

tables == <<chunkStatus, chunkDoc, jobs, embeddings>>
vars   == <<chunkStatus, chunkDoc, jobs, embeddings, worker, enq>>

WorkerPC == {"idle", "claim", "reload", "load", "embed", "create", "ready",
             "complete", "fail"}
IdleWorker == [pc |-> "idle", job |-> Nil, chunk |-> Nil]
IdlePass   == [pc |-> "idle", todo |-> {}, chunk |-> Nil]
NoJobRow   == [status |-> "none", chunk |-> Nil, created |-> Nil, attempts |-> 0]

JobRecord    == [status : JobLife \cup {"none", "deleted"},
                 chunk : Chunk \cup {Nil},
                 created : Enqueuer \cup {Nil},
                 attempts : Nat]
WorkerRecord == [pc : WorkerPC, job : Job \cup {Nil}, chunk : Chunk \cup {Nil}]
PassRecord   == [pc : {"idle", "find", "insert"}, todo : SUBSET Chunk,
                 chunk : Chunk \cup {Nil}]

TypeOK ==
  /\ chunkStatus \in [Chunk -> ChunkLife \cup {"none", "deleted"}]
  /\ chunkDoc \in [Chunk -> Doc \cup {Nil}]
  /\ jobs \in [Job -> JobRecord]
  /\ embeddings \in [Chunk -> Nat]
  /\ worker \in [Worker -> WorkerRecord]
  /\ enq \in [Enqueuer -> PassRecord]

ChunkRow(c)  == c \in Chunk /\ chunkStatus[c] \in ChunkLife
JobRow(j)    == j \in Job /\ jobs[j].status \in JobLife
ChunksOf(d)  == {c \in Chunk : ChunkRow(c) /\ chunkDoc[c] = d}
Queued(j)    == jobs[j].status = "queued"
Active(j)    == jobs[j].status \in {"queued", "processing"}

Init ==
  /\ chunkStatus = [c \in Chunk |-> "none"]
  /\ chunkDoc = [c \in Chunk |-> Nil]
  /\ jobs = [j \in Job |-> NoJobRow]
  /\ embeddings = [c \in Chunk |-> 0]
  /\ worker = [w \in Worker |-> IdleWorker]
  /\ enq = [e \in Enqueuer |-> IdlePass]

---------------------------------------------------------------------------
(* Chunk replacement *)

(* The n ids the next n INSERTs into retrieval_chunks take. *)
FreshChunks(fresh, n) ==
  /\ fresh \subseteq {c \in Chunk : chunkStatus[c] = "none"}
  /\ Cardinality(fresh) = n
  /\ \A c \in fresh, b \in Chunk :
       chunkStatus[b] = "none" /\ b < c => b \in fresh

(* replace_retrieval_chunks: in one transaction drop the jobs, the          *)
(* embeddings and the chunks of the document, then insert the new chunks    *)
(* with status 'pending'.                                                   *)
ReplaceChunks(d, fresh) ==
  LET old == ChunksOf(d) IN
  /\ chunkStatus' = [c \in Chunk |-> IF c \in fresh THEN "pending"
                                     ELSE IF c \in old THEN "deleted"
                                     ELSE chunkStatus[c]]
  /\ chunkDoc' = [c \in Chunk |-> IF c \in fresh THEN d ELSE chunkDoc[c]]
  /\ jobs' = [j \in Job |-> IF JobRow(j) /\ jobs[j].chunk \in old
                            THEN [jobs[j] EXCEPT !.status = "deleted"]
                            ELSE jobs[j]]
  /\ embeddings' = [c \in Chunk |-> IF c \in old THEN 0 ELSE embeddings[c]]

---------------------------------------------------------------------------
(* Enqueue passes *)

(* The pass moves on to the next chunk of its list, or ends. *)
PassAfter(e, c) ==
  LET rest == enq[e].todo \ {c} IN
  IF rest = {} THEN IdlePass
  ELSE [pc |-> "find", todo |-> rest, chunk |-> Nil]

(* enqueue_chunk_embedding_jobs is given the rows listed after a            *)
(* replacement (or by enqueue_document_embedding_jobs).                     *)
StartPass(e, cs) ==
  /\ enq[e].pc = "idle"
  /\ cs # {}
  /\ enq' = [enq EXCEPT ![e] = [pc |-> "find", todo |-> cs, chunk |-> Nil]]

(* find_active_retrieval_embedding_job for the first chunk left: an active  *)
(* job ends the work on that chunk.                                         *)
FindActive(e) ==
  /\ enq[e].pc = "find"
  /\ \E c \in enq[e].todo :
       /\ \A b \in enq[e].todo : c <= b
       /\ enq' = [enq EXCEPT ![e] =
            IF \E j \in Job : Active(j) /\ jobs[j].chunk = c
            THEN PassAfter(e, c)
            ELSE [@ EXCEPT !.pc = "insert", !.chunk = c]]
  /\ UNCHANGED <<tables, worker>>

(* The insert transaction of enqueue_retrieval_embedding_job. *)
InsertJob(e) ==
  LET c == enq[e].chunk IN
  /\ enq[e].pc = "insert"
  /\ ChunkRow(c)
  /\ \E j \in Job :
       /\ jobs[j].status = "none"
       /\ \A k \in Job : k < j => jobs[k].status # "none"
       /\ jobs' = [jobs EXCEPT ![j] = [status |-> "queued", chunk |-> c,
                                       created |-> e, attempts |-> 0]]
  /\ chunkStatus' = [chunkStatus EXCEPT ![c] = "queued"]
  /\ enq' = [enq EXCEPT ![e] = PassAfter(e, c)]
  /\ UNCHANGED <<chunkDoc, embeddings, worker>>

(* The foreign key refuses a job for a chunk replaced in the meantime, and  *)
(* the exception ends the whole pass: the chunks left get no job.           *)
InsertRefused(e) ==
  /\ enq[e].pc = "insert"
  /\ ~ChunkRow(enq[e].chunk)
  /\ enq' = [enq EXCEPT ![e] = IdlePass]
  /\ UNCHANGED <<tables, worker>>

(* A locked database or a crash ends it as well.                            *)
AbortPass(e) ==
  /\ enq[e].pc # "idle"
  /\ enq' = [enq EXCEPT ![e] = IdlePass]
  /\ UNCHANGED <<tables, worker>>

PassStep(e) == FindActive(e) \/ InsertJob(e) \/ InsertRefused(e)

---------------------------------------------------------------------------
(* Workers: process_next_embedding_job *)

GoTo(w, pc) == worker' = [worker EXCEPT ![w].pc = pc]
Rest(w)     == worker' = [worker EXCEPT ![w] = IdleWorker]

(* ORDER BY created_at, id *)
Before(j, k) == \/ jobs[j].created < jobs[k].created
                \/ jobs[j].created = jobs[k].created /\ j <= k

(* Mutant: no job is taken while another one is marked as being processed. *)
SelectWhenNoneProcessing(w) ==
  /\ worker[w].pc = "idle"
  /\ \A k \in Job : jobs[k].status # "processing"
  /\ \E j \in Job :
       /\ Queued(j)
       /\ \A k \in Job : Queued(k) => Before(j, k)
       /\ worker' = [worker EXCEPT ![w] = [pc |-> "claim", job |-> j,
                                           chunk |-> jobs[j].chunk]]
  /\ UNCHANGED <<tables, enq>>

(* What the claim writes into the job row. *)
Claimed(row) == [row EXCEPT !.status = "processing", !.attempts = row.attempts + 1]

(* The SELECT of claim_next_retrieval_embedding_job. *)
SelectNext(w) ==
  /\ worker[w].pc = "idle"
  /\ \E j \in Job :
       /\ Queued(j)
       /\ \A k \in Job : Queued(k) => Before(j, k)
       /\ worker' = [worker EXCEPT ![w] = [pc |-> "claim", job |-> j,
                                           chunk |-> jobs[j].chunk]]
  /\ UNCHANGED <<tables, enq>>

(* Mutant: the claim leaves the chunk's status alone. *)
ClaimJobRowOnly(w) ==
  LET j == worker[w].job IN
  /\ worker[w].pc = "claim"
  /\ jobs' = IF JobRow(j)
             THEN [jobs EXCEPT ![j] = Claimed(@)]
             ELSE jobs
  /\ GoTo(w, "reload")
  /\ UNCHANGED <<chunkStatus, chunkDoc, embeddings, enq>>

(* Mutant: the claim counts the attempt but leaves the job queued. *)
ClaimJobStaysQueued(w) ==
  LET j == worker[w].job
      c == worker[w].chunk IN
  /\ worker[w].pc = "claim"
  /\ jobs' = IF JobRow(j) THEN [jobs EXCEPT ![j].attempts = @ + 1] ELSE jobs
  /\ chunkStatus' = IF ChunkRow(c)
                    THEN [chunkStatus EXCEPT ![c] = "processing"]
                    ELSE chunkStatus
  /\ GoTo(w, "reload")
  /\ UNCHANGED <<chunkDoc, embeddings, enq>>

(* Its UPDATEs, by id only: neither looks at the status it overwrites. *)
ClaimJob(w) ==
  LET j == worker[w].job
      c == worker[w].chunk IN
  /\ worker[w].pc = "claim"
  /\ jobs' = IF JobRow(j)
             THEN [jobs EXCEPT ![j] = Claimed(@)]
             ELSE jobs
  /\ chunkStatus' = IF ChunkRow(c)
                    THEN [chunkStatus EXCEPT ![c] = "processing"]
                    ELSE chunkStatus
  /\ GoTo(w, "reload")
  /\ UNCHANGED <<chunkDoc, embeddings, enq>>

(* The claimed row is read back; a deleted one reads as an empty queue. *)
ReloadJob(w) ==
  /\ worker[w].pc = "reload"
  /\ IF JobRow(worker[w].job) THEN GoTo(w, "load") ELSE Rest(w)
  /\ UNCHANGED <<tables, enq>>

(* get_retrieval_chunk: a missing chunk fails the job. *)
LoadChunk(w) ==
  /\ worker[w].pc = "load"
  /\ GoTo(w, IF ChunkRow(worker[w].chunk) THEN "embed" ELSE "fail")
  /\ UNCHANGED <<tables, enq>>

(* embed_text returned: delete_retrieval_embeddings_for_chunk. *)
DeleteEmbeddings(w) ==
  /\ worker[w].pc = "embed"
  /\ embeddings' = [embeddings EXCEPT ![worker[w].chunk] = 0]
  /\ GoTo(w, "create")
  /\ UNCHANGED <<chunkStatus, chunkDoc, jobs, enq>>

(* Mutant: foreign keys are not enforced. *)
CreateEmbeddingUnchecked(w) ==
  /\ worker[w].pc = "create"
  /\ embeddings' = [embeddings EXCEPT ![worker[w].chunk] = @ + 1]
  /\ GoTo(w, "ready")
  /\ UNCHANGED <<chunkStatus, chunkDoc, jobs, enq>>

(* create_retrieval_embedding; the foreign key refuses a replaced chunk. *)
CreateEmbedding(w) ==
  LET c == worker[w].chunk IN
  /\ worker[w].pc = "create"
  /\ IF ChunkRow(c)
     THEN /\ embeddings' = [embeddings EXCEPT ![c] = @ + 1]
          /\ GoTo(w, "ready")
     ELSE /\ UNCHANGED embeddings
          /\ GoTo(w, "fail")
  /\ UNCHANGED <<chunkStatus, chunkDoc, jobs, enq>>

(* update_retrieval_chunk_embedding_status raises when the row is gone. *)
MarkChunkReady(w) ==
  LET c == worker[w].chunk IN
  /\ worker[w].pc = "ready"
  /\ IF ChunkRow(c)
     THEN /\ chunkStatus' = [chunkStatus EXCEPT ![c] = "ready"]
          /\ GoTo(w, "complete")
     ELSE /\ UNCHANGED chunkStatus
          /\ GoTo(w, "fail")
  /\ UNCHANGED <<chunkDoc, jobs, embeddings, enq>>

(* complete_retrieval_embedding_job: by id, whatever the status. *)
CompleteJob(w) ==
  LET j == worker[w].job IN
  /\ worker[w].pc = "complete"
  /\ IF JobRow(j)
     THEN /\ jobs' = [jobs EXCEPT ![j].status = "completed"]
          /\ Rest(w)
     ELSE /\ UNCHANGED jobs
          /\ GoTo(w, "fail")
  /\ UNCHANGED <<chunkStatus, chunkDoc, embeddings, enq>>

(* fail_retrieval_embedding_job, from the except clause or for a missing    *)
(* chunk; on a deleted job it raises out to process_next_embedding_job_safe.*)
FailJob(w) ==
  LET j == worker[w].job
      c == worker[w].chunk IN
  /\ worker[w].pc = "fail"
  /\ IF JobRow(j)
     THEN /\ jobs' = [jobs EXCEPT ![j].status = "failed"]
          /\ chunkStatus' = IF ChunkRow(c)
                            THEN [chunkStatus EXCEPT ![c] = "failed"]
                            ELSE chunkStatus
     ELSE UNCHANGED <<jobs, chunkStatus>>
  /\ Rest(w)
  /\ UNCHANGED <<chunkDoc, embeddings, enq>>

(* The provider or a write inside the try block raises. *)
StepRaises(w) ==
  /\ worker[w].pc \in {"embed", "create", "ready", "complete"}
  /\ GoTo(w, "fail")
  /\ UNCHANGED <<tables, enq>>

(* The process dies, or an exception outside the try block ends the call    *)
(* in process_next_embedding_job_safe; nothing is written.                  *)
Crash(w) ==
  /\ worker[w].pc # "idle"
  /\ Rest(w)
  /\ UNCHANGED <<tables, enq>>

WorkerStep(w) ==
  \/ SelectNext(w) \/ ClaimJob(w) \/ ReloadJob(w) \/ LoadChunk(w)
  \/ DeleteEmbeddings(w) \/ CreateEmbedding(w) \/ MarkChunkReady(w)
  \/ CompleteJob(w) \/ FailJob(w)

---------------------------------------------------------------------------
(* The queue with its surroundings: documents are cut anew at any time, and *)
(* a pass may start on the rows of any document.                            *)
Recut(d, n) ==
  /\ \E fresh \in SUBSET Chunk : FreshChunks(fresh, n) /\ ReplaceChunks(d, fresh)
  /\ UNCHANGED <<worker, enq>>

BeginPass(e, d) == StartPass(e, ChunksOf(d)) /\ UNCHANGED <<tables, worker>>

Next ==
  \/ \E d \in Doc, n \in 1 .. 2 : Recut(d, n)
  \/ \E e \in Enqueuer, d \in Doc : BeginPass(e, d)
  \/ \E e \in Enqueuer : PassStep(e) \/ AbortPass(e)
  \/ \E w \in Worker : WorkerStep(w) \/ StepRaises(w) \/ Crash(w)

Spec == Init /\ [][Next]_vars

(* Batches of the command keep being run: a worker that can step does, and  *)
(* one that reads a queued row again and again is not killed every time     *)
(* before its very next statement.                                          *)
FairSpec ==
  Spec /\ \A w \in Worker : WF_vars(WorkerStep(w)) /\ SF_vars(ClaimJob(w))

---------------------------------------------------------------------------
(* Properties *)

(* The three tables agree however replacements interleave with workers and  *)
(* passes holding ids of rows that are gone: a job row points at a chunk    *)
(* row, and no vector outlives its chunk (deletes of                        *)
(* replace_retrieval_chunks, foreign key of create_retrieval_embedding).    *)
NoOrphanRows ==
  /\ \A j \in Job : JobRow(j) => jobs[j].chunk \in Chunk /\ ChunkRow(jobs[j].chunk)
  /\ \A c \in Chunk : embeddings[c] > 0 => ChunkRow(c)

(* A worker past its claim holds a job that has left the queue for good,    *)
(* with the chunk of that job, whatever other workers, passes and           *)
(* replacements did to the row since it was read.                           *)
HeldJobLeftQueue ==
  \A w \in Worker : worker[w].pc # "idle" =>
    /\ worker[w].job \in Job
    /\ jobs[worker[w].job].status # "none"
    /\ worker[w].chunk = jobs[worker[w].job].chunk
    /\ worker[w].pc # "claim" => ~Queued(worker[w].job)

(* A chunk shown as 'queued' is never lost by the queue: some queued job    *)
(* will bring it to a worker, although claims, completions and failures of  *)
(* other jobs of the same chunk overwrite each other's status.              *)
QueuedChunkHasQueuedJob ==
  \A c \in Chunk : chunkStatus[c] = "queued" =>
    \E j \in Job : Queued(j) /\ jobs[j].chunk = c

(* What search reads (list_retrieval_search_candidates joins ready chunks   *)
(* with their vectors): a ready chunk has one vector, not none, not two.    *)
ReadyChunkHasOneVector ==
  \A c \in Chunk : chunkStatus[c] = "ready" => embeddings[c] = 1

(* No queued job waits for ever while batches are run: it is claimed or its *)
(* document is cut anew, whatever the other jobs do.                        *)
QueueDrains == \A j \in Job : Queued(j) ~> ~Queued(j)
=============================================================================

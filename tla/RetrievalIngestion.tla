------------------------- MODULE RetrievalIngestion -------------------------
(***************************************************************************)
(* Ingestion of one retrieval source (services/retrieval/ingestion.py,     *)
(* orchestration.py): a request saves the user's text and then refreshes   *)
(* the index from it - source row, document row, chunks, embedding jobs -  *)
(* in a dozen separate reads and transactions.  Composed with              *)
(* EmbeddingQueue, which owns the chunks, the jobs and the vectors.        *)
(*                                                                         *)
(* A text stands for its own checksum.                                     *)
(***************************************************************************)
EXTENDS EmbeddingQueue

CONSTANTS Body,         \* texts a user may save, beside the empty one
          Empty,        \* a text with nothing but white space
          ChunksIn,     \* number of chunks chunk_text cuts a text into
          MaxInFlight,  \* bound: refreshes running at the same time
          MaxFailures   \* bound: crashes and exceptions in a behaviour

Text == Body \cup {Empty}
Run  == Enqueuer        \* each refresh runs once; its number is its time stamp

ASSUME TextAssumption == Empty \notin Body /\ Nil \notin Text
ASSUME DocAssumption  == Doc \subseteq Nat
ASSUME ChunksAssumption == ChunksIn \in [Body -> Nat \ {0}]
ASSUME IngestBounds   == MaxInFlight \in Nat /\ MaxFailures \in Nat

VARIABLES
  profile,  \* the text the user saved last
  source,   \* status of the retrieval_sources row, Nil before its insert
  docs,     \* the retrieval_documents rows of the source
  cutFrom,  \* the text each chunk row was cut from
  run,      \* where each refresh is
  failures  \* crashes and exceptions so far

ingest     == <<profile, source, docs, cutFrom, run>>
ingestVars == <<vars, profile, source, docs, cutFrom, run, failures>>

NoDocRow == [status |-> "none", checksum |-> Nil, body |-> Nil, version |-> 0]

RunPC == {"waiting", "build", "findSource", "insertSource", "updateSource",
          "findDoc", "failSource", "failDoc", "noopDoc", "noopSource",
          "findAgain", "upsertDoc", "replace", "list", "readyDoc", "readySource",
          "enqueue", "recoverSource", "recoverDoc", "done", "raised"}
RunRecord == [pc : RunPC, body : Text \cup {Nil}, doc : Doc \cup {Nil},
              version : Nat, chunks : SUBSET Chunk, rival : BOOLEAN]
NewRun == [pc |-> "waiting", body |-> Nil, doc |-> Nil, version |-> 0, chunks |-> {},
           rival |-> FALSE]

InFlight == {r \in Run : \/ run[r].pc \notin {"waiting", "done", "raised"}
                         \/ enq[r].pc # "idle"}
DocRow(d) == d \in Doc /\ docs[d].status # "none"

IngestInit ==
  /\ Init
  /\ profile = Empty
  /\ source = Nil
  /\ docs = [d \in Doc |-> NoDocRow]
  /\ cutFrom = [c \in Chunk |-> Nil]
  /\ run = [r \in Run |-> NewRun]
  /\ failures = 0

---------------------------------------------------------------------------
(* Steps of a refresh *)

At(r, pc)  == run[r].pc = pc
Go(r, pc)  == run' = [run EXCEPT ![r].pc = pc]
NoTables   == UNCHANGED <<vars, failures>>
NoQueue    == UNCHANGED <<worker, enq, failures>>

(* The request commits its change of the profile before it refreshes.  It   *)
(* is remembered of a run that another was under way, and no document row   *)
(* written yet, when it started.                                            *)
SaveText(r) ==
  /\ At(r, "waiting")
  /\ \A q \in Run : q < r => ~At(q, "waiting")
  /\ Cardinality(InFlight) < MaxInFlight
  /\ \E t \in Text : profile' = t
  /\ run' = [run EXCEPT ![r].pc = "build",
                         ![r].rival = InFlight # {} /\ \A d \in Doc : ~DocRow(d)]
  /\ NoTables /\ UNCHANGED <<source, docs, cutFrom>>

(* build_profile_prepared_document / build_cv_prepared_document *)
BuildDocument(r) ==
  /\ At(r, "build")
  /\ run' = [run EXCEPT ![r].body = profile, ![r].pc = "findSource"]
  /\ NoTables /\ UNCHANGED <<profile, source, docs, cutFrom>>

(* The SELECT of upsert_retrieval_source. *)
FindSource(r) ==
  /\ At(r, "findSource")
  /\ Go(r, IF source = Nil THEN "insertSource" ELSE "updateSource")
  /\ NoTables /\ UNCHANGED <<profile, source, docs, cutFrom>>

(* Its INSERT meets UNIQUE(subscriber_id, source_type, source_ref).         *)
InsertSource(r) ==
  /\ At(r, "insertSource")
  /\ IF source = Nil
     THEN source' = "pending" /\ Go(r, "findDoc")
     ELSE UNCHANGED source /\ Go(r, "raised")
  /\ NoTables /\ UNCHANGED <<profile, docs, cutFrom>>

UpdateSource(r) ==
  /\ At(r, "updateSource")
  /\ source' = "pending"
  /\ Go(r, "findDoc")
  /\ NoTables /\ UNCHANGED <<profile, docs, cutFrom>>

(* get_retrieval_document_by_kind: the row with the highest id. *)
Latest(d) == DocRow(d) /\ \A e \in Doc : DocRow(e) => e <= d

(* The document is read once; the branch, and later the version, are        *)
(* decided on that copy.                                                    *)
FindDocument(r) ==
  LET seen(d, sum, version) ==
        run' = [run EXCEPT ![r].doc = d, ![r].version = version, ![r].pc =
          IF run[r].body = Empty THEN "failSource"
          ELSE IF sum = run[r].body THEN "noopDoc"
          ELSE "findAgain"]
  IN
  /\ At(r, "findDoc")
  /\ \/ \E d \in Doc : Latest(d) /\ seen(d, docs[d].checksum, docs[d].version)
     \/ (\A d \in Doc : ~DocRow(d)) /\ seen(Nil, Nil, 0)
  /\ NoTables /\ UNCHANGED <<profile, source, docs, cutFrom>>

(* Empty text: the source fails, and then the document if there was one.    *)
FailSource(r) ==
  /\ At(r, "failSource")
  /\ source' = "failed"
  /\ Go(r, IF run[r].doc = Nil THEN "done" ELSE "failDoc")
  /\ NoTables /\ UNCHANGED <<profile, docs, cutFrom>>

(* update_retrieval_document_lifecycle: checksum, status and version of the *)
(* run; the body stays.                                                     *)
Lifecycle(r, status, version) ==
  docs' = [docs EXCEPT ![run[r].doc] =
    [@ EXCEPT !.status = status, !.checksum = run[r].body, !.version = version]]

FailDocument(r) ==
  /\ At(r, "failDoc")
  /\ Lifecycle(r, "failed", run[r].version)
  /\ Go(r, "done")
  /\ NoTables /\ UNCHANGED <<profile, source, cutFrom>>

(* Same checksum: document and source become ready, the chunks stay.        *)
NoopDocument(r) ==
  /\ At(r, "noopDoc")
  /\ Lifecycle(r, "ready", run[r].version)
  /\ Go(r, "noopSource")
  /\ NoTables /\ UNCHANGED <<profile, source, cutFrom>>

NoopSource(r) ==
  /\ At(r, "noopSource")
  /\ source' = "ready"
  /\ Go(r, "done")
  /\ NoTables /\ UNCHANGED <<profile, docs, cutFrom>>

(* Mutant: a text that changed is not found, and gets a document of its own. *)
FindSameText(r) ==
  /\ At(r, "findAgain")
  /\ \/ \E d \in Doc :
          /\ Latest(d) /\ docs[d].checksum = run[r].body
          /\ run' = [run EXCEPT ![r].doc = d, ![r].pc = "upsertDoc"]
     \/ /\ \A d \in Doc : DocRow(d) => docs[d].checksum # run[r].body
        /\ run' = [run EXCEPT ![r].doc = Nil, ![r].pc = "upsertDoc"]
  /\ NoTables /\ UNCHANGED <<profile, source, docs, cutFrom>>

(* The SELECT of upsert_retrieval_document. *)
FindAgain(r) ==
  /\ At(r, "findAgain")
  /\ \/ \E d \in Doc : Latest(d) /\ run' = [run EXCEPT ![r].doc = d, ![r].pc = "upsertDoc"]
     \/ /\ \A d \in Doc : ~DocRow(d)
        /\ run' = [run EXCEPT ![r].doc = Nil, ![r].pc = "upsertDoc"]
  /\ NoTables /\ UNCHANGED <<profile, source, docs, cutFrom>>

(* Its write: body, checksum and the next version, status pending. *)
UpsertDocument(r) ==
  LET v == run[r].version + 1 IN
  /\ At(r, "upsertDoc")
  /\ \E d \in Doc :
       /\ IF run[r].doc = Nil THEN ~DocRow(d) /\ \A e \in Doc : e < d => DocRow(e)
                              ELSE d = run[r].doc
       /\ docs' = [docs EXCEPT ![d] = [status |-> "pending", checksum |-> run[r].body,
                                       body |-> run[r].body, version |-> v]]
       /\ run' = [run EXCEPT ![r].doc = d, ![r].version = v, ![r].pc = "replace"]
  /\ NoTables /\ UNCHANGED <<profile, source, cutFrom>>

ReplaceRunChunks(r) ==
  /\ At(r, "replace")
  /\ \E fresh \in SUBSET Chunk :
       /\ FreshChunks(fresh, ChunksIn[run[r].body])
       /\ ReplaceChunks(run[r].doc, fresh)
       /\ cutFrom' = [c \in Chunk |-> IF c \in fresh THEN run[r].body ELSE cutFrom[c]]
  /\ Go(r, "list")
  /\ NoQueue /\ UNCHANGED <<profile, source, docs>>

(* list_retrieval_chunks, after the commit: whoever's chunks are there now. *)
ListChunks(r) ==
  /\ At(r, "list")
  /\ run' = [run EXCEPT ![r].chunks = ChunksOf(run[r].doc), ![r].pc = "readyDoc"]
  /\ NoTables /\ UNCHANGED <<profile, source, docs, cutFrom>>

ReadyDocument(r) ==
  /\ At(r, "readyDoc")
  /\ Lifecycle(r, "ready", run[r].version)
  /\ Go(r, "readySource")
  /\ NoTables /\ UNCHANGED <<profile, source, cutFrom>>

ReadySource(r) ==
  /\ At(r, "readySource")
  /\ source' = "ready"
  /\ Go(r, "enqueue")
  /\ NoTables /\ UNCHANGED <<profile, docs, cutFrom>>

(* Mutant: only a new document gets embedding jobs. *)
EnqueueCreatedOnly(r) ==
  /\ At(r, "enqueue")
  /\ IF run[r].version = 1
     THEN StartPass(r, run[r].chunks) /\ UNCHANGED <<tables, worker, failures>>
     ELSE NoTables
  /\ Go(r, "done")
  /\ UNCHANGED <<profile, source, docs, cutFrom>>

(* enqueue_chunk_embedding_jobs on the listed chunks; its exceptions are    *)
(* logged and do not fail the refresh.                                      *)
EnqueueChunks(r) ==
  /\ At(r, "enqueue")
  /\ StartPass(r, run[r].chunks)
  /\ Go(r, "done")
  /\ UNCHANGED <<tables, worker, failures, profile, source, docs, cutFrom>>

(* The except clause: the source fails, then the document, and the          *)
(* exception is raised again to the refresh_*_safe wrapper.                 *)
RecoverSource(r) ==
  /\ At(r, "recoverSource")
  /\ source' = "failed"
  /\ Go(r, "recoverDoc")
  /\ NoTables /\ UNCHANGED <<profile, docs, cutFrom>>

RecoverDocument(r) ==
  /\ At(r, "recoverDoc")
  /\ Lifecycle(r, "failed", run[r].version)
  /\ Go(r, "raised")
  /\ NoTables /\ UNCHANGED <<profile, source, cutFrom>>

RunStep(r) ==
  \/ BuildDocument(r) \/ FindSource(r) \/ InsertSource(r) \/ UpdateSource(r)
  \/ FindDocument(r) \/ FailSource(r) \/ FailDocument(r) \/ NoopDocument(r)
  \/ NoopSource(r) \/ FindAgain(r) \/ UpsertDocument(r) \/ ReplaceRunChunks(r)
  \/ ListChunks(r) \/ ReadyDocument(r) \/ ReadySource(r) \/ EnqueueChunks(r)
  \/ RecoverSource(r) \/ RecoverDocument(r)

---------------------------------------------------------------------------
(* Failures *)

FailOnce == failures < MaxFailures /\ failures' = failures + 1

(* A write inside the try block raises. *)
RunRaises(r) ==
  /\ run[r].pc \in {"replace", "list", "readyDoc", "readySource"}
  /\ FailOnce
  /\ Go(r, "recoverSource")
  /\ UNCHANGED <<vars, profile, source, docs, cutFrom>>

(* The process dies, or an exception outside the try block ends the run in  *)
(* the refresh_*_safe wrapper.                                              *)
RunDies(r) ==
  /\ run[r].pc \notin {"waiting", "done", "raised"}
  /\ FailOnce
  /\ Go(r, "raised")
  /\ UNCHANGED <<vars, profile, source, docs, cutFrom>>

QueueFails ==
  /\ \/ \E e \in Enqueuer : AbortPass(e)
     \/ \E w \in Worker : StepRaises(w) \/ Crash(w)
  /\ FailOnce
  /\ UNCHANGED ingest

---------------------------------------------------------------------------
QueueStep ==
  /\ \/ \E e \in Enqueuer : PassStep(e)
     \/ \E w \in Worker : WorkerStep(w)
  /\ UNCHANGED <<ingest, failures>>

IngestNext ==
  \/ \E r \in Run : SaveText(r) \/ RunStep(r) \/ RunRaises(r) \/ RunDies(r)
  \/ QueueStep \/ QueueFails

IngestSpec == IngestInit /\ [][IngestNext]_ingestVars

(* A request thread keeps running, the worker command keeps being started.  *)
FairIngestSpec ==
  /\ IngestSpec
  /\ \A r \in Run : WF_ingestVars(RunStep(r))
  /\ \A e \in Enqueuer : WF_ingestVars(PassStep(e) /\ UNCHANGED <<ingest, failures>>)
  /\ \A w \in Worker : WF_ingestVars(WorkerStep(w) /\ UNCHANGED <<ingest, failures>>)

---------------------------------------------------------------------------
(* Properties *)

(* list_retrieval_search_candidates: what a search may answer with. *)
Served == {c \in Chunk : /\ chunkStatus[c] = "ready"
                         /\ embeddings[c] > 0
                         /\ source = "ready"
                         /\ docs[chunkDoc[c]].status = "ready"}

(* Whatever overlaps or dies, the chunks of one document are cut from one   *)
(* text: a search never mixes passages of two versions of a document        *)
(* (the single transaction of replace_retrieval_chunks).                    *)
ChunksOfOneText ==
  \A b, c \in Chunk : ChunkRow(b) /\ ChunkRow(c) /\ chunkDoc[b] = chunkDoc[c]
                        => cutFrom[b] = cutFrom[c]

(* A document has as many chunks as its text has passages.                  *)
EachPassageOnce ==
  \A c \in Chunk : ChunkRow(c) =>
    Cardinality(ChunksOf(chunkDoc[c])) = ChunksIn[cutFrom[c]]

(* The refresh that started last ended in its normal return. *)
LastRunFinished ==
  /\ InFlight = {}
  /\ \E r \in Run : At(r, "done") /\ \A q \in Run : q > r => At(q, "waiting")

(* Once a refresh has ended normally and nothing is running, the index      *)
(* holds the text the user saved last: a ready document with that body      *)
(* whose chunks are cut from it, or nothing served for an empty text.       *)
IndexFollowsProfile ==
  LastRunFinished =>
    IF profile = Empty THEN source = "failed" /\ Served = {}
    ELSE /\ source = "ready"
         /\ \E d \in Doc :
              /\ Latest(d)
              /\ docs[d].status = "ready" /\ docs[d].body = profile
              /\ ChunksOf(d) # {}
              /\ \A c \in ChunksOf(d) : cutFrom[c] = profile

(* Unless something fails every chunk ends up ready for search or replaced, *)
(* also when two refreshes list and enqueue each other's chunks.            *)
ChunksGetReady ==
  \A c \in Chunk :
    ChunkRow(c) ~> (chunkStatus[c] \in {"ready", "deleted"} \/ failures > 0)

(* Nothing keeps a source from having two document rows of one kind: two    *)
(* refreshes that both found none insert one each, and from then on a       *)
(* search may answer with both.                                             *)
FirstRefreshesOverlapped == \E r \in Run : run[r].rival

(* Whatever overlaps or dies, the chunks of a document are the passages of  *)
(* one text, each once, and a chunk a search finds has one vector; and      *)
(* unless two first refreshes overlapped, all a search may answer with is   *)
(* of one document: one version of the text, no passage twice.              *)
SearchFindsOneText ==
  /\ ChunksOfOneText
  /\ EachPassageOnce
  /\ ReadyChunkHasOneVector
  /\ ~FirstRefreshesOverlapped => \A b, c \in Served : chunkDoc[b] = chunkDoc[c]
=============================================================================

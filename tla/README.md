# Hiring Radar: verification project

Hiring Radar is a job matching platform: a Python backend over one SQLite file, a
command line tool (`hiring-radar`) that crawls job boards, mails digests and fills the
retrieval index, and a Next.js frontend. This directory holds TLA+ modules about the
backend, the TLC configurations that check them on small instances, and TLAPS proofs that
hold for every value of the constants.

Paths below are relative to `src/hiring_radar/` unless they start with `scripts/`,
`tests/` or `frontend/`. `PROJECT.json` says, definition by definition, which lines each
module translates.

- [1. The system](#1-the-system)
- [2. How processes share the database](#2-how-processes-share-the-database)
- [3. The modules](#3-the-modules)
- [4. The runs](#4-the-runs)
- [5. Fairness](#5-fairness)
- [6. The proofs](#6-the-proofs)
- [7. Where the code and its documentation disagree](#7-where-the-code-and-its-documentation-disagree)
- [8. What is not modelled](#8-what-is-not-modelled)
- [9. Plan](#9-plan)

## 1. The system

### Components

| Component | State | Operations | What makes it correct |
|---|---|---|---|
| **Retrieval embedding queue** (`services/retrieval/embedding_jobs.py`) | `retrieval_chunks`, `retrieval_embedding_jobs`, `retrieval_embeddings` | replace the chunks of a document, enqueue, claim, embed, complete, fail | no queued job is lost or waits for ever; no job or vector outlives its chunk |
| **Retrieval ingestion** (`services/retrieval/ingestion.py`, `orchestration.py`) | `retrieval_sources`, `retrieval_documents`, and the queue's tables | refresh after every change of the profile or of a CV: upsert source and document, replace chunks, enqueue; no-op on an equal checksum; mark failed | the index ends up holding the text saved last; passages of two versions never mix in a document, nor in a search unless two first refreshes overlapped; every chunk gets ready |
| **Retrieval search and context** (`services/retrieval/chunking.py`, `search.py`, `context.py`) | none | text to overlapping chunks; ranked chunks; a context within a budget | chunks name their own paragraphs; a context is made of the texts it names and keeps its limits |
| **Crawl** (`services/crawl.py`) | `jobs`, `crawl_runs` | fetch and parse each source, upsert by fingerprint, deactivate what was not seen | what is active is what the last crawl saw; one failing source does not stop the others |
| **Scrapers and keyword filter** (`scrapers/`, `services/jobs/adapters/`, `filtering/`) | none | API answers and pages to postings; postings to a digest | a source is taken for empty only when nothing shows a posting; crawl and corpus, preview and digest agree |
| **Digest and notification runs** (`cli.py`, `services/digest.py`, `scripts/run_crawl.sh`) | `notification_checkpoints`, `notification_runs`, the lock directory, mails sent | `crawl-and-notify`, `crawl`, `send-digest` | every posting is mailed at least once to everyone subscribed; the checkpoint never moves past one that was not |
| **Candidate profile and CV apply** (`api/routers/user_profile.py`, `services/cv_profile_*.py`) | `subscriber_profiles`, four section tables, `subscriber_cv_uploads`, `subscriber_cv_parse_runs`, apply audits, language certificates | edit the row, edit a section, save the whole form, upload a CV and apply it automatically, review and apply selected operations | an entry is not added twice; the latest CV decides; an apply does what the review page showed |
| **Skills and skill evidence** (same router) | a list on the profile row, `subscriber_skill_details`, evidence files | edit by position, rename, upload evidence | a listed skill shows its own evidence, one created anew none |
| **CV extraction and parsing** (`services/cv_extraction.py`, `cv_profile_parser.py`, `cv_ocr_*.py`) | uploads and parse runs | file to text, text to sections, entries and draft, structuring by a local model | no line, and no job that says a title, is lost; names the text does not have are kept out; a poor text empties nothing |
| **Matching scores** (`services/matching/`, `services/jobs/normalization.py`) | none | texts to features, profile and job to score and explanation | years are counted once; the explanation agrees with the score and with itself |
| **Accounts, sessions and security** (`api/routers/public_auth.py`, `user_auth.py`, `user_security.py`, `oauth_auth.py`) | subscribers, links and codes, sessions, TOTP, OAuth states and identities | sign up, sign in, reset, change the address, end sessions, delete the account | links are spent once and only with their effect; a device has one session |
| **Job corpus** (`services/jobs/`) | source records, canonical jobs, links, features, page snapshots | sync, rebuild, hydrate | a rebuild leaves what the records say; a hydration leaves features of the current text |
| **Saved jobs and interactions** (`api/routers/user_jobs.py`, `user_saved_jobs.py`) | saved jobs, notes, mirror rows, events and counters | list, open, save, unsave, note | counters are events; notes stay with the save they were written for |
| **Employer workspace** (`api/routers/employer_*.py`, `db/employer_repository.py`) | companies, users, members, candidates, tags, notes, stages, history, campaigns, queue | register, invite, change roles; tag, note, stage; prepare and review a send queue | a company keeps an owner; companies never write to each other's candidates; a campaign agrees with its queue |
| **AI tasks, copilot and learning memory** (`api/routers/user_ai.py`, `services/ai/`) | conversations, messages, learned terms, audits, page snapshots | ask, learn, answer; read the page of a job | an answer has its question and keeps to the job; what is shown of a page says how old it is |
| **Database start-up and migrations** (`db/sqlite.py`, `migration_registry.py`) | the schema, `schema_migrations` | open, migrate | who gets the database open finds the whole schema; who loses a race gets in later |
| Insights and completeness, settings, request plumbing, admin tools, e-mail and export output, shells, frontend | settings file; rate counters | see [8](#8-what-is-not-modelled) | derived, idempotent or single-statement |

### How they interact

- The **profile** endpoints write the profile and then call the retrieval **ingestion** in
  the same request (`refresh_*_safe`, whose exceptions are logged and swallowed).
- **Ingestion** owns the source and document rows, and calls the **queue** to replace
  chunks and to enqueue jobs. **Workers** (`process-retrieval-embeddings`) are processes of
  their own which share nothing with the server but the file.
- The **digest** calls the **crawl** as a function in the same process and then reads the
  rows the crawl wrote, by `first_seen_at`. Runs are kept apart only by the lock directory
  that `scripts/run_crawl.sh` makes; commands typed by hand take no lock.
- A **CV upload** reads a file in several ways, writes an upload row, a parse run and the
  profile, one after the other; the **review** of a parse run applies a selection later, from
  a page that may be older than the profile.
- **Matching** and the **copilot** read the features the **job corpus** computes, which in
  turn reads what **crawls** and fetched **pages** have stored; a jobs page computes the
  features that are missing before it ranks.
- Every request and every command first runs the **start-up** script on its connection.

### What is hard here

Every multi-statement operation is a sequence of separate transactions, so requests,
workers and command line processes interleave between any two statements, and a stop in
between leaves what was committed. The hazards this brings are listed one by one, with the
line where each bites and the properties that watch over it, in `PROJECT.json`
("hazards"). In short:

- *check, then act*: a row is selected outside the write transaction and updated by id
  (the claim of a job, the upsert of a document or of a posting, the search for an active
  job);
- *read, modify, write back whole*: two profile edits of one row or one section; an avatar
  upload that holds a copy across an `await`;
- *stop between two commits*: checksum before chunks, mails before checkpoint, profile
  before parse run before audit;
- *ids that outlive their rows*: workers and passes that hold chunks and jobs of a document
  that has been cut anew, certificates that refer to language entries that every save
  deletes, positions in a list of skills or of a draft;
- *an await in the middle*: an avatar or evidence file, the page of a job, an answer of the
  model;
- *several readers of one thing*: two PDF readers and OCR, two parsers and a model; the API, the
  page and the openings page of a source; crawl and corpus;
- *what must happen in the end*: queued jobs get claimed, chunks get ready, postings get
  mailed, a database gets open.

## 2. How processes share the database

These facts hold for every module; they decide what is one step.

- Each request and each command opens a connection of its own to the same file.
- The code groups writes with `with self.connection:`. Python's `sqlite3` opens a transaction
  at the first INSERT, UPDATE or DELETE, so a SELECT before it, even inside the block, is
  a step of its own, and all writes of the block are one atomic step. A SELECT after the
  commit is a step again.
- `PRAGMA foreign_keys = ON`; ids are AUTOINCREMENT and never reused. The constraints that
  can refuse a write are part of the action: UNIQUE of a source, UNIQUE(fingerprint), the
  foreign keys of jobs and vectors on chunks, the foreign key of certificates on languages.
- A busy database, a failing provider or a refused mail is an exception; each module has
  one action per place where it can be caught, and one for a process that dies.
- The server is one uvicorn process. Sync handlers run in its thread pool and interleave at
  every step. Async handlers keep the event loop from one `await` to the next and so exclude
  each other in between.

## 3. The modules

```
retrieval   EmbeddingQueue <- RetrievalIngestion          RetrievalContext
crawl       Crawl <- Digest == refines ==> DigestFeed     Scrape
profile     CandidateProfile    SkillList    CvReview
CV          CvText <- CvEntries    CvIntake
matching    JobText <- Matching
accounts    Accounts == refines ==> OneTimeLink
employer    EmployerTeam <- Employer
jobs        JobCorpus <- SavedJobs
AI          PageContext    Copilot
start-up    Startup    SchemaScript (its script)

A <- B : B EXTENDS A.     MC* : instances for TLC.     *_proofs : what TLAPS checks.
Lists   : the items of a list at some positions, a set in its order; Lists_proofs: lemmas about lists that the proofs share
MCCv    : CvEntries, CvIntake, SkillList, CvReview, Matching, one of them in each behaviour
MCPages : Scrape, RetrievalContext, PageContext, Copilot, one of them in each behaviour
```

The parts of `MCCv` and of `MCPages` share no variable; a behaviour explores one of them and
leaves the others at rest, so that small modules do not need a run each.

### EmbeddingQueue

| Variable | Code |
|---|---|
| `chunkStatus`, `chunkDoc` | `retrieval_chunks.embedding_status`, `.document_id`; "none" is an id not given out yet, "deleted" one whose row is gone |
| `jobs` | `retrieval_embedding_jobs`: status, chunk, `created_at`, `attempt_count` |
| `embeddings` | number of `retrieval_embeddings` rows of each chunk |
| `worker` | the call of `process_next_embedding_job` a worker is in, with the job and chunk it read |
| `enq` | the call of `enqueue_chunk_embedding_jobs` a pass is in, with the chunks left |

`SelectNext`/`ClaimJob`/`ReloadJob` are the SELECT, the transaction and the reread of
`claim_next_retrieval_embedding_job`. `LoadChunk`, `DeleteEmbeddings`, `CreateEmbedding`,
`MarkChunkReady`, `CompleteJob` are the statements of the `try` block in order, `FailJob`
the `except` clause. `FindActive`/`InsertJob`/`InsertRefused` are one round of an enqueue
pass, `ReplaceChunks` the single transaction of `replace_retrieval_chunks`. `StepRaises`,
`AbortPass` and `Crash` are exceptions inside the `try`, exceptions that end a pass, and
exceptions or kills that end a worker's call with nothing written. In the standalone
module documents are cut anew (`Recut`) and passes begun (`BeginPass`) at any time.

### RetrievalIngestion

Extends the queue with one retrieval source. `profile` is the text saved last, `source` the
status of the source row, `docs` the document rows (status, checksum, body, version),
`run` where each refresh is, with the copies it holds. A text stands for its checksum, and
the constant `ChunksIn` for the chunker. The actions follow
`ingest_retrieval_document` line by line: find and upsert the source, find the
document, then one of three branches decided on that copy (empty text; equal checksum; new
body), the replacement of the chunks, the list read after it, document and source ready,
and the enqueue pass of the queue module on the chunks listed. `RunRaises` leads to the
`except` clause (`RecoverSource`, `RecoverDocument`), `RunDies` ends the run with nothing
written. `cutFrom` is a history variable: the text a chunk was cut from; `rival` remembers that a refresh started beside another when there was no document row.

### Crawl and Digest

`Crawl`: `rows` is the `jobs` table by fingerprint (source, active, first and last seen),
`crawler` where each process is in the loop over sources, `crawled` the last `crawl_runs`
row of a source with what that crawl parsed, `now` a clock in seconds because timestamps
are. A page lists any subset of what its source may list (`Lists`), also none. The
fingerprint does not contain the source, so two sources can share a row and take it over
from each other; that is why `MCShared` lists one posting in both. `FindJob` and `WriteJob`
are the two halves of `upsert_job`.

`Digest` extends it with the lock directory, the checkpoint, the notification runs and the
mails. `LaunchScheduled`, `LaunchByHand`, `LaunchSend` are the script, the commands typed by
hand and `send-digest`; `Decide` to `AdvanceCheckpoint` are the statements of the
command in order; `Send` is one mail. `Kill` is SIGKILL or power loss: no `trap`, no
`except`. `Loyal` are the subscribers who have the digest enabled throughout; the others come and go with
every run. `horizon` is a history variable: where the first digest that moved the
checkpoint began.

`DigestFeed` is the abstract specification: postings become known, mails bring known
postings, and the checkpoint moves only past a stretch of time in which everything has been
mailed to every loyal subscriber. It says nothing of crawls, runs, processes, locks or
failures. `Digest!FeedImplemented` is `DigestFeed` with `firstSeen` mapped to the first-seen
column of `rows`; the other variables have the same names.

### CandidateProfile

One subscriber. `row` is the profile row (a headline for the scalar columns, roles for the list
columns, and the CV it names), `section` the entry tables as a bag (how many copies of each
entry), `linked` that a certificate refers to a language entry, `upload`, `parseRun`,
`audited` the CV tables, `req` where each request is, *with the copies it has read*, and
`loop` the async handler between two awaits. `applied` and `overlapped` are history.

The first step of each endpoint is an action of its own (`PatchBasicInfo` … `ApplySelected`,
together `Arrive`); what the endpoints share afterwards is `Serve`: reads of the row and of
the sections one by one, `Upsert`, `ReplaceSection`, the steps of an upload, the steps of a
selected apply. `DecideAutoApply` and `DecideSelection` compute from the copies, never
from the tables, exactly as the handlers do. `Own` is the set of entries only the user
types in; drafts of CVs hold the others.

### Accounts

`accounts`, `tokens` (sign-in links, reset links, changes of address), `signups`, `sessions`,
`totp`, `states` and `googleLink` are the tables; a row inserted by request *r* has *r* for key and
for time stamp. Each endpoint is an action that reads and decides (`RequestSignup`,
`UseLink` ...), followed by one action per statement that commits (`InsertToken`, `SpendToken`,
`SetPassword`, `OpenSession`, `EraseAccount` ...). Time is an action that lets a code or link
expire; `StopServer` drops what runs. `kept` stands for all rows that refer to a subscriber without a
delete rule and are not in the list of the deletion: profile, entries, CV uploads, parse runs, audits, conversations, retrieval sources. The
first of them (`StoreProfile`) keeps `EraseAccount` from succeeding, as a link does (`Refused`). That rows never refer to a subscriber who is gone
is no property here: the foreign keys say so whatever the handlers do. `OneTimeLink` is what a link promises: issued once, spent
once, spent for ever; `Accounts!LinksImplemented` instantiates it with the rows.

### EmployerTeam and Employer

A registration is three transactions (`CreateCompany`, `CreateUser`, `AddOwner`), an update of a member a
look and a write. `Employer` adds tags, notes and stages over candidates whose number is a key of all
companies (`FindCandidate`, `AddCandidate` are `ensure_candidate_placeholder`), the talent pool looked
for and then added (`FindJob`, `AddPool`: it is the oldest job of its title, and `CreateJob` takes any title, that one too), the stage read and then written with its history
(`ReadStage`, `WriteStage`), and the campaign whose status is written after its queue was listed
(`WriteItem`, `ListQueue`, `WriteCampaign`). `mixed` is history: what two requests overlapped on.

### JobCorpus and SavedJobs

`records`, `canon`, `links`, `feature`, `snapshot` are the tables; what a posting's text says is a
version number. `SyncRecord`, `UpsertCanonicalJob`, `UpsertCanonicalLink`, `PruneLinks`, `MarkMissingJobs`,
`BuildFeature`, `StoreFeature` are the transactions of a sync, a rebuild and a refresh of features; the
hydrations `Match` and `Rematch` jobs, records and links of a URL, as
`external_context_refresh.py` does it. `SavedJobs` puts the subscriber on top:
the jobs page which ensures features, ranks and counts impressions, and `Save`/`EnsureMirror`/`InsertSaved`.

### Reading CVs: CvText, CvEntries, CvIntake

`CvText` cuts lines into sections and blocks; a line is a kind, and what the regular expressions say of a
kind is a constant. `CvEntries` reads entries by the first layout that fits. The last one, `EngineEntry`, reads the first eight lines of a block,
and drops a block in which it finds no title; when all are dropped, lines outside the section are asked. Every piece of text
carries the lines it came from, so that the properties can say that nothing was lost. `CvIntake` is the
upload around it: the readers in their order with thresholds, the two parsers, the
model's answer and its validation, the score, and the automatic apply. Validation is the code's own test (`IsGrounded`): seven tenths
of the tokens of a name must be substrings of the text (`TokensOf`, `has`), a name without tokens passes, and of an entry only the names
are looked at (`NamesIn`). Skills meet a second test (`SkillAdditions`).

### SkillList and CvReview

`SkillList` has the list, the detail rows and, per call, the position and name it read before it waited.
`CvReview` has drafts with ordered lists and entries: trust per field, insights, the plan, positions picked on a page, what is
applied, and what remains. `CandidateProfile` has the same requests overlap over sets of entries.

### JobText and Matching

`JobText` is the rule tables applied to texts (hits are a constant, the rules' order decides).
`Matching` has the twelve weighted components with exact integers (`Unit` = 252000), the score, blockers,
the quality cap, and the explanation. An action adds or removes a skill or entry; every score follows.

### Scrape, RetrievalContext, PageContext, Copilot

`Scrape`: one source after the other: `ReadApi`, `ReadPage`, `ReadOpenings`, `FetchFails`, the tables and the digest.
`RetrievalContext`: `chunk_text` with its windows and overlap, a search with scores, the merge of neighbours and the budget.
`PageContext`: `AskPage`, `FetchPage`, `FetchPosting`, `PageFails`, `LookForRow`, `WriteRow` of each request, over a page that changes and a
clock. `Copilot`: `BeginChat`, `PageRead`, `SaveQuestion`, `Think`, `Learn`, `SaveAnswer`, `CloseChat` with `loop`, the chat that
has the event loop, `Suggest`, `JobChanges` and `Stop`; `seen` is history: how many messages there were when a chat began.

### Startup and SchemaScript

`SchemaScript` is the script: tables with their columns, the columns migrations add, the migrations in order. `Startup` runs any script
that meets `ScriptAssumption`: each statement is an action, since DDL commits by itself; `LookForColumn` and `AddColumn` are the two
halves of `_ensure_column`, `ReadRegistry` and `RecordMigration` those of `run_migrations`. `raced` is history.

## 4. The runs

| Run | Asks | Shows |
|---|---|---|
| `EmbeddingQueue_two` | two workers, exceptions, kills, recuts: do the tables agree, and does every queued job leave the queue? | `HeldJobLeftQueue`, `NoOrphanRows`, `QueuedChunkHasQueuedJob`, `QueueDrains`, although two workers may claim the same row |
| `RetrievalIngestion_concurrent` | two refreshes at the same time, one worker, one failure or kill anywhere | a document has the passages of one version of its text, each once, and a search finds one document's unless two first refreshes overlapped (`SearchFindsOneText`); without the failure every chunk gets ready (`ChunksGetReady`) |
| `RetrievalIngestion_crash` (violation) | is the index repaired by the refresh after one that died? | no: see [7](#7-where-the-code-and-its-documentation-disagree) |
| `Digest_scheduled` | scheduled runs over two sources that share a posting, one failure or kill anywhere; and, in its other part, one of them beside one command started by hand | the digest implements `DigestFeed`; nobody gets a posting twice without a failure, except within one second; active rows are what the last crawl parsed, and `first_seen_at` survives racing inserts; every posting is reported in the end |
| `CandidateProfile_two` | any three requests of one subscriber, two at a time, one exception or stop anywhere | no entry is added twice; the latest CV decides; documented languages stay |
| `Accounts_three` | something is set up, then any two requests overlap, one of which may be stopped | links implement `OneTimeLink`; a used reset took effect; one session per device |
| `Accounts_delete` (violation) | does a deletion succeed after a link was asked for, or the profile saved? | no: see 7 |
| `Employer_three` | three requests of one concern, two at a time, one stop | a company keeps its workspace and an owner; companies stay apart; campaigns agree with their queue, stage histories chain and stage updates make one talent pool at most, unless two updates overlap |
| `SavedJobs_two` | syncs, rebuilds, hydrations, the jobs page and saved jobs, two at a time, one stop | a rebuild that ran alone leaves what the records say; hydrated and ranked features are there; counters are events; rows keep their notes |
| `Cv_parts` | reader, intake, skills, review, matching | a CV is read whole; what the model invents stays out of the names; evidence stays with its skill; a match is explained; only a trusted CV empties fields; a review keeps its word |
| `Pages_parts` | scrapers, context, page, copilot | a source is empty only without a listing; readers agree; a context is made of its texts within its budget; a snapshot is honest; answers have questions and keep to their job, also when the model fails |
| `Startup_two` | two openings of an empty, older or drifted file, one kill | who is in finds the whole schema; only a race refuses; who keeps trying gets in |

### Bounds, and why they are enough

- **Rows** (`MaxChunk`, `MaxJob`, `MaxUploads`): ids are never reused, so the tables are
  bounded by the ids ever given out. Two chunks and two jobs in `EmbeddingQueue_two` allow a
  document to be cut anew while workers hold its chunk and its job, and two jobs
  to wait, which is what ordering and starvation need; one more of each repeats these
  situations.
- **Actors**: two workers, refreshes, processes, openings, requests in flight: the races are
  between a reader and one writer. Three requests in the profile, account, employer and job runs
  so that something can be there before two of them meet; the menus (`Menu`, `EmployerMenus`,
  `CorpusMenus`) keep together those that touch the same rows.
- **Time** (`MaxTime` = 2): before, at and after the second of a checkpoint; `LastTick` = 2 with
  `TTL` = 1: a snapshot that is fresh, at its limit and stale.
- **Failures** (`MaxFailures`, `MaxStops`, `MaxKills` = 1): one exception, stop or kill at *every* step,
  followed by undisturbed steps. `EmbeddingQueue` has no such bound.
- **By hand** (`MaxByHand` = 1, `OneRunEach`): one command, one scheduled run, two seconds and no failure, so that two crawls meet on
  a posting. `OneRunEach` ends these behaviours, so liveness is a question of the scheduled part only.
- **Copies** (`MaxCopies` = 2): the least that lets an entry be there twice.
- **Texts**: four lines after a heading, of every kind the layouts tell apart, are one entry and the beginning of
  the next; the texts of files lie on both sides of each threshold of quality; paragraphs just fit, do not fit and repeat.
  `MaxPicks` = 2 lets a selection take one of two twins.
- **Script**: `MCScript` is the part of `SchemaScript` about two tables and four migrations: a column that is added to a
  new table, a column with a backfill, an index on it. The proof is about every script; the run would only grow by its length.
- `CHECK_DEADLOCK FALSE` is said where the bounds stop the system (no id, no second, no request
  left); `CandidateProfile` ends in `AllDone` and is checked for deadlock.

Symmetry is used where nothing tells the members apart and no liveness is checked: passwords in `Accounts_three`; candidates, stages and the two
old companies in `Employer_three`.

### Preconditions worth knowing

- `FeedImplemented` and `ReportedEventually` are claims about behaviours in which no crawl is started by hand
  (`Undisturbed`). A `crawl` typed by hand may insert a posting whose `first_seen_at` lies before the time to which a
  scheduled run is about to move the checkpoint, and `crawl-and-notify --to` moves the checkpoint after a mail to one
  address: in both cases a posting is skipped. The script is what promises to keep runs apart, so that is where the
  properties are checked; the part of `MCDigest` with a command by hand checks `RowsAreTrue`, which holds under any overlap.
- Postings first seen before the first digest's window (`--window-hours`) are outside the
  promise; `horizon` says so.
- Kills are bounded, so `ReportedEventually` says nothing about an address that is refused
  every time: the loop ends at it, later recipients get nothing, earlier ones get the same digest
  again, and the checkpoint stays. It also excepts a lock directory left behind by a kill.
- `LatestCvDecides` (for the CV that is shown), `CampaignAgreesWithQueue`, `HistoryChains`, `InteractionsCounted`, `RefreshIsRecompute`, `HydratedIsUpToDate` and
  `EvidenceOfItsSkill` except what overlapped: two overlapping edits may lose one, which the code accepts.
  The other properties hold under any overlap.

## 5. Fairness

- **EmbeddingQueue** (`FairSpec`): weak fairness of each worker's step (the worker command
  keeps being run; a batch processes up to `limit` jobs and ends early on an empty queue), and strong
  fairness of `ClaimJob`: a worker is not killed *each time* between reading a row and claiming
  it. Without it `QueueDrains` fails by a worker that dies there for ever, which no queue survives.
  Nothing is assumed of enqueue passes, recuts, failures.
- **RetrievalIngestion** (`FairIngestSpec`): a started refresh, a started pass and the worker run
  on (weak fairness). Users need not save anything; failures need not happen.
- **Digest** (`FairDigestSpec`): cron keeps starting the script (weak fairness of the launch of
  *some* scheduled process while there is no lock) and a started command runs on.
  `ReportedEventually` therefore excuses one situation only, a stale lock (besides crawls started by hand).

- **Startup** (`FairStartupSpec`): a thread that executes the script goes on (weak fairness of `Execute`), and who is refused asks
  again (weak fairness of `BeginOpening`): the frontend and cron repeat. Kills need not happen.

The other specifications state no fairness, and their runs check safety only; so do the violation runs.

## 6. The proofs

`tlapm` checks every leaf; no step is assumed. The assumptions on constants are the named ASSUMEs
of the modules; TLC evaluates the ASSUMEs in the runs.

**Lists_proofs** has the lemmas that take the place of induction over lists. `Ranks` and `ItemsThere`: a list cut down to some of its positions has as its n-th item the
one at the position with n of them at or before it, because the count of the positions so far is a bijection. `ItemsPlaced` gives the positions themselves, `ItemsAmong` what is left of a list that was cut down twice. `PrefixInduction` is induction over the prefixes of a list for a *set* of lengths.
A fold of the community modules unfolds to a recursive function on sets of positions: `FoldExists` says there is one, `FoldRun` that it is reached prefix by prefix. `FlattenThere` and `FlattenCount` are about a list
of lists: what is in it put together, and that it is as long as its parts, when they stand for disjoint sets of positions.
`OrderIs` is about a set put in an order (`InOrder`): each member is there once, and after those before it.

What a loop over texts does is proved by the same three steps in every module: the body of the loop is an operator of its own (`WithLine`, `WithParagraph`,
`WithResult`, `MergeInto` ...), a lemma unfolds the fold into the run of its states (`BlocksRun`, `GatheredRun`, `MergeRun` ...), and a
predicate on a state and the number of items read (`BlocksFit`, `Gathered`, `Apart` ...) is shown to hold along the run.

**Retrieval_proofs**, for any finite set of workers and any number of passes, refreshes, documents,
chunks and jobs. The queue is a module by itself and a part of `RetrievalIngestion`, which replaces chunks and starts passes
in its own actions; what the queue needs of its surroundings is little, and `QueueNext` says just that (`CutAnew`, `PassStarts`).
`QueueInv` is proved for `QueueNext` once, and `AloneIsQueue` and `IngestIsQueue` say that the steps of both modules are steps of it.

- `TypeCorrect`: `TypeOK` is inductive.
- `HeldJobs`: `HeldJobLeftQueue` is inductive together with `TypeOK`. It is the fact that
  tames the unguarded claim: a job enters the queue only at its insert, so once any worker has
  claimed it nobody finds it queued again.
- `NoOrphans`: `NoOrphanRows` with `TypeOK`; the deletes of `replace_retrieval_chunks` take the jobs and
  vectors along, and the two inserts meet the foreign key.
- `QueuedChunks`: `QueuedChunkHasQueuedJob` needs `HeldJobLeftQueue` and
  `NoOrphanRows`: a claim that takes the last queued job of a chunk also overwrites the chunk's status,
  because the worker holds that job's own chunk; completions and failures never touch a queued job.
- `IngestedQueue`: the same three under ingestion, where `IngestTyped` adds that a refresh replaces the chunks of a document it knows.
- `OneTextTheorem`: `ChunksOfOneText`, from the one transaction of the replacement, for any overlap, exceptions and kills.
- `SearchTheorem`: `SearchFindsOneText` *with one worker*. No key keeps a source from having two document rows, so a second one is the
  question: it is inserted only by a refresh that found none when it looked and whose insert another's came before, and then the later of the two started
  while the other ran and there was no row yet (`rival`). The finiteness of the chunks of a document gives the count of its passages. `VectorInv` says what the worker knows of the chunk it embeds: from the
  claim to the last write the chunk is not ready, after the deletion it has no vector, after the insert one. The hypothesis is
  what the run has too: two workers may claim one job, and then a ready chunk has two vectors.

**Digest_proofs**, for any number of processes, sources, postings, subscribers, failures and kills. The inductive invariant `Inv` is
`TypeOK` and, as long as nobody starts a crawl by hand (`Undisturbed`), `UndisturbedInv`: the lock directory lets one scheduled run through at
a time (`ScheduledAlone`); a crawl under way has withdrawn the last result of its source, stamps no time before the checkpoint and has left a row for all
it has seen (`CrawlIsTrue`), so that the last successful crawl of a source says which of its rows are active (`SourceIsTrue`);
a digest that was built holds every wanted posting seen since the checkpoint it
read, each of its mails is sent or still to be sent, and that checkpoint is still the one in the table (`DigestIsTrue`);
and what has been mailed is behind the checkpoint or belongs to the digest that is under way (`MailsAreOld`).

- `RowsTheorem`: `RowsAreTrue`; the part about `first_seen_at` needs no hypothesis on crawls by hand.
- `FeedTheorem`: `FeedImplemented`, each step of crawl and digest is a step of `DigestFeed` or a stutter.
- `AtLeastOnce`: the feed keeps its promise `NoJobSkipped`: discovery puts nothing behind the checkpoint, and `Advance` extends a
  stretch that was dealt with by one that has just been mailed.
- `NothingSkippedTheorem` puts `FeedTheorem` and `AtLeastOnce` together: at-least-once delivery of the implementation itself.
- `MailedTheorem`: `MailedOnce`.

**CandidateProfile_proofs**, for any sections (of the four), entries, drafts and any number of
requests in flight.

- `ProfileTyped`: the type invariant is not inductive by itself, because a step that works on a draft
  must know that there is one. `TypeInv` adds `DraftsKnown` (an uploaded CV has a draft, a parse
  run an upload) and `Serves` (a request reaches the steps that need an upload or a parse run
  only after it created or found one), and rests on uploads and parse runs never being removed.
- `EntriesOnce`: `NoDuplicateEntries` of the tables follows from `SingleInv`: the tables *and every
  list any request holds* have each CV entry at most once. That copies may be stale does not matter: a
  stale list written back is still a list without duplicates, and an apply adds an entry only
  when its own copy lacks it. The lemmas say for each handler what it does to its list.
- `DocumentedStay`: the action property `DocumentedLanguagesStay`, from the only two places that write a section.
- `LatestTheorem`: `LatestCvDecides`. `LatestInv` has three parts. An upload has the event loop to itself from the insert of its row to its
  answer, so its CV stays the latest meanwhile and the parse run it applies is its own (`KnowsLatest`, under any overlap).
  While nothing overlapped and nothing failed, there is one request at a time and the copy of the row it is about to write names the CV the table
  names, or the one it is uploading (`NamesCv`): a stale copy would name an older one. And every CV but the one being uploaded has a parse
  run and is named by the row, or a later one is (`Told`).
- `EvidenceTheorem`: `EvidenceOfItsSkill`, about `SkillList`, for any names and keys, lists of any length and any number of calls. While one call at a time is
  at work, rows, list and files agree for every key but those the call is between two writes of (`SettledBut`, `Between`): the old and the new name until the
  row has moved, the deleted one until its row is gone. That a rename never meets a row of the new name follows, because a patch refuses a
  name another skill has and no unlisted name has a row. It assumes that "no file given" is none of the files (`NoValueIsNoCall`).
- `ReviewTheorem`: `ReviewKeepsItsWord`, about `CvReview`, for any texts, CVs and profiles, lists of any length and pages of any age. The invariant (`ReviewInv`): every page
  shows the draft of its run, compared with *some* profile (`Shows`); snapshots never change, so a position names one entry whatever the profile has become. What is dropped or
  picked by position is a list cut down to a set of positions (`ItemsAt`), of which `Lists_proofs` says what is in it. `ApplyLeaves` says what a selection leaves of the plan: to be open, an item or entry must have a key nobody has, so entries with one key close together.
- `NothingInventedTheorem` (`NothingInvented`) and `ClearedTheorem` (the action property `ClearedByTrustedCv`) are about `CvIntake`, for any files, any modes and any number of uploads.
  Nothing is assumed of the parsers and of the local model but what their values are (`TokensAssumption`: tokens come in lists; `NamesAssumption`,
  `AnswerAssumption`: names and answers are among the values there are). The property says *how much* may be unknown to the text: three tenths of the
  tokens of a name, and all of what the code does not compare with the text (years, degree, field, description). `IntakeInv` says where the upload is (`IntakePlaces`),
  that a row is parsed only with a text (`IntakeRows`), that what a parse run has of the checked fields is of *its* text (`IntakeRuns`), and that a field came from an
  upload that has a run (`IntakeFacts`). The point is which text: a row gets its text before it has a run and never another, so a run
  stays grounded in the text it was made of. What empties a field is a pivot, which asks for a text that scores high and puts something in place of what it drops.

**Accounts_proofs**, for any set of requests, addresses, passwords and Google identities, any overlap and any number of stops.
`LinkInv` says what each request knows of the link it was sent at each of its steps (`Holds`): which row it refers to, that a request past the
spending is the one the row names, that a request about to spend a reset has set the password. `LinkOnceTheorem`: at most one request is signed in by a
link. `ResetTheorem`: `UsedResetTookEffect`. `LinkTheorem`: `LinksImplemented`: every step of `Accounts` is an issue, a
spending or nothing for `OneTimeLink`; that rows of a link are never inserted again after a deletion is what `Fresh` is for.
`OneSessionTheorem` (`OneSessionPerDevice`) needs of the tables that they hold records under their keys (`OwnedInv`):
a new session ends those of its device in its own transaction, so that no copy a request holds matters.

- `CvReadWholeTheorem` (`CvReadWhole`) is about `CvEntries`, for any documents, sections and widths and anything the patterns find in a line; the module hosts it because its
  names do not meet those of the reader. It assumes (`LineAssumption`) that a line beginning with a year is dated and that an empty line is not, which is how the
  patterns are made. `ReaderInv`: the prepared lines follow one another, and every line of the document so far is in one of them or repeats one before it (`Prepared`: a line is
  dropped only when its text, alone or joined with the next, is that of the last); each line that is no heading is filed in one place, and every piece filed is of a line
  read (`FiledOf`). For the dates, `BlocksFit` says of the blocks cut so far that every piece is in one of them and in no other, none but the open one is empty, and
  each has one date, or the two that the OCR parted (`OneDate`). Then whichever layout reads a block has to date its entry from that line (`EntryIs`).
  A block that says no title is dropped, and the engine takes its dates from eight lines at most: the property excepts just that (`SaysTitle`,
  `ReadsDate`) and the proof shows that nothing else drops or doubles a dated line.

**Employer_proofs**, for any number of requests, companies, addresses, roles, candidates, stages and campaigns. `EmployerInv` has four parts.

- `ReqInv`: a request is a record of its fields.
- `TeamInv`, for `WorkspaceTheorem` (`WorkspaceKept`). Which row stays an owner's is the point: the one that was written with the company,
  which has the company's name (`HasFounder`). An update of a member reads the role, decides, and writes later;
  `TeamKnows` says that whenever such a write is about to hit a founder's row, it leaves the role an owner's. That a slug is free is found by
  counting up from the name; that there is a free one is the pigeonhole, from finitely many companies.
- `TalentInv`, for `SeparateTheorem` (`CompaniesSeparate`): the owner of a candidate's number, the company of a job and of a campaign are never taken
  back (`Owns`, `OwnJob`, `OwnRow`), so that a check made before a write still holds at the write (`TalentKnows`). A stop between the two changes nothing in this.
- `QueueInv`, for `CampaignTheorem` (`CampaignAgreesWithQueue`): a campaign on which no two requests overlapped has at most one of them at work, whose list
  is the queue, and disagrees with its queue only between the listing and the write.
- `HistoryTheorem` (`HistoryChains`) needs an invariant of its own, `HistoryInv`, inductive relative to `EmployerInv`: a company no two stage updates of
  which overlapped has at most one of them at work, and what that one has read (no job of the pool's title, the stage before) is still so when it writes, as far as stage
  updates go: a job created with that title in between is nothing they made, and makes later ones look no further. A job that is not there has no
  history. The entries of a candidate and a job are a set of positions, of which the new one is the last.

**SavedJobs_proofs**, for any sets of requests, postings, roles and places, any number of them in flight and of stops. `CorpusInv` says what a request
`Knows` at each of its steps; its parts correspond to the theorems.

- `CountedTheorem` (`InteractionsCounted`), from `Counted`: the counters a request has read are at most the events, and of a job no two
  requests recorded at the same time they are still those of the table, and nobody else is about to write them.
- `RefreshTheorem` (`RefreshIsRecompute`), from `Refreshes`: a rebuild that is alone works on the records as they are, and every group is active and linked or still to do.
  That links of records no longer active are gone is the work of `PruneLinks`, which needs that a link is that of a record there is.
- `FeaturesTheorem` (`FeaturesUpToDate`), from `Hydrates` and `Ranks`. An active job of the URL has its feature or `Awaits` it; the feature of a job with a
  page of its own is built from that page, whatever records are linked to it. For rankings nothing is said of what others do to
  the features of active jobs but the one thing that matters: they replace them and never take them away; only `MarkMissingJobs` takes jobs away, and those who rank are held
  to what is left (`steady`).
- `SavedTheorem` (`SavedRowsKeepTheirOwn`), an action property, from the three steps that write a saved row.

`OthersKnow` is the frame all actions share: what a request that is not alone knows stays true as long as records, active jobs and
the features of active jobs are not taken away.

**Startup**, in `Retrieval_proofs`, for every script that meets `ScriptAssumption`, every file and any number of openings and kills. `OpenedTheorem`:
`OpenedIsWhole`. `WholeInv` says that every statement before the one an opening is at has left what it is for. It is inductive because nothing
an opening does takes anything away (`Grows`); the delicate part is the backfill, which stays done only because the column it fills is never added twice.
`RacedTheorem`: `FailsOnlyWhenRaced`, an opening is refused only when another ran at the same time. `RaceInv` adds what an opening that nobody raced
`Knows`: the column it is about to add is still missing, and what is recorded was recorded before it read the registry or by itself; since the ids of a
script are distinct (`ScriptAssumption`), no statement of it is refused.

**RetrievalContext**, at the end of `Retrieval_proofs`, for any texts, lengths, overlap, similarities and limits (`ContextAssumption`: they are numbers, and the documents are finitely many).
`ContextOfTheTextTheorem` (`ContextOfTheText`) follows the three loops. Cutting (`CutSoFar`): every chunk done is the stretch of paragraphs it names, and every paragraph
so far is in one of them or in the open one; the overlap repeats the last paragraphs of the chunk before. Gathering (`Gathered`): every item says what its chunks say, no chunk
is in two items, and each chunk used is in one; when neighbours are joined, only text both have is dropped (`JoinedHasBoth`). Filling (`InBudget`): the sums are those of the items, within every limit, and
as long as nothing was cut every item is there. The window that shortens an item to a number of tokens, `FitTokens`, is a recursive function: what matters of it is that it gives a beginning of the item within
the tokens.

**Copilot_proofs**, for any number of requests, jobs, prompts and replies and any number of messages looked at. `BaseInv` says, by where a chat is, what it
has stored: the one chat inside is on the event loop (`loop`), its question has the time it began, its answer a later one, and audits are of chats that ended so.

- `QuestionTheorem`: `NothingWithoutQuestion`. `MemoryInv` bounds what was learned by the chats that have learned it (`LearnedFrom`), which only grows.
- `StaysTheorem`: `StaysOnItsJob`. In a conversation in which one job was named (`OnlyJob`) the chats about no job ran from their arrival to their end before the
  first answer about it, because only a chat about a job awaits a page; so after an answer the newest message is about the job. A question without an answer (the model
  failed) counts too, but it bears the time its request began, before the await: if so many messages about no job as are looked at came in the meantime, it is
  not among the newest, and the next request loses the job. The property excepts that alone (`Overtaking`), and the proof counts it.
- `KeepsTheorem`: `KeepsToItsJob`. The deterministic analysis has the title, four headings and 600 characters; that it is strong enough by the code's own test needs
  the hypothesis `NoPhrase`, that no posting has "I can help" among its texts, because the analysis repeats them.
- `HonestTheorem` (`SnapshotIsHonest`) is about `PageContext`, for any pages, postings, lines and requests. The stored row is what a live answer was turned into, by a request
  that was asked before it read the page (`IsRow`); `Knows` says of an answer which of the four ways it was given. That the merge of page and posting loses no line needs what the
  folds over lines return: `UniqueOf`, `LinesOfTyped`, `ReadingTyped`, `ListsTyped`, each by `FoldExists` and `FoldRun`.
- `EmptyTheorem` (`EmptyOnlyWithoutListing`) and `SameTheorem` (`SameForEveryReader`) are about `Scrape`, for any sources, answers, pages, redirects, rows and filters. Constants are assumed to be
  what they are in the code: pages and answers lists, addresses addresses, and None none of what is read (`ScrapeAssumption`). The invariant (`ScrapeInv`): until a source is done, nothing
  fetched for it shows a posting, and only Greenhouse gets to a page of openings. A reader that returns nothing saw nothing is a lemma for each kind of page (`ApiEmpty`, `GenericIs`, `LeverIs`, `StaticIs`);
  for Greenhouse it matters that whether a link looks like a posting depends on its path alone, which is the same under the configured address and the one that answered.
  The sections of a digest are disjoint sets of rows by the first row of each source (`BuiltSplit`), and still are after the filter has dropped some of their jobs
  and the empty ones (`KeptSplit`), so the counts add up (`SplitSent`).
- `MatchIsExplainedTheorem` (`MatchIsExplained`) is about `Matching`, for any profiles, postings and rule tables. `MatchAssumption` says that the years of an entry are numbers or unknown and
  that the signals of texts are finitely many. The years: merging the ranges in the order of their starts keeps them apart (`MergeKeepsApart`) and loses no year (`MergedYears`), so the
  sum of their lengths counts every year once (`YearsOnce`). The explanation: no component lists a thing both as matched and as missing
  (`Apiece`, a lemma for each; role and discipline share one), a blocker is never a skill that matched, and where there is a blocker the skill gap is shown as
  a high one, because blockers are named up to 30 percent and a gap is high below 35 (`BlockersShown`; `SkillScore` says that the score is an integer, so that the bounds compare).

**Model-checked only**: liveness (`QueueDrains`, `ChunksGetReady`, `ReportedEventually`, `OpensInTheEnd`), which with
ENABLED is beyond the prover. Every other property of a passing run is proved, for the hypotheses said above: one worker for `SearchFindsOneText`, no "I can help" in a
posting for `KeepsToItsJob`.

## 7. Where the code and its documentation disagree

The first two are violation runs, whose counterexample is a short behaviour of the code.

1. **A refresh that died is taken for done** (`RetrievalIngestion_crash`). The document is upserted
   with the new checksum before its chunks are replaced (`services/retrieval/ingestion.py:372`). When the
   run stops or the replacement raises, the next refresh of the same text finds the
   checksum equal and marks document and source ready with the old chunks or none;
   `tests/test_retrieval_orchestration.py:324-326` expects chunks after it.
2. **An account that cannot be deleted** (`Accounts_delete`). `delete_subscriber_account`
   (`db/repository.py:7621`) deletes the rows of a list of tables and then the subscriber. Sign-in links and
   reset tokens are not in the list and refer to it without a delete rule, and so do the profile, its entries, CV uploads and parse runs with their audits, the AI audit
   log, conversations and retrieval sources (`db/sqlite.py:306-765`), so who ever asked for a link or saved a profile cannot delete the
   account; the page says "All data, profile and matches will be permanently deleted."

The modules contain the following too; they are what the properties above except, and are kept here because a reader of the code
would want to know.

- A ready chunk can be left with two vectors, or none for a moment, when two workers claim one job (`db/repository.py:7055`); `SearchFindsOneText` is checked with one worker.
- Two first refreshes that overlap insert two documents of one source (`db/sqlite.py:660-674` has no key over source and kind); a search may answer with both from then on.
- Any job an employer gives the title of the talent pool is taken for the pool (`db/employer_repository.py:1571-1581`).
- A dated block in which no title is found is dropped from the profile (`services/cv_profile_parser.py:2834-2835`).
- The model's answer is held to seven tenths of the words of its names; years, degree, field and description are taken as they come
  (`services/cv_ocr_structuring.py:297-307`, `:341-387`).
- A lock directory left behind by SIGKILL stops every later run (`scripts/run_crawl.sh:89`).
- Once a certificate is stored with a language entry, every later save of the languages fails (`db/repository.py:1880`, `db/sqlite.py:487`), after
  the row and the earlier sections were committed.
- A pivot is said to replace every section (`services/cv_profile_auto_apply.py:334-336`); the code clears education only.
- `needs_manual_review` is computed in two ways (`api/routers/user_profile.py`, where a page is built and where a selection is applied), and insights leave out certificates.
- A registration of an employer that stops half way leaves an address that can neither sign in nor register again.
- An impression counted at the same time as another is lost, or violates a key and turns the page into an error.
- Two first openings after an update race for a column or a registry row; the loser answers 500 and a retry heals it. A migrated old
  file keeps a UNIQUE key of saved jobs that a new file does not have.
- A conversation of the copilot is created before the analysis of its job may fail, and a question is stored before the model may
  fail: a retry repeats it, and learned terms are counted twice.
- Two first stores of the snapshot of one page end in an error for one of them; a slower, older fetch may overwrite a newer snapshot.
- An experience gap is reported for a job that asks for no years (`services/matching/explanations.py:536-546`).
- `pypdf` failing loses the text the layout reader had found (`services/cv_extraction.py:369-376` says otherwise).

## 8. What is not modelled

- *Dead code*: `services/cv_parser_engine.py`, `services/employer_outreach_store.py`, the batch, cache, telemetry and enterprise parts of
  `services/cv_engine/` and `services/matching/employer_scoring.py` are called by nothing but tests.
- *External*: what OCR, PDF libraries, the model service, other sites and the mail server answer is an input of the models.
- *Single-statement reads and writes, or output*: admin tools, e-mail and export formatting,
  server-rendered shells, settings (one writer that replaces a file by one rename), rate
  counters, CSRF, the employer's settings and compliance screens.
- *Derived views*: profile insights, completeness, the AI audit pages: computed on each request from rows other modules have.
- *The one-shot AI tasks* (headline, roles, skills): what they ask and suggest; `Copilot!Suggest` is their common frame, an answer and an audit line.
- *The frontend*: a client; its requests are the arrivals of the models.
- *Left out of modelled parts*: the avatar columns, deletion of CVs, the text of mails, the model and size of
  vectors, the hydration of job pages inside a crawl (no caller turns it on), columns and indexes no migration adds.

## 9. Plan

Done, in this order: `EmbeddingQueue` and its proofs; `RetrievalIngestion`; `Crawl`, `DigestFeed`,
`Digest` and the proof of its feed; `CandidateProfile` and its proofs; `Accounts` and its proofs; `Employer`; `JobCorpus` and `SavedJobs`; the CV modules;
`SkillList`; `CvReview`; `Matching`; `Scrape`, `RetrievalContext`, `PageContext`, `Copilot`; `Startup` and its proofs; then the proofs of `Digest` and its refinement, of
`RetrievalIngestion`, of `Employer`, of `SavedJobs`, of `SkillList`, of `Copilot`, of `PageContext`, of `CvReview`, of `Scrape`, those of `Accounts` and
`CandidateProfile` about whose rows there are and which CV decides, and last those about texts: `CvIntake`, `Matching`, `RetrievalContext` and `CvEntries`.

What would come next: the parts of the code that only reach the models as an input: first the hydration of job pages inside a crawl, should a caller turn it on.

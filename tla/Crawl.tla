-------------------------------- MODULE Crawl --------------------------------
(***************************************************************************)
(* The crawl (services/crawl.py) over the jobs table: every source is      *)
(* fetched, its postings are upserted one by one by fingerprint, and the   *)
(* active rows of the source that were not seen become inactive.           *)
(*                                                                         *)
(* A posting stands for its fingerprint (company, title, location, URL).   *)
(* The fingerprint does not hold the source, so two sources may list one   *)
(* posting: they share its row.                                            *)
(***************************************************************************)
EXTENDS Naturals, FiniteSets

CONSTANTS Posting,     \* postings, by fingerprint
          NumSources,  \* number of configured sources
          Lists,       \* the postings each source may list
          Process,     \* command line processes
          MaxTime,     \* bound: seconds on the clock
          MaxFailures, \* bound: failures and kills in a behaviour
          Nil

Source == 1 .. NumSources  \* crawled in this order
Time   == 0 .. MaxTime

ASSUME SourceAssumption == NumSources \in Nat \ {0}
ASSUME ListsAssumption  == Lists \in [Source -> SUBSET Posting]
ASSUME ClockAssumption  == MaxTime \in Nat /\ MaxFailures \in Nat
ASSUME NoValue          == Nil \notin Posting /\ Nil \notin Nat

VARIABLES
  now,       \* _utc_now_iso(), in whole seconds
  rows,      \* the jobs table
  crawler,   \* where each process is in run_multi_source_crawl
  crawled,   \* last crawl_runs row of each source, and what that crawl parsed
  failures   \* failures and kills so far

crawlVars == <<now, rows, crawler, crawled, failures>>

NoRow == [source |-> Nil, active |-> FALSE, firstSeen |-> Nil, lastSeen |-> Nil]
HasRow(j) == rows[j].firstSeen # Nil

IdleCrawler == [pc |-> "idle", source |-> 1, started |-> 0, todo |-> {},
                seen |-> {}, job |-> Nil, found |-> FALSE, ok |-> {}]

CrawlInit ==
  /\ now = 0
  /\ rows = [j \in Posting |-> NoRow]
  /\ crawler = [p \in Process |-> IdleCrawler]
  /\ crawled = [s \in Source |-> [ok |-> FALSE, jobs |-> {}]]
  /\ failures = 0

---------------------------------------------------------------------------
(* Time and failures *)

Tick ==
  /\ now < MaxTime
  /\ now' = now + 1
  /\ UNCHANGED <<rows, crawler, crawled, failures>>

FailOnce == failures < MaxFailures /\ failures' = failures + 1

---------------------------------------------------------------------------
(* run_multi_source_crawl and, for each source, run_single_source_crawl *)

Crawling(p, pc) == crawler[p].pc = pc
SourceOf(p)     == crawler[p].source
Crawls(p, c)    == crawler' = [crawler EXCEPT ![p] = c]
Onward(p, pc)   == Crawls(p, [crawler[p] EXCEPT !.pc = pc])

(* The loop goes on with the next source whatever became of this one.       *)
NextSource(p, ok) ==
  Crawls(p, IF SourceOf(p) = NumSources
            THEN [IdleCrawler EXCEPT !.pc = "done", !.ok = ok]
            ELSE [IdleCrawler EXCEPT !.pc = "start", !.ok = ok, !.source = SourceOf(p) + 1])

BeginCrawl(p) == Crawls(p, [IdleCrawler EXCEPT !.pc = "start"])

(* started_at is read and start_crawl_run inserts its row. *)
StartRun(p) ==
  /\ Crawling(p, "start")
  /\ Crawls(p, [crawler[p] EXCEPT !.pc = "fetch", !.started = now])
  /\ crawled' = [crawled EXCEPT ![SourceOf(p)].ok = FALSE]
  /\ UNCHANGED <<now, rows, failures>>

(* _parse_jobs_for_source: what the page happens to list; also nothing, as  *)
(* when a greenhouse API error is swallowed and the page shows no posting.  *)
ParseJobs(p) ==
  /\ Crawling(p, "fetch")
  /\ \E page \in SUBSET Lists[SourceOf(p)] :
       Crawls(p, [crawler[p] EXCEPT !.todo = page,
                                    !.pc = IF page = {} THEN "mark" ELSE "find"])
  /\ UNCHANGED <<now, rows, crawled, failures>>

(* The SELECT of upsert_job. *)
FindJob(p) ==
  /\ Crawling(p, "find")
  /\ \E j \in crawler[p].todo :
       Crawls(p, [crawler[p] EXCEPT !.job = j, !.found = HasRow(j), !.pc = "write"])
  /\ UNCHANGED <<now, rows, crawled, failures>>

(* The row after the INSERT or the UPDATE of upsert_job. *)
Upserted(row, p) ==
  [source |-> SourceOf(p), active |-> TRUE, lastSeen |-> crawler[p].started,
   firstSeen |-> IF crawler[p].found THEN row.firstSeen ELSE crawler[p].started]

JobSeen(p, j) ==
  LET rest == crawler[p].todo \ {j} IN
  Crawls(p, [crawler[p] EXCEPT !.todo = rest, !.seen = crawler[p].seen \cup {j},
                               !.job = Nil, !.found = FALSE,
                               !.pc = IF rest = {} THEN "mark" ELSE "find"])

(* The write of upsert_job. *)
WriteJob(p) ==
  LET j == crawler[p].job IN
  /\ Crawling(p, "write")
  /\ crawler[p].found \/ ~HasRow(j)
  /\ rows' = [rows EXCEPT ![j] = Upserted(rows[j], p)]
  /\ JobSeen(p, j)
  /\ UNCHANGED <<now, crawled, failures>>

(* UNIQUE(fingerprint): another process inserted the posting since the      *)
(* SELECT, and the whole source fails.                                      *)
InsertRefused(p) ==
  /\ Crawling(p, "write")
  /\ ~crawler[p].found /\ HasRow(crawler[p].job)
  /\ Onward(p, "failed")
  /\ UNCHANGED <<now, rows, crawled, failures>>

(* Mutant: rows of every source are marked. *)
MarkAllMissing(p) ==
  /\ Crawling(p, "mark")
  /\ rows' = [j \in Posting |->
       IF j \notin crawler[p].seen THEN [rows[j] EXCEPT !.active = FALSE] ELSE rows[j]]
  /\ Onward(p, "finish")
  /\ UNCHANGED <<now, crawled, failures>>

(* mark_missing_jobs_inactive *)
MarkMissing(p) ==
  /\ Crawling(p, "mark")
  /\ rows' = [j \in Posting |->
       IF rows[j].source = SourceOf(p) /\ j \notin crawler[p].seen
       THEN [rows[j] EXCEPT !.active = FALSE] ELSE rows[j]]
  /\ Onward(p, "finish")
  /\ UNCHANGED <<now, crawled, failures>>

FinishRun(p) ==
  /\ Crawling(p, "finish")
  /\ crawled' = [crawled EXCEPT ![SourceOf(p)] = [ok |-> TRUE, jobs |-> crawler[p].seen]]
  /\ NextSource(p, crawler[p].ok \cup {SourceOf(p)})
  /\ UNCHANGED <<now, rows, failures>>

(* A fetch, the parser, a locked database or the page hydration raises;     *)
(* before start_crawl_run returned there is no row to mark as failed.       *)
SourceRaises(p) ==
  /\ crawler[p].pc \in {"start", "fetch", "find", "write", "mark", "finish"}
  /\ FailOnce
  /\ IF Crawling(p, "start") THEN NextSource(p, crawler[p].ok) ELSE Onward(p, "failed")
  /\ UNCHANGED <<now, rows, crawled>>

(* The except clause; the rows written so far stay. *)
FailRun(p) ==
  /\ Crawling(p, "failed")
  /\ NextSource(p, crawler[p].ok)
  /\ UNCHANGED <<now, rows, crawled, failures>>

CrawlStep(p) ==
  \/ StartRun(p) \/ ParseJobs(p) \/ FindJob(p) \/ WriteJob(p) \/ InsertRefused(p)
  \/ MarkMissing(p) \/ FinishRun(p) \/ FailRun(p)

---------------------------------------------------------------------------
(* Properties *)

(* While nothing crawls, the active rows of a source whose last crawl       *)
(* succeeded are what that crawl parsed, except for postings whose row      *)
(* another source has taken over since.                                     *)
ActiveMatchesLastCrawl ==
  (\A p \in Process : crawler[p].pc \in {"idle", "done"}) =>
    \A s \in Source : crawled[s].ok =>
      /\ {j \in Posting : rows[j].source = s /\ rows[j].active} \subseteq crawled[s].jobs
      /\ \A j \in crawled[s].jobs : HasRow(j) /\ (rows[j].source = s => rows[j].active)
=============================================================================

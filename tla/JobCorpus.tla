------------------------------ MODULE JobCorpus ------------------------------
(***************************************************************************)
(* The corpus of canonical jobs: the records of the sources, the canonical  *)
(* jobs and links rebuilt from them (services/jobs/ingestion.py and         *)
(* canonicalization.py), the pages of postings fetched to enrich them       *)
(* (external_context_refresh.py), and the features computed from both, by a *)
(* hydration or by a ranking that misses them (feature_engine.py,           *)
(* services/matching).  A posting is a crawled job with a page of its own;  *)
(* what a page says is a version number, and every connection reads in one  *)
(* step and writes, transaction by transaction, in later ones.              *)
(***************************************************************************)
EXTENDS Naturals, FiniteSets

CONSTANTS Request,      \* processes and requests a behaviour may contain
          Posting,      \* crawled jobs, all in the table jobs from the start
          Role,         \* the company and title of each posting
          Place,        \* its location
          Titled,       \* postings whose page says company and title
          CorpusMenus,  \* bound: the kinds of requests that follow each other
          MaxVersion,   \* bound: versions of the pages
          MaxInFlight,  \* bound: requests running at the same time
          MaxStops,     \* bound: stops
          Nil

CorpusOp == {"sync", "refresh", "hydrate", "hydratePage", "hydratePages", "list", "save",
             "unsave", "note", "status", "open"}

ASSUME CorpusBounds == /\ Request \subseteq Nat
                       /\ CorpusMenus \subseteq [Request -> SUBSET CorpusOp]
                       /\ Titled \subseteq Posting

VARIABLES
  page,      \* what the page of a posting says now
  snapshot,  \* job_external_context_snapshots: what was last read of it, 0 for none
  records,   \* job_source_records
  canon,     \* canonical_jobs
  links,     \* canonical_job_links: the canonical job of a record
  feature,   \* canonical_job_features
  profile,   \* whether the subscriber has a subscriber_profile_features row
  req,       \* where each request is
  stops      \* stops so far

corpus == <<page, snapshot, records, canon, links, feature>>
corpusVars == <<corpus, profile, req, stops>>

None == [none |-> Nil]

(* build_canonical_job_key: company, title, location and URL of a record.    *)
Key == {<<Role[p], Place[p], u>> : p \in Posting, u \in Posting}
CanonicalKey(p, record) == <<Role[p], Place[p], record.url>>
ApplyUrl(k) == k[3]

(* A feature: the text of the job it was built from, and its page context.   *)
Feature == [text : 1 .. MaxVersion, ctx : 0 .. MaxVersion, page : Posting]

IsRow(row) == row # None
ActiveRecords(rs) == {p \in Posting : IsRow(rs[p]) /\ rs[p].active}
ActiveJobs == {k \in Key : IsRow(canon[k]) /\ canon[k].active}

(* A request: the posting or jobs it is about, the step it is at, what it    *)
(* still has to do, what it has read, and for its history the jobs active    *)
(* all along and whether it ran alone.                                       *)
Call(op, pc, arg) ==
  [op |-> op, pc |-> pc, arg |-> arg, then |-> "answer", todo |-> {}, read |-> Nil,
   groups |-> Nil, steady |-> {}, alone |-> TRUE]

CorpusInit ==
  /\ page = [p \in Posting |-> 1]
  /\ snapshot = [p \in Posting |-> 0]
  /\ records = [p \in Posting |-> None]
  /\ canon = [k \in Key |-> None]
  /\ links = [p \in Posting |-> Nil]
  /\ feature = [k \in Key |-> None]
  /\ profile = FALSE
  /\ req = [r \in Request |-> Call(Nil, "waiting", Nil)]
  /\ stops = 0

---------------------------------------------------------------------------
(* Requests *)

Ended == {"done", "refused", "raised", "stopped"}
At(r, pc) == req[r].pc = pc
InFlight == {r \in Request : ~At(r, "waiting") /\ req[r].pc \notin Ended}
Outcome(call) ==
  IF call.pc \in Ended THEN Call(call.op, call.pc, call.arg) ELSE call
Become(r, call) == req' = [req EXCEPT ![r] = Outcome(call)]
Go(r, pc) == Become(r, [req[r] EXCEPT !.pc = pc])

(* A request starts: those it meets are not alone, and neither is it.        *)
Begin(r, call) ==
  /\ At(r, "waiting")
  /\ \E menu \in CorpusMenus :
       call.op \in menu[r] /\ \A q \in Request : q < r => req[q].op \in menu[q]
  /\ \A q \in Request : q < r => ~At(q, "waiting")
  /\ Cardinality(InFlight) < MaxInFlight
  /\ req' = [q \in Request |->
               IF q = r THEN [call EXCEPT !.alone = InFlight = {}]
               ELSE IF q \in InFlight THEN [req[q] EXCEPT !.alone = FALSE] ELSE req[q]]

Answer(r) ==
  /\ At(r, "answer")
  /\ Go(r, "done")
  /\ UNCHANGED <<corpus, profile, stops>>

(* Everything that is running is cut off; what was committed stays.          *)
Stop ==
  /\ stops < MaxStops /\ InFlight # {}
  /\ stops' = stops + 1
  /\ req' = [r \in Request |-> IF r \in InFlight THEN Outcome([req[r] EXCEPT !.pc = "stopped"])
                               ELSE req[r]]
  /\ UNCHANGED <<corpus, profile>>

(* The board edits a posting: a version no page had before. *)
EditPage(p) ==
  /\ \E v \in 2 .. MaxVersion :
       /\ \A q \in Posting : page[q] < v
       /\ page' = [page EXCEPT ![p] = v]
  /\ UNCHANGED <<snapshot, records, canon, links, feature, profile, req, stops>>

---------------------------------------------------------------------------
(* sync_job_source: the records of a source become what its board lists      *)

SyncJobSource(r) ==
  /\ \E seen \in SUBSET Posting :
       Begin(r, [Call("sync", IF seen = {} THEN "markMissing" ELSE "syncRecord", seen)
                   EXCEPT !.todo = seen])
  /\ UNCHANGED <<corpus, profile, stops>>

UpsertRecord(p, u, text) ==
  records' = [records EXCEPT ![p] = [url |-> u, text |-> text, active |-> TRUE]]

SyncRecord(r) ==
  /\ At(r, "syncRecord")
  /\ \E p \in req[r].todo :
       /\ UpsertRecord(p, p, page[p])
       /\ Become(r, [req[r] EXCEPT !.todo = @ \ {p},
                       !.pc = IF req[r].todo = {p} THEN "markMissing" ELSE "syncRecord"])
  /\ UNCHANGED <<page, snapshot, canon, links, feature, profile, stops>>

MarkMissingRecords(r) ==
  /\ At(r, "markMissing")
  /\ records' = [p \in Posting |-> IF IsRow(records[p]) /\ p \notin req[r].arg
                                   THEN [records[p] EXCEPT !.active = FALSE] ELSE records[p]]
  /\ Go(r, "answer")
  /\ UNCHANGED <<page, snapshot, canon, links, feature, profile, stops>>

---------------------------------------------------------------------------
(* refresh_canonical_jobs                                                    *)

RefreshCanonicalJobs(r) ==
  /\ Begin(r, Call("refresh", "listRecords", Nil))
  /\ UNCHANGED <<corpus, profile, stops>>

Grouped(rs) == {CanonicalKey(p, rs[p]) : p \in ActiveRecords(rs)}
Group(rs, k) == {p \in ActiveRecords(rs) : CanonicalKey(p, rs[p]) = k}

AfterGroup(call, rest) ==
  [call EXCEPT !.todo = rest, !.pc = IF rest = {} THEN "pruneLinks" ELSE "upsertJob"]

ListRecords(r) ==
  /\ At(r, "listRecords")
  /\ Become(r, AfterGroup([req[r] EXCEPT !.groups = records], Grouped(records)))
  /\ UNCHANGED <<corpus, profile, stops>>

(* The text of a canonical job is that of the best record of its group: the  *)
(* score weighs source, completeness and dates, so any record may be it.     *)
PrimaryRecord(rs, k) == Group(rs, k)

UpsertCanonicalJob(r) ==
  /\ At(r, "upsertJob")
  /\ \E k \in req[r].todo :
       /\ \E p \in PrimaryRecord(req[r].groups, k) :
            canon' = [canon EXCEPT ![k] = [text |-> req[r].groups[p].text, active |-> TRUE]]
       /\ Become(r, [req[r] EXCEPT !.read = [job |-> k, left |-> Group(req[r].groups, k)],
                                   !.pc = "upsertLink"])
  /\ UNCHANGED <<page, snapshot, records, links, feature, profile, stops>>

UpsertCanonicalLink(r) ==
  /\ At(r, "upsertLink")
  /\ LET k == req[r].read.job IN
     \E p \in req[r].read.left :
       /\ links' = [links EXCEPT ![p] = k]
       /\ LET left == req[r].read.left \ {p}
          IN  Become(r, IF left = {} THEN AfterGroup([req[r] EXCEPT !.read = Nil], req[r].todo \ {k})
                        ELSE [req[r] EXCEPT !.read = [job |-> k, left |-> left]])
  /\ UNCHANGED <<page, snapshot, records, canon, feature, profile, stops>>

(* Mutant: links of inactive records are left. *)
PruneNoLinks(r) ==
  /\ At(r, "pruneLinks")
  /\ Go(r, "markJobs")
  /\ UNCHANGED <<corpus, profile, stops>>

PruneLinks(r) ==
  /\ At(r, "pruneLinks")
  /\ links' = [p \in Posting |-> IF IsRow(records[p]) /\ ~records[p].active THEN Nil ELSE links[p]]
  /\ Go(r, "markJobs")
  /\ UNCHANGED <<page, snapshot, records, canon, feature, profile, stops>>

AfterRefresh(call) == IF call.op = "hydrate" THEN "rematch" ELSE "answer"

(* What a ranking may still be held to are the jobs active all along.        *)
MarkMissingJobs(r) ==
  /\ At(r, "markJobs")
  /\ LET seen == Grouped(req[r].groups) IN
     /\ canon' = [k \in Key |-> IF IsRow(canon[k]) /\ k \notin seen
                                THEN [canon[k] EXCEPT !.active = FALSE] ELSE canon[k]]
     /\ req' = [q \in Request |->
                  IF q = r THEN Outcome([req[q] EXCEPT !.pc = AfterRefresh(req[q])])
                  ELSE [req[q] EXCEPT !.steady = @ \cap seen]]
  /\ UNCHANGED <<page, snapshot, records, links, feature, profile, stops>>

---------------------------------------------------------------------------
(* refresh_matching_readiness_features                                       *)

(* The jobs are listed first, those that are not active are passed over.     *)
ListJobs(call, jobs) ==
  LET active == jobs \cap ActiveJobs
  IN  [call EXCEPT !.todo = {[job |-> k, text |-> canon[k].text] : k \in active},
                   !.pc = IF active = {} THEN "pruneFeatures" ELSE "buildFeature"]

ToFeatures(call, jobs) ==
  IF jobs = {} THEN [call EXCEPT !.pc = call.then] ELSE ListJobs(call, jobs)

(* The page of the job's own URL, or else that of a record linked to it.     *)
ContextPages(k) ==
  IF snapshot[ApplyUrl(k)] # 0 THEN {ApplyUrl(k)}
  ELSE {records[p].url : p \in {q \in Posting : links[q] = k /\ snapshot[records[q].url] # 0}}

BuildFeature(r) ==
  /\ At(r, "buildFeature")
  /\ \E t \in req[r].todo :
     \E u \in IF ContextPages(t.job) = {} THEN {ApplyUrl(t.job)} ELSE ContextPages(t.job) :
       Become(r, [req[r] EXCEPT !.pc = "storeFeature", !.todo = @ \ {t},
                    !.read = [job |-> t.job,
                              row |-> [text |-> t.text, ctx |-> snapshot[u], page |-> u]]])
  /\ UNCHANGED <<corpus, profile, stops>>

StoreFeature(r) ==
  /\ At(r, "storeFeature")
  /\ feature' = [feature EXCEPT ![req[r].read.job] = req[r].read.row]
  /\ Become(r, [req[r] EXCEPT !.read = Nil,
                  !.pc = IF req[r].todo = {} THEN "pruneFeatures" ELSE "buildFeature"])
  /\ UNCHANGED <<page, snapshot, records, canon, links, profile, stops>>

PruneFeatures(r) ==
  /\ At(r, "pruneFeatures")
  /\ feature' = [k \in Key |-> IF IsRow(canon[k]) /\ ~canon[k].active THEN None ELSE feature[k]]
  /\ Go(r, req[r].then)
  /\ UNCHANGED <<page, snapshot, records, canon, links, profile, stops>>

---------------------------------------------------------------------------
(* hydrate_job_url, for the page of a posting: from a crawl                  *)

(* A snapshot that is still fresh is used as it is; a page that cannot be    *)
(* read leaves what there was.                                               *)
HydrateJobUrl(r) ==
  /\ \E u \in Posting : Begin(r, Call("hydrate", "fetch", u))
  /\ UNCHANGED <<corpus, profile, stops>>

(* What a hydration does after its fetch.                                    *)
AfterFetch(call, snapshots) ==
  CASE call.op = "hydrate" -> IF snapshots[call.arg] = 0 THEN "answer" ELSE "match"
    [] call.op = "hydratePage" -> "findJobs"
    [] call.op = "hydratePages" -> "nextPage"

(* upsert_job_external_context_snapshot *)
StoreSnapshot(u) == snapshot' = [snapshot EXCEPT ![u] = page[u]]

FetchPage(r) ==
  /\ At(r, "fetch")
  /\ StoreSnapshot(req[r].arg) \/ snapshot' = snapshot
  /\ Go(r, AfterFetch(req[r], snapshot'))
  /\ UNCHANGED <<page, records, canon, links, feature, profile, stops>>

(* By URL, or by company and title when the page says them.                  *)
MatchedLegacyJobs(u) == {p \in Posting : p = u \/ (u \in Titled /\ Role[p] = Role[u])}

(* By URL, or by company and title of the first crawled job that matched;    *)
(* active or not.                                                            *)
MatchedRecords(u) == {p \in Posting : IsRow(records[p])
                                        /\ (records[p].url = u \/ Role[p] = Role[u])}

(* Mutant: the jobs are looked for by their links alone. *)
MatchedByLinks(u) == {links[p] : p \in {q \in MatchedRecords(u) : links[q] # Nil}}

(* The jobs of those records, and active ones of that URL or role.           *)
MatchedJobs(u) ==
  {links[p] : p \in {q \in MatchedRecords(u) : links[q] # Nil}}
    \cup {k \in ActiveJobs : ApplyUrl(k) = u \/ k[1] = Role[u]}

Match(r) ==
  /\ At(r, "match")
  /\ LET u == req[r].arg IN
     Become(r, IF MatchedRecords(u) = {}
               THEN [req[r] EXCEPT !.pc = "bootstrap", !.todo = MatchedLegacyJobs(u)]
               ELSE ToFeatures(req[r], MatchedJobs(u)))
  /\ UNCHANGED <<corpus, profile, stops>>

(* _ensure_source_record: whichever job it is for, the record holds the URL  *)
(* and the text of the snapshot at hand.                                     *)
BootstrapRecord(r) ==
  /\ At(r, "bootstrap")
  /\ LET u == req[r].arg IN
     \E p \in req[r].todo :
       /\ UpsertRecord(p, u, snapshot[u])
       /\ Become(r, [req[r] EXCEPT !.todo = @ \ {p},
                       !.pc = IF req[r].todo = {p} THEN "listRecords" ELSE "bootstrap"])
  /\ UNCHANGED <<page, snapshot, canon, links, feature, profile, stops>>

Rematch(r) ==
  /\ At(r, "rematch")
  /\ Become(r, ToFeatures(req[r], MatchedJobs(req[r].arg)))
  /\ UNCHANGED <<corpus, profile, stops>>

---------------------------------------------------------------------------
(* The commands hydrate-job-url, for the features of the jobs of one URL, and *)
(* hydrate-job-pages, for those of all active jobs after all their pages      *)

HydrateJobPage(r) ==
  /\ \E u \in Posting : Begin(r, Call("hydratePage", "fetch", u))
  /\ UNCHANGED <<corpus, profile, stops>>

FindJobs(r) ==
  /\ At(r, "findJobs")
  /\ Become(r, ToFeatures(req[r], {k \in Key : IsRow(canon[k]) /\ ApplyUrl(k) = req[r].arg}))
  /\ UNCHANGED <<corpus, profile, stops>>

HydrateJobPages(r) ==
  /\ Begin(r, [Call("hydratePages", IF ActiveJobs = {} THEN "answer" ELSE "nextPage", Nil)
                 EXCEPT !.todo = {ApplyUrl(k) : k \in ActiveJobs}])
  /\ UNCHANGED <<corpus, profile, stops>>

NextPage(r) ==
  /\ At(r, "nextPage")
  /\ IF req[r].todo = {} THEN Become(r, ListJobs(req[r], ActiveJobs))
     ELSE \E u \in req[r].todo :
            Become(r, [req[r] EXCEPT !.arg = u, !.todo = @ \ {u}, !.pc = "fetch"])
  /\ UNCHANGED <<corpus, profile, stops>>

---------------------------------------------------------------------------
(* build_deterministic_match_catalog: the profile, then the missing features *)

(* The jobs page ranks the active canonical jobs, or the crawled ones when    *)
(* there are none; one job is ranked within the kind it is of.               *)
RanksCorpus(call) == ActiveJobs # {} /\ (call.op = "list" \/ call.arg \in Key)
RanksCrawled(call) == IF call.op = "list" THEN ActiveJobs = {} ELSE call.arg \in Posting

ReadProfile(r) ==
  /\ At(r, "rank")
  /\ Become(r, IF RanksCorpus(req[r]) \/ RanksCrawled(req[r])
               THEN [req[r] EXCEPT !.pc = "storeProfile", !.read = profile,
                                   !.groups = RanksCorpus(req[r]),
                                   !.steady = IF RanksCorpus(req[r]) THEN ActiveJobs ELSE {}]
               ELSE [req[r] EXCEPT !.pc = "ranked", !.read = Nil])
  /\ UNCHANGED <<corpus, profile, stops>>

(* Two first rankings of a subscriber: the second insert is refused.         *)
StoreProfile(r) ==
  /\ At(r, "storeProfile")
  /\ IF ~req[r].read /\ profile
     THEN profile' = profile /\ Go(r, "raised")
     ELSE /\ profile' = TRUE
          /\ Become(r, IF req[r].groups THEN [req[r] EXCEPT !.pc = "missing"]
                       ELSE [req[r] EXCEPT !.pc = "ranked", !.read = Nil])
  /\ UNCHANGED <<corpus, stops>>

MissingFeatures == {k \in ActiveJobs : ~IsRow(feature[k])}

EnsureFeatures(r) ==
  /\ At(r, "missing")
  /\ Become(r, IF MissingFeatures = {} THEN [req[r] EXCEPT !.pc = "pairs"]
               ELSE [ToFeatures(req[r], MissingFeatures) EXCEPT !.then = "pairs"])
  /\ UNCHANGED <<corpus, profile, stops>>

(* The active jobs that have a feature, whatever it was computed from.       *)
ReadPairs(r) ==
  /\ At(r, "pairs")
  /\ Become(r, [req[r] EXCEPT !.pc = "ranked", !.then = "answer",
                              !.read = {k \in ActiveJobs : IsRow(feature[k])}])
  /\ UNCHANGED <<corpus, profile, stops>>

CorpusStep(r) ==
  \/ SyncJobSource(r) \/ SyncRecord(r) \/ MarkMissingRecords(r)
  \/ RefreshCanonicalJobs(r) \/ ListRecords(r) \/ UpsertCanonicalJob(r)
  \/ UpsertCanonicalLink(r) \/ PruneLinks(r) \/ MarkMissingJobs(r)
  \/ BuildFeature(r) \/ StoreFeature(r) \/ PruneFeatures(r)
  \/ HydrateJobUrl(r) \/ FetchPage(r) \/ Match(r) \/ BootstrapRecord(r) \/ Rematch(r)
  \/ HydrateJobPage(r) \/ FindJobs(r) \/ HydrateJobPages(r) \/ NextPage(r)
  \/ ReadProfile(r) \/ StoreProfile(r) \/ EnsureFeatures(r) \/ ReadPairs(r)
  \/ Answer(r)
===============================================================================

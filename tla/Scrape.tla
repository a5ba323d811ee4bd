-------------------------------- MODULE Scrape --------------------------------
(***************************************************************************)
(* What a crawl reads of a source (scrapers/, services/crawl.py), what the *)
(* adapters of the job corpus read of the same answers                     *)
(* (services/jobs/adapters/), and the keyword filter between the new jobs  *)
(* and a digest (filtering/, services/digest.py).                          *)
(*                                                                         *)
(* A page is a sequence of containers: their heading, links, the text with *)
(* a location-like class and the other texts.  PageText are equal up to white *)
(* space, "" is blank; Says gives what the code's word lists and patterns  *)
(* say of a text or of the path of an address.                             *)
(***************************************************************************)
EXTENDS Integers, Sequences, SequencesExt, FiniteSetsExt, Functions, Lists

CONSTANTS
  Says,      \* marks of each text and path
  Lowered,   \* each text in lower case
  IdOf,      \* the last segment or number of each path, or None
  Sources,   \* the configured sources of a crawl: a set of sequences
  Answers,   \* bodies the Greenhouse API may send
  Pages,     \* pages a source may send, with the address after redirects
  Settings,  \* keyword filters
  None

PageText == DOMAIN Says
Address == [site : PageText \cup {None}, path : PageText]
Link == [class : STRING, text : PageText, to : Address \cup {None}]
Container == [class : STRING, heading : PageText, links : Seq(Link),
              place : [class : STRING, text : PageText] \cup {None}, rest : Seq(PageText)]

(* A page is a list of containers, an answer a list of postings, the sources *)
(* are a list; None is none of what is read.                                 *)
ASSUME ScrapeAssumption ==
  /\ None \notin PageText \cup Address \cup Link
  /\ \A list \in Sources : /\ list \in Seq(ToSet(list)) /\ list # <<>>
                           /\ \A i \in DOMAIN list : list[i].url \in Address
  /\ \A answer \in Answers : answer.items \in Seq(ToSet(answer.items))
  /\ \A doc \in Pages : doc.url \in Address /\ doc.page \in Seq(Container)

VARIABLES
  sources,   \* the crawl's sources
  at,        \* the source being read
  stage,     \* what is read next
  next,      \* the discovered address of the openings page
  docs,      \* what was fetched for this source
  parsed,    \* the postings read, for this source and, at the end, for each
  rows,      \* the jobs table: one row for each fingerprint
  digest     \* the digest sent, and the filter it was made with

scrapeVars == <<sources, at, stage, next, docs, parsed, rows, digest>>

Marked(t, marks) == Says[t] \cap marks # {}
Where(s, Test(_)) == ItemsAt(s, {i \in DOMAIN s : Test(s[i])})
FirstOr(s, default) == IF s = <<>> THEN default ELSE s[1]

---------------------------------------------------------------------------
(* Addresses and postings *)

(* urljoin: a link without a site is on the site of the base. *)
Join(base, to) == IF to = None THEN base
                  ELSE IF to.site = None THEN [base EXCEPT !.path = to.path] ELSE to

Fingerprint(job) == <<Lowered[job.company], Lowered[job.title],
                      IF job.place = None THEN "" ELSE Lowered[job.place], job.url>>

Job(source, title, url, place, id) ==
  [source |-> source.name, type |-> source.type, company |-> source.company,
   title |-> title, url |-> url, place |-> place, id |-> id]

(* _extract_source_job_id of the three scrapers. *)
JobId(source, url) == IF source.type = "greenhouse" /\ Marked(url.path, {"generic"})
                      THEN None ELSE IdOf[url.path]
TextOrNone(t) == IF t = "" THEN None ELSE t
Reads(source, base, title, to, place) ==
  LET url == Join(base, to) IN Job(source, title, url, place, JobId(source, url))

---------------------------------------------------------------------------
(* The Greenhouse API *)

(* extract_greenhouse_board_token: the first part of the path. *)
HasBoard(source) == Marked(source.url.site, {"greenhouse"}) /\ ~Marked(source.url.path, {"root"})

IsText(v) == v \notin {None, ""}

(* parse_greenhouse_jobs_api_payload; an array has no "jobs" and raises. *)
ApiJobs(source, answer) ==
  IF answer.shape # "jobs" THEN <<>>
  ELSE LET ok == Where(answer.items, LAMBDA x : IsText(x.title) /\ x.url # None)
       IN [i \in DOMAIN ok |-> Job(source, ok[i].title, ok[i].url,
                                   IF IsText(ok[i].place) THEN ok[i].place ELSE None,
                                   IF IsText(ok[i].id) THEN ok[i].id ELSE JobId(source, ok[i].url))]

---------------------------------------------------------------------------
(* Greenhouse pages *)

ContainerTexts(c) ==
  Where(<<c.heading>> \o [i \in DOMAIN c.links |-> c.links[i].text]
          \o (IF c.place = None THEN <<>> ELSE <<c.place.text>>) \o c.rest,
        LAMBDA t : t # "")

(* _extract_location_from_container: a text with a location-like class, or  *)
(* the first text of the container that is not the title.                   *)
PlaceOf(c, title) ==
  IF c.place # None /\ c.place.text \notin {"", title} THEN c.place.text
  ELSE FirstOr(Where(ContainerTexts(c), LAMBDA t : t # title), None)

LooksLikeTitle(t) == t # "" /\ ~Marked(t, {"button", "length", "no letter"})
LooksLikeDetail(url) == ~Marked(url.path, {"root", "generic"}) /\ Marked(url.path, {"job word", "jid"})

(* _parse_standard_openings *)
StandardJobs(source, base, page) ==
  LET ok(c) == c.class = "opening" /\ c.links # <<>> /\ c.links[1].text # ""
      place(c) == IF c.place = None \/ c.place.class # "location" THEN None ELSE TextOrNone(c.place.text)
      found == Where(page, ok)
  IN [i \in DOMAIN found |-> Reads(source, base, found[i].links[1].text, found[i].links[1].to, place(found[i]))]

(* The links of a page with their containers, in document order. *)
LinksOf(page) == FlattenSeq([i \in DOMAIN page |->
                   [k \in DOMAIN page[i].links |-> [link |-> page[i].links[k], box |-> page[i]]]])

(* The first posting of each address. *)
OfDistinctUrl(jobs) ==
  ItemsAt(jobs, {i \in DOMAIN jobs : \A k \in 1 .. i - 1 : jobs[k].url # jobs[i].url})

(* _parse_generic_job_links: one posting for each address. *)
GenericJobs(source, base, page) ==
  LET good == Where(LinksOf(page), LAMBDA l : /\ l.link.to # None
                                              /\ LooksLikeTitle(l.link.text)
                                              /\ LooksLikeDetail(Join(base, l.link.to)))
  IN OfDistinctUrl([i \in DOMAIN good |->
       Reads(source, base, good[i].link.text, good[i].link.to, PlaceOf(good[i].box, good[i].link.text))])

(* Mutant: a page with an element of class "opening" is read that way only. *)
GreenhouseJobsByClass(source, base, page) ==
  IF \E i \in DOMAIN page : page[i].class = "opening"
  THEN StandardJobs(source, base, page) ELSE GenericJobs(source, base, page)

GreenhouseJobs(source, base, page) ==
  LET standard == StandardJobs(source, base, page)
  IN IF standard # <<>> THEN standard ELSE GenericJobs(source, base, page)

OpeningsScore(text, url) ==
  (IF Marked(text, {"openings"}) THEN 3 ELSE 0)
  + (IF Marked(url.path, {"openings path"}) THEN 2 ELSE 0)
  + (IF Marked(url.path, {"page word"}) THEN 1 ELSE 0)

(* discover_greenhouse_openings_url: the first link of the best score. *)
OpeningsUrl(base, page) ==
  LET links == Where(LinksOf(page), LAMBDA l : l.link.to # None)
      score(l) == OpeningsScore(l.link.text, Join(base, l.link.to))
      best == {i \in DOMAIN links : \A k \in DOMAIN links : score(links[k]) <= score(links[i])}
  IN IF best = {} \/ score(links[Min(best)]) < 3 THEN None
     ELSE Join(base, links[Min(best)].link.to)

---------------------------------------------------------------------------
(* Lever pages and static pages *)

LeverDetail(url) == Marked(url.site, {"lever"}) /\ Marked(url.path, {"deep"})
Named(t) == t # "" /\ ~Marked(t, {"button"})

(* LeverScraper: one posting for each container with a link to a posting.   *)
LeverJobs(source, base, page) ==
  LET details(c) == Where(c.links, LAMBDA l : LeverDetail(Join(base, l.to)))
      listed(c) == \E i \in DOMAIN c.links : c.links[i].to # None /\ LeverDetail(Join(base, c.links[i].to))
      named(c) == Where(details(c), LAMBDA l : Named(l.text))
      title(c) == IF Named(c.heading) THEN c.heading
                  ELSE IF named(c) # <<>> THEN named(c)[1].text ELSE None
      href(c) == IF named(c) # <<>> THEN named(c)[1].to ELSE details(c)[1].to
      place(c) == IF c.place # None /\ c.place.text # title(c) /\ Named(c.place.text) THEN c.place.text
                  ELSE FirstOr(Where(ContainerTexts(c), LAMBDA t : t # title(c) /\ Named(t)), None)
      found == Where(page, LAMBDA c : listed(c) /\ title(c) # None)
  IN [i \in DOMAIN found |-> Reads(source, base, title(found[i]), href(found[i]), place(found[i]))]

(* CustomStaticScraper *)
StaticJobs(source, base, page) ==
  LET link(c) == FirstOr(Where(c.links, LAMBDA l : l.class = "job-link"), None)
      place(c) == IF c.place = None \/ c.place.class # "job-location" THEN None ELSE TextOrNone(c.place.text)
      found == Where(page, LAMBDA c : c.class = "job-listing" /\ link(c) # None /\ link(c).text # "")
  IN [i \in DOMAIN found |-> Reads(source, base, link(found[i]).text, link(found[i]).to, place(found[i]))]

(* create_scraper(config).parse *)
PageJobs(source, base, page) ==
  CASE source.type = "greenhouse" -> GreenhouseJobs(source, base, page)
    [] source.type = "lever"      -> LeverJobs(source, base, page)
    [] OTHER                      -> StaticJobs(source, base, page)

---------------------------------------------------------------------------
(* The adapters of the job corpus read the same answers. *)

CorpusJob(source, title, url, place, id) ==
  [id |-> id, title |-> title, url |-> url, place |-> place, company |-> source.company]

(* Mutant: a posting may lack an address. *)
ApiCorpusJobsAnyUrl(source, answer) ==
  LET ok == IF answer.shape # "jobs" THEN <<>>
            ELSE Where(answer.items, LAMBDA x : IsText(x.title) /\ IsText(x.id))
  IN [i \in DOMAIN ok |-> CorpusJob(source, ok[i].title, ok[i].url,
                                    IF IsText(ok[i].place) THEN ok[i].place ELSE None, ok[i].id)]

(* GreenhouseJobSourceAdapter of an answer of the API. *)
ApiCorpusJobs(source, answer) ==
  LET ok == IF answer.shape # "jobs" THEN <<>>
            ELSE Where(answer.items, LAMBDA x : IsText(x.title) /\ x.url # None /\ IsText(x.id))
  IN [i \in DOMAIN ok |-> CorpusJob(source, ok[i].title, ok[i].url,
                                    IF IsText(ok[i].place) THEN ok[i].place ELSE None, ok[i].id)]

(* _parse_html_fallback: the scraper's postings, under the address that     *)
(* answered.                                                                *)
Renamed(source, job) ==
  CorpusJob(source, job.title, job.url, job.place, IF job.id = None THEN job.url ELSE job.id)
PageCorpusJobs(source, doc) ==
  LET jobs == PageJobs(source, doc.url, doc.page)
  IN [i \in DOMAIN jobs |-> Renamed(source, jobs[i])]

---------------------------------------------------------------------------
(* The keyword filter *)

FieldText(job, field) ==
  CASE field = "title" -> job.title [] field = "company_name" -> job.company
    [] OTHER -> IF job.place = None THEN "" ELSE job.place

(* A keyword is found in a text: Says lists the keywords in it. *)
Matches(job, words, fields) ==
  {m \in fields \X words : FieldText(job, m[1]) # "" /\ m[2] \in Says[FieldText(job, m[1])]}

Enabled(filter) == filter.include # {} \/ filter.exclude # {}
Passes(job, filter) ==
  \/ ~Enabled(filter)
  \/ /\ filter.include # {} => Matches(job, filter.include, filter.fields) # {}
     /\ Matches(job, filter.exclude, filter.fields) = {}

(* filter_jobs_by_keyword_settings, of the previews and the export. *)
Preview(jobs, filter) ==
  [passed |-> Where(jobs, LAMBDA j : Passes(j, filter)), rejected |-> Where(jobs, LAMBDA j : ~Passes(j, filter))]

(* build_digest: sections by source, in the order of their first job. *)
SectionKey(job) == <<job.source, job.type>>
BuildDigest(jobs) ==
  LET firsts == ItemsAt(jobs, {i \in DOMAIN jobs : \A k \in 1 .. i - 1 : SectionKey(jobs[k]) # SectionKey(jobs[i])})
      section(key) == LET own == Where(jobs, LAMBDA j : SectionKey(j) = key)
                      IN [key |-> key, count |-> Len(own), jobs |-> own]
  IN [total |-> Len(jobs), sections |-> [n \in DOMAIN firsts |-> section(SectionKey(firsts[n]))]]

Kept(section, filter) ==
  LET own == Where(section.jobs, LAMBDA j : Passes(j, filter))
  IN [key |-> section.key, count |-> Len(own), jobs |-> own]
Total(sections) == FoldLeft(LAMBDA n, s : n + s.count, 0, sections)

(* filter_digest_result_by_keyword_settings *)
FilteredDigest(whole, filter) ==
  IF ~Enabled(filter) THEN [total |-> whole.total, sections |-> whole.sections, out |-> 0]
  ELSE LET kept == Where([i \in DOMAIN whole.sections |-> Kept(whole.sections[i], filter)],
                         LAMBDA s : s.jobs # <<>>)
       IN [total |-> Total(kept), sections |-> kept, out |-> whole.total - Total(kept)]

---------------------------------------------------------------------------
(* run_multi_source_crawl, with what _parse_jobs_for_source reads. *)

FirstStage(source) == IF source.type = "greenhouse" /\ HasBoard(source) THEN "api" ELSE "page"

ScrapeInit ==
  /\ sources \in Sources
  /\ at = 1
  /\ stage = FirstStage(sources[1])
  /\ next = None /\ docs = <<>> /\ parsed = <<>> /\ rows = <<>> /\ digest = None

Source == sources[at]

(* _deduplicate_jobs_by_fingerprint *)
Deduplicated(jobs) ==
  ItemsAt(jobs, {i \in DOMAIN jobs : \A k \in 1 .. i - 1 : Fingerprint(jobs[k]) # Fingerprint(jobs[i])})

(* upsert_job: the row of the fingerprint, or a new one. *)
Upsert(table, job) ==
  LET old == {i \in DOMAIN table : Fingerprint(table[i]) = Fingerprint(job)}
  IN IF old = {} THEN Append(table, job) ELSE [table EXCEPT ![Min(old)] = job]

FinishSource(outcome, jobs) ==
  /\ parsed' = Append(parsed, [outcome |-> outcome, jobs |-> Deduplicated(jobs)])
  /\ rows' = FoldLeft(Upsert, rows, Deduplicated(jobs))
  /\ stage' = "read"
  /\ next' = None

(* _try_parse_greenhouse_api_jobs: an error is taken for an empty list.     *)
ReadApi ==
  /\ stage = "api"
  /\ \/ \E answer \in Answers :
          /\ docs' = Append(docs, [kind |-> "api", answer |-> answer])
          /\ IF answer.shape = "array" THEN FinishSource("failed", <<>>)
             ELSE IF ApiJobs(Source, answer) # <<>> THEN FinishSource("ok", ApiJobs(Source, answer))
             ELSE stage' = "page" /\ UNCHANGED <<next, parsed, rows>>
     \/ stage' = "page" /\ UNCHANGED <<docs, next, parsed, rows>>
  /\ UNCHANGED <<sources, at, digest>>

Document(doc) == [kind |-> "page", url |-> doc.url, page |-> doc.page]

(* Without a job the page of openings is read next, if it names another one. *)
GoOnWith(jobs, url, more) ==
  IF jobs = <<>> /\ Source.type = "greenhouse" /\ more \notin {None, url}
  THEN stage' = "openings" /\ next' = more /\ UNCHANGED <<parsed, rows>>
  ELSE FinishSource("ok", jobs)

(* The configured page; links are joined to the configured address. *)
ReadPage ==
  /\ stage = "page"
  /\ \E doc \in Pages :
       /\ docs' = Append(docs, Document(doc))
       /\ GoOnWith(PageJobs(Source, Source.url, doc.page), doc.url, OpeningsUrl(doc.url, doc.page))
  /\ UNCHANGED <<sources, at, digest>>

(* The discovered page; links are joined to the address that answered. *)
ReadOpenings ==
  /\ stage = "openings"
  /\ \E doc \in Pages :
       /\ doc.url.site = next.site
       /\ docs' = Append(docs, Document(doc))
       /\ FinishSource("ok", PageJobs(Source, doc.url, doc.page))
  /\ UNCHANGED <<sources, at, digest>>

(* CrawlFetchError: the source fails and its rows stay as they are. *)
FetchFails ==
  /\ stage \in {"page", "openings"}
  /\ FinishSource("failed", <<>>)
  /\ UNCHANGED <<sources, at, docs, digest>>

NextSourceOrEnd ==
  /\ stage = "read"
  /\ IF at < Len(sources)
     THEN at' = at + 1 /\ stage' = FirstStage(sources[at + 1]) /\ docs' = <<>>
     ELSE stage' = "digest" /\ UNCHANGED <<at, docs>>
  /\ UNCHANGED <<sources, next, parsed, rows, digest>>

(* A digest of the new jobs, as digest-preview and notify build it. *)
SendDigest ==
  /\ stage = "digest"
  /\ \E filter \in Settings :
       digest' = [filter |-> filter, result |-> FilteredDigest(BuildDigest(rows), filter)]
  /\ stage' = "end"
  /\ UNCHANGED <<sources, at, next, docs, parsed, rows>>

ScrapeNext == ReadApi \/ ReadPage \/ ReadOpenings \/ FetchFails \/ NextSourceOrEnd \/ SendDigest
ScrapeSpec == ScrapeInit /\ [][ScrapeNext]_scrapeVars

---------------------------------------------------------------------------
(* Properties *)

(* A reader of the page would see a posting: a link with the name of a job  *)
(* that leads to one.                                                       *)
ShowsPosting(source, doc) ==
  IF doc.kind = "api"
  THEN doc.answer.shape = "jobs"
       /\ \E i \in DOMAIN doc.answer.items :
            IsText(doc.answer.items[i].title) /\ doc.answer.items[i].url # None
  ELSE \E i \in DOMAIN doc.page : \E k \in DOMAIN doc.page[i].links :
         LET l == doc.page[i].links[k] IN
         /\ l.to # None
         /\ CASE source.type = "greenhouse" -> LooksLikeTitle(l.text) /\ LooksLikeDetail(Join(doc.url, l.to))
              [] source.type = "lever"      -> Named(l.text) /\ LeverDetail(Join(source.url, l.to))
              [] OTHER -> doc.page[i].class = "job-listing" /\ l.class = "job-link"
                          /\ \A n \in 1 .. k : doc.page[i].links[n].text # ""

(* A crawl that succeeds with nothing, upon which every row of the source   *)
(* is deactivated, fetched nothing that shows a posting: each way of        *)
(* reading a page is tried before the page is taken to be empty.            *)
EmptyOnlyWithoutListing ==
  stage = "read" /\ Last(parsed).outcome = "ok" /\ Last(parsed).jobs = <<>>
    => \A i \in DOMAIN docs : ~ShowsPosting(Source, docs[i])

(* The job corpus links a posting to the jobs table by its address: what an *)
(* adapter reads of an API answer, or of a page that was not redirected,    *)
(* the crawl reads too, under the same name, address and number.            *)
AllRead(corpus, crawl) ==
  \A job \in ToSet(corpus) : \E read \in ToSet(crawl) :
    /\ read.title = job.title /\ read.url = job.url /\ read.place = job.place
    /\ job.id = IF read.id = None THEN read.url ELSE read.id
ReadersAgree ==
  \A i \in DOMAIN docs :
    LET doc == docs[i] IN
    IF doc.kind = "api" THEN AllRead(ApiCorpusJobs(Source, doc.answer), ApiJobs(Source, doc.answer))
    ELSE doc.url = Source.url => AllRead(PageCorpusJobs(Source, doc), PageJobs(Source, Source.url, doc.page))

(* A digest names exactly the jobs the preview of its filter passes, its    *)
(* counts are those of its sections, and what it leaves out is counted.     *)
DigestAsPreviewed ==
  digest # None =>
    LET preview == Preview(rows, digest.filter)
        sent == FlattenSeq([i \in DOMAIN digest.result.sections |-> digest.result.sections[i].jobs])
    IN /\ ToSet(sent) = ToSet(preview.passed)
       /\ digest.result.total = Len(sent)
       /\ digest.result.out = Len(preview.rejected)
       /\ \A i \in DOMAIN digest.result.sections :
            digest.result.sections[i].count = Len(digest.result.sections[i].jobs)

(* Programs that read the same see the same: the crawl and the corpus, the  *)
(* preview of a filter and the digest sent with it.                         *)
SameForEveryReader == ReadersAgree /\ DigestAsPreviewed
=============================================================================

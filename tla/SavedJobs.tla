------------------------------ MODULE SavedJobs ------------------------------
(***************************************************************************)
(* What a subscriber does with jobs, on top of the corpus: the jobs page and *)
(* its impressions, opened jobs, saved jobs with their notes and status, and *)
(* the interactions counted for each (api/routers/user_jobs.py and           *)
(* user_saved_jobs.py over db/repository.py).  A job is named to the API by  *)
(* its crawled posting or by its canonical job; a canonical job is saved     *)
(* through a mirror row in the table of crawled jobs.                        *)
(***************************************************************************)
EXTENDS JobCorpus

VARIABLES
  mirrors,   \* rows of jobs that stand for a canonical job
  saved,     \* subscriber_saved_jobs: the request that saved the job, and notes
  events,    \* subscriber_job_interaction_events, counted
  counts,    \* subscriber_job_interactions: the counters of the row
  crossed    \* history: jobs two of whose interactions were recorded at the same time

user == <<mirrors, saved, events, counts, crossed>>
jobsVars == <<corpusVars, user>>

(* The numbers of the API: canonical ones are offset, so that none is both.  *)
ApiJob == Posting \cup Key
IsCanonical(j) == j \in Key

Interaction == {"impression", "open", "save"}
Zero == [i \in Interaction |-> 0]

SavedJobsInit ==
  /\ CorpusInit
  /\ mirrors = {}
  /\ saved = [j \in ApiJob |-> None]
  /\ events = [j \in ApiJob |-> Zero]
  /\ counts = [j \in ApiJob |-> None]
  /\ crossed = {}

(* resolve_job_reference: an inactive canonical job is still found.          *)
Resolves(j) == ~IsCanonical(j) \/ IsRow(canon[j])

ReadsOnly == UNCHANGED <<corpus, profile, stops, user>>

---------------------------------------------------------------------------
(* record_subscriber_job_interaction: the counters are read, then the event  *)
(* and the new counters are written together                                 *)

ReadCounts(r) ==
  /\ At(r, "readCounts")
  /\ \E j \in req[r].todo :
       /\ Become(r, [req[r] EXCEPT !.arg = j, !.read = counts[j], !.pc = "writeCounts"])
       /\ crossed' = IF \E q \in Request \ {r} : At(q, "writeCounts") /\ req[q].arg = j
                     THEN crossed \cup {j} ELSE crossed
  /\ UNCHANGED <<corpus, profile, stops, mirrors, saved, events, counts>>

AfterRecord(call, rest) ==
  [call EXCEPT !.todo = rest,
               !.pc = IF rest # {} THEN "readCounts" ELSE IF call.op = "save" THEN "rank" ELSE "answer"]

(* Mutant: the event is not written with the counters. *)
Raise(r, j, i) ==
  /\ counts' = [counts EXCEPT ![j] = [(IF IsRow(req[r].read) THEN req[r].read ELSE Zero)
                                        EXCEPT ![i] = @ + 1]]
  /\ events' = events

(* The event, and the counters as they were read plus one.                   *)
CountEvent(r, j, i) ==
  /\ counts' = [counts EXCEPT ![j] = [(IF IsRow(req[r].read) THEN req[r].read ELSE Zero)
                                        EXCEPT ![i] = @ + 1]]
  /\ events' = [events EXCEPT ![j][i] = @ + 1]

WhichInteraction(op) == CASE op = "list" -> "impression" [] op = "open" -> "open" [] op = "save" -> "save"

(* A row inserted meanwhile makes the insert of this one fail, and the event *)
(* with it.                                                                  *)
WriteCounts(r) ==
  /\ At(r, "writeCounts")
  /\ LET j == req[r].arg IN
     IF ~IsRow(req[r].read) /\ IsRow(counts[j])
     THEN /\ Go(r, "raised") /\ UNCHANGED <<events, counts>>
     ELSE /\ CountEvent(r, j, WhichInteraction(req[r].op))
          /\ Become(r, AfterRecord(req[r], req[r].todo \ {j}))
  /\ UNCHANGED <<corpus, profile, stops, mirrors, saved, crossed>>

OpenJob(r) ==
  /\ \E j \in ApiJob : Begin(r, [Call("open", IF Resolves(j) THEN "readCounts" ELSE "refused", j)
                                   EXCEPT !.todo = {j}])
  /\ ReadsOnly

---------------------------------------------------------------------------
(* The jobs page: the ranked jobs, or the crawled ones when no canonical job *)
(* is active; every item shown is an impression                              *)

ListJobsPage(r) == Begin(r, Call("list", "rank", Nil)) /\ ReadsOnly

Shown(call) == IF call.read = Nil THEN Posting \cup mirrors ELSE call.read

ShowPage(r) ==
  /\ At(r, "ranked")
  /\ Become(r, IF req[r].op # "list" THEN [req[r] EXCEPT !.pc = "answer"]
               ELSE [req[r] EXCEPT !.pc = IF Shown(req[r]) = {} THEN "answer" ELSE "readCounts",
                                   !.todo = Shown(req[r])])
  /\ ReadsOnly

---------------------------------------------------------------------------
(* Saving a job *)

Save(r) ==
  /\ \E j \in ApiJob :
       Begin(r, [Call("save", IF IsRow(saved[j]) \/ ~Resolves(j) THEN "refused"
                              ELSE IF IsCanonical(j) THEN "mirror" ELSE "insertSaved", j)
                   EXCEPT !.read = j \in mirrors])
  /\ ReadsOnly

(* _ensure_legacy_job_mirror_for_canonical: upsert_job by fingerprint.       *)
EnsureMirror(r) ==
  /\ At(r, "mirror")
  /\ IF ~req[r].read /\ req[r].arg \in mirrors
     THEN Go(r, "raised") /\ mirrors' = mirrors
     ELSE Go(r, "insertSaved") /\ mirrors' = mirrors \cup {req[r].arg}
  /\ UNCHANGED <<corpus, profile, stops, saved, events, counts, crossed>>

(* Mutant: a job that is saved already is saved again. *)
InsertAnyway(r) ==
  /\ At(r, "insertSaved")
  /\ saved' = [saved EXCEPT ![req[r].arg] = [by |-> r, notes |-> {}]]
  /\ Become(r, [req[r] EXCEPT !.pc = "readCounts", !.todo = {req[r].arg}])
  /\ UNCHANGED <<corpus, profile, stops, mirrors, events, counts, crossed>>

InsertSaved(r) ==
  /\ At(r, "insertSaved")
  /\ LET j == req[r].arg IN
     IF IsRow(saved[j]) THEN Go(r, "raised") /\ saved' = saved
     ELSE /\ saved' = [saved EXCEPT ![j] = [by |-> r, notes |-> {}]]
          /\ Become(r, [req[r] EXCEPT !.pc = "readCounts", !.todo = {j}])
  /\ UNCHANGED <<corpus, profile, stops, mirrors, events, counts, crossed>>

---------------------------------------------------------------------------
(* What is done with a saved job: it is addressed by the row, that is by the *)
(* request that saved it                                                     *)

Unsave(r) ==
  /\ \E j \in ApiJob :
       Begin(r, [Call("unsave", IF IsRow(saved[j]) THEN "deleteSaved" ELSE "refused", j)
                   EXCEPT !.read = saved[j]])
  /\ ReadsOnly

Same(r) == IsRow(saved[req[r].arg]) /\ saved[req[r].arg].by = req[r].read.by

(* unsave_job: the notes and the row of that number, in one transaction.     *)
DeleteSaved(r) ==
  /\ At(r, "deleteSaved")
  /\ saved' = IF Same(r) THEN [saved EXCEPT ![req[r].arg] = None] ELSE saved
  /\ Go(r, IF Same(r) THEN "done" ELSE "refused")
  /\ UNCHANGED <<corpus, profile, stops, mirrors, events, counts, crossed>>

AddNote(r) ==
  /\ \E j \in ApiJob : /\ IsRow(saved[j])
                       /\ Begin(r, [Call("note", "insertNote", j) EXCEPT !.read = saved[j]])
  /\ ReadsOnly

(* The foreign key of a note to the saved row.                               *)
InsertNote(r) ==
  /\ At(r, "insertNote")
  /\ IF Same(r) THEN Go(r, "done") /\ saved' = [saved EXCEPT ![req[r].arg].notes = @ \cup {r}]
     ELSE Go(r, "raised") /\ saved' = saved
  /\ UNCHANGED <<corpus, profile, stops, mirrors, events, counts, crossed>>

(* The status is written by row, then the job is ranked for the answer; what *)
(* the status is decides nothing.                                            *)
UpdateStatus(r) ==
  /\ \E j \in ApiJob : Begin(r, Call("status", IF IsRow(saved[j]) THEN "rank" ELSE "refused", j))
  /\ ReadsOnly

SavedStep(r) ==
  \/ ReadCounts(r) \/ WriteCounts(r) \/ OpenJob(r) \/ ListJobsPage(r) \/ ShowPage(r)
  \/ Save(r) \/ EnsureMirror(r) \/ InsertSaved(r) \/ Unsave(r) \/ DeleteSaved(r)
  \/ AddNote(r) \/ InsertNote(r) \/ UpdateStatus(r)

JobsNext ==
  \/ \E r \in Request : CorpusStep(r) /\ UNCHANGED user
  \/ \E r \in Request : SavedStep(r)
  \/ Stop /\ UNCHANGED user
  \/ \E p \in Posting : EditPage(p) /\ UNCHANGED user

JobsSpec == SavedJobsInit /\ [][JobsNext]_jobsVars

---------------------------------------------------------------------------
(* Properties *)

(* A rebuild that ran alone leaves exactly what the records say, whatever    *)
(* stops cut earlier ones off: the active jobs are the groups of the active  *)
(* records, and the links are theirs (refresh_canonical_jobs is a chain of   *)
(* transactions).                                                            *)
RefreshIsRecompute ==
  \A r \in InFlight :
    At(r, "answer") /\ req[r].op = "refresh" /\ req[r].alone =>
      /\ ActiveJobs = Grouped(records)
      /\ \A p \in Posting : links[p] = IF p \in ActiveRecords(records)
                                       THEN CanonicalKey(p, records[p]) ELSE Nil

(* A hydration that ran alone leaves the active jobs of its URL with features *)
(* of their text and of the page as it was read (the jobs are matched, listed *)
(* and stored in separate steps, and only some of them are refreshed).       *)
HydratedIsUpToDate ==
  \A r \in InFlight :
    At(r, "answer") /\ req[r].op \in {"hydrate", "hydratePage"} /\ req[r].alone =>
      \A k \in {j \in ActiveJobs : ApplyUrl(j) = req[r].arg} :
        snapshot[req[r].arg] # 0 => feature[k] = [text |-> canon[k].text, page |-> req[r].arg,
                                                  ctx |-> snapshot[req[r].arg]]

(* A jobs page shows every job that was active from the beginning of its     *)
(* ranking to its end: the missing features are computed in between, while   *)
(* other requests compute and prune features too.                            *)
RankingCovers ==
  \A r \in InFlight :
    At(r, "ranked") /\ req[r].read # Nil => req[r].steady \cap ActiveJobs \subseteq req[r].read

(* The counters of a job are its events, unless two interactions were        *)
(* recorded at the same time, and never more than them (the counters are     *)
(* read before the transaction that raises them).                            *)
InteractionsCounted ==
  \A j \in ApiJob :
    LET of == IF IsRow(counts[j]) THEN counts[j] ELSE Zero
    IN  /\ \A i \in Interaction : of[i] <= events[j][i]
        /\ j \notin crossed => of = events[j]

(* Nothing a subscriber wrote about a saved job moves to another row: a note *)
(* is on the row its request had found, and a request that saved a job still *)
(* owns the row until somebody takes it away (save_job checks, makes a       *)
(* mirror and inserts in separate steps).                                    *)
SavedRowsKeepTheirOwn ==
  [][\A j \in ApiJob :
       IsRow(saved[j]) /\ IsRow(saved'[j]) =>
         /\ saved'[j].by = saved[j].by
         /\ \A r \in saved'[j].notes \ saved[j].notes : req[r].read.by = saved[j].by]_jobsVars

(* What a page ranks by is there and up to date.                             *)
FeaturesUpToDate == HydratedIsUpToDate /\ RankingCovers
===============================================================================

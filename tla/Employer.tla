------------------------------- MODULE Employer -------------------------------
(***************************************************************************)
(* The talent side of an employer workspace, on top of the team: candidates, *)
(* tags, notes, stages, outreach campaigns and their send queue              *)
(* (api/routers/employer_outreach.py and employer_dashboard.py over          *)
(* db/employer_repository.py).  A candidate is known by the number the       *)
(* talent radar shows, which is the primary key of employer_candidates for   *)
(* all companies together.  Audit events decide nothing and are left out.    *)
(***************************************************************************)
EXTENDS EmployerTeam, Sequences

CONSTANTS Candidate, Stage,
          ItemStatus   \* of queue items: "ready", "blocked" and what is neither

ASSUME StatusAssumption == {"ready", "blocked"} \subseteq ItemStatus

VARIABLES
  candidates,  \* employer_candidates: the company of the row
  jobs,        \* employer_jobs: the company, whether it has the talent pool's title,
               \* the number of the row, whether a stage update made it (history)
  stages,      \* employer_candidate_job_matches: the stage of a candidate for a job
  history,     \* employer_candidate_stage_history
  tags,        \* employer_candidate_tags
  notes,       \* employer_candidate_notes
  campaigns,   \* employer_outreach_campaigns: candidates, status, metadata.send_queue
  queue,       \* employer_send_queue_items, one per campaign and candidate
  mixed        \* history: campaigns and companies two of whose updates overlapped,
               \* or one of whose updates was cut off

talent == <<candidates, jobs, stages, history, tags, notes, campaigns, queue>>
team   == <<companies, users, members, sessions>>
employerVars == <<team, talent, mixed, req, stops>>

Tag == {"asked", "to invite", "in queue"}
JobRow == [company : Row, pool : BOOLEAN, id : Nat, made : BOOLEAN]

Items == [Candidate -> ItemStatus \cup {Nil}]
NoItems == [c \in Candidate |-> Nil]

EmployerInit ==
  /\ TeamInit
  /\ candidates = [c \in Candidate |-> Nil]
  /\ jobs = [j \in Request |-> NoRow]
  /\ stages = [jc \in Request \X Candidate |-> Nil]
  /\ history = << >>
  /\ tags = {} /\ notes = {}
  /\ campaigns = [k \in Request |-> NoRow]
  /\ queue = [k \in Request |-> NoItems]
  /\ mixed = {}

---------------------------------------------------------------------------
(* What overlaps: queue updates of a campaign, stage updates of a company.   *)

QueueOp == {"prepareQueue", "updateItem"}
Concerns(call) == IF call.op \in QueueOp THEN {call.row}
                  ELSE IF call.op = "stage" THEN {call.company} ELSE {}

(* A request of somebody signed in. *)
Start(r, call) ==
  /\ \E s \in sessions : s.company = call.company
  /\ Begin(r, call)
  /\ mixed' = mixed \cup
       (Concerns(call) \cap UNION {Concerns(req[q]) : q \in InFlight})

ReadsOnly == UNCHANGED <<team, talent, mixed, stops>>

---------------------------------------------------------------------------
(* ensure_candidate_placeholder, for each candidate of a request             *)

(* What comes after the candidates are there; the request goes through them  *)
(* a second time.                                                            *)
Ensured(call) ==
  [call EXCEPT !.todo = call.cands,
               !.pc = CASE call.op = "stage" -> "findJob"
                        [] call.op = "createCampaign" -> "insertCampaign"
                        [] call.op = "prepareQueue" -> "replaceQueue"
                        [] call.op \in {"bulkTag", "bulkNote"} -> "mark"]

EnsureNext(call, c) ==
  LET rest == [call EXCEPT !.todo = call.todo \ {c}, !.cur = Nil, !.pc = "ensure"]
  IN  IF rest.todo = {} THEN Ensured(rest) ELSE rest

(* Mutant: any company's candidate will do. *)
AnyCandidate(k, c) == candidates[c] # Nil

(* get_candidate *)
HasCandidate(k, c) == candidates[c] = k

FindCandidate(r) ==
  /\ At(r, "ensure")
  /\ \E c \in req[r].todo :
       Become(r, IF HasCandidate(req[r].company, c) THEN EnsureNext(req[r], c)
                 ELSE [req[r] EXCEPT !.cur = c, !.pc = "addCandidate"])
  /\ ReadsOnly

(* The number may be taken, by this company in the meantime or by another.   *)
AddCandidate(r) ==
  /\ At(r, "addCandidate")
  /\ LET c == req[r].cur
     IN  \/ candidates[c] # Nil /\ Go(r, "raised") /\ UNCHANGED candidates
         \/ /\ candidates[c] = Nil
            /\ candidates' = [candidates EXCEPT ![c] = req[r].company]
            /\ Become(r, EnsureNext(req[r], c))
  /\ UNCHANGED <<team, jobs, stages, history, tags, notes, campaigns, queue, mixed, stops>>

---------------------------------------------------------------------------
(* Tags and notes *)

BulkTag(r) ==
  /\ \E k \in Row, cs \in (SUBSET Candidate) \ {{}} :
       Start(r, Call("bulkTag", "ensure", k, "asked", cs, Nil))
  /\ UNCHANGED <<team, talent, stops>>

BulkNote(r) ==
  /\ \E k \in Row, cs \in (SUBSET Candidate) \ {{}} :
       Start(r, Call("bulkNote", "ensure", k, Nil, cs, Nil))
  /\ UNCHANGED <<team, talent, stops>>

DeleteTag(r) ==
  /\ \E k \in Row, c \in Candidate, tag \in Tag :
       /\ Start(r, Call("deleteTag", "done", k, Nil, {}, Nil))
       /\ tags' = tags \ {<<k, c, tag>>}
  /\ UNCHANGED <<team, candidates, jobs, stages, history, notes, campaigns, queue, stops>>

Advance(r, c) ==
  LET rest == [req[r] EXCEPT !.todo = req[r].todo \ {c}, !.cur = Nil]
  IN  Become(r, [rest EXCEPT !.pc = IF rest.todo = {} THEN "done" ELSE "mark"])

Tagged(call, c) ==
  CASE call.op = "bulkTag" -> {"asked"}
    [] call.op = "createCampaign" -> {"to invite"}
    [] call.op = "prepareQueue" -> IF call.items[c] = "ready" THEN {"in queue"} ELSE {}
    [] call.op = "bulkNote" -> {}

(* One transaction for the tag and one for the note of a candidate.          *)
MarkTag(r) ==
  /\ At(r, "mark")
  /\ \E c \in req[r].todo :
       /\ tags' = tags \cup ({req[r].company} \X {c} \X Tagged(req[r], c))
       /\ IF req[r].op = "bulkTag" THEN Advance(r, c)
          ELSE Become(r, [req[r] EXCEPT !.cur = c, !.pc = "note"])
  /\ UNCHANGED <<team, candidates, jobs, stages, history, notes, campaigns, queue, mixed, stops>>

MarkNote(r) ==
  /\ At(r, "note")
  /\ notes' = notes \cup {<<req[r].company, req[r].cur, r>>}
  /\ Advance(r, req[r].cur)
  /\ UNCHANGED <<team, candidates, jobs, stages, history, tags, campaigns, queue, mixed, stops>>

---------------------------------------------------------------------------
(* Jobs and stages *)

(* create_job: rows are never deleted, and numbered in the order of insertion. *)
NewJob(k, pool, made) ==
  [company |-> k, pool |-> pool, made |-> made,
   id |-> Cardinality({j \in Request : jobs[j] # NoRow}) + 1]

(* Any title will do, the talent pool's too. *)
CreateJob(r) ==
  /\ \E k \in Row, pool \in BOOLEAN :
       /\ Start(r, Call("createJob", "done", k, Nil, {}, Nil))
       /\ jobs' = [jobs EXCEPT ![r] = NewJob(k, pool, FALSE)]
  /\ UNCHANGED <<team, candidates, stages, history, tags, notes, campaigns, queue, stops>>

UpdateCandidateStage(r) ==
  /\ \E k \in Row, c \in Candidate, s \in Stage,
        j \in {i \in Request : jobs[i] # NoRow} \cup {Nil} :
       Start(r, Call("stage", "ensure", k, s, {c}, j))
  /\ UNCHANGED <<team, talent, stops>>

(* The job that was asked for, when it is the company's; else the talent     *)
(* pool, the oldest job of its title, whoever gave it that title.            *)
Jobs(k) == {j \in Request : jobs[j] # NoRow /\ jobs[j].company = k}
Pools(k) == {j \in Jobs(k) : jobs[j].pool}
Oldest(S) == CHOOSE j \in S : \A i \in S : jobs[j].id <= jobs[i].id

FindJob(r) ==
  /\ At(r, "findJob")
  /\ LET call == req[r]
         On(j) == Become(r, [call EXCEPT !.row = j, !.pc = "readStage"])
     IN  \/ call.row \in Jobs(call.company) /\ On(call.row)
         \/ /\ call.row \notin Jobs(call.company)
            /\ IF Pools(call.company) = {} THEN Go(r, "addPool")
               ELSE On(Oldest(Pools(call.company)))
  /\ ReadsOnly

AddPool(r) ==
  /\ At(r, "addPool")
  /\ jobs' = [jobs EXCEPT ![r] = NewJob(req[r].company, TRUE, TRUE)]
  /\ Become(r, [req[r] EXCEPT !.row = r, !.pc = "readStage"])
  /\ UNCHANGED <<team, candidates, stages, history, tags, notes, campaigns, queue, mixed, stops>>

StageCandidate(r) == CHOOSE c \in req[r].cands : TRUE

(* Mutant: the stage for any job of the candidate. *)
ReadAnyStage(r) ==
  /\ At(r, "readStage")
  /\ \E j \in Request : Become(r, [req[r] EXCEPT !.items = stages[<<j, StageCandidate(r)>>],
                                                 !.pc = "writeStage"])
  /\ ReadsOnly

ReadStage(r) ==
  /\ At(r, "readStage")
  /\ Become(r, [req[r] EXCEPT !.items = stages[<<req[r].row, StageCandidate(r)>>], !.pc = "writeStage"])
  /\ ReadsOnly

(* The stage and its history entry, in one transaction. *)
WriteStage(r) ==
  /\ At(r, "writeStage")
  /\ LET call == req[r]
         c == StageCandidate(r)
     IN  /\ stages' = [stages EXCEPT ![<<call.row, c>>] = call.what]
         /\ history' = Append(history, [company |-> call.company, cand |-> c, job |-> call.row,
                                        from |-> call.items, to |-> call.what])
  /\ Go(r, "done")
  /\ UNCHANGED <<team, candidates, jobs, tags, notes, campaigns, queue, mixed, stops>>

---------------------------------------------------------------------------
(* Campaigns and their send queue *)

CreateOutreachCampaign(r) ==
  /\ \E k \in Row, cs \in (SUBSET Candidate) \ {{}} :
       Start(r, Call("createCampaign", "ensure", k, Nil, cs, Nil))
  /\ UNCHANGED <<team, talent, stops>>

InsertCampaign(r) ==
  /\ At(r, "insertCampaign")
  /\ campaigns' = [campaigns EXCEPT ![r] = [company |-> req[r].company, cands |-> req[r].cands,
                                            status |-> "draft", summary |-> Nil]]
  /\ Go(r, "mark")
  /\ UNCHANGED <<team, candidates, jobs, stages, history, tags, notes, queue, mixed, stops>>

(* get_outreach_campaign_for_company *)
OwnCampaign(k, m) == campaigns[m] # NoRow /\ campaigns[m].company = k

(* Items for candidates the campaign does not have are passed over.          *)
PrepareSendQueue(r) ==
  /\ \E k \in Row, m \in Request, items \in Items :
       LET kept == {c \in Candidate : items[c] # Nil}
       IN  /\ OwnCampaign(k, m) /\ kept \subseteq campaigns[m].cands
           /\ Start(r, [Call("prepareQueue", IF kept = {} THEN "replaceQueue" ELSE "ensure",
                             k, items, kept, m) EXCEPT !.items = items])
  /\ UNCHANGED <<team, talent, stops>>

ReplaceQueue(r) ==
  /\ At(r, "replaceQueue")
  /\ queue' = [queue EXCEPT ![req[r].row] = req[r].what]
  /\ Go(r, "listQueue")
  /\ UNCHANGED <<team, candidates, jobs, stages, history, tags, notes, campaigns, mixed, stops>>

UpdateQueueItem(r) ==
  /\ \E k \in Row, m \in Request, c \in Candidate, s \in ItemStatus :
       /\ OwnCampaign(k, m)
       /\ Start(r, [Call("updateItem", IF queue[m][c] = Nil THEN "refused" ELSE "writeItem",
                         k, s, {}, m) EXCEPT !.cur = c])
  /\ UNCHANGED <<team, talent, stops>>

(* Nothing is written when the item is gone. *)
WriteItem(r) ==
  /\ At(r, "writeItem")
  /\ LET call == req[r]
         gone == queue[call.row][call.cur] = Nil
     IN  /\ queue' = IF gone THEN queue
                     ELSE [queue EXCEPT ![call.row] = [queue[call.row] EXCEPT ![call.cur] = call.what]]
         /\ Go(r, IF gone THEN "refused" ELSE "listQueue")
  /\ UNCHANGED <<team, candidates, jobs, stages, history, tags, notes, campaigns, mixed, stops>>

ListQueue(r) ==
  /\ At(r, "listQueue")
  /\ Become(r, [req[r] EXCEPT !.items = queue[req[r].row], !.pc = "writeCampaign"])
  /\ ReadsOnly

Blocked(items) == \E c \in Candidate : items[c] = "blocked"

(* Mutant: what was asked for decides, not the queue as it is. *)
WriteCampaignAsAsked(r) ==
  /\ At(r, "writeCampaign")
  /\ LET call == req[r]
         blocked == IF call.op = "updateItem" THEN call.what = "blocked" ELSE Blocked(call.items)
     IN  /\ campaigns' = [campaigns EXCEPT
              ![call.row].status = IF blocked THEN "draft" ELSE "queued",
              ![call.row].summary = IF blocked THEN "blocked" ELSE "ready_for_review"]
         /\ Go(r, "done")
  /\ UNCHANGED <<team, candidates, jobs, stages, history, tags, notes, queue, mixed, stops>>

(* update_outreach_campaign reads the row and merges metadata.send_queue     *)
(* into it, the only key anybody changes.                                    *)
WriteCampaign(r) ==
  /\ At(r, "writeCampaign")
  /\ LET call == req[r]
         listed == {c \in Candidate : call.items[c] # Nil}
         next == [call EXCEPT !.todo = listed, !.pc = "mark"]
     IN  /\ campaigns' = [campaigns EXCEPT ![call.row] =
              [campaigns[call.row] EXCEPT
                 !.status = IF Blocked(call.items) THEN "draft" ELSE "queued",
                 !.summary = IF Blocked(call.items) THEN "blocked" ELSE "ready_for_review"]]
         /\ IF call.op = "prepareQueue" /\ listed # {} THEN Become(r, next) ELSE Go(r, "done")
  /\ UNCHANGED <<team, candidates, jobs, stages, history, tags, notes, queue, mixed, stops>>

---------------------------------------------------------------------------
TalentStep(r) ==
  \/ BulkTag(r) \/ BulkNote(r) \/ DeleteTag(r) \/ FindCandidate(r) \/ AddCandidate(r)
  \/ MarkTag(r) \/ MarkNote(r)
  \/ CreateJob(r) \/ UpdateCandidateStage(r) \/ FindJob(r) \/ AddPool(r)
  \/ ReadStage(r) \/ WriteStage(r)
  \/ CreateOutreachCampaign(r) \/ InsertCampaign(r)
  \/ PrepareSendQueue(r) \/ ReplaceQueue(r)
  \/ UpdateQueueItem(r) \/ WriteItem(r) \/ ListQueue(r) \/ WriteCampaign(r)

EmployerNext ==
  \/ \E r \in Request : TalentStep(r)
  \/ \E r \in Request : TeamStep(r) /\ UNCHANGED <<talent, mixed>>
  \/ /\ StopServer
     /\ mixed' = mixed \cup UNION {Concerns(req[q]) : q \in InFlight}
     /\ UNCHANGED talent

EmployerSpec == EmployerInit /\ [][EmployerNext]_employerVars

---------------------------------------------------------------------------
(* Properties *)

(* What a company writes about a candidate is about its own candidate: the   *)
(* number of a candidate is chosen by the caller and is one key for all      *)
(* companies, and only ensure_candidate_placeholder, some steps earlier,     *)
(* stands between a number and another company's row.                        *)
CompaniesSeparate ==
  /\ \A t \in tags : candidates[t[2]] = t[1]
  /\ \A n \in notes : candidates[n[2]] = n[1]
  /\ \A i \in DOMAIN history : /\ candidates[history[i].cand] = history[i].company
                               /\ jobs[history[i].job].company = history[i].company
  /\ \A m \in Request, c \in Candidate :
       queue[m][c] # Nil => candidates[c] = campaigns[m].company

(* The status of a campaign and its summary of the queue say whether an item *)
(* is blocked, once its queue requests have ended, unless two of them        *)
(* overlapped or the server stopped during one (the queue is listed in one   *)
(* step and the campaign written in a later one).                            *)
CampaignAgreesWithQueue ==
  \A m \in Request \ mixed :
    campaigns[m] # NoRow /\ campaigns[m].summary # Nil
      /\ (\A r \in InFlight : m \notin Concerns(req[r])) =>
    LET blocked == Blocked(queue[m])
    IN  /\ campaigns[m].status = IF blocked THEN "draft" ELSE "queued"
        /\ campaigns[m].summary = IF blocked THEN "blocked" ELSE "ready_for_review"

(* Where the entries of a candidate and a job are in the history, and the    *)
(* stage the last of some entries went to.                                   *)
Entries(j, c) == {i \in DOMAIN history : history[i].job = j /\ history[i].cand = c}
StageAfter(S) == IF S = {} THEN Nil ELSE history[CHOOSE i \in S : \A b \in S : b <= i].to
Chained(j, c) ==
  /\ \A i \in Entries(j, c) : history[i].from = StageAfter({b \in Entries(j, c) : b < i})
  /\ stages[<<j, c>>] = StageAfter(Entries(j, c))

(* The pools that stage updates have made for company k.                     *)
Made(k) == {j \in Pools(k) : jobs[j].made}

(* The stage history of a candidate and a job is a chain that ends at the    *)
(* stage it has now, and the stage updates of a company have made it one     *)
(* talent pool at most, unless two of them overlapped or a stop cut one off  *)
(* (update_candidate_stage looks for the job and the stage before its        *)
(* transaction).  A job may be created with the pool's title at any time, so *)
(* a company may have several jobs of that title.                            *)
HistoryChains ==
  \A k \in Row \ mixed :
    /\ Cardinality(Made(k)) <= 1
    /\ \A j \in Jobs(k), c \in Candidate : Chained(j, c)
===============================================================================

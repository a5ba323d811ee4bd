-------------------------- MODULE CandidateProfile --------------------------
(***************************************************************************)
(* The candidate profile of one subscriber (api/routers/user_profile.py):  *)
(* the profile row, the entry lists of its sections, the CV uploads with   *)
(* their parse runs, and the apply of a parsed CV to the profile.          *)
(*                                                                         *)
(* Every endpoint reads rows, computes new ones from the copies it holds,  *)
(* and writes them back whole, each read and each write on its own: sync   *)
(* handlers run in the thread pool and interleave freely; async handlers   *)
(* keep the event loop from one await to the next, so that from the moment *)
(* its file is read a CV upload runs alone among the async handlers.       *)
(*                                                                         *)
(* A headline stands for the scalar fields of the row, the roles for its   *)
(* lists, an entry for its comparison key.                                 *)
(***************************************************************************)
EXTENDS Naturals, FiniteSets

CONSTANTS Headline,     \* headlines a user or a CV may give
          Role,         \* items of the list fields
          Entry,        \* entries of a section
          Own,          \* the entries only the user enters
          Section,      \* the sections modelled
          Draft,        \* what parsing an uploaded file may yield
          Request,      \* requests of the subscriber, numbered
          MaxUploads,   \* bound: CVs uploaded
          MaxInFlight,  \* bound: requests running at the same time
          MaxFailures,  \* bound: exceptions and crashes
          MaxCopies,    \* bound: copies of one entry in one section
          Nil

(* The order in which every handler goes through the sections. *)
Position == [education |-> 1, experience |-> 2, language |-> 3, certification |-> 4]
First(S) == CHOOSE s \in S : \A t \in S : Position[s] <= Position[t]

Field == {"headline", "roles"}
Row == [headline : Headline \cup {Nil}, roles : SUBSET Role, cv : 0 .. MaxUploads]
List == [Entry -> 0 .. MaxCopies]
EmptyList == [e \in Entry |-> 0]

(* How the upload uses a draft: an extraction that failed or whose text is  *)
(* not trusted leaves the profile alone ("preserve"); see _auto_apply.      *)
Use == {"failed", "preserve", "replace", "pivot"}
DraftRecord == [use : Use, headline : Headline \cup {Nil}, roles : SUBSET Role,
                entries : [Section -> SUBSET (Entry \ Own)]]

ASSUME SectionAssumption == Section \subseteq DOMAIN Position
ASSUME NilAssumption == Nil \notin Headline /\ Nil \notin Request
ASSUME OwnAssumption == Own \subseteq Entry /\ IsFiniteSet(Entry)
ASSUME DraftAssumption == Draft \subseteq DraftRecord
ASSUME RequestAssumption == Request \subseteq Nat
ASSUME ProfileBounds ==
  /\ MaxUploads \in Nat /\ MaxInFlight \in Nat
  /\ MaxFailures \in Nat /\ MaxCopies \in Nat \ {0}

VARIABLES
  row,        \* the subscriber_profiles row
  section,    \* the entry rows of each section: how many copies of each entry
  linked,     \* a certificate row refers to a language entry
  upload,     \* the subscriber_cv_uploads rows, in the order of their ids
  parseRun,   \* the subscriber_cv_parse_runs row of each upload
  audited,    \* the sum over the audit rows of each parse run
  req,        \* where each request is, and the copies it holds
  loop,       \* the async handler between two awaits, or Nil
  applied,    \* history: selected operations whose writes were committed
  overlapped, \* history: two requests were in flight at the same time
  failures    \* exceptions and crashes so far

profile == <<row, section, linked>>
cvs     == <<upload, parseRun, audited, applied>>
profileVars == <<row, section, linked, upload, parseRun, audited, req, loop,
                 applied, overlapped, failures>>

Uploads  == 1 .. MaxUploads
NoUpload == [status |-> "none", draft |-> Nil]
NoRun    == [status |-> "none", count |-> 0]
NoOps    == [fields |-> {}, entries |-> [s \in Section |-> {}]]
UploadRecord == [status : {"none", "pending", "parsed", "failed"}, draft : Draft \cup {Nil}]
RunRecord    == [status : {"none", "pending", "partially_applied", "fully_applied"},
                 count : Nat]

RequestPC == {"waiting", "readRow", "readSection", "upsert", "replace", "finalize",
              "createRun", "readMeta", "readLatest", "audit", "done"}
(* todo: the sections still to read or to replace; cv, base, ops: the       *)
(* upload or parse run served, its count when read, the selection.          *)
RequestRecord ==
  [kind : {"none", "edit", "avatar", "put", "upload", "autoApply",
           "apply", "review"},
   pc : RequestPC, row : Row, list : [Section -> List], todo : SUBSET Section,
   cv : 0 .. MaxUploads, base : Nat,
   ops : [fields : SUBSET Field, entries : [Section -> SUBSET Entry]]]
BlankRow == [headline |-> Nil, roles |-> {}, cv |-> 0]
Blank(pc) ==
  [kind |-> "none", pc |-> pc, row |-> BlankRow,
   list |-> [s \in Section |-> EmptyList], todo |-> {}, cv |-> 0, base |-> 0,
   ops |-> NoOps]

ProfileTypeOK ==
  /\ row \in Row
  /\ section \in [Section -> List]
  /\ linked \in BOOLEAN
  /\ upload \in [Uploads -> UploadRecord]
  /\ parseRun \in [Uploads -> RunRecord]
  /\ audited \in [Uploads -> Nat]
  /\ req \in [Request -> RequestRecord]
  /\ loop \in Request \cup {Nil}
  /\ applied \in [Uploads -> Nat]
  /\ overlapped \in BOOLEAN
  /\ failures \in 0 .. MaxFailures

ProfileInit ==
  /\ row = BlankRow
  /\ section = [s \in Section |-> EmptyList]
  /\ linked = FALSE
  /\ upload = [u \in Uploads |-> NoUpload]
  /\ parseRun = [u \in Uploads |-> NoRun]
  /\ audited = [u \in Uploads |-> 0]
  /\ req = [r \in Request |-> Blank("waiting")]
  /\ loop = Nil
  /\ applied = [u \in Uploads |-> 0]
  /\ overlapped = FALSE
  /\ failures = 0

---------------------------------------------------------------------------
(* Steps of a request *)

InFlight   == {r \in Request : req[r].pc \notin {"waiting", "done"}}
Quiet      == InFlight = {}
Done(u)    == u \in Uploads /\ upload[u].status # "none"
Async(r)   == req[r].kind \in {"avatar", "upload", "autoApply"}
HasLoop(r) == loop \in {r, Nil}

NoProfile == UNCHANGED profile
NoCv      == UNCHANGED cvs
NoHistory == UNCHANGED <<overlapped, failures>>

(* The answer of a request; a handler that held the event loop gives it up. *)
End(r) ==
  /\ req' = [req EXCEPT ![r] = Blank("done")]
  /\ loop' = IF loop = r THEN Nil ELSE loop
Go(r, q) == req' = [req EXCEPT ![r] = q] /\ UNCHANGED loop

(* A request of the subscriber reaches its handler. *)
Begins(r) ==
  /\ req[r].pc = "waiting"
  /\ \A q \in Request : q < r => req[q].pc # "waiting"
  /\ Cardinality(InFlight) < MaxInFlight
  /\ overlapped' = (overlapped \/ InFlight # {})
  /\ UNCHANGED failures

(* PATCH /basic-info, PATCH /preferences: the row is read, one part of the  *)
(* copy replaced.                                                           *)
PatchBasicInfo(r) ==
  /\ Begins(r)
  /\ \E h \in Headline \cup {Nil} :
       Go(r, [Blank("upsert") EXCEPT !.kind = "edit", !.row = [row EXCEPT !.headline = h]])
  /\ NoProfile /\ NoCv

PatchPreferences(r) ==
  /\ Begins(r)
  /\ \E R \in SUBSET Role :
       Go(r, [Blank("upsert") EXCEPT !.kind = "edit", !.row = [row EXCEPT !.roles = R]])
  /\ NoProfile /\ NoCv

(* POST /upload/avatar: the row is read before the file is awaited and      *)
(* written back, with the avatar, after it.                                 *)
UploadAvatar(r) ==
  /\ Begins(r)
  /\ loop = Nil
  /\ Go(r, [Blank("upsert") EXCEPT !.kind = "avatar", !.row = row])
  /\ NoProfile /\ NoCv

(* PUT: the form holds what the page showed when it was loaded.             *)
PutProfile(r) ==
  /\ Begins(r)
  /\ \E h \in Headline :
       Go(r, [Blank("readMeta") EXCEPT !.kind = "put", !.row = [row EXCEPT !.headline = h],
                !.list = section, !.todo = Section])
  /\ NoProfile /\ NoCv

(* POST, PATCH, DELETE of one entry: the section is read, and the whole     *)
(* list written again with one entry more, changed or less.  Ids change     *)
(* with every write, so an entry is found by a current id or not at all.    *)
SaveList(r, s, list) ==
  Go(r, [Blank("replace") EXCEPT !.kind = "edit", !.list = [@ EXCEPT ![s] = list],
           !.todo = {s}])
Listed(s, e) == section[s][e] > 0
HasRoom(s, e) == section[s][e] < MaxCopies

CreateEntry(r) ==
  /\ Begins(r)
  /\ \E s \in Section, e \in Own :
       HasRoom(s, e) /\ SaveList(r, s, [section[s] EXCEPT ![e] = @ + 1])
  /\ NoProfile /\ NoCv

PatchEntry(r) ==
  /\ Begins(r)
  /\ \E s \in Section, e \in Entry, o \in Own :
       /\ e # o /\ Listed(s, e) /\ HasRoom(s, o)
       /\ SaveList(r, s, [section[s] EXCEPT ![e] = @ - 1, ![o] = @ + 1])
  /\ NoProfile /\ NoCv

DeleteEntry(r) ==
  /\ Begins(r)
  /\ \E s \in Section, e \in Entry :
       Listed(s, e) /\ SaveList(r, s, [section[s] EXCEPT ![e] = @ - 1])
  /\ NoProfile /\ NoCv

(* POST /upload/language-certificate with the id of a language entry: the   *)
(* foreign key refuses an id that is gone.                                  *)
LinkCertificate(r) ==
  /\ Begins(r)
  /\ "language" \in Section
  /\ loop = Nil
  /\ linked' = (linked \/ \E e \in Entry : section["language"][e] > 0)
  /\ End(r)
  /\ NoCv /\ UNCHANGED <<row, section>>

(* Mutant: a handler that runs in the thread pool. *)
UploadCvInPool(r) ==
  /\ Begins(r)
  /\ \E u \in Uploads, d \in Draft :
       /\ ~Done(u) /\ \A v \in Uploads : v < u => Done(v)
       /\ upload' = [upload EXCEPT ![u] = [status |-> "pending", draft |-> d]]
       /\ req' = [req EXCEPT ![r] = [Blank("finalize") EXCEPT !.kind = "upload", !.cv = u]]
  /\ NoProfile /\ UNCHANGED <<parseRun, audited, applied, loop>>

(* POST /upload/cv, from the end of the await on: the upload row. *)
UploadCv(r) ==
  /\ Begins(r)
  /\ loop = Nil
  /\ \E u \in Uploads, d \in Draft :
       /\ ~Done(u) /\ \A v \in Uploads : v < u => Done(v)
       /\ upload' = [upload EXCEPT ![u] = [status |-> "pending", draft |-> d]]
       /\ req' = [req EXCEPT ![r] = [Blank("finalize") EXCEPT !.kind = "upload", !.cv = u]]
  /\ loop' = r
  /\ NoProfile /\ UNCHANGED <<parseRun, audited, applied>>

(* POST /cv/apply-selected: the parse run is read first. *)
ApplySelected(r) ==
  /\ Begins(r)
  /\ \E u \in Uploads :
       /\ parseRun[u].status # "none"
       /\ Go(r, [Blank("readRow") EXCEPT !.kind = "apply", !.cv = u,
                   !.base = parseRun[u].count])
  /\ NoProfile /\ NoCv

---------------------------------------------------------------------------
(* Shared reads and writes *)

At(r, pc) == req[r].pc = pc

ReadRow(r) ==
  /\ At(r, "readRow")
  /\ Go(r, [req[r] EXCEPT !.row = row, !.todo = Section, !.pc = "readSection"])
  /\ NoProfile /\ NoCv /\ NoHistory

ReadSection(r) ==
  /\ At(r, "readSection")
  /\ req[r].todo # {}
  /\ LET s == First(req[r].todo) IN
     Go(r, [req[r] EXCEPT !.list = [@ EXCEPT ![s] = section[s]], !.todo = @ \ {s}])
  /\ NoProfile /\ NoCv /\ NoHistory

ReadAll(r) == At(r, "readSection") /\ req[r].todo = {}

(* The cv fields of the row: PUT keeps the ones found, an upload writes its *)
(* own into the row found (_update_profile_cv_metadata).                    *)
ReadMeta(r) ==
  /\ At(r, "readMeta")
  /\ Go(r, [req[r] EXCEPT !.pc = "upsert", !.row =
              IF req[r].kind = "put" THEN [@ EXCEPT !.cv = row.cv]
              ELSE [row EXCEPT !.cv = req[r].cv]])
  /\ NoProfile /\ NoCv /\ NoHistory

(* What follows the writes: the selected apply reads everything again to    *)
(* see what is left of the plan; every other request answers.               *)
Written(r) ==
  IF req[r].kind = "apply"
  THEN Go(r, [req[r] EXCEPT !.kind = "review", !.pc = "readRow"])
  ELSE End(r)

(* upsert_subscriber_profile: every column of the row but the avatar's. The *)
(* upload writes its cv fields first and then applies the latest parse run. *)
Upsert(r) ==
  /\ At(r, "upsert")
  /\ Async(r) => HasLoop(r)
  /\ row' = req[r].row
  /\ IF req[r].kind = "upload"
     THEN Go(r, [req[r] EXCEPT !.kind = "autoApply", !.pc = "readLatest"])
     ELSE IF req[r].todo = {} THEN Written(r) ELSE Go(r, [req[r] EXCEPT !.pc = "replace"])
  /\ applied' = IF req[r].kind = "apply"
                THEN [applied EXCEPT ![req[r].cv] = @ + Cardinality(req[r].ops.fields)]
                ELSE applied
  /\ NoHistory /\ UNCHANGED <<section, linked, upload, parseRun, audited>>

(* Mutant: a connection that does not enforce foreign keys. *)
ReplaceUnchecked(r) ==
  LET s == First(req[r].todo) IN
  /\ At(r, "replace")
  /\ section' = [section EXCEPT ![s] = req[r].list[s]]
  /\ IF req[r].todo = {s} THEN Written(r) ELSE Go(r, [req[r] EXCEPT !.todo = @ \ {s}])
  /\ NoHistory /\ UNCHANGED <<row, linked, upload, parseRun, audited, applied>>

(* replace_subscriber_*_entries: the rows of the section are deleted, the   *)
(* copy inserted.  A certificate that refers to a language entry makes the  *)
(* delete fail; the upload swallows that, the others answer with an error.  *)
Refused(s) == s = "language" /\ linked

ReplaceSection(r) ==
  LET s == First(req[r].todo) IN
  /\ At(r, "replace")
  /\ IF Refused(s)
     THEN End(r) /\ UNCHANGED <<section, applied>>
     ELSE /\ section' = [section EXCEPT ![s] = req[r].list[s]]
          /\ applied' = IF req[r].kind = "apply"
               THEN [applied EXCEPT ![req[r].cv] = @ + Cardinality(req[r].ops.entries[s])]
               ELSE applied
          /\ IF req[r].todo = {s} THEN Written(r)
             ELSE Go(r, [req[r] EXCEPT !.todo = @ \ {s}])
  /\ NoHistory /\ UNCHANGED <<row, linked, upload, parseRun, audited>>

---------------------------------------------------------------------------
(* The steps of an upload *)

(* The text is extracted, or a CvExtractionError is caught. *)
FinalizeUpload(r) ==
  LET u == req[r].cv IN
  /\ At(r, "finalize")
  /\ upload' = [upload EXCEPT ![u].status =
                  IF upload[u].draft.use = "failed" THEN "failed" ELSE "parsed"]
  /\ Go(r, [req[r] EXCEPT !.pc = "createRun"])
  /\ NoProfile /\ NoHistory /\ UNCHANGED <<parseRun, audited, applied>>

CreateParseRun(r) ==
  /\ At(r, "createRun")
  /\ parseRun' = [parseRun EXCEPT ![req[r].cv] = [status |-> "pending", count |-> 0]]
  /\ Go(r, [req[r] EXCEPT !.pc = "readMeta"])
  /\ NoProfile /\ NoHistory /\ UNCHANGED <<upload, audited, applied>>

(* get_latest_subscriber_cv_parse_run: not the run of this upload by id.    *)
Latest(u) == u \in Uploads /\ parseRun[u].status # "none"
             /\ \A v \in Uploads : parseRun[v].status # "none" => v <= u

ReadLatestRun(r) ==
  /\ At(r, "readLatest")
  /\ \E u \in Uploads : Latest(u) /\ Go(r, [req[r] EXCEPT !.cv = u, !.pc = "readRow"])
  /\ NoProfile /\ NoCv /\ NoHistory

ListOf(E) == [e \in Entry |-> IF e \in E THEN 1 ELSE 0]

(* pivot_profile_to_cv_draft: what the draft lacks is cleared, but for the  *)
(* sections other than education.                                           *)
PivotRow(d, held) == [held EXCEPT !.headline = d.headline, !.roles = d.roles]
PivotTodo(d) == {s \in Section : s = "education" \/ d.entries[s] # {}}

(* replace_profile_from_cv_draft: what the draft lacks is kept. *)
KeepingRow(d, held) ==
  [held EXCEPT !.headline = IF d.headline = Nil THEN @ ELSE d.headline,
               !.roles = IF d.roles = {} THEN @ ELSE d.roles]
KeepingTodo(d) == {s \in Section : d.entries[s] # {}}

(* _auto_apply_latest_cv_parse_run, once everything is read. *)
DecideAutoApply(r) ==
  LET d == upload[req[r].cv].draft
      write(new, todo) ==
        IF new = req[r].row /\ todo = {} THEN End(r)
        ELSE Go(r, [req[r] EXCEPT !.row = new, !.todo = todo, !.pc = "upsert",
                      !.list = [s \in Section |-> ListOf(d.entries[s])]])
  IN
  /\ ReadAll(r)
  /\ req[r].kind = "autoApply"
  /\ CASE d.use = "pivot"   -> write(PivotRow(d, req[r].row), PivotTodo(d))
       [] d.use = "replace" -> write(KeepingRow(d, req[r].row), KeepingTodo(d))
       [] OTHER             -> End(r)
  /\ NoProfile /\ NoCv /\ NoHistory

---------------------------------------------------------------------------
(* The steps of a selected apply *)

(* build_cv_profile_apply_plan: what of a draft a row and its lists lack.   *)
FieldPlan(d, held) ==
  {f \in Field : \/ f = "headline" /\ d.headline \notin {Nil, held.headline}
                 \/ f = "roles" /\ ~(d.roles \subseteq held.roles)}
(* Mutant: a plan that does not look for the entries already there. *)
EntryPlanOfDraft(d, list) == [s \in Section |-> d.entries[s]]
EntryPlan(d, list) == [s \in Section |-> {e \in d.entries[s] : list[s][e] = 0}]
NothingLeft(d, held, list) ==
  /\ FieldPlan(d, held) = {}
  /\ \A t \in Section : EntryPlan(d, list)[t] = {}

SelectedOps(ops) ==
  Cardinality(ops.fields) + Cardinality({x \in Section \X Entry : x[2] \in ops.entries[x[1]]})

AppliedRow(ops, d, held) ==
  [held EXCEPT !.headline = IF "headline" \in ops.fields THEN d.headline ELSE @,
               !.roles = IF "roles" \in ops.fields THEN @ \cup d.roles ELSE @]
AppliedLists(ops, list) ==
  [t \in Section |-> [e \in Entry |-> list[t][e] + ListOf(ops.entries[t])[e]]]

(* The user selects among the operations of the plan; a selection that is   *)
(* empty or not in the plan any more is refused.                            *)
DecideSelection(r) ==
  LET d == upload[req[r].cv].draft
      plan == EntryPlan(d, req[r].list)
  IN
  /\ ReadAll(r)
  /\ req[r].kind = "apply"
  /\ \/ End(r)
     \/ \E F \in SUBSET FieldPlan(d, req[r].row),
           E \in [Section -> SUBSET UNION {plan[t] : t \in Section}] :
          LET ops == [fields |-> F, entries |-> E] IN
          /\ \A t \in Section : E[t] \subseteq plan[t]
          /\ SelectedOps(ops) > 0
          /\ Go(r, [req[r] EXCEPT !.pc = "upsert", !.ops = ops, !.todo = Section,
                      !.row = AppliedRow(ops, d, @), !.list = AppliedLists(ops, @)])
  /\ NoProfile /\ NoCv /\ NoHistory

(* derive_parse_run_apply_status, from what the tables hold now; the count  *)
(* is the one read at the start plus the operations of this request.        *)
UpdateParseRun(r) ==
  LET u == req[r].cv
      left == ~NothingLeft(upload[u].draft, req[r].row, req[r].list)
  IN
  /\ ReadAll(r)
  /\ req[r].kind = "review"
  /\ parseRun' = [parseRun EXCEPT ![u] =
       [status |-> IF left THEN "partially_applied" ELSE "fully_applied",
        count  |-> req[r].base + SelectedOps(req[r].ops)]]
  /\ Go(r, [req[r] EXCEPT !.pc = "audit"])
  /\ NoProfile /\ NoHistory /\ UNCHANGED <<upload, audited, applied>>

(* create_subscriber_cv_apply_audit *)
CreateAudit(r) ==
  /\ At(r, "audit")
  /\ audited' = [audited EXCEPT ![req[r].cv] = @ + SelectedOps(req[r].ops)]
  /\ End(r)
  /\ NoProfile /\ NoHistory /\ UNCHANGED <<upload, parseRun, applied>>

---------------------------------------------------------------------------
(* Failures *)

(* A step raises (a busy database, a file that cannot be parsed); what was  *)
(* committed stays.                                                         *)
RequestRaises(r) ==
  /\ r \in InFlight
  /\ failures < MaxFailures /\ failures' = failures + 1
  /\ End(r)
  /\ NoProfile /\ NoCv /\ UNCHANGED overlapped

(* The server stops in the middle of its requests. *)
ServerStops ==
  /\ ~Quiet
  /\ failures < MaxFailures /\ failures' = failures + 1
  /\ req' = [r \in Request |-> IF r \in InFlight THEN Blank("done") ELSE req[r]]
  /\ loop' = Nil
  /\ NoProfile /\ NoCv /\ UNCHANGED overlapped

---------------------------------------------------------------------------
(* Specification *)

Arrive(r) == \/ PatchBasicInfo(r) \/ PatchPreferences(r) \/ UploadAvatar(r)
             \/ PutProfile(r) \/ CreateEntry(r) \/ PatchEntry(r)
             \/ DeleteEntry(r) \/ LinkCertificate(r) \/ UploadCv(r)
             \/ ApplySelected(r)

Serve(r) == \/ ReadRow(r) \/ ReadSection(r) \/ ReadMeta(r) \/ Upsert(r)
            \/ ReplaceSection(r) \/ FinalizeUpload(r) \/ CreateParseRun(r)
            \/ ReadLatestRun(r) \/ DecideAutoApply(r) \/ DecideSelection(r)
            \/ UpdateParseRun(r) \/ CreateAudit(r)

AllDone == (\A r \in Request : req[r].pc = "done") /\ UNCHANGED profileVars

ProfileNext ==
  \/ \E r \in Request : Arrive(r) \/ Serve(r) \/ RequestRaises(r)
  \/ ServerStops
  \/ AllDone

ProfileSpec == ProfileInit /\ [][ProfileNext]_profileVars

---------------------------------------------------------------------------
(* Properties *)

(* The same draft is never added twice: a repeated or concurrent apply, a   *)
(* second upload of the same CV or a form saved meanwhile leaves at most    *)
(* one copy of an entry the user did not type in, because each handler adds *)
(* only what its copy of the whole list lacked.                             *)
NoDuplicateEntries ==
  \A s \in Section, e \in Entry \ Own : section[s][e] <= 1

(* The upload applies "the latest" parse run, and that is always its own:   *)
(* it holds the event loop from its insert on.                              *)
AutoApplyUsesOwnRun ==
  \A r \in Request : req[r].kind = "autoApply" /\ req[r].pc # "readLatest" =>
    \A u \in Uploads : Done(u) => u <= req[r].cv

(* Without overlaps and failures the profile names the latest CV.           *)
LatestCvShown ==
  Quiet /\ failures = 0 /\ ~overlapped =>
    \A u \in Uploads : Done(u) => row.cv >= u /\ parseRun[u].status # "none"

(* A language entry that a certificate documents is never deleted, whatever *)
(* list a handler writes.                                                   *)
DocumentedLanguagesStay ==
  [][linked => section'["language"] = section["language"]]_profileVars

(* The latest CV is the one that counts: an upload applies its own parse run *)
(* and the profile names the latest.                                        *)
LatestCvDecides == AutoApplyUsesOwnRun /\ LatestCvShown
=============================================================================

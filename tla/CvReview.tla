------------------------------ MODULE CvReview ------------------------------
(***************************************************************************)
(* Reviewing a parsed CV: the draft of a snapshot                          *)
(* (services/cv_profile_draft.py), how far each of its fields is trusted   *)
(* (cv_profile_confidence.py, cv_review_insights.py), the plan of what the *)
(* profile lacks (cv_profile_apply_plan.py) and the application of what    *)
(* the user picked from it (cv_profile_apply_execution.py).                *)
(*                                                                         *)
(* CandidateProfile has these requests overlap, over sets of entries; here *)
(* they follow one another, and lists keep their order, because a page     *)
(* names entries by their position.  The page may be older than the        *)
(* profile.  A text is a member of a small set, with what the patterns of  *)
(* the confidence rules find in it; names and phones are left out.         *)
(***************************************************************************)
EXTENDS Integers, FiniteSets, Sequences, SequencesExt, Lists

CONSTANTS Absent,
          Empty,        \* texts that strip to nothing
          Folded,       \* the case-insensitive key of a text
          Says,         \* what the patterns find in a text
          Upload,       \* CVs: what the parser yields, and how it is used
          MaxRuns,      \* bound: uploads
          MaxPicks,     \* bound: picks of one request
          MaxRequests   \* bound: requests

Texts == DOMAIN Folded
Years == Int \cup {Absent}
RawEntry == [name : Texts \cup {Absent}, second : Texts \cup {Absent}, third : Texts \cup {Absent},
             from : Years, to : Years]

ScalarField == {"headline", "summary", "remote"}
TokenField   == {"skills", "roles", "places"}
SectionName == {"education", "experience", "languages", "certificates"}

\* The parser yields texts, in lists, and entries of texts and numbers.
ASSUME ReviewAssumption ==
    /\ Absent \in Empty
    /\ MaxRuns \in Nat /\ MaxPicks \in Nat /\ MaxRequests \in Nat
    /\ \A u \in Upload :
         /\ \A f \in ScalarField : u.raw.scalars[f] \in Texts \cup {Absent}
         /\ \A f \in TokenField : u.raw.lists[f] \in Seq(Texts)
         /\ \A s \in SectionName : u.raw.entries[s] \in Seq(RawEntry)

VARIABLES shelf,   \* the uploads, in the order of their parse runs
          held,    \* the profile: scalars, lists, entries
          page,    \* the plan the user is looking at, and its run
          ran,     \* the parse runs: apply_status and applied_change_count
          audits,  \* the audit rows: run, what was picked, how much remains
          requests \* requests so far

reviewVars == <<shelf, held, page, ran, audits, requests>>

-----------------------------------------------------------------------------
(* The draft *)

Clean(text) == IF text \in Empty THEN Absent ELSE text
FoldKey(text) == IF text = Absent THEN "" ELSE Folded[text]

\* Items without text are dropped; of those with the same key the first is kept.
Tokens(items) ==
    LET full == {i \in 1..Len(items) : Clean(items[i]) # Absent}
    IN ItemsAt(items, {i \in full : \A j \in full : j < i => FoldKey(items[j]) # FoldKey(items[i])})

SupportedYear(y) == IF y = Absent THEN Absent ELSE IF y \in 1900..2100 THEN y ELSE Absent

\* An entry: its name, the second and the third text, its years.
Drafted(raw) ==
    [name |-> Clean(raw.name), second |-> Clean(raw.second), third |-> Clean(raw.third),
     from |-> SupportedYear(raw.from), to |-> SupportedYear(raw.to)]
DraftEntries(raws) ==
    LET all == [i \in 1..Len(raws) |-> Drafted(raws[i])]
    IN ItemsAt(all, {i \in 1..Len(raws) : all[i].name # Absent})

BuildDraft(raw) ==
    [scalars |-> [f \in ScalarField |-> Clean(raw.scalars[f])],
     lists   |-> [f \in TokenField |-> Tokens(raw.lists[f])],
     entries |-> [s \in SectionName |-> DraftEntries(raw.entries[s])]]
RunDraft(r) == BuildDraft(shelf[r].raw)

-----------------------------------------------------------------------------
(* How far a field is trusted *)

Rank == [low |-> 0, medium |-> 1, high |-> 2]
Trust(level, n) == [level |-> level, items |-> n, present |-> n > 0]
Missing == Trust("low", 0)
Satisfying(entries, P(_)) == Cardinality({i \in 1..Len(entries) : P(entries[i])})

HeadlineTrust(v) ==
    IF v = Absent THEN Missing
    ELSE Trust(IF {"twowords", "role"} \subseteq Says[v] /\ Says[v] \cap {"email", "year"} = {}
               THEN "high" ELSE "medium", 1)
SummaryTrust(v) ==
    IF v = Absent THEN Missing
    ELSE Trust(IF "long" \in Says[v] THEN "high" ELSE IF "sentence" \in Says[v] THEN "medium" ELSE "low", 1)
RemoteTrust(v) ==
    IF v = Absent THEN Missing ELSE Trust(IF "workplace" \in Says[v] THEN "medium" ELSE "low", 1)

SkillsTrust(items) ==
    LET n == Len(items) IN Trust(IF n >= 4 THEN "high" ELSE IF n >= 2 THEN "medium" ELSE "low", n)
RolesTrust(items) ==
    IF items = <<>> THEN Missing
    ELSE Trust(IF \E i \in 1..Len(items) : "role" \in Says[items[i]] THEN "high" ELSE "medium", Len(items))
PlacesTrust(items) ==
    IF items = <<>> THEN Missing ELSE Trust(IF Len(items) >= 2 THEN "high" ELSE "medium", Len(items))

EducationTrust(entries) ==
    IF entries = <<>> THEN Missing
    ELSE Trust(IF Satisfying(entries, LAMBDA e : e.second # Absent /\ (e.from # Absent \/ e.to # Absent)) > 0
               THEN "high" ELSE "medium", Len(entries))
ExperienceTrust(entries) ==
    IF entries = <<>> THEN Missing
    ELSE Trust(IF Satisfying(entries, LAMBDA e : e.second # Absent /\ e.from # Absent) > 0
               THEN "high" ELSE "medium", Len(entries))
LanguagesTrust(entries) ==
    LET n == Satisfying(entries, LAMBDA e : e.second # Absent) IN
    Trust(IF n >= 2 THEN "high" ELSE IF n = 1 THEN "medium" ELSE "low", Len(entries))
\* Certificates are optional: without any the level is not low.
CertificatesTrust(entries) ==
    LET issued == Satisfying(entries, LAMBDA e : e.second # Absent) > 0
        dated  == Satisfying(entries, LAMBDA e : e.from # Absent) > 0
    IN Trust(IF entries = <<>> THEN "medium" ELSE IF issued /\ dated THEN "high"
             ELSE IF issued \/ dated THEN "medium" ELSE "low", Len(entries))

ConfidenceReport(d) ==
    [headline |-> HeadlineTrust(d.scalars["headline"]), summary |-> SummaryTrust(d.scalars["summary"]),
     remote |-> RemoteTrust(d.scalars["remote"]), skills |-> SkillsTrust(d.lists["skills"]),
     roles |-> RolesTrust(d.lists["roles"]), places |-> PlacesTrust(d.lists["places"]),
     education |-> EducationTrust(d.entries["education"]),
     experience |-> ExperienceTrust(d.entries["experience"]),
     languages |-> LanguagesTrust(d.entries["languages"]),
     certificates |-> CertificatesTrust(d.entries["certificates"])]

Severity(level, manual) ==
    CASE level = "low" -> "required"
      [] level = "medium" -> IF manual THEN "required" ELSE "recommended"
      [] OTHER -> IF manual THEN "recommended" ELSE "safe"

\* The insights of the page leave the certificates out.
Insights(d, manual) ==
    LET report == ConfidenceReport(d) IN
    [f \in DOMAIN report \ {"certificates"} |->
        [severity |-> Severity(report[f].level, manual), present |-> report[f].present,
         sparse |-> report[f].items <= 1 /\ f \notin {"headline", "remote"}]]
FocusFields(insights) == {f \in DOMAIN insights : insights[f].severity # "safe"}

-----------------------------------------------------------------------------
(* The plan *)

ScalarPlan(current, suggested) ==
    [suggested |-> suggested,
     action |-> CASE suggested = Absent -> "noop"
                  [] suggested # Absent /\ current = Absent -> "fill"
                  [] OTHER -> IF FoldKey(current) = FoldKey(suggested) THEN "noop" ELSE "review"]

ItemsToAdd(current, suggested) ==
    ItemsAt(suggested, {i \in 1..Len(suggested) :
                          \A j \in 1..Len(current) : FoldKey(current[j]) # FoldKey(suggested[i])})
ListPlan(current, suggested) ==
    LET add == ItemsToAdd(Tokens(current), suggested) IN
    [suggested |-> suggested, add |-> add, action |-> IF add = <<>> THEN "noop" ELSE "add"]

EducationKey(e)   == <<FoldKey(e.name), FoldKey(e.second), FoldKey(e.third), e.from, e.to>>
ExperienceKey(e)  == <<FoldKey(e.name), FoldKey(e.second), e.from, e.to>>
LanguageKey(e)    == <<FoldKey(e.name)>>
CertificateKey(e) == <<FoldKey(e.name), FoldKey(e.second), e.from>>
EntryKey(s, e) ==
    CASE s = "education" -> EducationKey(e) [] s = "experience" -> ExperienceKey(e)
      [] s = "languages" -> LanguageKey(e)  [] s = "certificates" -> CertificateKey(e)

\* Mutant: the stored text is compared with the key of the drafted one.
EntryActionUnfolded(s, existing, e) ==
    IF \E i \in 1..Len(existing) : existing[i].name = FoldKey(e.name) THEN "noop" ELSE "add"
EntryAction(s, existing, e) ==
    IF \E i \in 1..Len(existing) : EntryKey(s, existing[i]) = EntryKey(s, e) THEN "noop" ELSE "add"

SectionPlan(s, drafted, existing) ==
    [i \in 1..Len(drafted) |->
        [entry |-> drafted[i], action |-> EntryAction(s, existing, drafted[i])]]

ApplyPlan(d, h) ==
    [scalars |-> [f \in ScalarField |-> ScalarPlan(h.scalars[f], d.scalars[f])],
     lists   |-> [f \in TokenField |-> ListPlan(h.lists[f], d.lists[f])],
     entries |-> [s \in SectionName |-> SectionPlan(s, d.entries[s], h.entries[s])]]

\* The operations of a plan that are not a noop: actionable_change_count.
Actionable(plan) ==
    {<<f, 0>> : f \in {g \in ScalarField : plan.scalars[g].action # "noop"}}
    \cup {<<f, 0>> : f \in {g \in TokenField : plan.lists[g].action # "noop"}}
    \cup UNION {{s} \X {i \in 1..Len(plan.entries[s]) : plan.entries[s][i].action # "noop"} : s \in SectionName}
\* What the page ticks: nothing that would overwrite a value.
Preselected(plan) ==
    {op \in Actionable(plan) : op[1] \in ScalarField => plan.scalars[op[1]].action = "fill"}

-----------------------------------------------------------------------------
(* Applying a selection: picks are <<field, 0>> or <<section, position>>.   *)

\* Repeated picks count once; an empty selection is refused.
Selection(picks) ==
    ItemsAt(picks, {i \in 1..Len(picks) : \A j \in 1..i-1 : picks[j] # picks[i]})

Positions(s, selection) ==
    LET of == ItemsAt(selection, {i \in 1..Len(selection) : selection[i][1] = s})
    IN [k \in 1..Len(of) |-> of[k][2]]
Picked(f, selection) == \E k \in 1..Len(selection) : selection[k] = <<f, 0>>

\* A payload is one list of picks per field or section.
GroupNo == [headline |-> 1, summary |-> 2, remote |-> 3, skills |-> 4, roles |-> 5, places |-> 6,
            education |-> 7, experience |-> 8, languages |-> 9, certificates |-> 10]
Grouped(picks) == \A k \in 2..Len(picks) : GroupNo[picks[k-1][1]] <= GroupNo[picks[k][1]]

\* Every pick must be an operation of the plan as it is now.
Applicable(actionable, selection) ==
    selection # <<>> /\ \A k \in 1..Len(selection) : selection[k] \in actionable

AppliedScalars(plan, selection, h) ==
    [f \in ScalarField |-> IF Picked(f, selection) THEN plan.scalars[f].suggested ELSE h.scalars[f]]
AppliedItems(plan, selection, h) ==
    [f \in TokenField |-> IF Picked(f, selection) THEN h.lists[f] \o plan.lists[f].add ELSE h.lists[f]]
PickedEntries(plan, s, selection) ==
    LET at == Positions(s, selection) IN [k \in 1..Len(at) |-> plan.entries[s][at[k]].entry]
Applied(plan, selection, h) ==
    [scalars |-> AppliedScalars(plan, selection, h),
     lists   |-> AppliedItems(plan, selection, h),
     entries |-> [s \in SectionName |-> h.entries[s] \o PickedEntries(plan, s, selection)]]

ApplyStatus(remaining) == IF remaining = 0 THEN "fully_applied" ELSE "partially_applied"

-----------------------------------------------------------------------------
(* What an upload writes by itself *)

Or(new, old, empty) == IF new = empty THEN old ELSE new
SectionOr(d, h, s) == Or(d.entries[s], h.entries[s], <<>>)
\* What the draft lacks is kept.
Replaced(d, h) ==
    [scalars |-> [f \in ScalarField |-> Or(d.scalars[f], h.scalars[f], Absent)],
     lists   |-> [f \in TokenField |-> Or(d.lists[f], h.lists[f], <<>>)],
     entries |-> [s \in SectionName |-> SectionOr(d, h, s)]]
\* What the draft lacks is cleared, but for the sections other than education.
Pivoted(d, h) ==
    [scalars |-> d.scalars, lists |-> d.lists,
     entries |-> [s \in SectionName |-> IF s = "education" THEN d.entries[s] ELSE SectionOr(d, h, s)]]

EmptyProfile == [scalars |-> [f \in ScalarField |-> Absent], lists |-> [f \in TokenField |-> <<>>],
                 entries |-> [s \in SectionName |-> <<>>]]
NoPage == [run |-> 0, plan |-> ApplyPlan(EmptyProfile, EmptyProfile)]

ReviewInit ==
    shelf = <<>> /\ held = EmptyProfile /\ page = NoPage /\ ran = <<>> /\ audits = <<>>
    /\ requests = 0

\* POST /upload/cv, one after the other.
ReceiveUpload ==
    /\ Len(shelf) < MaxRuns
    /\ \E u \in Upload :
         LET d == BuildDraft(u.raw) IN
         /\ shelf' = Append(shelf, u)
         /\ held' = CASE u.use = "pivot" -> Pivoted(d, held)
                      [] u.use = "replace" -> Replaced(d, held)
                      [] OTHER -> held
    /\ ran' = Append(ran, [status |-> "pending", count |-> 0])
    /\ UNCHANGED <<page, audits>>

\* GET /cv/latest-apply-plan.
ViewPlan ==
    /\ shelf # <<>>
    /\ page' = [run |-> Len(shelf), plan |-> ApplyPlan(RunDraft(Len(shelf)), held)]
    /\ UNCHANGED <<shelf, held, ran, audits>>

\* PATCH and DELETE of the profile router: a value less.
EditProfile ==
    /\ held' \in {[held EXCEPT !.scalars[f] = Absent] : f \in ScalarField}
            \cup {[held EXCEPT !.lists[f] = Tail(@)] : f \in {g \in TokenField : held.lists[g] # <<>>}}
            \cup {[held EXCEPT !.entries[s] = Tail(@)] : s \in {t \in SectionName : held.entries[t] # <<>>}}
    /\ held' # held
    /\ UNCHANGED <<shelf, page, ran, audits>>

\* POST /cv/apply-selected for the run of the page: what needs a manual
\* review must be acknowledged, and one pick that does not apply refuses all.
Pick == ((ScalarField \cup TokenField) \X {0}) \cup (SectionName \X (1..3))
ApplySelectedOperations(acknowledged) ==
    LET r == page.run
        plan == ApplyPlan(RunDraft(r), held)
        actionable == Actionable(plan)
    IN
    /\ page # NoPage
    /\ shelf[r].manual => acknowledged
    /\ \E n \in 1..MaxPicks : \E picks \in {p \in [1..n -> Pick] : Grouped(p)} :
         LET selection == Selection(picks)
             after == Applied(plan, selection, held)
             remaining == Cardinality(Actionable(ApplyPlan(RunDraft(r), after)))
         IN /\ Applicable(actionable, selection)
            /\ held' = after
            /\ ran' = [ran EXCEPT ![r].status = ApplyStatus(remaining), ![r].count = @ + Len(selection)]
            /\ audits' = Append(audits, [run |-> r, picks |-> selection, remaining |-> remaining])
    /\ UNCHANGED <<shelf, page>>

ReviewNext ==
    /\ requests < MaxRequests /\ requests' = requests + 1
    /\ \/ ReceiveUpload \/ ViewPlan \/ EditProfile
       \/ \E acknowledged \in BOOLEAN : ApplySelectedOperations(acknowledged)
ReviewSpec == ReviewInit /\ [][ReviewNext]_reviewVars

-----------------------------------------------------------------------------
(* Properties *)

Applying == audits' # audits
NewAudit == audits'[Len(audits')]

\* A page names entries by their position and may be older than the profile:
\* each position still adds the entry the page showed there, at the end of its
\* section, a field takes the value the page suggested, and a list keeps what
\* it had (build_cv_profile_apply_plan lists what the profile has as noop).
ShownIsApplied ==
    LET picks == NewAudit.picks IN
    /\ \A k \in 1..Len(picks) :
         picks[k][1] \in SectionName => picks[k][2] \in 1..Len(page.plan.entries[picks[k][1]])
    /\ \A s \in SectionName :
         held'.entries[s] = held.entries[s] \o PickedEntries(page.plan, s, picks)
    /\ \A f \in ScalarField :
         held'.scalars[f] = IF Picked(f, picks) THEN page.plan.scalars[f].suggested ELSE held.scalars[f]
    /\ \A f \in TokenField : IsPrefix(held.lists[f], held'.lists[f])
AppliesWhatWasShown == [][Applying => ShownIsApplied]_reviewVars

\* What remains of a plan after a selection is what was not picked, but for
\* entries with the key of one that was: the status fully_applied is reached
\* exactly when nothing is left, and no pick comes back.
PickedToo(plan, picks, op) ==
    \/ \E k \in 1..Len(picks) : picks[k] = op
    \/ /\ op[1] \in SectionName
       /\ LET KeyAt(i) == EntryKey(op[1], plan.entries[op[1]][i].entry) IN
          \E k \in 1..Len(picks) : picks[k][1] = op[1] /\ KeyAt(picks[k][2]) = KeyAt(op[2])
OthersAreLeft ==
    LET r == NewAudit.run
        before == ApplyPlan(RunDraft(r), held)
        left == Actionable(ApplyPlan(RunDraft(r), held'))
    IN /\ left \subseteq Actionable(before)
       /\ \A k \in 1..Len(NewAudit.picks) : NewAudit.picks[k] \notin left
       /\ \A op \in Actionable(before) \ left : PickedToo(before, NewAudit.picks, op)
       /\ NewAudit.remaining = Cardinality(left)
WhatIsLeft == [][Applying => OthersAreLeft]_reviewVars

\* The review and the plan agree on what the CV has: a field with something to
\* apply has a value in the review, a field the review calls safe has one too,
\* and nothing the page ticks by itself replaces a value of the profile.
ReviewNamesValues ==
    \A r \in 1..Len(shelf) :
       LET d == RunDraft(r)
           plan == ApplyPlan(d, held)
           insights == Insights(d, shelf[r].manual)
       IN /\ \A op \in Actionable(plan) : op[1] \in DOMAIN insights => insights[op[1]].present
          /\ \A f \in DOMAIN insights \ FocusFields(insights) : insights[f].present
          /\ \A op \in Preselected(plan) : op[1] \in ScalarField => held.scalars[op[1]] = Absent

\* The page of a review says what the CV has, and applying from it does what it
\* says and leaves what it did not say (cv_profile_apply_plan, the apply of
\* selected operations).
ReviewKeepsItsWord == []ReviewNamesValues /\ AppliesWhatWasShown /\ WhatIsLeft
=============================================================================

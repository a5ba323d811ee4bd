------------------------------- MODULE JobText -------------------------------
(***************************************************************************)
(* What the rule tables of services/jobs/normalization.py find in the text *)
(* of a posting and of a profile (services/matching/profile_features.py,   *)
(* services/jobs/feature_engine.py): the features the matching scores are  *)
(* computed from.                                                          *)
(*                                                                         *)
(* A text is a member of Text; Signals[t] is the set of <<table, label>>   *)
(* its keywords hit, FirstWins[table] the order of a table's rules.  Several   *)
(* texts searched as one haystack are a set of texts.  Lists of terms are  *)
(* sets: their caps (24, 40 ... terms) and their order are left out.       *)
(***************************************************************************)
EXTENDS Lists, SequencesExt, FiniteSetsExt

CONSTANTS Text,
          Signals,      \* [Text -> SUBSET (STRING \X labels)]
          FirstWins,        \* [tables whose first hit wins -> Seq(labels)]
          Unknown,
          ThisYear

Hits(table, texts) == {h[2] : h \in {s \in UNION {Signals[t] : t \in texts} : s[1] = table}}
FirstListed(table, found) ==
    IF \E i \in 1..Len(FirstWins[table]) : FirstWins[table][i] \in found
    THEN FirstWins[table][Min({i \in 1..Len(FirstWins[table]) : FirstWins[table][i] \in found})]
    ELSE Unknown
First(table, texts) == FirstListed(table, Hits(table, texts))

RoleCategory(texts) == First("role", texts)
JobDiscipline(texts) == First("discipline", texts)
EducationHint(texts) == First("education", texts)
EmploymentType(texts) == First("employment", texts)
ResponsibilityScope(texts) == First("scope", texts)
ManagementTrack(texts) == Hits("manages", texts) # {}
SkillTerms(texts) == Hits("skill", texts)
LanguageRequirements(texts) == Hits("language", texts)
DomainSignals(texts) == Hits("domain", texts)
OwnershipSignals(texts) == Hits("owns", texts)
ImpactSignals(texts) == Hits("impact", texts)
\* "remote" and "hybrid" are stopwords: neither is ever a token of a place.
TitleTokens(texts) == Hits("token", texts)
YearsExperienceMin(texts) == IF Hits("years", texts) = {} THEN Unknown ELSE Min(Hits("years", texts))

\* A title says the level before a description does.
Seniority(title, description) ==
    IF First("level", title) # Unknown THEN First("level", title)
    ELSE IF First("level", description) # Unknown THEN First("level", description) ELSE "mid"

LevelRank == [intern |-> 1, junior |-> 2, mid |-> 3, senior |-> 4, lead |-> 5,
         principal |-> 6, director |-> 7, executive |-> 8]

-----------------------------------------------------------------------------
(* A posting: [title, paragraphs, workplace, places, trust, fresh, chars,   *)
(* external], a paragraph being [marks, text] with marks the headings its   *)
(* first 180 characters hold.                                               *)

ParagraphTexts(job) == {job.paragraphs[i].text : i \in 1..Len(job.paragraphs)}

\* The last heading seen says which section a paragraph belongs to; one that
\* names both is read as required.
SectionAt(paragraphs, i) ==
    LET headed == {j \in 1..i : paragraphs[j].marks # {}}
    IN  IF headed = {} THEN "general"
        ELSE IF "required" \in paragraphs[Max(headed)].marks THEN "required" ELSE "preferred"
InSection(paragraphs, s) ==
    {paragraphs[i].text : i \in {j \in 1..Len(paragraphs) : SectionAt(paragraphs, j) = s}}

\* external is Unknown or what the source page of the posting was found to say:
\* [requirements, technologies, responsibilities], sets of texts.
External(job) == IF job.external = Unknown
                 THEN [requirements |-> {}, technologies |-> {}, responsibilities |-> {}]
                 ELSE job.external

Percent(n) == n * 2520
Unit == Percent(100)
Least(a, b) == IF a <= b THEN a ELSE b
Most(a, b) == IF a >= b THEN a ELSE b
\* So much for each of n, up to a cap: min(cap, n * each).
Capped(n, each, cap) == Least(n * each, cap)
Given(x, points) == IF x THEN points ELSE 0
Clamp(x) == Most(0, Least(Unit, x))

Completeness(chars) ==
    CASE chars >= 1200 -> Percent(100) [] chars >= 700 -> Percent(92)
      [] chars >= 350 -> Percent(82)   [] chars >= 180 -> Percent(68)
      [] chars >= 80 -> Percent(52)    [] chars > 0 -> Percent(35) [] OTHER -> Percent(20)

Readiness(f, job) ==
    Most(Percent(20), Least(Unit,
        Given(f.role # Unknown, Percent(18)) + Given(f.discipline # Unknown, Percent(12))
        + Capped(Cardinality(f.tokens), Percent(2), Percent(16))
        + Capped(Cardinality(f.skills), Percent(5) \div 2, Percent(18))
        + Capped(Cardinality(f.places), Percent(2), Percent(8))
        + Capped(Cardinality(f.languages), Percent(5) \div 2, Percent(5))
        + Given(f.education # Unknown, Percent(5)) + Given(f.years # Unknown, Percent(7))
        + Given(job.workplace # Unknown, Percent(5))
        + Given(EmploymentType({job.title} \cup ParagraphTexts(job)) # Unknown, Percent(5))
        + Percent(5)
        + (Completeness(job.chars) * 12) \div 100))

JobFeature(job) ==
    LET page == External(job)
        reqs == SkillTerms(page.requirements)
        techs == SkillTerms(page.technologies)
        duties == SkillTerms(page.responsibilities)
        body == ParagraphTexts(job)
        said == body \cup page.requirements \cup page.technologies \cup page.responsibilities
        required == SkillTerms(InSection(job.paragraphs, "required")) \cup reqs
        bare == [readiness |-> 0,
                 role |-> RoleCategory({job.title} \cup body),
                 discipline |-> JobDiscipline({job.title} \cup said),
                 tokens |-> TitleTokens({job.title}),
                 skills |-> SkillTerms({job.title} \cup body) \cup reqs \cup techs \cup duties,
                 required |-> required,
                 preferred |-> (SkillTerms(InSection(job.paragraphs, "preferred")) \cup techs) \ required,
                 extRequirements |-> reqs, extTechnologies |-> techs, extDuties |-> duties,
                 places |-> job.places \cup ({job.workplace} \cap {"onsite"}),
                 languages |-> LanguageRequirements({job.title} \cup said),
                 education |-> EducationHint({job.title} \cup said),
                 years |-> YearsExperienceMin(said),
                 domains |-> DomainSignals({job.title} \cup said),
                 scope |-> ResponsibilityScope({job.title} \cup said)]
    IN  [bare EXCEPT !.readiness = Readiness(bare, job)]

-----------------------------------------------------------------------------
(* A profile: [skills, about, entries, places, remote, languages, degrees], *)
(* an entry of its experience being [title, summary, from, to], to = 0      *)
(* when it has no end.                                                      *)

Titles(p) == {p.entries[i].title : i \in 1..Len(p.entries)}
Summaries(p) == {p.entries[i].summary : i \in 1..Len(p.entries)}

\* Titles name a level by their first hit, weighted by their place; summaries
\* by every hit; the highest level named is taken.
LevelsNamed(p) ==
    ({First("profilelevel", {t}) : t \in Titles(p)} \ {Unknown})
    \cup Hits("described", Summaries(p))

ByYears(years) ==
    IF years = Unknown THEN Unknown
    ELSE CASE years <= 2 -> "junior" [] years <= 5 -> "mid"
           [] years <= 9 -> "senior" [] OTHER -> "lead"
ProfileSeniority(p, years) ==
    IF LevelsNamed(p) # {}
    THEN CHOOSE l \in LevelsNamed(p) : \A m \in LevelsNamed(p) : LevelRank[l] >= LevelRank[m]
    ELSE ByYears(years)

\* The years of an entry, at least one, as a half-open range.
Ranges(p) ==
    {[start |-> e.from, end |-> Most(e.from + 1, IF e.to = 0 THEN ThisYear ELSE e.to)] :
        e \in {f \in {p.entries[i] : i \in 1..Len(p.entries)} :
                  /\ f.from # Unknown
                  /\ (IF f.to = 0 THEN ThisYear ELSE f.to) >= f.from}}
Starts(a, b) == a.start < b.start \/ (a.start = b.start /\ a.end < b.end)

(* Mutant: a range inside the one before it shortens it.                    *)
MergeInto_shortens(merged, r) ==
    IF merged # <<>> /\ r.start <= Last(merged).end
    THEN [merged EXCEPT ![Len(merged)].end = r.end]
    ELSE Append(merged, r)
MergeInto(merged, r) ==
    IF merged # <<>> /\ r.start <= Last(merged).end
    THEN [merged EXCEPT ![Len(merged)].end = Most(@, r.end)]
    ELSE Append(merged, r)
MergedRanges(p) == FoldLeft(MergeInto, <<>>, InOrder(Ranges(p), Starts))
AddYears(n, r) == n + Most(1, r.end - r.start)
TotalYears(p) ==
    IF Ranges(p) = {} THEN Unknown
    ELSE FoldLeft(AddYears, 0, MergedRanges(p))

\* Three points for a title's scope, two for a summary's, one for each of the
\* ownership signals and for wanting to manage; the first of the largest wins.
ScopeOrder == <<"ic", "senior-ic", "tech-lead", "architect", "manager">>
ScopePoints(p, manages, s) ==
    LET count(P(_)) == Cardinality({i \in 1..Len(p.entries) : P(p.entries[i])})
        signal == [x \in {"tech-lead", "architect", "senior-ic"} |->
                     CASE x = "tech-lead" -> "technical_leadership"
                       [] x = "architect" -> "architecture" [] OTHER -> "system_ownership"]
    IN  3 * count(LAMBDA e : ResponsibilityScope({e.title}) = s)
        + 2 * count(LAMBDA e : ResponsibilityScope({e.summary}) = s)
        + (IF s \in DOMAIN signal
           THEN count(LAMBDA e : signal[s] \in OwnershipSignals({e.summary})) ELSE 0)
        + Given(s = "manager" /\ manages = "yes", 1)
ScopeByRank(level, manages) ==
    IF level = Unknown THEN Unknown
    ELSE CASE manages = "yes" /\ LevelRank[level] >= 5 -> "manager" [] LevelRank[level] >= 6 -> "architect"
           [] LevelRank[level] >= 5 -> "tech-lead" [] LevelRank[level] >= 4 -> "senior-ic" [] OTHER -> "ic"
ProfileScope(p, level, manages) ==
    LET points == [i \in 1..5 |-> ScopePoints(p, manages, ScopeOrder[i])]
    IN  IF \E i \in 1..5 : points[i] > 0
        THEN ScopeOrder[Min({i \in 1..5 : \A j \in 1..5 : points[i] >= points[j]})]
        ELSE ScopeByRank(level, manages)

\* A profile wants to manage when at least half of its texts say so.
ManagementPreference(p) ==
    LET said == Cardinality({t \in p.about : ManagementTrack({t})})
                + Cardinality({i \in 1..Len(p.entries) :
                                  ManagementTrack({p.entries[i].title, p.entries[i].summary})})
        asked == Cardinality(p.about) + Len(p.entries)
    IN  IF asked = 0 THEN Unknown
        ELSE IF said > 0 /\ said >= Most(1, asked \div 2) THEN "yes" ELSE "no"

EducationOrder == <<Unknown, "high_school", "associate", "bachelor", "master", "doctorate">>
EducationRank(level) == CHOOSE i \in 1..6 : EducationOrder[i] = level
HighestEducation(p) ==
    EducationOrder[Max({1} \cup {EducationRank(EducationHint({d})) : d \in p.degrees})]

ProfileFeature(p) ==
    LET texts == p.about \cup p.skills \cup Titles(p) \cup Summaries(p)
        years == TotalYears(p)
        manages == ManagementPreference(p)
        level == IF p.entries = <<>> /\ years = Unknown THEN Unknown ELSE ProfileSeniority(p, years)
    IN  [roles |-> {RoleCategory({t}) : t \in texts} \ {Unknown},
         disciplines |-> {JobDiscipline({t}) : t \in texts} \ {Unknown},
         tokens |-> TitleTokens(p.about \cup Titles(p)),
         skills |-> SkillTerms(p.skills \cup Titles(p) \cup Summaries(p)),
         evidence |-> SkillTerms(p.about \cup Titles(p) \cup Summaries(p)),
         owns |-> OwnershipSignals(texts), impact |-> ImpactSignals(texts),
         domains |-> DomainSignals(texts),
         places |-> p.places,
         remote |-> p.remote, languages |-> p.languages,
         education |-> HighestEducation(p), years |-> years, level |-> level,
         manages |-> manages, scope |-> ProfileScope(p, level, manages)]

=============================================================================

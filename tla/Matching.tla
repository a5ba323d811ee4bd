------------------------------ MODULE Matching ------------------------------
(***************************************************************************)
(* The deterministic match of a profile and a posting                      *)
(* (services/matching/scoring.py, explanations.py, analysis_quality.py):   *)
(* twelve weighted components, the score made of them, and the explanation *)
(* shown with it: the points that speak for the posting and the gaps.      *)
(*                                                                         *)
(* A subscriber edits the profile against a posting; the match is a        *)
(* function of the two.  Scores are integers, Unit = 1.0, chosen so that   *)
(* every constant of the code and every ratio of up to ten terms is exact; *)
(* the code's rounding to four places is left out, and so is the           *)
(* truncation of lists of terms.                                           *)
(***************************************************************************)
EXTENDS JobText, TLC

CONSTANTS Posting, Profile,     \* postings and first profiles
          Listable,               \* the skills a subscriber may list, in order
          Addable,                \* the experience entries they may add
          MaxEntries

\* A posting and a profile are made of texts the rule tables are run on; an
\* entry starts in a year, or does not say when.
WorkEntry == [title : Text, summary : Text, from : Int \cup {Unknown}, to : Int]
PageTexts(j) ==
    LET page == External(j) IN page.requirements \cup page.technologies \cup page.responsibilities
ASSUME MatchAssumption ==
    /\ ThisYear \in Int /\ IsFiniteSet(UNION {Signals[t] : t \in Text})
    /\ \A p \in Profile : "entries" \in DOMAIN p /\ p.entries \in Seq(WorkEntry)
    /\ Addable \subseteq WorkEntry
    /\ \A j \in Posting : j # Unknown /\ {j.title} \cup ParagraphTexts(j) \cup PageTexts(j) \subseteq Text

VARIABLES job, profile

matchVars == <<job, profile>>

Names == {"skill", "role", "seniority", "discipline", "domain", "location",
          "experience", "title", "scope", "workplace", "language", "education"}
Weight == [skill |-> 26, role |-> 14, seniority |-> 8, discipline |-> 9, domain |-> 6,
           location |-> 9, experience |-> 8, title |-> 5, scope |-> 4, workplace |-> 5,
           language |-> 3, education |-> 3]

Component(raw, matched, missing) == [raw |-> Clamp(raw), matched |-> matched, missing |-> missing]
Neutral(percent) == Component(Percent(percent), {}, {})

-----------------------------------------------------------------------------
(* Skills.                                                                   *)

EvidenceStrength(f) ==
    Capped(Cardinality(f.evidence), Percent(5) \div 2, Percent(50))
    + Capped(Cardinality(f.owns), Percent(8), Percent(25))
    + Capped(Cardinality(f.impact), Percent(8), Percent(25))

Required(j) == IF j.required # {} THEN j.required ELSE j.skills

\* Three missing required skills cap the score, two cap it higher.
Ceiling(missing) == CASE Cardinality(missing) >= 3 -> Percent(30)
                      [] Cardinality(missing) = 2 -> Percent(52) [] OTHER -> Unit

\* Skills seen at work in the experience raise the score; two that are only
\* listed lower it.
EvidenceBonus(f, met) ==
    LET seen == Cardinality(met \cap f.evidence)
        n == Cardinality(met)
        strength == EvidenceStrength(f)
    IN  IF met = {} THEN 0
        ELSE IF f.evidence = {}
        THEN IF n >= 2 /\ strength < Percent(20) THEN -Percent(4) ELSE 0
        ELSE CASE 4 * seen >= 3 * n -> Percent(6) + Given(strength >= Percent(55), Percent(2))
               [] 4 * seen < 3 * n /\ 20 * seen >= 9 * n
                    -> Percent(3) + Given(strength >= Percent(65), Percent(1))
               [] seen = 0 /\ n >= 2 -> IF strength >= Percent(30) THEN -Percent(5) ELSE -Percent(8)
               [] OTHER -> 0

SkillBase(f, required, preferred) ==
    LET met == required \cap f.skills
        base == IF required = {} THEN Percent(50)
                ELSE Percent(10) + (Percent(90) * Cardinality(met)) \div Least(10, Cardinality(required))
        liked == preferred \cap f.skills
        bonus == IF preferred = {} THEN 0
                 ELSE (Percent(8) * Cardinality(liked)) \div Least(6, Cardinality(preferred))
        withBonus == IF preferred = {} THEN base ELSE Least(Unit, base + bonus)
        broad == IF Cardinality(met) > 7 THEN Least(Unit, withBonus + Percent(4)) ELSE withBonus
        b == EvidenceBonus(f, met)
    IN  CASE b > 0 -> Least(Unit, broad + b) [] b < 0 -> Most(0, broad + b) [] OTHER -> broad

SkillAlignment(f, j) ==
    LET required == Required(j)
    IN  IF required \cup j.preferred = {} THEN Neutral(50)
        ELSE IF f.skills = {} THEN Component(Percent(8), {}, required \cup j.preferred)
        ELSE Component(Least(SkillBase(f, required, j.preferred), Ceiling(required \ f.skills)),
                       (required \cup j.preferred) \cap f.skills,
                       (required \cup j.preferred) \ f.skills)

-----------------------------------------------------------------------------
(* The other components.                                                   *)

\* One label of the posting against the labels of the profile.
Membership(label, labels, unspecified, sparse, outside) ==
    IF label = Unknown THEN Neutral(unspecified)
    ELSE IF label \in labels THEN Component(Unit, {label}, {})
    ELSE IF labels = {} THEN Neutral(sparse)
    ELSE Component(Percent(outside), {}, {label})
RoleAlignment(f, j) == Membership(j.role, f.roles, 52, 42, 16)
DisciplineAlignment(f, j) == Membership(j.discipline, f.disciplines, 50, 40, 20)

SeniorityAlignment(f, level) ==
    IF f.level = Unknown THEN Neutral(58)
    ELSE LET delta == LevelRank[f.level] - LevelRank[level]
         IN  Component(Percent(CASE delta = 0 -> 100 [] delta = 1 -> 82 [] delta = 2 -> 60
                                 [] delta > 2 -> 42 [] delta = -1 -> 72 [] delta = -2 -> 38
                                 [] OTHER -> 18),
                       {f.level}, IF delta >= 0 THEN {} ELSE {level})

DomainAlignment(f, j) ==
    LET shared == j.domains \cap f.domains
    IN  CASE j.domains = {} -> Neutral(55)
          [] j.domains # {} /\ f.domains = {} -> Neutral(46)
          [] shared # {} -> Component(Percent(76) + Cardinality(shared) * Percent(8), shared, {})
          [] OTHER -> Component(Percent(22), {}, j.domains)

ScopeEvidence(f) == f.owns \cup f.impact
ScopeRank(s) == CHOOSE i \in 1..5 : ScopeOrder[i] = s
ScopeBonus(f, wanted) ==
    CASE "architecture" \in f.owns /\ wanted \in {"architect", "tech-lead"} -> Percent(8)
      [] "technical_leadership" \in f.owns /\ wanted \in {"tech-lead", "manager"} -> Percent(6)
      [] "system_ownership" \in f.owns /\ wanted \in {"senior-ic", "tech-lead"} -> Percent(4)
      [] OTHER -> 0
ScopeAlignment(f, j) ==
    IF j.scope = Unknown THEN Component(Percent(56), ScopeEvidence(f), {})
    ELSE IF f.scope = Unknown THEN Component(Percent(54), ScopeEvidence(f), {})
    ELSE LET delta == ScopeRank(f.scope) - ScopeRank(j.scope)
             raw == Percent(CASE delta = 0 -> 100 [] delta = 1 -> 82 [] delta = -1 -> 70
                              [] delta \in {-2, 2} -> 44 [] OTHER -> 20)
         IN  Component(raw + Given(delta <= 0 /\ ScopeEvidence(f) # {}, ScopeBonus(f, j.scope))
                           - Given(delta < 0 /\ ScopeEvidence(f) = {}, Percent(5)),
                       {f.scope} \cup ScopeEvidence(f), IF delta >= 0 THEN {} ELSE {j.scope})

TitleAlignment(f, j) ==
    IF f.tokens = {} \/ j.tokens = {} THEN Neutral(40)
    ELSE LET shared == f.tokens \cap j.tokens
         IN  Component(Percent(20) + Least(Percent(80),
                           (Percent(140) * Cardinality(shared)) \div Cardinality(f.tokens \cup j.tokens)),
                       shared, {})

LocationAlignment(f, j, workplace) ==
    LET near == j.places \cap f.places
    IN  CASE f.places = {} -> IF workplace = "remote" /\ f.remote = "onsite" THEN Neutral(24) ELSE Neutral(55)
          [] near # {} -> Component(Unit, near, {})
          [] f.places # {} /\ near = {} /\ workplace = "remote"
             /\ f.remote \in {"remote", "hybrid", "flexible"} -> Component(Percent(88), {"remote"}, {})
          [] OTHER -> Component(Percent(18), {}, j.places)

Compatible == {<<"remote", "hybrid">>, <<"hybrid", "remote">>, <<"hybrid", "onsite">>}
WorkplaceAlignment(f, workplace) ==
    IF f.remote = Unknown \/ workplace = Unknown THEN Neutral(55)
    ELSE IF f.remote = workplace THEN Component(Unit, {workplace}, {})
    ELSE IF <<f.remote, workplace>> \in Compatible THEN Component(Percent(68), {workplace}, {})
    ELSE Component(Percent(18), {}, {workplace})

ExperienceAlignment(f, j) ==
    LET strength == EvidenceStrength(f)
        delta == f.years - j.years
        raw == Percent(CASE delta >= 3 -> 100 [] delta \in 1..2 -> 90 [] delta = 0 -> 80
                         [] delta = -1 -> 52 [] delta = -2 -> 30 [] OTHER -> 14)
        shift == CASE strength >= Percent(60) /\ delta >= 0 -> Percent(3)
                   [] strength >= Percent(60) /\ delta = -1 -> Percent(8)
                   [] strength < Percent(20) /\ delta <= -1 -> -Percent(4) [] OTHER -> 0
    IN  CASE j.years = Unknown
             -> Component(Percent(IF strength >= Percent(55) THEN 60 ELSE 55), ScopeEvidence(f), {})
          [] j.years # Unknown /\ f.years = Unknown
             -> Component(Percent(IF strength >= Percent(55) THEN 62 ELSE 48), ScopeEvidence(f), {ToString(j.years)})
          [] OTHER -> Component(raw + shift, {ToString(f.years)} \cup ScopeEvidence(f), {ToString(j.years)})

LanguageAlignment(f, j) ==
    IF j.languages = {} THEN Neutral(65)
    ELSE IF f.languages = {} THEN Component(Percent(16), {}, j.languages)
    ELSE LET spoken == j.languages \cap f.languages
         IN  Component(Percent(18) + (Percent(82) * Cardinality(spoken)) \div Cardinality(j.languages),
                       spoken, j.languages \ spoken)

EducationAlignment(f, j) ==
    IF j.education = Unknown THEN Neutral(62)
    ELSE IF f.education = Unknown THEN Component(Percent(32), {}, {j.education})
    ELSE LET have == EducationRank(f.education)
             want == EducationRank(j.education)
         IN  CASE have >= want -> Component(Unit, {f.education}, {})
               [] have + 1 = want -> Component(Percent(52), {f.education}, {j.education})
               [] OTHER -> Component(Percent(18), {}, {j.education})

-----------------------------------------------------------------------------
(* The result.                                                             *)

ExternalTerms(j) == Capped(Cardinality(j.extRequirements), Percent(2), Percent(8))
ContentSignal(posting, j) ==
    Clamp((IF j.required # {} THEN Capped(Cardinality(j.required), (Percent(7) \div 2), Percent(28))
                              ELSE Capped(Cardinality(j.skills), Percent(2), Percent(18)))
          + Capped(Cardinality(j.preferred), (Percent(5) \div 2), Percent(10))
          + Capped(Cardinality(j.domains), Percent(4), Percent(10))
          + Given(j.scope # Unknown, Percent(12)) + Given(j.years # Unknown, Percent(8))
          + Capped(Cardinality(j.languages), Percent(3), Percent(6))
          + Given(posting.external # Unknown,
                  Percent(10) + ExternalTerms(j)
                  + Capped(Cardinality(j.extTechnologies), (Percent(5) \div 2), Percent(10))
                  + Capped(Cardinality(j.extDuties), Percent(2), Percent(8))))

\* How much of the posting there was to analyse.
AnalysisScore(posting, j) ==
    Clamp((CASE posting.chars >= 1200 -> Percent(28) [] posting.chars \in 700..1199 -> Percent(24)
             [] posting.chars \in 350..699 -> Percent(20) [] posting.chars \in 180..349 -> Percent(14)
             [] posting.chars \in 80..179 -> Percent(8) [] OTHER -> 0)
          + Given(posting.external # Unknown,
                  Percent(20) + ExternalTerms(j)
                  + Capped(Cardinality(j.extTechnologies), (Percent(3) \div 2), Percent(6))
                  + Capped(Cardinality(j.extDuties), Percent(2), Percent(6)))
          + (IF j.required # {} THEN Capped(Cardinality(j.required), Percent(2), Percent(14))
                                ELSE Capped(Cardinality(j.skills), Percent(1), Percent(8)))
          + Capped(Cardinality(j.preferred), (Percent(5) \div 4), Percent(5))
          + Given(j.scope # Unknown, Percent(5)) + Given(j.years # Unknown, Percent(4))
          + Capped(Cardinality(j.languages), Percent(2), Percent(4))
          + Capped(Cardinality(j.domains), (Percent(3) \div 2), Percent(4))
          + Given(j.role # Unknown, Percent(3)) + Given(j.discipline # Unknown, Percent(3)))
AnalysisLevel(score) == CASE score >= Percent(66) -> "strong"
                          [] score \in Percent(40)..(Percent(66) - 1) -> "moderate" [] OTHER -> "limited"

Components(posting, f, j) ==
    [skill |-> SkillAlignment(f, j), role |-> RoleAlignment(f, j),
     seniority |-> SeniorityAlignment(f, Seniority({posting.title}, ParagraphTexts(posting))),
     discipline |-> DisciplineAlignment(f, j), domain |-> DomainAlignment(f, j),
     location |-> LocationAlignment(f, j, posting.workplace),
     experience |-> ExperienceAlignment(f, j), title |-> TitleAlignment(f, j),
     scope |-> ScopeAlignment(f, j), workplace |-> WorkplaceAlignment(f, posting.workplace),
     language |-> LanguageAlignment(f, j), education |-> EducationAlignment(f, j)]

FitScore(c) == MapThenSumSet(LAMBDA n : c[n].raw * Weight[n], Names) \div 100
CatalogScore(posting, j) ==
    (posting.trust * Percent(22) + posting.fresh * Percent(18) + j.readiness * 33
     + ContentSignal(posting, j) * 12 + AnalysisScore(posting, j) * 15) \div 100

\* affinity is Unknown or what the subscriber did with the posting says, at most
\* a twentieth of the score.
FinalScore(fit, catalog, affinity, analysis) ==
    LET mixed == IF affinity = Unknown THEN (fit * 91 + catalog * 9) \div 100
                 ELSE (fit * 86 + catalog * 9 + Clamp(affinity) * 5) \div 100
    IN  CASE analysis < Percent(38) -> (mixed * 92) \div 100
          [] analysis \in Percent(38)..(Percent(52) - 1) -> (mixed * 97) \div 100
          [] analysis >= Percent(82) -> Least(Unit, mixed + Percent(1))
          [] OTHER -> mixed

Blockers(f, j, c) == IF c.skill.raw <= Percent(30) THEN Required(j) \ f.skills ELSE {}

Combined(posting, f, j, c, analysis, affinity) ==
    LET final == FinalScore(FitScore(c), CatalogScore(posting, j), affinity, analysis)
    IN  [components |-> c, final |-> final, matched |-> final >= Percent(55),
         blockers |-> Blockers(f, j, c), level |-> AnalysisLevel(analysis)]
Scored(posting, f, j, affinity) ==
    Combined(posting, f, j, Components(posting, f, j), AnalysisScore(posting, j), affinity)
MatchResult(posting, p, affinity) == Scored(posting, ProfileFeature(p), JobFeature(posting), affinity)

-----------------------------------------------------------------------------
(* The explanation.                                                        *)

Evidence == <<"skill", "role", "seniority", "domain", "discipline", "location", "experience",
              "scope", "workplace", "title", "language", "education">>
GapOrder == <<"skill", "seniority", "scope", "experience", "domain", "language", "location",
              "workplace", "education", "role", "discipline", "title">>

Qualifies(n, c) ==
    \/ c.raw >= Percent(55)
    \/ n = "skill" /\ Cardinality(c.matched) >= 3 /\ c.raw * Weight.skill >= 12 * Unit
HasPoint(n, c) ==
    CASE n \in {"experience", "seniority", "scope"} -> c.raw >= Percent(80)
      [] n = "domain" -> c.matched # {} /\ c.raw >= Percent(76)
      [] OTHER -> c.matched # {}

First4(s) == SubSeq(s, 1, Least(4, Len(s)))
Verified == [about |-> "content", terms |-> {}]
EvidencePoints(r) ==
    LET c == r.components
        found == ItemsAt(Evidence, {i \in 1..Len(Evidence) : LET n == Evidence[i] IN
                                       Qualifies(n, c[n]) /\ HasPoint(n, c[n])})
        points == First4([i \in 1..Len(found) |-> [about |-> found[i], terms |-> c[found[i]].matched]])
    IN  IF r.level # "strong" THEN points
        ELSE IF Len(points) < 4 THEN Append(points, Verified)
        ELSE [points EXCEPT ![4] = Verified]

(* Mutant: a score of exactly the ceiling for blockers is not severe.       *)
GapSeverity_strict(raw) == CASE raw < Percent(30) -> "high" [] raw \in Percent(30)..(Percent(60) - 1) -> "medium"
                          [] OTHER -> "low"
GapSeverity(raw) == CASE raw < Percent(35) -> "high" [] raw \in Percent(35)..(Percent(60) - 1) -> "medium"
                   [] OTHER -> "low"

HasGap(n, c) ==
    CASE n = "skill" -> c.raw < Percent(75) /\ c.missing # {}
      [] n = "seniority" -> c.raw < Percent(55)
      [] n = "scope" -> c.raw < Percent(50)
      [] n = "experience" -> c.raw < Percent(70)
      [] n = "language" -> c.missing # {}
      [] n \in {"location", "workplace"} -> c.raw < Percent(45)
      [] n = "education" -> c.raw < Percent(65) /\ c.missing # {}
      [] n = "domain" -> c.raw < Percent(45) /\ c.missing # {}
      [] n = "role" -> c.raw < Percent(40) /\ c.missing # {}
      [] OTHER -> FALSE
Gap(n, r) ==
    LET c == r.components[n]
        blocked == n = "skill" /\ r.blockers # {} /\ GapSeverity(c.raw) = "high"
    IN  [about |-> n, blocker |-> blocked, severity |-> GapSeverity(c.raw),
         terms |-> IF blocked THEN r.blockers ELSE c.missing]
GapAnalysis(r) ==
    LET found == ItemsAt(GapOrder, {i \in 1..Len(GapOrder) : HasGap(GapOrder[i], r.components[GapOrder[i]])})
        gaps == First4([i \in 1..Len(found) |-> Gap(found[i], r)])
    IN  IF r.level = "limited" /\ Len(gaps) < 4
        THEN Append(gaps, [about |-> "content", blocker |-> FALSE, severity |-> "medium", terms |-> {}])
        ELSE gaps

-----------------------------------------------------------------------------
MatchInit == job = Unknown /\ profile \in Profile

\* A posting is scored for the profile, now and after each change of it.
OpenPosting == job = Unknown /\ job' \in Posting /\ UNCHANGED profile

\* Adding skills one by one; the order of a posting's terms does not matter to
\* its score, so the next skill is the first one not yet listed.
Unlisted == {i \in 1..Len(Listable) : Listable[i] \notin profile.skills}
WithNextSkill == [profile EXCEPT !.skills = @ \cup {Listable[Min(Unlisted)]}]

LearnSkill ==
    /\ job # Unknown /\ Unlisted # {}
    /\ profile' = WithNextSkill
    /\ UNCHANGED job

AddEntry ==
    /\ job # Unknown /\ Len(profile.entries) < MaxEntries
    /\ \E e \in Addable : profile' = [profile EXCEPT !.entries = Append(@, e)]
    /\ UNCHANGED job

MatchNext == OpenPosting \/ LearnSkill \/ AddEntry
MatchSpec == MatchInit /\ [][MatchNext]_matchVars

-----------------------------------------------------------------------------
(* Properties.                                                             *)

\* The years of a profile are the calendar years its entries cover, each
\* counted once however the entries overlap (_merge_year_ranges).
Covered(p) == UNION {r.start..(r.end - 1) : r \in Ranges(p)}
YearsCountedOnce ==
    Ranges(profile) # {} => TotalYears(profile) = Cardinality(Covered(profile))

\* A hard blocker is a required skill the profile lacks, and it is the first
\* gap shown, as one of high severity (build_match_result, _build_gap_item);
\* no gap names a term that a point for the posting names of the same component.
StoriesAgree(blockers, gaps, points, skills) ==
    /\ blockers # {} =>
          /\ gaps # <<>> /\ gaps[1].about = "skill" /\ gaps[1].severity = "high"
          /\ gaps[1].terms = blockers /\ blockers \cap skills = {}
    /\ \A i \in 1..Len(gaps), k \in 1..Len(points) :
          gaps[i].about = points[k].about =>
             gaps[i].about # "content" /\ gaps[i].terms \cap points[k].terms = {}
Agrees(r, skills) == StoriesAgree(r.blockers, GapAnalysis(r), EvidencePoints(r), skills)
ExplanationAgrees ==
    job # Unknown => Agrees(MatchResult(job, profile, Unknown), ProfileFeature(profile).skills)

\* What a match is made of and what is said about it: years are counted once,
\* and gaps and points tell the same story.
MatchIsExplained == YearsCountedOnce /\ ExplanationAgrees
=============================================================================

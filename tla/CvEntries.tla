------------------------------ MODULE CvEntries ------------------------------
(***************************************************************************)
(* What the heuristic CV parser reads out of the sections of CvText: one   *)
(* entry per block, by the first layout that fits it, and the headline,    *)
(* summary, roles, languages, skills and certificates.  A field of an      *)
(* entry is the piece of text it was taken from.                           *)
(***************************************************************************)
EXTENDS CvText, FiniteSetsExt

VARIABLE draft      \* what the parser returns, None before it is done

readerVars == <<textVars, draft>>

Dated(block) == {i \in 1..Len(block) : Year(block[i].kind)}
FirstDated(block) == Min(Dated(block))

Entry(layout, title, org, dates) ==
    [layout |-> layout, title |-> title, org |-> org, dates |-> dates]
NoEntry == {}

\* The first layout that fits a block; the first reading that finds anything.
FirstFit(layouts) ==
    LET fits == {i \in 1..Len(layouts) : layouts[i] # NoEntry}
    IN  IF fits = {} THEN NoEntry ELSE layouts[Min(fits)]
OrElse(found, fallback) == IF found # <<>> THEN found ELSE fallback

-----------------------------------------------------------------------------
(* Experience: each layout gives the set of its one entry, or {}.          *)

\* "2016 Engineer" / "2019 Acme"
OcrYearTitleCompany(b) ==
    IF Len(b) >= 2 /\ OcrPair(b[1].kind, b[2].kind)
    THEN {Entry("ocr", b[1], b[2], {b[1], b[2]})} ELSE NoEntry

\* "Engineer - Acme" / dates
InlineTitleCompany(b) ==
    IF Len(b) >= 2 /\ \E i \in Dated(b) : i > 1
    THEN IF Is("titledashcompany", b[1].kind)
         THEN {Entry("inline", b[1], b[1], {b[Min({i \in Dated(b) : i > 1})]})}
         ELSE NoEntry
    ELSE NoEntry

CompanyStart(k) == Company(k) /\ ~Role(k) /\ ~Year(k)

\* "Acme Inc. Istanbul" / "Engineer 2016-2019"
CompanyFirst(b) ==
    IF Len(b) >= 2 /\ CompanyStart(b[1].kind)
    THEN IF Year(b[2].kind) /\ Role(b[2].kind)
         THEN {Entry("company_first", b[2], b[1], {b[2]})} ELSE NoEntry
    ELSE NoEntry

\* "Engineer" / "Acme" / dates
Discrete(b) ==
    IF Len(b) >= 3 /\ Dated(b) # {}
    THEN IF /\ FirstDated(b) > 2 /\ Role(b[1].kind)
            /\ ~Contact(b[2].kind) /\ Heading(b[2].kind) = None
         THEN {Entry("discrete", b[1], b[2], {b[FirstDated(b)]})} ELSE NoEntry
    ELSE NoEntry

(* The engine's own block parser is asked last.  It reads eight lines, takes *)
(* the dates from the first that says any ("present" alone is a date to it)  *)
(* and the title from what is left without the dates: a line that names a    *)
(* title and a company ("titleat"), else the first two lines, either of      *)
(* which may be the title; a line that stands alone is a title only when it  *)
(* looks like a role ("titlelike") and a company otherwise.  A block without *)
(* a title is dropped.                                                       *)
Opening(b) == {i \in 1..Len(b) : i <= 8}
EngineDates(b) == {i \in Opening(b) : Year(b[i].kind) \/ Is("present", b[i].kind)}
EngineLines(b) ==
    LET said == {i \in Opening(b) : ~Is("dateonly", b[i].kind)}
    IN  IF said = {} THEN Opening(b) ELSE said
SaysTitle(b) ==
    \/ Cardinality(EngineLines(b)) >= 2
    \/ \E i \in EngineLines(b) : Is("titleat", b[i].kind) \/ Is("titlelike", b[i].kind)

EngineEntry(b) ==
    LET first == b[Min(EngineLines(b))]
        others == EngineLines(b) \ {Min(EngineLines(b))}
        second == IF others = {} THEN None ELSE b[Min(others)]
        companyFirst ==
          /\ others # {} /\ ~Is("titleat", first.kind)
          /\ Is("companylike", first.kind) /\ Is("titlelike", second.kind)
          /\ ~(Is("titlelike", first.kind) /\ Is("companylike", second.kind))
        dates == IF EngineDates(b) = {} THEN {} ELSE {b[Min(EngineDates(b))]}
    IN  IF ~SaysTitle(b) THEN NoEntry
        ELSE {IF companyFirst THEN Entry("engine", second, first, dates)
              ELSE Entry("engine", first, IF Is("titleat", first.kind) THEN first ELSE second, dates)}

ParseExperienceBlock(b) ==
    FirstFit(<<OcrYearTitleCompany(b), InlineTitleCompany(b), CompanyFirst(b), Discrete(b), EngineEntry(b)>>)

\* Dated lines outside any section make entries only when the section made none.
ExperienceLine(k) ==
    /\ Year(k) /\ ~Institution(k) /\ ~Degree(k)
    /\ Role(k) \/ Is("pipe", k) \/ Company(k)

FallbackLines ==
    SelectSeq(preamble, LAMBDA p : ~Blank(p.kind) /\ ~Contact(p.kind)
                                   /\ Heading(p.kind) = None)

FallbackExperienceBlocks ==
    LET detail(k) == ~Year(k) /\ ~SkillLine(k) /\ ~Language(k)
                     /\ ~Institution(k) /\ ~Degree(k)
        step(acc, p) ==
          IF acc.open /\ detail(p.kind)
          THEN [blocks |-> Append(Front(acc.blocks), Append(Last(acc.blocks), p)),
                open |-> FALSE]
          ELSE IF ExperienceLine(p.kind)
               THEN [blocks |-> Append(acc.blocks, <<p>>), open |-> TRUE]
               ELSE [acc EXCEPT !.open = FALSE]
    IN  FoldLeft(step, [blocks |-> <<>>, open |-> FALSE], FallbackLines).blocks

ExperienceBlocks == SplitNonEmptyBlocks(sections["experience"])

\* The entries of some blocks, NoEntry in the place of a block that is dropped.
EntriesOf(blocks) == [i \in 1..Len(blocks) |-> ParseExperienceBlock(blocks[i])]

ExperienceEntries ==
    IF \E i \in 1..Len(ExperienceBlocks) : EntriesOf(ExperienceBlocks)[i] # NoEntry
    THEN EntriesOf(ExperienceBlocks) ELSE EntriesOf(FallbackExperienceBlocks)

-----------------------------------------------------------------------------
(* Education.                                                              *)

\* degree / dates / school within the four lines after the dates
DegreeYearInstitution(b) ==
    LET later == {i \in Dated(b) : i > 1}
        d == Min(later)
        schools == {i \in d + 1..Len(b) : i <= d + 4 /\ Institution(b[i].kind)}
    IN  IF /\ Len(b) >= 3 /\ later # {}
           /\ Degree(b[1].kind) \/ Is("highschool", b[1].kind)
        THEN IF schools # {}
             THEN {Entry("degree_first", b[1], b[Min(schools)], {b[d]})}
             ELSE IF Is("highschool", b[1].kind)
                  THEN {Entry("degree_first", b[1], None, {b[d]})} ELSE NoEntry
        ELSE NoEntry

\* school / "BSc 2011-2016"
InstitutionFirst(b) ==
    IF /\ Len(b) >= 2
       /\ Institution(b[1].kind)
       /\ Year(b[2].kind) /\ ~Is("yearonly", b[2].kind)
    THEN {Entry("institution_first", b[2], b[1], {b[2]})} ELSE NoEntry

\* one field per line before the dates
DiscreteEducation(b) ==
    LET n == IF Dated(b) = {} THEN Len(b) ELSE FirstDated(b) - 1
        degrees == {i \in 1..n : Degree(b[i].kind)}
        schools == {i \in 1..n : Institution(b[i].kind) \/ Is("acronym", b[i].kind)}
                   \ (IF degrees = {} THEN {} ELSE {Min(degrees)})
        field == (1..n) \ ((IF degrees = {} THEN {} ELSE {Min(degrees)})
                           \cup (IF schools = {} THEN {} ELSE {Min(schools)}))
        rest == field \ (IF field = {} THEN {} ELSE {Min(field)})
        title == IF degrees = {} THEN None ELSE b[Min(degrees)]
    IN  IF n < 2 \/ (\E i \in 1..n : Is("pipe", b[i].kind) \/ Is("dash", b[i].kind))
        THEN NoEntry
        ELSE IF schools # {} THEN {Entry("discrete", title, b[Min(schools)], {})}
        ELSE IF rest # {} THEN {Entry("discrete", title, b[Max(rest)], {})}
        ELSE NoEntry

\* The line the entry is named after: the dated one, or the one before it
\* when the dates stand alone.
EntityLine(b) ==
    IF Dated(b) = {} THEN {b[1]}
    ELSE IF ~Is("yearonly", b[FirstDated(b)].kind) THEN {b[FirstDated(b)]}
    ELSE IF FirstDated(b) > 1 THEN {b[FirstDated(b) - 1]} ELSE {}

EntityDates(b) == IF Dated(b) = {} THEN EntityLine(b) ELSE {b[FirstDated(b)]}

ParseEducationBlock(b) ==
    IF EntityLine(b) = {} THEN NoEntry
    ELSE FirstFit(<<DegreeYearInstitution(b), InstitutionFirst(b),
                    {[e EXCEPT !.dates = EntityDates(b)] : e \in DiscreteEducation(b)},
                    {Entry("inline", e, e, EntityDates(b)) : e \in EntityLine(b)}>>)

EducationBlocks == SplitEducationBlocks(sections["education"])

FallbackEducationBlocks ==
    LET fits == SelectSeq(FallbackLines, LAMBDA p : Year(p.kind)
                             /\ (Institution(p.kind) \/ Degree(p.kind)))
    IN  [i \in 1..Len(fits) |-> <<fits[i]>>]

SectionEducation ==
    LET read == SelectSeq(EducationBlocks, LAMBDA b : ~Supplemental(b))
    IN  SelectSeq([i \in 1..Len(read) |-> ParseEducationBlock(read[i])],
                  LAMBDA e : e # NoEntry)

FallbackEducation ==
    [i \in 1..Len(FallbackEducationBlocks) |-> ParseEducationBlock(FallbackEducationBlocks[i])]
EducationEntries == OrElse(SectionEducation, FallbackEducation)

-----------------------------------------------------------------------------
(* The single fields.                                                      *)

\* The second line, when it names a role and the first, a name, does not; or
\* the first short role; or the first line.
Headline ==
    LET c == FallbackLines
        roles == {i \in 1..Len(c) : Role(c[i].kind) /\ Width[c[i].kind] <= 100}
    IN  IF c = <<>> THEN None
        ELSE IF Len(c) >= 2 /\ ~Role(c[1].kind) /\ Role(c[2].kind) THEN c[2]
        ELSE IF roles # {} THEN c[Min(roles)] ELSE c[1]

\* Up to six lines of the section, or the first paragraph of prose of the
\* preamble: it starts at a long line and ends at a blank, a contact line, a
\* dated line, a language line or a compact row of skills.
SummaryLines(headline) ==
    LET IsHeadline(k) == IF headline = None THEN FALSE ELSE headline.kind = k
        own == SelectSeq(sections["summary"], LAMBDA p : ~Blank(p.kind))
        outside(k) == SkillLine(k) \/ Language(k) \/ Year(k)
        ends(k) == \/ Language(k) \/ Year(k)
                   \/ SkillLine(k) /\ (Width[k] < 45 \/ ~Is("sentence", k))
        flush(acc) == [acc EXCEPT !.blocks = Close(@, acc.block), !.block = <<>>]
        step(acc, p) ==
          IF acc.stopped THEN acc
          ELSE IF Blank(p.kind) \/ Contact(p.kind) \/ Heading(p.kind) # None THEN flush(acc)
          ELSE IF IsHeadline(p.kind) THEN acc
          ELSE IF acc.block = <<>> /\ (outside(p.kind) \/ Width[p.kind] < 50) THEN acc
          ELSE IF ends(p.kind) THEN [acc EXCEPT !.stopped = TRUE]
          ELSE [acc EXCEPT !.block = Append(@, p)]
        paragraphs == flush(FoldLeft(step,
                         [blocks |-> <<>>, block |-> <<>>, stopped |-> FALSE], preamble)).blocks
        long(n) == {i \in 1..Len(paragraphs) : WidthOf(paragraphs[i]) >= n}
    IN  IF own # <<>> THEN SubSeq(own, 1, Min({6, Len(own)}))
        ELSE IF long(80) # {} THEN paragraphs[Min(long(80))]
        ELSE IF long(50) # {} THEN paragraphs[Min(long(50))] ELSE <<>>

IsRole(headline) == IF headline = None THEN FALSE ELSE Role(headline.kind)

\* A headline that is no role gives way to the role phrase of the summary, or
\* to the title of the first entry that is one.
FinalHeadline(headline, summary, entries) ==
    LET phrases == {p \in Range(summary) : Is("rolephrase", p.kind)}
        titles == {e.title : e \in {x \in UNION Range(entries) : Role(x.title.kind)}}
    IN  IF IsRole(headline) THEN {headline}
        ELSE IF phrases # {} THEN phrases
        ELSE {t \in titles : \A u \in titles : t.from <= u.from}

TargetRoles(final) ==
    LET wanted == SelectSeq(sections["target_roles"], LAMBDA p :
                      ~Blank(p.kind) /\ Heading(p.kind) = None /\ ~Year(p.kind))
    IN  IF wanted # <<>> THEN Range(wanted) ELSE final

LanguageLines ==
    LET named(s) == SelectSeq(s, LAMBDA p : Language(p.kind))
    IN  OrElse(named(sections["languages"]), named(preamble))

\* Skills section, or the lines of the preamble that look like skills; a
\* skill is listed once however often it is named.
SkillLines ==
    LET fits == SelectSeq(preamble, LAMBDA p : SkillLine(p.kind))
    IN  OrElse(MergeWrappedSkillLines(sections["skills"]), [i \in 1..Len(fits) |-> <<fits[i]>>])

Skills == {[i \in 1..Len(b) |-> b[i].kind] : b \in Range(SkillLines)}

\* The name: the first lines of letters before anything else, a role above
\* all; two short lines may make one name.
FullName ==
    LET skipped(k) == \/ Blank(k) \/ Contact(k) \/ Heading(k) # None
                      \/ SkillLine(k) \/ Language(k) \/ Year(k)
        isName(k) == ~Role(k) /\ Is("name", k) /\ Width[k] <= 60
        step(acc, p) ==
          IF acc.stopped THEN acc
          ELSE IF skipped(p.kind) THEN [acc EXCEPT !.stopped = (acc.name # <<>>)]
          ELSE IF ~isName(p.kind) THEN [acc EXCEPT !.stopped = TRUE]
          ELSE [name |-> Append(acc.name, p),
                stopped |-> acc.name # <<>> \/ Is("twowords", p.kind)]
    IN  FoldLeft(step, [name |-> <<>>, stopped |-> FALSE], preamble).name

\* A contact field is looked for in the preamble and the contact section
\* first, then anywhere.
FirstWith(f, s) == LET fits == SelectSeq(s, LAMBDA p : Is(f, p.kind))
                   IN  IF fits = <<>> THEN None ELSE fits[1]
ContactField(f) ==
    LET near == FirstWith(f, preamble \o sections["contact"])
    IN  IF near = None THEN FirstWith(f, lines) ELSE near
Link(site) == FirstWith(site, lines)

PreferredLocations ==
    LET stated == SelectSeq(sections["preferences"], LAMBDA p : Is("locationlabel", p.kind))
        listed == SelectSeq(preamble, LAMBDA p :
                     /\ Is("pipe", p.kind) \/ Is("locationlabel", p.kind)
                     /\ ~SkillLine(p.kind) /\ ~Language(p.kind) /\ ~Year(p.kind))
    IN  SelectSeq(stated \o listed, LAMBDA p : Is("place", p.kind))

\* Hybrid wins over remote, and remote over onsite, wherever they are said.
RemotePreference ==
    LET said(w) == \E i \in 1..Len(lines) : Is(w, lines[i].kind)
    IN  IF said("hybrid") THEN "hybrid" ELSE IF said("remote") THEN "remote"
        ELSE IF said("onsite") THEN "onsite" ELSE None

-----------------------------------------------------------------------------
(* parse_cv_text_to_profile_draft.                                         *)

DraftWith(final, summary, entries) ==
    [name |-> FullName, email |-> ContactField("email"), phone |-> ContactField("phone"),
     linkedin |-> Link("linkedin"), github |-> Link("github"),
     headline |-> final, summary |-> summary, roles |-> TargetRoles(final),
     languages |-> LanguageLines, skills |-> Skills,
     locations |-> PreferredLocations, remote |-> RemotePreference,
     experience |-> entries, education |-> EducationEntries,
     certificates |-> CertificationBlocks]
Titled(headline, summary, entries) ==
    DraftWith(FinalHeadline(headline, summary, entries), summary, entries)
ReadDraft == Titled(Headline, SummaryLines(Headline), ExperienceEntries)

ReaderInit ==
    /\ doc \in Document
    /\ reading = "prepare" /\ at = 1 /\ lines = <<>>
    /\ section = None /\ preamble = <<>>
    /\ sections = [s \in Section |-> <<>>]
    /\ draft = None

ParseDraft == Finish /\ draft' = ReadDraft

ReaderNext ==
    \/ /\ \/ PrepareLine \/ StartSegmenting
          \/ ReadHeading \/ ReadInlineHeading \/ ReadContent
       /\ UNCHANGED draft
    \/ ParseDraft

ReaderSpec == ReaderInit /\ [][ReaderNext]_readerVars

-----------------------------------------------------------------------------
(* Properties.                                                             *)

Covers(p) == p.from..p.to
FiledUnder(s) == IF s = None THEN preamble ELSE sections[s]

\* Every line of a CV is read: it is a heading, it is in the preamble or in
\* exactly one section, or it repeats the line before it
\* (_prepare_cv_text_for_parsing, _segment_cv_sections).
NoLineLost ==
    reading = "done" =>
        /\ \A i \in 1..Len(doc) :
              \/ \E p \in Range(lines) : i \in Covers(p)
              \/ \E p \in Range(lines) : p.to < i /\ p.kind = doc[i]
              \/ \E p \in Range(lines), j \in {i - 1, i} \cap 1..(Len(doc) - 1) :
                    p.to < i /\ p.kind = Joined[<<doc[j], doc[j + 1]>>]
        /\ \A p \in Range(lines) :
              Heading(p.kind) = None =>
                Cardinality({x \in (Section \cup {None}) \X (1..Len(doc)) :
                    /\ x[2] <= Len(FiledUnder(x[1]))
                    /\ FiledUnder(x[1])[x[2]].from = p.from}) = 1

\* The engine finds the piece p of block b to be a date: it is among the lines
\* it reads, and no "present" stands before it.
ReadsDate(b, p) ==
    \E i \in Opening(b) : b[i] = p /\ \A j \in 1..i : ~Is("present", b[j].kind)

\* Every dated line of the experience section is in one block, and dates one
\* entry and one only, unless its block says no title or the engine does not
\* come to the line: jobs are neither run together nor read twice, and none
\* that says a title is dropped (_should_start_new_experience_block,
\* _parse_experience_block, parse_experience_block).
EachDateHasItsEntry ==
    reading = "done" =>
        \A p \in Range(sections["experience"]) :
            Year(p.kind) =>
                \E i \in 1..Len(ExperienceBlocks) :
                    /\ \A j \in 1..Len(ExperienceBlocks) :
                          p \in Range(ExperienceBlocks[j]) <=> j = i
                    /\ SaysTitle(ExperienceBlocks[i]) /\ ReadsDate(ExperienceBlocks[i], p) =>
                         Cardinality({j \in 1..Len(draft.experience) :
                             \E e \in draft.experience[j] : p \in e.dates}) = 1

\* A CV is read whole: no line of it is dropped, and no job that says a title.
CvReadWhole == NoLineLost /\ EachDateHasItsEntry
=============================================================================

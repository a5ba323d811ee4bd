-------------------------------- MODULE MCCv --------------------------------
\* The readers of a CV, its intake, the skills of a profile, the review of a CV
\* and the scores of a profile: one part is explored in each behaviour.
EXTENDS CvEntries, CvIntake, SkillList, CvReview, MCMatching

VARIABLE part       \* which of them this behaviour explores

-----------------------------------------------------------------------------
\* Lines of a CV, and what the parser's patterns say of them.
LineFeatures ==
    << <<"", {"blank"}>>,
       <<"Experience", {}>>, <<"Education", {}>>, <<"Work", {}>>, <<"Work Experience", {}>>,
       <<"Senior", {"qualifier"}>>, <<"Senior Engineer", {"role"}>>,
       <<"Engineer", {"role"}>>, <<"Acme Inc.", {"company"}>>,
       <<"Engineer - Acme", {"role", "titledashcompany", "dash"}>>,
       <<"2016-2019", {"year", "yearonly", "dateonly"}>>, <<"2019-2021", {"year", "yearonly", "dateonly"}>>,
       <<"Present", {"present"}>>,
       <<"2016 Engineer", {"year", "role", "ocrstart"}>>, <<"2019 Acme", {"year", "ocrend", "company"}>>,
       <<"Engineer | Acme | 2012", {"year", "role", "pipe", "company", "titleat"}>>,
       <<"- built things", {"bullet"}>>,
       <<"Technical University", {"institution"}>>, <<"BSc", {"degree"}>>,
       <<"BSc 2011-2016", {"degree", "year"}>>, <<"High School 2011", {"highschool", "year"}>>,
       <<"AWS Certificate 2020", {"certificate", "year", "supplemental"}>>,
       <<"Skills: SQL", {}>>, <<"SQL", {"skills", "phrase"}>>,
       <<"Languages: Python", {"skillcategory", "category"}>>, <<"Python", {"phrase"}>>,
       <<"Languages:", {"categoryonly", "wraps"}>>,
       <<"German", {"language"}>>, <<"Ada Example", {"name", "twowords"}>>,
       <<"a@b.c | Berlin | Remote", {"contact", "email", "pipe", "locationlabel", "place", "remote"}>>, <<"other", {}>> >>
LineKind == {LineFeatures[i][1] : i \in 1..Len(LineFeatures)}
\* To the engine whatever is mostly letters is like a title, and whatever has
\* capitals or a company's suffix is like a company.
EngineFeatures(k) ==
    (IF k \in {"", "Acme Inc.", "2016-2019", "2019-2021", "2019 Acme"} THEN {} ELSE {"titlelike"})
    \cup (IF k \in {"", "2016-2019", "2019-2021", "- built things", "BSc 2011-2016", "other",
                     "a@b.c | Berlin | Remote"} THEN {} ELSE {"companylike"})
MCFeature == [k \in LineKind |-> EngineFeatures(k) \cup
    UNION {LineFeatures[i][2] : i \in {j \in 1..Len(LineFeatures) : LineFeatures[j][1] = k}}]
MCSection == {"experience", "education", "skills", "languages", "summary",
              "certifications", "target_roles", "contact", "preferences", "ignore"}
MCHeader == [k \in LineKind |-> CASE k \in {"Experience", "Work Experience"} -> "experience"
                               [] k = "Education" -> "education" [] OTHER -> None]
MCInline == [k \in LineKind |-> CASE k = "Skills: SQL" -> "skills"
                               [] k = "Languages: Python" -> "languages" [] OTHER -> None]
MCPayload == [k \in LineKind |-> CASE k = "Skills: SQL" -> "SQL"
                                [] k = "Languages: Python" -> "Python" [] OTHER -> k]
MCJoined == [p \in LineKind \X LineKind |->
                CASE p = <<"Work", "Experience">> -> "Work Experience"
                  [] p = <<"Senior", "Engineer">> -> "Senior Engineer" [] OTHER -> "other"]
MCWidth == [k \in LineKind |-> IF k = "" THEN 0 ELSE 30]

After(heading, kinds, n) == {heading \o s : s \in [1..n -> kinds]}
MCDocument ==
    After(<<"Experience">>, {"", "Engineer", "Acme Inc.", "Engineer - Acme", "2016-2019", "2016 Engineer",
                             "2019 Acme", "Engineer | Acme | 2012", "- built things", "Present"}, 4)
    \cup After(<<"Education">>, {"", "Technical University", "BSc", "BSc 2011-2016", "2016-2019",
                                 "High School 2011", "AWS Certificate 2020", "- built things"}, 3)
    \cup After(<<"Work">>, {"Experience", "Senior", "Engineer", "Skills: SQL",
                            "Languages: Python", "Languages:", "SQL", "German", "2019 Acme"}, 4)
    \cup After(<<"Ada Example">>, {"", "a@b.c | Berlin | Remote", "Engineer", "Experience", "2016 Engineer"}, 4)

-----------------------------------------------------------------------------
\* Files and what the readers find in them.
Draft(h, sk, ed, ex) == [EmptyDraft EXCEPT !["headline"] = h, !["skills"] = sk,
                            !["education"] = ed, !["experience"] = ex]
Txt(chars, garbled, letters, score, words, v2, heuristic) ==
    [chars |-> chars, garbled |-> garbled, letters |-> letters, tokens |-> letters \div 5,
     stopwords |-> 2, symbols |-> 10, noisy |-> FALSE, odd |-> FALSE, score |-> score,
     has |-> words, says |-> words, contact |-> chars > 200, v2 |-> v2, heuristic |-> heuristic]
Rich == Draft({"lead"}, {"sql", "go"}, {"school"}, {"job"})
Poor == Draft({}, {"sql"}, {}, {"job"})
Mixed == Draft({"@#"}, {"phone sql"}, {"school", "phone", "degree"}, {})
KnownWords == {"lead", "sql", "go", "school", "acme", "data"}
Good == Txt(900, FALSE, 600, 90, KnownWords, Rich, Poor)
Fair == Txt(300, FALSE, 130, 75, {"sql", "acme", "lead", "data"}, Poor, Poor)
Weak == Txt(130, FALSE, 100, 40, {"sql", "acme", "lead"}, NoText, Poor)
Torn == Txt(500, TRUE, 50, 60, KnownWords \cup {"phone", "degree"}, Mixed, Rich)

F(suffix, layout, pypdf, ocr, docx, container, tools) ==
    [suffix |-> suffix, size |-> "fits", layout |-> layout, pypdf |-> pypdf, ocr |-> ocr,
     docx |-> docx, container |-> container, tools |-> tools]
MCFile ==
    {F(".pdf", l, p, o, NoText, "", NoText) : l \in {Raises, Torn, Good},
         p \in {Raises, NoText, Weak}, o \in {Raises, Fair}}
    \cup {F(".docx", NoText, NoText, NoText, t, "", NoText) : t \in {Raises, NoText, Good, Fair}}
    \cup {F(".doc", NoText, NoText, NoText, Fair, c, t) :
             c \in {"docx_zip", "ole_doc", "unknown"}, t \in {Raises, Good}}
    \cup {F(".png", NoText, NoText, t, NoText, "", NoText) : t \in {Raises, NoText, Good, Fair, Torn}}
    \cup {F(".webp", NoText, NoText, Good, NoText, "", NoText)}
\* Names of an answer: four words of which a text may lack one, three of which
\* two are not enough, one of letters that are no tokens.
MCTokens == [n \in {"lead", "boss", "lead data acme boss", "lead data boss", "sql", "rust",
                    "c++/f#", "phone", "data lead", "school", "college", "acme"} |->
               CASE n = "lead data acme boss" -> <<"lead", "data", "acme", "boss">>
                 [] n = "lead data boss" -> <<"lead", "data", "boss">>
                 [] n = "data lead" -> <<"data", "lead">> [] n = "c++/f#" -> <<>> [] OTHER -> <<n>>]
\* A job has a title and a company, and years nobody looks at.
MCNames == [v \in DOMAIN MCTokens \cup {"job", "job in 1901", "chief", "no company"} |->
              CASE v \in {"job", "job in 1901"} -> {"lead", "acme"}
                [] v = "chief" -> {"lead data boss", "acme"} [] v = "no company" -> {"lead"}
                [] OTHER -> {v}]
MCAnswer == {Draft({"lead data boss"}, {"sql", "rust", "phone"}, {"college"}, {"job", "chief", "no company"}),
             Draft({"lead data acme boss"}, {"c++/f#", "data lead"}, {"school"}, {"job", "job in 1901"})}
MCKeyOf == [n \in {"SQL", "sql", "Go"} |-> IF n = "Go" THEN "go" ELSE "sql"]

-----------------------------------------------------------------------------
\* CVs to review: one fills every section, with texts in two casings, twins,
\* blanks and years out of range, one is poor.
ReviewWords == << <<" ", " ", {}>>, <<"Dev", "dev", {"role"}>>, <<"dev", "dev", {"role"}>>,
            <<"Lead Dev", "lead dev", {"role", "twowords"}>>, <<"a@b.c dev", "a@b.c dev", {"role", "twowords", "email"}>>,
            <<"text", "text", {"sentence", "long"}>>, <<"Remote", "remote", {"workplace"}>>, <<"sea", "sea", {}>>, <<"Sea", "sea", {}>> >>
MCTexts == {ReviewWords[i][1] : i \in 1..Len(ReviewWords)}
MCEmpty == {" ", Absent}
MCFolded == [t \in MCTexts |-> ReviewWords[CHOOSE i \in 1..Len(ReviewWords) : ReviewWords[i][1] = t][2]]
MCSays == [t \in MCTexts |-> ReviewWords[CHOOSE i \in 1..Len(ReviewWords) : ReviewWords[i][1] = t][3]]

En(name, second, third, start, end) ==
    [name |-> name, second |-> second, third |-> third, from |-> start, to |-> end]
Raw(h, su, re, sk, ro, pl, ed, ex, la, ce) ==
    [scalars |-> [headline |-> h, summary |-> su, remote |-> re],
     lists |-> [skills |-> sk, roles |-> ro, places |-> pl],
     entries |-> [education |-> ed, experience |-> ex, languages |-> la, certificates |-> ce]]
FullCv == Raw("Lead Dev", " ", "Remote", <<"Dev", " ", "dev", "sea">>, <<>>, <<"sea">>,
            <<En(" ", "sea", Absent, 2001, Absent), En("sea", "dev", Absent, 1899, 2001)>>, <<En("Dev", "sea", Absent, 2001, 2101)>>,
            <<En("Dev", "text", " ", Absent, Absent), En("dev", Absent, Absent, Absent, Absent)>>, <<En("sea", "Dev", Absent, 2001, Absent)>>)
ThinCv == Raw("a@b.c dev", "text", Absent, <<"dev">>, <<"sea">>, <<>>, <<>>,
            <<En("sea", Absent, Absent, Absent, Absent), En("dev", "Sea", Absent, 2001, Absent)>>, <<>>, <<>>)
MCUpload == {[raw |-> FullCv, use |-> "preserve", manual |-> TRUE], [raw |-> ThinCv, use |-> "replace", manual |-> FALSE],
             [raw |-> ThinCv, use |-> "pivot", manual |-> FALSE]}

-----------------------------------------------------------------------------
ReaderAtRest == doc = <<>> /\ reading = "done" /\ at = 1 /\ lines = <<>> /\ section = None
                /\ preamble = <<>> /\ sections = [s \in Section |-> <<>>] /\ draft = None
MatchAtRest == job = Unknown /\ profile = NoProfile
Parts ==
    \/ part = "reader" /\ ReaderInit /\ IntakeInit /\ mode = "off" /\ MatchAtRest
    \/ part = "intake" /\ ReaderAtRest /\ IntakeInit /\ MatchAtRest
    \/ part \in {"skills", "review"} /\ ReaderAtRest /\ IntakeInit /\ mode = "off" /\ MatchAtRest
    \/ part = "match" /\ ReaderAtRest /\ IntakeInit /\ mode = "off" /\ MatchInit
Init == Parts /\ SkillInit /\ ReviewInit
Next ==
    /\ UNCHANGED part
    /\ \/ part = "reader" /\ ReaderNext /\ UNCHANGED <<intakeVars, skillVars, reviewVars, matchVars>>
       \/ part = "intake" /\ IntakeNext /\ UNCHANGED <<readerVars, skillVars, reviewVars, matchVars>>
       \/ part = "skills" /\ SkillNext /\ UNCHANGED <<readerVars, intakeVars, reviewVars, matchVars>>
       \/ part = "review" /\ ReviewNext /\ UNCHANGED <<readerVars, intakeVars, skillVars, matchVars>>
       \/ part = "match" /\ MatchNext /\ UNCHANGED <<readerVars, intakeVars, skillVars, reviewVars>>
Spec == Init /\ [][Next]_<<part, readerVars, intakeVars, skillVars, reviewVars, matchVars>>

=============================================================================

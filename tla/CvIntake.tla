------------------------------ MODULE CvIntake ------------------------------
(***************************************************************************)
(* What becomes of an uploaded CV: POST /upload/cv of                      *)
(* api/routers/user_profile.py with services/cv_extraction.py,             *)
(* cv_parse_pipeline.py, cv_ocr_structuring.py and cv_ocr_quality.py.      *)
(* Several ways of reading the file are tried, the text is parsed twice    *)
(* and may be structured by a local model, its quality is scored, and the  *)
(* draft is applied to the profile as far as the score allows.             *)
(*                                                                         *)
(* A file says what each reader finds in it (a text, NoText for no text,   *)
(* Raises for an error); a text has the counts its score is computed       *)
(* from, the drafts the two parsers make of it, and whether they have a    *)
(* contact. It contains some words (`has`) and some values whole (`says`). *)
(* Uploads follow one another; CandidateProfile has them overlap.          *)
(***************************************************************************)
EXTENDS Integers, FiniteSets, Sequences

CONSTANTS File, NoText, Raises,
          Answer,       \* what the local model may answer: drafts
          Mode,         \* HIRING_RADAR_CV_AI_STRUCTURING: "off", "ocr", "auto", "all"
          Gibberish,    \* values is_gibberish_scalar rejects
          Fragment,     \* values only its strict form rejects
          Contaminated, \* values with markers of another section
          NamesIn,      \* value |-> the names in it that an answer is checked for:
                        \* a job's title and company, a school, else the value
          Lacking,      \* entries without a name they must have
          TokensOf,     \* name |-> its runs of three and more ASCII letters and digits
          Short,        \* names of less than four characters
          Compact,      \* skills of one word
          MaxCvs,       \* bound: uploads
          MaxStops      \* bound: errors other than CvExtractionError, and crashes

Scalar == {"headline", "summary"}
ListField == {"skills", "roles", "locations"}
EntryField == {"education", "experience", "languages", "certificates"}
Fields == Scalar \cup ListField \cup EntryField
EmptyDraft == [f \in Fields |-> {}]

\* What the local model is held to: a summary and the roles may be inferred.
Checked == Fields \ {"summary", "roles"}

ASSUME TokensAssumption ==
    \A name \in DOMAIN TokensOf :
        Len(TokensOf[name]) \in Nat /\ DOMAIN TokensOf[name] = 1..Len(TokensOf[name])
ASSUME NamesAssumption == \A v \in DOMAIN NamesIn : NamesIn[v] \subseteq DOMAIN TokensOf
ASSUME AnswerAssumption ==
    \A answer \in Answer, f \in Fields : answer[f] \subseteq DOMAIN NamesIn

Readers == {"layout", "pypdf", "ocr", "docx", "tools"}
ASSUME FileAssumption ==
    \A file \in File, reader \in Readers :
        file[reader] \notin {NoText, Raises} =>
            file[reader].chars \in Nat

VARIABLES mode,      \* the structuring mode of this deployment
          step,      \* where the upload is
          cvFile,    \* the file being read
          found,     \* the results of the readers tried so far, <<method, text>>
          rows,      \* the subscriber_cv_uploads rows: status, text
          runs,      \* the parse run of each upload, Unparsed before it has one
          facts,     \* the CV fields of the profile
          shownCv,   \* the upload the profile names
          from,      \* history: the upload each field was last written from
          stops

intakeVars == <<mode, step, cvFile, found, rows, runs, facts, shownCv, from, stops>>
LatestCv == Len(rows)
Unparsed == [status |-> "none", band |-> "unusable", draft |-> EmptyDraft, image |-> FALSE]
Stored == UNCHANGED <<rows, runs, facts, shownCv, from, stops, mode>>

-----------------------------------------------------------------------------
(* What is inferred from the name of the file: services/cv_extraction.py.  *)

Image == {".png", ".jpg", ".jpeg", ".webp"}
CvExtension == {".pdf", ".docx", ".doc"} \cup (Image \ {".webp"})

InferredMethod(file) ==
    CASE file.suffix = ".pdf" -> "pdf_text" [] file.suffix = ".docx" -> "docx_text"
      [] file.suffix = ".doc" -> "doc_text" [] OTHER -> "image_ocr"
UsesOcr(file) == InferredMethod(file) = "image_ocr"

\* POST /upload/cv: the file is validated and stored, and a pending row made.
ReceiveCv(file) ==
    /\ step = "idle" /\ LatestCv < MaxCvs
    /\ file.suffix \in CvExtension /\ file.size = "fits"
    /\ cvFile' = file /\ found' = <<>> /\ step' = "read"
    /\ rows' = Append(rows, [status |-> "pending", text |-> NoText])
    /\ runs' = Append(runs, Unparsed)
    /\ UNCHANGED <<mode, facts, shownCv, from, stops>>

-----------------------------------------------------------------------------
(* Reading the text.                                                       *)

ParseStatus(text) == IF text = NoText THEN "empty" ELSE "parsed"

\* CvExtractionError: the row fails, without text.
FailExtraction ==
    /\ rows' = [rows EXCEPT ![LatestCv].status = "failed"]
    /\ step' = "snapshot"
    /\ UNCHANGED <<mode, cvFile, found, runs, facts, shownCv, from, stops>>

FinalizeText(text) ==
    /\ rows' = [rows EXCEPT ![LatestCv].status = ParseStatus(text), ![LatestCv].text = text]
    /\ step' = "snapshot"
    /\ UNCHANGED <<mode, cvFile, runs, facts, shownCv, from, stops>>

HighQuality(text) == text # NoText /\ text.chars >= 120 /\ ~text.garbled

Try(method, text, next) ==
    found' = Append(found, <<method, text>>) /\ step' = next /\ UNCHANGED cvFile /\ Stored

\* Without PyMuPDF, or when it raises, there is no layout attempt.
ReadLayout ==
    /\ step = "read" /\ cvFile.suffix = ".pdf"
    /\ IF cvFile.layout = Raises
       THEN found' = <<>> /\ step' = "pypdf" /\ UNCHANGED cvFile /\ Stored
       ELSE IF HighQuality(cvFile.layout)
            THEN FinalizeText(cvFile.layout) /\ found' = <<<<"layout", cvFile.layout>>>>
            ELSE Try("layout", cvFile.layout, "pypdf")

ReadPypdf ==
    /\ step = "pypdf"
    /\ IF cvFile.pypdf = Raises THEN FailExtraction
       ELSE IF HighQuality(cvFile.pypdf)
            THEN FinalizeText(cvFile.pypdf) /\ found' = Append(found, <<"pypdf", cvFile.pypdf>>)
            ELSE Try("pypdf", cvFile.pypdf, "ocr")

\* No OCR without its libraries; pages it cannot read are skipped.
ReadScan ==
    /\ step = "ocr"
    /\ IF cvFile.ocr = Raises
       THEN step' = "pick" /\ UNCHANGED <<cvFile, found>> /\ Stored
       ELSE Try("ocr", cvFile.ocr, "pick")

Usefulness(text) == IF text.garbled THEN text.chars \div 4 ELSE text.chars

\* The longest text, a garbled one counting a quarter; the first of equals.
PickBest ==
    LET texts == {i \in 1..Len(found) : found[i][2] # NoText}
        beats(i, j) == \/ Usefulness(found[i][2]) > Usefulness(found[j][2])
                       \/ Usefulness(found[i][2]) = Usefulness(found[j][2]) /\ i <= j
    IN  /\ step = "pick"
        /\ FinalizeText(IF texts = {} THEN NoText
                        ELSE found[CHOOSE i \in texts : \A j \in texts : beats(i, j)][2])
        /\ UNCHANGED found

ReadDocx ==
    /\ step = "read" /\ cvFile.suffix = ".docx"
    /\ IF cvFile.docx = Raises THEN FailExtraction
       ELSE FinalizeText(cvFile.docx) /\ UNCHANGED found

\* A .doc may be a .docx; else antiword, catdoc and LibreOffice are asked.
ReadDoc ==
    /\ step = "read" /\ cvFile.suffix = ".doc"
    /\ IF cvFile.container = "docx_zip" THEN
            IF cvFile.docx = Raises THEN FailExtraction
            ELSE FinalizeText(cvFile.docx) /\ UNCHANGED found
       ELSE IF cvFile.container = "unknown" \/ cvFile.tools = Raises THEN FailExtraction
       ELSE FinalizeText(cvFile.tools) /\ UNCHANGED found

\* Pillow cannot open it, or there is no Tesseract.
ReadImage ==
    /\ step = "read" /\ cvFile.suffix \in Image
    /\ IF cvFile.ocr = Raises THEN FailExtraction
       ELSE FinalizeText(cvFile.ocr) /\ UNCHANGED found

-----------------------------------------------------------------------------
(* The draft: services/cv_parse_pipeline.py.                               *)

FillBlank(base, other) == IF base = {} THEN other ELSE base
Richer(base, other) ==
    IF base = {} \/ Cardinality(other) > Cardinality(base) THEN other ELSE base

HasContamination(values) == values \cap Contaminated # {}

\* A long clean summary stays; any other gives way.
BetterSummary(base, other) ==
    IF base = {} \/ other = {} THEN FillBlank(base, other)
    ELSE IF HasContamination(base) THEN other ELSE base

\* Skills, education and experience that carry lines of another section
\* give way to clean ones; entries else to a longer list.
BetterSkills(base, other) ==
    IF HasContamination(base) /\ other # {} /\ ~HasContamination(other)
    THEN other ELSE FillBlank(base, other)
BetterEntries(base, other) ==
    IF HasContamination(base) /\ other # {} /\ ~HasContamination(other)
    THEN other ELSE Richer(base, other)
\* Two education rows more than the other parser sees are duplicates.
BetterEducation(base, other) ==
    IF other # {} /\ Cardinality(base) > Cardinality(other) + 1
    THEN other ELSE BetterEntries(base, other)

MergeParsers(v2, heuristic) ==
    [f \in Fields |->
       CASE f = "summary"      -> BetterSummary(v2[f], heuristic[f])
         [] f = "skills"       -> BetterSkills(v2[f], heuristic[f])
         [] f = "education"    -> BetterEducation(v2[f], heuristic[f])
         [] f = "experience"   -> BetterEntries(v2[f], heuristic[f])
         [] f = "languages"    -> Richer(v2[f], heuristic[f])
         [] f = "certificates" -> Richer(v2[f], heuristic[f]) \ Contaminated
         [] OTHER              -> FillBlank(v2[f], heuristic[f])]

ParsedDraft(text) ==
    IF text.v2 = NoText THEN text.heuristic ELSE MergeParsers(text.v2, text.heuristic)

Sparse(d, text) == \/ ~text.contact
                   \/ d["headline"] \cup d["roles"] = {}
                   \/ d["experience"] \cup d["education"] = {}
                   \/ Cardinality(d["skills"]) < 3

AsksModel(d, text) ==
    \/ mode = "all"
    \/ mode \in {"ocr", "auto"} /\ UsesOcr(cvFile)
    \/ mode = "auto" /\ Sparse(d, text)

(* Mutant: one token of a name that the text has is enough. *)
IsGrounded_any(name, text) ==
    \/ name \in Short \/ TokensOf[name] = <<>>
    \/ \E i \in DOMAIN TokensOf[name] : TokensOf[name][i] \in text.has

\* _is_grounded: seven tenths of the tokens of a name occur in the text; a
\* name without any, whatever its length, passes.
IsGrounded(name, text) ==
    LET tokens == TokensOf[name]
        hits == {i \in DOMAIN tokens : tokens[i] \in text.has}
    IN  name \in Short \/ 10 * Cardinality(hits) >= 7 * Len(tokens)

GroundedAmong(values, text) ==
    {v \in values : \A name \in NamesIn[v] : IsGrounded(name, text)}

(* Mutant: entries are taken as the model gives them. *)
ValidAnswer_entries(answer, text) ==
    [f \in Fields |-> IF f \in {"headline", "skills", "locations"}
                      THEN GroundedAmong(answer[f], text) ELSE answer[f] \ Lacking]

\* _validate_extraction: a summary and the roles may be inferred; of an entry
\* only its names are looked at, not its years, degree, field or description;
\* languages and certificates are not asked for.
ValidAnswer(answer, text) ==
    [f \in Fields |->
       CASE f \in {"summary", "roles"} -> answer[f]
         [] f \in {"languages", "certificates"} -> {}
         [] OTHER -> GroundedAmong(answer[f], text) \ Lacking]

Useful(d) == \E f \in {"headline", "skills", "experience", "education"} : d[f] # {}

\* A skill of the model is one word, or stands in the text as it is.
SkillAdditions(skills, text) == (skills \ Contaminated) \cap (Compact \cup text.says)

\* _apply_ollama_structuring_if_available: the model fills gaps and adds
\* skills; the locations are always its own.
WithAnswer(d, ai, text) ==
    [f \in Fields |->
       CASE f \in {"headline", "roles"} -> FillBlank(d[f], ai[f])
         [] f = "summary"   -> BetterSummary(d[f], ai[f])
         [] f = "skills"    -> d[f] \cup SkillAdditions(ai[f], text)
         [] f = "locations" -> ai[f]
         [] f = "languages" -> d[f]
         [] OTHER           -> Richer(d[f], ai[f])]

Structured(d, answer, text) ==
    IF answer = NoText THEN d
    ELSE IF Useful(ValidAnswer(answer, text))
         THEN WithAnswer(d, ValidAnswer(answer, text), text) ELSE d

-----------------------------------------------------------------------------
(* The score: score_ocr_quality of services/cv_ocr_quality.py.             *)

Order == [unusable |-> 0, low |-> 1, medium |-> 2, high |-> 3]
AtLeast(band, least) == Order[band] >= Order[least]

Band(text, strict) ==
    LET limit(ocr, other) == IF strict THEN ocr ELSE other
    IN  IF text = NoText THEN "unusable"
        ELSE IF text.noisy \/ text.letters < limit(120, 40) \/ text.stopwords < limit(3, 1)
             THEN "unusable"
        ELSE IF text.odd \/ text.tokens < limit(25, 10) \/ text.symbols > limit(35, 60)
             THEN "low"
        ELSE IF text.score >= limit(80, 72) THEN "high"
        ELSE IF text.score >= limit(58, 48) THEN "medium" ELSE "low"

\* _persist_cv_parse_snapshot: the draft and the band of the upload, the
\* latter by the method its name suggests.
PersistSnapshot ==
    LET row == rows[LatestCv]
        d == ParsedDraft(row.text)
        run(draft) == [status |-> row.status, band |-> Band(row.text, UsesOcr(cvFile)),
                       draft |-> draft, image |-> cvFile.suffix \in Image]
    IN  /\ step = "snapshot"
        /\ \E answer \in Answer \cup {NoText} :
             runs' = [runs EXCEPT ![LatestCv] = run(
                        IF row.status # "parsed" THEN EmptyDraft
                        ELSE IF AsksModel(d, row.text) THEN Structured(d, answer, row.text) ELSE d)]
        /\ step' = "metadata"
        /\ UNCHANGED <<mode, cvFile, found, rows, facts, shownCv, from, stops>>

NameCv ==
    /\ step = "metadata"
    /\ shownCv' = LatestCv /\ step' = "apply"
    /\ UNCHANGED <<mode, cvFile, found, rows, runs, facts, from, stops>>

-----------------------------------------------------------------------------
(* The apply: _auto_apply_latest_cv_parse_run.                             *)

\* Certificates are not looked at, nor is a phone number.
Sanitized(run) ==
    [f \in Fields |-> IF f = "certificates" THEN run.draft[f]
                      ELSE run.draft[f] \ (Gibberish \cup IF run.image THEN Fragment ELSE {})]

PivotSignal(d) == \E f \in Fields \ {"certificates"} : d[f] # {}

\* The latest parse run of the subscriber.
LatestRun == runs[CHOOSE i \in 1..Len(runs) :
                    /\ runs[i].status # "none"
                    /\ \A j \in 1..Len(runs) : runs[j].status # "none" => j <= i]

Trusted(run) ==
    /\ run.status = "parsed" /\ run.band # "unusable"
    /\ run.image => AtLeast(run.band, "high")

(* Mutant: any trusted text may clear what it does not carry. *)
Pivots_trusted(run, d) == PivotSignal(d)
Pivots(run, d) == PivotSignal(d) /\ AtLeast(run.band, "high")

\* A pivot clears the row and the education; nothing else is ever emptied.
WrittenFields(run, d) ==
    {f \in Fields : d[f] # {} \/ (Pivots(run, d) /\ f \in Scalar \cup ListField \cup {"education"})}

AutoApply ==
    LET run == LatestRun
        d == Sanitized(run)
        written == IF Trusted(run) THEN WrittenFields(run, d) ELSE {}
    IN  /\ step = "apply"
        /\ facts' = [f \in Fields |-> IF f \in written THEN d[f] ELSE facts[f]]
        /\ from' = [f \in Fields |-> IF f \in written THEN LatestCv ELSE from[f]]
        /\ step' = "idle" /\ cvFile' = NoText /\ found' = <<>>
        /\ UNCHANGED <<mode, rows, runs, shownCv, stops>>

\* Any other error ends the request where it is, as does a stop of the
\* process; what is committed stays.
Stop ==
    /\ step # "idle" /\ stops < MaxStops
    /\ stops' = stops + 1
    /\ step' = "idle" /\ cvFile' = NoText /\ found' = <<>>
    /\ UNCHANGED <<mode, rows, runs, facts, shownCv, from>>

IntakeInit ==
    /\ mode \in Mode /\ step = "idle"
    /\ cvFile = NoText /\ found = <<>> /\ rows = <<>> /\ runs = <<>>
    /\ facts = EmptyDraft /\ shownCv = 0 /\ from = [f \in Fields |-> 0] /\ stops = 0

IntakeNext ==
    \/ \E file \in File : ReceiveCv(file)
    \/ ReadLayout \/ ReadPypdf \/ ReadScan \/ PickBest
    \/ ReadDocx \/ ReadDoc \/ ReadImage
    \/ PersistSnapshot \/ NameCv \/ AutoApply \/ Stop

IntakeSpec == IntakeInit /\ [][IntakeNext]_intakeVars

-----------------------------------------------------------------------------
(* Properties.                                                             *)

\* Words of a name that the text does not have.
Unseen(name, text) == {i \in DOMAIN TokensOf[name] : TokensOf[name][i] \notin text.has}

\* A value the parsers found in the text, or one of an answer: of at most three
\* tenths of the words of each of its names can the text know nothing, and a
\* skill is one word or stands there whole.
OfItsText(v, f, text) ==
    \/ v \in ParsedDraft(text)[f]
    \/ /\ f \notin {"languages", "certificates"} /\ v \notin Lacking
       /\ \A name \in NamesIn[v] :
             name \in Short \/ 10 * Cardinality(Unseen(name, text)) <= 3 * Len(TokensOf[name])
       /\ f = "skills" => v \in (Compact \cup text.says) \ Contaminated

\* Whatever the local model answers and however many CVs and answers follow one
\* another, a headline, skill, location, school or job in the profile is what
\* the parsers found in the text of the CV it was taken from, or the words of
\* its names are, but for three tenths, those of this text (_validate_extraction,
\* _filter_ai_skill_values, _apply_ollama_structuring_if_available). Nothing of
\* the kind holds of a summary, of roles, or of an entry's years, degree, field
\* and description, which the code does not compare with the text.
NothingInvented ==
    \A f \in Checked :
        from[f] # 0 => \A v \in facts[f] : OfItsText(v, f, rows[from[f]].text)

\* A field that had values is emptied only by a CV whose text scores high,
\* and which carries something (_auto_apply_latest_cv_parse_run).
ClearedByTrustedCv ==
    [][\A f \in Fields : facts[f] # {} /\ facts'[f] = {} =>
         LET run == runs[from'[f]]
         IN  run.band = "high" /\ \E g \in Fields : facts'[g] # {} /\ from'[g] = from'[f]]_intakeVars
=============================================================================

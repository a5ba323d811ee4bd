------------------------------- MODULE CvText -------------------------------
(***************************************************************************)
(* The heuristic CV parser (services/cv_profile_parser.py): the lines of   *)
(* an extracted CV are joined and deduplicated, sorted into a preamble and *)
(* named sections, and each section is cut into the blocks its entries are *)
(* read from.                                                              *)
(*                                                                         *)
(* A line of text is a member of Kind; what the parser's regular           *)
(* expressions say of it is Feature[k] (is it dated, a role, a school ...),*)
(* Header[k] and Inline[k] (the section it names, alone or before a text   *)
(* on the same line), Payload[k] (that text) and Joined[<<k, l>>] (the     *)
(* line "k l").  A piece of text is a record with its kind and the lines of*)
(* the document it came from, so that nothing can be lost unseen.          *)
(***************************************************************************)
EXTENDS Integers, Sequences, SequencesExt

CONSTANTS Kind,       \* the lines a document is made of
          Section,    \* the canonical section names
          None,
          Feature,    \* [Kind -> SUBSET STRING]
          Header,     \* [Kind -> Section \cup {None}]
          Inline,     \* [Kind -> Section \cup {None}]
          Payload,    \* [Kind -> Kind]
          Joined,     \* [Kind \X Kind -> Kind]
          Width,      \* [Kind -> Nat]
          Document    \* the documents to read: sequences of kinds

\* A line that begins with a year is dated, one with nothing in it is not
\* (OCR_YEAR_TITLE_RE, YEAR_TOKEN_RE).
ASSUME LineAssumption ==
    /\ None \notin Section /\ "experience" \in Section /\ Document \subseteq Seq(Kind)
    /\ Header \in [Kind -> Section \cup {None}] /\ Inline \in [Kind -> Section \cup {None}]
    /\ Payload \in [Kind -> Kind] /\ Joined \in [Kind \X Kind -> Kind]
    /\ \A k \in Kind : /\ ("ocrstart" \in Feature[k] => "year" \in Feature[k])
                       /\ ("year" \in Feature[k] => "blank" \notin Feature[k])

VARIABLES doc,        \* the lines of the extracted text
          reading,    \* "prepare", "segment" or "done"
          at,         \* the next line to read
          lines,      \* the prepared lines
          section,    \* the section being filled, None in the preamble
          preamble,
          sections

textVars == <<doc, reading, at, lines, section, preamble, sections>>

Is(f, k) == f \in Feature[k]
(* What the patterns of the parser find in a line. *)
Blank(k) == Is("blank", k)
Year(k) == Is("year", k)
Role(k) == Is("role", k)
Contact(k) == Is("contact", k)
Bullet(k) == Is("bullet", k)
SkillLine(k) == Is("skills", k)
Language(k) == Is("language", k)
Institution(k) == Is("institution", k)
Degree(k) == Is("degree", k)
Company(k) == Is("company", k)
Heading(k) == Header[k]
InlineHeading(k) == Inline[k]

Some(f, block) == \E i \in 1..Len(block) : Is(f, block[i].kind)

-----------------------------------------------------------------------------
(* Preparing the text: _prepare_cv_text_for_parsing.                       *)

\* "Work" + "Experience" is a heading, "Senior Software" + "Engineer" a role.
JoinsNext(k, l) ==
    /\ ~Blank(k) /\ ~Blank(l)
    /\ \/ Heading(Joined[<<k, l>>]) # None
       \/ /\ Heading(k) = None
          /\ Is("qualifier", k) /\ ~Role(k) /\ Role(Joined[<<k, l>>])
          /\ \A x \in {k, l} : ~Contact(x) /\ ~Year(x) /\ Width[x] < 40

Candidate ==
    IF at < Len(doc) /\ JoinsNext(doc[at], doc[at + 1])
    THEN [kind |-> Joined[<<doc[at], doc[at + 1]>>], from |-> at, to |-> at + 1]
    ELSE [kind |-> doc[at], from |-> at, to |-> at]

\* Two neighbours with one key are one line.
Repeats(line) ==
    /\ ~Blank(line.kind) /\ lines # <<>>
    /\ Last(lines).kind = line.kind

PrepareLine ==
    /\ reading = "prepare" /\ at <= Len(doc)
    /\ lines' = IF Repeats(Candidate) THEN lines ELSE Append(lines, Candidate)
    /\ at' = Candidate.to + 1
    /\ UNCHANGED <<doc, reading, section, preamble, sections>>

StartSegmenting ==
    /\ reading = "prepare" /\ at > Len(doc)
    /\ reading' = "segment" /\ at' = 1
    /\ UNCHANGED <<doc, lines, section, preamble, sections>>

-----------------------------------------------------------------------------
(* Cutting the text into sections: _segment_cv_sections.                   *)

Place(s, line) ==
    IF s = None
    THEN preamble' = Append(preamble, line) /\ UNCHANGED sections
    ELSE sections' = [sections EXCEPT ![s] = Append(@, line)] /\ UNCHANGED preamble

Segmenting == reading = "segment" /\ at <= Len(lines)
NextLine == at' = at + 1 /\ UNCHANGED <<doc, reading, lines>>
Current == lines[at]

ReadHeading ==
    /\ Segmenting /\ Heading(Current.kind) # None
    /\ section' = Heading(Current.kind)
    /\ UNCHANGED <<preamble, sections>> /\ NextLine

\* "Languages: Python, SQL" is a category among the skills, and the spoken
\* languages anywhere else.
StaysInSkills == section = "skills" /\ Is("skillcategory", Current.kind)

(* Mutant: an inline heading opens its section and its text is dropped. *)
ReadInlineHeading_drops ==
    /\ Segmenting /\ Heading(Current.kind) = None
    /\ InlineHeading(Current.kind) # None /\ ~StaysInSkills
    /\ section' = InlineHeading(Current.kind)
    /\ UNCHANGED <<preamble, sections>> /\ NextLine

ReadInlineHeading ==
    /\ Segmenting /\ Heading(Current.kind) = None
    /\ InlineHeading(Current.kind) # None /\ ~StaysInSkills
    /\ section' = InlineHeading(Current.kind)
    /\ Place(section', [Current EXCEPT !.kind = Payload[@]])
    /\ NextLine

ReadContent ==
    /\ Segmenting /\ Heading(Current.kind) = None
    /\ InlineHeading(Current.kind) = None \/ StaysInSkills
    /\ Place(section, Current)
    /\ UNCHANGED section /\ NextLine

Finish ==
    /\ reading = "segment" /\ at > Len(lines)
    /\ reading' = "done"
    /\ UNCHANGED <<doc, at, lines, section, preamble, sections>>

-----------------------------------------------------------------------------
(* Entry blocks.  A block is a non-empty sequence of pieces.               *)

Close(blocks, block) == IF block = <<>> THEN blocks ELSE Append(blocks, block)

\* A title or company line after a dated block: _looks_like_new_timeline_entry_line.
NewTimelineEntry(k) ==
    /\ ~Bullet(k) /\ ~Contact(k) /\ ~Year(k)
    /\ Heading(k) = None /\ Width[k] <= 80
    /\ Role(k) \/ Company(k) \/ Institution(k)

\* "2016 Engineer" followed by "2019 Acme" is one entry the OCR cut in two.
OcrPair(k, l) == Is("ocrstart", k) /\ Role(k) /\ Is("ocrend", l)

(* Mutant: only a title or a company opens the next entry. *)
ShouldStartNewBlock_undated(block, k) ==
    /\ block # <<>> /\ Some("year", block)
    /\ NewTimelineEntry(k)

ShouldStartNewBlock(block, k) ==
    /\ block # <<>> /\ Some("year", block)
    /\ ~(Len(block) = 1 /\ OcrPair(block[1].kind, k))
    /\ Year(k) \/ NewTimelineEntry(k) \/ (Is("pipe", k) /\ Width[k] <= 120)

\* A blank line ends an undated block only: bullets of a dated entry may be
\* separated by blanks.
WithLine(acc, p) ==
    IF Blank(p.kind)
    THEN IF Some("year", acc.block) THEN acc
         ELSE [blocks |-> Close(acc.blocks, acc.block), block |-> <<>>]
    ELSE IF ShouldStartNewBlock(acc.block, p.kind)
         THEN [blocks |-> Append(acc.blocks, acc.block), block |-> <<p>>]
         ELSE [acc EXCEPT !.block = Append(@, p)]
SplitNonEmptyBlocks(pieces) ==
    LET end == FoldLeft(WithLine, [blocks |-> <<>>, block |-> <<>>], pieces)
    IN  Close(end.blocks, end.block)

EducationStart(k) ==
    ~Bullet(k) /\ (Institution(k) \/ Degree(k) \/ Is("highschool", k))

Supplemental(block) == Is("supplemental", block[1].kind)

ShouldStartNewEducationBlock(block, k) ==
    /\ block # <<>> /\ ~Bullet(k)
    \* "Technical University" / "BSc 2011-2016" is one entry
    /\ ~(/\ Len(block) = 1 /\ Institution(block[1].kind)
         /\ Year(k) /\ Degree(k))
    /\ \/ EducationStart(k) /\ (Supplemental(block) \/ Year(k))
       \/ /\ \/ Some("year", block)
             \/ \E i \in 1..Len(block) : EducationStart(block[i].kind)
             \/ Some("degree", block)
          \* "BSc" / "2011-2016" / "Technical University" is one entry
          /\ ~(/\ Len(block) <= 2 /\ Some("degree", block)
               /\ Institution(k) /\ ~Institution(block[1].kind))
          /\ IF Year(k) THEN Is("pipe", k) /\ Width[k] <= 140
                              ELSE Institution(k)

\* Bullets before the first entry belong to no entry.
SplitEducationBlocks(pieces) ==
    LET step(acc, p) ==
          IF Blank(p.kind)
          THEN [blocks |-> Close(acc.blocks, acc.block), block |-> <<>>]
          ELSE LET cut == ShouldStartNewEducationBlock(acc.block, p.kind)
                   open == IF cut THEN <<>> ELSE acc.block
               IN  [blocks |-> IF cut THEN Close(acc.blocks, acc.block) ELSE acc.blocks,
                    block |-> IF open # <<>> \/ ~Bullet(p.kind)
                              THEN Append(open, p) ELSE open]
        end == FoldLeft(step, [blocks |-> <<>>, block |-> <<>>], pieces)
    IN  Close(end.blocks, end.block)

Certificate(k) == Is("certificate", k) /\ ~Is("highschool", k)

CoalesceCertificationLines(pieces) ==
    LET step(acc, p) ==
          IF Blank(p.kind) THEN acc
          ELSE IF acc.block = <<>> \/ Year(p.kind) \/ Certificate(p.kind)
               THEN [blocks |-> Close(acc.blocks, acc.block), block |-> <<p>>]
               ELSE [acc EXCEPT !.block = Append(@, p)]
        end == FoldLeft(step, [blocks |-> <<>>, block |-> <<>>], pieces)
    IN  Close(end.blocks, end.block)

\* Without a section of their own, certificates are looked for among the
\* education lines, which stay there.
CertificationBlocks ==
    CoalesceCertificationLines(
        IF sections["certifications"] # <<>> THEN sections["certifications"]
        ELSE SelectSeq(sections["education"], LAMBDA p : Certificate(p.kind)))

WidthOf(block) == FoldLeft(LAMBDA w, p : w + Width[p.kind], 0, block)

\* A wrapped skill is joined with the line it continues.
ShouldJoinWrappedSkillLine(block, k) ==
    /\ ~Some("contact", block) /\ ~Some("year", block)
    /\ ~Contact(k) /\ ~Year(k) /\ ~Is("category", block[1].kind)
    /\ \/ Is("wraps", Last(block).kind)
       \/ /\ Is("phrase", Last(block).kind) /\ Is("phrase", k)
          /\ WidthOf(block) + Width[k] <= 90
          /\ Is("continues", k) \/ Is("unfinished", Last(block).kind)

SkillBufferAccepts(block, k) ==
    /\ Is("categoryonly", block[1].kind) /\ ~Is("categoryonly", k)
    /\ WidthOf(block) + Width[k] <= 280 \/ Len(block) = 1

\* "ignore" is the section of references and the like: what follows it inside
\* the skills is not read.
MergeWrappedSkillLines(pieces) ==
    LET flush(acc) == [acc EXCEPT !.blocks = Close(@, acc.block), !.block = <<>>]
        step(acc, p) ==
          IF acc.stopped THEN acc
          ELSE IF Blank(p.kind) THEN flush(acc)
          ELSE IF Heading(p.kind) # None
               THEN [flush(acc) EXCEPT !.stopped = (Heading(p.kind) = "ignore")]
          ELSE IF /\ acc.block # <<>> /\ ~Is("categoryonly", p.kind)
                  /\ \/ SkillBufferAccepts(acc.block, p.kind)
                     \/ ShouldJoinWrappedSkillLine(acc.block, p.kind)
               THEN [acc EXCEPT !.block = Append(@, p)]
               ELSE [flush(acc) EXCEPT !.block = <<p>>]
    IN  flush(FoldLeft(step, [blocks |-> <<>>, block |-> <<>>, stopped |-> FALSE],
                       pieces)).blocks

=============================================================================

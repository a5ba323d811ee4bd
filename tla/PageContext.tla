------------------------------ MODULE PageContext ------------------------------
(***************************************************************************)
(* What is known of a job from its own page (services/ai/web_context.py):  *)
(* requests of the API and of the command line ask for one address, are    *)
(* answered from the stored snapshot while it is fresh, and fetch the page *)
(* and, at Lever, the posting of its API otherwise.  The fetch is awaited, *)
(* so requests pass one another, the page changes under them and the clock *)
(* runs on.                                                                *)
(*                                                                         *)
(* A line is one text; its heading keyword, its length and the technology  *)
(* terms it has are given.  Letter case, limits of length and wording are  *)
(* left out.                                                               *)
(***************************************************************************)
EXTENDS Integers, Sequences, SequencesExt, FiniteSetsExt, Functions

CONSTANTS
  Nothing,
  HeadingOf,     \* the section a line is a heading of, or Nothing
  LineSize,      \* characters of a line
  Boilerplate,   \* lines _PROVIDER_LINE_SKIP names
  TermsOf,       \* technology terms in a line
  Sites,         \* what the address may show: [lever, title, lines, posting]
  Asker,         \* requests
  TTL,           \* cache_ttl_minutes
  LastTick

Line == DOMAIN HeadingOf
Sections == <<"about_team", "about_role", "responsibilities", "requirements", "culture", "cta">>
Section == ToSet(Sections)

(* A page is its lines; a posting has a description, lists with a heading,  *)
(* and a closing.                                                           *)
IsPosting(p) == /\ p.description \in Seq(Line) /\ p.closing \in Seq(Line)
                /\ p.lists \in Seq([heading : Line, lines : Seq(Line)])

ASSUME PageAssumption ==
  /\ TTL \in Nat
  /\ \A l \in Line : HeadingOf[l] \in Section \cup {Nothing}
  /\ \A s \in Sites : s.lines \in Seq(Line) /\ (s.posting = Nothing \/ IsPosting(s.posting))

VARIABLES
  site,       \* what the address shows now
  clock,
  snapshot,   \* the row of job_external_context_snapshots, or Nothing
  asker       \* the requests

pageVars == <<site, clock, snapshot, asker>>

LinesOf(s, lines) == FoldLeft(LAMBDA kept, x : IF x \in lines THEN Append(kept, x) ELSE kept, <<>>, s)
Unique(s) == FoldLeft(LAMBDA kept, x : IF x \in ToSet(kept) THEN kept ELSE Append(kept, x), <<>>, s)
FirstOf(s, n) == SubSeq(s, 1, Min({n, Len(s)}))
NoBlocks == [b \in Section |-> <<>>]
UniqueBlocks(blocks) == [b \in Section |-> Unique(blocks[b])]

---------------------------------------------------------------------------
(* Sections of a page and of a posting *)

(* The loop of _parse_section_blocks_from_lines: a short line with a        *)
(* keyword is a heading and is not kept; before the first heading one line  *)
(* is kept.                                                                 *)
WithLine(s, line) ==
  IF HeadingOf[line] # Nothing /\ LineSize[line] <= 80 THEN [s EXCEPT !.at = HeadingOf[line]]
  ELSE IF s.at # Nothing THEN [s EXCEPT !.blocks[s.at] = Append(@, line)]
  ELSE IF s.blocks["about_role"] = <<>> THEN [s EXCEPT !.blocks["about_role"] = <<line>>]
  ELSE s
BlocksOf(lines) == UniqueBlocks(FoldLeft(WithLine, [at |-> Nothing, blocks |-> NoBlocks], lines).blocks)

(* _render_section_blocks, and the length of what it renders. *)
Rendered(blocks) == FoldLeft(LAMBDA text, b : text \o blocks[b], <<>>, Sections)
LabelSize == 14
Letters(blocks) == FoldLeft(LAMBDA n, b : IF blocks[b] = <<>> THEN n ELSE n + LabelSize, 0, Sections)
                     + FoldLeft(LAMBDA n, line : n + LineSize[line], 0, Rendered(blocks))

Terms(lines) == UNION {TermsOf[line] : line \in ToSet(lines)}

(* _build_clean_text_and_lines *)
HtmlLines(page) == Unique(LinesOf(page.lines, Line \ Boilerplate))

(* _extract_html_context: without a role the first sentences stand for it.  *)
HtmlContext(page) ==
  LET lines  == HtmlLines(page)
      found  == BlocksOf(lines)
      role   == FirstOf(LinesOf(lines, {line \in Line : LineSize[line] >= 20}), 3)
      blocks == IF found["about_role"] = <<>> THEN [found EXCEPT !["about_role"] = role] ELSE found
  IN [text |-> lines, blocks |-> blocks, terms |-> Terms(lines), method |-> "html", capture |-> {"html"}]

(* One list of a posting goes to the section its heading names, and is      *)
(* dropped when it names none.                                              *)
WithList(blocks, list) ==
  IF list.lines = <<>> \/ HeadingOf[list.heading] = Nothing THEN blocks
  ELSE [blocks EXCEPT ![HeadingOf[list.heading]] = @ \o list.lines]

(* _extract_lever_section_blocks *)
PostingBlocks(posting) ==
  LET described == LET b == BlocksOf(Unique(posting.description)) IN
                   IF b = NoBlocks THEN [b EXCEPT !["about_role"] = posting.description] ELSE b
      listed    == FoldLeft(WithList, described, posting.lists)
  IN UniqueBlocks([listed EXCEPT !["cta"] = @ \o posting.closing])

(* _extract_lever_context: nothing when it renders to less than 200         *)
(* characters.                                                              *)
ProviderContext(posting) ==
  IF posting = Nothing THEN Nothing
  ELSE LET blocks == PostingBlocks(posting) IN
       IF Letters(blocks) < 200 THEN Nothing
       ELSE [text |-> Rendered(blocks), blocks |-> blocks, terms |-> Terms(Rendered(blocks)),
             method |-> "api", capture |-> {"excerpt"}]

(* Mutant: a section the posting has is taken from the posting alone.       *)
MergedPostingFirst(html, provider) ==
  IF provider = Nothing THEN html
  ELSE LET blocks == [b \in Section |-> IF provider.blocks[b] = <<>> THEN html.blocks[b] ELSE provider.blocks[b]]
       IN [text |-> Rendered(blocks), blocks |-> blocks, terms |-> provider.terms \cup html.terms,
           method |-> IF blocks = provider.blocks THEN "api" ELSE "api plus html",
           capture |-> provider.capture \cup html.capture]

(* _merge_contexts *)
Merged(html, provider) ==
  IF provider = Nothing THEN html
  ELSE LET blocks == [b \in Section |-> Unique(provider.blocks[b] \o html.blocks[b])]
       IN [text |-> Rendered(blocks), blocks |-> blocks, terms |-> provider.terms \cup html.terms,
           method |-> IF blocks = provider.blocks THEN "api" ELSE "api plus html",
           capture |-> provider.capture \cup html.capture]

---------------------------------------------------------------------------
(* The answer, and the row that keeps it *)

(* _to_external_section_lines *)
LinesByUse(blocks) ==
  [requirements     |-> blocks["requirements"],
   responsibilities |-> IF blocks["responsibilities"] = <<>> THEN FirstOf(blocks["about_role"], 5)
                        ELSE blocks["responsibilities"],
   culture          |-> Unique(blocks["culture"] \o FirstOf(blocks["about_team"], 4))]

(* _extract_insights_from_page *)
InsightsFrom(c, page, at) ==
  [status |-> "live", warning |-> FALSE, title |-> page.title, text |-> c.text, blocks |-> c.blocks,
   uses |-> LinesByUse(c.blocks), terms |-> c.terms, method |-> c.method, capture |-> c.capture, fetchedAt |-> at]
Insights(page, posting, at) == InsightsFrom(Merged(HtmlContext(page), ProviderContext(posting)), page, at)

NonEmpty(f) == Restrict(f, {x \in DOMAIN f : f[x] # <<>>})

(* Mutant: the row is fresh from the time it is written.                    *)
RowOfFromNow(i, observed, readAt) ==
  [title |-> i.title, text |-> i.text, uses |-> i.uses, terms |-> i.terms, warning |-> i.warning,
   metadata |-> [blocks |-> NonEmpty(i.blocks), method |-> i.method, capture |-> i.capture],
   fetchedAt |-> i.fetchedAt, expires |-> clock + TTL, live |-> i, readAt |-> readAt]

(* _insights_to_snapshot.  "live" and "readAt" remember for the properties  *)
(* what was answered and when the page was read.                            *)
RowOf(i, observed, readAt) ==
  [title |-> i.title, text |-> i.text, uses |-> i.uses, terms |-> i.terms, warning |-> i.warning,
   metadata |-> [blocks |-> NonEmpty(i.blocks), method |-> i.method, capture |-> i.capture],
   fetchedAt |-> i.fetchedAt, expires |-> observed + TTL, live |-> i, readAt |-> readAt]

(* _snapshot_to_insights *)
FromRow(row) ==
  [status |-> "cached", warning |-> row.warning, title |-> row.title, text |-> row.text,
   blocks |-> [b \in Section |-> IF b \in DOMAIN row.metadata.blocks THEN row.metadata.blocks[b] ELSE <<>>],
   uses |-> row.uses, terms |-> row.terms, method |-> row.metadata.method, capture |-> row.metadata.capture,
   fetchedAt |-> row.fetchedAt]

(* _build_unavailable_insights, _build_error_insights *)
Without(status) ==
  [status |-> status, warning |-> TRUE, title |-> Nothing, text |-> <<>>, blocks |-> NoBlocks,
   uses |-> LinesByUse(NoBlocks), terms |-> {}, method |-> Nothing, capture |-> {}, fetchedAt |-> Nothing]

(* _is_snapshot_fresh *)
Fresh(row, observed) == row # Nothing /\ row.expires >= observed

---------------------------------------------------------------------------
(* Requests *)

Idle == [pc |-> "idle", asked |-> 0, cached |-> Nothing, page |-> Nothing, readAt |-> 0,
         posting |-> Nothing, exists |-> FALSE, answer |-> Nothing, from |-> Nothing]

PageInit == site \in Sites /\ clock = 0 /\ snapshot = Nothing /\ asker = [a \in Asker |-> Idle]

Become(a, r) == asker' = [asker EXCEPT ![a] = r]

(* get_external_source_insights up to the fetch; an address that is not     *)
(* http(s) has no page.                                                     *)
AskPage(a, force, valid) ==
  /\ asker[a].pc = "idle"
  /\ LET r == [Idle EXCEPT !.asked = clock, !.cached = snapshot] IN
     IF ~valid THEN Become(a, [r EXCEPT !.pc = "done", !.answer = Without("unavailable")])
     ELSE IF ~force /\ Fresh(snapshot, clock)
     THEN Become(a, [r EXCEPT !.pc = "done", !.answer = FromRow(snapshot), !.from = snapshot])
     ELSE Become(a, [r EXCEPT !.pc = "page"])
  /\ UNCHANGED <<site, clock, snapshot>>

(* _fetch_page *)
FetchPage(a) ==
  /\ asker[a].pc = "page"
  /\ Become(a, [asker[a] EXCEPT !.pc = IF site.lever THEN "posting" ELSE "look", !.page = site, !.readAt = clock])
  /\ UNCHANGED <<site, clock, snapshot>>

(* _extract_lever_context: the answer of the API, nothing when it fails or  *)
(* has no such posting.                                                     *)
FetchPosting(a) ==
  /\ asker[a].pc = "posting"
  /\ \E posting \in {site.posting, Nothing} : Become(a, [asker[a] EXCEPT !.pc = "look", !.posting = posting])
  /\ UNCHANGED <<site, clock, snapshot>>

(* An error on the way is answered with the row read at the beginning.      *)
PageFails(a) ==
  /\ asker[a].pc = "page"
  /\ LET row == asker[a].cached IN
     Become(a, [asker[a] EXCEPT !.pc = "done", !.from = row,
                                !.answer = IF row = Nothing THEN Without("error") ELSE [FromRow(row) EXCEPT !.warning = TRUE]])
  /\ UNCHANGED <<site, clock, snapshot>>

(* upsert_job_external_context_snapshot: is there a row ...                 *)
LookForRow(a) ==
  /\ asker[a].pc = "look"
  /\ Become(a, [asker[a] EXCEPT !.pc = "write", !.exists = snapshot # Nothing])
  /\ UNCHANGED <<site, clock, snapshot>>

(* ... update it or insert one; the second insert of an address fails.      *)
AnswerAndStore(a, i) ==
  /\ snapshot' = RowOf(i, asker[a].asked, asker[a].readAt)
  /\ Become(a, [asker[a] EXCEPT !.pc = "done", !.answer = i])
WriteRow(a) ==
  /\ asker[a].pc = "write"
  /\ IF ~asker[a].exists /\ snapshot # Nothing
     THEN Become(a, [asker[a] EXCEPT !.pc = "failed"]) /\ UNCHANGED snapshot
     ELSE AnswerAndStore(a, Insights(asker[a].page, asker[a].posting, asker[a].asked))
  /\ UNCHANGED <<site, clock>>

(* The page is edited. *)
SiteChanges(s) == s # site /\ site' = s /\ UNCHANGED <<clock, snapshot, asker>>

ClockTicks == clock < LastTick /\ clock' = clock + 1 /\ UNCHANGED <<site, snapshot, asker>>

PageNext ==
  \/ \E a \in Asker : \/ \E force, valid \in BOOLEAN : AskPage(a, force, valid)
                      \/ FetchPage(a) \/ FetchPosting(a) \/ PageFails(a) \/ LookForRow(a) \/ WriteRow(a)
  \/ \E s \in Sites : SiteChanges(s)
  \/ ClockTicks

PageSpec == PageInit /\ [][PageNext]_pageVars

---------------------------------------------------------------------------
(* Properties *)

Answered == {a \in Asker : asker[a].pc = "done"}

(* An answer that carries no warning was read from the page no longer than  *)
(* the time to live before it was asked for, however slow the fetch that    *)
(* stored it and whichever request stored last; a fresh row says exactly    *)
(* what the request that stored it answered.                                *)
OldOnlyWithWarning ==
  \A a \in Answered : LET r == asker[a] IN ~r.answer.warning =>
    IF r.answer.status = "live" THEN r.readAt >= r.asked
    ELSE r.from.readAt >= r.asked - TTL

(* An answer from the row is the answer of the request that stored it, but  *)
(* for its status and a warning: nothing is lost on the way to the row and  *)
(* back.                                                                    *)
CachedAsLive ==
  \A a \in Answered : LET r == asker[a] IN
    r.from # Nothing => r.answer = [r.from.live EXCEPT !.status = "cached", !.warning = r.answer.warning]

(* The page and the posting of the provider are merged without losing a     *)
(* line of either or moving it to another section, whatever each repeats.   *)
HasBoth(blocks, html, provider) ==
  \A b \in Section :
    ToSet(blocks[b]) = ToSet(html.blocks[b]) \cup (IF provider = Nothing THEN {} ELSE ToSet(provider.blocks[b]))
NothingLostInMerge ==
  \A a \in Answered : LET r == asker[a] IN r.answer.status = "live" =>
    HasBoth(r.answer.blocks, HtmlContext(r.page), ProviderContext(r.posting))

(* What is told of a page is honest: about its age, about what it was made   *)
(* from, and whole.                                                          *)
SnapshotIsHonest == OldOnlyWithWarning /\ CachedAsLive /\ NothingLostInMerge
=============================================================================

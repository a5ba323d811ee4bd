--------------------------- MODULE RetrievalContext ---------------------------
(***************************************************************************)
(* From the texts of a subscriber to the context of a question             *)
(* (services/retrieval/chunking.py, search.py, context.py): a body is cut  *)
(* into chunks that overlap by a paragraph, the vectors of the chunks are  *)
(* ranked, neighbouring results are merged, and what fits the budget is    *)
(* handed on.                                                              *)
(*                                                                         *)
(* A content is the sequence of its paragraphs and the number of           *)
(* characters kept of it; paragraphs are texts of known length, equal only *)
(* as a whole, and a word with its blank is five characters.               *)
(***************************************************************************)
EXTENDS Lists, SequencesExt, FiniteSetsExt, Functions

CONSTANTS
  Length,        \* characters of each paragraph
  Bodies,        \* what the two documents may say: sequences of paragraphs
  SourceOf,      \* the source of each document
  MaxChars,      \* DEFAULT_MAX_CHARS of a chunk
  Overlap,       \* DEFAULT_OVERLAP_PARAGRAPHS
  Rank,          \* similarities, as integers
  MinRank,       \* minimum_similarity
  TopK,          \* search_top_k
  Limits,        \* [items, total, tokens, each]: the options of a request
  Window         \* adjacent_window

(* The options of a request have passed _validate_context_options, which    *)
(* wants more of them.                                                      *)
ASSUME ContextAssumption ==
  /\ \A t \in DOMAIN Length : Length[t] \in Nat
  /\ Bodies \subseteq Seq(DOMAIN Length) /\ Overlap \in Nat
  /\ DOMAIN SourceOf \subseteq Int /\ IsFiniteSet(DOMAIN SourceOf)
  /\ \A d \in DOMAIN SourceOf : SourceOf[d] \in Int
  /\ Rank \subseteq Int /\ TopK \in Nat
  /\ \A l \in Limits : l.items \in Nat /\ l.total \in Nat /\ l.tokens \in Nat /\ l.each \in Nat

VARIABLES
  body,      \* the text of each document
  chunks,    \* its chunks
  results,   \* what the search found, best first
  limits,    \* what the request allows
  bundle     \* the context: its items, its sums and whether anything was cut

contextVars == <<body, chunks, results, limits, bundle>>

Documents == DOMAIN SourceOf
Plus(n, m) == n + m
SumOf(s) == FoldLeft(Plus, 0, s)

(* Characters of paragraphs joined by blank lines. *)
Chars(s) == SumOf([i \in DOMAIN s |-> Length[s[i]]]) + (IF s = <<>> THEN 0 ELSE 2 * (Len(s) - 1))

(* estimate_token_count *)
Tokens(chars) == IF chars = 0 THEN 0 ELSE Max({1, chars \div 4})

---------------------------------------------------------------------------
(* chunk_text *)

LastOf(s, n) == SubSeq(s, Max({1, Len(s) - n + 1}), Len(s))

Piece(text, from, to) == [text |-> text, from |-> from, to |-> to]

(* One paragraph more: when it does not fit, the chunk ends and the next    *)
(* begins with the last paragraphs of this one, however long they are.      *)
WithParagraph(s, i, t) ==
  LET full == s.now # <<>> /\ Chars(s.now) + 2 + Length[t] > MaxChars
      kept == IF full THEN (IF Overlap = 0 THEN <<>> ELSE LastOf(s.now, Overlap)) ELSE s.now
      from == IF kept = <<>> THEN i ELSE IF full THEN Max({1, i - Len(kept)}) ELSE s.from
  IN [done |-> IF full THEN Append(s.done, Piece(s.now, s.from, i - 1)) ELSE s.done,
      now |-> Append(kept, t), from |-> from]

ChunkText(text) ==
  LET end == FoldLeftDomain(LAMBDA s, i : WithParagraph(s, i, text[i]),
                            [done |-> <<>>, now |-> <<>>, from |-> 1], text)
  IN IF end.now = <<>> THEN end.done ELSE Append(end.done, Piece(end.now, end.from, Len(text)))

---------------------------------------------------------------------------
(* search_retrieval_chunks *)

Best(a, b) == \/ a.rank > b.rank
              \/ (a.rank = b.rank /\ a.doc < b.doc)
              \/ (a.rank = b.rank /\ a.doc = b.doc /\ a.at < b.at)
              \/ (a.rank = b.rank /\ a.doc = b.doc /\ a.at = b.at /\ a.vector < b.vector)

(* Every ready chunk has a vector, a chunk embedded twice has two; those    *)
(* near enough are ranked and the first TopK returned.                      *)
Search(vectors) == LET ranked == InOrder({v \in vectors : v.rank >= MinRank}, Best)
                   IN SubSeq(ranked, 1, Min({TopK, Len(ranked)}))

---------------------------------------------------------------------------
(* Merging *)

Content(c) == chunks[c.doc][c.at].text

(* _merge_two_content_blocks: the common end and beginning is written once, *)
(* when it has 32 to 240 characters.                                        *)
Joined2(left, right) ==
  LET common == {n \in 1 .. Min({Len(left), Len(right)}) :
                   /\ LastOf(left, n) = SubSeq(right, 1, n)
                   /\ Chars(SubSeq(right, 1, n)) \in 32 .. 240}
  IN IF left = right THEN left
     ELSE IF common = {} THEN left \o right
     ELSE left \o SubSeq(right, Max(common) + 1, Len(right))

(* _collect_adjacent_results: the results of the document around the seed,  *)
(* as far as each is within the window of the one before and not yet used.  *)
ByPlace(a, b) == a.at < b.at \/ (a.at = b.at /\ Best(a, b))
Neighbours(seed, found, used) ==
  LET own     == InOrder({r \in ToSet(found) : r.doc = seed.doc}, ByPlace)
      i       == Min({k \in DOMAIN own : own[k].id = seed.id})
      near(k) == own[k + 1].at - own[k].at <= Window
      from    == Min({k \in 1 .. i : \A n \in k .. i - 1 : own[n].id \notin used /\ near(n)})
      to      == Max({k \in i .. Len(own) : \A n \in i + 1 .. k : own[n].id \notin used /\ near(n - 1)})
  IN IF Window = 0 THEN <<seed>> ELSE SubSeq(own, from, to)

(* _build_context_item *)
Item(merged) ==
  LET text == FoldLeft(LAMBDA s, r : IF s = <<>> THEN Content(r) ELSE Joined2(s, Content(r)), <<>>, merged)
  IN [doc |-> merged[1].doc, first |-> merged[1].at, refs |-> {r.id : r \in ToSet(merged)},
      rank |-> Max({r.rank : r \in ToSet(merged)}), text |-> text, chars |-> Chars(text), cut |-> FALSE]

(* _build_context_candidates *)
WithResult(s, r, found) ==
  IF r.id \in s.used THEN s
  ELSE LET merged == Neighbours(r, found, s.used)
       IN [used |-> s.used \cup {m.id : m \in ToSet(merged)}, items |-> Append(s.items, Item(merged))]
Candidates(found) ==
  FoldLeft(LAMBDA s, r : WithResult(s, r, found), [used |-> {}, items |-> <<>>], found).items

---------------------------------------------------------------------------
(* Order and budget *)

Better(a, b) == \/ a.rank > b.rank
                \/ (a.rank = b.rank /\ a.doc < b.doc)
                \/ (a.rank = b.rank /\ a.doc = b.doc /\ a.first < b.first)

(* _deduplicate_context_candidates: of items that say the same, the best.   *)
Distinct(items) == LET sorted == InOrder(ToSet(items), Better) IN
  {sorted[i] : i \in {k \in DOMAIN sorted : \A m \in 1 .. k - 1 : sorted[m].text # sorted[k].text}}

(* _order_context_candidates: the best item of each source first. *)
BySource(a, b) == \/ a.rank > b.rank
                  \/ (a.rank = b.rank /\ SourceOf[a.doc] < SourceOf[b.doc])
                  \/ a.rank = b.rank /\ SourceOf[a.doc] = SourceOf[b.doc] /\ Better(a, b)
Ordered(items) ==
  LET sorted == InOrder(items, BySource)
      leads(i) == \A k \in 1 .. i - 1 : SourceOf[sorted[k].doc] # SourceOf[sorted[i].doc]
  IN ItemsAt(sorted, {i \in DOMAIN sorted : leads(i)}) \o ItemsAt(sorted, {i \in DOMAIN sorted : ~leads(i)})

Least == 32  \* MIN_CONTEXT_ITEM_CHARACTERS

(* _trim_content: the characters left, none when fewer than Least. *)
Trim(chars, most) == IF chars <= most THEN chars ELSE IF most < Least THEN 0 ELSE most

(* The loop of _fit_context_candidate, 0 when nothing fits: a text is cut   *)
(* to its share of the tokens until it fits or cannot get shorter.          *)
Shorter(chars, most) ==
  LET share == Max({Least, (chars * most) \div Tokens(chars)})
  IN Trim(chars, IF share >= chars THEN Max({Least, chars - 16}) ELSE share)
FitTokens(chars, most) ==
  LET fit[c \in 0 .. chars] ==
        IF c = 0 \/ Tokens(c) <= most THEN c
        ELSE LET left == Shorter(c, most)
             IN IF left <= Least /\ Tokens(left) > most THEN 0 ELSE fit[left]
  IN fit[chars]

Fitted(item, chars, tokens) ==
  IF chars < Least \/ tokens < 1 THEN [item EXCEPT !.chars = 0]
  ELSE IF item.chars <= chars /\ Tokens(item.chars) <= tokens THEN item
  ELSE LET left == FitTokens(Trim(item.chars, chars), tokens)
       IN [item EXCEPT !.chars = left, !.cut = left # item.chars]

EmptyBundle == [items |-> <<>>, chars |-> 0, tokens |-> 0, cut |-> FALSE]

(* Mutant: an item may be as long as the budget, whatever is spent of it.   *)
WithItemOverBudget(b, item, l) ==
  IF Len(b.items) >= l.items THEN [b EXCEPT !.cut = TRUE]
  ELSE LET fit == Fitted(item, Min({l.each, l.total}), l.tokens - b.tokens)
       IN IF fit.chars = 0 THEN [b EXCEPT !.cut = TRUE]
          ELSE [items |-> Append(b.items, fit), chars |-> b.chars + fit.chars,
                tokens |-> b.tokens + Tokens(fit.chars), cut |-> b.cut \/ fit.cut]

(* The loop of assemble_retrieval_context_bundle. *)
WithItem(b, item, l) ==
  IF Len(b.items) >= l.items THEN [b EXCEPT !.cut = TRUE]
  ELSE LET fit == Fitted(item, Min({l.each, l.total - b.chars}), l.tokens - b.tokens)
       IN IF fit.chars = 0 THEN [b EXCEPT !.cut = TRUE]
          ELSE [items |-> Append(b.items, fit), chars |-> b.chars + fit.chars,
                tokens |-> b.tokens + Tokens(fit.chars), cut |-> b.cut \/ fit.cut]

Assembled(found, l) ==
  FoldLeft(LAMBDA b, item : WithItem(b, item, l), EmptyBundle, Ordered(Distinct(Candidates(found))))

---------------------------------------------------------------------------
(* One question: the documents are ingested, searched and made a context.   *)

ContextInit == /\ body \in [Documents -> Bodies] /\ limits \in Limits
               /\ chunks = <<>> /\ results = <<>> /\ bundle = EmptyBundle

(* The chunks of ingest_retrieval_document. *)
Ingest ==
  /\ chunks = <<>>
  /\ chunks' = [d \in Documents |-> ChunkText(body[d])]
  /\ UNCHANGED <<body, results, limits, bundle>>

ChunkKeys == {<<d, i>> : d \in Documents, i \in 1 .. Max({Len(chunks[d]) : d \in Documents})}
VectorOf(chunk, n, rank) == [id |-> chunk, doc |-> chunk[1], at |-> chunk[2], vector |-> n, rank |-> rank]

(* user_retrieval: the similarities of the vectors are whatever the         *)
(* embeddings say, and one chunk may have been embedded twice.              *)
SearchChunks ==
  /\ chunks # <<>> /\ results = <<>>
  /\ LET there == {c \in ChunkKeys : c[2] <= Len(chunks[c[1]])} IN
     \E near \in [there -> Rank], twice \in SUBSET there :
       /\ Cardinality(twice) <= 1
       /\ results' = Search({VectorOf(c, 1, near[c]) : c \in there}
                              \cup {VectorOf(c, 2, near[c]) : c \in twice})
  /\ UNCHANGED <<body, chunks, limits, bundle>>

Assemble ==
  /\ results # <<>> /\ bundle = EmptyBundle
  /\ bundle' = Assembled(results, limits)
  /\ UNCHANGED <<body, chunks, limits, results>>

ContextNext == Ingest \/ SearchChunks \/ Assemble
ContextSpec == ContextInit /\ [][ContextNext]_contextVars

---------------------------------------------------------------------------
(* Properties *)

(* A chunk says what its metadata names: the paragraphs from its first to   *)
(* its last, although each chunk begins with the end of the one before; and *)
(* every paragraph of the body is in a chunk.                               *)
ChunksNameParagraphs ==
  chunks # <<>> => \A d \in Documents :
    /\ \A i \in DOMAIN chunks[d] :
         chunks[d][i].text = SubSeq(body[d], chunks[d][i].from, chunks[d][i].to)
    /\ \A n \in DOMAIN body[d] : \E i \in DOMAIN chunks[d] : n \in chunks[d][i].from .. chunks[d][i].to

(* A context stays within the limits of its request in every sum, quotes no *)
(* chunk in two items, and when nothing was cut it has every paragraph that *)
(* the search found.                                                        *)
ContextWithinBudget ==
  LET items  == bundle.items
      sizes  == [i \in DOMAIN items |-> items[i].chars]
      spent  == [i \in DOMAIN items |-> Tokens(items[i].chars)]
  IN /\ Len(items) <= limits.items /\ SumOf(sizes) <= limits.total /\ SumOf(spent) <= limits.tokens
     /\ \A i \in DOMAIN items : items[i].chars <= limits.each
     /\ \A i, k \in DOMAIN items : i # k => items[i].refs \cap items[k].refs = {}
     /\ bundle # EmptyBundle /\ ~bundle.cut =>
          \A r \in ToSet(results) : ToSet(Content(r)) \subseteq UNION {ToSet(items[i].text) : i \in DOMAIN items}

(* The context of a question is made of the texts it names, and as much of  *)
(* them as its limits allow.                                                *)
ContextOfTheText == ChunksNameParagraphs /\ ContextWithinBudget
=============================================================================

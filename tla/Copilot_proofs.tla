--------------------------- MODULE Copilot_proofs ---------------------------
(***************************************************************************)
(* Proofs about Copilot, for any number of requests, jobs, prompts and     *)
(* replies, and any number of messages looked at: no answer is without its *)
(* question, and a conversation stays about its job.  And about            *)
(* PageContext, from which a chat knows the page of its job: what it tells *)
(* is honest.  And about Scrape, that reads the jobs there are to ask      *)
(* about, for any sources, pages, answers and filters: nothing listed is   *)
(* missed, and the programs that read the same see the same.  And about    *)
(* Matching, that says how well a job fits: a match is explained.          *)
(***************************************************************************)
EXTENDS Copilot, PageContext, Scrape, Matching, Lists_proofs, FiniteSetTheorems, SequenceTheorems, TLAPS

(* Where a chat is: before its question is stored, and on the event loop.   *)
NoQuestionYet == {"idle", "awaiting", "asking", "refused", "suggested"}
Inside == {"asking", "thinking", "learning", "answering", "closing"}
Places == NoQuestionYet \cup Running \cup {"answered", "bad gateway", "lost"}

IsChat(r) ==
  /\ r = [pc |-> r.pc, conversation |-> r.conversation, began |-> r.began, seen |-> r.seen,
          chose |-> r.chose, context |-> r.context, kind |-> r.kind, prompt |-> r.prompt,
          sources |-> r.sources, answer |-> r.answer]
  /\ r.pc \in Places /\ r.began \in Nat

(* What a chat has stored, by where it is.                                  *)
ChatInv(c) ==
  LET r == chat[c] IN
  /\ IsChat(r) /\ r.began <= tick
  /\ r.pc \in Running => r.began < tick
  /\ r.pc \in {"idle", "suggested"} => r.prompt = NoJob
  /\ r.pc = "idle" => r.chose = NoJob /\ r.context = NoJob
  /\ r.pc \in Inside <=> loop = c
  /\ r.pc \in Inside \cup {"answered"} => r.pc = "asking" \/ QuestionOf(c) # {}
  /\ r.pc \in {"closing", "answered"} => AnswerOf(c) # {}

(* A message is that of a chat that has come so far: its question has the   *)
(* time the chat began, its answer a later one.                             *)
MessageInv(i) ==
  LET m == messages[i]
      r == chat[m.chat]
  IN /\ m.chat \in Chat /\ m.at \in Nat /\ m.at < tick /\ m.role \in {"user", "assistant"}
     /\ m.conversation = r.conversation /\ m.context = r.context
     /\ r.pc \notin NoQuestionYet
     /\ m.role = "user" => m.at = r.began
     /\ m.role = "assistant" => /\ r.pc \in {"closing", "answered", "lost"} /\ m.at > r.began
                                /\ QuestionOf(m.chat) # {}

AuditInv(a) ==
  /\ a.chat \in Chat
  /\ \/ chat[a.chat].pc = "answered" /\ a.success = TRUE
     \/ chat[a.chat].pc = "bad gateway" /\ a.success = FALSE
     \/ chat[a.chat].prompt = NoJob /\ chat[a.chat].pc \in {"suggested", "bad gateway"}

IsRows(s) == Len(s) \in Nat /\ DOMAIN s = 1 .. Len(s) /\ s = [i \in 1 .. Len(s) |-> s[i]]

BaseInv ==
  /\ tick \in Nat /\ loop \in Chat \cup {NoJob}
  /\ IsRows(messages) /\ DOMAIN chat = Chat
  /\ \A c \in Chat : ChatInv(c)
  /\ \A i \in DOMAIN messages : MessageInv(i)
  /\ \A a \in audit : AuditInv(a)

(* What was learned comes from the chats that have learned.                 *)
LearnedFrom(k) ==
  {c \in Chat : /\ QuestionOf(c) # {} /\ chat[c].pc \notin {"thinking", "learning"}
                /\ k \in chat[c].prompt.learns}
MemoryInv ==
  /\ memory = [k \in UNION {p.learns : p \in Prompts} |-> memory[k]]
  /\ \A k \in DOMAIN memory : memory[k] \in Nat /\ memory[k] <= Cardinality(LearnedFrom(k))


(* A conversation v in which no job but j was named: its chats are about j  *)
(* or about none, those about none came before the first answer about j,    *)
(* and a chat that began when a message about j was there, not overtaken by *)
(* too many about none, is about j.                                         *)
NamedIn(v) == {chat[e].chose : e \in {e \in Chat : chat[e].conversation = v}} \ {NoJob}
AnswersIn(v, j) == {k \in DOMAIN messages : /\ messages[k].conversation = v /\ messages[k].context = j
                                          /\ messages[k].role = "assistant"}
OnlyJob(v, j) ==
  /\ \A c \in Chat : chat[c].conversation = v => chat[c].context \in {NoJob, j}
  /\ \A i \in DOMAIN messages : messages[i].conversation = v /\ messages[i].context = NoJob =>
       \A k \in AnswersIn(v, j) : messages[i].at < messages[k].at
  /\ \A c \in Chat : loop = c /\ chat[c].conversation = v /\ chat[c].context = NoJob => AnswersIn(v, j) = {}
  /\ \A c \in Chat : chat[c].chose = NoJob /\ chat[c].conversation = v =>
       \A i \in 1 .. chat[c].seen :
         /\ messages[i].conversation = v /\ messages[i].context = j
         /\ Cardinality(Overtaking(i, c)) < RecentMessages
         => chat[c].context = j

StayInv ==
  /\ \A c \in Chat : /\ chat[c].chose \in Context \cup {NoJob}
                     /\ chat[c].seen \in 0 .. Len(messages)
                     /\ chat[c].chose # NoJob => chat[c].context = chat[c].chose
                     /\ chat[c].pc = "awaiting" => chat[c].context # NoJob
  /\ \A v : \A j \in Context : NamedIn(v) \subseteq {j} => OnlyJob(v, j)

(* What an answer about a job has, in the chat that makes it and when it is *)
(* stored.                                                                  *)
Specific(r) ==
  r.context # NoJob =>
    /\ "job" \in ToSet(r.sources)
    /\ r.context.mode = "job_fit" => ~NeedsFallback(r.answer, r.context.job)
SpecificInv ==
  /\ \A c \in Chat : /\ chat[c].context \in Context \cup {NoJob}
                     /\ chat[c].pc \in {"learning", "answering"} => Specific(chat[c])
  /\ \A i \in DOMAIN messages : messages[i].role = "assistant" => Specific(messages[i])
NoPhrase == \A x \in Context : Analysis(x.job).says \cap Generic = {}

---------------------------------------------------------------------------
LEMMA LessIsAtMost == \A n, t \in Nat : t <= t /\ (n < t => n <= t)
  OBVIOUS

LEMMA AppendedRow ==
  ASSUME NEW s, IsRows(s), NEW m
  PROVE  /\ IsRows(Append(s, m)) /\ Len(Append(s, m)) = Len(s) + 1
         /\ Append(s, m)[Len(s) + 1] = m
         /\ \A i \in DOMAIN s : i \in DOMAIN Append(s, m) /\ i # Len(s) + 1 /\ Append(s, m)[i] = s[i]
         /\ DOMAIN Append(s, m) = DOMAIN s \cup {Len(s) + 1}
<1> PICK S : S = {s[i] : i \in 1 .. Len(s)} \cup {m}
  OBVIOUS
<1>1. s \in Seq(S) /\ m \in S
  <2>1. s \in [1 .. Len(s) -> S] /\ Len(s) \in Nat
    BY DEF IsRows
  <2> QED
    BY <2>1
<1>2. /\ Append(s, m) \in Seq(S) /\ Len(Append(s, m)) = Len(s) + 1
      /\ \A i \in 1 .. Len(s) : Append(s, m)[i] = s[i]
      /\ Append(s, m)[Len(s) + 1] = m
  BY <1>1, AppendProperties
<1>3. DOMAIN Append(s, m) = 1 .. (Len(s) + 1) /\ IsRows(Append(s, m))
  <2>1. PICK t : t = Append(s, m)
    OBVIOUS
  <2>2. t \in Seq(S) /\ Len(t) = Len(s) + 1 /\ Len(s) \in Nat
    BY <2>1, <1>2 DEF IsRows
  <2>3. Len(t) \in Nat /\ t \in [1 .. Len(t) -> S]
    BY <2>2
  <2> QED
    BY <2>1, <2>2, <2>3 DEF IsRows
<1> QED
  BY <1>2, <1>3 DEF IsRows

LEMMA ChatMoves ==
  ASSUME DOMAIN chat = Chat, NEW c \in Chat, NEW r, ChatGoes(c, r)
  PROVE  /\ DOMAIN chat' = Chat /\ chat'[c] = r
         /\ \A b \in Chat : b # c => chat'[b] = chat[b]
  BY DEF ChatGoes

LEMMA SameMessages ==
  ASSUME messages' = messages
  PROVE  \A c : QuestionOf(c)' = QuestionOf(c) /\ AnswerOf(c)' = AnswerOf(c)
  BY DEF QuestionOf, AnswerOf

(* A chat that goes on without a new message.                               *)
LEMMA GoesOn ==
  ASSUME BaseInv, NEW c \in Chat, NEW r, ChatGoes(c, r), messages' = messages,
         tick' \in Nat, tick <= tick', loop' \in Chat \cup {NoJob},
         \A b \in Chat : b # c => (loop' = b <=> loop = b),
         IsChat(r), r.began <= tick', r.pc \in Running => r.began < tick',
         r.pc \in {"idle", "suggested"} => r.prompt = NoJob,
         r.pc = "idle" => r.chose = NoJob /\ r.context = NoJob,
         r.pc \in Inside <=> loop' = c,
         r.pc \in Inside \cup {"answered"} => r.pc = "asking" \/ QuestionOf(c) # {},
         r.pc \in {"closing", "answered"} => AnswerOf(c) # {},
         chat[c].pc \notin NoQuestionYet =>
           /\ r.pc \notin NoQuestionYet
           /\ r.conversation = chat[c].conversation /\ r.context = chat[c].context
           /\ r.began = chat[c].began,
         chat[c].pc \in {"closing", "answered", "lost"} => r.pc \in {"closing", "answered", "lost"},
         \A a \in audit' : AuditInv(a)'
  PROVE  BaseInv'
<1>1. /\ DOMAIN chat' = Chat /\ chat'[c] = r
      /\ \A b \in Chat : b # c => chat'[b] = chat[b]
  BY ChatMoves DEF BaseInv
<1>2. \A b : QuestionOf(b)' = QuestionOf(b) /\ AnswerOf(b)' = AnswerOf(b)
  BY SameMessages
<1>3. ASSUME NEW b \in Chat PROVE ChatInv(b)'
  <2>1. CASE b = c
    BY <2>1, <1>1, <1>2 DEF ChatInv
  <2>2. CASE b # c
    <3>1. ChatInv(b) /\ chat'[b] = chat[b] /\ (loop' = b <=> loop = b)
      BY <2>2, <1>1 DEF BaseInv
    <3>2. chat[b].began <= tick' /\ (chat[b].pc \in Running => chat[b].began < tick')
      BY <3>1 DEF BaseInv, ChatInv, IsChat
    <3> QED
      BY <3>1, <3>2, <1>2 DEF ChatInv
  <2> QED
    BY <2>1, <2>2
<1>4. ASSUME NEW i \in DOMAIN messages PROVE MessageInv(i)'
  <2>1. PICK m : m = messages[i]
    OBVIOUS
  <2>2. MessageInv(i) /\ m.chat \in Chat /\ m.at < tick'
    BY <2>1 DEF BaseInv, MessageInv
  <2>3. CASE m.chat = c
    BY <2>1, <2>2, <2>3, <1>1, <1>2 DEF MessageInv
  <2>4. CASE m.chat # c
    BY <2>1, <2>2, <2>4, <1>1, <1>2 DEF MessageInv
  <2> QED
    BY <2>3, <2>4
<1> QED
  BY <1>1, <1>3, <1>4 DEF BaseInv, IsRows

(* Records about others stay true.                                          *)
LEMMA AuditKept ==
  ASSUME BaseInv, NEW c \in Chat, NEW r, ChatGoes(c, r),
         chat[c].pc \notin {"answered", "bad gateway", "suggested"}
  PROVE  \A a \in audit : AuditInv(a)'
<1>1. \A b \in Chat : b # c => chat'[b] = chat[b]
  BY ChatMoves DEF BaseInv
<1>2. ASSUME NEW a \in audit PROVE AuditInv(a)'
  <2>1. AuditInv(a) /\ a.chat # c
    BY DEF BaseInv, AuditInv
  <2> QED
    BY <2>1, <1>1 DEF AuditInv
<1> QED
  BY <1>2

(* A chat stores a message.                                                 *)
LEMMA Stores ==
  ASSUME BaseInv, NEW c \in Chat, NEW m, NEW pc, messages' = Append(messages, m),
         loop = c, chat[c].pc \in {"asking", "answering"}, loop' = loop, audit' = audit,
         tick' \in Nat, tick <= tick', m.at \in Nat, m.at < tick',
         ChatGoes(c, [chat[c] EXCEPT !.pc = pc]),
         m.chat = c, m.conversation = chat[c].conversation, m.context = chat[c].context,
         \/ pc = "thinking" /\ m.role = "user" /\ m.at = chat[c].began
         \/ pc = "closing" /\ m.role = "assistant" /\ m.at > chat[c].began /\ chat[c].pc = "answering"
  PROVE  BaseInv'
<1> PICK r : r = [chat[c] EXCEPT !.pc = pc]
  OBVIOUS
<1> PICK n : n = Len(messages) + 1
  OBVIOUS
<1>1. /\ DOMAIN chat' = Chat /\ chat'[c] = r
      /\ \A b \in Chat : b # c => chat'[b] = chat[b]
  BY ChatMoves DEF BaseInv
<1>2. /\ IsChat(r) /\ r.pc = pc /\ r.began = chat[c].began /\ r.conversation = chat[c].conversation
      /\ r.context = chat[c].context
      /\ r.began < tick /\ pc \in {"thinking", "closing"}
  <2>1. ChatInv(c) /\ chat[c].pc \in Running
    BY DEF BaseInv, Running
  <2>2. pc \in Places /\ pc \in {"thinking", "closing"}
    BY DEF Places, Running
  <2> QED
    BY <2>1, <2>2 DEF ChatInv, IsChat
<1>3. /\ IsRows(messages') /\ messages'[n] = m /\ DOMAIN messages' = DOMAIN messages \cup {n}
      /\ \A i \in DOMAIN messages : i \in DOMAIN messages' /\ i # n /\ messages'[i] = messages[i]
  BY AppendedRow DEF BaseInv
<1>4. \A b : QuestionOf(b) \subseteq QuestionOf(b)' /\ AnswerOf(b) \subseteq AnswerOf(b)'
  BY <1>3 DEF QuestionOf, AnswerOf
<1>5. /\ pc = "thinking" => n \in QuestionOf(c)'
      /\ pc = "closing" => n \in AnswerOf(c)' /\ QuestionOf(c) # {}
  BY <1>3 DEF QuestionOf, AnswerOf, BaseInv, ChatInv, Inside
<1>6. ASSUME NEW b \in Chat PROVE ChatInv(b)'
  <2>1. CASE b = c
    <3>1. pc \in Inside /\ pc \in Running /\ loop' = c
      BY <1>2 DEF Inside, Running
    <3>2. QuestionOf(c)' # {} /\ (pc = "closing" => AnswerOf(c)' # {})
      BY <1>2, <1>4, <1>5
    <3>3. r.began <= tick' /\ r.began < tick'
      BY <1>2 DEF BaseInv, IsChat
    <3> QED
      BY <2>1, <3>1, <3>2, <3>3, <1>1, <1>2 DEF ChatInv
  <2>2. CASE b # c
    <3>1. ChatInv(b) /\ chat'[b] = chat[b]
      BY <2>2, <1>1 DEF BaseInv
    <3>2. chat[b].began <= tick' /\ (chat[b].pc \in Running => chat[b].began < tick')
      BY <3>1 DEF BaseInv, ChatInv, IsChat
    <3>3. QuestionOf(b) # {} => QuestionOf(b)' # {}
      BY <1>4
    <3>4. AnswerOf(b) # {} => AnswerOf(b)' # {}
      BY <1>4
    <3> QED
      BY <3>1, <3>2, <3>3, <3>4 DEF ChatInv
  <2> QED
    BY <2>1, <2>2
<1>7. ASSUME NEW i \in DOMAIN messages PROVE MessageInv(i)'
  <2>1. PICK x : x = messages[i] /\ x = messages'[i]
    BY <1>3
  <2>2. MessageInv(i) /\ x.chat \in Chat /\ x.at < tick'
    <3>1. MessageInv(i) /\ tick \in Nat
      BY DEF BaseInv
    <3>2. x.chat \in Chat /\ x.at \in Nat /\ x.at < tick
      BY <2>1, <3>1 DEF MessageInv
    <3> QED
      BY <3>1, <3>2
  <2>3. QuestionOf(x.chat) # {} => QuestionOf(x.chat)' # {}
    BY <1>4
  <2>4. CASE x.chat = c
    <3>1. x.role # "assistant"
      BY <2>1, <2>2, <2>4 DEF MessageInv
    <3>2. r.pc \notin NoQuestionYet
      BY <1>2 DEF NoQuestionYet
    <3> QED
      BY <2>1, <2>2, <2>4, <3>1, <3>2, <1>1, <1>2 DEF MessageInv
  <2>5. CASE x.chat # c
    BY <2>1, <2>2, <2>3, <2>5, <1>1 DEF MessageInv
  <2> QED
    BY <2>4, <2>5
<1>8. MessageInv(n)'
  <2>1. pc \notin NoQuestionYet
    BY <1>2 DEF NoQuestionYet
  <2>2. m.role = "assistant" => QuestionOf(c)' # {}
    BY <1>4, <1>5
  <2>3. /\ m.role \in {"user", "assistant"} /\ messages'[n] = m /\ chat'[m.chat] = r
        /\ m.role = "user" => m.at = r.began
        /\ m.role = "assistant" => pc = "closing" /\ m.at > r.began
    BY <1>1, <1>2, <1>3
  <2> QED
    BY <2>1, <2>2, <2>3, <1>2 DEF MessageInv
<1>9. \A a \in audit : AuditInv(a)'
  BY AuditKept
<1> QED
  BY <1>1, <1>3, <1>6, <1>7, <1>8, <1>9 DEF BaseInv


(* What a chat is when it has begun.                                        *)
LEMMA Begun ==
  ASSUME BaseInv, NEW c \in Chat, NEW v \in 0 .. conversations,
         NEW chose, NEW p, BeginChat(c, v, chose, p)
  PROVE  LET r == chat'[c]
             here == IF v \in 1 .. conversations THEN v ELSE conversations + 1
         IN /\ IsChat(r) /\ ChatGoes(c, r)
            /\ r.conversation = here /\ r.began = tick /\ r.seen = Len(messages) /\ r.chose = chose /\ r.prompt = p
            /\ r.context = IF chose # NoJob THEN chose ELSE Recovered(here)
            /\ \/ r.context = NoJob /\ r.pc = "asking" /\ loop' = c
               \/ r.context # NoJob /\ r.pc \in {"refused", "awaiting"} /\ loop' = NoJob
<1> PICK here : here = IF v \in 1 .. conversations THEN v ELSE conversations + 1
  OBVIOUS
<1> PICK context : context = IF chose # NoJob THEN chose ELSE Recovered(here)
  OBVIOUS
<1>q. PICK q : q = [Resting EXCEPT !.conversation = here, !.began = tick, !.seen = Len(messages), !.chose = chose,
                                    !.context = context, !.prompt = p]
  OBVIOUS
<1>1. /\ IsChat(q) /\ q.conversation = here /\ q.began = tick /\ q.seen = Len(messages) /\ q.chose = chose /\ q.prompt = p
      /\ q.context = context
  <2>1. tick \in Nat
    BY DEF BaseInv
  <2>2. q = [pc |-> "idle", conversation |-> here, began |-> tick, seen |-> Len(messages), chose |-> chose,
             context |-> context, kind |-> "gone", prompt |-> p, sources |-> <<>>, answer |-> Failed]
    BY <1>q DEF Resting
  <2> QED
    BY <2>1, <2>2 DEF IsChat, Places, NoQuestionYet
<1>2. CASE context = NoJob
  <2>1. ChatGoes(c, [q EXCEPT !.pc = "asking"]) /\ loop' = c
    BY <1>q, <1>2 DEF BeginChat
  <2>2. PICK r : r = [q EXCEPT !.pc = "asking"]
    OBVIOUS
  <2>3. chat'[c] = r /\ ChatGoes(c, r)
    BY <2>1, <2>2, ChatMoves DEF BaseInv
  <2>4. /\ IsChat(r) /\ r.conversation = here /\ r.began = tick /\ r.seen = Len(messages) /\ r.chose = chose
        /\ r.prompt = p /\ r.context = context /\ r.pc = "asking"
    BY <1>1, <2>2 DEF IsChat, Places, NoQuestionYet
  <2> QED
    BY <2>1, <2>3, <2>4, <1>2
<1>3. CASE context # NoJob
  <2>1. PICK kind, pc : kind = jobs[context.job] /\ pc = IF kind = "gone" THEN "refused" ELSE "awaiting"
    OBVIOUS
  <2>2. ChatGoes(c, [q EXCEPT !.kind = kind, !.pc = pc]) /\ loop' = NoJob
    BY <1>q, <2>1, <1>3 DEF BeginChat
  <2>3. PICK r : r = [q EXCEPT !.kind = kind, !.pc = pc]
    OBVIOUS
  <2>4. chat'[c] = r /\ ChatGoes(c, r)
    BY <2>2, <2>3, ChatMoves DEF BaseInv
  <2>5. pc \in {"refused", "awaiting"} /\ pc \in Places
    BY <2>1 DEF Places, NoQuestionYet
  <2>6. /\ IsChat(r) /\ r.conversation = here /\ r.began = tick /\ r.seen = Len(messages) /\ r.chose = chose
        /\ r.prompt = p /\ r.context = context /\ r.pc = pc
    BY <1>1, <2>3, <2>5 DEF IsChat
  <2> QED
    BY <2>2, <2>4, <2>5, <2>6, <1>3
<1> QED
  BY <1>2, <1>3

LEMMA BeginKeeps ==
  ASSUME BaseInv, NEW c \in Chat, NEW v \in 0 .. conversations,
         NEW chose, NEW p, BeginChat(c, v, chose, p)
  PROVE  BaseInv'
<1> PICK r : r = chat'[c]
  OBVIOUS
<1>1. chat[c].pc = "idle" /\ loop = NoJob /\ tick \in Nat
  BY DEF BeginChat, Arrives, BaseInv
<1>2. /\ IsChat(r) /\ r.began = tick /\ ChatGoes(c, r)
      /\ \/ r.pc = "asking" /\ loop' = c
         \/ r.pc \in {"refused", "awaiting"} /\ loop' = NoJob
  BY Begun
<1>3. r.pc \in {"asking", "refused", "awaiting"} /\ (r.pc = "asking" <=> loop' = c)
  BY <1>2, CopilotAssumption DEF Chat
<1>4. /\ tick' = tick + 1 /\ messages' = messages /\ audit' = audit
      /\ loop' \in Chat \cup {NoJob} /\ \A b \in Chat : b # c => (loop' = b <=> loop = b)
  BY <1>1, <1>2, CopilotAssumption DEF BeginChat, stored, Chat
<1>5. \A a \in audit' : AuditInv(a)'
  BY <1>1, <1>2, <1>4, AuditKept
<1>6. /\ r.began <= tick' /\ r.began < tick' /\ tick' \in Nat /\ tick <= tick'
      /\ r.pc \in Inside <=> loop' = c
      /\ r.pc \notin {"idle", "suggested", "closing", "answered"}
      /\ r.pc \in Inside => r.pc = "asking"
  BY <1>1, <1>2, <1>3, <1>4 DEF Inside
<1>7. chat[c].pc \in NoQuestionYet /\ chat[c].pc \notin {"closing", "answered", "lost"}
  BY <1>1 DEF NoQuestionYet
<1> QED
  BY <1>2, <1>4, <1>5, <1>6, <1>7, GoesOn

(* A chat that goes on with its own conversation, job, time and prompt.     *)
LEMMA Continues ==
  ASSUME BaseInv, NEW c \in Chat, NEW r, ChatGoes(c, r), messages' = messages, tick' = tick,
         chat[c].pc \in Running, r.pc \in Running \cup {"answered", "refused", "bad gateway", "lost"},
         IsChat(r), r.conversation = chat[c].conversation, r.context = chat[c].context,
         r.began = chat[c].began,
         \/ loop' = c /\ loop \in {c, NoJob} /\ r.pc \in Inside
         \/ loop' = NoJob /\ loop \in {c, NoJob} /\ r.pc \notin Inside,
         r.pc = "asking" \/ r.pc \in NoQuestionYet \/ QuestionOf(c) # {},
         r.pc \in {"closing", "answered"} => AnswerOf(c) # {},
         r.pc \in NoQuestionYet => chat[c].pc = "awaiting",
         chat[c].pc = "closing" => r.pc = "answered",
         \A a \in audit' : AuditInv(a)'
  PROVE  BaseInv'
<1>1. /\ ChatInv(c) /\ tick \in Nat /\ chat[c].began < tick /\ chat[c].began \in Nat
      /\ loop' \in Chat \cup {NoJob} /\ \A b \in Chat : b # c => (loop' = b <=> loop = b)
  <2>1. ChatInv(c) /\ tick \in Nat
    BY DEF BaseInv
  <2>2. loop' \in Chat \cup {NoJob} /\ \A b \in Chat : b # c => (loop' = b <=> loop = b)
    BY CopilotAssumption DEF Chat
  <2> QED
    BY <2>1, <2>2 DEF ChatInv, IsChat
<1>2. r.pc \in Inside <=> loop' = c
  BY CopilotAssumption DEF Chat
<1>3. /\ r.pc \notin {"idle", "suggested"} /\ chat[c].pc \notin {"answered", "lost"}
      /\ r.pc \in Inside \cup {"answered"} => r.pc = "asking" \/ QuestionOf(c) # {}
      /\ chat[c].pc = "closing" => r.pc \in {"closing", "answered", "lost"}
  BY DEF Running, NoQuestionYet, Inside
<1>4. chat[c].pc \notin NoQuestionYet => r.pc \notin NoQuestionYet
  BY DEF NoQuestionYet
<1>5. r.began <= tick' /\ r.began < tick' /\ tick <= tick' /\ tick' \in Nat
  <2>1. PICK n, t : n = r.began /\ t = tick /\ n = chat[c].began /\ t = tick'
    OBVIOUS
  <2>2. n \in Nat /\ t \in Nat /\ n < t
    BY <2>1, <1>1
  <2>3. n <= t /\ t <= t
    BY <2>2, LessIsAtMost, Zenon
  <2> QED
    BY <2>1, <2>2, <2>3, Zenon
<1>6. chat[c].pc \in {"closing", "answered", "lost"} => r.pc \in {"closing", "answered", "lost"}
  BY <1>3
<1> QED
  BY <1>1, <1>2, <1>3, <1>4, <1>5, <1>6, GoesOn

LEMMA PageReadKeeps ==
  ASSUME BaseInv, NEW c \in Chat, PageRead(c)
  PROVE  BaseInv'
<1> PICK r : r = chat'[c]
  OBVIOUS
<1>1. /\ chat[c].pc = "awaiting" /\ loop = NoJob /\ messages' = messages /\ tick' = tick
      /\ audit' = audit /\ IsChat(chat[c])
  BY DEF PageRead, stored, BaseInv, ChatInv
<1>2. PICK pc : /\ ChatGoes(c, [chat[c] EXCEPT !.pc = pc, !.kind = "gone"])
                /\ \/ pc = "asking" /\ loop' = c
                   \/ pc = "refused" /\ loop' = NoJob
  BY <1>1 DEF PageRead
<1>3. r = [chat[c] EXCEPT !.pc = pc, !.kind = "gone"]
  BY <1>2, ChatMoves DEF BaseInv
<1>4. pc \in Places
  BY <1>2 DEF Places, NoQuestionYet
<1>5. /\ IsChat(r) /\ r.pc = pc /\ r.conversation = chat[c].conversation
      /\ r.context = chat[c].context /\ r.began = chat[c].began
  BY <1>1, <1>3, <1>4 DEF IsChat
<1>6. \A a \in audit' : AuditInv(a)'
  BY <1>1, <1>2, AuditKept
<1>7. /\ chat[c].pc \in Running /\ r.pc \in Running \cup {"answered", "refused", "bad gateway", "lost"}
      /\ r.pc = "asking" \/ r.pc \in NoQuestionYet
      /\ r.pc \notin {"closing", "answered"} /\ chat[c].pc # "closing"
      /\ \/ loop' = c /\ loop \in {c, NoJob} /\ r.pc \in Inside
         \/ loop' = NoJob /\ loop \in {c, NoJob} /\ r.pc \notin Inside
  BY <1>1, <1>2, <1>5 DEF Running, Inside, NoQuestionYet
<1>8. ChatGoes(c, r)
  BY <1>2, <1>3
<1> QED
  BY <1>1, <1>5, <1>6, <1>7, <1>8, Continues

LEMMA QuestionKeeps ==
  ASSUME BaseInv, NEW c \in Chat, SaveQuestion(c)
  PROVE  BaseInv'
<1>1. ChatInv(c) /\ chat[c].pc = "asking" /\ loop = c /\ tick \in Nat
  BY DEF SaveQuestion, BaseInv
<1>2. PICK m : m = Message(c, "user", chat[c].began, NoJob)
  OBVIOUS
<1>3. /\ m.chat = c /\ m.conversation = chat[c].conversation /\ m.context = chat[c].context
      /\ m.role = "user" /\ m.at = chat[c].began
  BY <1>2 DEF Message
<1>4. m.at \in Nat /\ m.at < tick
  BY <1>1, <1>3 DEF ChatInv, IsChat, Running
<1>5. PICK pc : pc = "thinking"
  OBVIOUS
<1>6. /\ messages' = Append(messages, m) /\ loop' = loop /\ audit' = audit /\ tick' = tick
      /\ tick <= tick
      /\ ChatGoes(c, [chat[c] EXCEPT !.pc = pc])
  BY <1>1, <1>2, <1>5 DEF SaveQuestion
<1> QED
  BY <1>1, <1>3, <1>4, <1>5, <1>6, Stores

LEMMA AnswerKeeps ==
  ASSUME BaseInv, NEW c \in Chat, SaveAnswer(c)
  PROVE  BaseInv'
<1>1. ChatInv(c) /\ chat[c].pc = "answering" /\ loop = c /\ tick \in Nat
  BY DEF SaveAnswer, BaseInv
<1>2. PICK m : m = Message(c, "assistant", tick, chat[c].answer)
  OBVIOUS
<1>3. /\ m.chat = c /\ m.conversation = chat[c].conversation /\ m.context = chat[c].context
      /\ m.role = "assistant" /\ m.at = tick
  BY <1>2 DEF Message
<1>4. m.at \in Nat /\ m.at < tick + 1 /\ m.at > chat[c].began /\ tick + 1 \in Nat /\ tick <= tick + 1
  BY <1>1, <1>3 DEF ChatInv, IsChat, Running
<1> QED
  BY <1>1, <1>2, <1>3, <1>4, Stores DEF SaveAnswer


(* What is left of a chat that has ended.                                   *)
LEMMA EndedChat ==
  ASSUME NEW c \in Chat, ChatInv(c), NEW pc \in Places
  PROVE  LET r == Ended(chat[c], pc) IN
         /\ IsChat(r) /\ r.pc = pc /\ r.conversation = chat[c].conversation
         /\ r.context = chat[c].context /\ r.began = chat[c].began /\ r.prompt = chat[c].prompt
         /\ r.chose = chat[c].chose /\ r.seen = chat[c].seen
<1>1. PICK q, r : q = chat[c] /\ r = Ended(q, pc)
  OBVIOUS
<1>2. IsChat(q)
  BY <1>1 DEF ChatInv
<1>3. r = [pc |-> pc, conversation |-> q.conversation, began |-> q.began, seen |-> q.seen, chose |-> q.chose,
           context |-> q.context, kind |-> "gone", prompt |-> q.prompt,
           sources |-> <<>>, answer |-> Failed]
  BY <1>1, <1>2 DEF IsChat, Ended
<1>4. /\ IsChat(r) /\ r.pc = pc /\ r.conversation = q.conversation
      /\ r.context = q.context /\ r.began = q.began /\ r.prompt = q.prompt /\ r.chose = q.chose /\ r.seen = q.seen
  BY <1>2, <1>3 DEF IsChat
<1> QED
  BY <1>1, <1>4

LEMMA Gives ==
  ASSUME BaseInv, NEW c \in Chat, NEW pc, NEW success, Give(c, pc), Audit(c, success),
         messages' = messages, tick' = tick, loop = c,
         \/ /\ chat[c].pc \in {"thinking", "learning"} /\ pc = "bad gateway" /\ success = FALSE
         \/ /\ chat[c].pc = "closing" /\ pc = "answered" /\ success = TRUE
  PROVE  BaseInv'
<1>1. PICK r : r = Ended(chat[c], pc)
  OBVIOUS
<1>2. ChatInv(c) /\ pc \in Places
  BY DEF BaseInv, Places
<1>3. /\ IsChat(r) /\ r.pc = pc /\ r.conversation = chat[c].conversation
      /\ r.context = chat[c].context /\ r.began = chat[c].began
  BY <1>1, <1>2, EndedChat
<1>4. ChatGoes(c, r) /\ loop' = NoJob /\ chat'[c] = r
  BY <1>1, ChatMoves DEF Give, BaseInv
<1>5. \A a \in audit' : AuditInv(a)'
  <2>1. \A a \in audit : AuditInv(a)'
    BY <1>4, AuditKept
  <2>2. PICK a : a = [chat |-> c, success |-> success]
    OBVIOUS
  <2>3. AuditInv(a)'
    BY <2>2, <1>3, <1>4 DEF AuditInv
  <2> QED
    BY <2>1, <2>2, <2>3 DEF Audit
<1>6. /\ QuestionOf(c) # {} /\ (pc = "answered" => AnswerOf(c) # {})
      /\ chat[c].pc \in Running /\ chat[c].pc \in Inside
  <2>1. chat[c].pc \in Running /\ chat[c].pc \in Inside /\ chat[c].pc # "asking"
    BY DEF Running, Inside
  <2> QED
    BY <2>1, <1>2 DEF ChatInv
<1>7. /\ pc \in {"answered", "bad gateway"} /\ pc \notin Inside /\ pc \notin NoQuestionYet
      /\ pc # "closing" /\ (chat[c].pc = "closing" => pc = "answered")
  BY DEF Inside, NoQuestionYet
<1>8. /\ r.pc \in Running \cup {"answered", "refused", "bad gateway", "lost"}
      /\ r.pc \notin Inside /\ r.pc \notin NoQuestionYet
      /\ r.pc \in {"closing", "answered"} => AnswerOf(c) # {}
      /\ chat[c].pc = "closing" => r.pc = "answered"
      /\ loop' = NoJob /\ loop \in {c, NoJob}
  BY <1>3, <1>4, <1>6, <1>7
<1> QED
  BY <1>3, <1>4, <1>5, <1>6, <1>8, Continues

(* A chat goes from one step inside the loop to the next.                   *)
LEMMA StepsOn ==
  ASSUME BaseInv, NEW c \in Chat, NEW r, ChatGoes(c, r), loop = c, loop' = c, audit' = audit,
         messages' = messages, tick' = tick, IsChat(r),
         r.conversation = chat[c].conversation, r.context = chat[c].context, r.began = chat[c].began,
         \/ chat[c].pc = "thinking" /\ r.pc = "learning"
         \/ chat[c].pc = "learning" /\ r.pc = "answering"
  PROVE  BaseInv'
<1>1. ChatInv(c) /\ chat[c].pc \in Inside /\ chat[c].pc # "asking"
  BY DEF BaseInv, Inside
<1>2. QuestionOf(c) # {}
  BY <1>1 DEF ChatInv
<1>3. \A a \in audit' : AuditInv(a)'
  BY AuditKept
<1>4. /\ chat[c].pc \in Running /\ r.pc \in Inside /\ r.pc \in Running
      /\ r.pc \notin {"closing", "answered"} /\ chat[c].pc # "closing" /\ r.pc \notin NoQuestionYet
      /\ loop \in {c, NoJob}
  BY DEF Running, Inside, NoQuestionYet
<1> QED
  BY <1>2, <1>3, <1>4, Continues

LEMMA ThinkKeeps ==
  ASSUME BaseInv, NEW c \in Chat, NEW reply, Think(c, reply)
  PROVE  BaseInv'
<1>1. /\ loop = c /\ chat[c].pc = "thinking" /\ messages' = messages /\ tick' = tick /\ ChatInv(c)
  BY DEF Think, BaseInv
<1>2. PICK answer : answer = AnswerTo(reply, chat[c].context)
  OBVIOUS
<1>3. CASE answer = Failed
  <2>1. PICK pc, success : pc = "bad gateway" /\ success = FALSE
    OBVIOUS
  <2>2. Give(c, pc) /\ Audit(c, success)
    BY <1>2, <1>3, <2>1 DEF Think
  <2> QED
    BY <1>1, <2>1, <2>2, Gives
<1>4. CASE answer # Failed
  <2>1. PICK s : s = SourcesOf(chat[c].prompt, chat[c].context)
    OBVIOUS
  <2>2. PICK r : r = [chat[c] EXCEPT !.pc = "learning", !.answer = answer, !.sources = s]
    OBVIOUS
  <2>3. ChatGoes(c, r) /\ audit' = audit /\ loop' = c
    BY <1>1, <1>2, <1>4, <2>1, <2>2 DEF Think
  <2>4. /\ IsChat(r) /\ r.pc = "learning" /\ r.conversation = chat[c].conversation
        /\ r.context = chat[c].context /\ r.began = chat[c].began
    BY <1>1, <2>2 DEF ChatInv, IsChat, Places, Running
  <2> QED
    BY <1>1, <2>3, <2>4, StepsOn
<1> QED
  BY <1>3, <1>4

LEMMA LearnKeeps ==
  ASSUME BaseInv, NEW c \in Chat, Learn(c)
  PROVE  BaseInv'
<1>1. /\ loop = c /\ chat[c].pc = "learning" /\ messages' = messages /\ tick' = tick /\ ChatInv(c)
  BY DEF Learn, BaseInv
<1>2. CASE ~Usable(chat[c].answer)
  <2>1. PICK pc, success : pc = "bad gateway" /\ success = FALSE
    OBVIOUS
  <2>2. Give(c, pc) /\ Audit(c, success)
    BY <1>2, <2>1 DEF Learn
  <2> QED
    BY <1>1, <2>1, <2>2, Gives
<1>3. CASE Usable(chat[c].answer)
  <2>1. PICK r : r = [chat[c] EXCEPT !.pc = "answering"]
    OBVIOUS
  <2>2. ChatGoes(c, r) /\ audit' = audit /\ loop' = c
    BY <1>1, <1>3, <2>1 DEF Learn
  <2>3. /\ IsChat(r) /\ r.pc = "answering" /\ r.conversation = chat[c].conversation
        /\ r.context = chat[c].context /\ r.began = chat[c].began
    BY <1>1, <2>1 DEF ChatInv, IsChat, Places, Running
  <2> QED
    BY <1>1, <2>2, <2>3, StepsOn
<1> QED
  BY <1>2, <1>3

LEMMA CloseKeeps ==
  ASSUME BaseInv, NEW c \in Chat, CloseChat(c)
  PROVE  BaseInv'
<1>1. PICK pc, success : pc = "answered" /\ success = TRUE
  OBVIOUS
<1>2. /\ loop = c /\ chat[c].pc = "closing" /\ messages' = messages /\ tick' = tick
      /\ Give(c, pc) /\ Audit(c, success)
  BY <1>1 DEF CloseChat
<1> QED
  BY <1>1, <1>2, Gives

LEMMA SuggestKeeps ==
  ASSUME BaseInv, NEW c \in Chat, NEW reply, Suggest(c, reply)
  PROVE  BaseInv'
<1>1. /\ loop = NoJob /\ chat[c].pc = "idle" /\ messages' = messages /\ tick' = tick /\ ChatInv(c)
      /\ tick \in Nat
  BY DEF Suggest, Arrives, BaseInv
<1>2. PICK pc, success : /\ pc = IF reply = Failed THEN "bad gateway" ELSE "suggested"
                         /\ success = (reply # Failed)
  OBVIOUS
<1>3. PICK r : r = Ended(chat[c], pc)
  OBVIOUS
<1>4. pc \in {"bad gateway", "suggested"} /\ pc \in Places
  BY <1>2 DEF Places, NoQuestionYet
<1>5. /\ IsChat(r) /\ r.pc = pc /\ r.conversation = chat[c].conversation
      /\ r.context = chat[c].context /\ r.began = chat[c].began /\ r.prompt = NoJob
  BY <1>1, <1>3, <1>4, EndedChat DEF ChatInv
<1>6. ChatGoes(c, r) /\ loop' = NoJob /\ chat'[c] = r /\ Audit(c, success)
  BY <1>1, <1>2, <1>3, ChatMoves DEF Give, BaseInv, Suggest
<1>7. \A a \in audit' : AuditInv(a)'
  <2>1. \A a \in audit : AuditInv(a)'
    BY <1>1, <1>6, AuditKept
  <2>2. PICK a : a = [chat |-> c, success |-> success]
    OBVIOUS
  <2>3. AuditInv(a)'
    BY <2>2, <1>4, <1>5, <1>6 DEF AuditInv
  <2> QED
    BY <2>1, <2>2, <2>3, <1>6 DEF Audit
<1>8. r.began <= tick /\ tick <= tick /\ loop' \in Chat \cup {NoJob} /\ loop' # c
  BY <1>1, <1>5, <1>6, CopilotAssumption DEF ChatInv, Chat
<1>9. /\ r.pc \notin Running /\ r.pc # "idle" /\ r.pc \notin Inside \cup {"closing", "answered"}
      /\ chat[c].pc \in NoQuestionYet /\ chat[c].pc \notin {"closing", "answered", "lost"}
  BY <1>1, <1>4, <1>5 DEF Running, Inside, NoQuestionYet
<1>10. \A b \in Chat : b # c => (loop' = b <=> loop = b)
  BY <1>1, <1>6
<1> QED
  BY <1>1, <1>5, <1>6, <1>7, <1>8, <1>9, <1>10, GoesOn

(* A stop ends every chat in flight and keeps what they have stored.        *)
LEMMA StopKeeps == ASSUME BaseInv, Stop PROVE BaseInv'
<1>1. /\ DOMAIN chat' = Chat /\ loop' = NoJob /\ UNCHANGED <<messages, audit, tick>>
      /\ \A c \in Chat : chat'[c] = IF chat[c].pc \in Running THEN Ended(chat[c], "lost") ELSE chat[c]
  BY DEF Stop, stored, BaseInv
<1>2. \A c : QuestionOf(c)' = QuestionOf(c) /\ AnswerOf(c)' = AnswerOf(c)
  BY <1>1, SameMessages
<1>3. ASSUME NEW c \in Chat
      PROVE  /\ IsChat(chat'[c]) /\ chat'[c].conversation = chat[c].conversation
             /\ chat'[c].context = chat[c].context /\ chat'[c].began = chat[c].began
             /\ chat'[c].prompt = chat[c].prompt /\ chat'[c].chose = chat[c].chose
             /\ chat'[c].pc = IF chat[c].pc \in Running THEN "lost" ELSE chat[c].pc
  <2>1. ChatInv(c) /\ "lost" \in Places
    BY DEF BaseInv, Places
  <2>2. CASE chat[c].pc \in Running
    BY <2>1, <2>2, <1>1, EndedChat
  <2>3. CASE chat[c].pc \notin Running
    BY <2>1, <2>3, <1>1 DEF ChatInv
  <2> QED
    BY <2>2, <2>3
<1>4. ASSUME NEW c \in Chat PROVE ChatInv(c)'
  <2>1. ChatInv(c) /\ chat'[c].pc \notin Running
    BY <1>3 DEF BaseInv, Running
  <2>2. chat'[c].pc \notin Inside /\ loop' # c
    BY <2>1, <1>1, CopilotAssumption DEF Inside, Running, Chat
  <2> QED
    BY <2>1, <2>2, <1>1, <1>2, <1>3 DEF ChatInv, Inside, Running
<1>5. ASSUME NEW i \in DOMAIN messages PROVE MessageInv(i)'
  <2>1. PICK m : m = messages[i] /\ m = messages'[i]
    BY <1>1
  <2>2. MessageInv(i) /\ m.chat \in Chat
    BY <2>1 DEF BaseInv, MessageInv
  <2>3. chat[m.chat].pc \notin NoQuestionYet => chat'[m.chat].pc \notin NoQuestionYet
    BY <2>2, <1>3 DEF NoQuestionYet
  <2>4. chat[m.chat].pc \in {"closing", "answered", "lost"}
          => chat'[m.chat].pc \in {"closing", "answered", "lost"}
    BY <2>2, <1>3
  <2> QED
    BY <2>1, <2>2, <2>3, <2>4, <1>1, <1>2, <1>3 DEF MessageInv
<1>6. ASSUME NEW a \in audit PROVE AuditInv(a)'
  BY <1>3 DEF BaseInv, AuditInv, Running
<1> QED
  BY <1>1, <1>4, <1>5, <1>6 DEF BaseInv

LEMMA SameBase ==
  ASSUME BaseInv, UNCHANGED <<messages, audit, chat, loop, tick>>
  PROVE  BaseInv'
<1>1. \A c : QuestionOf(c)' = QuestionOf(c) /\ AnswerOf(c)' = AnswerOf(c)
  BY SameMessages
<1>2. \A c \in Chat : ChatInv(c)'
  BY <1>1 DEF BaseInv, ChatInv
<1>3. \A i \in DOMAIN messages : MessageInv(i)'
  BY <1>1 DEF BaseInv, MessageInv
<1>4. \A a \in audit : AuditInv(a)'
  BY DEF BaseInv, AuditInv
<1> QED
  BY <1>2, <1>3, <1>4 DEF BaseInv

LEMMA BaseStep == BaseInv /\ [CopilotNext]_copilotVars => BaseInv'
<1> SUFFICES ASSUME BaseInv, [CopilotNext]_copilotVars PROVE BaseInv'
  OBVIOUS
<1>1. CASE UNCHANGED copilotVars
  BY <1>1, SameBase DEF copilotVars
<1>2. CASE CopilotNext
  <2>1. ASSUME NEW c \in Chat, NEW v \in 0 .. conversations,
               NEW chose \in Context \cup {NoJob}, NEW p \in Prompts, BeginChat(c, v, chose, p)
        PROVE  BaseInv'
    BY <2>1, BeginKeeps
  <2>2. ASSUME NEW c \in Chat,
               PageRead(c) \/ SaveQuestion(c) \/ Learn(c) \/ SaveAnswer(c) \/ CloseChat(c)
        PROVE  BaseInv'
    BY <2>2, PageReadKeeps, QuestionKeeps, LearnKeeps, AnswerKeeps, CloseKeeps
  <2>3. ASSUME NEW c \in Chat, NEW reply, Think(c, reply) \/ Suggest(c, reply) PROVE BaseInv'
    BY <2>3, ThinkKeeps, SuggestKeeps
  <2>4. CASE Stop
    BY <2>4, StopKeeps
  <2>5. ASSUME NEW j \in KnownJob, JobChanges(j) PROVE BaseInv'
    BY <2>5, SameBase DEF JobChanges, stored
  <2> QED
    BY <1>2, <2>1, <2>2, <2>3, <2>4, <2>5 DEF CopilotNext
<1> QED
  BY <1>1, <1>2

LEMMA BaseStart == CopilotInit => BaseInv
<1> SUFFICES ASSUME CopilotInit PROVE BaseInv
  OBVIOUS
<1>1. IsChat(Resting)
  BY DEF IsChat, Resting, Places, NoQuestionYet
<1>2. DOMAIN chat = Chat /\ tick = 0 /\ loop = NoJob /\ messages = <<>> /\ audit = {}
      /\ \A c \in Chat : chat[c] = Resting
  BY DEF CopilotInit
<1>3. Resting.pc = "idle" /\ Resting.began = 0 /\ Resting.prompt = NoJob
      /\ Resting.chose = NoJob /\ Resting.context = NoJob
  BY DEF Resting
<1>4. ASSUME NEW c \in Chat PROVE ChatInv(c)
  <2>1. loop # c
    BY <1>2, CopilotAssumption DEF Chat
  <2> QED
    BY <2>1, <1>1, <1>2, <1>3 DEF ChatInv, Running, Inside
<1> QED
  BY <1>2, <1>4 DEF BaseInv, IsRows


(* What a chat was asked never changes, nor what it is about.               *)
Fixed(c) ==
  chat[c].pc # "idle" =>
    /\ chat'[c].pc # "idle" /\ chat'[c].prompt = chat[c].prompt /\ chat'[c].chose = chat[c].chose
    /\ chat'[c].conversation = chat[c].conversation /\ chat'[c].context = chat[c].context
    /\ chat'[c].began = chat[c].began
    /\ chat'[c].pc \in {"thinking", "learning"} => chat[c].pc \in {"asking", "thinking", "learning"}

LEMMA FixedByMove ==
  ASSUME BaseInv, NEW c \in Chat, NEW r, ChatGoes(c, r),
         chat[c].pc = "idle" \/
           /\ r.pc # "idle" /\ r.prompt = chat[c].prompt /\ r.chose = chat[c].chose
           /\ r.conversation = chat[c].conversation /\ r.context = chat[c].context
           /\ r.began = chat[c].began
           /\ r.pc \in {"thinking", "learning"} => chat[c].pc \in {"asking", "thinking", "learning"}
  PROVE  \A b \in Chat : Fixed(b)
<1>1. chat'[c] = r /\ \A b \in Chat : b # c => chat'[b] = chat[b]
  BY ChatMoves DEF BaseInv
<1>2. Fixed(c)
  BY <1>1 DEF Fixed
<1>3. \A b \in Chat : b # c => Fixed(b)
  BY <1>1 DEF Fixed
<1> QED
  BY <1>2, <1>3

LEMMA FixedSteps ==
  ASSUME BaseInv, NEW c \in Chat,
         PageRead(c) \/ SaveQuestion(c) \/ Learn(c) \/ SaveAnswer(c) \/ CloseChat(c)
           \/ \E reply : Think(c, reply)
  PROVE  \A b \in Chat : Fixed(b)
<1>q. PICK q : q = chat[c]
  OBVIOUS
<1>1. ChatInv(c) /\ IsChat(q) /\ q.pc # "idle"
  BY <1>q DEF BaseInv, ChatInv, PageRead, SaveQuestion, Learn, SaveAnswer, CloseChat, Think
<1>2. ASSUME NEW pc \in Places \ {"idle"}, Give(c, pc), pc \notin {"thinking", "learning"}
      PROVE  \A b \in Chat : Fixed(b)
  <2>1. PICK r : r = Ended(chat[c], pc)
    OBVIOUS
  <2>2. ChatGoes(c, r)
    BY <1>2, <2>1 DEF Give
  <2>3. /\ r.pc = pc /\ r.prompt = q.prompt /\ r.chose = q.chose
        /\ r.conversation = q.conversation /\ r.context = q.context /\ r.began = q.began
    BY <1>q, <1>1, <2>1, EndedChat
  <2> QED
    BY <1>q, <1>2, <2>2, <2>3, FixedByMove
<1>3. ASSUME NEW pc \in {"asking", "refused", "thinking", "answering", "closing"},
             ChatGoes(c, [chat[c] EXCEPT !.pc = pc]) \/ ChatGoes(c, [chat[c] EXCEPT !.pc = pc, !.kind = "gone"]),
             pc = "thinking" => q.pc = "asking"
      PROVE  \A b \in Chat : Fixed(b)
  <2>1. PICK r : (r = [q EXCEPT !.pc = pc] \/ r = [q EXCEPT !.pc = pc, !.kind = "gone"]) /\ ChatGoes(c, r)
    BY <1>q, <1>3
  <2>2. /\ r.pc = pc /\ r.prompt = q.prompt /\ r.chose = q.chose
        /\ r.conversation = q.conversation /\ r.context = q.context /\ r.began = q.began
    BY <1>1, <2>1 DEF IsChat
  <2> QED
    BY <1>q, <1>3, <2>1, <2>2, FixedByMove
<1>4. CASE PageRead(c)
  <2>1. PICK pc \in {"asking", "refused"} : ChatGoes(c, [chat[c] EXCEPT !.pc = pc, !.kind = "gone"])
    BY <1>4 DEF PageRead
  <2> QED
    BY <1>3, <2>1
<1>5. CASE SaveQuestion(c)
  <2>1. PICK pc : pc = "thinking"
    OBVIOUS
  <2> QED
    BY <1>q, <1>3, <1>5, <2>1 DEF SaveQuestion
<1>6. CASE SaveAnswer(c)
  <2>1. PICK pc : pc = "closing"
    OBVIOUS
  <2> QED
    BY <1>3, <1>6, <2>1 DEF SaveAnswer
<1>7. CASE Learn(c)
  <2>1. CASE Usable(chat[c].answer)
    <3>1. PICK pc : pc = "answering"
      OBVIOUS
    <3> QED
      BY <1>3, <1>7, <2>1, <3>1 DEF Learn
  <2>2. CASE ~Usable(chat[c].answer)
    <3>1. PICK pc : pc = "bad gateway"
      OBVIOUS
    <3> QED
      BY <1>2, <1>7, <2>2, <3>1 DEF Learn, Places
  <2> QED
    BY <2>1, <2>2
<1>8. CASE CloseChat(c)
  <2>1. PICK pc : pc = "answered"
    OBVIOUS
  <2> QED
    BY <1>2, <1>8, <2>1 DEF CloseChat, Places
<1>9. ASSUME NEW reply, Think(c, reply) PROVE \A b \in Chat : Fixed(b)
  <2>1. PICK answer, s : answer = AnswerTo(reply, chat[c].context)
                         /\ s = SourcesOf(chat[c].prompt, chat[c].context)
    OBVIOUS
  <2>2. CASE answer = Failed
    <3>1. PICK pc : pc = "bad gateway"
      OBVIOUS
    <3>2. Give(c, pc)
      BY <1>9, <2>1, <2>2, <3>1 DEF Think
    <3> QED
      BY <1>2, <3>1, <3>2 DEF Places
  <2>3. CASE answer # Failed
    <3>1. PICK r : r = [q EXCEPT !.pc = "learning", !.answer = answer, !.sources = s]
      OBVIOUS
    <3>2. ChatGoes(c, r) /\ q.pc = "thinking"
      BY <1>q, <1>9, <2>1, <2>3, <3>1 DEF Think
    <3>3. /\ r.pc = "learning" /\ r.prompt = q.prompt /\ r.chose = q.chose
          /\ r.conversation = q.conversation /\ r.context = q.context /\ r.began = q.began
      BY <1>1, <3>1 DEF IsChat
    <3> QED
      BY <1>q, <3>2, <3>3, FixedByMove
  <2> QED
    BY <2>2, <2>3
<1> QED
  BY <1>4, <1>5, <1>6, <1>7, <1>8, <1>9

LEMMA FixedStep == BaseInv /\ [CopilotNext]_copilotVars => \A c \in Chat : Fixed(c)
<1> SUFFICES ASSUME BaseInv, [CopilotNext]_copilotVars PROVE \A c \in Chat : Fixed(c)
  OBVIOUS
<1>1. CASE chat' = chat
  BY <1>1 DEF Fixed
<1>2. ASSUME NEW c \in Chat, NEW v \in 0 .. conversations, NEW chose, NEW p, BeginChat(c, v, chose, p)
      PROVE  \A b \in Chat : Fixed(b)
  <2>1. ChatGoes(c, chat'[c]) /\ chat[c].pc = "idle"
    BY <1>2, Begun DEF BeginChat, Arrives
  <2> QED
    BY <2>1, FixedByMove
<1>3. ASSUME NEW c \in Chat, NEW reply, Suggest(c, reply) PROVE \A b \in Chat : Fixed(b)
  <2>1. PICK r : ChatGoes(c, r)
    BY <1>3 DEF Suggest, Give
  <2> QED
    BY <1>3, <2>1, FixedByMove DEF Suggest, Arrives
<1>4. CASE Stop
  <2>1. ASSUME NEW c \in Chat PROVE Fixed(c)
    <3>1. chat'[c] = IF chat[c].pc \in Running THEN Ended(chat[c], "lost") ELSE chat[c]
      BY <1>4 DEF Stop
    <3>2. ChatInv(c) /\ "lost" \in Places
      BY DEF BaseInv, Places
    <3>3. CASE chat[c].pc \in Running
      BY <3>1, <3>2, <3>3, EndedChat DEF Fixed
    <3>4. CASE chat[c].pc \notin Running
      BY <3>1, <3>4 DEF Fixed
    <3> QED
      BY <3>3, <3>4
  <2> QED
    BY <2>1
<1>5. UNCHANGED copilotVars => chat' = chat
  BY DEF copilotVars
<1>6. ASSUME NEW j \in KnownJob, JobChanges(j) PROVE chat' = chat
  BY <1>6 DEF JobChanges
<1> QED
  BY <1>1, <1>2, <1>3, <1>4, <1>5, <1>6, FixedSteps DEF CopilotNext

(* Messages are only ever added.                                            *)
LEMMA MessagesStay ==
  BaseInv /\ [CopilotNext]_copilotVars =>
    \A i \in DOMAIN messages : i \in DOMAIN messages' /\ messages'[i] = messages[i]
<1> SUFFICES ASSUME BaseInv, [CopilotNext]_copilotVars
             PROVE  \A i \in DOMAIN messages : i \in DOMAIN messages' /\ messages'[i] = messages[i]
  OBVIOUS
<1>1. messages' = messages \/ \E m : messages' = Append(messages, m)
  <2>1. ASSUME NEW c \in Chat, SaveQuestion(c) \/ SaveAnswer(c)
        PROVE  \E m : messages' = Append(messages, m)
    BY <2>1 DEF SaveQuestion, SaveAnswer
  <2>2. ASSUME NEW c \in Chat, NEW v, NEW chose, NEW p, BeginChat(c, v, chose, p)
        PROVE  messages' = messages
    BY <2>2 DEF BeginChat
  <2>3. ASSUME NEW c \in Chat, NEW reply, Think(c, reply) \/ Suggest(c, reply) PROVE messages' = messages
    BY <2>3 DEF Think, Suggest
  <2>4. ASSUME NEW c \in Chat, PageRead(c) \/ Learn(c) \/ CloseChat(c) PROVE messages' = messages
    BY <2>4 DEF PageRead, Learn, CloseChat, stored
  <2>5. Stop \/ UNCHANGED copilotVars => messages' = messages
    BY DEF Stop, copilotVars, stored
  <2>6. ASSUME NEW j \in KnownJob, JobChanges(j) PROVE messages' = messages
    BY <2>6 DEF JobChanges, stored
  <2> QED
    BY <2>1, <2>2, <2>3, <2>4, <2>5, <2>6 DEF CopilotNext
<1> QED
  BY <1>1, AppendedRow DEF BaseInv

LEMMA FiniteChats ==
  /\ IsFiniteSet(Chat)
  /\ \A S : \A T \in SUBSET Chat : S \subseteq T => Cardinality(S) <= Cardinality(T)
  /\ \A T \in SUBSET Chat : IsFiniteSet(T) /\ Cardinality(T) \in Nat
<1>1. IsFiniteSet(Chat)
  BY FS_Interval, CopilotAssumption DEF Chat
<1>2. \A T \in SUBSET Chat : IsFiniteSet(T) /\ Cardinality(T) \in Nat
  BY <1>1, FS_Subset, FS_CardinalityType
<1>3. \A S : \A T \in SUBSET Chat : S \subseteq T => Cardinality(S) <= Cardinality(T)
  BY <1>2, FS_Subset
<1> QED
  BY <1>1, <1>2, <1>3

LEMMA LearnedStays ==
  ASSUME BaseInv, [CopilotNext]_copilotVars, NEW k
  PROVE  LearnedFrom(k) \subseteq LearnedFrom(k)'
<1> SUFFICES ASSUME NEW c \in LearnedFrom(k) PROVE c \in LearnedFrom(k)'
  OBVIOUS
<1>1. PICK i \in QuestionOf(c) : TRUE
  BY DEF LearnedFrom
<1>2. /\ i \in DOMAIN messages /\ messages[i].chat = c /\ c \in Chat /\ MessageInv(i)
      /\ chat[c].pc \notin NoQuestionYet
  BY <1>1 DEF LearnedFrom, QuestionOf, BaseInv, MessageInv
<1>3. QuestionOf(c)' # {}
  BY <1>1, MessagesStay DEF QuestionOf
<1>4. Fixed(c)
  BY <1>2, FixedStep
<1>5. chat'[c].pc \notin {"thinking", "learning"} /\ chat'[c].prompt = chat[c].prompt
  BY <1>2, <1>4 DEF Fixed, LearnedFrom, NoQuestionYet
<1> QED
  BY <1>2, <1>3, <1>5 DEF LearnedFrom

LEMMA ThreeInOrder == \A m, s, t \in Nat : m <= s /\ s <= t => m <= t
  OBVIOUS

LEMMA OneMore == \A m, s, t \in Nat : m <= s /\ s + 1 <= t => m + 1 \in Nat /\ m + 1 <= t
  OBVIOUS

LEMMA MemoryStep == BaseInv /\ MemoryInv /\ [CopilotNext]_copilotVars => MemoryInv'
<1> SUFFICES ASSUME BaseInv, MemoryInv, [CopilotNext]_copilotVars PROVE MemoryInv'
  OBVIOUS
<1>1. \A k : LearnedFrom(k) \subseteq LearnedFrom(k)' /\ LearnedFrom(k)' \in SUBSET Chat
  BY LearnedStays DEF LearnedFrom, Chat
<1>2. \A k : Cardinality(LearnedFrom(k)) <= Cardinality(LearnedFrom(k)')
             /\ Cardinality(LearnedFrom(k)') \in Nat /\ Cardinality(LearnedFrom(k)) \in Nat
  <2> TAKE k
  <2>1. PICK S, T : S = LearnedFrom(k) /\ T = LearnedFrom(k)'
    OBVIOUS
  <2>2. S \subseteq T /\ T \in SUBSET Chat /\ S \in SUBSET Chat
    BY <1>1, <2>1
  <2> QED
    BY <2>1, <2>2, FiniteChats
<1>3. CASE memory' = memory
  <2>1. ASSUME NEW k \in DOMAIN memory PROVE memory[k] \in Nat /\ memory[k] <= Cardinality(LearnedFrom(k)')
    BY <1>2 DEF MemoryInv
  <2> QED
    BY <1>3, <2>1 DEF MemoryInv
<1>4. ASSUME NEW c \in Chat, Learn(c) PROVE MemoryInv'
  <2>1. chat[c].pc = "learning" /\ QuestionOf(c) # {} /\ loop = c
    BY <1>4 DEF Learn, BaseInv, ChatInv, Inside
  <2>2. /\ DOMAIN memory' = DOMAIN memory
        /\ memory' = [k \in UNION {p.learns : p \in Prompts} |-> memory'[k]]
        /\ \A k \in DOMAIN memory :
             memory'[k] = memory[k] + (IF k \in chat[c].prompt.learns THEN 1 ELSE 0)
    BY <1>4 DEF Learn, MemoryInv
  <2>3. ASSUME NEW k \in DOMAIN memory
        PROVE  memory'[k] \in Nat /\ memory'[k] <= Cardinality(LearnedFrom(k)')
    <3>n. PICK m, s, t : m = memory[k] /\ s = Cardinality(LearnedFrom(k)) /\ t = Cardinality(LearnedFrom(k)')
      OBVIOUS
    <3>t. m \in Nat /\ s \in Nat /\ t \in Nat /\ m <= s /\ s <= t
      BY <3>n, <1>2 DEF MemoryInv
    <3>1. CASE k \notin chat[c].prompt.learns
      <4>1. memory'[k] = m
        BY <3>1, <3>n, <3>t, <2>2
      <4>2. m <= t
        BY <3>t, ThreeInOrder, Zenon
      <4> QED
        BY <4>1, <4>2, <3>n, <3>t, Zenon
    <3>2. CASE k \in chat[c].prompt.learns
      <4>1. chat'[c].pc \in {"answering", "bad gateway"}
        <5>1. CASE Usable(chat[c].answer)
          <6>1. PICK r : r = [chat[c] EXCEPT !.pc = "answering"]
            OBVIOUS
          <6>2. ChatGoes(c, r) /\ ChatInv(c)
            BY <1>4, <5>1, <6>1 DEF Learn, BaseInv
          <6>3. chat'[c] = r
            BY <6>2, ChatMoves DEF BaseInv
          <6>4. r.pc = "answering"
            BY <6>1, <6>2 DEF ChatInv, IsChat
          <6> QED
            BY <6>3, <6>4
        <5>2. CASE ~Usable(chat[c].answer)
          <6>1. PICK pc : pc = "bad gateway"
            OBVIOUS
          <6>2. ChatGoes(c, Ended(chat[c], pc)) /\ ChatInv(c) /\ pc \in Places
            BY <1>4, <5>2, <6>1 DEF Learn, Give, BaseInv, Places
          <6>3. chat'[c] = Ended(chat[c], pc)
            BY <6>2, ChatMoves DEF BaseInv
          <6> QED
            BY <6>1, <6>2, <6>3, EndedChat
        <5> QED
          BY <5>1, <5>2
      <4>2. Fixed(c) /\ QuestionOf(c)' = QuestionOf(c)
        BY <1>4, FixedStep, SameMessages DEF Learn
      <4>3. c \in LearnedFrom(k)' /\ c \notin LearnedFrom(k)
        BY <2>1, <3>2, <4>1, <4>2 DEF LearnedFrom, Fixed
      <4>4. Cardinality(LearnedFrom(k)) + 1 <= Cardinality(LearnedFrom(k)')
        <5>1. PICK S, T : S = LearnedFrom(k) /\ T = LearnedFrom(k)'
          OBVIOUS
        <5>2. S \subseteq T /\ T \in SUBSET Chat /\ c \in T /\ c \notin S /\ S \in SUBSET Chat
          BY <1>1, <4>3, <5>1
        <5>3. Cardinality(S \cup {c}) = Cardinality(S) + 1
          BY <5>2, FiniteChats, FS_AddElement
        <5>4. Cardinality(S \cup {c}) <= Cardinality(T)
          BY <5>2, FiniteChats
        <5> QED
          BY <5>1, <5>3, <5>4
      <4>5. memory'[k] = m + 1
        BY <3>2, <3>n, <2>2
      <4>6. s + 1 <= t
        BY <4>4, <3>n
      <4>7. m + 1 \in Nat /\ m + 1 <= t
        BY <4>6, <3>t, OneMore, Zenon
      <4> QED
        BY <4>5, <4>7, <3>n, Zenon
    <3> QED
      BY <3>1, <3>2
  <2> QED
    BY <2>2, <2>3 DEF MemoryInv
<1>5. memory' = memory \/ \E c \in Chat : Learn(c)
  <2>1. ASSUME NEW c \in Chat, NEW v, NEW chose, NEW p, BeginChat(c, v, chose, p)
        PROVE  memory' = memory
    BY <2>1 DEF BeginChat
  <2>2. ASSUME NEW c \in Chat, NEW reply, Think(c, reply) \/ Suggest(c, reply) PROVE memory' = memory
    BY <2>2 DEF Think, Suggest
  <2>3. ASSUME NEW c \in Chat, PageRead(c) \/ SaveQuestion(c) \/ SaveAnswer(c) \/ CloseChat(c)
        PROVE  memory' = memory
    BY <2>3 DEF PageRead, SaveQuestion, SaveAnswer, CloseChat, stored
  <2>4. Stop \/ UNCHANGED copilotVars => memory' = memory
    BY DEF Stop, copilotVars, stored
  <2>5. ASSUME NEW j \in KnownJob, JobChanges(j) PROVE memory' = memory
    BY <2>5 DEF JobChanges, stored
  <2> QED
    BY <2>1, <2>2, <2>3, <2>4, <2>5 DEF CopilotNext
<1> QED
  BY <1>3, <1>4, <1>5

LEMMA MemoryStart == CopilotInit => MemoryInv
<1> SUFFICES ASSUME CopilotInit PROVE MemoryInv
  OBVIOUS
<1>1. memory = [k \in UNION {p.learns : p \in Prompts} |-> 0]
  BY DEF CopilotInit
<1>2. \A k : LearnedFrom(k) \in SUBSET Chat
  BY DEF LearnedFrom
<1>3. \A k : Cardinality(LearnedFrom(k)) \in Nat
  BY <1>2, FiniteChats
<1> QED
  BY <1>1, <1>3 DEF MemoryInv

LEMMA NothingWithout == BaseInv /\ MemoryInv => NothingWithoutQuestion
<1> SUFFICES ASSUME BaseInv, MemoryInv PROVE NothingWithoutQuestion
  OBVIOUS
<1>1. ASSUME NEW c \in Chat, NEW i \in AnswerOf(c)
      PROVE  \E k \in QuestionOf(c) : /\ After(i, k)
                                      /\ messages[i].conversation = messages[k].conversation
                                      /\ messages[i].context = messages[k].context
  <2>1. i \in DOMAIN messages /\ MessageInv(i) /\ messages[i].chat = c /\ messages[i].role = "assistant"
    BY DEF AnswerOf, BaseInv
  <2>2. PICK k \in QuestionOf(c) : TRUE
    BY <2>1 DEF MessageInv
  <2>3. k \in DOMAIN messages /\ MessageInv(k) /\ messages[k].chat = c /\ messages[k].role = "user"
    BY <2>2 DEF QuestionOf, BaseInv
  <2>4. /\ messages[i].at > messages[k].at
        /\ messages[i].conversation = messages[k].conversation
        /\ messages[i].context = messages[k].context
    BY <2>1, <2>3 DEF MessageInv
  <2> QED
    BY <2>2, <2>4 DEF After
<1>2. ASSUME NEW k \in DOMAIN memory
      PROVE  memory[k] <= Cardinality({c \in Chat : QuestionOf(c) # {} /\ k \in chat[c].prompt.learns})
  <2>1. PICK S, T : /\ S = LearnedFrom(k)
                    /\ T = {c \in Chat : QuestionOf(c) # {} /\ k \in chat[c].prompt.learns}
    OBVIOUS
  <2>2. S \subseteq T /\ T \in SUBSET Chat /\ S \in SUBSET Chat
    BY <2>1 DEF LearnedFrom
  <2>3. Cardinality(S) <= Cardinality(T) /\ Cardinality(S) \in Nat /\ Cardinality(T) \in Nat
    BY <2>2, FiniteChats
  <2>4. memory[k] \in Nat /\ memory[k] <= Cardinality(S)
    BY <2>1 DEF MemoryInv
  <2>5. memory[k] <= Cardinality(T)
    BY <2>3, <2>4
  <2> QED
    BY <2>1, <2>5
<1>3. ASSUME NEW a \in audit, chat[a.chat].prompt # NoJob
      PROVE  (AnswerOf(a.chat) # {}) = a.success
  <2>1. PICK c : c = a.chat
    OBVIOUS
  <2>2. AuditInv(a) /\ c \in Chat /\ ChatInv(c)
    BY <2>1 DEF BaseInv, AuditInv
  <2>3. CASE chat[c].pc = "answered" /\ a.success = TRUE
    BY <2>1, <2>2, <2>3 DEF ChatInv
  <2>4. CASE chat[c].pc = "bad gateway" /\ a.success = FALSE
    <3>1. \A i \in AnswerOf(c) : MessageInv(i) /\ messages[i].chat = c /\ messages[i].role = "assistant"
      BY DEF AnswerOf, BaseInv
    <3>2. AnswerOf(c) = {}
      BY <2>4, <3>1 DEF MessageInv
    <3> QED
      BY <2>1, <2>4, <3>2
  <2> QED
    BY <1>3, <2>1, <2>2, <2>3, <2>4 DEF AuditInv
<1> QED
  BY <1>1, <1>2, <1>3 DEF NothingWithoutQuestion

(* NothingWithoutQuestion: for any number of requests, whatever they ask    *)
(* and wherever the process stops, an answer stands behind its question in  *)
(* its conversation and is about the same job, no more is remembered than   *)
(* was said in stored questions, and the audit log tells answered chats     *)
(* from failed ones.                                                        *)
THEOREM QuestionTheorem == CopilotSpec => []NothingWithoutQuestion
<1>1. CopilotInit => BaseInv /\ MemoryInv
  BY BaseStart, MemoryStart
<1>2. BaseInv /\ MemoryInv /\ [CopilotNext]_copilotVars => (BaseInv /\ MemoryInv)'
  BY BaseStep, MemoryStep
<1>3. BaseInv /\ MemoryInv => NothingWithoutQuestion
  BY NothingWithout
<1> QED
  BY <1>1, <1>2, <1>3, PTL DEF CopilotSpec


(* The job of a conversation                                                *)

(* Of any messages one is the newest.                                       *)
LEMMA NewestOf ==
  ASSUME BaseInv, NEW S \in SUBSET DOMAIN messages, S # {}
  PROVE  \E i \in S : \A k \in S : k = i \/ After(i, k)
<1>1. /\ tick \in Nat /\ Len(messages) \in Nat /\ DOMAIN messages = 1 .. Len(messages)
      /\ \A i \in S : messages[i].at \in Nat /\ messages[i].at < tick
  BY DEF BaseInv, IsRows, MessageInv
<1>2. PICK times : times = {messages[i].at : i \in S}
  OBVIOUS
<1>3. PICK t \in times : \A u \in times : u <= t
  <2>1. \A u \in times : u \in Nat /\ u <= tick
    BY <1>1, <1>2
  <2>2. times # {}
    BY <1>2
  <2> QED
    BY <2>1, <2>2, <1>1, GreatestOf
<1>4. PICK last : last = {i \in S : messages[i].at = t}
  OBVIOUS
<1>5. PICK i \in last : \A k \in last : k <= i
  <2>1. last # {} /\ \A k \in last : k \in Nat /\ k <= Len(messages)
    BY <1>1, <1>2, <1>4
  <2> QED
    BY <2>1, <1>1, GreatestOf
<1>6. ASSUME NEW k \in S PROVE k = i \/ After(i, k)
  <2>1. messages[k].at <= t /\ messages[i].at = t /\ messages[k].at \in Nat /\ t \in Nat
    BY <1>1, <1>2, <1>3, <1>4
  <2>2. k \in Nat /\ i \in Nat
    BY <1>1, <1>4
  <2>3. CASE messages[k].at = t
    <3>1. k <= i
      BY <2>3, <1>4, <1>5
    <3> QED
      BY <2>1, <2>2, <2>3, <3>1 DEF After
  <2>4. CASE messages[k].at # t
    BY <2>1, <2>4 DEF After
  <2> QED
    BY <2>3, <2>4
<1> QED
  BY <1>4, <1>6

(* The newest of all messages is not after itself or another is.            *)
LEMMA NotBefore ==
  ASSUME BaseInv, NEW i \in DOMAIN messages, NEW k \in DOMAIN messages, k = i \/ After(i, k)
  PROVE  ~After(k, i)
<1>1. i \in Nat /\ k \in Nat /\ messages[i].at \in Nat /\ messages[k].at \in Nat
  BY DEF BaseInv, IsRows, MessageInv
<1> QED
  BY <1>1 DEF After

(* What is recovered is a job a message of the conversation is about ...    *)
LEMMA RecoveredIsThere ==
  ASSUME BaseInv, NEW v, Recovered(v) # NoJob
  PROVE  \E i \in DOMAIN messages : messages[i].conversation = v /\ messages[i].context = Recovered(v)
<1>1. PICK about : about = {i \in Newest(v, RecentMessages) : messages[i].context # NoJob}
  OBVIOUS
<1>2. \A i \in about : i \in DOMAIN messages /\ messages[i].conversation = v
  BY <1>1 DEF Newest
<1>3. about # {}
  BY <1>1 DEF Recovered
<1>4. \E i \in about : \A k \in about : k = i \/ After(i, k)
  BY <1>2, <1>3, NewestOf
<1>5. PICK i : i = CHOOSE l \in about : \A k \in about : k = l \/ After(l, k)
  OBVIOUS
<1>6. i \in about
  BY <1>4, <1>5
<1>7. Recovered(v) = messages[i].context
  BY <1>1, <1>3, <1>5 DEF Recovered
<1> QED
  BY <1>2, <1>6, <1>7

(* ... and there is one when a message i of it is about a job and fewer than *)
(* RecentMessages messages about none came after i: after the newest message *)
(* about a job there are only those.                                         *)
NoneAfter(v, i) ==
  {k \in DOMAIN messages : messages[k].conversation = v /\ messages[k].context = NoJob /\ After(k, i)}

LEMMA AfterTransitive ==
  ASSUME BaseInv, NEW i \in DOMAIN messages, NEW k \in DOMAIN messages, NEW l \in DOMAIN messages,
         After(l, k), k = i \/ After(k, i)
  PROVE  After(l, i)
<1>1. /\ i \in Nat /\ k \in Nat /\ l \in Nat
      /\ messages[i].at \in Nat /\ messages[k].at \in Nat /\ messages[l].at \in Nat
  BY DEF BaseInv, IsRows, MessageInv
<1> QED
  BY <1>1 DEF After

LEMMA RecoveredAfter ==
  ASSUME BaseInv, NEW v, NEW i \in DOMAIN messages, messages[i].conversation = v,
         messages[i].context # NoJob, Cardinality(NoneAfter(v, i)) < RecentMessages
  PROVE  Recovered(v) # NoJob
<1>1. PICK about : about = {k \in Newest(v, RecentMessages) : messages[k].context # NoJob}
  OBVIOUS
<1>2. PICK own : own = {k \in DOMAIN messages : messages[k].conversation = v}
  OBVIOUS
<1>3. PICK jobbed : jobbed = {k \in own : messages[k].context # NoJob}
  OBVIOUS
<1>4. PICK m \in jobbed : \A k \in jobbed : k = m \/ After(m, k)
  <2>1. jobbed \in SUBSET DOMAIN messages /\ jobbed # {}
    BY <1>2, <1>3
  <2> QED
    BY <2>1, NewestOf
<1>5. m \in own /\ m \in DOMAIN messages /\ messages[m].context # NoJob /\ (m = i \/ After(m, i))
  BY <1>2, <1>3, <1>4
<1>6. PICK later : later = {k \in own : After(k, m)}
  OBVIOUS
<1>7. later \subseteq NoneAfter(v, i)
  <2>1. ASSUME NEW k \in later PROVE k \in NoneAfter(v, i)
    <3>1. k \in own /\ k \in DOMAIN messages /\ messages[k].conversation = v /\ After(k, m)
      BY <1>2, <1>6
    <3>2. k \notin jobbed
      BY <1>4, <1>5, <3>1, NotBefore
    <3>3. After(k, i)
      BY <1>5, <3>1, AfterTransitive
    <3> QED
      BY <1>3, <3>1, <3>2, <3>3 DEF NoneAfter
  <2> QED
    BY <2>1
<1>8. IsFiniteSet(NoneAfter(v, i))
  <2>1. IsFiniteSet(DOMAIN messages)
    BY FS_Interval DEF BaseInv, IsRows
  <2>2. NoneAfter(v, i) \in SUBSET DOMAIN messages
    BY DEF NoneAfter
  <2> QED
    BY <2>1, <2>2, FS_Subset
<1>9. Cardinality(later) < RecentMessages
  <2>1. Cardinality(later) <= Cardinality(NoneAfter(v, i)) /\ IsFiniteSet(later)
    BY <1>7, <1>8, FS_Subset
  <2>2. Cardinality(later) \in Nat /\ Cardinality(NoneAfter(v, i)) \in Nat /\ RecentMessages \in Nat
    BY <1>8, <2>1, FS_CardinalityType, CopilotAssumption
  <2> QED
    BY <2>1, <2>2
<1>10. m \in about
  <2>1. m \in Newest(v, RecentMessages)
    BY <1>2, <1>5, <1>6, <1>9 DEF Newest
  <2> QED
    BY <1>1, <1>5, <2>1
<1>11. \A k \in about : k \in DOMAIN messages /\ messages[k].context # NoJob
  BY <1>1 DEF Newest
<1>12. \E k \in about : \A l \in about : l = k \/ After(k, l)
  BY <1>10, <1>11, NewestOf
<1>13. PICK k : k = CHOOSE q \in about : \A l \in about : l = q \/ After(q, l)
  OBVIOUS
<1>14. k \in about
  BY <1>12, <1>13
<1>15. Recovered(v) = messages[k].context
  BY <1>1, <1>10, <1>13 DEF Recovered
<1> QED
  BY <1>11, <1>14, <1>15

(* After an answer of a conversation about one job there is no message about *)
(* none ...                                                                  *)
LEMMA NoneAfterAnswers ==
  ASSUME BaseInv, NEW v, NEW j \in Context, OnlyJob(v, j), NEW a \in AnswersIn(v, j)
  PROVE  \A k \in DOMAIN messages : messages[k].conversation = v /\ messages[k].context = NoJob => ~After(k, a)
<1> SUFFICES ASSUME NEW k \in DOMAIN messages, messages[k].conversation = v, messages[k].context = NoJob
             PROVE  ~After(k, a)
  OBVIOUS
<1>1. messages[k].at < messages[a].at
  BY DEF OnlyJob
<1>2. messages[k].at \in Nat /\ messages[a].at \in Nat
  BY DEF AnswersIn, BaseInv, MessageInv
<1> QED
  BY <1>1, <1>2 DEF After

(* ... so it recovers that job once it was answered about it, or has a       *)
(* message about it that was not overtaken.                                  *)
LEMMA RecoversItsJob ==
  ASSUME BaseInv, NEW v, NEW j \in Context, OnlyJob(v, j)
  PROVE  /\ Recovered(v) \in {NoJob, j}
         /\ AnswersIn(v, j) # {} => Recovered(v) = j
         /\ \A i \in DOMAIN messages :
              /\ messages[i].conversation = v /\ messages[i].context = j
              /\ Cardinality(NoneAfter(v, i)) < RecentMessages
              => Recovered(v) = j
<1>1. \A i \in DOMAIN messages : messages[i].conversation = v => messages[i].context \in {NoJob, j}
  <2> TAKE i \in DOMAIN messages
  <2>1. PICK m : m = messages[i]
    OBVIOUS
  <2>2. m.chat \in Chat /\ m.conversation = chat[m.chat].conversation /\ m.context = chat[m.chat].context
    BY <2>1 DEF BaseInv, MessageInv
  <2> QED
    BY <2>1, <2>2 DEF OnlyJob
<1>2. Recovered(v) \in {NoJob, j}
  BY <1>1, RecoveredIsThere
<1>3. j # NoJob
  BY CopilotAssumption
<1>4. ASSUME NEW i \in DOMAIN messages, messages[i].conversation = v, messages[i].context = j,
             Cardinality(NoneAfter(v, i)) < RecentMessages
      PROVE  Recovered(v) = j
  BY <1>2, <1>3, <1>4, RecoveredAfter
<1>5. ASSUME NEW a \in AnswersIn(v, j) PROVE Recovered(v) = j
  <2>1. NoneAfter(v, a) = {}
    BY NoneAfterAnswers DEF NoneAfter
  <2>2. Cardinality(NoneAfter(v, a)) < RecentMessages
    BY <2>1, FS_EmptySet, CopilotAssumption
  <2> QED
    BY <1>4, <2>2 DEF AnswersIn
<1> QED
  BY <1>2, <1>4, <1>5

(* A step that begins no chat leaves what every chat is about.              *)
Same(c) ==
  /\ chat'[c].chose = chat[c].chose /\ chat'[c].conversation = chat[c].conversation
  /\ chat'[c].context = chat[c].context /\ chat'[c].began = chat[c].began /\ chat'[c].seen = chat[c].seen
  /\ chat'[c].pc = "awaiting" => chat[c].pc = "awaiting"

LEMMA SameByMove ==
  ASSUME BaseInv, NEW c \in Chat, NEW r, ChatGoes(c, r), r.pc # "awaiting",
         r.chose = chat[c].chose, r.conversation = chat[c].conversation,
         r.context = chat[c].context, r.began = chat[c].began, r.seen = chat[c].seen
  PROVE  \A b \in Chat : Same(b)
<1>1. chat'[c] = r /\ \A b \in Chat : b # c => chat'[b] = chat[b]
  BY ChatMoves DEF BaseInv
<1> QED
  BY <1>1 DEF Same

LEMMA SameByGiving ==
  ASSUME BaseInv, NEW c \in Chat, NEW pc \in Places \ {"awaiting"}, Give(c, pc)
  PROVE  \A b \in Chat : Same(b)
<1>1. PICK r : r = Ended(chat[c], pc)
  OBVIOUS
<1>2. ChatGoes(c, r) /\ ChatInv(c)
  BY <1>1 DEF Give, BaseInv
<1>3. /\ r.pc = pc /\ r.chose = chat[c].chose /\ r.conversation = chat[c].conversation
      /\ r.context = chat[c].context /\ r.began = chat[c].began /\ r.seen = chat[c].seen
  BY <1>1, <1>2, EndedChat
<1> QED
  BY <1>2, <1>3, SameByMove

LEMMA SameByGoing ==
  ASSUME BaseInv, NEW c \in Chat, NEW pc \in Places \ {"awaiting"},
         \/ ChatGoes(c, [chat[c] EXCEPT !.pc = pc])
         \/ ChatGoes(c, [chat[c] EXCEPT !.pc = pc, !.kind = "gone"])
  PROVE  \A b \in Chat : Same(b)
<1>1. PICK r : /\ r = [chat[c] EXCEPT !.pc = pc] \/ r = [chat[c] EXCEPT !.pc = pc, !.kind = "gone"]
               /\ ChatGoes(c, r)
  OBVIOUS
<1>2. IsChat(chat[c])
  BY DEF BaseInv, ChatInv
<1>3. /\ r.pc = pc /\ r.chose = chat[c].chose /\ r.conversation = chat[c].conversation
      /\ r.context = chat[c].context /\ r.began = chat[c].began /\ r.seen = chat[c].seen
  BY <1>1, <1>2 DEF IsChat
<1> QED
  BY <1>1, <1>3, SameByMove

Begins ==
  \E c \in Chat : \E v \in 0 .. conversations : \E chose \in Context \cup {NoJob} :
    \E p : BeginChat(c, v, chose, p)

LEMMA NotBegun ==
  ASSUME BaseInv, [CopilotNext]_copilotVars, ~Begins
  PROVE  \A c \in Chat : Same(c)
<1>0. /\ {"asking", "refused", "thinking", "learning", "answering", "closing"} \subseteq Places \ {"awaiting"}
      /\ {"lost", "answered", "bad gateway", "suggested"} \subseteq Places \ {"awaiting"}
  BY DEF Places, NoQuestionYet, Running
<1>1. CASE chat' = chat
  BY <1>1 DEF Same
<1>2. ASSUME NEW c \in Chat, PageRead(c) PROVE \A b \in Chat : Same(b)
  <2>1. PICK pc \in {"asking", "refused"} : ChatGoes(c, [chat[c] EXCEPT !.pc = pc, !.kind = "gone"])
    BY <1>2 DEF PageRead
  <2> QED
    BY <2>1, <1>0, SameByGoing
<1>3. ASSUME NEW c \in Chat, SaveQuestion(c) \/ SaveAnswer(c) PROVE \A b \in Chat : Same(b)
  <2>1. PICK pc \in {"thinking", "closing"} : ChatGoes(c, [chat[c] EXCEPT !.pc = pc])
    BY <1>3 DEF SaveQuestion, SaveAnswer
  <2> QED
    BY <2>1, <1>0, SameByGoing
<1>4. ASSUME NEW c \in Chat, Learn(c) PROVE \A b \in Chat : Same(b)
  <2>1. PICK pc, qc : pc = "answering" /\ qc = "bad gateway"
    OBVIOUS
  <2>2. ChatGoes(c, [chat[c] EXCEPT !.pc = pc]) \/ Give(c, qc)
    BY <1>4, <2>1 DEF Learn
  <2>3. pc \in Places \ {"awaiting"} /\ qc \in Places \ {"awaiting"}
    BY <1>0, <2>1
  <2> QED
    BY <2>2, <2>3, SameByGoing, SameByGiving
<1>5. ASSUME NEW c \in Chat, CloseChat(c) PROVE \A b \in Chat : Same(b)
  <2>1. PICK pc : pc = "answered"
    OBVIOUS
  <2> QED
    BY <1>0, <1>5, <2>1, SameByGiving DEF CloseChat
<1>6. ASSUME NEW c \in Chat, NEW reply, Suggest(c, reply) PROVE \A b \in Chat : Same(b)
  <2>1. PICK pc : pc = IF reply = Failed THEN "bad gateway" ELSE "suggested"
    OBVIOUS
  <2>2. Give(c, pc) /\ pc \in Places \ {"awaiting"}
    BY <1>0, <1>6, <2>1 DEF Suggest
  <2> QED
    BY <2>2, SameByGiving
<1>7. ASSUME NEW c \in Chat, NEW reply, Think(c, reply) PROVE \A b \in Chat : Same(b)
  <2>1. PICK answer, s : answer = AnswerTo(reply, chat[c].context)
                         /\ s = SourcesOf(chat[c].prompt, chat[c].context)
    OBVIOUS
  <2>2. CASE answer = Failed
    <3>1. PICK pc : pc = "bad gateway"
      OBVIOUS
    <3>2. Give(c, pc)
      BY <1>7, <2>1, <2>2, <3>1 DEF Think
    <3> QED
      BY <1>0, <3>1, <3>2, SameByGiving
  <2>3. CASE answer # Failed
    <3>1. PICK r : r = [chat[c] EXCEPT !.pc = "learning", !.answer = answer, !.sources = s]
      OBVIOUS
    <3>2. ChatGoes(c, r) /\ IsChat(chat[c])
      BY <1>7, <2>1, <2>3, <3>1 DEF Think, BaseInv, ChatInv
    <3>3. /\ r.pc = "learning" /\ r.chose = chat[c].chose /\ r.conversation = chat[c].conversation
          /\ r.context = chat[c].context /\ r.began = chat[c].began /\ r.seen = chat[c].seen
      BY <3>1, <3>2 DEF IsChat
    <3> QED
      BY <3>2, <3>3, SameByMove
  <2> QED
    BY <2>2, <2>3
<1>8. CASE Stop
  <2>1. ASSUME NEW c \in Chat PROVE Same(c)
    <3>1. chat'[c] = IF chat[c].pc \in Running THEN Ended(chat[c], "lost") ELSE chat[c]
      BY <1>8 DEF Stop
    <3>2. ChatInv(c) /\ "lost" \in Places
      BY <1>0 DEF BaseInv
    <3>3. CASE chat[c].pc \in Running
      BY <3>1, <3>2, <3>3, EndedChat DEF Same
    <3>4. CASE chat[c].pc \notin Running
      BY <3>1, <3>4 DEF Same
    <3> QED
      BY <3>3, <3>4
  <2> QED
    BY <2>1
<1>9. UNCHANGED copilotVars => chat' = chat
  BY DEF copilotVars
<1>10. ASSUME NEW j \in KnownJob, JobChanges(j) PROVE chat' = chat
  BY <1>10 DEF JobChanges
<1> QED
  BY <1>1, <1>2, <1>3, <1>4, <1>5, <1>6, <1>7, <1>8, <1>9, <1>10 DEF CopilotNext, Begins

(* Who is on the loop after a step that begins no chat, and what it stored. *)
LEMMA LoopAndRows ==
  ASSUME BaseInv, StayInv, [CopilotNext]_copilotVars, ~Begins
  PROVE  /\ \A c \in Chat : loop' = c => loop = c \/ chat[c].context # NoJob
         /\ \/ messages' = messages
            \/ \E c \in Chat : \E m : /\ messages' = Append(messages, m) /\ loop = c
                                      /\ m.conversation = chat[c].conversation
                                      /\ m.context = chat[c].context
                                      /\ m.role = "user" \/ (m.role = "assistant" /\ m.at = tick)
<1>1. ASSUME NEW c \in Chat, SaveQuestion(c) \/ SaveAnswer(c)
      PROVE  \E m : /\ messages' = Append(messages, m) /\ loop = c /\ loop' = loop
                    /\ m.conversation = chat[c].conversation /\ m.context = chat[c].context
                    /\ m.role = "user" \/ (m.role = "assistant" /\ m.at = tick)
  <2>1. CASE SaveQuestion(c)
    <3>1. PICK m : m = Message(c, "user", chat[c].began, NoJob)
      OBVIOUS
    <3>2. m.conversation = chat[c].conversation /\ m.context = chat[c].context /\ m.role = "user"
      BY <3>1 DEF Message
    <3>3. messages' = Append(messages, m) /\ loop = c /\ loop' = loop
      BY <2>1, <3>1 DEF SaveQuestion
    <3>4. /\ messages' = Append(messages, m) /\ loop = c /\ loop' = loop
          /\ m.conversation = chat[c].conversation /\ m.context = chat[c].context
          /\ m.role = "user" \/ (m.role = "assistant" /\ m.at = tick)
      BY <3>2, <3>3
    <3> WITNESS m
    <3> QED
      BY <3>4
  <2>2. CASE SaveAnswer(c)
    <3>1. PICK m : m = Message(c, "assistant", tick, chat[c].answer)
      OBVIOUS
    <3>2. /\ m.conversation = chat[c].conversation /\ m.context = chat[c].context
          /\ m.role = "assistant" /\ m.at = tick
      BY <3>1 DEF Message
    <3>3. messages' = Append(messages, m) /\ loop = c /\ loop' = loop
      BY <2>2, <3>1 DEF SaveAnswer
    <3>4. /\ messages' = Append(messages, m) /\ loop = c /\ loop' = loop
          /\ m.conversation = chat[c].conversation /\ m.context = chat[c].context
          /\ m.role = "user" \/ (m.role = "assistant" /\ m.at = tick)
      BY <3>2, <3>3
    <3> WITNESS m
    <3> QED
      BY <3>4
  <2> QED
    BY <1>1, <2>1, <2>2
<1>3. ASSUME NEW c \in Chat, PageRead(c)
      PROVE  messages' = messages /\ loop' \in {c, NoJob} /\ chat[c].context # NoJob
  BY <1>3 DEF PageRead, stored, StayInv
<1>4. ASSUME NEW c \in Chat, NEW reply, Think(c, reply) \/ Suggest(c, reply)
      PROVE  messages' = messages /\ loop' \in {loop, NoJob}
  BY <1>4 DEF Think, Suggest, Give
<1>5. ASSUME NEW c \in Chat, Learn(c) \/ CloseChat(c)
      PROVE  messages' = messages /\ loop' \in {loop, NoJob}
  BY <1>5 DEF Learn, CloseChat, Give
<1>6. Stop \/ UNCHANGED copilotVars => messages' = messages /\ loop' \in {loop, NoJob}
  BY DEF Stop, copilotVars, stored
<1>7. ASSUME NEW j \in KnownJob, JobChanges(j) PROVE messages' = messages /\ loop' = loop
  BY <1>7 DEF JobChanges, stored
<1>8. \A c \in Chat : c # NoJob
  BY CopilotAssumption DEF Chat
<1>2. loop' = loop \/ loop' = NoJob \/ \E c \in Chat : loop' = c /\ chat[c].context # NoJob
  BY <1>1, <1>3, <1>4, <1>5, <1>6, <1>7 DEF CopilotNext, Begins
<1>9. \/ messages' = messages
      \/ \E c \in Chat : SaveQuestion(c) \/ SaveAnswer(c)
  BY <1>3, <1>4, <1>5, <1>6, <1>7 DEF CopilotNext, Begins
<1> QED
  BY <1>1, <1>2, <1>8, <1>9

(* A conversation keeps to its job in a step that begins no chat ...        *)
LEMMA OnlyJobStays ==
  ASSUME BaseInv, BaseInv', StayInv, [CopilotNext]_copilotVars, ~Begins,
         NEW v, NEW j \in Context, NamedIn(v)' \subseteq {j}
  PROVE  OnlyJob(v, j)'
<1>1. \A c \in Chat : Same(c)
  BY NotBegun
<1>2. NamedIn(v) \subseteq {j}
  BY <1>1 DEF NamedIn, Same
<1>3. OnlyJob(v, j)
  BY <1>2 DEF StayInv
<1>4. /\ \A c \in Chat : loop' = c => loop = c \/ chat[c].context # NoJob
      /\ \/ messages' = messages
         \/ \E c \in Chat : \E m : /\ messages' = Append(messages, m) /\ loop = c
                                   /\ m.conversation = chat[c].conversation
                                   /\ m.context = chat[c].context
                                   /\ m.role = "user" \/ (m.role = "assistant" /\ m.at = tick)
  BY LoopAndRows
<1>5. \A c \in Chat : chat'[c].conversation = v => chat'[c].context \in {NoJob, j}
  BY <1>1, <1>3 DEF OnlyJob, Same
<1>8. ASSUME NEW c \in Chat, chat'[c].chose = NoJob, chat'[c].conversation = v,
             NEW i \in 1 .. chat'[c].seen, messages'[i].conversation = v, messages'[i].context = j,
             Cardinality(Overtaking(i, c)') < RecentMessages
      PROVE  chat'[c].context = j
  <2>1. /\ chat[c].chose = NoJob /\ chat[c].conversation = v /\ chat[c].context = chat'[c].context
        /\ chat[c].seen = chat'[c].seen
    BY <1>1, <1>8 DEF Same
  <2>2. \A k \in 1 .. chat[c].seen : k \in DOMAIN messages /\ messages'[k] = messages[k]
    <3>1. \A k \in DOMAIN messages : messages'[k] = messages[k]
      BY <1>4, AppendedRow DEF BaseInv
    <3>2. chat[c].seen \in 0 .. Len(messages) /\ Len(messages) \in Nat /\ DOMAIN messages = 1 .. Len(messages)
      BY DEF StayInv, BaseInv, IsRows
    <3> QED
      BY <3>1, <3>2
  <2>3. Overtaking(i, c)' = Overtaking(i, c)
    BY <1>8, <2>1, <2>2 DEF Overtaking, After
  <2> QED
    BY <1>3, <1>8, <2>1, <2>2, <2>3 DEF OnlyJob
<1>6. CASE messages' = messages
  <2>1. AnswersIn(v, j)' = AnswersIn(v, j)
    BY <1>6 DEF AnswersIn
  <2>2. \A i \in DOMAIN messages : messages[i].conversation = v /\ messages[i].context = NoJob =>
          \A k \in AnswersIn(v, j) : messages[i].at < messages[k].at
    BY <1>3 DEF OnlyJob
  <2>3. ASSUME NEW c \in Chat, loop' = c, chat'[c].conversation = v, chat'[c].context = NoJob
        PROVE  AnswersIn(v, j) = {}
    BY <2>3, <1>1, <1>3, <1>4 DEF OnlyJob, Same
  <2> QED
    BY <1>5, <1>6, <1>8, <2>1, <2>2, <2>3 DEF OnlyJob
<1>7. ASSUME NEW d \in Chat, NEW m, messages' = Append(messages, m), loop = d,
             m.conversation = chat[d].conversation, m.context = chat[d].context,
             m.role = "user" \/ (m.role = "assistant" /\ m.at = tick)
      PROVE  OnlyJob(v, j)'
  <2> PICK n : n = Len(messages) + 1
    OBVIOUS
  <2>1. /\ messages'[n] = m /\ DOMAIN messages' = DOMAIN messages \cup {n}
        /\ \A i \in DOMAIN messages : i \in DOMAIN messages' /\ i # n /\ messages'[i] = messages[i]
    BY <1>7, AppendedRow DEF BaseInv
  <2>2. \A k \in AnswersIn(v, j)' :
          \/ k \in AnswersIn(v, j) /\ k \in DOMAIN messages /\ messages'[k] = messages[k]
          \/ k = n /\ m.role = "assistant" /\ m.at = tick /\ m.conversation = v /\ m.context = j
    <3> TAKE k \in AnswersIn(v, j)'
    <3>1. k \in DOMAIN messages' /\ messages'[k].conversation = v /\ messages'[k].context = j
          /\ messages'[k].role = "assistant"
      BY DEF AnswersIn
    <3>2. CASE k = n
      BY <1>7, <2>1, <3>1, <3>2
    <3>3. CASE k # n
      BY <2>1, <3>1, <3>3 DEF AnswersIn
    <3> QED
      BY <3>2, <3>3
  <2>3. \A i \in DOMAIN messages : messages[i].at \in Nat /\ messages[i].at < tick /\ tick \in Nat
    BY DEF BaseInv, MessageInv
  <2>4. j # NoJob
    BY CopilotAssumption
  <2>5. chat[d].conversation = v /\ chat[d].context = NoJob => AnswersIn(v, j)' = {}
    BY <1>3, <1>7, <2>2, <2>4 DEF OnlyJob
  <2>6. ASSUME NEW i \in DOMAIN messages', messages'[i].conversation = v, messages'[i].context = NoJob,
               NEW k \in AnswersIn(v, j)'
        PROVE  messages'[i].at < messages'[k].at
    <3>1. i \in DOMAIN messages /\ messages'[i] = messages[i]
      BY <1>7, <2>1, <2>5, <2>6
    <3>2. CASE k \in AnswersIn(v, j) /\ messages'[k] = messages[k]
      BY <1>3, <2>6, <3>1, <3>2 DEF OnlyJob
    <3>3. CASE k = n /\ m.at = tick
      BY <2>1, <2>3, <3>1, <3>3
    <3> QED
      BY <2>2, <3>2, <3>3
  <2>7. ASSUME NEW c \in Chat, loop' = c, chat'[c].conversation = v, chat'[c].context = NoJob
        PROVE  AnswersIn(v, j)' = {}
    <3>1. chat[c].conversation = v /\ chat[c].context = NoJob
      BY <1>1, <2>7 DEF Same
    <3>2. c = d
      BY <1>4, <1>7, <2>7, <3>1
    <3> QED
      BY <2>5, <3>1, <3>2
  <2> QED
    BY <1>5, <1>8, <2>6, <2>7 DEF OnlyJob
<1> QED
  BY <1>4, <1>6, <1>7

(* ... and in one that begins a chat: what it names is the job, or what it  *)
(* recovers.                                                                *)
LEMMA OnlyJobBegun ==
  ASSUME BaseInv, StayInv, NEW c \in Chat, NEW n \in 0 .. conversations, NEW chose, NEW p,
         BeginChat(c, n, chose, p),
         NEW v, NEW j \in Context, NamedIn(v)' \subseteq {j}
  PROVE  OnlyJob(v, j)'
<1> PICK r : r = chat'[c]
  OBVIOUS
<1>1. /\ r.began = tick /\ r.seen = Len(messages) /\ r.chose = chose /\ ChatGoes(c, r)
      /\ r.context = IF chose # NoJob THEN chose ELSE Recovered(r.conversation)
      /\ \/ r.context = NoJob /\ loop' = c
         \/ r.context # NoJob /\ loop' = NoJob
  BY Begun
<1>2. \A b \in Chat : b # c => chat'[b] = chat[b]
  BY <1>1, ChatMoves DEF BaseInv
<1>3. chat[c].chose = NoJob /\ messages' = messages
  BY DEF BeginChat, Arrives, BaseInv, ChatInv
<1>4. NamedIn(v) \subseteq {j}
  <2>1. \A e \in Chat : chat[e].conversation = v /\ chat[e].chose # NoJob =>
          chat'[e].conversation = v /\ chat'[e].chose = chat[e].chose
    BY <1>2, <1>3
  <2> QED
    BY <2>1 DEF NamedIn
<1>5. OnlyJob(v, j)
  BY <1>4 DEF StayInv
<1>6. AnswersIn(v, j)' = AnswersIn(v, j)
  BY <1>3 DEF AnswersIn
<1>7. r.conversation = v => /\ r.context \in {NoJob, j}
                            /\ AnswersIn(v, j) # {} => r.context = j
                            /\ \A i \in DOMAIN messages :
                                 /\ messages[i].conversation = v /\ messages[i].context = j
                                 /\ Cardinality(NoneAfter(v, i)) < RecentMessages
                                 => r.context = j
  <2>1. CASE chose # NoJob
    <3>1. r.conversation = v => chose \in NamedIn(v)'
      BY <1>1, <2>1 DEF NamedIn
    <3> QED
      BY <1>1, <2>1, <3>1
  <2>2. CASE chose = NoJob
    BY <1>1, <1>5, <2>2, RecoversItsJob
  <2> QED
    BY <2>1, <2>2
<1>8. \A b \in Chat : chat'[b].conversation = v => chat'[b].context \in {NoJob, j}
  BY <1>2, <1>5, <1>7 DEF OnlyJob
<1>9. \A i \in DOMAIN messages : messages[i].conversation = v /\ messages[i].context = NoJob =>
        \A k \in AnswersIn(v, j) : messages[i].at < messages[k].at
  BY <1>5 DEF OnlyJob
<1>10. ASSUME NEW b \in Chat, loop' = b, chat'[b].conversation = v, chat'[b].context = NoJob
       PROVE  AnswersIn(v, j) = {}
  BY <1>1, <1>7, <1>10, CopilotAssumption DEF Chat
<1>11. ASSUME NEW b \in Chat, chat'[b].chose = NoJob, chat'[b].conversation = v,
              NEW i \in 1 .. chat'[b].seen, messages[i].conversation = v, messages[i].context = j,
              Cardinality(Overtaking(i, b)') < RecentMessages
       PROVE  chat'[b].context = j
  <2>1. CASE b = c
    <3>1. r.seen = Len(messages) /\ DOMAIN messages = 1 .. Len(messages)
      BY <1>1 DEF BaseInv, IsRows
    <3>2. Overtaking(i, b)' = NoneAfter(v, i)
      BY <1>3, <1>11, <2>1, <3>1 DEF Overtaking, NoneAfter, After
    <3> QED
      BY <1>7, <1>11, <2>1, <3>1, <3>2
  <2>2. CASE b # c
    <3>1. chat'[b] = chat[b]
      BY <1>2, <2>2
    <3>2. Overtaking(i, b)' = Overtaking(i, b)
      BY <1>3, <3>1 DEF Overtaking, After
    <3> QED
      BY <1>5, <1>11, <3>1, <3>2 DEF OnlyJob
  <2> QED
    BY <2>1, <2>2
<1> QED
  BY <1>3, <1>6, <1>8, <1>9, <1>10, <1>11 DEF OnlyJob

LEMMA StayStep == BaseInv /\ BaseInv' /\ StayInv /\ [CopilotNext]_copilotVars => StayInv'
<1> SUFFICES ASSUME BaseInv, BaseInv', StayInv, [CopilotNext]_copilotVars PROVE StayInv'
  OBVIOUS
<1>1. CASE ~Begins
  <2>1. \A c \in Chat : Same(c)
    BY <1>1, NotBegun
  <2>2. ASSUME NEW c \in Chat
        PROVE  /\ chat'[c].chose \in Context \cup {NoJob}
               /\ chat'[c].seen \in 0 .. Len(messages)'
               /\ chat'[c].chose # NoJob => chat'[c].context = chat'[c].chose
               /\ chat'[c].pc = "awaiting" => chat'[c].context # NoJob
    <3>1. Len(messages) \in Nat /\ Len(messages') \in Nat /\ Len(messages) <= Len(messages')
      <4>1. \A m : IsRows(Append(messages, m)) /\ Len(Append(messages, m)) = Len(messages) + 1
        BY AppendedRow DEF BaseInv
      <4>2. messages' = messages \/ \E m : messages' = Append(messages, m)
        BY <1>1, LoopAndRows
      <4>3. Len(messages) \in Nat
        BY DEF BaseInv, IsRows
      <4> QED
        BY <4>1, <4>2, <4>3
    <3>2. chat'[c].seen = chat[c].seen /\ chat[c].seen \in 0 .. Len(messages)
      BY <2>1 DEF StayInv, Same
    <3> QED
      BY <2>1, <3>1, <3>2 DEF StayInv, Same
  <2>3. \A v : \A j \in Context : NamedIn(v)' \subseteq {j} => OnlyJob(v, j)'
    BY <1>1, OnlyJobStays
  <2> QED
    BY <2>2, <2>3 DEF StayInv
<1>2. ASSUME NEW c \in Chat, NEW n \in 0 .. conversations, NEW chose \in Context \cup {NoJob}, NEW p,
             BeginChat(c, n, chose, p)
      PROVE  StayInv'
  <2>1. PICK r : r = chat'[c]
    OBVIOUS
  <2>2. /\ r.seen = Len(messages) /\ r.chose = chose /\ (chose # NoJob => r.context = chose) /\ ChatGoes(c, r)
        /\ \/ r.context = NoJob /\ r.pc = "asking"
           \/ r.context # NoJob /\ r.pc \in {"refused", "awaiting"}
    BY <1>2, <2>1, Begun
  <2>3. \A b \in Chat : b # c => chat'[b] = chat[b]
    BY <2>2, ChatMoves DEF BaseInv
  <2>4. ASSUME NEW b \in Chat
        PROVE  /\ chat'[b].chose \in Context \cup {NoJob}
               /\ chat'[b].seen \in 0 .. Len(messages)'
               /\ chat'[b].chose # NoJob => chat'[b].context = chat'[b].chose
               /\ chat'[b].pc = "awaiting" => chat'[b].context # NoJob
    <3>1. messages' = messages /\ Len(messages) \in Nat
      BY <1>2 DEF BeginChat, BaseInv, IsRows
    <3> QED
      BY <2>1, <2>2, <2>3, <3>1 DEF StayInv
  <2>5. \A v : \A j \in Context : NamedIn(v)' \subseteq {j} => OnlyJob(v, j)'
    BY <1>2, OnlyJobBegun
  <2> QED
    BY <2>4, <2>5 DEF StayInv
<1> QED
  BY <1>1, <1>2 DEF Begins

LEMMA StayStart == CopilotInit => StayInv
<1> SUFFICES ASSUME CopilotInit PROVE StayInv
  OBVIOUS
<1>1. /\ messages = <<>> /\ DOMAIN messages = {}
      /\ \A c \in Chat : chat[c].chose = NoJob /\ chat[c].context = NoJob /\ chat[c].pc = "idle" /\ chat[c].seen = 0
  BY DEF CopilotInit, Resting
<1>2. \A v : \A j : AnswersIn(v, j) = {}
  BY <1>1 DEF AnswersIn
<1>3. Len(messages) = 0 /\ 1 .. 0 = {}
  BY <1>1
<1> QED
  BY <1>1, <1>2, <1>3 DEF StayInv, OnlyJob

LEMMA Stays == BaseInv /\ StayInv => StaysOnItsJob
<1> SUFFICES ASSUME BaseInv, StayInv, NEW c \in Chat, NEW d \in Chat,
                    chat[c].chose = NoJob, chat[d].conversation = chat[c].conversation,
                    chat[d].chose # NoJob,
                    {chat[e].chose : e \in {e \in Chat : chat[e].conversation = chat[c].conversation}} \ {NoJob}
                      = {chat[d].chose},
                    NEW i \in 1 .. chat[c].seen, messages[i].chat = d,
                    messages[i].role = "assistant" \/ Cardinality(Overtaking(i, c)) < RecentMessages
             PROVE  chat[c].context = chat[d].chose
  BY DEF StaysOnItsJob
<1>1. PICK v, j : v = chat[c].conversation /\ j = chat[d].chose
  OBVIOUS
<1>2. j \in Context /\ NamedIn(v) \subseteq {j} /\ chat[d].context = j
  BY <1>1 DEF StayInv, NamedIn
<1>3. OnlyJob(v, j)
  BY <1>2 DEF StayInv
<1>4. /\ 1 .. chat[c].seen \subseteq DOMAIN messages /\ i \in DOMAIN messages
      /\ messages[i].conversation = v /\ messages[i].context = j
  <2>1. chat[c].seen \in 0 .. Len(messages) /\ Len(messages) \in Nat /\ DOMAIN messages = 1 .. Len(messages)
    BY DEF StayInv, BaseInv, IsRows
  <2>2. 1 .. chat[c].seen \subseteq DOMAIN messages
    BY <2>1
  <2>3. MessageInv(i)
    BY <2>2 DEF BaseInv
  <2> QED
    BY <1>1, <1>2, <2>2, <2>3 DEF MessageInv
<1>5. Cardinality(Overtaking(i, c)) < RecentMessages
  <2>1. CASE messages[i].role = "assistant"
    <3>1. i \in AnswersIn(v, j)
      BY <1>4, <2>1 DEF AnswersIn
    <3>2. Overtaking(i, c) = {}
      BY <1>1, <1>2, <1>3, <1>4, <3>1, NoneAfterAnswers DEF Overtaking
    <3> QED
      BY <3>2, FS_EmptySet, CopilotAssumption
  <2> QED
    BY <2>1
<1> QED
  BY <1>1, <1>3, <1>4, <1>5 DEF OnlyJob

(* StaysOnItsJob: however many requests interleave at the await, fail or    *)
(* are lost, and however few messages are looked at, a conversation in      *)
(* which one job was named stays about that job, from the question on that  *)
(* named it, unless that has no answer and RecentMessages messages about no *)
(* job overtook it.                                                         *)
THEOREM StaysTheorem == CopilotSpec => []StaysOnItsJob
<1>1. CopilotInit => BaseInv /\ StayInv
  BY BaseStart, StayStart
<1>2. BaseInv /\ StayInv /\ [CopilotNext]_copilotVars => (BaseInv /\ StayInv)'
  BY BaseStep, StayStep
<1>3. BaseInv /\ StayInv => StaysOnItsJob
  BY Stays
<1> QED
  BY <1>1, <1>2, <1>3, PTL DEF CopilotSpec

(* Answers about a job                                                      *)

LEMMA MinOf == \A a, b \in Nat : LET m == Min({a, b}) IN
  m \in Nat /\ m <= a /\ m <= b /\ (m = a \/ m = b)
<1> TAKE a \in Nat, b \in Nat
<1>1. \E x \in {a, b} : \A y \in {a, b} : x =< y
  <2>1. a <= a /\ b <= b /\ (a <= b \/ b <= a)
    OBVIOUS
  <2> QED
    BY <2>1
<1>2. Min({a, b}) \in {a, b} /\ \A y \in {a, b} : Min({a, b}) =< y
  BY <1>1 DEF Min
<1> QED
  BY <1>2

LEMMA FirstNOf ==
  ASSUME NEW S, NEW s \in Seq(S), NEW n \in Nat
  PROVE  /\ FirstN(s, n) \in Seq(S) /\ Len(FirstN(s, n)) <= n /\ Len(FirstN(s, n)) <= Len(s)
         /\ Len(FirstN(s, n)) = n \/ Len(FirstN(s, n)) = Len(s)
         /\ \A i \in 1 .. Len(FirstN(s, n)) : FirstN(s, n)[i] = s[i]
<1>1. PICK m : m = Min({n, Len(s)})
  OBVIOUS
<1>2. m \in Nat /\ m <= n /\ m <= Len(s) /\ (m = n \/ m = Len(s))
  BY <1>1, MinOf
<1>3. FirstN(s, n) = SubSeq(s, 1, m)
  BY <1>1 DEF FirstN
<1>4. /\ SubSeq(s, 1, m) \in Seq(S) /\ Len(SubSeq(s, 1, m)) = m
      /\ \A i \in 1 .. m : SubSeq(s, 1, m)[i] = s[i]
  BY <1>2
<1> QED
  BY <1>2, <1>3, <1>4

Sourced == {"profile", "cv", "memory", "knowledge", "page", "job", "match"}

LEMMA JobIsASource ==
  ASSUME NEW prompt, NEW context, context # NoJob
  PROVE  "job" \in ToSet(SourcesOf(prompt, context))
<1>1. Grounding(prompt) \in Seq(Sourced)
  <2>1. Cardinality(prompt.hits \cap Foundation) \in Nat
    <3>1. IsFiniteSet(Foundation)
      <4>1. IsFiniteSet({"cv-core-clarity"})
        BY FS_Singleton
      <4>2. IsFiniteSet({"cv-core-clarity"} \cup {"job-search-signal-strategy"})
        BY <4>1, FS_AddElement
      <4>3. IsFiniteSet({"cv-core-clarity"} \cup {"job-search-signal-strategy"} \cup {"learning-plan-principles"})
        BY <4>2, FS_AddElement
      <4>4. Foundation = {"cv-core-clarity"} \cup {"job-search-signal-strategy"} \cup {"learning-plan-principles"}
        BY DEF Foundation
      <4> QED
        BY <4>3, <4>4
    <3>2. IsFiniteSet(prompt.hits \cap Foundation)
      BY <3>1, FS_Subset
    <3> QED
      BY <3>2, FS_CardinalityType
  <2>2. PICK k : k = Min({3, Cardinality(prompt.hits \cap Foundation)})
    OBVIOUS
  <2>3. k \in Nat
    BY <2>1, <2>2, MinOf
  <2>4. PICK p, q, r : /\ p = IF HasCv THEN <<"cv">> ELSE <<>>
                       /\ q = IF \E x \in DOMAIN memory : memory[x] > 0 THEN <<"memory">> ELSE <<>>
                       /\ r = [i \in 1 .. k |-> "knowledge"]
    OBVIOUS
  <2>5. p \in Seq(Sourced) /\ q \in Seq(Sourced) /\ <<"profile">> \in Seq(Sourced)
    BY <2>4 DEF Sourced
  <2>6. r \in Seq(Sourced)
    BY <2>3, <2>4 DEF Sourced
  <2>7. Grounding(prompt) = <<"profile">> \o p \o q \o r
    BY <2>2, <2>4 DEF Grounding
  <2>8. <<"profile">> \o p \o q \in Seq(Sourced)
    BY <2>5
  <2> QED
    BY <2>6, <2>7, <2>8
<1>2. PICK g : g = FirstN(Grounding(prompt), 6)
  OBVIOUS
<1>3. g \in Seq(Sourced) /\ Len(g) <= 6 /\ Len(g) \in Nat
  BY <1>1, <1>2, FirstNOf
<1>4. PICK s, t : s = <<"page", "job", "match">> /\ t = FirstN(s, 4)
  OBVIOUS
<1>5. s \in Seq(Sourced) /\ Len(s) = 3 /\ s[2] = "job"
  BY <1>4 DEF Sourced
<1>6. t \in Seq(Sourced) /\ Len(t) = 3 /\ t[2] = "job"
  <2>0. 4 \in Nat
    OBVIOUS
  <2>1. /\ FirstN(s, 4) \in Seq(Sourced) /\ Len(FirstN(s, 4)) <= 4
        /\ Len(FirstN(s, 4)) = 4 \/ Len(FirstN(s, 4)) = Len(s)
        /\ Len(FirstN(s, 4)) <= Len(s)
        /\ \A i \in 1 .. Len(FirstN(s, 4)) : FirstN(s, 4)[i] = s[i]
    BY <1>5, <2>0, FirstNOf, Zenon
  <2>2. t \in Seq(Sourced) /\ Len(t) = 3
    BY <1>4, <1>5, <2>1
  <2> QED
    BY <1>4, <1>5, <2>1, <2>2
<1>7. PICK u : u = g \o t
  OBVIOUS
<1>8. u \in Seq(Sourced) /\ Len(u) = Len(g) + 3 /\ u[Len(g) + 2] = "job"
  <2>1. u \in Seq(Sourced) /\ Len(u) = Len(g) + Len(t)
    BY <1>3, <1>6, <1>7, ConcatProperties
  <2>2. \A i \in 1 .. Len(g) + Len(t) : u[i] = IF i <= Len(g) THEN g[i] ELSE t[i - Len(g)]
    BY <1>3, <1>6, <1>7, ConcatProperties
  <2>3. PICK k : k = Len(g) + 2
    OBVIOUS
  <2>4. k \in 1 .. Len(g) + Len(t) /\ ~(k <= Len(g)) /\ k - Len(g) = 2
    BY <2>3, <1>3, <1>6
  <2>5. u[k] = t[2]
    BY <2>2, <2>4
  <2> QED
    BY <2>1, <2>3, <2>5, <1>6
<1>9. PICK w : w = FirstN(u, 8)
  OBVIOUS
<1>10. w \in Seq(Sourced) /\ Len(g) + 2 \in 1 .. Len(w) /\ w[Len(g) + 2] = "job"
  <2>1. /\ w \in Seq(Sourced)
        /\ Len(w) = 8 \/ Len(w) = Len(u)
        /\ \A i \in 1 .. Len(w) : w[i] = u[i]
    BY <1>8, <1>9, FirstNOf
  <2>2. Len(g) + 2 \in 1 .. Len(w)
    <3>1. PICK n, m : n = Len(g) /\ m = Len(w)
      OBVIOUS
    <3>2. n \in Nat /\ n <= 6 /\ (m = 8 \/ m = n + 3)
      BY <3>1, <2>1, <1>3, <1>8
    <3>3. n + 2 \in 1 .. m
      BY <3>2
    <3> QED
      BY <3>1, <3>3
  <2> QED
    BY <2>1, <2>2, <1>8
<1>11. SourcesOf(prompt, context) = w
  BY <1>2, <1>4, <1>7, <1>9 DEF SourcesOf, JobSources
<1> QED
  BY <1>10, <1>11 DEF ToSet

LEMMA FourHeadings == Cardinality(Headings) = 4
<1>1. IsFiniteSet({"overall"}) /\ Cardinality({"overall"}) = 1
  BY FS_Singleton
<1>2. /\ IsFiniteSet({"overall"} \cup {"fit"})
      /\ Cardinality({"overall"} \cup {"fit"}) = 2
  BY <1>1, FS_AddElement
<1>3. /\ IsFiniteSet({"overall"} \cup {"fit"} \cup {"cv"})
      /\ Cardinality({"overall"} \cup {"fit"} \cup {"cv"}) = 3
  BY <1>2, FS_AddElement
<1>4. Cardinality({"overall"} \cup {"fit"} \cup {"cv"} \cup {"apply"}) = 4
  BY <1>3, FS_AddElement
<1>5. Headings = {"overall"} \cup {"fit"} \cup {"cv"} \cup {"apply"}
  BY DEF Headings
<1> QED
  BY <1>4, <1>5

(* The deterministic analysis is strong enough.                             *)
LEMMA AnalysisIsStrong ==
  ASSUME NEW posting, Analysis(posting).says \cap Generic = {}
  PROVE  ~NeedsFallback(Analysis(posting), posting)
<1>1. PICK a : a = Analysis(posting)
  OBVIOUS
<1>2. a.chars = 600 /\ About[posting].title \in a.says /\ Headings \subseteq a.says
  BY <1>1 DEF Analysis
<1>3. a.says \cap Headings = Headings
  BY <1>2
<1>4. Cardinality(a.says \cap Headings) = 4
  BY <1>3, FourHeadings
<1>5. PICK signals : signals = {About[posting].title, About[posting].company} \cup ToSet(FirstN(About[posting].matched, 1))
  OBVIOUS
<1>6. a.says \cap signals # {}
  BY <1>2, <1>5
<1>7. ~(a.chars < 280) /\ ~(Cardinality(a.says \cap Headings) < 2)
  BY <1>2, <1>4
<1> QED
  BY <1>1, <1>5, <1>6, <1>7 DEF NeedsFallback

LEMMA AnswersAreStrong ==
  ASSUME NoPhrase, NEW context \in Context \cup {NoJob}, NEW reply, context # NoJob, context.mode = "job_fit"
  PROVE  ~NeedsFallback(AnswerTo(reply, context), context.job)
<1>1. CASE reply = Failed \/ NeedsFallback(reply, context.job)
  BY <1>1, AnalysisIsStrong DEF AnswerTo, NoPhrase
<1>2. CASE ~(reply = Failed \/ NeedsFallback(reply, context.job))
  BY <1>2 DEF AnswerTo
<1> QED
  BY <1>1, <1>2

(* A chat goes on without a new message.                                    *)
LEMMA SpecificByMove ==
  ASSUME BaseInv, SpecificInv, NEW c \in Chat, NEW r, ChatGoes(c, r), messages' = messages,
         r.context \in Context \cup {NoJob},
         r.pc \in {"learning", "answering"} => Specific(r)
  PROVE  SpecificInv'
<1>1. chat'[c] = r /\ \A b \in Chat : b # c => chat'[b] = chat[b]
  BY ChatMoves DEF BaseInv
<1>2. ASSUME NEW b \in Chat
      PROVE  /\ chat'[b].context \in Context \cup {NoJob}
             /\ chat'[b].pc \in {"learning", "answering"} => Specific(chat'[b])
  BY <1>1 DEF SpecificInv
<1>3. \A i \in DOMAIN messages : messages[i].role = "assistant" => Specific(messages[i])
  BY DEF SpecificInv
<1> QED
  BY <1>2, <1>3 DEF SpecificInv

LEMMA SpecificByGiving ==
  ASSUME BaseInv, SpecificInv, NEW c \in Chat, NEW pc \in Places \ {"learning", "answering"}, Give(c, pc),
         messages' = messages
  PROVE  SpecificInv'
<1>1. PICK r : r = Ended(chat[c], pc)
  OBVIOUS
<1>2. ChatGoes(c, r) /\ ChatInv(c)
  BY <1>1 DEF Give, BaseInv
<1>3. r.pc = pc /\ r.context = chat[c].context
  BY <1>1, <1>2, EndedChat
<1>4. r.context \in Context \cup {NoJob} /\ r.pc \notin {"learning", "answering"}
  BY <1>3 DEF SpecificInv
<1> QED
  BY <1>2, <1>4, SpecificByMove

LEMMA SpecificThink ==
  ASSUME NoPhrase, BaseInv, SpecificInv, NEW c \in Chat, NEW reply, Think(c, reply)
  PROVE  SpecificInv'
<1>1. PICK answer, s : answer = AnswerTo(reply, chat[c].context)
                       /\ s = SourcesOf(chat[c].prompt, chat[c].context)
  OBVIOUS
<1>2. messages' = messages /\ IsChat(chat[c]) /\ chat[c].context \in Context \cup {NoJob}
  BY DEF Think, BaseInv, ChatInv, SpecificInv
<1>3. CASE answer = Failed
  <2>1. PICK pc : pc = "bad gateway"
    OBVIOUS
  <2>2. Give(c, pc)
    BY <1>1, <1>3, <2>1 DEF Think
  <2> QED
    BY <1>2, <2>1, <2>2, SpecificByGiving DEF Places
<1>4. CASE answer # Failed
  <2>1. PICK r : r = [chat[c] EXCEPT !.pc = "learning", !.answer = answer, !.sources = s]
    OBVIOUS
  <2>2. ChatGoes(c, r)
    BY <1>1, <1>4, <2>1 DEF Think
  <2>3. r.context = chat[c].context /\ r.answer = answer /\ r.sources = s
    BY <1>2, <2>1 DEF IsChat
  <2>4. Specific(r)
    <3>1. r.context # NoJob => "job" \in ToSet(s)
      BY <1>1, <2>3, JobIsASource
    <3>2. r.context # NoJob /\ r.context.mode = "job_fit" => ~NeedsFallback(answer, r.context.job)
      BY <1>1, <1>2, <2>3, AnswersAreStrong
    <3> QED
      BY <2>3, <3>1, <3>2 DEF Specific
  <2> QED
    BY <1>2, <2>2, <2>3, <2>4, SpecificByMove
<1> QED
  BY <1>3, <1>4

LEMMA SpecificLearn ==
  ASSUME BaseInv, SpecificInv, NEW c \in Chat, Learn(c)
  PROVE  SpecificInv'
<1>1. /\ messages' = messages /\ IsChat(chat[c]) /\ Specific(chat[c])
      /\ chat[c].context \in Context \cup {NoJob}
  BY DEF Learn, BaseInv, ChatInv, SpecificInv
<1>2. CASE Usable(chat[c].answer)
  <2>1. PICK r : r = [chat[c] EXCEPT !.pc = "answering"]
    OBVIOUS
  <2>2. ChatGoes(c, r)
    BY <1>2, <2>1 DEF Learn
  <2>3. r.context = chat[c].context /\ r.answer = chat[c].answer /\ r.sources = chat[c].sources
    BY <1>1, <2>1 DEF IsChat
  <2>4. Specific(r)
    BY <1>1, <2>3 DEF Specific
  <2> QED
    BY <1>1, <2>2, <2>3, <2>4, SpecificByMove
<1>3. CASE ~Usable(chat[c].answer)
  <2>1. PICK pc : pc = "bad gateway"
    OBVIOUS
  <2>2. Give(c, pc) /\ pc \in Places \ {"learning", "answering"}
    BY <1>3, <2>1 DEF Learn, Places
  <2> QED
    BY <1>1, <2>2, SpecificByGiving
<1> QED
  BY <1>2, <1>3

(* A chat stores what it has.                                               *)
LEMMA SpecificStore ==
  ASSUME BaseInv, SpecificInv, NEW c \in Chat, SaveQuestion(c) \/ SaveAnswer(c)
  PROVE  SpecificInv'
<1>1. PICK pc, m : /\ ChatGoes(c, [chat[c] EXCEPT !.pc = pc]) /\ messages' = Append(messages, m)
                   /\ pc \in {"thinking", "closing"}
                   /\ m.role = "assistant" => Specific(m)
  <2>1. CASE SaveQuestion(c)
    <3>1. PICK pc, m : pc = "thinking" /\ m = Message(c, "user", chat[c].began, NoJob)
      OBVIOUS
    <3>2. m.role # "assistant"
      BY <3>1 DEF Message
    <3>3. ChatGoes(c, [chat[c] EXCEPT !.pc = pc]) /\ messages' = Append(messages, m)
      BY <2>1, <3>1 DEF SaveQuestion
    <3> QED
      BY <3>1, <3>2, <3>3
  <2>2. CASE SaveAnswer(c)
    <3>1. PICK pc, m : pc = "closing" /\ m = Message(c, "assistant", tick, chat[c].answer)
      OBVIOUS
    <3>2. m.context = chat[c].context /\ m.answer = chat[c].answer /\ m.sources = chat[c].sources
      BY <3>1 DEF Message
    <3>3. ChatGoes(c, [chat[c] EXCEPT !.pc = pc]) /\ messages' = Append(messages, m)
      BY <2>2, <3>1 DEF SaveAnswer
    <3>4. Specific(chat[c])
      BY <2>2 DEF SaveAnswer, SpecificInv
    <3>5. Specific(m)
      BY <3>2, <3>4 DEF Specific
    <3> QED
      BY <3>1, <3>3, <3>5
  <2> QED
    BY <2>1, <2>2
<1>2. PICK r : r = [chat[c] EXCEPT !.pc = pc]
  OBVIOUS
<1>3. r.pc = pc /\ r.context = chat[c].context
  BY <1>2 DEF BaseInv, ChatInv, IsChat
<1>4. chat'[c] = r /\ \A b \in Chat : b # c => chat'[b] = chat[b]
  BY <1>1, <1>2, ChatMoves DEF BaseInv
<1>5. ASSUME NEW b \in Chat
      PROVE  /\ chat'[b].context \in Context \cup {NoJob}
             /\ chat'[b].pc \in {"learning", "answering"} => Specific(chat'[b])
  BY <1>1, <1>3, <1>4 DEF SpecificInv
<1>6. ASSUME NEW i \in DOMAIN messages', messages'[i].role = "assistant" PROVE Specific(messages'[i])
  <2>1. PICK n : n = Len(messages) + 1
    OBVIOUS
  <2>2. /\ messages'[n] = m /\ DOMAIN messages' = DOMAIN messages \cup {n}
        /\ \A k \in DOMAIN messages : messages'[k] = messages[k]
    BY <1>1, <2>1, AppendedRow DEF BaseInv
  <2>3. CASE i = n
    BY <1>1, <1>6, <2>2, <2>3
  <2>4. CASE i # n
    BY <1>6, <2>2, <2>4 DEF SpecificInv
  <2> QED
    BY <2>3, <2>4
<1> QED
  BY <1>5, <1>6 DEF SpecificInv

LEMMA SpecificBegin ==
  ASSUME BaseInv, SpecificInv, NEW c \in Chat, NEW v \in 0 .. conversations,
         NEW chose \in Context \cup {NoJob}, NEW p, BeginChat(c, v, chose, p)
  PROVE  SpecificInv'
<1>1. PICK r : r = chat'[c]
  OBVIOUS
<1>2. /\ ChatGoes(c, r) /\ r.pc \in {"asking", "refused", "awaiting"}
      /\ r.context = IF chose # NoJob THEN chose ELSE Recovered(r.conversation)
  BY <1>1, Begun
<1>3. messages' = messages
  BY DEF BeginChat
<1>4. \A x : Recovered(x) \in Context \cup {NoJob}
  <2> TAKE x
  <2> SUFFICES ASSUME Recovered(x) # NoJob PROVE Recovered(x) \in Context \cup {NoJob}
    OBVIOUS
  <2>1. PICK i \in DOMAIN messages : messages[i].context = Recovered(x)
    BY RecoveredIsThere
  <2> QED
    BY <2>1 DEF BaseInv, MessageInv, SpecificInv
<1> QED
  BY <1>2, <1>3, <1>4, SpecificByMove

LEMMA SpecificStep == NoPhrase /\ BaseInv /\ SpecificInv /\ [CopilotNext]_copilotVars => SpecificInv'
<1> SUFFICES ASSUME NoPhrase, BaseInv, SpecificInv, [CopilotNext]_copilotVars PROVE SpecificInv'
  OBVIOUS
<1>1. ASSUME NEW c \in Chat, PageRead(c) PROVE SpecificInv'
  <2>1. PICK pc \in {"asking", "refused"} : ChatGoes(c, [chat[c] EXCEPT !.pc = pc, !.kind = "gone"])
    BY <1>1 DEF PageRead
  <2>2. PICK r : r = [chat[c] EXCEPT !.pc = pc, !.kind = "gone"]
    OBVIOUS
  <2>3. r.pc = pc /\ r.context = chat[c].context
    BY <2>2 DEF BaseInv, ChatInv, IsChat
  <2>4. messages' = messages /\ r.context \in Context \cup {NoJob}
    BY <1>1, <2>3 DEF PageRead, stored, SpecificInv
  <2> QED
    BY <2>1, <2>2, <2>3, <2>4, SpecificByMove
<1>2. ASSUME NEW c \in Chat, CloseChat(c) PROVE SpecificInv'
  <2>1. PICK pc : pc = "answered"
    OBVIOUS
  <2>2. Give(c, pc) /\ pc \in Places \ {"learning", "answering"} /\ messages' = messages
    BY <1>2, <2>1 DEF CloseChat, Places
  <2> QED
    BY <2>2, SpecificByGiving
<1>3. ASSUME NEW c \in Chat, NEW reply, Suggest(c, reply) PROVE SpecificInv'
  <2>1. PICK pc : pc = IF reply = Failed THEN "bad gateway" ELSE "suggested"
    OBVIOUS
  <2>2. Give(c, pc) /\ pc \in Places \ {"learning", "answering"} /\ messages' = messages
    BY <1>3, <2>1 DEF Suggest, Places, NoQuestionYet
  <2> QED
    BY <2>2, SpecificByGiving
<1>4. ASSUME Stop PROVE SpecificInv'
  <2>1. messages' = messages
    BY <1>4 DEF Stop, stored
  <2>2. ASSUME NEW c \in Chat
        PROVE  /\ chat'[c].context \in Context \cup {NoJob}
               /\ chat'[c].pc \in {"learning", "answering"} => Specific(chat'[c])
    <3>1. chat'[c] = IF chat[c].pc \in Running THEN Ended(chat[c], "lost") ELSE chat[c]
      BY <1>4 DEF Stop
    <3>2. ChatInv(c) /\ "lost" \in Places
      BY DEF BaseInv, Places
    <3>3. CASE chat[c].pc \in Running
      BY <3>1, <3>2, <3>3, EndedChat DEF SpecificInv
    <3>4. CASE chat[c].pc \notin Running
      BY <3>1, <3>4 DEF SpecificInv
    <3> QED
      BY <3>3, <3>4
  <2>3. \A i \in DOMAIN messages : messages[i].role = "assistant" => Specific(messages[i])
    BY DEF SpecificInv
  <2> QED
    BY <2>1, <2>2, <2>3 DEF SpecificInv
<1>5. ASSUME UNCHANGED <<messages, chat>> PROVE SpecificInv'
  BY <1>5 DEF SpecificInv
<1>6. UNCHANGED copilotVars => UNCHANGED <<messages, chat>>
  BY DEF copilotVars
<1>7. ASSUME NEW j \in KnownJob, JobChanges(j) PROVE UNCHANGED <<messages, chat>>
  BY <1>7 DEF JobChanges, stored
<1> QED
  BY <1>1, <1>2, <1>3, <1>4, <1>5, <1>6, <1>7, SpecificThink, SpecificLearn, SpecificStore, SpecificBegin
     DEF CopilotNext

LEMMA SpecificStart == CopilotInit => SpecificInv
  BY DEF CopilotInit, SpecificInv, Resting

(* KeepsToItsJob: in any number of interleaved requests a conversation      *)
(* about one job stays about it, and no answer in job_fit mode is one the   *)
(* code itself calls too weak, provided that no posting has the stock       *)
(* phrase of a weak answer among its own texts: the deterministic analysis  *)
(* repeats what the posting says.                                           *)
THEOREM KeepsTheorem == ASSUME NoPhrase PROVE CopilotSpec => []KeepsToItsJob
<1>1. CopilotInit => BaseInv /\ SpecificInv
  BY BaseStart, SpecificStart
<1>2. BaseInv /\ SpecificInv /\ [CopilotNext]_copilotVars => (BaseInv /\ SpecificInv)'
  BY BaseStep, SpecificStep
<1>3. SpecificInv => JobAnswersAreSpecific
  BY DEF SpecificInv, Specific, JobAnswersAreSpecific
<1>4. CopilotSpec => []JobAnswersAreSpecific
  BY <1>1, <1>2, <1>3, PTL DEF CopilotSpec
<1>5. JobAnswersAreSpecific /\ StaysOnItsJob <=> KeepsToItsJob
  BY DEF KeepsToItsJob
<1> QED
  BY <1>4, <1>5, StaysTheorem, PTL

---------------------------------------------------------------------------
(* PageContext                                                              *)
(*                                                                         *)
(* The lines of a page are read by folds.  What a fold gives is found along *)
(* the prefixes of its sequence.                                            *)

LEMMA UniqueFold ==
  ASSUME NEW L, NEW s \in Seq(L)
  PROVE  \E p \in [0 .. Len(s) -> Seq(L)] :
           /\ p[0] = <<>>
           /\ \A n \in 1 .. Len(s) : p[n] = IF s[n] \in ToSet(p[n - 1]) THEN p[n - 1] ELSE Append(p[n - 1], s[n])
           /\ p[Len(s)] = Unique(s)
<1>1. PICK N : N = Len(s) /\ N \in Nat /\ DOMAIN s = 1 .. N
  OBVIOUS
<1>2. PICK iter : iter = CHOOSE g : g = [t \in SUBSET DOMAIN s |->
            IF t = {} THEN <<>>
            ELSE LET x == Max(t) IN IF s[x] \in ToSet(g[t \ {x}]) THEN g[t \ {x}] ELSE Append(g[t \ {x}], s[x])]
  OBVIOUS
<1>3. Unique(s) = iter[DOMAIN s]
  BY <1>2 DEF Unique, FoldLeft, MapThenFoldSet
<1>4. PICK step : step = [n \in 1 .. N |-> [v \in Seq(L) |-> IF s[n] \in ToSet(v) THEN v ELSE Append(v, s[n])]]
  OBVIOUS
<1>0. PICK V : V = Seq(L)
  OBVIOUS
<1>5. N \in Nat /\ <<>> \in V /\ step \in [1 .. N -> [V -> V]]
  <2>1. \A n \in 1 .. N : s[n] \in L
    BY <1>1
  <2>2. \A n \in 1 .. N : \A v \in Seq(L) : (IF s[n] \in ToSet(v) THEN v ELSE Append(v, s[n])) \in Seq(L)
    BY <2>1
  <2> QED
    BY <1>0, <1>1, <1>4, <2>2
<1>6. \A n \in 1 .. N : \A v \in Seq(L) : step[n][v] = IF s[n] \in ToSet(v) THEN v ELSE Append(v, s[n])
  BY <1>4
<1>7. iter = [t \in SUBSET DOMAIN s |->
            IF t = {} THEN <<>>
            ELSE LET x == Max(t) IN IF s[x] \in ToSet(iter[t \ {x}]) THEN iter[t \ {x}] ELSE Append(iter[t \ {x}], s[x])]
  <2>0. PICK f : f \in FoldsBy(N, V, <<>>, step)
    BY <1>5, FoldExists
  <2>1. /\ f \in [SUBSET (1 .. N) -> V]
        /\ \A t \in SUBSET (1 .. N) : f[t] = IF t = {} THEN <<>> ELSE step[Max(t)][f[t \ {Max(t)}]]
    BY <2>0 DEF FoldsBy
  <2>2. ASSUME NEW t \in SUBSET (1 .. N)
        PROVE  f[t] = IF t = {} THEN <<>>
                      ELSE LET x == Max(t) IN IF s[x] \in ToSet(f[t \ {x}]) THEN f[t \ {x}] ELSE Append(f[t \ {x}], s[x])
    <3>1. CASE t = {}
      BY <2>1, <3>1
    <3>2. CASE t # {}
      <4>1. Max(t) \in 1 .. N
        BY <1>1, <3>2, MaxIn
      <4>2. f[t \ {Max(t)}] \in Seq(L)
        BY <1>0, <2>1
      <4>3. f[t] = step[Max(t)][f[t \ {Max(t)}]]
        BY <2>1, <3>2
      <4> QED
        BY <1>6, <3>2, <4>1, <4>2, <4>3
    <3> QED
      BY <3>1, <3>2
  <2>3. f = [t \in SUBSET DOMAIN s |->
            IF t = {} THEN <<>>
            ELSE LET x == Max(t) IN IF s[x] \in ToSet(f[t \ {x}]) THEN f[t \ {x}] ELSE Append(f[t \ {x}], s[x])]
    BY <1>1, <2>1, <2>2
  <2> QED
    BY <1>2, <2>3
<1>8. iter[{}] = <<>>
  BY <1>7
<1>9. ASSUME NEW t \in SUBSET (1 .. N), t # {}, iter[t \ {Max(t)}] \in Seq(L)
      PROVE  iter[t] = step[Max(t)][iter[t \ {Max(t)}]]
  <2>1. Max(t) \in 1 .. N
    BY <1>1, <1>9, MaxIn
  <2>2. iter[t] = IF s[Max(t)] \in ToSet(iter[t \ {Max(t)}]) THEN iter[t \ {Max(t)}]
                  ELSE Append(iter[t \ {Max(t)}], s[Max(t)])
    BY <1>1, <1>7, <1>9
  <2> QED
    BY <1>6, <1>9, <2>1, <2>2
<1>10. PICK p : p \in RunsOf(N, V, <<>>, step) /\ p[N] = iter[1 .. N]
  <2>1. \A t \in SUBSET (1 .. N) : t # {} /\ iter[t \ {Max(t)}] \in V => iter[t] = step[Max(t)][iter[t \ {Max(t)}]]
    BY <1>0, <1>9
  <2>2. iter[1 .. N] \in {p[N] : p \in RunsOf(N, V, <<>>, step)}
    BY <1>5, <1>8, <2>1, FoldRun
  <2> QED
    BY <2>2
<1>11. p \in [0 .. N -> Seq(L)] /\ p[0] = <<>> /\ \A n \in 1 .. N : p[n] = step[n][p[n - 1]]
  BY <1>0, <1>10 DEF RunsOf
<1>12. \A n \in 1 .. N : p[n - 1] \in Seq(L)
  BY <1>1, <1>11
<1>13. \A n \in 1 .. N : p[n] = IF s[n] \in ToSet(p[n - 1]) THEN p[n - 1] ELSE Append(p[n - 1], s[n])
  BY <1>6, <1>11, <1>12
<1> QED
  BY <1>1, <1>3, <1>10, <1>11, <1>13

LEMMA AppendSet ==
  ASSUME NEW L, NEW q \in Seq(L), NEW x \in L
  PROVE  ToSet(Append(q, x)) = ToSet(q) \cup {x}
<1>1. PICK r : r = Append(q, x)
  OBVIOUS
<1>2. /\ DOMAIN r = 1 .. (Len(q) + 1) /\ DOMAIN q = 1 .. Len(q) /\ Len(q) \in Nat
      /\ r[Len(q) + 1] = x
      /\ \A i \in 1 .. Len(q) : r[i] = q[i]
  BY <1>1
<1>3. {r[i] : i \in 1 .. (Len(q) + 1)} = {q[i] : i \in 1 .. Len(q)} \cup {x}
  BY <1>2
<1> QED
  BY <1>1, <1>2, <1>3 DEF ToSet

LEMMA UniqueOf ==
  ASSUME NEW L, NEW s \in Seq(L)
  PROVE  Unique(s) \in Seq(L) /\ ToSet(Unique(s)) = ToSet(s)
<1>1. PICK N : N = Len(s) /\ N \in Nat /\ DOMAIN s = 1 .. N
  OBVIOUS
<1>2. PICK p \in [0 .. N -> Seq(L)] :
           /\ p[0] = <<>>
           /\ \A n \in 1 .. N : p[n] = IF s[n] \in ToSet(p[n - 1]) THEN p[n - 1] ELSE Append(p[n - 1], s[n])
           /\ p[N] = Unique(s)
  BY <1>1, UniqueFold
<1>3. PICK S : S = {n \in 0 .. N : ToSet(p[n]) = {s[i] : i \in 1 .. n}}
  OBVIOUS
<1>4. 0 \in S
  BY <1>1, <1>2, <1>3 DEF ToSet
<1>5. ASSUME NEW n \in 1 .. N, n - 1 \in S PROVE n \in S
  <2>1. PICK q \in Seq(L) : q = p[n - 1] /\ ToSet(q) = {s[i] : i \in 1 .. (n - 1)}
    BY <1>1, <1>3, <1>5
  <2>2. {s[i] : i \in 1 .. n} = {s[i] : i \in 1 .. (n - 1)} \cup {s[n]}
    <3>1. n \in 1 .. n /\ \A i \in 1 .. n : i \in 1 .. (n - 1) \/ i = n
      OBVIOUS
    <3>2. \A i \in 1 .. (n - 1) : i \in 1 .. n
      OBVIOUS
    <3> QED
      BY <3>1, <3>2
  <2>3. ToSet(Append(q, s[n])) = ToSet(q) \cup {s[n]}
    <3>1. s[n] \in L
      BY <1>1
    <3> QED
      BY <3>1, AppendSet
  <2>4. ToSet(p[n]) = ToSet(q) \cup {s[n]}
    BY <1>2, <2>1, <2>3
  <2> QED
    BY <1>1, <1>3, <2>1, <2>2, <2>4
<1>6. \A n \in 1 .. N : n - 1 \in S => n \in S
  BY <1>5
<1>7. N \in S
  <2>1. \A n \in 0 .. N : n \in S
    BY <1>1, <1>4, <1>6, PrefixInduction, Zenon
  <2> QED
    BY <1>1, <2>1
<1> QED
  BY <1>1, <1>2, <1>3, <1>7 DEF ToSet

---------------------------------------------------------------------------
(* What is made of a page is made of lines.                                 *)

Blocks == [Section -> Seq(Line)]
Reading == [at : Section \cup {Nothing}, blocks : Blocks]
Listed == [heading : Line, lines : Seq(Line)]

LEMMA WithLineTyped ==
  ASSUME NEW s \in Reading, NEW line \in Line
  PROVE  WithLine(s, line) \in Reading
<1>1. HeadingOf[line] \in Section \cup {Nothing} BY PageAssumption
<1>2. \A b \in Section : Append(s.blocks[b], line) \in Seq(Line) BY DEF Reading, Blocks
<1>3. <<line>> \in Seq(Line) OBVIOUS
<1>4. CASE s.at # Nothing /\ ~(HeadingOf[line] # Nothing /\ LineSize[line] <= 80)
  <2>1. s.at \in Section BY <1>4 DEF Reading
  <2>2. [s.blocks EXCEPT ![s.at] = Append(@, line)] \in Blocks BY <1>2, <2>1 DEF Reading, Blocks
  <2> QED BY <1>4, <2>2 DEF WithLine, Reading
<1>5. CASE ~(HeadingOf[line] # Nothing /\ LineSize[line] <= 80) /\ s.at = Nothing
  <2>1. [s.blocks EXCEPT !["about_role"] = <<line>>] \in Blocks BY <1>3 DEF Reading, Blocks
  <2> QED BY <1>5, <2>1 DEF WithLine, Reading
<1>6. CASE HeadingOf[line] # Nothing /\ LineSize[line] <= 80 BY <1>1, <1>6 DEF WithLine, Reading
<1> QED BY <1>4, <1>5, <1>6

LEMMA WithListTyped ==
  ASSUME NEW blocks \in Blocks, NEW list \in Listed
  PROVE  WithList(blocks, list) \in Blocks
<1>1. HeadingOf[list.heading] \in Section \cup {Nothing} BY PageAssumption DEF Listed
<1>2. \A b \in Section : blocks[b] \o list.lines \in Seq(Line) BY DEF Listed, Blocks
<1> QED BY <1>1, <1>2 DEF WithList, Blocks

LEMMA LinesOfTyped ==
  ASSUME NEW s \in Seq(Line), NEW lines
  PROVE  LinesOf(s, lines) \in Seq(Line)
<1>0. PICK base : base = <<>>
  OBVIOUS
<1>1. PICK N : N = Len(s) /\ N \in Nat /\ DOMAIN s = 1 .. N
  OBVIOUS
<1>2. PICK iter : iter = CHOOSE g : g = [t \in SUBSET DOMAIN s |->
            IF t = {} THEN base ELSE LET x == Max(t) IN (IF s[x] \in lines THEN Append(g[t \ {x}], s[x]) ELSE g[t \ {x}])]
  OBVIOUS
<1>3. LinesOf(s, lines) = iter[DOMAIN s]
  BY <1>0, <1>2 DEF LinesOf, FoldLeft, MapThenFoldSet
<1>4. PICK step : step = [n \in 1 .. N |-> [v \in Seq(Line) |-> (IF s[n] \in lines THEN Append(v, s[n]) ELSE v)]]
  OBVIOUS
<1>5. PICK V : V = Seq(Line)
  OBVIOUS
<1>6. N \in Nat /\ base \in V /\ step \in [1 .. N -> [V -> V]]
  <2>1. \A n \in 1 .. N : s[n] \in Line
    BY <1>1
  <2>2. \A n \in 1 .. N : \A v \in Seq(Line) : (IF s[n] \in lines THEN Append(v, s[n]) ELSE v) \in Seq(Line)
    BY <2>1
  <2> QED
    BY <1>0, <1>1, <1>4, <1>5, <2>2
<1>7. \A n \in 1 .. N : \A v \in V : step[n][v] = (IF s[n] \in lines THEN Append(v, s[n]) ELSE v)
  BY <1>4, <1>5
<1>8. iter = [t \in SUBSET DOMAIN s |->
            IF t = {} THEN base ELSE LET x == Max(t) IN (IF s[x] \in lines THEN Append(iter[t \ {x}], s[x]) ELSE iter[t \ {x}])]
  <2>0. PICK f : f \in FoldsBy(N, V, base, step)
    BY <1>6, FoldExists
  <2>1. /\ f \in [SUBSET (1 .. N) -> V]
        /\ \A t \in SUBSET (1 .. N) : f[t] = IF t = {} THEN base ELSE step[Max(t)][f[t \ {Max(t)}]]
    BY <2>0 DEF FoldsBy
  <2>2. ASSUME NEW t \in SUBSET (1 .. N)
        PROVE  f[t] = IF t = {} THEN base ELSE LET x == Max(t) IN (IF s[x] \in lines THEN Append(f[t \ {x}], s[x]) ELSE f[t \ {x}])
    <3>1. CASE t = {}
      BY <2>1, <3>1
    <3>2. CASE t # {}
      <4>1. Max(t) \in 1 .. N
        BY <1>1, <3>2, MaxIn
      <4>2. f[t \ {Max(t)}] \in V
        BY <2>1
      <4>3. f[t] = step[Max(t)][f[t \ {Max(t)}]]
        BY <2>1, <3>2
      <4> QED
        BY <1>7, <3>2, <4>1, <4>2, <4>3
    <3> QED
      BY <3>1, <3>2
  <2>3. f = [t \in SUBSET DOMAIN s |->
            IF t = {} THEN base ELSE LET x == Max(t) IN (IF s[x] \in lines THEN Append(f[t \ {x}], s[x]) ELSE f[t \ {x}])]
    BY <1>1, <2>1, <2>2
  <2> QED
    BY <1>2, <2>3
<1>9. iter[{}] = base
  BY <1>8
<1>10. ASSUME NEW t \in SUBSET (1 .. N), t # {}, iter[t \ {Max(t)}] \in V
      PROVE  iter[t] = step[Max(t)][iter[t \ {Max(t)}]]
  <2>1. Max(t) \in 1 .. N
    BY <1>1, <1>10, MaxIn
  <2>2. iter[t] = (IF s[Max(t)] \in lines THEN Append(iter[t \ {Max(t)}], s[Max(t)]) ELSE iter[t \ {Max(t)}])
    BY <1>1, <1>8, <1>10
  <2> QED
    BY <1>7, <1>10, <2>1, <2>2
<1>11. iter[1 .. N] \in {p[N] : p \in RunsOf(N, V, base, step)}
  <2>1. \A t \in SUBSET (1 .. N) : t # {} /\ iter[t \ {Max(t)}] \in V => iter[t] = step[Max(t)][iter[t \ {Max(t)}]]
    BY <1>10
  <2> QED
    BY <1>6, <1>9, <2>1, FoldRun
<1>12. iter[1 .. N] \in V
  <2>1. PICK p \in RunsOf(N, V, base, step) : iter[1 .. N] = p[N]
    BY <1>11
  <2>2. p \in [0 .. N -> V] /\ N \in 0 .. N
    BY <1>1, <2>1 DEF RunsOf
  <2> QED
    BY <2>1, <2>2
<1> QED
  BY <1>1, <1>3, <1>5, <1>12

LEMMA ReadingTyped ==
  ASSUME NEW s \in Seq(Line), NEW base \in Reading
  PROVE  FoldLeft(WithLine, base, s) \in Reading
<1>1. PICK N : N = Len(s) /\ N \in Nat /\ DOMAIN s = 1 .. N
  OBVIOUS
<1>2. PICK iter : iter = CHOOSE g : g = [t \in SUBSET DOMAIN s |->
            IF t = {} THEN base ELSE LET x == Max(t) IN WithLine(g[t \ {x}], s[x])]
  OBVIOUS
<1>3. FoldLeft(WithLine, base, s) = iter[DOMAIN s]
  BY <1>2 DEF FoldLeft, MapThenFoldSet
<1>4. PICK step : step = [n \in 1 .. N |-> [v \in Reading |-> WithLine(v, s[n])]]
  OBVIOUS
<1>5. PICK V : V = Reading
  OBVIOUS
<1>6. N \in Nat /\ base \in V /\ step \in [1 .. N -> [V -> V]]
  <2>1. \A n \in 1 .. N : s[n] \in Line
    BY <1>1
  <2>2. \A n \in 1 .. N : \A v \in Reading : WithLine(v, s[n]) \in Reading
    BY <2>1, WithLineTyped
  <2> QED
    BY <1>1, <1>4, <1>5, <2>2
<1>7. \A n \in 1 .. N : \A v \in V : step[n][v] = WithLine(v, s[n])
  BY <1>4, <1>5
<1>8. iter = [t \in SUBSET DOMAIN s |->
            IF t = {} THEN base ELSE LET x == Max(t) IN WithLine(iter[t \ {x}], s[x])]
  <2>0. PICK f : f \in FoldsBy(N, V, base, step)
    BY <1>6, FoldExists
  <2>1. /\ f \in [SUBSET (1 .. N) -> V]
        /\ \A t \in SUBSET (1 .. N) : f[t] = IF t = {} THEN base ELSE step[Max(t)][f[t \ {Max(t)}]]
    BY <2>0 DEF FoldsBy
  <2>2. ASSUME NEW t \in SUBSET (1 .. N)
        PROVE  f[t] = IF t = {} THEN base ELSE LET x == Max(t) IN WithLine(f[t \ {x}], s[x])
    <3>1. CASE t = {}
      BY <2>1, <3>1
    <3>2. CASE t # {}
      <4>1. Max(t) \in 1 .. N
        BY <1>1, <3>2, MaxIn
      <4>2. f[t \ {Max(t)}] \in V
        BY <2>1
      <4>3. f[t] = step[Max(t)][f[t \ {Max(t)}]]
        BY <2>1, <3>2
      <4> QED
        BY <1>7, <3>2, <4>1, <4>2, <4>3
    <3> QED
      BY <3>1, <3>2
  <2>3. f = [t \in SUBSET DOMAIN s |->
            IF t = {} THEN base ELSE LET x == Max(t) IN WithLine(f[t \ {x}], s[x])]
    BY <1>1, <2>1, <2>2
  <2> QED
    BY <1>2, <2>3
<1>9. iter[{}] = base
  BY <1>8
<1>10. ASSUME NEW t \in SUBSET (1 .. N), t # {}, iter[t \ {Max(t)}] \in V
      PROVE  iter[t] = step[Max(t)][iter[t \ {Max(t)}]]
  <2>1. Max(t) \in 1 .. N
    BY <1>1, <1>10, MaxIn
  <2>2. iter[t] = WithLine(iter[t \ {Max(t)}], s[Max(t)])
    BY <1>1, <1>8, <1>10
  <2> QED
    BY <1>7, <1>10, <2>1, <2>2
<1>11. iter[1 .. N] \in {p[N] : p \in RunsOf(N, V, base, step)}
  <2>1. \A t \in SUBSET (1 .. N) : t # {} /\ iter[t \ {Max(t)}] \in V => iter[t] = step[Max(t)][iter[t \ {Max(t)}]]
    BY <1>10
  <2> QED
    BY <1>6, <1>9, <2>1, FoldRun
<1>12. iter[1 .. N] \in V
  <2>1. PICK p \in RunsOf(N, V, base, step) : iter[1 .. N] = p[N]
    BY <1>11
  <2>2. p \in [0 .. N -> V] /\ N \in 0 .. N
    BY <1>1, <2>1 DEF RunsOf
  <2> QED
    BY <2>1, <2>2
<1> QED
  BY <1>1, <1>3, <1>5, <1>12

LEMMA ListsTyped ==
  ASSUME NEW s \in Seq(Listed), NEW base \in Blocks
  PROVE  FoldLeft(WithList, base, s) \in Blocks
<1>1. PICK N : N = Len(s) /\ N \in Nat /\ DOMAIN s = 1 .. N
  OBVIOUS
<1>2. PICK iter : iter = CHOOSE g : g = [t \in SUBSET DOMAIN s |->
            IF t = {} THEN base ELSE LET x == Max(t) IN WithList(g[t \ {x}], s[x])]
  OBVIOUS
<1>3. FoldLeft(WithList, base, s) = iter[DOMAIN s]
  BY <1>2 DEF FoldLeft, MapThenFoldSet
<1>4. PICK step : step = [n \in 1 .. N |-> [v \in Blocks |-> WithList(v, s[n])]]
  OBVIOUS
<1>5. PICK V : V = Blocks
  OBVIOUS
<1>6. N \in Nat /\ base \in V /\ step \in [1 .. N -> [V -> V]]
  <2>1. \A n \in 1 .. N : s[n] \in Listed
    BY <1>1
  <2>2. \A n \in 1 .. N : \A v \in Blocks : WithList(v, s[n]) \in Blocks
    BY <2>1, WithListTyped
  <2> QED
    BY <1>1, <1>4, <1>5, <2>2
<1>7. \A n \in 1 .. N : \A v \in V : step[n][v] = WithList(v, s[n])
  BY <1>4, <1>5
<1>8. iter = [t \in SUBSET DOMAIN s |->
            IF t = {} THEN base ELSE LET x == Max(t) IN WithList(iter[t \ {x}], s[x])]
  <2>0. PICK f : f \in FoldsBy(N, V, base, step)
    BY <1>6, FoldExists
  <2>1. /\ f \in [SUBSET (1 .. N) -> V]
        /\ \A t \in SUBSET (1 .. N) : f[t] = IF t = {} THEN base ELSE step[Max(t)][f[t \ {Max(t)}]]
    BY <2>0 DEF FoldsBy
  <2>2. ASSUME NEW t \in SUBSET (1 .. N)
        PROVE  f[t] = IF t = {} THEN base ELSE LET x == Max(t) IN WithList(f[t \ {x}], s[x])
    <3>1. CASE t = {}
      BY <2>1, <3>1
    <3>2. CASE t # {}
      <4>1. Max(t) \in 1 .. N
        BY <1>1, <3>2, MaxIn
      <4>2. f[t \ {Max(t)}] \in V
        BY <2>1
      <4>3. f[t] = step[Max(t)][f[t \ {Max(t)}]]
        BY <2>1, <3>2
      <4> QED
        BY <1>7, <3>2, <4>1, <4>2, <4>3
    <3> QED
      BY <3>1, <3>2
  <2>3. f = [t \in SUBSET DOMAIN s |->
            IF t = {} THEN base ELSE LET x == Max(t) IN WithList(f[t \ {x}], s[x])]
    BY <1>1, <2>1, <2>2
  <2> QED
    BY <1>2, <2>3
<1>9. iter[{}] = base
  BY <1>8
<1>10. ASSUME NEW t \in SUBSET (1 .. N), t # {}, iter[t \ {Max(t)}] \in V
      PROVE  iter[t] = step[Max(t)][iter[t \ {Max(t)}]]
  <2>1. Max(t) \in 1 .. N
    BY <1>1, <1>10, MaxIn
  <2>2. iter[t] = WithList(iter[t \ {Max(t)}], s[Max(t)])
    BY <1>1, <1>8, <1>10
  <2> QED
    BY <1>7, <1>10, <2>1, <2>2
<1>11. iter[1 .. N] \in {p[N] : p \in RunsOf(N, V, base, step)}
  <2>1. \A t \in SUBSET (1 .. N) : t # {} /\ iter[t \ {Max(t)}] \in V => iter[t] = step[Max(t)][iter[t \ {Max(t)}]]
    BY <1>10
  <2> QED
    BY <1>6, <1>9, <2>1, FoldRun
<1>12. iter[1 .. N] \in V
  <2>1. PICK p \in RunsOf(N, V, base, step) : iter[1 .. N] = p[N]
    BY <1>11
  <2>2. p \in [0 .. N -> V] /\ N \in 0 .. N
    BY <1>1, <2>1 DEF RunsOf
  <2> QED
    BY <2>1, <2>2
<1> QED
  BY <1>1, <1>3, <1>5, <1>12

LEMMA MinIs == \A a, b \in Nat : LET m == Min({a, b}) IN m \in Nat /\ m <= a /\ m <= b
<1> SUFFICES ASSUME NEW a \in Nat, NEW b \in Nat PROVE Min({a, b}) \in {a, b} /\ Min({a, b}) <= a /\ Min({a, b}) <= b
  OBVIOUS
<1>1. \E m \in {a, b} : \A y \in {a, b} : m <= y OBVIOUS
<1> QED BY <1>1 DEF Min

LEMMA FirstOfTyped ==
  ASSUME NEW s \in Seq(Line), NEW n \in Nat
  PROVE  FirstOf(s, n) \in Seq(Line)
<1>1. PICK m : m = Min({n, Len(s)}) OBVIOUS
<1>2. m \in Nat /\ m <= Len(s) BY <1>1, MinIs
<1>3. SubSeq(s, 1, m) \in Seq(Line) BY <1>2
<1> QED BY <1>1, <1>3 DEF FirstOf

LEMMA UniqueBlocksTyped ==
  ASSUME NEW blocks \in Blocks
  PROVE  UniqueBlocks(blocks) \in Blocks
BY UniqueOf DEF UniqueBlocks, Blocks

LEMMA BlocksOfTyped ==
  ASSUME NEW lines \in Seq(Line)
  PROVE  BlocksOf(lines) \in Blocks
<1>1. PICK base : base = [at |-> Nothing, blocks |-> NoBlocks] OBVIOUS
<1>2. NoBlocks \in Blocks BY DEF NoBlocks, Blocks
<1>3. base \in Reading BY <1>1, <1>2 DEF Reading
<1>4. FoldLeft(WithLine, base, lines) \in Reading BY <1>3, ReadingTyped
<1>5. FoldLeft(WithLine, base, lines).blocks \in Blocks BY <1>4 DEF Reading
<1> QED BY <1>1, <1>5, UniqueBlocksTyped DEF BlocksOf

LEMMA HtmlTyped ==
  ASSUME NEW page \in Sites
  PROVE  HtmlContext(page).blocks \in Blocks
<1>1. page.lines \in Seq(Line) BY PageAssumption
<1>2. PICK lines : lines = HtmlLines(page) OBVIOUS
<1>3. lines \in Seq(Line) BY <1>1, <1>2, LinesOfTyped, UniqueOf DEF HtmlLines
<1>4. PICK found : found = BlocksOf(lines) OBVIOUS
<1>5. found \in Blocks BY <1>3, <1>4, BlocksOfTyped
<1>6. PICK long : long = LinesOf(lines, {line \in Line : LineSize[line] >= 20}) OBVIOUS
<1>7. long \in Seq(Line) BY <1>3, <1>6, LinesOfTyped
<1>8. PICK role : role = FirstOf(long, 3) OBVIOUS
<1>9. role \in Seq(Line) BY <1>7, <1>8, FirstOfTyped
<1>10. HtmlContext(page).blocks = IF found["about_role"] = <<>> THEN [found EXCEPT !["about_role"] = role] ELSE found
  BY <1>2, <1>4, <1>6, <1>8 DEF HtmlContext
<1>11. [found EXCEPT !["about_role"] = role] \in Blocks BY <1>5, <1>9 DEF Blocks
<1> QED BY <1>5, <1>10, <1>11

LEMMA PostingTyped ==
  ASSUME NEW posting, IsPosting(posting)
  PROVE  PostingBlocks(posting) \in Blocks
<1>1. posting.description \in Seq(Line) /\ posting.closing \in Seq(Line) /\ posting.lists \in Seq(Listed)
  BY DEF IsPosting, Listed
<1>2. PICK b : b = BlocksOf(Unique(posting.description)) OBVIOUS
<1>3. b \in Blocks BY <1>1, <1>2, UniqueOf, BlocksOfTyped
<1>4. PICK described : described = IF b = NoBlocks THEN [b EXCEPT !["about_role"] = posting.description] ELSE b
  OBVIOUS
<1>5. described \in Blocks BY <1>1, <1>3, <1>4 DEF Blocks
<1>6. PICK listed : listed = FoldLeft(WithList, described, posting.lists) OBVIOUS
<1>7. listed \in Blocks BY <1>1, <1>5, <1>6, ListsTyped
<1>8. PICK closed : closed = [listed EXCEPT !["cta"] = @ \o posting.closing] OBVIOUS
<1>9. closed \in Blocks
  <2>1. \A c \in Section : listed[c] \o posting.closing \in Seq(Line) BY <1>1, <1>7 DEF Blocks
  <2> QED BY <1>7, <1>8, <2>1 DEF Blocks
<1>10. PostingBlocks(posting) = UniqueBlocks(closed)
  BY <1>2, <1>4, <1>6, <1>8 DEF PostingBlocks
<1> QED BY <1>9, <1>10, UniqueBlocksTyped

LEMMA ProviderTyped ==
  ASSUME NEW posting, posting = Nothing \/ IsPosting(posting)
  PROVE  ProviderContext(posting) = Nothing \/ ProviderContext(posting).blocks \in Blocks
<1>1. CASE posting = Nothing BY <1>1 DEF ProviderContext
<1>2. CASE posting # Nothing
  <2>1. PICK blocks : blocks = PostingBlocks(posting) OBVIOUS
  <2>2. blocks \in Blocks BY <1>2, <2>1, PostingTyped
  <2>3. PICK few : few = (Letters(blocks) < 200) OBVIOUS
  <2>4. PICK c : c = [text |-> Rendered(blocks), blocks |-> blocks, terms |-> Terms(Rendered(blocks)),
                      method |-> "api", capture |-> {"excerpt"}] OBVIOUS
  <2>5. ProviderContext(posting) = IF few THEN Nothing ELSE c
    BY <1>2, <2>1, <2>3, <2>4 DEF ProviderContext
  <2>6. c.blocks = blocks BY <2>4
  <2> QED BY <2>2, <2>5, <2>6
<1> QED BY <1>1, <1>2

(* _merge_contexts keeps each line of the page and of the posting, in its   *)
(* section, and adds none.                                                  *)
LEMMA MergeKeeps ==
  ASSUME NEW html, html.blocks \in Blocks, NEW provider, provider = Nothing \/ provider.blocks \in Blocks
  PROVE  HasBoth(Merged(html, provider).blocks, html, provider)
<1>1. CASE provider = Nothing BY <1>1 DEF Merged, HasBoth
<1>2. CASE provider # Nothing
  <2>1. PICK blocks : blocks = [b \in Section |-> Unique(provider.blocks[b] \o html.blocks[b])] OBVIOUS
  <2>2. Merged(html, provider).blocks = blocks BY <1>2, <2>1 DEF Merged
  <2>3. ASSUME NEW b \in Section
        PROVE  ToSet(blocks[b]) = ToSet(html.blocks[b]) \cup ToSet(provider.blocks[b])
    <3>1. html.blocks[b] \in Seq(Line) /\ provider.blocks[b] \in Seq(Line) BY <1>2 DEF Blocks
    <3>2. PICK both : both = provider.blocks[b] \o html.blocks[b] OBVIOUS
    <3>3. both \in Seq(Line) /\ ToSet(both) = ToSet(provider.blocks[b]) \cup ToSet(html.blocks[b])
      BY <3>1, <3>2, ConcatSet
    <3>4. blocks[b] = Unique(both) BY <2>1, <3>2
    <3>5. ToSet(blocks[b]) = ToSet(both) BY <3>3, <3>4, UniqueOf
    <3> QED BY <3>3, <3>5
  <2> QED BY <1>2, <2>2, <2>3 DEF HasBoth
<1> QED BY <1>1, <1>2

LEMMA MergedDomain ==
  ASSUME NEW html, html.blocks \in Blocks, NEW provider
  PROVE  Merged(html, provider).blocks = [b \in Section |-> Merged(html, provider).blocks[b]]
<1>1. CASE provider = Nothing BY <1>1 DEF Merged, Blocks
<1>2. CASE provider # Nothing
  <2>1. PICK blocks : blocks = [b \in Section |-> Unique(provider.blocks[b] \o html.blocks[b])] OBVIOUS
  <2>2. Merged(html, provider).blocks = blocks BY <1>2, <2>1 DEF Merged
  <2> QED BY <2>1, <2>2
<1> QED BY <1>1, <1>2

---------------------------------------------------------------------------
(* What the row and the requests are made of *)

AnswerFields == {"status", "warning", "title", "text", "blocks", "uses", "terms", "method",
                 "capture", "fetchedAt"}
IsAnswer(i) == i = [f \in AnswerFields |-> i[f]] /\ i.blocks = [b \in Section |-> i.blocks[b]]
IsLive(i) == IsAnswer(i) /\ i.status = "live" /\ i.warning = FALSE

(* The row was written by a request that was asked, at the latest, when it  *)
(* read the page.                                                           *)
IsRow(row) ==
  /\ row = RowOf(row.live, row.expires - TTL, row.readAt)
  /\ IsLive(row.live) /\ row.expires \in Int /\ row.readAt \in Int
  /\ row.readAt + TTL >= row.expires
IsPostingHere(p) == p = Nothing \/ IsPosting(p)

AskerFields == {"pc", "asked", "cached", "page", "readAt", "posting", "exists", "answer", "from"}
IsAsker(r) ==
  /\ r = [f \in AskerFields |-> r[f]]
  /\ r.asked \in Nat /\ r.asked <= clock /\ r.readAt \in Nat
  /\ r.cached = Nothing \/ IsRow(r.cached)
  /\ r.pc \in {"idle", "page", "posting", "look", "write", "failed", "done"}

HasRead(r) == r.page \in Sites /\ IsPostingHere(r.posting) /\ r.readAt >= r.asked

(* How a request may have been answered: from the page, from a fresh row,   *)
(* after an error from the row read at the beginning, or with nothing.      *)
FromPage(r) == HasRead(r) /\ r.from = Nothing /\ r.answer = Insights(r.page, r.posting, r.asked)
FromFresh(r) == IsRow(r.from) /\ r.answer = FromRow(r.from) /\ r.from.expires >= r.asked
FromStale(r) == IsRow(r.from) /\ r.answer = [FromRow(r.from) EXCEPT !.warning = TRUE]
FromNothing(r) == r.from = Nothing /\ \E status \in {"unavailable", "error"} : r.answer = Without(status)

Knows(r) ==
  /\ IsAsker(r)
  /\ r.pc \in {"idle", "page"} => r.posting = Nothing
  /\ r.pc \in {"idle", "page", "posting", "look", "write"} => r.from = Nothing
  /\ r.pc \in {"posting", "look", "write"} => HasRead(r)
  /\ r.pc = "done" => FromPage(r) \/ FromFresh(r) \/ FromStale(r) \/ FromNothing(r)

PageInv ==
  /\ site \in Sites /\ clock \in Nat
  /\ snapshot = Nothing \/ IsRow(snapshot)
  /\ asker = [a \in Asker |-> asker[a]]
  /\ \A a \in Asker : Knows(asker[a])

LEMMA InsightsAreLive ==
  ASSUME NEW page \in Sites, NEW posting, IsPostingHere(posting), NEW now
  PROVE  /\ IsLive(Insights(page, posting, now))
         /\ HasBoth(Insights(page, posting, now).blocks, HtmlContext(page), ProviderContext(posting))
<1>1. PICK html : html = HtmlContext(page) OBVIOUS
<1>2. PICK provider : provider = ProviderContext(posting) OBVIOUS
<1>3. html.blocks \in Blocks BY <1>1, HtmlTyped
<1>4. provider = Nothing \/ provider.blocks \in Blocks BY <1>2, ProviderTyped DEF IsPostingHere
<1>5. PICK c : c = Merged(html, provider) OBVIOUS
<1>6. HasBoth(c.blocks, html, provider) /\ c.blocks = [b \in Section |-> c.blocks[b]]
  BY <1>3, <1>4, <1>5, MergeKeeps, MergedDomain
<1>7. PICK uses : uses = LinesByUse(c.blocks) OBVIOUS
<1>8. PICK i : i = [status |-> "live", warning |-> FALSE, title |-> page.title, text |-> c.text,
                    blocks |-> c.blocks, uses |-> uses, terms |-> c.terms, method |-> c.method,
                    capture |-> c.capture, fetchedAt |-> now] OBVIOUS
<1>9. Insights(page, posting, now) = i BY <1>1, <1>2, <1>5, <1>7, <1>8 DEF Insights, InsightsFrom
<1>10. IsLive(i) BY <1>6, <1>8 DEF IsLive, IsAnswer, AnswerFields
<1>11. i.blocks = c.blocks BY <1>8
<1> QED BY <1>1, <1>2, <1>6, <1>9, <1>10, <1>11

LEMMA RowFacts ==
  ASSUME NEW i, IsLive(i), NEW observed \in Nat, NEW readAt \in Nat, readAt >= observed
  PROVE  IsRow(RowOf(i, observed, readAt))
<1>1. PICK row : row = RowOf(i, observed, readAt) OBVIOUS
<1>2. row.live = i /\ row.expires = observed + TTL /\ row.readAt = readAt BY <1>1 DEF RowOf
<1>3. TTL \in Nat BY PageAssumption
<1>4. row.expires - TTL = observed BY <1>2, <1>3
<1> QED BY <1>1, <1>2, <1>3, <1>4 DEF IsRow

(* A row brings back what was answered when it was written.                 *)
LEMMA RowKeepsAnswer ==
  ASSUME NEW row, IsRow(row)
  PROVE  /\ FromRow(row) = [row.live EXCEPT !.status = "cached"]
         /\ FromRow(row).warning = FALSE /\ FromRow(row).status = "cached"
<1>1. PICK i : i = row.live OBVIOUS
<1>2. PICK o : o = row.expires - TTL OBVIOUS
<1>3. PICK kept : kept = NonEmpty(i.blocks) OBVIOUS
<1>4. row = [title |-> i.title, text |-> i.text, uses |-> i.uses, terms |-> i.terms, warning |-> i.warning,
             metadata |-> [blocks |-> kept, method |-> i.method, capture |-> i.capture],
             fetchedAt |-> i.fetchedAt, expires |-> o + TTL, live |-> i, readAt |-> row.readAt]
  BY <1>1, <1>2, <1>3 DEF IsRow, RowOf
<1>5. IsLive(i) BY <1>1 DEF IsRow
<1>6. DOMAIN i.blocks = Section BY <1>5 DEF IsLive, IsAnswer
<1>7. PICK full : full = {b \in Section : i.blocks[b] # <<>>} OBVIOUS
<1>8. kept = [b \in full |-> i.blocks[b]] BY <1>3, <1>6, <1>7 DEF NonEmpty, Restrict
<1>9. PICK back : back = [b \in Section |-> IF b \in DOMAIN kept THEN kept[b] ELSE <<>>] OBVIOUS
<1>10. back = i.blocks
  <2>1. \A b \in Section : back[b] = i.blocks[b] BY <1>7, <1>8, <1>9
  <2>2. back = [b \in Section |-> back[b]] BY <1>9
  <2>3. i.blocks = [b \in Section |-> i.blocks[b]] BY <1>5 DEF IsLive, IsAnswer
  <2> QED BY <2>1, <2>2, <2>3
<1>11. /\ row.title = i.title /\ row.text = i.text /\ row.uses = i.uses /\ row.terms = i.terms
       /\ row.warning = i.warning /\ row.fetchedAt = i.fetchedAt
       /\ row.metadata = [blocks |-> kept, method |-> i.method, capture |-> i.capture]
  BY <1>4
<1>12. PICK m : m = row.metadata OBVIOUS
<1>13. m.blocks = kept /\ m.method = i.method /\ m.capture = i.capture BY <1>11, <1>12
<1>14. FromRow(row) = [status |-> "cached", warning |-> i.warning, title |-> i.title, text |-> i.text,
                       blocks |-> back, uses |-> i.uses, terms |-> i.terms, method |-> i.method,
                       capture |-> i.capture, fetchedAt |-> i.fetchedAt]
  BY <1>9, <1>11, <1>12, <1>13 DEF FromRow
<1>15. [i EXCEPT !.status = "cached"] = FromRow(row)
  BY <1>5, <1>10, <1>14 DEF IsLive, IsAnswer, AnswerFields
<1>16. i.warning = FALSE BY <1>5 DEF IsLive
<1> QED BY <1>1, <1>14, <1>15, <1>16

LEMMA WithoutFacts ==
  ASSUME NEW status PROVE Without(status).warning = TRUE /\ Without(status).status = status
BY DEF Without

---------------------------------------------------------------------------
(* The steps *)

(* A step of one request, which leaves the address and the clock.           *)
LEMMA AskerMoves ==
  ASSUME PageInv, NEW a \in Asker, NEW r, Knows(r), asker' = [asker EXCEPT ![a] = r],
         site' = site, clock' = clock, snapshot' = snapshot \/ IsRow(snapshot')
  PROVE  PageInv'
<1>1. asker' = [b \in Asker |-> IF b = a THEN r ELSE asker[b]] BY DEF PageInv
<1>2. ASSUME NEW b \in Asker PROVE Knows(asker[b])'
  <2>1. Knows(asker'[b]) BY <1>1 DEF PageInv
  <2> QED BY <2>1 DEF Knows, IsAsker
<1>3. snapshot' = Nothing \/ IsRow(snapshot)' BY DEF PageInv, IsRow, RowOf
<1> QED BY <1>1, <1>2, <1>3 DEF PageInv

LEMMA SamePlaces ==
  ASSUME PageInv, NEW a \in Asker
  PROVE  IsAsker(asker[a]) /\ Knows(asker[a])
BY DEF PageInv, Knows

LEMMA IdleIsAsker ==
  ASSUME NEW r, clock \in Nat, snapshot = Nothing \/ IsRow(snapshot),
         r = [Idle EXCEPT !.asked = clock, !.cached = snapshot]
  PROVE  /\ IsAsker(r) /\ r.asked = clock /\ r.cached = snapshot /\ r.pc = "idle"
         /\ r.from = Nothing /\ r.posting = Nothing
<1>1. PICK idle : idle = Idle OBVIOUS
<1>2. idle = [f \in AskerFields |-> idle[f]] BY <1>1 DEF Idle, AskerFields
<1>3. /\ idle.pc = "idle" /\ idle.readAt = 0 /\ idle.from = Nothing /\ idle.posting = Nothing
  BY <1>1 DEF Idle
<1>4. r = [idle EXCEPT !.asked = clock, !.cached = snapshot] BY <1>1
<1>5. r = [f \in AskerFields |-> r[f]] BY <1>2, <1>4 DEF AskerFields
<1>6. /\ r.asked = clock /\ r.cached = snapshot /\ r.pc = "idle" /\ r.readAt = 0
      /\ r.from = Nothing /\ r.posting = Nothing
  BY <1>2, <1>3, <1>4 DEF AskerFields
<1>7. r.asked \in Nat /\ r.asked <= clock /\ r.readAt \in Nat BY <1>6
<1>8. r.cached = Nothing \/ IsRow(r.cached) BY <1>6
<1>9. IsAsker(r) BY <1>5, <1>6, <1>7, <1>8, Zenon DEF IsAsker
<1> QED BY <1>6, <1>9

LEMMA AskPageKeeps ==
  ASSUME PageInv, NEW a \in Asker, NEW force \in BOOLEAN, NEW valid \in BOOLEAN, AskPage(a, force, valid)
  PROVE  PageInv'
<1>1. PICK r : r = [Idle EXCEPT !.asked = clock, !.cached = snapshot] OBVIOUS
<1>2. /\ IsAsker(r) /\ r.asked = clock /\ r.cached = snapshot /\ r.pc = "idle"
      /\ r.from = Nothing /\ r.posting = Nothing
  BY <1>1, IdleIsAsker DEF PageInv
<1>3. site' = site /\ clock' = clock /\ snapshot' = snapshot BY DEF AskPage
<1>4. CASE ~valid
  <2>1. PICK w : w = Without("unavailable") OBVIOUS
  <2>2. PICK c : c = [r EXCEPT !.pc = "done", !.answer = w] OBVIOUS
  <2>3. IsAsker(c) /\ c.pc = "done" /\ c.from = Nothing /\ c.answer = w
    BY <1>2, <2>2 DEF IsAsker, AskerFields
  <2>4. Knows(c) BY <2>1, <2>3 DEF Knows, FromNothing
  <2>5. asker' = [asker EXCEPT ![a] = c] BY <1>1, <1>4, <2>1, <2>2 DEF AskPage, Become
  <2> QED BY <1>3, <2>4, <2>5, AskerMoves
<1>5. CASE valid /\ ~force /\ Fresh(snapshot, clock)
  <2>1. IsRow(snapshot) /\ snapshot.expires >= clock BY <1>5 DEF PageInv, Fresh
  <2>2. PICK row : row = snapshot OBVIOUS
  <2>3. PICK answer : answer = FromRow(row) OBVIOUS
  <2>4. PICK c : c = [r EXCEPT !.pc = "done", !.answer = answer, !.from = row] OBVIOUS
  <2>5. IsAsker(c) /\ c.pc = "done" /\ c.from = row /\ c.answer = answer /\ c.asked = clock
    BY <1>2, <2>4 DEF IsAsker, AskerFields
  <2>6. FromFresh(c) BY <2>1, <2>2, <2>3, <2>5 DEF FromFresh
  <2>7. Knows(c) BY <2>5, <2>6 DEF Knows
  <2>8. asker' = [asker EXCEPT ![a] = c] BY <1>1, <1>5, <2>2, <2>3, <2>4 DEF AskPage, Become
  <2> QED BY <1>3, <2>7, <2>8, AskerMoves
<1>6. CASE valid /\ ~(~force /\ Fresh(snapshot, clock))
  <2>1. PICK c : c = [r EXCEPT !.pc = "page"] OBVIOUS
  <2>2. IsAsker(c) /\ c.pc = "page" /\ c.from = Nothing /\ c.posting = Nothing
    BY <1>2, <2>1 DEF IsAsker, AskerFields
  <2>3. Knows(c) BY <2>2 DEF Knows
  <2>4. asker' = [asker EXCEPT ![a] = c] BY <1>1, <1>6, <2>1 DEF AskPage, Become
  <2> QED BY <1>3, <2>3, <2>4, AskerMoves
<1> QED BY <1>4, <1>5, <1>6

LEMMA FetchPageKeeps ==
  ASSUME PageInv, NEW a \in Asker, FetchPage(a)
  PROVE  PageInv'
<1>1. PICK r : r = asker[a] OBVIOUS
<1>2. Knows(r) /\ IsAsker(r) /\ r.pc = "page" BY <1>1, SamePlaces DEF FetchPage
<1>3. PICK pc : pc = IF site.lever THEN "posting" ELSE "look" OBVIOUS
<1>4. PICK c : c = [r EXCEPT !.pc = pc, !.page = site, !.readAt = clock] OBVIOUS
<1>5. pc \in {"posting", "look"} BY <1>3
<1>6. clock \in Nat BY DEF PageInv
<1>7. /\ IsAsker(c) /\ c.pc = pc /\ c.page = site /\ c.readAt = clock /\ c.posting = r.posting
      /\ c.asked = r.asked /\ c.from = r.from
  BY <1>2, <1>4, <1>5, <1>6 DEF IsAsker, AskerFields
<1>8. HasRead(c) BY <1>2, <1>7 DEF HasRead, Knows, PageInv, IsPostingHere, IsAsker
<1>9. Knows(c) BY <1>2, <1>5, <1>7, <1>8 DEF Knows
<1>10. /\ asker' = [asker EXCEPT ![a] = c]
       /\ site' = site /\ clock' = clock /\ snapshot' = snapshot
  BY <1>1, <1>3, <1>4 DEF FetchPage, Become
<1> QED BY <1>9, <1>10, AskerMoves

LEMMA FetchPostingKeeps ==
  ASSUME PageInv, NEW a \in Asker, FetchPosting(a)
  PROVE  PageInv'
<1>1. PICK r : r = asker[a] OBVIOUS
<1>2. Knows(r) /\ IsAsker(r) /\ r.pc = "posting" BY <1>1, SamePlaces DEF FetchPosting
<1>3. PICK p \in {site.posting, Nothing} : asker' = [asker EXCEPT ![a] = [asker[a] EXCEPT !.pc = "look", !.posting = p]]
  BY DEF FetchPosting, Become
<1>4. IsPostingHere(p) BY <1>3, PageAssumption DEF PageInv, IsPostingHere
<1>5. PICK c : c = [r EXCEPT !.pc = "look", !.posting = p] OBVIOUS
<1>6. /\ IsAsker(c) /\ c.pc = "look" /\ c.page = r.page /\ c.readAt = r.readAt /\ c.posting = p
      /\ c.asked = r.asked /\ c.from = r.from
  BY <1>2, <1>5 DEF IsAsker, AskerFields
<1>7. Knows(c) BY <1>2, <1>4, <1>6 DEF HasRead, Knows
<1>8. site' = site /\ clock' = clock /\ snapshot' = snapshot BY DEF FetchPosting
<1> QED BY <1>1, <1>3, <1>5, <1>7, <1>8, AskerMoves

LEMMA PageFailsKeeps ==
  ASSUME PageInv, NEW a \in Asker, PageFails(a)
  PROVE  PageInv'
<1>1. PICK r : r = asker[a] OBVIOUS
<1>2. Knows(r) /\ IsAsker(r) /\ r.pc = "page" BY <1>1, SamePlaces DEF PageFails
<1>3. PICK row : row = r.cached OBVIOUS
<1>4. PICK w : w = Without("error") OBVIOUS
<1>5. PICK old : old = [FromRow(row) EXCEPT !.warning = TRUE] OBVIOUS
<1>6. PICK answer : answer = IF row = Nothing THEN w ELSE old OBVIOUS
<1>7. PICK c : c = [r EXCEPT !.pc = "done", !.from = row, !.answer = answer] OBVIOUS
<1>8. IsAsker(c) /\ c.pc = "done" /\ c.from = row /\ c.answer = answer
  BY <1>2, <1>7 DEF IsAsker, AskerFields
<1>9. row = Nothing => FromNothing(c) BY <1>4, <1>6, <1>8 DEF FromNothing
<1>10. row # Nothing => FromStale(c) BY <1>2, <1>3, <1>5, <1>6, <1>8 DEF FromStale, IsAsker
<1>11. Knows(c) BY <1>8, <1>9, <1>10 DEF Knows
<1>12. /\ asker' = [asker EXCEPT ![a] = c]
       /\ site' = site /\ clock' = clock /\ snapshot' = snapshot
  BY <1>1, <1>3, <1>4, <1>5, <1>6, <1>7 DEF PageFails, Become
<1> QED BY <1>11, <1>12, AskerMoves

LEMMA LookForRowKeeps ==
  ASSUME PageInv, NEW a \in Asker, LookForRow(a)
  PROVE  PageInv'
<1>1. PICK r : r = asker[a] OBVIOUS
<1>2. Knows(r) /\ IsAsker(r) /\ r.pc = "look" BY <1>1, SamePlaces DEF LookForRow
<1>3. PICK there : there = (snapshot # Nothing) OBVIOUS
<1>4. PICK c : c = [r EXCEPT !.pc = "write", !.exists = there] OBVIOUS
<1>5. /\ IsAsker(c) /\ c.pc = "write" /\ c.page = r.page /\ c.readAt = r.readAt
      /\ c.posting = r.posting /\ c.asked = r.asked /\ c.from = r.from
  BY <1>2, <1>4 DEF IsAsker, AskerFields
<1>6. Knows(c) BY <1>2, <1>5 DEF HasRead, Knows
<1>7. /\ asker' = [asker EXCEPT ![a] = c]
      /\ site' = site /\ clock' = clock /\ snapshot' = snapshot
  BY <1>1, <1>3, <1>4 DEF LookForRow, Become
<1> QED BY <1>6, <1>7, AskerMoves

LEMMA WriteRowKeeps ==
  ASSUME PageInv, NEW a \in Asker, WriteRow(a)
  PROVE  PageInv'
<1>1. PICK r : r = asker[a] OBVIOUS
<1>2. Knows(r) /\ IsAsker(r) /\ r.pc = "write" BY <1>1, SamePlaces DEF WriteRow
<1>3. site' = site /\ clock' = clock BY DEF WriteRow
<1>4. CASE ~r.exists /\ snapshot # Nothing
  <2>1. PICK c : c = [r EXCEPT !.pc = "failed"] OBVIOUS
  <2>2. IsAsker(c) /\ c.pc = "failed" BY <1>2, <2>1 DEF IsAsker, AskerFields
  <2>3. Knows(c) BY <2>2 DEF Knows
  <2>4. asker' = [asker EXCEPT ![a] = c] /\ snapshot' = snapshot
    BY <1>1, <1>4, <2>1 DEF WriteRow, Become
  <2> QED BY <1>3, <2>3, <2>4, AskerMoves
<1>5. CASE ~(~r.exists /\ snapshot # Nothing)
  <2>1. PICK i : i = Insights(r.page, r.posting, r.asked) OBVIOUS
  <2>2. HasRead(r) /\ r.from = Nothing BY <1>2 DEF Knows
  <2>3. IsLive(i)
    <3>1. PICK page, posting : page \in Sites /\ page = r.page /\ posting = r.posting BY <2>2 DEF HasRead
    <3>2. IsPostingHere(posting) BY <2>2, <3>1 DEF HasRead
    <3> QED BY <2>1, <3>1, <3>2, InsightsAreLive
  <2>4. PICK c : c = [r EXCEPT !.pc = "done", !.answer = i] OBVIOUS
  <2>5. /\ IsAsker(c) /\ c.pc = "done" /\ c.answer = i /\ c.page = r.page /\ c.posting = r.posting
        /\ c.readAt = r.readAt /\ c.asked = r.asked /\ c.from = r.from
    BY <1>2, <2>4 DEF IsAsker, AskerFields
  <2>6. FromPage(c) BY <2>1, <2>2, <2>5 DEF FromPage, HasRead
  <2>7. Knows(c) BY <2>5, <2>6 DEF Knows
  <2>8. asker' = [asker EXCEPT ![a] = c] /\ snapshot' = RowOf(i, r.asked, r.readAt)
    BY <1>1, <1>5, <2>1, <2>4 DEF WriteRow, AnswerAndStore, Become
  <2>9. r.asked \in Nat /\ r.readAt \in Nat /\ r.readAt >= r.asked BY <1>2, <2>2 DEF IsAsker, HasRead
  <2>10. IsRow(snapshot')
    <3>1. PICK row : row = RowOf(i, r.asked, r.readAt) OBVIOUS
    <3>2. IsRow(row)
      <4>1. PICK o \in Nat, t \in Nat : o = r.asked /\ t = r.readAt BY <2>9
      <4> QED BY <2>3, <2>9, <3>1, <4>1, RowFacts
    <3> QED BY <2>8, <3>1, <3>2
  <2> QED BY <1>3, <2>7, <2>8, <2>10, AskerMoves
<1> QED BY <1>4, <1>5

LEMMA PageStep == PageInv /\ [PageNext]_pageVars => PageInv'
<1> SUFFICES ASSUME PageInv, [PageNext]_pageVars PROVE PageInv' OBVIOUS
<1>1. CASE \E a \in Asker : \/ \E force, valid \in BOOLEAN : AskPage(a, force, valid)
                            \/ FetchPage(a) \/ FetchPosting(a) \/ PageFails(a) \/ LookForRow(a) \/ WriteRow(a)
  BY <1>1, AskPageKeeps, FetchPageKeeps, FetchPostingKeeps, PageFailsKeeps, LookForRowKeeps, WriteRowKeeps
<1>2. CASE \E s \in Sites : SiteChanges(s)
  <2>1. site' \in Sites /\ clock' = clock /\ snapshot' = snapshot /\ asker' = asker
    BY <1>2 DEF SiteChanges
  <2>2. \A a \in Asker : Knows(asker[a])' BY <2>1, SamePlaces DEF Knows, IsAsker
  <2> QED BY <2>1, <2>2 DEF PageInv
<1>3. CASE ClockTicks
  <2>1. site' = site /\ clock' = clock + 1 /\ snapshot' = snapshot /\ asker' = asker /\ clock \in Nat
    BY <1>3 DEF ClockTicks, PageInv
  <2>2. \A a \in Asker : Knows(asker[a])' BY <2>1, SamePlaces DEF Knows, IsAsker
  <2> QED BY <2>1, <2>2 DEF PageInv
<1>4. CASE UNCHANGED pageVars
  <2>1. site' = site /\ clock' = clock /\ snapshot' = snapshot /\ asker' = asker BY <1>4 DEF pageVars
  <2>2. \A a \in Asker : Knows(asker[a])' BY <2>1, SamePlaces DEF Knows, IsAsker
  <2> QED BY <2>1, <2>2 DEF PageInv
<1> QED BY <1>1, <1>2, <1>3, <1>4 DEF PageNext

LEMMA PageStart == PageInit => PageInv
<1> SUFFICES ASSUME PageInit PROVE PageInv OBVIOUS
<1>1. site \in Sites /\ clock = 0 /\ snapshot = Nothing /\ asker = [a \in Asker |-> Idle] BY DEF PageInit
<1>2. IsAsker(Idle) /\ Idle.pc = "idle" /\ Idle.posting = Nothing /\ Idle.from = Nothing
  <2>1. PICK r : r = Idle OBVIOUS
  <2>2. r = [f \in AskerFields |-> r[f]] BY <2>1 DEF Idle, AskerFields
  <2>3. r.asked = 0 /\ r.readAt = 0 /\ r.cached = Nothing /\ r.pc = "idle" /\ r.posting = Nothing /\ r.from = Nothing
    BY <2>1 DEF Idle
  <2> QED BY <1>1, <2>1, <2>2, <2>3 DEF IsAsker
<1>3. Knows(Idle) BY <1>2 DEF Knows
<1> QED BY <1>1, <1>3 DEF PageInv

LEMMA PageIsHonest ==
  ASSUME PageInv, NEW a \in Asker, asker[a].pc = "done", NEW r, r = asker[a]
  PROVE  /\ ~r.answer.warning => IF r.answer.status = "live" THEN r.readAt >= r.asked
                                 ELSE r.from.readAt >= r.asked - TTL
         /\ r.from # Nothing => r.answer = [r.from.live EXCEPT !.status = "cached", !.warning = r.answer.warning]
         /\ r.answer.status = "live" => HasBoth(r.answer.blocks, HtmlContext(r.page), ProviderContext(r.posting))
<1>1. Knows(r) /\ IsAsker(r) BY SamePlaces
<1>2. TTL \in Nat BY PageAssumption
<1>3. CASE FromPage(r)
  <2>1. PICK page, posting, now : page \in Sites /\ page = r.page /\ posting = r.posting /\ now = r.asked
    BY <1>3 DEF FromPage, HasRead
  <2>2. IsPostingHere(posting) BY <1>3, <2>1 DEF FromPage, HasRead
  <2>3. IsLive(r.answer) /\ HasBoth(r.answer.blocks, HtmlContext(page), ProviderContext(posting))
    BY <1>3, <2>1, <2>2, InsightsAreLive DEF FromPage
  <2>4. r.answer.status = "live" BY <2>3 DEF IsLive
  <2> QED BY <1>3, <2>1, <2>3, <2>4 DEF FromPage, HasRead
<1>4. ASSUME NEW row, row = r.from, IsRow(row)
      PROVE  /\ FromRow(row) = [row.live EXCEPT !.status = "cached"] /\ FromRow(row).warning = FALSE
             /\ FromRow(row).status = "cached" /\ IsLive(row.live)
  BY <1>4, RowKeepsAnswer DEF IsRow
<1>5. CASE FromFresh(r)
  <2>1. PICK row : row = r.from OBVIOUS
  <2>2. IsRow(row) /\ r.answer = FromRow(row) /\ row.expires >= r.asked BY <1>5, <2>1 DEF FromFresh
  <2>3. PICK i : i = row.live OBVIOUS
  <2>4. r.answer = [i EXCEPT !.status = "cached"] /\ r.answer.warning = FALSE /\ r.answer.status = "cached"
    BY <1>4, <2>1, <2>2, <2>3
  <2>5. row.readAt >= r.asked - TTL BY <1>1, <1>2, <2>2 DEF IsRow, IsAsker
  <2>6. i = [f \in AnswerFields |-> i[f]] /\ i.warning = FALSE BY <2>2, <2>3 DEF IsRow, IsLive, IsAnswer
  <2>7. [i EXCEPT !.status = "cached"] = [i EXCEPT !.status = "cached", !.warning = FALSE]
    BY <2>6 DEF AnswerFields
  <2> QED BY <2>1, <2>3, <2>4, <2>5, <2>7
<1>6. CASE FromStale(r)
  <2>1. PICK row : row = r.from OBVIOUS
  <2>2. IsRow(row) /\ r.answer = [FromRow(row) EXCEPT !.warning = TRUE] BY <1>6, <2>1 DEF FromStale
  <2>3. PICK i : i = row.live OBVIOUS
  <2>4. FromRow(row) = [i EXCEPT !.status = "cached"] BY <1>4, <2>1, <2>2, <2>3
  <2>5. i = [f \in AnswerFields |-> i[f]] BY <2>2, <2>3 DEF IsRow, IsLive, IsAnswer
  <2>6. r.answer = [i EXCEPT !.status = "cached", !.warning = TRUE]
        /\ r.answer.warning = TRUE /\ r.answer.status = "cached"
    BY <2>2, <2>4, <2>5 DEF AnswerFields
  <2> QED BY <2>1, <2>3, <2>6
<1>7. CASE FromNothing(r)
  <2>1. PICK status \in {"unavailable", "error"} : r.answer = Without(status) BY <1>7 DEF FromNothing
  <2>2. r.answer.warning = TRUE /\ r.answer.status # "live" BY <2>1, WithoutFacts
  <2> QED BY <1>7, <2>2 DEF FromNothing
<1> QED BY <1>1, <1>3, <1>5, <1>6, <1>7 DEF Knows

(* Whatever addresses show, however often the page changes, however slow    *)
(* fetches are and whichever request stores last: an answer without a       *)
(* warning is no older than the time to live, a stored answer comes back as *)
(* it was, and the page and the posting are merged without losing a line.   *)
THEOREM HonestTheorem == PageSpec => []SnapshotIsHonest
<1>1. PageInv => SnapshotIsHonest
  <2> SUFFICES ASSUME PageInv PROVE SnapshotIsHonest OBVIOUS
  <2> DEFINE Good(r) ==
        /\ ~r.answer.warning => IF r.answer.status = "live" THEN r.readAt >= r.asked
                                ELSE r.from.readAt >= r.asked - TTL
        /\ r.from # Nothing => r.answer = [r.from.live EXCEPT !.status = "cached", !.warning = r.answer.warning]
        /\ r.answer.status = "live" => HasBoth(r.answer.blocks, HtmlContext(r.page), ProviderContext(r.posting))
  <2>1. ASSUME NEW a \in Answered PROVE Good(asker[a])
    <3>1. a \in Asker /\ asker[a].pc = "done" BY DEF Answered
    <3>2. PICK r : r = asker[a] OBVIOUS
    <3>3. Good(r) BY <3>1, <3>2, PageIsHonest
    <3> QED BY <3>2, <3>3
  <2> QED BY <2>1 DEF SnapshotIsHonest, OldOnlyWithWarning, CachedAsLive, NothingLostInMerge
<1> QED BY <1>1, PageStart, PageStep, PTL DEF PageSpec

---------------------------------------------------------------------------
(* Scrape                                                                   *)

LEMMA PageIsList ==
  ASSUME NEW page \in Seq(Container)
  PROVE  /\ IsList(page) /\ DOMAIN page = 1 .. Len(page) /\ Len(page) \in Nat
         /\ \A i \in DOMAIN page : /\ page[i] \in Container /\ page[i].links \in Seq(Link)
                                   /\ page[i].heading \in PageText /\ IsList(page[i].links)
                                   /\ DOMAIN page[i].links = 1 .. Len(page[i].links)
                                   /\ \A k \in DOMAIN page[i].links : page[i].links[k] \in Link
<1>1. IsList(page)
  BY SeqIsList
<1>2. DOMAIN page = 1 .. Len(page) /\ Len(page) \in Nat
  OBVIOUS
<1>3. \A i \in DOMAIN page : page[i] \in Container
  OBVIOUS
<1>4. \A c \in Container : c.links \in Seq(Link) /\ c.heading \in PageText
  BY DEF Container
<1>5. ASSUME NEW links \in Seq(Link)
      PROVE  IsList(links) /\ DOMAIN links = 1 .. Len(links) /\ \A k \in DOMAIN links : links[k] \in Link
  BY SeqIsList
<1> QED
  BY <1>1, <1>2, <1>3, <1>4, <1>5

(* The first item of a list is the first of its kind.                       *)
LEMMA DistinctUrl ==
  ASSUME NEW postings, IsList(postings)
  PROVE  IsList(OfDistinctUrl(postings)) /\ (OfDistinctUrl(postings) = <<>> <=> postings = <<>>)
<1>1. PICK those : those = {i \in DOMAIN postings : \A k \in 1 .. i - 1 : postings[k].url # postings[i].url}
  OBVIOUS
<1>2. OfDistinctUrl(postings) = ItemsAt(postings, those)
  BY <1>1 DEF OfDistinctUrl
<1>3. those \in SUBSET (DOMAIN postings)
  BY <1>1
<1>4. IsList(ItemsAt(postings, those)) /\ (ItemsAt(postings, those) = <<>> <=> those = {})
  BY <1>3, ItemsOf
<1>5. DOMAIN postings = 1 .. Len(postings) /\ Len(postings) \in Nat /\ (postings = <<>> <=> Len(postings) = 0)
  BY ListFacts
<1>6. 1 \in DOMAIN postings => 1 \in those
  <2>1. \A k \in 1 .. 1 - 1 : FALSE
    OBVIOUS
  <2> QED
    BY <1>1, <2>1
<1> QED
  BY <1>2, <1>3, <1>4, <1>5, <1>6

LEMMA DeduplicatedIs ==
  ASSUME NEW postings, IsList(postings)
  PROVE  /\ IsList(Deduplicated(postings)) /\ (Deduplicated(postings) = <<>> <=> postings = <<>>)
         /\ ToSet(Deduplicated(postings)) \subseteq ToSet(postings)
<1>1. PICK those : those = {i \in DOMAIN postings : \A k \in 1 .. i - 1 : Fingerprint(postings[k]) # Fingerprint(postings[i])}
  OBVIOUS
<1>2. Deduplicated(postings) = ItemsAt(postings, those)
  BY <1>1 DEF Deduplicated
<1>3. those \in SUBSET (DOMAIN postings)
  BY <1>1
<1>4. /\ IsList(ItemsAt(postings, those)) /\ (ItemsAt(postings, those) = <<>> <=> those = {})
      /\ \A k \in DOMAIN ItemsAt(postings, those) : \E i \in those : ItemsAt(postings, those)[k] = postings[i]
  BY <1>3, ItemsOf
<1>5. DOMAIN postings = 1 .. Len(postings) /\ Len(postings) \in Nat /\ (postings = <<>> <=> Len(postings) = 0)
  BY ListFacts
<1>6. 1 \in DOMAIN postings => 1 \in those
  <2>1. \A k \in 1 .. 1 - 1 : FALSE
    OBVIOUS
  <2> QED
    BY <1>1, <2>1
<1>7. ToSet(ItemsAt(postings, those)) \subseteq ToSet(postings)
  BY <1>3, <1>4 DEF ToSet
<1> QED
  BY <1>2, <1>3, <1>4, <1>5, <1>6, <1>7

LEMMA Mapped ==
  ASSUME NEW items, IsList(items), NEW postings, postings = [i \in DOMAIN items |-> postings[i]]
  PROVE  IsList(postings) /\ DOMAIN postings = DOMAIN items /\ Len(postings) = Len(items) /\ (postings = <<>> <=> items = <<>>)
<1>1. DOMAIN items = 1 .. Len(items) /\ Len(items) \in Nat /\ (items = <<>> <=> Len(items) = 0)
  BY ListFacts
<1>2. postings = [i \in 1 .. Len(items) |-> postings[i]]
  BY <1>1
<1>3. IsList(postings) /\ Len(postings) = Len(items) /\ DOMAIN postings = 1 .. Len(items) /\ (postings = <<>> <=> Len(items) = 0)
  BY <1>1, <1>2, ListIs
<1> QED
  BY <1>1, <1>3

(* What is read of an answer of the API.                                    *)
LEMMA ApiEmpty ==
  ASSUME NEW source, NEW answer \in Answers
  PROVE  /\ IsList(ApiJobs(source, answer))
         /\ ApiJobs(source, answer) = <<>> => ~ShowsPosting(source, [kind |-> "api", answer |-> answer])
<1>1. PICK items : items = answer.items
  OBVIOUS
<1>2. IsList(items)
  BY <1>1, ScrapeAssumption DEF IsList
<1>3. PICK those : those = {i \in DOMAIN items : IsText(items[i].title) /\ items[i].url # None}
  OBVIOUS
<1>4. PICK ok : ok = ItemsAt(items, those)
  OBVIOUS
<1>5. IsList(ok) /\ (ok = <<>> <=> those = {})
  BY <1>2, <1>3, <1>4, ItemsOf
<1>6. PICK postings : postings = ApiJobs(source, answer)
  OBVIOUS
<1>7. CASE answer.shape # "jobs"
  <2>1. postings = <<>>
    BY <1>6, <1>7 DEF ApiJobs
  <2>2. postings = [i \in 1 .. 0 |-> postings[i]]
    BY <2>1
  <2>3. IsList(postings)
    BY <2>2, ListIs
  <2> QED
    BY <1>6, <1>7, <2>3 DEF ShowsPosting
<1>8. CASE answer.shape = "jobs"
  <2>1. postings = [i \in DOMAIN ok |-> Job(source, ok[i].title, ok[i].url,
                                        IF IsText(ok[i].place) THEN ok[i].place ELSE None,
                                        IF IsText(ok[i].id) THEN ok[i].id ELSE JobId(source, ok[i].url))]
    BY <1>1, <1>3, <1>4, <1>6, <1>8 DEF ApiJobs, Where
  <2>2. postings = [i \in DOMAIN ok |-> postings[i]]
    BY <2>1
  <2>3. IsList(postings) /\ (postings = <<>> <=> ok = <<>>)
    BY <1>5, <2>2, Mapped
  <2>4. those = {} => ~ShowsPosting(source, [kind |-> "api", answer |-> answer])
    BY <1>1, <1>3, <1>8 DEF ShowsPosting
  <2> QED
    BY <1>5, <1>6, <2>3, <2>4
<1> QED
  BY <1>7, <1>8

(* What is read of a page.                                                  *)
LEMMA StandardIsList ==
  ASSUME NEW source, NEW base, NEW page \in Seq(Container)
  PROVE  IsList(StandardJobs(source, base, page))
<1> DEFINE ok(c) == c.class = "opening" /\ c.links # <<>> /\ c.links[1].text # ""
           place(c) == IF c.place = None \/ c.place.class # "location" THEN None ELSE TextOrNone(c.place.text)
<1>1. PICK those : those = {i \in DOMAIN page : ok(page[i])}
  OBVIOUS
<1>2. PICK found : found = ItemsAt(page, those)
  OBVIOUS
<1>3. IsList(found)
  BY <1>1, <1>2, PageIsList, ItemsOf
<1>4. PICK postings : postings = StandardJobs(source, base, page)
  OBVIOUS
<1>5. postings = [i \in DOMAIN found |-> Reads(source, base, found[i].links[1].text, found[i].links[1].to, place(found[i]))]
  BY <1>1, <1>2, <1>4 DEF StandardJobs, Where
<1>6. postings = [i \in DOMAIN found |-> postings[i]]
  BY <1>5
<1> QED
  BY <1>3, <1>4, <1>6, Mapped

LEMMA LinksThere ==
  ASSUME NEW page \in Seq(Container)
  PROVE  /\ IsList(LinksOf(page))
         /\ \A i \in DOMAIN page : \A k \in DOMAIN page[i].links :
              \E n \in DOMAIN LinksOf(page) : LinksOf(page)[n] = [link |-> page[i].links[k], box |-> page[i]]
<1>1. PICK N : N = Len(page) /\ N \in Nat /\ DOMAIN page = 1 .. N
  OBVIOUS
<1>2. PICK seqs : seqs = [i \in DOMAIN page |-> [k \in DOMAIN page[i].links |-> [link |-> page[i].links[k], box |-> page[i]]]]
  OBVIOUS
<1>3. PICK S : S = [link : Link, box : Container]
  OBVIOUS
<1>4. ASSUME NEW i \in 1 .. N
      PROVE  seqs[i] \in Seq(S) /\ DOMAIN seqs[i] = DOMAIN page[i].links
             /\ \A k \in DOMAIN page[i].links : seqs[i][k] = [link |-> page[i].links[k], box |-> page[i]]
  <2>1. page[i] \in Container /\ page[i].links \in Seq(Link) /\ DOMAIN page[i].links = 1 .. Len(page[i].links)
        /\ \A k \in DOMAIN page[i].links : page[i].links[k] \in Link
    BY <1>1, PageIsList
  <2>2. seqs[i] = [k \in DOMAIN page[i].links |-> [link |-> page[i].links[k], box |-> page[i]]]
    BY <1>1, <1>2
  <2>3. \A k \in DOMAIN page[i].links : [link |-> page[i].links[k], box |-> page[i]] \in S
    BY <1>3, <2>1
  <2>4. PICK n : n = Len(page[i].links) /\ n \in Nat
    BY <2>1
  <2>5. seqs[i] \in [1 .. n -> S]
    BY <2>1, <2>2, <2>3, <2>4
  <2>6. seqs[i] \in Seq(S)
    BY <2>4, <2>5
  <2> QED
    BY <2>2, <2>6
<1>5. seqs \in Seq(Seq(S)) /\ Len(seqs) = N
  <2>1. PICK V : V = Seq(S)
    OBVIOUS
  <2>2. seqs = [i \in 1 .. N |-> seqs[i]] /\ \A i \in 1 .. N : seqs[i] \in V
    BY <1>1, <1>2, <1>4, <2>1
  <2>3. seqs \in Seq(V) /\ Len(seqs) = N
    BY <1>1, <2>2
  <2> QED
    BY <2>1, <2>3
<1>6. PICK flat : flat = FlattenSeq(seqs)
  OBVIOUS
<1>7. flat \in Seq(S) /\ ToSet(flat) = UNION {ToSet(seqs[i]) : i \in 1 .. N}
  BY <1>5, <1>6, FlattenThere
<1>8. flat = LinksOf(page)
  BY <1>2, <1>6 DEF LinksOf
<1>9. IsList(flat)
  BY <1>7, SeqIsList
<1>10. ASSUME NEW i \in DOMAIN page, NEW k \in DOMAIN page[i].links
       PROVE  \E n \in DOMAIN flat : flat[n] = [link |-> page[i].links[k], box |-> page[i]]
  <2>1. [link |-> page[i].links[k], box |-> page[i]] \in ToSet(seqs[i])
    BY <1>1, <1>4 DEF ToSet
  <2>2. [link |-> page[i].links[k], box |-> page[i]] \in ToSet(flat)
    BY <1>1, <1>7, <2>1
  <2> QED
    BY <2>2 DEF ToSet
<1> QED
  BY <1>8, <1>9, <1>10

LEMMA GenericIs ==
  ASSUME NEW source, NEW base, NEW page \in Seq(Container)
  PROVE  /\ IsList(GenericJobs(source, base, page))
         /\ GenericJobs(source, base, page) = <<>> =>
              \A i \in DOMAIN page : \A k \in DOMAIN page[i].links :
                LET l == page[i].links[k] IN ~(l.to # None /\ LooksLikeTitle(l.text) /\ LooksLikeDetail(Join(base, l.to)))
<1>1. PICK links : links = LinksOf(page)
  OBVIOUS
<1>2. /\ IsList(links)
      /\ \A i \in DOMAIN page : \A k \in DOMAIN page[i].links :
           \E n \in DOMAIN links : links[n] = [link |-> page[i].links[k], box |-> page[i]]
  BY <1>1, LinksThere
<1>3. PICK those : those = {n \in DOMAIN links : /\ links[n].link.to # None
                                                /\ LooksLikeTitle(links[n].link.text)
                                                /\ LooksLikeDetail(Join(base, links[n].link.to))}
  OBVIOUS
<1>4. PICK good : good = ItemsAt(links, those)
  OBVIOUS
<1>5. IsList(good) /\ (good = <<>> <=> those = {})
  BY <1>2, <1>3, <1>4, ItemsOf
<1>6. PICK postings : postings = [i \in DOMAIN good |->
         Reads(source, base, good[i].link.text, good[i].link.to, PlaceOf(good[i].box, good[i].link.text))]
  OBVIOUS
<1>7. GenericJobs(source, base, page) = OfDistinctUrl(postings)
  BY <1>1, <1>3, <1>4, <1>6 DEF GenericJobs, Where
<1>8. postings = [i \in DOMAIN good |-> postings[i]]
  BY <1>6
<1>9. IsList(postings) /\ (postings = <<>> <=> good = <<>>)
  BY <1>5, <1>8, Mapped
<1>10. IsList(OfDistinctUrl(postings)) /\ (OfDistinctUrl(postings) = <<>> <=> postings = <<>>)
  BY <1>9, DistinctUrl
<1>11. ASSUME those = {}, NEW i \in DOMAIN page, NEW k \in DOMAIN page[i].links
       PROVE  LET l == page[i].links[k] IN ~(l.to # None /\ LooksLikeTitle(l.text) /\ LooksLikeDetail(Join(base, l.to)))
  <2>1. PICK n \in DOMAIN links : links[n] = [link |-> page[i].links[k], box |-> page[i]]
    BY <1>2
  <2>2. links[n].link = page[i].links[k]
    BY <2>1
  <2> QED
    BY <1>3, <1>11, <2>2
<1> QED
  BY <1>5, <1>7, <1>9, <1>10, <1>11

LEMMA LeverIs ==
  ASSUME NEW source, NEW base, NEW page \in Seq(Container)
  PROVE  /\ IsList(LeverJobs(source, base, page))
         /\ LeverJobs(source, base, page) = <<>> =>
              \A i \in DOMAIN page : \A k \in DOMAIN page[i].links :
                LET l == page[i].links[k] IN ~(l.to # None /\ Named(l.text) /\ LeverDetail(Join(base, l.to)))
<1> DEFINE details(c) == Where(c.links, LAMBDA l : LeverDetail(Join(base, l.to)))
           listed(c) == \E i \in DOMAIN c.links : c.links[i].to # None /\ LeverDetail(Join(base, c.links[i].to))
           named(c) == Where(details(c), LAMBDA l : Named(l.text))
           title(c) == IF Named(c.heading) THEN c.heading
                       ELSE IF named(c) # <<>> THEN named(c)[1].text ELSE None
           href(c) == IF named(c) # <<>> THEN named(c)[1].to ELSE details(c)[1].to
           place(c) == IF c.place # None /\ c.place.text # title(c) /\ Named(c.place.text) THEN c.place.text
                       ELSE FirstOr(Where(ContainerTexts(c), LAMBDA t : t # title(c) /\ Named(t)), None)
<1>1. PICK those : those = {i \in DOMAIN page : listed(page[i]) /\ title(page[i]) # None}
  OBVIOUS
<1>2. PICK found : found = ItemsAt(page, those)
  OBVIOUS
<1>3. IsList(found) /\ (found = <<>> <=> those = {})
  BY <1>1, <1>2, PageIsList, ItemsOf
<1>4. PICK postings : postings = LeverJobs(source, base, page)
  OBVIOUS
<1>5. postings = [i \in DOMAIN found |-> Reads(source, base, title(found[i]), href(found[i]), place(found[i]))]
  <2> DEFINE all == Where(page, LAMBDA c : listed(c) /\ title(c) # None)
  <2>1. LeverJobs(source, base, page)
          = [i \in DOMAIN all |-> Reads(source, base, title(all[i]), href(all[i]), place(all[i]))]
    BY Zenon DEF LeverJobs
  <2>2. all = found
    BY <1>1, <1>2, Zenon DEF Where
  <2> HIDE DEF all, title, href, place
  <2> QED
    BY <1>4, <2>1, <2>2
<1> HIDE DEF href, place
<1>6. postings = [i \in DOMAIN found |-> postings[i]]
  BY <1>5
<1>7. IsList(postings) /\ (postings = <<>> <=> found = <<>>)
  BY <1>3, <1>6, Mapped
<1>8. ASSUME NEW i \in DOMAIN page, NEW k \in DOMAIN page[i].links,
             LET l == page[i].links[k] IN l.to # None /\ Named(l.text) /\ LeverDetail(Join(base, l.to))
      PROVE  i \in those
  <2>1. PICK links : links = page[i].links
    OBVIOUS
  <2>2. IsList(links) /\ (\A n \in DOMAIN links : links[n] \in Link) /\ page[i].heading \in PageText
    BY <2>1, PageIsList
  <2>3. listed(page[i])
    BY <1>8
  <2>4. PICK at1 : at1 = {n \in DOMAIN links : LeverDetail(Join(base, links[n].to))}
    OBVIOUS
  <2>5. PICK ds : ds = ItemsAt(links, at1)
    OBVIOUS
  <2>6. /\ IsList(ds)
        /\ \A m \in DOMAIN ds : \E n \in at1 : ds[m] = links[n]
        /\ \A n \in at1 : \E m \in DOMAIN ds : ds[m] = links[n]
    <3>1. at1 \in SUBSET (DOMAIN links)
      BY <2>4
    <3>2. LET is == ItemsAt(links, at1) IN
            /\ IsList(is)
            /\ \A m \in DOMAIN is : \E n \in at1 : is[m] = links[n]
            /\ \A n \in at1 : \E m \in DOMAIN is : is[m] = links[n]
      BY <2>2, <3>1, ItemsOf, Zenon
    <3> HIDE DEF details, listed, named, title, href, place
    <3> QED
      BY <2>5, <3>2
  <2>7. details(page[i]) = ds
    BY <2>1, <2>4, <2>5, Zenon DEF Where
  <2>8. PICK at2 : at2 = {m \in DOMAIN ds : Named(ds[m].text)}
    OBVIOUS
  <2>9. PICK ns : ns = ItemsAt(ds, at2)
    OBVIOUS
  <2>10. /\ IsList(ns) /\ (ns = <<>> <=> at2 = {})
         /\ \A m \in DOMAIN ns : \E n \in at2 : ns[m] = ds[n]
    <3>1. at2 \in SUBSET (DOMAIN ds)
      BY <2>8
    <3>2. LET is == ItemsAt(ds, at2) IN
            /\ IsList(is) /\ (is = <<>> <=> at2 = {})
            /\ \A m \in DOMAIN is : \E n \in at2 : is[m] = ds[n]
      BY <2>6, <3>1, ItemsOf, Zenon
    <3> HIDE DEF details, listed, named, title, href, place
    <3> QED
      BY <2>9, <3>2
  <2>11. named(page[i]) = ns
    <3>1. Where(ds, LAMBDA l : Named(l.text)) = ns
      BY <2>8, <2>9, Zenon DEF Where
    <3> QED
      BY <2>7, <3>1
  <2>12. PICK m \in DOMAIN ds : ds[m] = links[k]
    BY <1>8, <2>1, <2>4, <2>6
  <2>13. m \in at2
    BY <1>8, <2>1, <2>8, <2>12
  <2>14. ns # <<>>
    BY <2>10, <2>13
  <2>15. 1 \in DOMAIN ns
    BY <2>10, <2>14, ListFacts
  <2>16. ns[1] \in Link
    BY <2>2, <2>4, <2>6, <2>8, <2>10, <2>15
  <2>17. ns[1].text \in PageText
    BY <2>16 DEF Link
  <2>18. title(page[i]) \in PageText
    <3> HIDE DEF named
    <3>1. title(page[i]) = IF Named(page[i].heading) THEN page[i].heading ELSE ns[1].text
      BY <2>11, <2>14
    <3> HIDE DEF title
    <3> QED
      BY <2>2, <2>17, <3>1
  <2> HIDE DEF title, listed
  <2> QED
    BY <1>1, <2>3, <2>18, ScrapeAssumption
<1> QED
  BY <1>3, <1>4, <1>7, <1>8

NoneListed(page) ==
  \A i \in DOMAIN page : \A k \in DOMAIN page[i].links :
    ~(page[i].class = "job-listing" /\ page[i].links[k].class = "job-link"
      /\ \A n \in 1 .. k : page[i].links[n].text # "")
LEMMA StaticIs ==
  ASSUME NEW source, NEW base, NEW page \in Seq(Container)
  PROVE  /\ IsList(StaticJobs(source, base, page))
         /\ StaticJobs(source, base, page) = <<>> => NoneListed(page)
<1> DEFINE link(c) == FirstOr(Where(c.links, LAMBDA l : l.class = "job-link"), None)
           place(c) == IF c.place = None \/ c.place.class # "job-location" THEN None ELSE TextOrNone(c.place.text)
<1>1. PICK those : those = {i \in DOMAIN page : /\ page[i].class = "job-listing" /\ link(page[i]) # None
                                               /\ link(page[i]).text # ""}
  OBVIOUS
<1>2. PICK found : found = ItemsAt(page, those)
  OBVIOUS
<1>3. IsList(found) /\ (found = <<>> <=> those = {})
  BY <1>1, <1>2, PageIsList, ItemsOf
<1>4. PICK postings : postings = StaticJobs(source, base, page)
  OBVIOUS
<1>5. postings = [i \in DOMAIN found |-> Reads(source, base, link(found[i]).text, link(found[i]).to, place(found[i]))]
  <2>1. Where(page, LAMBDA c : c.class = "job-listing" /\ link(c) # None /\ link(c).text # "") = found
    BY <1>1, <1>2, Zenon DEF Where
  <2> QED
    BY <1>4, <2>1, Zenon DEF StaticJobs
<1> HIDE DEF place
<1>6. postings = [i \in DOMAIN found |-> postings[i]]
  BY <1>5
<1>7. IsList(postings) /\ (postings = <<>> <=> found = <<>>)
  BY <1>3, <1>6, Mapped
<1>8. ASSUME NEW i \in DOMAIN page, NEW k \in DOMAIN page[i].links,
             page[i].class = "job-listing", page[i].links[k].class = "job-link",
             \A n \in 1 .. k : page[i].links[n].text # ""
      PROVE  i \in those
  <2>1. PICK links : links = page[i].links
    OBVIOUS
  <2>2. IsList(links) /\ (\A n \in DOMAIN links : links[n] \in Link) /\ DOMAIN links = 1 .. Len(links)
    BY <2>1, PageIsList
  <2>3. PICK at1 : at1 = {n \in DOMAIN links : links[n].class = "job-link"}
    OBVIOUS
  <2>4. PICK js : js = ItemsAt(links, at1)
    OBVIOUS
  <2>5. k \in at1
    BY <1>8, <2>1, <2>3
  <2>6. PICK n \in at1 : js[1] = links[n] /\ \A j \in at1 : n <= j
    BY <2>2, <2>3, <2>4, <2>5, FirstItem
  <2>7. js # <<>>
    BY <2>2, <2>3, <2>4, <2>5, ItemsOf
  <2>8. n \in 1 .. k
    BY <2>2, <2>3, <2>5, <2>6
  <2>9. js[1] \in Link /\ js[1].text # ""
    BY <1>8, <2>1, <2>2, <2>3, <2>6, <2>8
  <2>10. link(page[i]) = js[1]
    <3>1. Where(page[i].links, LAMBDA l : l.class = "job-link") = js
      BY <2>1, <2>3, <2>4, Zenon DEF Where
    <3> QED
      BY <2>7, <3>1 DEF FirstOr
  <2> HIDE DEF link
  <2> QED
    BY <1>1, <1>8, <2>9, <2>10, ScrapeAssumption
<1> QED
  BY <1>3, <1>4, <1>7, <1>8 DEF NoneListed

LEMMA PageEmpty ==
  ASSUME NEW source, NEW base \in Address, NEW doc \in Pages, source.type = "lever" => base = source.url
  PROVE  /\ IsList(PageJobs(source, base, doc.page))
         /\ PageJobs(source, base, doc.page) = <<>> => ~ShowsPosting(source, Document(doc))
<1>1. PICK page : page = doc.page /\ page \in Seq(Container)
  BY ScrapeAssumption
<1>2. PICK url : url = doc.url /\ url \in Address
  BY ScrapeAssumption
<1>3. PICK read : read = Document(doc)
  OBVIOUS
<1>4. read.kind # "api" /\ read.page = page /\ read.url = url
  BY <1>1, <1>2, <1>3 DEF Document
<1>5. PICK postings : postings = PageJobs(source, base, page)
  OBVIOUS
<1>9. ASSUME ShowsPosting(source, read)
      PROVE  \E i \in DOMAIN page : \E k \in DOMAIN page[i].links : \E l :
               /\ l = page[i].links[k]
               /\ l.to # None
               /\ source.type = "greenhouse" => LooksLikeTitle(l.text) /\ LooksLikeDetail(Join(url, l.to))
               /\ source.type = "lever" => Named(l.text) /\ LeverDetail(Join(source.url, l.to))
               /\ source.type \notin {"greenhouse", "lever"} =>
                    /\ page[i].class = "job-listing" /\ l.class = "job-link"
                    /\ \A n \in 1 .. k : page[i].links[n].text # ""
  <2> DEFINE Seen(i, k) ==
         LET l == read.page[i].links[k] IN
         /\ l.to # None
         /\ CASE source.type = "greenhouse" -> LooksLikeTitle(l.text) /\ LooksLikeDetail(Join(read.url, l.to))
              [] source.type = "lever"      -> Named(l.text) /\ LeverDetail(Join(source.url, l.to))
              [] OTHER -> read.page[i].class = "job-listing" /\ l.class = "job-link"
                          /\ \A n \in 1 .. k : read.page[i].links[n].text # ""
  <2>1. \E i \in DOMAIN read.page : \E k \in DOMAIN read.page[i].links : Seen(i, k)
    BY <1>4, <1>9, Zenon DEF ShowsPosting
  <2> HIDE DEF Seen
  <2>2. PICK i \in DOMAIN read.page : \E k \in DOMAIN read.page[i].links : Seen(i, k)
    BY <2>1
  <2>3. PICK k \in DOMAIN read.page[i].links : Seen(i, k)
    BY <2>2
  <2>4. PICK l : l = read.page[i].links[k]
    OBVIOUS
  <2>5. l.to # None
    BY <2>3, <2>4 DEF Seen
  <2>6. source.type = "greenhouse" => LooksLikeTitle(l.text) /\ LooksLikeDetail(Join(read.url, l.to))
    BY <2>3, <2>4, <2>5 DEF Seen
  <2>7. source.type = "lever" => Named(l.text) /\ LeverDetail(Join(source.url, l.to))
    BY <2>3, <2>4, <2>5 DEF Seen
  <2>8. source.type \notin {"greenhouse", "lever"} =>
           /\ read.page[i].class = "job-listing" /\ l.class = "job-link"
           /\ \A n \in 1 .. k : read.page[i].links[n].text # ""
    BY <2>3, <2>4, <2>5 DEF Seen
  <2> QED
    BY <1>4, <2>4, <2>5, <2>6, <2>7, <2>8
<1>6. CASE source.type = "greenhouse"
  <2>1. postings = GreenhouseJobs(source, base, page)
    BY <1>5, <1>6 DEF PageJobs
  <2>2. IsList(postings) /\ (postings = <<>> => GenericJobs(source, base, page) = <<>>)
    BY <1>1, <2>1, StandardIsList, GenericIs DEF GreenhouseJobs
  <2>3. ASSUME postings = <<>>, NEW i \in DOMAIN page, NEW k \in DOMAIN page[i].links
        PROVE  LET l == page[i].links[k] IN ~(l.to # None /\ LooksLikeTitle(l.text) /\ LooksLikeDetail(Join(url, l.to)))
    <3>1. PICK l : l = page[i].links[k]
      OBVIOUS
    <3>2. ~(l.to # None /\ LooksLikeTitle(l.text) /\ LooksLikeDetail(Join(base, l.to)))
      BY <1>1, <2>2, <2>3, <3>1, GenericIs
    <3>3. l.to # None => Join(base, l.to).path = Join(url, l.to).path
      BY <1>2 DEF Join, Address
    <3> QED
      BY <3>1, <3>2, <3>3 DEF LooksLikeDetail
  <2>4. ShowsPosting(source, read) =>
          \E i \in DOMAIN page : \E k \in DOMAIN page[i].links :
            LET l == page[i].links[k] IN l.to # None /\ LooksLikeTitle(l.text) /\ LooksLikeDetail(Join(url, l.to))
    BY <1>6, <1>9
  <2> QED
    BY <1>1, <1>3, <1>5, <2>2, <2>3, <2>4
<1>7. CASE source.type = "lever"
  <2>1. postings = LeverJobs(source, base, page)
    BY <1>5, <1>7 DEF PageJobs
  <2>2. ShowsPosting(source, read) =>
          \E i \in DOMAIN page : \E k \in DOMAIN page[i].links :
            LET l == page[i].links[k] IN l.to # None /\ Named(l.text) /\ LeverDetail(Join(base, l.to))
    BY <1>7, <1>9
  <2>3. /\ IsList(postings)
        /\ postings = <<>> =>
              \A i \in DOMAIN page : \A k \in DOMAIN page[i].links :
                LET l == page[i].links[k] IN ~(l.to # None /\ Named(l.text) /\ LeverDetail(Join(base, l.to)))
    BY <1>1, <2>1, LeverIs
  <2> QED
    BY <1>1, <1>3, <1>5, <2>2, <2>3
<1>8. CASE source.type \notin {"greenhouse", "lever"}
  <2>1. postings = StaticJobs(source, base, page)
    BY <1>5, <1>8 DEF PageJobs
  <2>2. ShowsPosting(source, read) =>
          \E i \in DOMAIN page : \E k \in DOMAIN page[i].links :
            /\ page[i].class = "job-listing" /\ page[i].links[k].class = "job-link"
            /\ \A n \in 1 .. k : page[i].links[n].text # ""
    BY <1>8, <1>9
  <2>3. /\ IsList(postings)
        /\ postings = <<>> =>
              \A i \in DOMAIN page : \A k \in DOMAIN page[i].links :
                ~(page[i].class = "job-listing" /\ page[i].links[k].class = "job-link"
                  /\ \A n \in 1 .. k : page[i].links[n].text # "")
    <3>1. IsList(StaticJobs(source, base, page)) /\ (StaticJobs(source, base, page) = <<>> => NoneListed(page))
      BY <1>1, StaticIs
    <3> QED
      BY <2>1, <3>1, Zenon DEF NoneListed
  <2>4. postings = <<>> => ~ShowsPosting(source, read)
    BY <2>2, <2>3
  <2> QED
    BY <1>1, <1>3, <1>5, <2>3, <2>4
<1> QED
  BY <1>6, <1>7, <1>8

(* The rows stay a list, whatever is upserted.                              *)
LEMMA UpsertIs ==
  ASSUME NEW S, NEW table \in Seq(S), NEW posting \in S
  PROVE  Upsert(table, posting) \in Seq(S)
<1>1. PICK old : old = {i \in DOMAIN table : Fingerprint(table[i]) = Fingerprint(posting)}
  OBVIOUS
<1>2. Upsert(table, posting) = IF old = {} THEN Append(table, posting) ELSE [table EXCEPT ![Min(old)] = posting]
  BY <1>1 DEF Upsert
<1>3. PICK i : i = Min(old)
  OBVIOUS
<1>4. Append(table, posting) \in Seq(S)
  OBVIOUS
<1>5. old # {} => [table EXCEPT ![i] = posting] \in Seq(S)
  <2> SUFFICES ASSUME old # {} PROVE [table EXCEPT ![i] = posting] \in Seq(S)
    OBVIOUS
  <2>4. i \in old
    <3>1. old \in SUBSET Nat
      BY <1>1
    <3>2. \E m \in old : \A j \in old : m <= j
      BY <3>1, LeastOf
    <3> QED
      BY <1>3, <3>2 DEF Min
  <2>1. PICK n : n = Len(table) /\ n \in Nat
    OBVIOUS
  <2>3. [table EXCEPT ![i] = posting] = [j \in 1 .. n |-> IF j = i THEN posting ELSE table[j]]
    <3>1. DOMAIN table = 1 .. n
      BY <2>1
    <3>2. [table EXCEPT ![i] = posting] = [j \in DOMAIN table |-> IF j = i THEN posting ELSE table[j]]
      BY Zenon
    <3> QED
      BY <3>1, <3>2, Zenon
  <2>2. [j \in 1 .. n |-> IF j = i THEN posting ELSE table[j]] \in [1 .. n -> S]
    BY <2>1
  <2>5. PICK f : f = [table EXCEPT ![i] = posting]
    OBVIOUS
  <2>6. f \in [1 .. n -> S]
    BY <2>2, <2>3, <2>5
  <2> QED
    BY <2>1, <2>5, <2>6
<1> QED
  BY <1>2, <1>3, <1>4, <1>5

LEMMA UpsertsAreList ==
  ASSUME NEW table, IsList(table), NEW postings, IsList(postings)
  PROVE  IsList(FoldLeft(Upsert, table, postings))
<1>1. PICK N : N = Len(postings) /\ N \in Nat /\ DOMAIN postings = 1 .. N
  BY ListFacts
<1>2. PICK S : S = ToSet(table) \cup ToSet(postings)
  OBVIOUS
<1>3. table \in Seq(S) /\ \A n \in 1 .. N : postings[n] \in S
  <2>1. \A n \in 1 .. N : postings[n] \in S
    BY <1>1, <1>2 DEF ToSet
  <2>2. PICK m : m = Len(table) /\ m \in Nat /\ DOMAIN table = 1 .. m /\ table = [i \in 1 .. m |-> table[i]]
    BY ListFacts
  <2>3. \A i \in 1 .. m : table[i] \in S
    BY <1>2, <2>2 DEF ToSet
  <2> QED
    BY <2>1, <2>2, <2>3
<1>4. PICK V : V = Seq(S)
  OBVIOUS
<1>5. PICK step : step = [n \in 1 .. N |-> [v \in V |-> Upsert(v, postings[n])]]
  OBVIOUS
<1>6. step \in [1 .. N -> [V -> V]] /\ table \in V
  <2>1. \A n \in 1 .. N : \A v \in V : Upsert(v, postings[n]) \in V
    BY <1>3, <1>4, UpsertIs
  <2> QED
    BY <1>3, <1>4, <1>5, <2>1
<1>7. \A n \in 1 .. N : \A v \in V : step[n][v] = Upsert(v, postings[n])
  BY <1>5
<1>8. PICK iter : iter = CHOOSE g : g = [t \in SUBSET DOMAIN postings |->
            IF t = {} THEN table ELSE LET x == Max(t) IN Upsert(g[t \ {x}], postings[x])]
  OBVIOUS
<1>9. FoldLeft(Upsert, table, postings) = iter[DOMAIN postings]
  BY <1>8 DEF FoldLeft, MapThenFoldSet
<1>10. iter = [t \in SUBSET DOMAIN postings |->
            IF t = {} THEN table ELSE LET x == Max(t) IN Upsert(iter[t \ {x}], postings[x])]
  <2>0. PICK f : f \in FoldsBy(N, V, table, step)
    BY <1>1, <1>6, FoldExists
  <2>1. /\ f \in [SUBSET (1 .. N) -> V]
        /\ \A t \in SUBSET (1 .. N) : f[t] = IF t = {} THEN table ELSE step[Max(t)][f[t \ {Max(t)}]]
    BY <2>0 DEF FoldsBy
  <2>2. ASSUME NEW t \in SUBSET (1 .. N)
        PROVE  f[t] = IF t = {} THEN table ELSE LET x == Max(t) IN Upsert(f[t \ {x}], postings[x])
    <3>1. CASE t = {}
      BY <2>1, <3>1
    <3>2. CASE t # {}
      <4>1. Max(t) \in 1 .. N
        BY <1>1, <3>2, MaxIn
      <4>2. f[t \ {Max(t)}] \in V
        BY <2>1
      <4>3. f[t] = step[Max(t)][f[t \ {Max(t)}]]
        BY <2>1, <3>2
      <4> QED
        BY <1>7, <3>2, <4>1, <4>2, <4>3
    <3> QED
      BY <3>1, <3>2
  <2>3. f = [t \in SUBSET DOMAIN postings |->
            IF t = {} THEN table ELSE LET x == Max(t) IN Upsert(f[t \ {x}], postings[x])]
    BY <1>1, <2>1, <2>2
  <2> QED
    BY <1>8, <2>3
<1>11. iter[{}] = table
  BY <1>10
<1>12. \A t \in SUBSET (1 .. N) : t # {} /\ iter[t \ {Max(t)}] \in V => iter[t] = step[Max(t)][iter[t \ {Max(t)}]]
  <2> SUFFICES ASSUME NEW t \in SUBSET (1 .. N), t # {}, iter[t \ {Max(t)}] \in V
               PROVE  iter[t] = step[Max(t)][iter[t \ {Max(t)}]]
    OBVIOUS
  <2>1. Max(t) \in 1 .. N
    BY <1>1, MaxIn
  <2>2. iter[t] = Upsert(iter[t \ {Max(t)}], postings[Max(t)])
    BY <1>1, <1>10
  <2> QED
    BY <1>7, <2>1, <2>2
<1>13. iter[1 .. N] \in {p[N] : p \in RunsOf(N, V, table, step)}
  BY <1>1, <1>6, <1>11, <1>12, FoldRun
<1>14. PICK p \in RunsOf(N, V, table, step) : iter[1 .. N] = p[N]
  BY <1>13
<1>15. iter[1 .. N] \in Seq(S)
  BY <1>1, <1>4, <1>14 DEF RunsOf
<1> QED
  BY <1>1, <1>9, <1>15, SeqIsList

---------------------------------------------------------------------------
(* What was fetched, and what is known of it while nothing was read of it   *)

ApiRead(answer) == [kind |-> "api", answer |-> answer]
Fetched == {ApiRead(answer) : answer \in Answers} \cup {Document(doc) : doc \in Pages}
NoneShown(source, list) == \A i \in DOMAIN list : ~ShowsPosting(source, list[i])
Sent == [filter |-> digest.filter, result |-> FilteredDigest(BuildDigest(rows), digest.filter)]

ScrapeInv ==
  /\ sources \in Sources /\ at \in DOMAIN sources
  /\ IsList(docs) /\ ToSet(docs) \subseteq Fetched
  /\ IsList(parsed) /\ IsList(rows)
  /\ stage \in {"api", "page", "openings"} => NoneShown(Source, docs)
  /\ stage = "openings" => Source.type = "greenhouse"
  /\ EmptyOnlyWithoutListing
  /\ digest # None => stage = "end" /\ digest = Sent

LEMMA NothingFetched ==
  /\ IsList(<<>>) /\ ToSet(<<>>) = {}
  /\ \A source : NoneShown(source, <<>>)
<1>1. <<>> = [i \in 1 .. 0 |-> <<>>[i]]
  OBVIOUS
<1>2. IsList(<<>>)
  BY <1>1, ListIs
<1> QED
  BY <1>2 DEF ToSet, NoneShown

LEMMA SourceIs ==
  ASSUME sources \in Sources, at \in DOMAIN sources
  PROVE  Source.url \in Address
BY ScrapeAssumption DEF Source

LEMMA FirstSource ==
  ASSUME NEW list \in Sources
  PROVE  1 \in DOMAIN list /\ Len(list) \in Nat /\ DOMAIN list = 1 .. Len(list)
<1>1. list \in Seq(ToSet(list)) /\ list # <<>>
  BY ScrapeAssumption
<1> QED
  BY <1>1

LEMMA ScrapeInit_Inv == ScrapeInit => ScrapeInv
<1> SUFFICES ASSUME ScrapeInit PROVE ScrapeInv
  OBVIOUS
<1>1. sources \in Sources /\ at \in DOMAIN sources
  BY FirstSource DEF ScrapeInit
<1>2. stage \in {"api", "page"}
  BY DEF ScrapeInit, FirstStage
<1>3. docs = <<>> /\ parsed = <<>> /\ rows = <<>> /\ digest = None
  BY DEF ScrapeInit
<1>4. EmptyOnlyWithoutListing
  BY <1>2 DEF EmptyOnlyWithoutListing
<1> QED
  BY <1>1, <1>2, <1>3, <1>4, NothingFetched DEF ScrapeInv

LEMMA DocsGrow ==
  ASSUME IsList(docs), ToSet(docs) \subseteq Fetched, NEW doc \in Fetched
  PROVE  /\ IsList(Append(docs, doc)) /\ ToSet(Append(docs, doc)) \subseteq Fetched
         /\ \A source : NoneShown(source, docs) /\ ~ShowsPosting(source, doc) => NoneShown(source, Append(docs, doc))
<1>1. /\ IsList(Append(docs, doc)) /\ DOMAIN Append(docs, doc) = 1 .. (Len(docs) + 1)
      /\ Append(docs, doc)[Len(docs) + 1] = doc /\ (\A i \in DOMAIN docs : Append(docs, doc)[i] = docs[i])
      /\ ToSet(Append(docs, doc)) = ToSet(docs) \cup {doc}
  BY AppendIs
<1>2. Len(docs) \in Nat /\ DOMAIN docs = 1 .. Len(docs)
  BY ListFacts
<1>3. ASSUME NEW source, NoneShown(source, docs), ~ShowsPosting(source, doc)
      PROVE  NoneShown(source, Append(docs, doc))
  <2> SUFFICES ASSUME NEW i \in 1 .. (Len(docs) + 1) PROVE ~ShowsPosting(source, Append(docs, doc)[i])
    BY <1>1 DEF NoneShown
  <2>1. CASE i \in DOMAIN docs
    BY <1>1, <1>3, <2>1 DEF NoneShown
  <2>2. CASE i = Len(docs) + 1
    BY <1>1, <1>3, <2>2
  <2> QED
    BY <1>2, <2>1, <2>2
<1> QED
  BY <1>1, <1>3

(* The end of a source: what was read is a list of postings, and if it is   *)
(* empty without an error no fetched document shows one.                    *)
LEMMA FinishKeeps ==
  ASSUME IsList(parsed), IsList(rows), NEW outcome, NEW postings, IsList(postings), FinishSource(outcome, postings),
         UNCHANGED <<sources, at>>, outcome = "ok" /\ postings = <<>> => NoneShown(Source, docs')
  PROVE  /\ IsList(parsed') /\ IsList(rows')
         /\ stage' = "read"
         /\ EmptyOnlyWithoutListing'
<1>1. PICK read : read = [outcome |-> outcome, jobs |-> Deduplicated(postings)]
  OBVIOUS
<1>2. parsed' = Append(parsed, read) /\ stage' = "read" /\ rows' = FoldLeft(Upsert, rows, Deduplicated(postings))
  BY <1>1 DEF FinishSource
<1>3. IsList(Append(parsed, read)) /\ Last(Append(parsed, read)) = read
  BY AppendIs
<1>4. IsList(Deduplicated(postings)) /\ (Deduplicated(postings) = <<>> <=> postings = <<>>)
  BY DeduplicatedIs
<1>5. IsList(FoldLeft(Upsert, rows, Deduplicated(postings)))
  BY <1>4, UpsertsAreList
<1>6. Last(parsed') = read /\ read.outcome = outcome /\ read.jobs = Deduplicated(postings)
  BY <1>1, <1>2, <1>3
<1>7. Source' = Source
  BY DEF Source
<1>8. EmptyOnlyWithoutListing'
  BY <1>4, <1>6, <1>7 DEF EmptyOnlyWithoutListing, NoneShown
<1> QED
  BY <1>2, <1>3, <1>5, <1>8

LEMMA ScrapeNext_Inv == ScrapeInv /\ [ScrapeNext]_scrapeVars => ScrapeInv'
<1> SUFFICES ASSUME ScrapeInv, [ScrapeNext]_scrapeVars PROVE ScrapeInv'
  OBVIOUS
<1>1. /\ sources \in Sources /\ at \in DOMAIN sources
      /\ IsList(docs) /\ ToSet(docs) \subseteq Fetched
      /\ IsList(parsed) /\ IsList(rows)
      /\ stage \in {"api", "page", "openings"} => NoneShown(Source, docs)
      /\ stage = "openings" => Source.type = "greenhouse"
      /\ EmptyOnlyWithoutListing
      /\ digest # None => stage = "end" /\ digest = Sent
  BY DEF ScrapeInv
<1>2. Source.url \in Address
  BY <1>1, SourceIs
<1>3. UNCHANGED <<sources, at>> => Source' = Source
  BY DEF Source
<1>4. ASSUME IsList(parsed), IsList(rows), NEW outcome, NEW postings, IsList(postings), FinishSource(outcome, postings),
             UNCHANGED <<sources, at>>, outcome = "ok" /\ postings = <<>> => NoneShown(Source, docs')
      PROVE  IsList(parsed') /\ IsList(rows') /\ stage' = "read" /\ EmptyOnlyWithoutListing'
  BY <1>4, FinishKeeps
<1>5. CASE ReadApi
  <2>1. stage = "api" /\ UNCHANGED <<sources, at, digest>> /\ digest = None
    BY <1>1, <1>5 DEF ReadApi
  <2>2. ASSUME NEW answer \in Answers, docs' = Append(docs, ApiRead(answer)),
               IF answer.shape = "array" THEN FinishSource("failed", <<>>)
               ELSE IF ApiJobs(Source, answer) # <<>> THEN FinishSource("ok", ApiJobs(Source, answer))
               ELSE stage' = "page" /\ UNCHANGED <<next, parsed, rows>>
        PROVE  ScrapeInv'
    <3>1. ApiRead(answer) \in Fetched
      BY DEF Fetched
    <3>2. IsList(ApiJobs(Source, answer)) /\ (ApiJobs(Source, answer) = <<>> => ~ShowsPosting(Source, ApiRead(answer)))
      BY ApiEmpty DEF ApiRead
    <3>3. /\ IsList(docs') /\ ToSet(docs') \subseteq Fetched
          /\ ~ShowsPosting(Source, ApiRead(answer)) => NoneShown(Source, docs')
      BY <1>1, <2>1, <2>2, <3>1, DocsGrow
    <3>4. CASE answer.shape = "array"
      <4>1. FinishSource("failed", <<>>)
        BY <2>2, <3>4
      <4>2. IsList(parsed') /\ IsList(rows') /\ stage' = "read" /\ EmptyOnlyWithoutListing'
        BY <1>1, <1>4, <2>1, <4>1, NothingFetched
      <4> QED
        BY <1>1, <2>1, <3>3, <4>2 DEF ScrapeInv
    <3>5. CASE answer.shape # "array" /\ ApiJobs(Source, answer) # <<>>
      <4>1. FinishSource("ok", ApiJobs(Source, answer))
        BY <2>2, <3>5
      <4>2. IsList(parsed') /\ IsList(rows') /\ stage' = "read" /\ EmptyOnlyWithoutListing'
        BY <1>1, <1>4, <2>1, <3>2, <3>5, <4>1
      <4> QED
        BY <1>1, <2>1, <3>3, <4>2 DEF ScrapeInv
    <3>6. CASE answer.shape # "array" /\ ApiJobs(Source, answer) = <<>>
      <4>1. stage' = "page" /\ UNCHANGED <<next, parsed, rows>>
        BY <2>2, <3>6
      <4>3. EmptyOnlyWithoutListing'
        BY <4>1 DEF EmptyOnlyWithoutListing
      <4> QED
        BY <1>1, <1>3, <2>1, <3>2, <3>3, <3>6, <4>1, <4>3 DEF ScrapeInv
    <3> QED
      BY <3>4, <3>5, <3>6
  <2>3. ASSUME stage' = "page", UNCHANGED <<docs, next, parsed, rows>> PROVE ScrapeInv'
    <3>1. EmptyOnlyWithoutListing'
      BY <2>3 DEF EmptyOnlyWithoutListing
    <3> QED
      BY <1>1, <1>3, <2>1, <2>3, <3>1 DEF ScrapeInv
  <2> QED
    BY <1>5, <2>2, <2>3 DEF ReadApi, ApiRead
<1>6. CASE ReadPage
  <2>1. stage = "page" /\ UNCHANGED <<sources, at, digest>> /\ digest = None
    BY <1>1, <1>6 DEF ReadPage
  <2>2. PICK doc \in Pages :
          /\ docs' = Append(docs, Document(doc))
          /\ GoOnWith(PageJobs(Source, Source.url, doc.page), doc.url, OpeningsUrl(doc.url, doc.page))
    BY <1>6 DEF ReadPage
  <2>3. PICK postings : postings = PageJobs(Source, Source.url, doc.page)
    OBVIOUS
  <2>4. IsList(postings) /\ (postings = <<>> => ~ShowsPosting(Source, Document(doc)))
    BY <1>2, <2>3, PageEmpty
  <2>5. Document(doc) \in Fetched
    BY DEF Fetched
  <2>6. /\ IsList(docs') /\ ToSet(docs') \subseteq Fetched
        /\ postings = <<>> => NoneShown(Source, docs')
    BY <1>1, <2>1, <2>2, <2>4, <2>5, DocsGrow
  <2>7. CASE FinishSource("ok", postings)
    <3>1. IsList(parsed') /\ IsList(rows') /\ stage' = "read" /\ EmptyOnlyWithoutListing'
      BY <1>1, <1>4, <2>1, <2>4, <2>6, <2>7
    <3> QED
      BY <1>1, <2>1, <2>6, <3>1 DEF ScrapeInv
  <2>8. CASE /\ postings = <<>> /\ Source.type = "greenhouse" /\ stage' = "openings" /\ UNCHANGED <<parsed, rows>>
    <3>1. EmptyOnlyWithoutListing'
      BY <2>8 DEF EmptyOnlyWithoutListing
    <3> QED
      BY <1>1, <1>3, <2>1, <2>6, <2>8, <3>1 DEF ScrapeInv
  <2> QED
    BY <2>2, <2>3, <2>7, <2>8 DEF GoOnWith
<1>7. CASE ReadOpenings
  <2>1. stage = "openings" /\ UNCHANGED <<sources, at, digest>> /\ digest = None /\ Source.type = "greenhouse"
    BY <1>1, <1>7 DEF ReadOpenings
  <2>2. PICK doc \in Pages :
          /\ docs' = Append(docs, Document(doc))
          /\ FinishSource("ok", PageJobs(Source, doc.url, doc.page))
    BY <1>7 DEF ReadOpenings
  <2>3. PICK postings : postings = PageJobs(Source, doc.url, doc.page)
    OBVIOUS
  <2>4. IsList(postings) /\ (postings = <<>> => ~ShowsPosting(Source, Document(doc)))
    BY <2>1, <2>3, PageEmpty, ScrapeAssumption
  <2>5. Document(doc) \in Fetched
    BY DEF Fetched
  <2>6. /\ IsList(docs') /\ ToSet(docs') \subseteq Fetched
        /\ postings = <<>> => NoneShown(Source, docs')
    BY <1>1, <2>1, <2>2, <2>4, <2>5, DocsGrow
  <2>7. IsList(parsed') /\ IsList(rows') /\ stage' = "read" /\ EmptyOnlyWithoutListing'
    BY <1>1, <1>4, <2>1, <2>2, <2>3, <2>4, <2>6
  <2> QED
    BY <1>1, <2>1, <2>6, <2>7 DEF ScrapeInv
<1>8. CASE FetchFails
  <2>1. FinishSource("failed", <<>>) /\ UNCHANGED <<sources, at, docs, digest>> /\ digest = None
    BY <1>1, <1>8 DEF FetchFails
  <2>2. IsList(parsed') /\ IsList(rows') /\ stage' = "read" /\ EmptyOnlyWithoutListing'
    BY <1>1, <1>4, <2>1, NothingFetched
  <2> QED
    BY <1>1, <2>1, <2>2 DEF ScrapeInv
<1>9. CASE NextSourceOrEnd
  <2>1. stage = "read" /\ UNCHANGED <<sources, next, parsed, rows, digest>> /\ digest = None
    BY <1>1, <1>9 DEF NextSourceOrEnd
  <2>2. 1 \in DOMAIN sources /\ Len(sources) \in Nat /\ DOMAIN sources = 1 .. Len(sources)
    BY <1>1, FirstSource
  <2>3. CASE at < Len(sources)
    <3>1. at' = at + 1 /\ stage' = FirstStage(sources[at + 1]) /\ docs' = <<>>
      BY <1>9, <2>3 DEF NextSourceOrEnd
    <3>2. at' \in DOMAIN sources
      BY <1>1, <2>2, <2>3, <3>1
    <3>3. stage' \in {"api", "page"}
      BY <3>1 DEF FirstStage
    <3>4. EmptyOnlyWithoutListing'
      BY <3>3 DEF EmptyOnlyWithoutListing
    <3>5. NoneShown(Source', docs') /\ IsList(docs') /\ ToSet(docs') \subseteq Fetched
      BY <3>1, NothingFetched
    <3> QED
      BY <1>1, <2>1, <3>2, <3>3, <3>4, <3>5 DEF ScrapeInv
  <2>4. CASE ~(at < Len(sources))
    <3>1. stage' = "digest" /\ UNCHANGED <<at, docs>>
      BY <1>9, <2>4 DEF NextSourceOrEnd
    <3>2. EmptyOnlyWithoutListing'
      BY <3>1 DEF EmptyOnlyWithoutListing
    <3> QED
      BY <1>1, <2>1, <3>1, <3>2 DEF ScrapeInv
  <2> QED
    BY <2>3, <2>4
<1>10. CASE SendDigest
  <2>1. stage' = "end" /\ UNCHANGED <<sources, at, next, docs, parsed, rows>>
    BY <1>10 DEF SendDigest
  <2>2. PICK filter \in Settings :
          digest' = [filter |-> filter, result |-> FilteredDigest(BuildDigest(rows), filter)]
    BY <1>10 DEF SendDigest
  <2>3. digest'.filter = filter
    BY <2>2
  <2>4. Sent' = [filter |-> digest'.filter, result |-> FilteredDigest(BuildDigest(rows), digest'.filter)]
    BY <2>1 DEF Sent
  <2>5. digest' = Sent'
    BY <2>2, <2>3, <2>4, Zenon
  <2>6. EmptyOnlyWithoutListing'
    BY <2>1 DEF EmptyOnlyWithoutListing
  <2> QED
    BY <1>1, <2>1, <2>5, <2>6 DEF ScrapeInv
<1>11. CASE UNCHANGED scrapeVars
  <2>1. UNCHANGED <<sources, at, stage, docs, parsed, rows, digest>>
    BY <1>11 DEF scrapeVars
  <2>2. Source' = Source
    BY <1>3, <2>1
  <2>3. EmptyOnlyWithoutListing'
    BY <1>1, <2>1, <2>2 DEF EmptyOnlyWithoutListing
  <2>4. Sent' = Sent
    BY <2>1 DEF Sent
  <2> QED
    BY <1>1, <2>1, <2>2, <2>3, <2>4 DEF ScrapeInv
<1> QED
  BY <1>5, <1>6, <1>7, <1>8, <1>9, <1>10, <1>11 DEF ScrapeNext

(* A crawl that succeeds with nothing, upon which every row of the source   *)
(* is deactivated, fetched nothing that shows a posting: the API, the       *)
(* configured page and the page of openings, read by class and by link, are *)
(* tried before a source is taken to have no jobs, whatever they answer.  *)
THEOREM EmptyTheorem == ScrapeSpec => []EmptyOnlyWithoutListing
<1>1. ScrapeInv => EmptyOnlyWithoutListing
  BY DEF ScrapeInv
<1> QED
  BY <1>1, ScrapeInit_Inv, ScrapeNext_Inv, PTL DEF ScrapeSpec

---------------------------------------------------------------------------
(* The corpus reads no posting the crawl does not read.                     *)

LEMMA ApiAgrees ==
  ASSUME NEW source, NEW answer \in Answers
  PROVE  AllRead(ApiCorpusJobs(source, answer), ApiJobs(source, answer))
<1> DEFINE place(x) == IF IsText(x.place) THEN x.place ELSE None
           id(x) == IF IsText(x.id) THEN x.id ELSE JobId(source, x.url)
<1>1. PICK items : items = answer.items
  OBVIOUS
<1>2. IsList(items)
  BY <1>1, ScrapeAssumption DEF IsList
<1>3. PICK those : those = {i \in DOMAIN items : IsText(items[i].title) /\ items[i].url # None}
  OBVIOUS
<1>4. PICK named : named = {i \in DOMAIN items : IsText(items[i].title) /\ items[i].url # None /\ IsText(items[i].id)}
  OBVIOUS
<1>7. those \in SUBSET (DOMAIN items) /\ named \in SUBSET (DOMAIN items)
  BY <1>3, <1>4
<1>5. CASE answer.shape = "jobs"
  <2>1. PICK ok : ok = ItemsAt(items, those) /\ \A i \in those : \E k \in DOMAIN ok : ok[k] = items[i]
    BY <1>2, <1>7, ItemsOf
  <2>2. PICK kept : kept = ItemsAt(items, named) /\ \A k \in DOMAIN kept : \E i \in named : kept[k] = items[i]
    BY <1>2, <1>7, ItemsOf
  <2>3. Where(answer.items, LAMBDA x : IsText(x.title) /\ x.url # None) = ok
    BY <1>1, <1>3, <2>1, Zenon DEF Where
  <2>4. Where(answer.items, LAMBDA x : IsText(x.title) /\ x.url # None /\ IsText(x.id)) = kept
    BY <1>1, <1>4, <2>2, Zenon DEF Where
  <2>5. ApiJobs(source, answer) = [i \in DOMAIN ok |-> Job(source, ok[i].title, ok[i].url, place(ok[i]), id(ok[i]))]
    BY <1>5, <2>3, Zenon DEF ApiJobs
  <2>6. ApiCorpusJobs(source, answer) = [i \in DOMAIN kept |-> CorpusJob(source, kept[i].title, kept[i].url, place(kept[i]), kept[i].id)]
    BY <1>5, <2>4, Zenon DEF ApiCorpusJobs
  <2> HIDE DEF place, id
  <2>7. PICK corpus : corpus = ApiCorpusJobs(source, answer)
    OBVIOUS
  <2>8. PICK crawl : crawl = ApiJobs(source, answer)
    OBVIOUS
  <2>9. ASSUME NEW posting \in ToSet(corpus)
        PROVE  \E read \in ToSet(crawl) :
                 /\ read.title = posting.title /\ read.url = posting.url /\ read.place = posting.place
                 /\ posting.id = IF read.id = None THEN read.url ELSE read.id
    <3>1. PICK k \in DOMAIN kept : posting = CorpusJob(source, kept[k].title, kept[k].url, place(kept[k]), kept[k].id)
      BY <2>6, <2>7, <2>9 DEF ToSet
    <3>2. PICK i \in named : kept[k] = items[i]
      BY <2>2
    <3>3. i \in those
      BY <1>3, <1>4, <3>2
    <3>4. PICK n \in DOMAIN ok : ok[n] = items[i]
      BY <2>1, <3>3
    <3>5. PICK x : x = items[i]
      OBVIOUS
    <3>6. IsText(x.id)
      BY <1>4, <3>2, <3>5
    <3>7. id(x) = x.id /\ x.id # None
      BY <3>6 DEF id, IsText
    <3>8. PICK read : read = crawl[n]
      OBVIOUS
    <3>9. read = Job(source, x.title, x.url, place(x), x.id)
      BY <2>5, <2>8, <3>4, <3>5, <3>7, <3>8
    <3>10. read \in ToSet(crawl)
      BY <2>5, <2>8, <3>8 DEF ToSet
    <3>11. posting = CorpusJob(source, x.title, x.url, place(x), x.id)
      BY <3>1, <3>2, <3>5
    <3>12. /\ read.title = posting.title /\ read.url = posting.url /\ read.place = posting.place
           /\ read.id = posting.id /\ read.id # None
      BY <3>7, <3>9, <3>11 DEF Job, CorpusJob
    <3> QED
      BY <3>10, <3>12
  <2> QED
    BY <2>7, <2>8, <2>9 DEF AllRead
<1>6. CASE answer.shape # "jobs"
  <2>1. ApiCorpusJobs(source, answer) = <<>>
    BY <1>6 DEF ApiCorpusJobs
  <2> QED
    BY <2>1 DEF AllRead, ToSet
<1> QED
  BY <1>5, <1>6

LEMMA PageAgrees ==
  ASSUME NEW source, NEW doc
  PROVE  doc.url = source.url => AllRead(PageCorpusJobs(source, doc), PageJobs(source, source.url, doc.page))
<1> SUFFICES ASSUME doc.url = source.url
             PROVE  AllRead(PageCorpusJobs(source, doc), PageJobs(source, source.url, doc.page))
  OBVIOUS
<1>1. PICK postings : postings = PageJobs(source, doc.url, doc.page)
  OBVIOUS
<1>2. PageCorpusJobs(source, doc) = [i \in DOMAIN postings |-> Renamed(source, postings[i])]
  BY <1>1 DEF PageCorpusJobs
<1>3. ASSUME NEW posting \in ToSet(PageCorpusJobs(source, doc))
      PROVE  \E read \in ToSet(postings) :
               /\ read.title = posting.title /\ read.url = posting.url /\ read.place = posting.place
               /\ posting.id = IF read.id = None THEN read.url ELSE read.id
  <2>1. PICK i \in DOMAIN postings : posting = Renamed(source, postings[i])
    BY <1>2, <1>3 DEF ToSet
  <2>2. PICK read : read = postings[i]
    OBVIOUS
  <2>3. read \in ToSet(postings)
    BY <2>2 DEF ToSet
  <2> QED
    BY <2>1, <2>2, <2>3 DEF Renamed, CorpusJob
<1> QED
  BY <1>1, <1>3 DEF AllRead

LEMMA ReadersTogether == ASSUME ScrapeInv PROVE ReadersAgree
<1> SUFFICES ASSUME NEW i \in DOMAIN docs
             PROVE  LET doc == docs[i] IN
                    IF doc.kind = "api" THEN AllRead(ApiCorpusJobs(Source, doc.answer), ApiJobs(Source, doc.answer))
                    ELSE doc.url = Source.url => AllRead(PageCorpusJobs(Source, doc), PageJobs(Source, Source.url, doc.page))
  BY DEF ReadersAgree
<1>1. docs[i] \in Fetched
  BY DEF ScrapeInv, ToSet
<1>2. CASE docs[i].kind = "api"
  <2>1. PICK answer \in Answers : docs[i] = ApiRead(answer)
    BY <1>1, <1>2 DEF Fetched, Document
  <2>2. docs[i].answer = answer
    BY <2>1 DEF ApiRead
  <2> QED
    BY <1>2, <2>2, ApiAgrees
<1>3. CASE docs[i].kind # "api"
  BY <1>3, PageAgrees
<1> QED
  BY <1>2, <1>3

---------------------------------------------------------------------------
(* A digest is the rows split by source                                     *)

(* The count of a list of sections is the sum of theirs.                    *)
CountRun(sections, p) ==
  /\ p \in [0 .. Len(sections) -> Nat] /\ p[0] = 0
  /\ \A n \in 1 .. Len(sections) : p[n] = p[n - 1] + sections[n].count
  /\ p[Len(sections)] = Total(sections)
LEMMA TotalRun ==
  ASSUME NEW sections, IsList(sections), \A r \in DOMAIN sections : sections[r].count \in Nat
  PROVE  \E p : CountRun(sections, p)
<1>1. PICK N : N = Len(sections) /\ N \in Nat /\ DOMAIN sections = 1 .. N
  BY ListFacts
<1>2. PICK step : step = [n \in 1 .. N |-> [v \in Nat |-> v + sections[n].count]]
  OBVIOUS
<1>3. step \in [1 .. N -> [Nat -> Nat]] /\ 0 \in Nat
  <2>1. \A n \in 1 .. N : \A v \in Nat : v + sections[n].count \in Nat
    BY <1>1
  <2> QED
    BY <1>2, <2>1
<1>4. \A n \in 1 .. N : \A v \in Nat : step[n][v] = v + sections[n].count
  BY <1>2
<1>5. PICK iter : iter = CHOOSE g : g = [t \in SUBSET DOMAIN sections |->
            IF t = {} THEN 0 ELSE LET x == Max(t) IN g[t \ {x}] + sections[x].count]
  OBVIOUS
<1>6. Total(sections) = iter[DOMAIN sections]
  BY <1>5 DEF Total, FoldLeft, MapThenFoldSet
<1>7. iter = [t \in SUBSET DOMAIN sections |->
            IF t = {} THEN 0 ELSE LET x == Max(t) IN iter[t \ {x}] + sections[x].count]
  <2>a. N \in Nat
    BY <1>1
  <2>b. FoldsBy(N, Nat, 0, step) # {}
    BY <1>3, <2>a, FoldExists, Zenon
  <2>0. PICK f : f \in FoldsBy(N, Nat, 0, step)
    BY <2>b
  <2>1. /\ f \in [SUBSET (1 .. N) -> Nat]
        /\ \A t \in SUBSET (1 .. N) : f[t] = IF t = {} THEN 0 ELSE step[Max(t)][f[t \ {Max(t)}]]
    BY <2>0 DEF FoldsBy
  <2>2. ASSUME NEW t \in SUBSET (1 .. N)
        PROVE  f[t] = IF t = {} THEN 0 ELSE LET x == Max(t) IN f[t \ {x}] + sections[x].count
    <3>1. CASE t = {}
      BY <2>1, <3>1
    <3>2. CASE t # {}
      <4>1. Max(t) \in 1 .. N
        BY <1>1, <3>2, MaxIn
      <4>2. f[t \ {Max(t)}] \in Nat
        BY <2>1
      <4>3. f[t] = step[Max(t)][f[t \ {Max(t)}]]
        BY <2>1, <3>2
      <4> QED
        BY <1>4, <3>2, <4>1, <4>2, <4>3
    <3> QED
      BY <3>1, <3>2
  <2>3. f = [t \in SUBSET DOMAIN sections |->
            IF t = {} THEN 0 ELSE LET x == Max(t) IN f[t \ {x}] + sections[x].count]
    BY <1>1, <2>1, <2>2
  <2> QED
    BY <1>5, <2>3
<1>8. iter[{}] = 0
  BY <1>7
<1>9. \A t \in SUBSET (1 .. N) : t # {} /\ iter[t \ {Max(t)}] \in Nat => iter[t] = step[Max(t)][iter[t \ {Max(t)}]]
  <2> SUFFICES ASSUME NEW t \in SUBSET (1 .. N), t # {}, iter[t \ {Max(t)}] \in Nat
               PROVE  iter[t] = step[Max(t)][iter[t \ {Max(t)}]]
    OBVIOUS
  <2>1. Max(t) \in 1 .. N
    BY <1>1, MaxIn
  <2>2. iter[t] = iter[t \ {Max(t)}] + sections[Max(t)].count
    BY <1>1, <1>7
  <2> QED
    BY <1>4, <2>1, <2>2
<1>10. iter[1 .. N] \in {p[N] : p \in RunsOf(N, Nat, 0, step)}
  BY <1>1, <1>3, <1>8, <1>9, FoldRun
<1>11. PICK p \in RunsOf(N, Nat, 0, step) : iter[1 .. N] = p[N]
  BY <1>10
<1>12. p \in [0 .. N -> Nat] /\ p[0] = 0 /\ \A n \in 1 .. N : p[n] = step[n][p[n - 1]]
  BY <1>11 DEF RunsOf
<1>13. \A n \in 1 .. N : p[n] = p[n - 1] + sections[n].count
  <2>2. \A n \in 1 .. N : n - 1 \in 0 .. N
    BY <1>1
  <2>1. \A n \in 1 .. N : p[n - 1] \in Nat
    BY <1>12, <2>2
  <2> QED
    BY <1>4, <1>12, <2>1
<1> QED
  BY <1>1, <1>6, <1>11, <1>12, <1>13 DEF CountRun

(* Sections whose items are those at disjoint positions of a list, and      *)
(* together at the positions T.                                             *)
Split(list, sections, T, part) ==
  /\ IsList(sections)
  /\ \A r \in DOMAIN sections :
       /\ IsList(sections[r].jobs) /\ sections[r].count = Len(sections[r].jobs)
       /\ part[r] \in SUBSET (DOMAIN list) /\ Len(sections[r].jobs) = Cardinality(part[r])
       /\ ToSet(sections[r].jobs) = {list[i] : i \in part[r]}
  /\ \A r, s \in DOMAIN sections : r # s => part[r] \cap part[s] = {}
  /\ UNION {part[r] : r \in DOMAIN sections} = T

SentOf(sections) == FlattenSeq([i \in DOMAIN sections |-> sections[i].jobs])

LEMMA SplitSent ==
  ASSUME NEW list, IsList(list), NEW sections, NEW T, NEW part, Split(list, sections, T, part)
  PROVE  /\ ToSet(SentOf(sections)) = {list[i] : i \in T}
         /\ Len(SentOf(sections)) = Cardinality(T)
         /\ Total(sections) = Len(SentOf(sections))
<1>1. /\ IsList(sections)
      /\ \A r \in DOMAIN sections :
           /\ IsList(sections[r].jobs) /\ sections[r].count = Len(sections[r].jobs)
           /\ part[r] \in SUBSET (DOMAIN list) /\ Len(sections[r].jobs) = Cardinality(part[r])
           /\ ToSet(sections[r].jobs) = {list[i] : i \in part[r]}
      /\ \A r, s \in DOMAIN sections : r # s => part[r] \cap part[s] = {}
      /\ UNION {part[r] : r \in DOMAIN sections} = T
  BY DEF Split
<1>2. PICK N : N = Len(sections) /\ N \in Nat /\ DOMAIN sections = 1 .. N
  BY <1>1, ListFacts
<1>3. PICK n : n = Len(list) /\ n \in Nat /\ DOMAIN list = 1 .. n
  BY ListFacts
<1>4. PICK S : S = UNION {ToSet(sections[r].jobs) : r \in 1 .. N}
  OBVIOUS
<1>5. PICK seqs : seqs = [i \in DOMAIN sections |-> sections[i].jobs]
  OBVIOUS
<1>6. \A r \in 1 .. N : seqs[r] = sections[r].jobs /\ seqs[r] \in Seq(S)
  <2> SUFFICES ASSUME NEW r \in 1 .. N PROVE seqs[r] = sections[r].jobs /\ seqs[r] \in Seq(S)
    OBVIOUS
  <2>1. seqs[r] = sections[r].jobs
    BY <1>2, <1>5
  <2>2. PICK items : items = sections[r].jobs
    OBVIOUS
  <2>3. PICK m : m = Len(items) /\ m \in Nat /\ items = [i \in 1 .. m |-> items[i]] /\ DOMAIN items = 1 .. m
    BY <1>1, <1>2, <2>2, ListFacts
  <2>4. \A i \in 1 .. m : items[i] \in S
    BY <1>4, <2>2, <2>3 DEF ToSet
  <2>5. items \in Seq(S)
    <3>1. items \in [1 .. m -> S]
      BY <2>3, <2>4
    <3> QED
      BY <2>3, <3>1
  <2> QED
    BY <2>1, <2>2, <2>5
<1>7. seqs \in Seq(Seq(S)) /\ Len(seqs) = N
  BY <1>2, <1>5, <1>6
<1>8. Counted(seqs, n, part)
  BY <1>1, <1>2, <1>3, <1>6, <1>7 DEF Counted
<1>9. Len(FlattenSeq(seqs)) = Cardinality(Together(part, Len(seqs)))
  <2>1. n \in Nat /\ seqs \in Seq(Seq(S))
    BY <1>3, <1>7
  <2> QED
    BY <1>8, <2>1, FlattenCount
<1>10. Len(SentOf(sections)) = Cardinality(T)
  <2>1. Together(part, N) = T
    BY <1>1, <1>2 DEF Together
  <2> QED
    BY <1>5, <1>7, <1>9, <2>1 DEF SentOf
<1>11. ToSet(SentOf(sections)) = {list[i] : i \in T}
  <2>1. ToSet(FlattenSeq(seqs)) = UNION {ToSet(seqs[i]) : i \in 1 .. N}
    BY <1>7, FlattenThere
  <2>2. UNION {ToSet(seqs[i]) : i \in 1 .. N} = {list[i] : i \in T}
    <3>1. \A r \in 1 .. N : ToSet(seqs[r]) = {list[i] : i \in part[r]}
      BY <1>1, <1>2, <1>6
    <3>2. T = UNION {part[r] : r \in 1 .. N}
      BY <1>1, <1>2
    <3> QED
      BY <3>1, <3>2
  <2> QED
    BY <1>5, <2>1, <2>2 DEF SentOf
<1>12. Total(sections) = Len(FlattenSeq(seqs))
  <2>1. \A r \in DOMAIN sections : sections[r].count \in Nat
    BY <1>1, ListFacts
  <2>2. PICK p : CountRun(sections, p)
    BY <1>1, <2>1, TotalRun
  <2>3. /\ p \in [0 .. N -> Nat] /\ p[0] = 0
        /\ \A m \in 1 .. N : p[m] = p[m - 1] + Len(seqs[m])
        /\ p[N] = Total(sections)
    BY <1>1, <1>2, <1>6, <2>2 DEF CountRun
  <2>4. PICK q \in [0 .. N -> Seq(S)] :
           q[0] = <<>> /\ (\A m \in 1 .. N : q[m] = q[m - 1] \o seqs[m]) /\ q[N] = FlattenSeq(seqs)
    BY <1>7, FlattenRun
  <2>5. PICK Good : Good = {m \in 0 .. N : p[m] = Len(q[m])}
    OBVIOUS
  <2>6. 0 \in Good
    BY <1>2, <2>3, <2>4, <2>5
  <2>7. ASSUME NEW m \in 1 .. N, m - 1 \in Good PROVE m \in Good
    <3>1. m - 1 \in 0 .. N
      BY <1>2
    <3>2. q[m] = q[m - 1] \o seqs[m] /\ q[m - 1] \in Seq(S) /\ seqs[m] \in Seq(S)
      BY <1>6, <2>4, <3>1
    <3>3. Len(q[m]) = Len(q[m - 1]) + Len(seqs[m])
      BY <3>2
    <3>4. p[m - 1] = Len(q[m - 1])
      BY <2>5, <2>7
    <3>5. p[m] = Len(q[m])
      BY <2>3, <3>3, <3>4
    <3> QED
      BY <1>2, <2>5, <3>5
  <2>8. \A m \in 0 .. N : m \in Good
    BY <1>2, <2>6, <2>7, PrefixInduction
  <2> QED
    BY <1>2, <2>3, <2>4, <2>5, <2>8
<1> QED
  BY <1>5, <1>10, <1>11, <1>12 DEF SentOf

(* The sections of a digest: those of its sources, all rows among them.     *)
Built(list, sections, part) ==
  /\ Split(list, sections, DOMAIN list, part)
  /\ \A r \in DOMAIN sections : sections[r].jobs = ItemsAt(list, part[r])
LEMMA BuiltSplit ==
  ASSUME NEW list, IsList(list)
  PROVE  BuildDigest(list).total = Len(list) /\ \E part : Built(list, BuildDigest(list).sections, part)
<1> DEFINE section(key) == LET own == Where(list, LAMBDA j : SectionKey(j) = key)
                           IN [key |-> key, count |-> Len(own), jobs |-> own]
           At(key) == {i \in DOMAIN list : SectionKey(list[i]) = key}
<1>1. PICK n : n = Len(list) /\ n \in Nat /\ DOMAIN list = 1 .. n
  BY ListFacts
<1>2. PICK F : F = {i \in DOMAIN list : \A k \in 1 .. i - 1 : SectionKey(list[k]) # SectionKey(list[i])}
  OBVIOUS
<1>3. F \in SUBSET (1 .. n)
  BY <1>1, <1>2
<1>4. PICK firsts : firsts = ItemsAt(list, F)
  OBVIOUS
<1>5. PICK N : N = Cardinality(F)
  OBVIOUS
<1>6. PICK pos : /\ pos \in [1 .. N -> F]
                 /\ firsts = [k \in 1 .. N |-> list[pos[k]]]
                 /\ \A k, m \in 1 .. N : pos[k] = pos[m] => k = m
                 /\ \A i \in F : \E k \in 1 .. N : pos[k] = i
  <2>1. PICK p : Placed(list, F, p)
    BY <1>1, <1>3, ItemsPlaced
  <2> QED
    BY <1>4, <1>5, <2>1, Zenon DEF Placed
<1>7. N \in Nat
  BY <1>1, <1>3, <1>5, Cardinals
<1>8. PICK sections : sections = [m \in DOMAIN firsts |-> section(SectionKey(firsts[m]))]
  OBVIOUS
<1>9. BuildDigest(list) = [total |-> Len(list), sections |-> sections]
  <2> DEFINE heads == ItemsAt(list, {i \in DOMAIN list : \A k \in 1 .. i - 1 : SectionKey(list[k]) # SectionKey(list[i])})
  <2>1. BuildDigest(list) = [total |-> Len(list), sections |-> [m \in DOMAIN heads |-> section(SectionKey(heads[m]))]]
    BY Zenon DEF BuildDigest
  <2>2. heads = firsts
    BY <1>2, <1>4
  <2> HIDE DEF heads, section
  <2> QED
    BY <1>8, <2>1, <2>2
<1>10. ASSUME NEW key
       PROVE  /\ section(key).jobs = ItemsAt(list, At(key)) /\ section(key).count = Len(ItemsAt(list, At(key)))
  <2>1. Where(list, LAMBDA j : SectionKey(j) = key) = ItemsAt(list, At(key))
    BY Zenon DEF Where
  <2> QED
    BY <2>1
<1> HIDE DEF section
<1>11. DOMAIN sections = 1 .. N /\ \A r \in 1 .. N : sections[r] = section(SectionKey(list[pos[r]]))
  BY <1>6, <1>8
<1>12. PICK part : part = [r \in 1 .. N |-> At(SectionKey(list[pos[r]]))]
  OBVIOUS
<1>13. \A r \in 1 .. N : /\ part[r] \in SUBSET (DOMAIN list)
                         /\ \A i \in DOMAIN list : i \in part[r] <=> SectionKey(list[i]) = SectionKey(list[pos[r]])
  BY <1>12
<1>14. \A r \in 1 .. N : /\ sections[r].jobs = ItemsAt(list, part[r])
                         /\ sections[r].count = Len(ItemsAt(list, part[r]))
  <2>1. \A r \in 1 .. N : part[r] = At(SectionKey(list[pos[r]]))
    BY <1>12
  <2> HIDE DEF At
  <2> QED
    BY <1>10, <1>11, <2>1
<1> HIDE DEF At
<1>15. IsList(sections)
  <2>1. sections = [r \in 1 .. N |-> sections[r]]
    BY <1>8, <1>11
  <2> QED
    BY <1>7, <2>1, ListIs
<1>16. ASSUME NEW r \in 1 .. N
       PROVE  /\ IsList(sections[r].jobs) /\ sections[r].count = Len(sections[r].jobs)
              /\ Len(sections[r].jobs) = Cardinality(part[r])
              /\ ToSet(sections[r].jobs) = {list[i] : i \in part[r]}
  <2>1. PICK at1 : at1 = part[r] /\ at1 \in SUBSET (DOMAIN list)
    BY <1>13
  <2>2. PICK own : own = ItemsAt(list, at1)
    OBVIOUS
  <2>3. /\ IsList(own) /\ Len(own) = Cardinality(at1)
        /\ \A k \in DOMAIN own : \E i \in at1 : own[k] = list[i]
        /\ \A i \in at1 : \E k \in DOMAIN own : own[k] = list[i]
    BY <2>1, <2>2, ItemsOf
  <2>4. ToSet(own) = {list[i] : i \in at1}
    BY <2>3 DEF ToSet
  <2> QED
    BY <1>14, <2>1, <2>2, <2>3, <2>4
<1>17. ASSUME NEW r \in 1 .. N, NEW s \in 1 .. N, r # s PROVE part[r] \cap part[s] = {}
  <2> SUFFICES ASSUME NEW i \in part[r], i \in part[s] PROVE FALSE
    OBVIOUS
  <2>1. SectionKey(list[pos[r]]) = SectionKey(list[pos[s]])
    BY <1>13
  <2>2. PICK a : a = pos[r]
    OBVIOUS
  <2>3. PICK b : b = pos[s]
    OBVIOUS
  <2>4. a \in F /\ b \in F /\ a # b /\ a \in 1 .. n /\ b \in 1 .. n
    BY <1>3, <1>6, <1>17, <2>2, <2>3
  <2>5. ~(a < b) /\ ~(b < a)
    <3>1. a < b => a \in 1 .. b - 1
      BY <2>4
    <3>2. b < a => b \in 1 .. a - 1
      BY <2>4
    <3> QED
      BY <1>2, <2>1, <2>2, <2>3, <2>4, <3>1, <3>2
  <2> QED
    BY <2>4, <2>5
<1>18. UNION {part[r] : r \in 1 .. N} = DOMAIN list
  <2>1. ASSUME NEW i \in DOMAIN list PROVE \E r \in 1 .. N : i \in part[r]
    <3>1. PICK same : same = {k \in DOMAIN list : SectionKey(list[k]) = SectionKey(list[i])}
      OBVIOUS
    <3>2. same \in SUBSET Nat /\ i \in same
      BY <1>1, <3>1
    <3>3. PICK f \in same : \A k \in same : f <= k
      BY <3>2, LeastOf
    <3>4. f \in F
      <4> SUFFICES ASSUME NEW k \in 1 .. f - 1 PROVE SectionKey(list[k]) # SectionKey(list[f])
        BY <1>2, <3>1
      <4>1. k \in DOMAIN list /\ k < f
        BY <1>1, <3>1
      <4> QED
        BY <1>1, <3>1, <3>2, <3>3, <4>1
    <3>5. PICK r \in 1 .. N : pos[r] = f
      BY <1>6, <3>4
    <3> QED
      BY <1>13, <3>1, <3>5
  <2>2. \A r \in 1 .. N : part[r] \subseteq DOMAIN list
    BY <1>13
  <2> QED
    BY <2>1, <2>2
<1>19. Split(list, sections, DOMAIN list, part)
  BY <1>11, <1>13, <1>15, <1>16, <1>17, <1>18 DEF Split
<1>20. Built(list, sections, part)
  BY <1>11, <1>14, <1>19 DEF Built
<1> QED
  BY <1>9, <1>20

(* What a filter keeps of them is split among them still.                   *)
Passing(list, filter) == {i \in DOMAIN list : Passes(list[i], filter)}
KeptOf(sections, filter) ==
  Where([i \in DOMAIN sections |-> Kept(sections[i], filter)], LAMBDA s : s.jobs # <<>>)
LEMMA KeptSplit ==
  ASSUME NEW list, IsList(list), NEW sections, NEW part, Built(list, sections, part), NEW filter
  PROVE  \E those : Split(list, KeptOf(sections, filter), Passing(list, filter), those)
<1>1. PICK good : good = Passing(list, filter)
  OBVIOUS
<1>2. /\ IsList(sections)
      /\ \A r \in DOMAIN sections : /\ sections[r].jobs = ItemsAt(list, part[r]) /\ IsList(sections[r].jobs)
                                    /\ part[r] \in SUBSET (DOMAIN list)
      /\ \A r, s \in DOMAIN sections : r # s => part[r] \cap part[s] = {}
      /\ UNION {part[r] : r \in DOMAIN sections} = DOMAIN list
  BY DEF Built, Split
<1>3. PICK N : N = Len(sections) /\ N \in Nat /\ DOMAIN sections = 1 .. N
  BY <1>2, ListFacts
<1>4. PICK all : all = [i \in DOMAIN sections |-> Kept(sections[i], filter)]
  OBVIOUS
<1>5. IsList(all) /\ DOMAIN all = 1 .. N
  <2>1. all = [i \in 1 .. N |-> all[i]]
    BY <1>3, <1>4
  <2> QED
    BY <1>3, <2>1, ListIs
<1>6. ASSUME NEW r \in 1 .. N
      PROVE  /\ IsList(all[r].jobs) /\ all[r].count = Len(all[r].jobs)
             /\ Len(all[r].jobs) = Cardinality(part[r] \cap good)
             /\ ToSet(all[r].jobs) = {list[i] : i \in part[r] \cap good}
             /\ all[r].jobs = <<>> <=> part[r] \cap good = {}
  <2>1. PICK own : own = sections[r].jobs
    OBVIOUS
  <2>2. PICK at1 : at1 = part[r] /\ at1 \in SUBSET (DOMAIN list)
    BY <1>2, <1>3
  <2>3. own = ItemsAt(list, at1) /\ IsList(own)
    BY <1>2, <1>3, <2>1, <2>2
  <2>4. PICK those : those = {k \in DOMAIN own : Passes(own[k], filter)}
    OBVIOUS
  <2>5. PICK G : G = {x \in ToSet(list) \cup ToSet(own) : Passes(x, filter)}
    OBVIOUS
  <2>6. \A i \in at1 : i \in good <=> list[i] \in G
    BY <1>1, <2>2, <2>5 DEF Passing, ToSet
  <2>7. \A k \in DOMAIN own : k \in those <=> own[k] \in G
    BY <2>4, <2>5 DEF ToSet
  <2>8. those \in SUBSET (DOMAIN own) /\ good \in SUBSET (DOMAIN list)
    BY <1>1, <2>4 DEF Passing
  <2>9. PICK picked : picked = ItemsAt(own, those)
    OBVIOUS
  <2>10. /\ IsList(picked) /\ Len(picked) = Cardinality(at1 \cap good)
         /\ ToSet(picked) = {list[i] : i \in at1 \cap good}
         /\ picked = <<>> <=> at1 \cap good = {}
    <3>1. AsMany(ItemsAt(own, those), list, at1 \cap good)
      BY <2>2, <2>3, <2>6, <2>7, <2>8, ItemsAmong
    <3> QED
      BY <2>9, <3>1 DEF AsMany
  <2>11. Where(own, LAMBDA j : Passes(j, filter)) = picked
    BY <2>4, <2>9, Zenon DEF Where
  <2>12. Kept(sections[r], filter) = [key |-> sections[r].key, count |-> Len(picked), jobs |-> picked]
    BY <2>1, <2>11, Zenon DEF Kept
  <2>13. all[r].jobs = picked /\ all[r].count = Len(picked)
    BY <1>3, <1>4, <2>12
  <2> QED
    BY <2>2, <2>10, <2>13
<1>7. PICK K : K = {r \in DOMAIN all : all[r].jobs # <<>>}
  OBVIOUS
<1>8. K \in SUBSET (1 .. N)
  BY <1>5, <1>7
<1>9. PICK kept : kept = ItemsAt(all, K)
  OBVIOUS
<1>10. KeptOf(sections, filter) = kept
  BY <1>4, <1>7, <1>9, Zenon DEF KeptOf, Where
<1>11. PICK M : M = Cardinality(K) /\ M \in Nat
  BY <1>3, <1>8, Cardinals
<1>12. PICK pos : /\ pos \in [1 .. M -> K]
                  /\ kept = [k \in 1 .. M |-> all[pos[k]]]
                  /\ \A k, m \in 1 .. M : pos[k] = pos[m] => k = m
                  /\ \A i \in K : \E k \in 1 .. M : pos[k] = i
  <2>1. PICK p : Placed(all, K, p)
    BY <1>3, <1>8, ItemsPlaced
  <2> QED
    BY <1>9, <1>11, <2>1, Zenon DEF Placed
<1>13. IsList(kept) /\ DOMAIN kept = 1 .. M
  <2>1. kept = [k \in 1 .. M |-> kept[k]]
    BY <1>12
  <2> QED
    BY <1>11, <2>1, ListIs
<1>14. PICK those : those = [k \in 1 .. M |-> part[pos[k]] \cap good]
  OBVIOUS
<1>15. ASSUME NEW k \in 1 .. M
       PROVE  /\ IsList(kept[k].jobs) /\ kept[k].count = Len(kept[k].jobs)
              /\ those[k] \in SUBSET (DOMAIN list) /\ Len(kept[k].jobs) = Cardinality(those[k])
              /\ ToSet(kept[k].jobs) = {list[i] : i \in those[k]}
  <2>1. PICK r \in 1 .. N : r = pos[k]
    BY <1>8, <1>12
  <2>2. kept[k] = all[r] /\ those[k] = part[r] \cap good
    BY <1>12, <1>14, <2>1
  <2>3. part[r] \in SUBSET (DOMAIN list)
    BY <1>2, <1>3
  <2> QED
    BY <1>6, <2>2, <2>3
<1>16. ASSUME NEW k \in 1 .. M, NEW m \in 1 .. M, k # m PROVE those[k] \cap those[m] = {}
  <2>1. pos[k] # pos[m] /\ pos[k] \in 1 .. N /\ pos[m] \in 1 .. N
    BY <1>8, <1>12, <1>16
  <2>2. part[pos[k]] \cap part[pos[m]] = {}
    BY <1>2, <1>3, <2>1
  <2> QED
    BY <1>14, <2>2
<1>17. UNION {those[k] : k \in 1 .. M} = good
  <2>1. ASSUME NEW i \in good PROVE \E k \in 1 .. M : i \in those[k]
    <3>1. i \in DOMAIN list
      BY <1>1 DEF Passing
    <3>2. PICK r \in 1 .. N : i \in part[r]
      BY <1>2, <1>3, <3>1
    <3>3. r \in K
      BY <1>5, <1>6, <1>7, <3>2
    <3>4. PICK k \in 1 .. M : pos[k] = r
      BY <1>12, <3>3
    <3> QED
      BY <1>14, <3>2, <3>4
  <2>2. \A k \in 1 .. M : those[k] \subseteq good
    BY <1>14
  <2> QED
    BY <2>1, <2>2
<1>18. Split(list, kept, good, those)
  BY <1>13, <1>15, <1>16, <1>17 DEF Split
<1> QED
  BY <1>1, <1>10, <1>18

LEMMA PreviewIs ==
  ASSUME NEW list, IsList(list), NEW filter
  PROVE  /\ ToSet(Preview(list, filter).passed) = {list[i] : i \in Passing(list, filter)}
         /\ Len(Preview(list, filter).rejected) = Len(list) - Cardinality(Passing(list, filter))
         /\ Len(list) \in Nat /\ Cardinality(Passing(list, filter)) \in Nat
<1>1. PICK n : n = Len(list) /\ n \in Nat /\ DOMAIN list = 1 .. n
  BY ListFacts
<1>2. PICK good : good = {i \in DOMAIN list : Passes(list[i], filter)}
  OBVIOUS
<1>3. PICK bad : bad = {i \in DOMAIN list : ~Passes(list[i], filter)}
  OBVIOUS
<1>4. Preview(list, filter) = [passed |-> ItemsAt(list, good), rejected |-> ItemsAt(list, bad)]
  BY <1>2, <1>3, Zenon DEF Preview, Where
<1>5. good \in SUBSET (DOMAIN list) /\ bad \in SUBSET (DOMAIN list) /\ bad = (1 .. n) \ good
  BY <1>1, <1>2, <1>3
<1>6. PICK passed : /\ passed = ItemsAt(list, good)
                    /\ \A k \in DOMAIN passed : \E i \in good : passed[k] = list[i]
                    /\ \A i \in good : \E k \in DOMAIN passed : passed[k] = list[i]
  BY <1>5, ItemsOf
<1>7. ToSet(passed) = {list[i] : i \in good}
  BY <1>6 DEF ToSet
<1>8. Len(ItemsAt(list, bad)) = Cardinality(bad)
  BY <1>5, ItemsOf
<1>9. Cardinality(bad) = n - Cardinality(good) /\ Cardinality(good) \in Nat
  BY <1>1, <1>5, Cardinals
<1> QED
  <2>1. Passing(list, filter) = good
    BY <1>2 DEF Passing
  <2>2. Preview(list, filter).passed = passed
    BY <1>4, <1>6
  <2>3. Len(Preview(list, filter).rejected) = n - Cardinality(good)
    BY <1>4, <1>8, <1>9
  <2>4. ToSet(Preview(list, filter).passed) = {list[i] : i \in good}
    BY <1>7, <2>2
  <2> QED
    BY <1>1, <1>9, <2>1, <2>3, <2>4

LEMMA DigestTogether == ASSUME ScrapeInv PROVE DigestAsPreviewed
<1>1. CASE digest = None
  BY <1>1 DEF DigestAsPreviewed
<1>2. CASE digest # None
  <2>1. PICK filter : filter = digest.filter
    OBVIOUS
  <2>2. PICK result : result = digest.result
    OBVIOUS
  <2>3. PICK whole : whole = BuildDigest(rows)
    OBVIOUS
  <2>4. IsList(rows) /\ digest = Sent
    BY <1>2 DEF ScrapeInv
  <2>5. result = FilteredDigest(whole, filter)
    BY <2>1, <2>2, <2>3, <2>4 DEF Sent
  <2>6. whole.total = Len(rows) /\ \E part : Built(rows, whole.sections, part)
    BY <2>3, <2>4, BuiltSplit
  <2>7. PICK part : Built(rows, whole.sections, part)
    BY <2>6
  <2>8. PICK good : good = Passing(rows, filter)
    OBVIOUS
  <2>9. /\ ToSet(Preview(rows, filter).passed) = {rows[i] : i \in good}
        /\ Len(Preview(rows, filter).rejected) = Len(rows) - Cardinality(good)
        /\ Len(rows) \in Nat /\ Cardinality(good) \in Nat
    BY <2>4, <2>8, PreviewIs
  <2>10. /\ \E those : Split(rows, result.sections, good, those)
         /\ result.total = Cardinality(good) /\ result.out = Len(rows) - Cardinality(good)
    <3>1. CASE ~Enabled(filter)
      <4>1. result = [total |-> whole.total, sections |-> whole.sections, out |-> 0]
        BY <2>5, <3>1 DEF FilteredDigest
      <4>2. good = DOMAIN rows
        BY <2>8, <3>1 DEF Passing, Passes
      <4>3. Split(rows, whole.sections, good, part)
        BY <2>7, <4>2 DEF Built
      <4>4. Cardinality(good) = Len(rows)
        <5>1. PICK n : n = Len(rows) /\ n \in Nat /\ DOMAIN rows = 1 .. n
          BY <2>4, ListFacts
        <5>2. Cardinality(1 .. n) = n
          <6>1. 1 \in Int /\ n \in Int
            BY <5>1
          <6>2. Cardinality(1 .. n) = IF 1 > n THEN 0 ELSE n - 1 + 1
            BY <6>1, FS_Interval, Zenon
          <6> QED
            BY <5>1, <6>2
        <5> QED
          BY <4>2, <5>1, <5>2
      <4> QED
        BY <2>6, <2>9, <4>1, <4>3, <4>4
    <3>2. CASE Enabled(filter)
      <4>1. PICK kept : kept = KeptOf(whole.sections, filter)
        OBVIOUS
      <4>2. result = [total |-> Total(kept), sections |-> kept, out |-> whole.total - Total(kept)]
        BY <2>5, <3>2, <4>1, Zenon DEF FilteredDigest, KeptOf
      <4>3. PICK those : Split(rows, kept, good, those)
        BY <2>4, <2>7, <2>8, <4>1, KeptSplit
      <4>4. Total(kept) = Cardinality(good)
        BY <2>4, <4>3, SplitSent
      <4> QED
        BY <2>6, <4>2, <4>3, <4>4
    <3> QED
      BY <3>1, <3>2
  <2>11. PICK those : Split(rows, result.sections, good, those)
    BY <2>10
  <2>12. ToSet(SentOf(result.sections)) = {rows[i] : i \in good} /\ Len(SentOf(result.sections)) = Cardinality(good)
    BY <2>4, <2>11, SplitSent
  <2>13. \A r \in DOMAIN result.sections : result.sections[r].count = Len(result.sections[r].jobs)
    BY <2>11 DEF Split
  <2>14. /\ ToSet(SentOf(digest.result.sections)) = ToSet(Preview(rows, digest.filter).passed)
         /\ digest.result.total = Len(SentOf(digest.result.sections))
         /\ digest.result.out = Len(Preview(rows, digest.filter).rejected)
         /\ \A i \in DOMAIN digest.result.sections :
              digest.result.sections[i].count = Len(digest.result.sections[i].jobs)
    BY <2>1, <2>2, <2>9, <2>10, <2>12, <2>13
  <2> QED
    BY <2>14, Zenon DEF DigestAsPreviewed, SentOf
<1> QED
  BY <1>1, <1>2

(* Programs that read the same see the same, whatever was fetched, whatever *)
(* rows a crawl left and whatever the filter: the corpus reads no posting   *)
(* the crawl does not read, and a digest names exactly the jobs the preview *)
(* of its filter passes, under counts that add up.                          *)
THEOREM SameTheorem == ScrapeSpec => []SameForEveryReader
<1>1. ScrapeInv => SameForEveryReader
  BY ReadersTogether, DigestTogether DEF SameForEveryReader
<1> QED
  BY <1>1, ScrapeInit_Inv, ScrapeNext_Inv, PTL DEF ScrapeSpec

-----------------------------------------------------------------------------
(* The years of a profile.                                                 *)

Span == [start : Int, end : Int]
YearsOf(r) == r.start..(r.end - 1)
YearsIn(m, n) == UNION {YearsOf(m[i]) : i \in 1..n}

\* Ranges one after the other, a year or more between them.
Apart(m) ==
    /\ m \in Seq(Span)
    /\ \A i \in 1..Len(m) : m[i].start < m[i].end
    /\ \A i, k \in 1..Len(m) : i < k => m[i].end < m[k].start

LEMMA MergeTyped ==
  ASSUME NEW m \in Seq(Span), NEW r \in Span
  PROVE  /\ MergeInto(m, r) \in Seq(Span)
         /\ IF m # <<>> /\ r.start <= m[Len(m)].end
            THEN /\ Len(MergeInto(m, r)) = Len(m) /\ Len(m) \in 1..Len(m)
                 /\ \A i \in 1..(Len(m) - 1) : MergeInto(m, r)[i] = m[i]
                 /\ MergeInto(m, r)[Len(m)].start = m[Len(m)].start
                 /\ MergeInto(m, r)[Len(m)].end = Most(m[Len(m)].end, r.end)
            ELSE MergeInto(m, r) = Append(m, r)
<1>1. PICK n : n = Len(m) /\ n \in Nat /\ DOMAIN m = 1..n /\ \A i \in 1..n : m[i] \in Span
  OBVIOUS
<1>2. CASE m # <<>> /\ r.start <= m[n].end
  <2>1. n \in 1..n
    BY <1>1, <1>2
  <2>2. PICK last : last = [m[n] EXCEPT !.end = Most(@, r.end)]
    OBVIOUS
  <2>3. Most(m[n].end, r.end) \in Int /\ m[n] \in Span
    BY <1>1, <2>1 DEF Span, Most
  <2>4. last \in Span /\ last.start = m[n].start /\ last.end = Most(m[n].end, r.end)
    BY <2>2, <2>3 DEF Span
  <2>5. MergeInto(m, r) = [m EXCEPT ![n] = last]
    BY <1>1, <1>2, <2>1, <2>2 DEF MergeInto, Last
  <2>6. [m EXCEPT ![n] = last] \in Seq(Span) /\ Len([m EXCEPT ![n] = last]) = n
    BY <1>1, <2>1, <2>4
  <2>7. [m EXCEPT ![n] = last][n] = last /\ \A i \in 1..(n - 1) : [m EXCEPT ![n] = last][i] = m[i]
    BY <1>1, <2>1
  <2> QED
    BY <1>1, <1>2, <2>1, <2>4, <2>5, <2>6, <2>7
<1>3. CASE ~(m # <<>> /\ r.start <= m[n].end)
  <2>1. MergeInto(m, r) = Append(m, r)
    BY <1>1, <1>3 DEF MergeInto, Last
  <2> QED
    BY <1>1, <1>3, <2>1
<1> QED
  BY <1>1, <1>2, <1>3

\* A range is merged into those before it: they stay apart, and cover its
\* years too.
LEMMA MergeKeepsApart ==
  ASSUME NEW m, Apart(m), NEW r \in Span, r.start < r.end,
         m # <<>> => m[Len(m)].start <= r.start,
         NEW w, w = MergeInto(m, r)
  PROVE  /\ Apart(w) /\ Len(w) \in 1..Len(w) /\ w[Len(w)].start <= r.start
         /\ YearsIn(w, Len(w)) = YearsIn(m, Len(m)) \cup YearsOf(r)
<1>1. PICK n : n = Len(m) /\ n \in Nat /\ DOMAIN m = 1..n /\ \A i \in 1..n : m[i] \in Span
  BY DEF Apart
<1>2. \A i \in 1..n : m[i].start \in Int /\ m[i].end \in Int /\ m[i].start < m[i].end
  BY <1>1 DEF Apart, Span
<1>3. r.start \in Int /\ r.end \in Int
  BY DEF Span
<1>4. m \in Seq(Span) /\ \A i, k \in 1..n : i < k => m[i].end < m[k].start
  BY <1>1 DEF Apart
<1>5. CASE m # <<>> /\ r.start <= m[n].end
  <2>1. /\ w \in Seq(Span) /\ Len(w) = n /\ n \in 1..n
        /\ \A i \in 1..(n - 1) : w[i] = m[i]
        /\ w[n].start = m[n].start /\ w[n].end = Most(m[n].end, r.end)
    BY <1>1, <1>4, <1>5, MergeTyped
  <2>2. m[n].start <= r.start
    BY <1>1, <1>5
  <2>3. \A i \in 1..n : i = n \/ i \in 1..(n - 1)
    BY <1>1
  <2>4. w[n].end \in Int /\ w[n].end >= m[n].end /\ w[n].end >= r.end /\ w[n].end \in {m[n].end, r.end}
    BY <1>2, <1>3, <2>1 DEF Most
  <2>5. \A i \in 1..n : w[i].start = m[i].start /\ w[i].start < w[i].end
    BY <1>1, <1>2, <2>1, <2>3, <2>4
  <2>6. \A i, k \in 1..n : i < k => w[i].end < w[k].start
    <3>1. \A i, k \in 1..n : i < k => i \in 1..(n - 1)
      BY <1>1
    <3> QED
      BY <1>4, <2>1, <2>5, <3>1
  <2>7. YearsOf(w[n]) = YearsOf(m[n]) \cup YearsOf(r)
    <3>1. m[n].start \in Int /\ m[n].end \in Int /\ m[n].start < m[n].end
      BY <1>2, <2>1
    <3> QED
      BY <1>3, <1>5, <2>1, <2>2, <2>4, <3>1 DEF YearsOf
  <2>8. YearsIn(w, n) = YearsIn(m, n) \cup YearsOf(r)
    <3>1. \A y : y \in YearsIn(w, n) <=> \E i \in 1..n : y \in YearsOf(w[i])
      BY DEF YearsIn
    <3>2. \A y : y \in YearsIn(m, n) <=> \E i \in 1..n : y \in YearsOf(m[i])
      BY DEF YearsIn
    <3>3. \A i \in 1..n : i # n => YearsOf(w[i]) = YearsOf(m[i])
      BY <2>1, <2>3
    <3> HIDE DEF YearsOf
    <3>4. \A y : y \in YearsIn(w, n) <=> y \in YearsIn(m, n) \/ y \in YearsOf(r)
      BY <2>1, <2>7, <3>1, <3>2, <3>3
    <3> QED
      BY <3>4
  <2> QED
    BY <1>1, <2>1, <2>2, <2>5, <2>6, <2>8 DEF Apart
<1>6. CASE ~(m # <<>> /\ r.start <= m[n].end)
  <2>1. w = Append(m, r)
    BY <1>1, <1>4, <1>6, MergeTyped
  <2>2. /\ w \in Seq(Span) /\ Len(w) = n + 1 /\ w[n + 1] = r
        /\ \A i \in 1..n : w[i] = m[i]
    BY <1>1, <1>4, <2>1
  <2>3. 1..(n + 1) = (1..n) \cup {n + 1} /\ n + 1 \in 1..(n + 1) /\ n + 1 \notin 1..n
    BY <1>1
  <2>4. \A i \in 1..(n + 1) : w[i].start < w[i].end
    BY <1>2, <2>2, <2>3
  <2>5. \A i \in 1..n : m[i].end < r.start
    <3>1. SUFFICES ASSUME NEW i \in 1..n PROVE m[i].end < r.start
      OBVIOUS
    <3>2. n \in 1..n /\ m # <<>>
      BY <1>1
    <3>3. ~(r.start <= m[n].end) /\ m[n].end \in Int /\ m[n].start \in Int /\ m[n].start < m[n].end
      BY <1>2, <1>6, <3>2
    <3>4. i = n \/ m[i].end < m[n].start
      BY <1>1, <1>4, <3>2
    <3> QED
      BY <1>2, <1>3, <3>3, <3>4
  <2>6. \A i, k \in 1..(n + 1) : i < k => w[i].end < w[k].start
    <3>1. \A i, k \in 1..(n + 1) : i < k => i \in 1..n /\ (k \in 1..n \/ k = n + 1)
      BY <1>1
    <3> QED
      BY <1>4, <2>2, <2>5, <3>1
  <2>7. YearsIn(w, n + 1) = YearsIn(m, n) \cup YearsOf(r)
    <3>1. \A y : y \in YearsIn(w, n + 1) <=> \E i \in 1..(n + 1) : y \in YearsOf(w[i])
      BY DEF YearsIn
    <3>2. \A y : y \in YearsIn(m, n) <=> \E i \in 1..n : y \in YearsOf(m[i])
      BY DEF YearsIn
    <3> HIDE DEF YearsOf
    <3>4. \A y : y \in YearsIn(w, n + 1) <=> y \in YearsIn(m, n) \/ y \in YearsOf(r)
      BY <2>2, <2>3, <3>1, <3>2
    <3> QED
      BY <3>4
  <2> QED
    BY <1>1, <1>3, <2>2, <2>3, <2>4, <2>6, <2>7 DEF Apart
<1> QED
  BY <1>5, <1>6

\* The ranges merged one after the other.
LEMMA MergeRun ==
  ASSUME NEW s \in Seq(Span)
  PROVE  \E p \in [0..Len(s) -> Seq(Span)] :
           /\ p[0] = <<>> /\ p[Len(s)] = FoldLeft(MergeInto, <<>>, s)
           /\ \A n \in 1..Len(s) : p[n] = MergeInto(p[n - 1], s[n])
<1>1. PICK N : N = Len(s) /\ N \in Nat /\ DOMAIN s = 1..N
  OBVIOUS
<1>2. PICK iter : iter = CHOOSE g : g = [t \in SUBSET DOMAIN s |->
            IF t = {} THEN <<>> ELSE LET x == Max(t) IN MergeInto(g[t \ {x}], s[x])]
  OBVIOUS
<1>3. FoldLeft(MergeInto, <<>>, s) = iter[DOMAIN s]
  BY <1>2 DEF FoldLeft, MapThenFoldSet
<1>4. PICK V : V = Seq(Span)
  OBVIOUS
<1>5. PICK step : step = [n \in 1..N |-> [v \in V |-> MergeInto(v, s[n])]]
  OBVIOUS
<1>6. <<>> \in V /\ step \in [1..N -> [V -> V]]
  <2>1. <<>> \in V
    BY <1>4
  <2>2. \A n \in 1..N : \A v \in V : MergeInto(v, s[n]) \in V
    BY <1>1, <1>4, MergeTyped
  <2> QED
    BY <1>5, <2>1, <2>2
<1>7. \A n \in 1..N : \A v \in V : step[n][v] = MergeInto(v, s[n])
  BY <1>5
<1>8. iter = [t \in SUBSET DOMAIN s |->
            IF t = {} THEN <<>> ELSE LET x == Max(t) IN MergeInto(iter[t \ {x}], s[x])]
  <2>1. PICK f : f \in FoldsBy(N, V, <<>>, step)
    BY <1>1, <1>6, FoldExists
  <2>2. /\ f \in [SUBSET (1..N) -> V]
        /\ \A t \in SUBSET (1..N) : f[t] = IF t = {} THEN <<>> ELSE step[Max(t)][f[t \ {Max(t)}]]
    BY <2>1 DEF FoldsBy
  <2>3. ASSUME NEW t \in SUBSET (1..N)
        PROVE  f[t] = IF t = {} THEN <<>> ELSE LET x == Max(t) IN MergeInto(f[t \ {x}], s[x])
    <3>1. t # {} => Max(t) \in 1..N
      BY <1>1, MaxIn
    <3>2. f[t \ {Max(t)}] \in V
      BY <2>2
    <3> QED
      BY <1>7, <2>2, <3>1, <3>2
  <2>4. f = [t \in SUBSET DOMAIN s |->
            IF t = {} THEN <<>> ELSE LET x == Max(t) IN MergeInto(f[t \ {x}], s[x])]
    BY <1>1, <2>2, <2>3
  <2> QED
    BY <1>2, <2>4
<1>9. iter[{}] = <<>>
  BY <1>8
<1>10. \A t \in SUBSET (1..N) : t # {} /\ iter[t \ {Max(t)}] \in V => iter[t] = step[Max(t)][iter[t \ {Max(t)}]]
  <2> SUFFICES ASSUME NEW t \in SUBSET (1..N), t # {}, iter[t \ {Max(t)}] \in V
               PROVE  iter[t] = step[Max(t)][iter[t \ {Max(t)}]]
    OBVIOUS
  <2>1. Max(t) \in 1..N
    BY <1>1, MaxIn
  <2>2. iter[t] = MergeInto(iter[t \ {Max(t)}], s[Max(t)])
    BY <1>1, <1>8
  <2> QED
    BY <1>7, <2>1, <2>2
<1>a. iter[1..N] \in {q[N] : q \in RunsOf(N, V, <<>>, step)}
  BY <1>1, <1>6, <1>9, <1>10, FoldRun
<1>11. PICK p \in RunsOf(N, V, <<>>, step) : iter[1..N] = p[N]
  BY <1>a
<1>12. p \in [0..N -> V] /\ p[0] = <<>> /\ \A n \in 1..N : p[n] = step[n][p[n - 1]]
  BY <1>11 DEF RunsOf
<1>13. \A n \in 1..N : p[n] = MergeInto(p[n - 1], s[n])
  <2>1. \A n \in 1..N : p[n - 1] \in V
    BY <1>1, <1>12
  <2> QED
    BY <1>7, <1>12, <2>1
<1> QED
  BY <1>1, <1>3, <1>4, <1>11, <1>12, <1>13

\* Their years added up.
LEMMA YearsRun ==
  ASSUME NEW s \in Seq(Span)
  PROVE  \E p \in [0..Len(s) -> Int] :
           /\ p[0] = 0 /\ p[Len(s)] = FoldLeft(AddYears, 0, s)
           /\ \A n \in 1..Len(s) : p[n] = AddYears(p[n - 1], s[n])
<1>1. PICK N : N = Len(s) /\ N \in Nat /\ DOMAIN s = 1..N
  OBVIOUS
<1>2. PICK iter : iter = CHOOSE g : g = [t \in SUBSET DOMAIN s |->
            IF t = {} THEN 0 ELSE LET x == Max(t) IN AddYears(g[t \ {x}], s[x])]
  OBVIOUS
<1>3. FoldLeft(AddYears, 0, s) = iter[DOMAIN s]
  BY <1>2 DEF FoldLeft, MapThenFoldSet
<1>4. PICK V : V = Int
  OBVIOUS
<1>5. PICK step : step = [n \in 1..N |-> [v \in V |-> AddYears(v, s[n])]]
  OBVIOUS
<1>6. 0 \in V /\ step \in [1..N -> [V -> V]]
  <2>1. 0 \in V
    BY <1>4
  <2>2. \A n \in 1..N : \A v \in V : AddYears(v, s[n]) \in V
    <3>0. \A n \in 1..N : s[n] \in Span
      BY <1>1
    <3>1. \A n \in 1..N : s[n].start \in Int /\ s[n].end \in Int
      BY <3>0 DEF Span
    <3> QED
      BY <1>4, <3>1 DEF AddYears, Most
  <2> QED
    BY <1>5, <2>1, <2>2
<1>7. \A n \in 1..N : \A v \in V : step[n][v] = AddYears(v, s[n])
  BY <1>5
<1>8. iter = [t \in SUBSET DOMAIN s |->
            IF t = {} THEN 0 ELSE LET x == Max(t) IN AddYears(iter[t \ {x}], s[x])]
  <2>1. PICK f : f \in FoldsBy(N, V, 0, step)
    BY <1>1, <1>6, FoldExists
  <2>2. /\ f \in [SUBSET (1..N) -> V]
        /\ \A t \in SUBSET (1..N) : f[t] = IF t = {} THEN 0 ELSE step[Max(t)][f[t \ {Max(t)}]]
    BY <2>1 DEF FoldsBy
  <2>3. ASSUME NEW t \in SUBSET (1..N)
        PROVE  f[t] = IF t = {} THEN 0 ELSE LET x == Max(t) IN AddYears(f[t \ {x}], s[x])
    <3>1. t # {} => Max(t) \in 1..N
      BY <1>1, MaxIn
    <3>2. f[t \ {Max(t)}] \in V
      BY <2>2
    <3> QED
      BY <1>7, <2>2, <3>1, <3>2
  <2>4. f = [t \in SUBSET DOMAIN s |->
            IF t = {} THEN 0 ELSE LET x == Max(t) IN AddYears(f[t \ {x}], s[x])]
    BY <1>1, <2>2, <2>3
  <2> QED
    BY <1>2, <2>4
<1>9. iter[{}] = 0
  BY <1>8
<1>10. \A t \in SUBSET (1..N) : t # {} /\ iter[t \ {Max(t)}] \in V => iter[t] = step[Max(t)][iter[t \ {Max(t)}]]
  <2> SUFFICES ASSUME NEW t \in SUBSET (1..N), t # {}, iter[t \ {Max(t)}] \in V
               PROVE  iter[t] = step[Max(t)][iter[t \ {Max(t)}]]
    OBVIOUS
  <2>1. Max(t) \in 1..N
    BY <1>1, MaxIn
  <2>2. iter[t] = AddYears(iter[t \ {Max(t)}], s[Max(t)])
    BY <1>1, <1>8
  <2> QED
    BY <1>7, <2>1, <2>2
<1>a. iter[1..N] \in {q[N] : q \in RunsOf(N, V, 0, step)}
  BY <1>1, <1>6, <1>9, <1>10, FoldRun
<1>11. PICK p \in RunsOf(N, V, 0, step) : iter[1..N] = p[N]
  BY <1>a
<1>12. p \in [0..N -> V] /\ p[0] = 0 /\ \A n \in 1..N : p[n] = step[n][p[n - 1]]
  BY <1>11 DEF RunsOf
<1>13. \A n \in 1..N : p[n] = AddYears(p[n - 1], s[n])
  <2>1. \A n \in 1..N : p[n - 1] \in V
    BY <1>1, <1>12
  <2> QED
    BY <1>7, <1>12, <2>1
<1> QED
  BY <1>1, <1>3, <1>4, <1>11, <1>12, <1>13

\* The ranges in the order they are merged in.
LEMMA RangesInOrder ==
  ASSUME NEW R \in SUBSET Span, IsFiniteSet(R)
  PROVE  \E s \in Seq(Span) :
           /\ s = InOrder(R, Starts)
           /\ \A i \in 1..Len(s) : s[i] \in R
           /\ \A r \in R : \E i \in 1..Len(s) : r = s[i]
           /\ \A i, k \in 1..Len(s) : i < k => s[i].start <= s[k].start
<1>1. PICK below : below = [x \in R |-> {y \in R : Starts(y, x)}]
  OBVIOUS
<1>2. \A x \in R : x.start \in Int /\ x.end \in Int /\ x = [start |-> x.start, end |-> x.end]
  BY DEF Span
<1>3. Precedes(R, below)
  <2>1. \A x \in R : x \notin below[x]
    BY <1>1, <1>2 DEF Starts
  <2>2. \A x \in R : \A y \in below[x] : below[y] \subseteq below[x]
    BY <1>1, <1>2 DEF Starts
  <2>3. \A x \in R : \A y \in R : x # y => x \in below[y] \/ y \in below[x]
    <3>1. SUFFICES ASSUME NEW x \in R, NEW y \in R, x # y PROVE Starts(x, y) \/ Starts(y, x)
      BY <1>1
    <3>2. x = [start |-> x.start, end |-> x.end] /\ y = [start |-> y.start, end |-> y.end]
      BY <1>2
    <3>3. x.start # y.start \/ x.end # y.end
      BY <3>1, <3>2
    <3> QED
      BY <1>2, <3>3 DEF Starts
  <2>4. below \in [R -> SUBSET R]
    BY <1>1
  <2> QED
    BY <2>1, <2>2, <2>3, <2>4 DEF Precedes
<1>4. PICK N : N = Cardinality(R) /\ N \in Nat
  BY FS_CardinalityType
<1>5. PICK s \in [1..N -> R] :
        /\ \A i \in 1..N : \A x \in R : Cardinality(below[x]) = i - 1 <=> x = s[i]
        /\ \A x \in R : \E i \in 1..N : x = s[i]
        /\ \A i, k \in 1..N : i < k => s[i] \in below[s[k]]
  <2>1. \E list \in [1..Cardinality(R) -> R] :
           /\ \A i \in 1..Cardinality(R) : \A x \in R : Cardinality(below[x]) = i - 1 <=> x = list[i]
           /\ \A x \in R : \E i \in 1..Cardinality(R) : x = list[i]
           /\ \A i, k \in 1..Cardinality(R) : i < k => list[i] \in below[list[k]]
    BY <1>3, OrderIs
  <2> QED
    BY <1>4, <2>1
<1>6. s \in Seq(Span) /\ Len(s) = N /\ \A i \in 1..N : s[i] \in R
  <2>1. \A i \in 1..N : s[i] \in R /\ s[i] \in Span
    BY <1>5
  <2>2. s \in [1..N -> Span] /\ N \in Nat
    BY <1>4, <1>5
  <2> QED
    BY <2>1, <2>2
<1>7. InOrder(R, Starts) = [i \in 1..N |-> CHOOSE x \in R : Cardinality({y \in R : Starts(y, x)}) = i - 1]
  BY <1>4 DEF InOrder
<1>8. \A i \in 1..N : s[i] = CHOOSE x \in R : Cardinality({y \in R : Starts(y, x)}) = i - 1
  <2> SUFFICES ASSUME NEW i \in 1..N PROVE s[i] = CHOOSE x \in R : Cardinality({y \in R : Starts(y, x)}) = i - 1
    OBVIOUS
  <2>1. \A x \in R : Cardinality({y \in R : Starts(y, x)}) = i - 1 <=> x = s[i]
    BY <1>1, <1>5
  <2> QED
    BY <1>6, <2>1
<1>9. s = [i \in 1..N |-> s[i]]
  BY <1>5
<1>10. s = InOrder(R, Starts)
  BY <1>7, <1>8, <1>9
<1>11. \A i, k \in 1..N : i < k => s[i].start <= s[k].start
  <2> SUFFICES ASSUME NEW i \in 1..N, NEW k \in 1..N, i < k PROVE s[i].start <= s[k].start
    OBVIOUS
  <2>1. Starts(s[i], s[k])
    BY <1>1, <1>5, <1>6
  <2> QED
    BY <1>2, <1>6, <2>1 DEF Starts
<1> QED
  BY <1>5, <1>6, <1>10, <1>11

\* Merged in that order they stay apart, and no year is lost or added.
LEMMA MergedYears ==
  ASSUME NEW s \in Seq(Span), \A i \in 1..Len(s) : s[i].start < s[i].end,
         \A i, k \in 1..Len(s) : i < k => s[i].start <= s[k].start
  PROVE  LET m == FoldLeft(MergeInto, <<>>, s)
         IN  Apart(m) /\ YearsIn(m, Len(m)) = YearsIn(s, Len(s))
<1>1. PICK N : N = Len(s) /\ N \in Nat
  OBVIOUS
<1>2. PICK p \in [0..N -> Seq(Span)] :
        /\ p[0] = <<>> /\ p[N] = FoldLeft(MergeInto, <<>>, s)
        /\ \A n \in 1..N : p[n] = MergeInto(p[n - 1], s[n])
  BY <1>1, MergeRun
<1>3. PICK Good : Good = {n \in 0..N : /\ Apart(p[n]) /\ YearsIn(p[n], Len(p[n])) = YearsIn(s, n)
                                       /\ p[n] # <<>> => n # 0 /\ p[n][Len(p[n])].start <= s[n].start}
  OBVIOUS
<1>4. 0 \in Good
  <2>1. Apart(p[0]) /\ YearsIn(p[0], Len(p[0])) = {} /\ YearsIn(s, 0) = {}
    BY <1>2 DEF Apart, YearsIn
  <2>2. 0 \in 0..N /\ ~(p[0] # <<>>)
    BY <1>1, <1>2
  <2>3. YearsIn(p[0], Len(p[0])) = YearsIn(s, 0)
    BY <2>1
  <2> QED
    BY <1>3, <2>1, <2>2, <2>3, Zenon
<1>5. \A n \in 1..N : n - 1 \in Good => n \in Good
  <2> SUFFICES ASSUME NEW n \in 1..N, n - 1 \in Good PROVE n \in Good
    OBVIOUS
  <2>1. PICK m, w : m = p[n - 1] /\ w = p[n]
    OBVIOUS
  <2>2. /\ Apart(m) /\ YearsIn(m, Len(m)) = YearsIn(s, n - 1)
        /\ m # <<>> => n - 1 # 0 /\ m[Len(m)].start <= s[n - 1].start
    <3>1. PICK k : k = n - 1
      OBVIOUS
    <3>2. /\ Apart(p[k]) /\ YearsIn(p[k], Len(p[k])) = YearsIn(s, k)
          /\ p[k] # <<>> => k # 0 /\ p[k][Len(p[k])].start <= s[k].start
      <4>1. k \in Good
        BY <3>1
      <4> QED
        BY <1>3, <4>1, Zenon
    <3> QED
      BY <2>1, <3>1, <3>2, Zenon
  <2>3. s[n] \in Span /\ s[n].start < s[n].end /\ w = MergeInto(m, s[n])
    BY <1>1, <1>2, <2>1
  <2>4. m # <<>> => m[Len(m)].start <= s[n].start
    <3>1. SUFFICES ASSUME m # <<>> PROVE m[Len(m)].start <= s[n].start
      OBVIOUS
    <3>2. n - 1 \in 1..N /\ m \in Seq(Span) /\ m # <<>>
      BY <1>1, <2>2, <3>1 DEF Apart
    <3>3. s[n - 1] \in Span /\ m[Len(m)] \in Span /\ s[n - 1].start <= s[n].start
      BY <1>1, <3>2
    <3> QED
      BY <2>2, <2>3, <3>1, <3>3 DEF Span
  <2>5. /\ Apart(w) /\ Len(w) \in 1..Len(w) /\ w[Len(w)].start <= s[n].start
        /\ YearsIn(w, Len(w)) = YearsIn(m, Len(m)) \cup YearsOf(s[n])
    BY <2>2, <2>3, <2>4, MergeKeepsApart
  <2>6. YearsIn(s, n) = YearsIn(s, n - 1) \cup YearsOf(s[n])
    <3>1. 1..n = (1..(n - 1)) \cup {n}
      BY <1>1
    <3>2. \A y : y \in YearsIn(s, n) <=> \E i \in 1..n : y \in YearsOf(s[i])
      BY DEF YearsIn
    <3>3. \A y : y \in YearsIn(s, n - 1) <=> \E i \in 1..(n - 1) : y \in YearsOf(s[i])
      BY DEF YearsIn
    <3> HIDE DEF YearsOf
    <3>4. \A y : y \in YearsIn(s, n) <=> y \in YearsIn(s, n - 1) \/ y \in YearsOf(s[n])
      BY <3>1, <3>2, <3>3
    <3> QED
      BY <3>4
  <2>7. n \in 0..N /\ n # 0
    BY <1>1
  <2> QED
    BY <1>3, <2>1, <2>2, <2>5, <2>6, <2>7
<1>6. \A n \in 0..N : n \in Good
  BY <1>1, <1>4, <1>5, PrefixInduction, Zenon
<1>7. N \in Good
  BY <1>1, <1>6
<1> QED
  BY <1>1, <1>2, <1>3, <1>7

\* The years of ranges that are apart, added up, are the years they cover.
LEMMA YearsAdded ==
  ASSUME NEW m, Apart(m)
  PROVE  FoldLeft(AddYears, 0, m) = Cardinality(YearsIn(m, Len(m)))
<1>1. PICK N : N = Len(m) /\ N \in Nat /\ m \in Seq(Span)
  BY DEF Apart
<1>2. PICK q \in [0..N -> Int] :
        /\ q[0] = 0 /\ q[N] = FoldLeft(AddYears, 0, m)
        /\ \A n \in 1..N : q[n] = AddYears(q[n - 1], m[n])
  BY <1>1, YearsRun
<1>3. PICK Good : Good = {n \in 0..N : IsFiniteSet(YearsIn(m, n)) /\ q[n] = Cardinality(YearsIn(m, n))}
  OBVIOUS
<1>4. 0 \in Good
  <2>1. YearsIn(m, 0) = {}
    BY DEF YearsIn
  <2> QED
    BY <1>1, <1>2, <1>3, <2>1, FS_EmptySet
<1>5. \A i \in 1..N : m[i].start \in Int /\ m[i].end \in Int /\ m[i].start < m[i].end
  <2>1. \A i \in 1..N : m[i] \in Span
    BY <1>1
  <2> QED
    BY <1>1, <2>1 DEF Span, Apart
<1>6. \A i, k \in 1..N : i < k => m[i].end < m[k].start
  BY <1>1 DEF Apart
<1>7. \A n \in 1..N : n - 1 \in Good => n \in Good
  <2> SUFFICES ASSUME NEW n \in 1..N, n - 1 \in Good PROVE n \in Good
    OBVIOUS
  <2>1. PICK A, B : A = YearsIn(m, n - 1) /\ B = YearsOf(m[n])
    OBVIOUS
  <2>2. YearsIn(m, n) = A \cup B
    <3>1. 1..n = (1..(n - 1)) \cup {n}
      BY <1>1
    <3>2. \A y : y \in YearsIn(m, n) <=> \E i \in 1..n : y \in YearsOf(m[i])
      BY DEF YearsIn
    <3>3. \A y : y \in A <=> \E i \in 1..(n - 1) : y \in YearsOf(m[i])
      BY <2>1 DEF YearsIn
    <3> HIDE DEF YearsOf
    <3>4. \A y : y \in YearsIn(m, n) <=> y \in A \/ y \in B
      BY <2>1, <3>1, <3>2, <3>3
    <3> QED
      BY <3>4
  <2>3. A \cap B = {}
    <3>1. ASSUME NEW y, y \in A, y \in B PROVE FALSE
      <4>1. PICK i \in 1..(n - 1) : y \in YearsOf(m[i])
        BY <2>1, <3>1 DEF YearsIn
      <4>2. i \in 1..N /\ n \in 1..N /\ i < n
        BY <1>1
      <4>3. m[i].end < m[n].start
        BY <1>6, <4>2
      <4>4. y \in m[i].start..(m[i].end - 1) /\ y \in m[n].start..(m[n].end - 1)
        BY <2>1, <3>1, <4>1 DEF YearsOf
      <4> QED
        BY <1>5, <4>2, <4>3, <4>4
    <3> QED
      BY <3>1
  <2>4. m[n].start \in Int /\ m[n].end \in Int /\ m[n].start < m[n].end
    BY <1>5
  <2>5. IsFiniteSet(B) /\ Cardinality(B) = m[n].end - m[n].start
    <3>1. PICK low \in Int, high \in Int : low = m[n].start /\ high = m[n].end - 1
      BY <2>4
    <3>2. B = low..high /\ low <= high
      BY <2>1, <2>4, <3>1 DEF YearsOf
    <3>3. IsFiniteSet(low..high) /\ Cardinality(low..high) = IF low > high THEN 0 ELSE high - low + 1
      BY FS_Interval, Zenon
    <3>4. IsFiniteSet(B) /\ Cardinality(B) = high - low + 1
      BY <3>2, <3>3
    <3>5. PICK s \in Int, e \in Int : s = m[n].start /\ e = m[n].end
      BY <2>4
    <3>6. high = e - 1 /\ low = s
      BY <3>1, <3>5
    <3>7. high - low + 1 = e - s
      BY <3>6
    <3> QED
      BY <3>4, <3>5, <3>7
  <2>6. IsFiniteSet(A) /\ q[n - 1] = Cardinality(A)
    BY <1>3, <2>1
  <2>7. IsFiniteSet(A \cup B) /\ Cardinality(A \cup B) = Cardinality(A) + Cardinality(B) - Cardinality(A \cap B)
    BY <2>5, <2>6, FS_Union
  <2>8. Cardinality(A \cap B) = 0 /\ Cardinality(A) \in Nat
    BY <2>3, <2>6, FS_EmptySet, FS_CardinalityType
  <2>9. q[n] = q[n - 1] + (m[n].end - m[n].start)
    <3>1. q[n - 1] \in Int /\ q[n] = AddYears(q[n - 1], m[n])
      BY <1>1, <1>2
    <3> QED
      BY <2>4, <3>1 DEF AddYears, Most
  <2>10. n \in 0..N
    BY <1>1
  <2>11. IsFiniteSet(YearsIn(m, n)) /\ q[n] = Cardinality(YearsIn(m, n))
    BY <2>2, <2>4, <2>5, <2>6, <2>7, <2>8, <2>9
  <2> QED
    BY <1>3, <2>10, <2>11, Zenon
<1>8. \A n \in 0..N : n \in Good
  BY <1>1, <1>4, <1>7, PrefixInduction, Zenon
<1>9. N \in Good
  BY <1>1, <1>8
<1> QED
  BY <1>1, <1>2, <1>3, <1>9

\* An entry starts in a year; it ends in one, or now.
EntryYears(p) == \A i \in 1..Len(p.entries) : p.entries[i].from \in Int \cup {Unknown} /\ p.entries[i].to \in Int

LEMMA SpansOf ==
  ASSUME NEW p, NEW n \in Nat, n = Len(p.entries), EntryYears(p)
  PROVE  /\ Ranges(p) \in SUBSET Span /\ IsFiniteSet(Ranges(p))
         /\ \A r \in Ranges(p) : r.start < r.end
<1>1. ThisYear \in Int
  BY MatchAssumption
<1>2. PICK E : E = {p.entries[i] : i \in 1..n}
  OBVIOUS
<1>3. IsFiniteSet(E)
  <2>1. IsFiniteSet(1..n)
    BY FS_Interval
  <2>2. PICK f : f = [i \in 1..n |-> p.entries[i]]
    OBVIOUS
  <2>3. E = {f[i] : i \in 1..n}
    BY <1>2, <2>2
  <2> QED
    BY <2>1, <2>3, ImageFinite
<1>4. PICK F : F = {f \in E : f.from # Unknown /\ (IF f.to = 0 THEN ThisYear ELSE f.to) >= f.from}
  OBVIOUS
<1>5. IsFiniteSet(F)
  BY <1>3, <1>4, FS_Subset
<1>6. Ranges(p) = {[start |-> e.from, end |-> Most(e.from + 1, IF e.to = 0 THEN ThisYear ELSE e.to)] : e \in F}
  BY <1>2, <1>4 DEF Ranges
<1>7. IsFiniteSet(Ranges(p))
  <2>1. PICK f : f = [e \in F |-> [start |-> e.from, end |-> Most(e.from + 1, IF e.to = 0 THEN ThisYear ELSE e.to)]]
    OBVIOUS
  <2>2. Ranges(p) = {f[e] : e \in F}
    BY <1>6, <2>1
  <2> QED
    BY <1>5, <2>2, ImageFinite
<1>8. \A e \in F : e.from \in Int /\ e.to \in Int
  BY <1>2, <1>4 DEF EntryYears
<1>9. \A r \in Ranges(p) : r \in Span /\ r.start < r.end
  <2> SUFFICES ASSUME NEW r \in Ranges(p) PROVE r \in Span /\ r.start < r.end
    OBVIOUS
  <2>1. PICK e \in F : r = [start |-> e.from, end |-> Most(e.from + 1, IF e.to = 0 THEN ThisYear ELSE e.to)]
    BY <1>6
  <2> QED
    BY <1>1, <1>8, <2>1 DEF Span, Most
<1> QED
  BY <1>7, <1>9

LEMMA YearsOnce ==
  ASSUME NEW p, NEW n \in Nat, n = Len(p.entries), EntryYears(p), Ranges(p) # {}
  PROVE  TotalYears(p) = Cardinality(Covered(p))
<1>1. /\ Ranges(p) \in SUBSET Span /\ IsFiniteSet(Ranges(p))
      /\ \A r \in Ranges(p) : r.start < r.end
  BY SpansOf
<1>2. PICK s \in Seq(Span) :
           /\ s = InOrder(Ranges(p), Starts)
           /\ \A i \in 1..Len(s) : s[i] \in Ranges(p)
           /\ \A r \in Ranges(p) : \E i \in 1..Len(s) : r = s[i]
           /\ \A i, k \in 1..Len(s) : i < k => s[i].start <= s[k].start
  BY <1>1, RangesInOrder
<1>3. \A i \in 1..Len(s) : s[i].start < s[i].end
  BY <1>1, <1>2
<1>4. PICK m : m = FoldLeft(MergeInto, <<>>, s)
  OBVIOUS
<1>5. Apart(m) /\ YearsIn(m, Len(m)) = YearsIn(s, Len(s))
  BY <1>2, <1>3, <1>4, MergedYears
<1>6. TotalYears(p) = FoldLeft(AddYears, 0, m)
  BY <1>2, <1>4 DEF TotalYears, MergedRanges
<1>7. YearsIn(s, Len(s)) = Covered(p)
  <2>1. \A y : y \in YearsIn(s, Len(s)) <=> \E i \in 1..Len(s) : y \in YearsOf(s[i])
    BY DEF YearsIn
  <2>2. \A y : y \in Covered(p) <=> \E r \in Ranges(p) : y \in YearsOf(r)
    BY DEF Covered, YearsOf
  <2> HIDE DEF YearsOf
  <2>3. \A y : y \in YearsIn(s, Len(s)) <=> y \in Covered(p)
    BY <1>2, <2>1, <2>2
  <2> QED
    BY <2>3
<1> QED
  BY <1>5, <1>6, <1>7, YearsAdded

-----------------------------------------------------------------------------
(* The explanation of a match.                                             *)

\* What the gaps and the points of a match are, by their places.
Told(r) ==
    LET c == r.components
    IN  /\ \A n \in Names : Qualifies(n, c[n]) /\ HasPoint(n, c[n]) /\ HasGap(n, c[n]) =>
               c[n].matched \cap c[n].missing = {}
        /\ r.blockers \cap c["skill"].matched = {}
        /\ r.blockers # {} => HasGap("skill", c["skill"]) /\ GapSeverity(c["skill"].raw) = "high"

LEMMA FirstFour ==
  ASSUME NEW s, IsList(s)
  PROVE  /\ IsList(First4(s)) /\ Len(First4(s)) \in 0..4 /\ Len(First4(s)) <= Len(s) /\ Len(s) \in Nat
         /\ s # <<>> => 1 \in 1..Len(First4(s)) /\ First4(s)[1] = s[1]
         /\ \A i \in 1..Len(First4(s)) : i \in 1..Len(s) /\ First4(s)[i] = s[i]
<1>1. PICK n : n = Len(s) /\ n \in Nat /\ s = [i \in 1..n |-> s[i]] /\ (s = <<>> <=> n = 0)
  BY ListFacts
<1>2. PICK S : S = ToSet(s) /\ s \in Seq(S)
  BY DEF IsList
<1>3. PICK m : m = Least(4, n) /\ m \in 0..4 /\ m <= n
  BY <1>1 DEF Least
<1>4. PICK q : q = First4(s)
  OBVIOUS
<1>5. q = [i \in 1..m |-> s[i]]
  BY <1>1, <1>3, <1>4 DEF First4
<1>6. q = [i \in 1..m |-> q[i]] /\ m \in Nat
  BY <1>3, <1>5
<1>7. IsList(q) /\ Len(q) = m
  BY <1>6, ListIs
<1>8. \A i \in 1..m : q[i] = s[i] /\ i \in 1..n
  BY <1>1, <1>3, <1>5
<1>9. s # <<>> => 1 \in 1..m
  BY <1>1, <1>3 DEF Least
<1> QED
  BY <1>1, <1>3, <1>4, <1>7, <1>8, <1>9

\* A point for the posting is about a component that qualifies, or says that a
\* strong analysis was verified.
LEMMA PointsAre ==
  ASSUME NEW r
  PROVE  /\ Len(EvidencePoints(r)) \in Nat
         /\ \A k \in 1..Len(EvidencePoints(r)) :
               \/ \E n \in Names : /\ EvidencePoints(r)[k] = [about |-> n, terms |-> r.components[n].matched]
                                  /\ Qualifies(n, r.components[n]) /\ HasPoint(n, r.components[n])
               \/ EvidencePoints(r)[k] = Verified /\ r.level = "strong"
<1>1. PICK c : c = r.components
  OBVIOUS
<1>2. PICK places : places = {i \in 1..Len(Evidence) : Qualifies(Evidence[i], c[Evidence[i]]) /\ HasPoint(Evidence[i], c[Evidence[i]])}
  OBVIOUS
<1>3. IsList(Evidence) /\ DOMAIN Evidence = 1..Len(Evidence) /\ \A i \in DOMAIN Evidence : Evidence[i] \in Names
  <2>1. Evidence \in Seq(Names)
    BY SMTT(30) DEF Evidence, Names
  <2>2. Len(Evidence) = 12 /\ DOMAIN Evidence = 1..12
    BY DEF Evidence
  <2>3. \A i \in 1..12 : i = 1 \/ i = 2 \/ i = 3 \/ i = 4 \/ i = 5 \/ i = 6 \/ i = 7 \/ i = 8 \/ i = 9 \/ i = 10 \/ i = 11 \/ i = 12
    OBVIOUS
  <2>4. \A i \in 1..12 : Evidence[i] \in Names
    BY <2>3 DEF Evidence, Names
  <2> QED
    BY <2>1, <2>2, <2>4, SeqIsList
<1>4. places \in SUBSET DOMAIN Evidence
  BY <1>2, <1>3
<1>5. PICK found : found = ItemsAt(Evidence, places)
  OBVIOUS
<1>6. IsList(found) /\ DOMAIN found = 1..Len(found) /\ \A k \in 1..Len(found) : \E i \in places : found[k] = Evidence[i]
  BY <1>3, <1>4, <1>5, ItemsOf
<1>7. \A k \in 1..Len(found) : found[k] \in Names /\ Qualifies(found[k], c[found[k]]) /\ HasPoint(found[k], c[found[k]])
  BY <1>2, <1>3, <1>4, <1>6
<1>8. PICK all : all = [i \in 1..Len(found) |-> [about |-> found[i], terms |-> c[found[i]].matched]]
  OBVIOUS
<1>9. Len(found) \in Nat /\ all = [i \in 1..Len(found) |-> all[i]]
  BY <1>6, <1>8, ListFacts
<1>10. IsList(all) /\ Len(all) = Len(found)
  BY <1>9, ListIs
<1>11. PICK points : points = First4(all)
  OBVIOUS
<1>12. /\ IsList(points) /\ Len(points) \in 0..4
       /\ \A i \in 1..Len(points) : i \in 1..Len(found) /\ points[i] = all[i]
  BY <1>10, <1>11, FirstFour
<1>13. \A k \in 1..Len(points) : \E n \in Names : /\ points[k] = [about |-> n, terms |-> c[n].matched]
                                                 /\ Qualifies(n, c[n]) /\ HasPoint(n, c[n])
  BY <1>7, <1>8, <1>12
<1>14. PICK w : w = EvidencePoints(r)
  OBVIOUS
<1>15. w = IF r.level # "strong" THEN points
           ELSE IF Len(points) < 4 THEN Append(points, Verified) ELSE [points EXCEPT ![4] = Verified]
  BY <1>1, <1>2, <1>5, <1>8, <1>11, <1>14 DEF EvidencePoints
<1>16. Len(w) \in Nat /\ \A k \in 1..Len(w) : (k \in 1..Len(points) /\ w[k] = points[k]) \/ (w[k] = Verified /\ r.level = "strong")
  <2>1. CASE r.level # "strong"
    BY <1>12, <1>15, <2>1
  <2>2. CASE r.level = "strong" /\ Len(points) < 4
    <3>1. w = Append(points, Verified)
      BY <1>15, <2>2
    <3>2. DOMAIN points = 1..Len(points)
      BY <1>12, ListFacts
    <3>3. /\ Len(w) = Len(points) + 1 /\ w[Len(points) + 1] = Verified
          /\ \A i \in 1..Len(points) : w[i] = points[i]
      BY <1>12, <3>1, <3>2, AppendIs
    <3> QED
      BY <1>12, <2>2, <3>3
  <2>3. CASE r.level = "strong" /\ ~(Len(points) < 4)
    <3>1. w = [points EXCEPT ![4] = Verified]
      BY <1>15, <2>3
    <3>2. points = [i \in 1..4 |-> points[i]] /\ Len(points) = 4
      <4>1. Len(points) = 4
        BY <1>12, <2>3
      <4>2. points = [i \in 1..Len(points) |-> points[i]]
        BY <1>12, ListFacts
      <4> QED
        BY <4>1, <4>2
    <3>3. w = [i \in 1..4 |-> IF i = 4 THEN Verified ELSE points[i]]
      BY <3>1, <3>2
    <3>4. w = [i \in 1..4 |-> w[i]] /\ 4 \in Nat
      BY <3>3
    <3>5. Len(w) = 4
      BY <3>4, ListIs
    <3> QED
      BY <2>3, <3>2, <3>3, <3>5
  <2> QED
    BY <2>1, <2>2, <2>3
<1> QED
  BY <1>1, <1>13, <1>14, <1>16

\* A gap is about a component that has one, or says that the analysis was
\* limited; the first is about the skills when there is one about them.
LEMMA GapsAre ==
  ASSUME NEW r
  PROVE  /\ Len(GapAnalysis(r)) \in Nat
         /\ HasGap("skill", r.components["skill"]) =>
               GapAnalysis(r) # <<>> /\ GapAnalysis(r)[1] = Gap("skill", r)
         /\ \A k \in 1..Len(GapAnalysis(r)) :
               \/ \E n \in Names : GapAnalysis(r)[k] = Gap(n, r) /\ HasGap(n, r.components[n])
               \/ GapAnalysis(r)[k].about = "content" /\ r.level = "limited"
<1>1. PICK c : c = r.components
  OBVIOUS
<1>2. PICK places : places = {i \in 1..Len(GapOrder) : HasGap(GapOrder[i], c[GapOrder[i]])}
  OBVIOUS
<1>3. /\ IsList(GapOrder) /\ DOMAIN GapOrder = 1..Len(GapOrder) /\ \A i \in DOMAIN GapOrder : GapOrder[i] \in Names
      /\ 1 \in DOMAIN GapOrder /\ GapOrder[1] = "skill" /\ \A i \in DOMAIN GapOrder : i <= 1 => i = 1
  <2>1. GapOrder \in Seq(Names)
    BY SMTT(30) DEF GapOrder, Names
  <2>2. Len(GapOrder) = 12 /\ DOMAIN GapOrder = 1..12 /\ GapOrder[1] = "skill"
    BY DEF GapOrder
  <2>3. \A i \in 1..12 : i = 1 \/ i = 2 \/ i = 3 \/ i = 4 \/ i = 5 \/ i = 6 \/ i = 7 \/ i = 8 \/ i = 9 \/ i = 10 \/ i = 11 \/ i = 12
    OBVIOUS
  <2>4. \A i \in 1..12 : GapOrder[i] \in Names
    BY <2>3 DEF GapOrder, Names
  <2>5. IsList(GapOrder)
    BY <2>1, SeqIsList
  <2> QED
    BY <2>2, <2>4, <2>5
<1>4. places \in SUBSET DOMAIN GapOrder
  BY <1>2, <1>3
<1>5. PICK found : found = ItemsAt(GapOrder, places)
  OBVIOUS
<1>6. /\ IsList(found) /\ DOMAIN found = 1..Len(found) /\ (found = <<>> <=> places = {})
      /\ \A k \in 1..Len(found) : \E i \in places : found[k] = GapOrder[i]
  BY <1>3, <1>4, <1>5, ItemsOf
<1>7. \A k \in 1..Len(found) : found[k] \in Names /\ HasGap(found[k], c[found[k]])
  BY <1>2, <1>3, <1>4, <1>6
<1>8. HasGap("skill", c["skill"]) => found # <<>> /\ found[1] = "skill"
  <2> SUFFICES ASSUME HasGap("skill", c["skill"]) PROVE found # <<>> /\ found[1] = "skill"
    OBVIOUS
  <2>1. 1 \in places
    BY <1>2, <1>3
  <2>2. PICK i \in places : found[1] = GapOrder[i] /\ \A j \in places : i <= j
    BY <1>3, <1>4, <1>5, <2>1, FirstItem
  <2>3. i = 1
    BY <1>3, <1>4, <2>1, <2>2
  <2> QED
    BY <1>3, <1>6, <2>1, <2>2, <2>3
<1>9. PICK all : all = [i \in 1..Len(found) |-> Gap(found[i], r)]
  OBVIOUS
<1>10. Len(found) \in Nat /\ all = [i \in 1..Len(found) |-> all[i]]
  BY <1>6, <1>9, ListFacts
<1>11. IsList(all) /\ Len(all) = Len(found) /\ (all = <<>> <=> found = <<>>)
  <2>1. IsList(all) /\ Len(all) = Len(found) /\ (all = <<>> <=> Len(found) = 0)
    BY <1>10, ListIs
  <2> QED
    BY <1>6, <2>1, ListFacts
<1>12. PICK gaps : gaps = First4(all)
  OBVIOUS
<1>13. /\ IsList(gaps) /\ Len(gaps) \in 0..4
       /\ all # <<>> => 1 \in 1..Len(gaps) /\ gaps[1] = all[1]
       /\ \A i \in 1..Len(gaps) : i \in 1..Len(found) /\ gaps[i] = all[i]
  BY <1>11, <1>12, FirstFour
<1>14. \A k \in 1..Len(gaps) : \E n \in Names : gaps[k] = Gap(n, r) /\ HasGap(n, c[n])
  BY <1>7, <1>9, <1>13
<1>15. HasGap("skill", c["skill"]) => 1 \in 1..Len(gaps) /\ gaps[1] = Gap("skill", r)
  BY <1>8, <1>9, <1>11, <1>13
<1>16. PICK content : content = [about |-> "content", blocker |-> FALSE, severity |-> "medium", terms |-> {}]
  OBVIOUS
<1>17. PICK w : w = GapAnalysis(r)
  OBVIOUS
<1>18. w = IF r.level = "limited" /\ Len(gaps) < 4 THEN Append(gaps, content) ELSE gaps
  BY <1>1, <1>2, <1>5, <1>9, <1>12, <1>16, <1>17 DEF GapAnalysis
<1>19. /\ Len(w) \in Nat /\ (1 \in 1..Len(gaps) => w # <<>> /\ w[1] = gaps[1])
       /\ \A k \in 1..Len(w) : (k \in 1..Len(gaps) /\ w[k] = gaps[k]) \/ (w[k] = content /\ r.level = "limited")
  <2>0. DOMAIN gaps = 1..Len(gaps) /\ (gaps = <<>> <=> Len(gaps) = 0)
    BY <1>13, ListFacts
  <2>1. CASE ~(r.level = "limited" /\ Len(gaps) < 4)
    BY <1>13, <1>18, <2>0, <2>1
  <2>2. CASE r.level = "limited" /\ Len(gaps) < 4
    <3>1. w = Append(gaps, content)
      BY <1>18, <2>2
    <3>3. /\ Len(w) = Len(gaps) + 1 /\ w[Len(gaps) + 1] = content /\ w # <<>>
          /\ \A i \in 1..Len(gaps) : w[i] = gaps[i]
      BY <1>13, <2>0, <3>1, AppendIs
    <3> QED
      BY <1>13, <2>2, <3>3
  <2> QED
    BY <2>1, <2>2
<1>20. content.about = "content"
  BY <1>16
<1> QED
  BY <1>1, <1>14, <1>15, <1>17, <1>19, <1>20

LEMMA StoriesTold ==
  ASSUME NEW r, NEW skills, Told(r), r.blockers \cap skills = {}
  PROVE  Agrees(r, skills)
<1>1. PICK c : c = r.components
  OBVIOUS
<1>2. PICK gaps, points : gaps = GapAnalysis(r) /\ points = EvidencePoints(r)
  OBVIOUS
<1>3. /\ \A n \in Names : Qualifies(n, c[n]) /\ HasPoint(n, c[n]) /\ HasGap(n, c[n]) =>
               c[n].matched \cap c[n].missing = {}
      /\ r.blockers \cap c["skill"].matched = {}
      /\ r.blockers # {} => HasGap("skill", c["skill"]) /\ GapSeverity(c["skill"].raw) = "high"
  BY <1>1 DEF Told
<1>4. /\ HasGap("skill", c["skill"]) => gaps # <<>> /\ gaps[1] = Gap("skill", r)
      /\ \A k \in 1..Len(gaps) : \/ \E n \in Names : gaps[k] = Gap(n, r) /\ HasGap(n, c[n])
                                 \/ gaps[k].about = "content" /\ r.level = "limited"
  BY <1>1, <1>2, GapsAre
<1>5. \A k \in 1..Len(points) :
         \/ \E n \in Names : /\ points[k] = [about |-> n, terms |-> c[n].matched]
                            /\ Qualifies(n, c[n]) /\ HasPoint(n, c[n])
         \/ points[k] = Verified /\ r.level = "strong"
  BY <1>1, <1>2, PointsAre
<1>6. \A n : /\ Gap(n, r).about = n
             /\ Gap(n, r).severity = GapSeverity(c[n].raw)
             /\ Gap(n, r).terms = c[n].missing \/ (n = "skill" /\ Gap(n, r).terms = r.blockers)
             /\ n = "skill" /\ r.blockers # {} /\ GapSeverity(c[n].raw) = "high" => Gap(n, r).terms = r.blockers
  BY <1>1 DEF Gap
<1>7. r.blockers # {} =>
          /\ gaps # <<>> /\ gaps[1].about = "skill" /\ gaps[1].severity = "high"
          /\ gaps[1].terms = r.blockers /\ r.blockers \cap skills = {}
  BY <1>3, <1>4, <1>6
<1>8. "content" \notin Names
  BY DEF Names
<1>9. ASSUME NEW i \in 1..Len(gaps), NEW k \in 1..Len(points), gaps[i].about = points[k].about
      PROVE  gaps[i].about # "content" /\ gaps[i].terms \cap points[k].terms = {}
  <2>1. CASE points[k] = Verified /\ r.level = "strong"
    <3>1. points[k].about = "content"
      BY <2>1 DEF Verified
    <3>2. ~(\E n \in Names : gaps[i] = Gap(n, r))
      BY <1>6, <1>8, <1>9, <3>1
    <3> QED
      BY <1>4, <2>1, <3>2
  <2>2. CASE \E n \in Names : /\ points[k] = [about |-> n, terms |-> c[n].matched]
                              /\ Qualifies(n, c[n]) /\ HasPoint(n, c[n])
    <3>1. PICK n \in Names : /\ points[k] = [about |-> n, terms |-> c[n].matched]
                             /\ Qualifies(n, c[n]) /\ HasPoint(n, c[n])
      BY <2>2
    <3>2. gaps[i].about = n /\ n # "content"
      BY <1>8, <1>9, <3>1
    <3>3. gaps[i] = Gap(n, r) /\ HasGap(n, c[n])
      BY <1>4, <1>6, <3>2
    <3>4. c[n].matched \cap c[n].missing = {}
      BY <1>3, <3>1, <3>3
    <3>5. gaps[i].terms = c[n].missing \/ (n = "skill" /\ gaps[i].terms = r.blockers)
      BY <1>6, <3>3
    <3>6. points[k].terms = c[n].matched
      BY <3>1
    <3> QED
      BY <1>3, <3>2, <3>4, <3>5, <3>6
  <2> QED
    BY <1>5, <2>1, <2>2
<1> QED
  BY <1>2, <1>7, <1>9 DEF Agrees, StoriesAgree

\* A component that both speaks for a posting and shows a gap names different
\* terms in the two.
Apiece(n, x) == Qualifies(n, x) /\ HasPoint(n, x) /\ HasGap(n, x) => x.matched \cap x.missing = {}

LEMMA Clamped == ASSUME NEW x \in Int PROVE Clamp(x) \in Int
  BY DEF Clamp, Most, Least, Unit, Percent

LEMMA RawIs ==
  ASSUME NEW raw \in Int, NEW matched, NEW missing
  PROVE  /\ Component(raw, matched, missing).raw \in Int
         /\ Component(raw, matched, missing).matched = matched
         /\ Component(raw, matched, missing).missing = missing
  BY Clamped DEF Component

LEMMA NeutralIs ==
  ASSUME NEW n
  PROVE  Neutral(n).matched = {} /\ Neutral(n).missing = {}
  BY DEF Neutral, Component

LEMMA MembershipApiece ==
  ASSUME NEW n, NEW label, NEW labels, NEW u, NEW s, NEW o
  PROVE  Apiece(n, Membership(label, labels, u, s, o))
<1>1. Component(Unit, {label}, {}).missing = {} /\ Component(Percent(o), {}, {label}).matched = {}
  BY DEF Component
<1> QED
  BY <1>1, NeutralIs DEF Apiece, Membership

LEMMA SkillApiece == ASSUME NEW f, NEW j PROVE Apiece("skill", SkillAlignment(f, j))
<1>1. SkillAlignment(f, j).matched \cap SkillAlignment(f, j).missing = {}
  <2>1. PICK A : A = Required(j) \cup j.preferred
    OBVIOUS
  <2>2. CASE A = {}
    BY <2>1, <2>2, NeutralIs DEF SkillAlignment
  <2>3. CASE A # {} /\ f.skills = {}
    BY <2>1, <2>3 DEF SkillAlignment, Component
  <2>4. CASE A # {} /\ f.skills # {}
    <3>1. SkillAlignment(f, j).matched = A \cap f.skills /\ SkillAlignment(f, j).missing = A \ f.skills
      BY <2>1, <2>4 DEF SkillAlignment, Component
    <3> QED
      BY <3>1
  <2> QED
    BY <2>2, <2>3, <2>4
<1> QED
  BY <1>1 DEF Apiece

LEMMA SeniorityApiece == ASSUME NEW f, NEW level PROVE Apiece("seniority", SeniorityAlignment(f, level))
<1>1. PICK x : x = SeniorityAlignment(f, level)
  OBVIOUS
<1>2. CASE f.level = Unknown
  BY <1>2, NeutralIs DEF SeniorityAlignment, Apiece
<1>3. CASE f.level # Unknown
  <2>1. PICK delta : delta = LevelRank[f.level] - LevelRank[level]
    OBVIOUS
  <2>2. PICK k \in Int : k = CASE delta = 0 -> 100 [] delta = 1 -> 82 [] delta = 2 -> 60
                                [] delta > 2 -> 42 [] delta = -1 -> 72 [] delta = -2 -> 38 [] OTHER -> 18
    OBVIOUS
  <2>3. x = Component(Percent(k), {f.level}, IF delta >= 0 THEN {} ELSE {level})
    BY <1>1, <1>3, <2>1, <2>2 DEF SeniorityAlignment
  <2>4. x.raw \in Int
    <3>1. Percent(k) \in Int
      BY DEF Percent
    <3> QED
      BY <2>3, <3>1, RawIs
  <2>5. HasPoint("seniority", x) => x.raw >= Percent(80)
    BY DEF HasPoint
  <2>6. HasGap("seniority", x) => x.raw < Percent(55)
    BY DEF HasGap
  <2> QED
    BY <1>1, <2>4, <2>5, <2>6 DEF Apiece, Percent
<1> QED
  BY <1>2, <1>3

LEMMA DomainApiece == ASSUME NEW f, NEW j PROVE Apiece("domain", DomainAlignment(f, j))
<1>1. PICK x : x = DomainAlignment(f, j)
  OBVIOUS
<1>2. x.matched \cap x.missing = {}
  BY <1>1, NeutralIs DEF DomainAlignment, Component
<1> QED
  BY <1>1, <1>2 DEF Apiece

LEMMA LocationApiece == ASSUME NEW f, NEW j, NEW place PROVE Apiece("location", LocationAlignment(f, j, place))
<1>1. PICK x : x = LocationAlignment(f, j, place)
  OBVIOUS
<1>2. x.matched \cap x.missing = {}
  BY <1>1, NeutralIs DEF LocationAlignment, Component
<1> QED
  BY <1>1, <1>2 DEF Apiece

LEMMA WorkplaceApiece == ASSUME NEW f, NEW place PROVE Apiece("workplace", WorkplaceAlignment(f, place))
<1>1. PICK x : x = WorkplaceAlignment(f, place)
  OBVIOUS
<1>2. x.matched \cap x.missing = {}
  BY <1>1, NeutralIs DEF WorkplaceAlignment, Component
<1> QED
  BY <1>1, <1>2 DEF Apiece

LEMMA TitleApiece == ASSUME NEW f, NEW j PROVE Apiece("title", TitleAlignment(f, j))
<1>1. PICK x : x = TitleAlignment(f, j)
  OBVIOUS
<1>2. x.missing = {}
  BY <1>1, NeutralIs DEF TitleAlignment, Component
<1> QED
  BY <1>1, <1>2 DEF Apiece

LEMMA LanguageApiece == ASSUME NEW f, NEW j PROVE Apiece("language", LanguageAlignment(f, j))
<1>1. PICK x : x = LanguageAlignment(f, j)
  OBVIOUS
<1>2. x.matched \cap x.missing = {}
  BY <1>1, NeutralIs DEF LanguageAlignment, Component
<1> QED
  BY <1>1, <1>2 DEF Apiece

LEMMA ScopeApiece == ASSUME NEW f, NEW j PROVE Apiece("scope", ScopeAlignment(f, j))
<1>1. PICK x : x = ScopeAlignment(f, j)
  OBVIOUS
<1>2. CASE j.scope = Unknown \/ f.scope = Unknown
  <2>1. x.missing = {}
    BY <1>1, <1>2 DEF ScopeAlignment, Component
  <2> QED
    BY <1>1, <2>1 DEF Apiece
<1>3. CASE j.scope # Unknown /\ f.scope # Unknown
  <2>1. PICK delta : delta = ScopeRank(f.scope) - ScopeRank(j.scope)
    OBVIOUS
  <2>2. PICK k \in Int : k = CASE delta = 0 -> 100 [] delta = 1 -> 82 [] delta = -1 -> 70
                                [] delta \in {-2, 2} -> 44 [] OTHER -> 20
    OBVIOUS
  <2>3. PICK up, down : /\ up = Given(delta <= 0 /\ ScopeEvidence(f) # {}, ScopeBonus(f, j.scope))
                        /\ down = Given(delta < 0 /\ ScopeEvidence(f) = {}, Percent(5))
    OBVIOUS
  <2>4. ScopeBonus(f, j.scope) \in Int /\ Percent(5) \in Int /\ Percent(k) \in Int
    BY DEF ScopeBonus, Percent
  <2>5. up \in Int /\ down \in Int
    BY <2>3, <2>4 DEF Given
  <2>6. x = Component(Percent(k) + up - down, {f.scope} \cup ScopeEvidence(f), IF delta >= 0 THEN {} ELSE {j.scope})
    BY <1>1, <1>3, <2>1, <2>2, <2>3 DEF ScopeAlignment
  <2>7. Percent(k) + up - down \in Int
    BY <2>4, <2>5
  <2>8. x.raw \in Int
    BY <2>6, <2>7, RawIs
  <2>9. HasPoint("scope", x) => x.raw >= Percent(80)
    BY DEF HasPoint
  <2>10. HasGap("scope", x) => x.raw < Percent(50)
    BY DEF HasGap
  <2> QED
    BY <1>1, <2>8, <2>9, <2>10 DEF Apiece, Percent
<1> QED
  BY <1>2, <1>3

LEMMA ExperienceApiece == ASSUME NEW f, NEW j PROVE Apiece("experience", ExperienceAlignment(f, j))
<1>1. PICK x : x = ExperienceAlignment(f, j)
  OBVIOUS
<1>2. PICK strength, delta : strength = EvidenceStrength(f) /\ delta = f.years - j.years
  OBVIOUS
<1>3. PICK k \in Int : k = CASE delta >= 3 -> 100 [] delta \in 1..2 -> 90 [] delta = 0 -> 80
                              [] delta = -1 -> 52 [] delta = -2 -> 30 [] OTHER -> 14
  OBVIOUS
<1>4. PICK shift \in Int :
        shift = CASE strength >= Percent(60) /\ delta >= 0 -> Percent(3)
                   [] strength >= Percent(60) /\ delta = -1 -> Percent(8)
                   [] strength < Percent(20) /\ delta <= -1 -> -Percent(4) [] OTHER -> 0
  BY DEF Percent
<1>5. \E y \in Int : \E a, b : x = Component(y, a, b)
  <2>1. CASE j.years = Unknown
    <3>1. x = Component(Percent(IF strength >= Percent(55) THEN 60 ELSE 55), ScopeEvidence(f), {})
      BY <1>1, <1>2, <2>1 DEF ExperienceAlignment
    <3>2. Percent(IF strength >= Percent(55) THEN 60 ELSE 55) \in Int
      BY DEF Percent
    <3> QED
      BY <3>1, <3>2
  <2>2. CASE j.years # Unknown /\ f.years = Unknown
    <3>1. x = Component(Percent(IF strength >= Percent(55) THEN 62 ELSE 48), ScopeEvidence(f), {ToString(j.years)})
      BY <1>1, <1>2, <2>2 DEF ExperienceAlignment
    <3>2. Percent(IF strength >= Percent(55) THEN 62 ELSE 48) \in Int
      BY DEF Percent
    <3> QED
      BY <3>1, <3>2
  <2>3. CASE j.years # Unknown /\ f.years # Unknown
    <3>1. x = Component(Percent(k) + shift, {ToString(f.years)} \cup ScopeEvidence(f), {ToString(j.years)})
      BY <1>1, <1>2, <1>3, <1>4, <2>3 DEF ExperienceAlignment
    <3>2. Percent(k) + shift \in Int
      BY DEF Percent
    <3> QED
      BY <3>1, <3>2
  <2> QED
    BY <2>1, <2>2, <2>3
<1>6. x.raw \in Int
  BY <1>5, RawIs
<1>7. HasPoint("experience", x) => x.raw >= Percent(80)
  BY DEF HasPoint
<1>8. HasGap("experience", x) => x.raw < Percent(70)
  BY DEF HasGap
<1> QED
  BY <1>1, <1>6, <1>7, <1>8 DEF Apiece, Percent

LEMMA EducationApiece == ASSUME NEW f, NEW j PROVE Apiece("education", EducationAlignment(f, j))
<1>1. PICK x : x = EducationAlignment(f, j)
  OBVIOUS
<1>2. x.matched \cap x.missing = {} \/ x.raw = Clamp(Percent(52)) \/ x.raw = Clamp(Percent(18))
  BY <1>1, NeutralIs DEF EducationAlignment, Component
<1>3. Percent(52) \in Int /\ Percent(52) < Percent(55) /\ Percent(52) >= 0
      /\ Percent(18) \in Int /\ Percent(18) < Percent(55) /\ Percent(18) >= 0 /\ Percent(55) \in Int
  BY DEF Percent
<1>4. Clamp(Percent(52)) = Percent(52) /\ Clamp(Percent(18)) = Percent(18)
  BY DEF Clamp, Most, Least, Unit, Percent
<1>5. Qualifies("education", x) => x.raw >= Percent(55)
  BY DEF Qualifies
<1> QED
  BY <1>1, <1>2, <1>3, <1>4, <1>5 DEF Apiece

\* The terms a table finds in texts of the program are finitely many.
LEMMA TermsFinite ==
  ASSUME NEW texts \in SUBSET Text
  PROVE  IsFiniteSet(SkillTerms(texts))
<1>1. PICK S : S = {s \in UNION {Signals[t] : t \in texts} : s[1] = "skill"}
  OBVIOUS
<1>2. S \subseteq UNION {Signals[t] : t \in Text}
  BY <1>1
<1>3. IsFiniteSet(S)
  BY <1>2, FS_Subset, MatchAssumption
<1>4. PICK f : f = [s \in S |-> s[2]]
  OBVIOUS
<1>5. SkillTerms(texts) = {f[s] : s \in S}
  BY <1>1, <1>4 DEF SkillTerms, Hits
<1> QED
  BY <1>3, <1>5, ImageFinite

LEMMA FeatureFinite ==
  ASSUME NEW posting, {posting.title} \cup ParagraphTexts(posting) \cup PageTexts(posting) \subseteq Text
  PROVE  LET j == JobFeature(posting)
         IN  IsFiniteSet(Required(j)) /\ IsFiniteSet(j.preferred)
<1>1. PICK j : j = JobFeature(posting)
  OBVIOUS
<1>2. PICK page : page = External(posting)
  OBVIOUS
<1>3. PICK reqs, techs, duties : /\ reqs = SkillTerms(page.requirements) /\ techs = SkillTerms(page.technologies)
                                 /\ duties = SkillTerms(page.responsibilities)
  OBVIOUS
<1>4. /\ page.requirements \in SUBSET Text /\ page.technologies \in SUBSET Text
      /\ page.responsibilities \in SUBSET Text /\ {posting.title} \cup ParagraphTexts(posting) \in SUBSET Text
  BY <1>2 DEF PageTexts
<1>5. \A s : InSection(posting.paragraphs, s) \in SUBSET Text
  <2>1. \A s : InSection(posting.paragraphs, s) \subseteq ParagraphTexts(posting)
    BY DEF InSection, ParagraphTexts
  <2> QED
    BY <1>4, <2>1
<1>6. IsFiniteSet(reqs) /\ IsFiniteSet(techs) /\ IsFiniteSet(duties)
  BY <1>3, <1>4, TermsFinite
<1>7. PICK titled, req, pref : /\ titled = SkillTerms({posting.title} \cup ParagraphTexts(posting))
                               /\ req = SkillTerms(InSection(posting.paragraphs, "required"))
                               /\ pref = SkillTerms(InSection(posting.paragraphs, "preferred"))
  OBVIOUS
<1>8. IsFiniteSet(titled) /\ IsFiniteSet(req) /\ IsFiniteSet(pref)
  BY <1>4, <1>5, <1>7, TermsFinite
<1>9. /\ j.required = req \cup reqs
      /\ j.skills = titled \cup reqs \cup techs \cup duties
      /\ j.preferred = (pref \cup techs) \ (req \cup reqs)
  BY <1>1, <1>2, <1>3, <1>7 DEF JobFeature
<1>10. /\ IsFiniteSet(req \cup reqs) /\ IsFiniteSet(titled \cup reqs \cup techs \cup duties)
       /\ IsFiniteSet((pref \cup techs) \ (req \cup reqs))
  <2>1. IsFiniteSet(req \cup reqs) /\ IsFiniteSet(titled \cup reqs) /\ IsFiniteSet(pref \cup techs)
    BY <1>6, <1>8, FS_Union
  <2>2. IsFiniteSet(titled \cup reqs \cup techs)
    BY <1>6, <2>1, FS_Union
  <2>3. IsFiniteSet(titled \cup reqs \cup techs \cup duties)
    BY <1>6, <2>2, FS_Union
  <2> QED
    BY <2>1, <2>3, FS_Difference
<1>11. IsFiniteSet(j.required) /\ IsFiniteSet(j.skills) /\ IsFiniteSet(j.preferred)
  BY <1>9, <1>10
<1> QED
  BY <1>1, <1>11 DEF Required

\* A posting some of whose required skills the profile lacks scores its skills
\* at an integer.
LEMMA SkillScore ==
  ASSUME NEW f, NEW j, IsFiniteSet(Required(j)), IsFiniteSet(j.preferred), Required(j) \ f.skills # {}
  PROVE  SkillAlignment(f, j).raw \in Int
<1>1. PICK req, pref, met, liked : /\ req = Required(j) /\ pref = j.preferred
                                   /\ met = req \cap f.skills /\ liked = pref \cap f.skills
  OBVIOUS
<1>2. /\ Cardinality(req) \in Nat /\ Cardinality(pref) \in Nat /\ Cardinality(met) \in Nat /\ Cardinality(liked) \in Nat
      /\ Cardinality(req) # 0 /\ (pref # {} => Cardinality(pref) # 0)
  <2>1. IsFiniteSet(req) /\ IsFiniteSet(pref) /\ req # {}
    BY <1>1
  <2>2. IsFiniteSet(met) /\ IsFiniteSet(liked)
    BY <1>1, <2>1, FS_Subset
  <2> QED
    BY <2>1, <2>2, FS_CardinalityType, FS_EmptySet
<1>3. PICK base : base = Percent(10) + (Percent(90) * Cardinality(met)) \div Least(10, Cardinality(req))
  OBVIOUS
<1>4. base \in Int
  <2>1. PICK d, n : d = Least(10, Cardinality(req)) /\ n = Percent(90) * Cardinality(met)
    OBVIOUS
  <2>2. d \in Nat /\ d > 0 /\ n \in Int
    BY <1>2, <2>1 DEF Least, Percent
  <2>3. n \div d \in Int
    BY <2>2
  <2> QED
    BY <1>3, <2>1, <2>3 DEF Percent
<1>5. PICK bonus : bonus = IF pref = {} THEN 0 ELSE (Percent(8) * Cardinality(liked)) \div Least(6, Cardinality(pref))
  OBVIOUS
<1>6. bonus \in Int
  <2>1. PICK d, n : d = Least(6, Cardinality(pref)) /\ n = Percent(8) * Cardinality(liked)
    OBVIOUS
  <2>2. pref # {} => d \in Nat /\ d > 0 /\ n \in Int
    BY <1>2, <2>1 DEF Least, Percent
  <2>3. pref # {} => n \div d \in Int
    BY <2>2
  <2> QED
    BY <1>5, <2>1, <2>3
<1>7. PICK withBonus : withBonus = IF pref = {} THEN base ELSE Least(Unit, base + bonus)
  OBVIOUS
<1>8. PICK broad : broad = IF Cardinality(met) > 7 THEN Least(Unit, withBonus + Percent(4)) ELSE withBonus
  OBVIOUS
<1>9. withBonus \in Int /\ broad \in Int
  BY <1>4, <1>6, <1>7, <1>8 DEF Least, Unit, Percent
<1>10. PICK b : b = EvidenceBonus(f, met)
  OBVIOUS
<1>11. b \in Int
  BY <1>10 DEF EvidenceBonus, Given, Percent
<1>12. SkillBase(f, req, pref) = CASE b > 0 -> Least(Unit, broad + b) [] b < 0 -> Most(0, broad + b) [] OTHER -> broad
  <2>1. req # {}
    BY <1>1
  <2> QED
    BY <1>1, <1>3, <1>5, <1>7, <1>8, <1>10, <2>1 DEF SkillBase
<1>13. SkillBase(f, req, pref) \in Int
  BY <1>9, <1>11, <1>12 DEF Least, Most, Unit, Percent
<1>14. Ceiling(req \ f.skills) \in Int
  BY DEF Ceiling, Percent, Unit
<1>15. Least(SkillBase(f, req, pref), Ceiling(req \ f.skills)) \in Int
  BY <1>13, <1>14 DEF Least
<1>16. Percent(8) \in Int
  BY DEF Percent
<1> QED
  BY <1>1, <1>15, <1>16, RawIs DEF SkillAlignment

LEMMA BlockersShown ==
  ASSUME NEW f, NEW j, IsFiniteSet(Required(j)), IsFiniteSet(j.preferred), NEW c, c.skill = SkillAlignment(f, j)
  PROVE  /\ Blockers(f, j, c) \cap f.skills = {} /\ Blockers(f, j, c) \cap c.skill.matched = {}
         /\ Blockers(f, j, c) # {} => HasGap("skill", c.skill) /\ GapSeverity(c.skill.raw) = "high"
<1>1. Blockers(f, j, c) \in SUBSET (Required(j) \ f.skills)
  BY DEF Blockers
<1>2. Blockers(f, j, c) # {} => Required(j) \ f.skills # {}
  BY <1>1
<1>3. c.skill.matched \subseteq f.skills /\ (Required(j) \ f.skills # {} => c.skill.missing # {})
  <2>1. PICK A : A = Required(j) \cup j.preferred
    OBVIOUS
  <2>2. CASE A = {}
    BY <2>1, <2>2, NeutralIs DEF SkillAlignment
  <2>3. CASE A # {} /\ f.skills = {}
    BY <2>1, <2>3 DEF SkillAlignment, Component
  <2>4. CASE A # {} /\ f.skills # {}
    <3>1. c.skill.matched = A \cap f.skills /\ c.skill.missing = A \ f.skills
      BY <2>1, <2>4 DEF SkillAlignment, Component
    <3> QED
      BY <2>1, <3>1
  <2> QED
    BY <2>2, <2>3, <2>4
<1>4. Blockers(f, j, c) # {} => c.skill.raw \in Int /\ c.skill.raw <= Percent(30)
  BY <1>2, SkillScore DEF Blockers
<1>5. Blockers(f, j, c) # {} => HasGap("skill", c.skill) /\ GapSeverity(c.skill.raw) = "high"
  <2> SUFFICES ASSUME Blockers(f, j, c) # {} PROVE HasGap("skill", c.skill) /\ GapSeverity(c.skill.raw) = "high"
    OBVIOUS
  <2>1. c.skill.raw \in Int /\ c.skill.raw < Percent(35) /\ c.skill.raw < Percent(75)
    BY <1>4 DEF Percent
  <2>2. c.skill.missing # {}
    BY <1>2, <1>3
  <2>3. GapSeverity(c.skill.raw) = "high"
    <3>1. PICK raw : raw = c.skill.raw
      OBVIOUS
    <3>2. raw < Percent(35)
      BY <2>1, <3>1
    <3>3. ~(raw \in Percent(35)..(Percent(60) - 1))
      <4>1. PICK low \in Int, high \in Int : low = Percent(35) /\ high = Percent(60) - 1
        BY DEF Percent
      <4>2. raw \in Int /\ raw < low
        BY <2>1, <3>1, <3>2, <4>1
      <4>3. ~(raw \in low..high)
        BY <4>2
      <4> QED
        BY <4>1, <4>3
    <3> QED
      BY <3>1, <3>2, <3>3, Zenon DEF GapSeverity
  <2> QED
    BY <2>1, <2>2, <2>3 DEF HasGap
<1> QED
  BY <1>1, <1>3, <1>5

\* Whatever the profile, the explanation of its match with a posting agrees
\* with itself.
LEMMA MatchAgrees ==
  ASSUME NEW posting \in Posting, NEW p
  PROVE  Agrees(MatchResult(posting, p, Unknown), ProfileFeature(p).skills)
<1>1. PICK f, j : f = ProfileFeature(p) /\ j = JobFeature(posting)
  OBVIOUS
<1>2. PICK c : c = Components(posting, f, j)
  OBVIOUS
<1>3. PICK r : r = MatchResult(posting, p, Unknown)
  OBVIOUS
<1>4. r.components = c /\ r.blockers = Blockers(f, j, c)
  BY <1>1, <1>2, <1>3 DEF MatchResult, Scored, Combined
<1>5. IsFiniteSet(Required(j)) /\ IsFiniteSet(j.preferred)
  BY <1>1, FeatureFinite, MatchAssumption
<1>6. /\ c.skill = SkillAlignment(f, j) /\ c.role = RoleAlignment(f, j)
      /\ c.seniority = SeniorityAlignment(f, Seniority({posting.title}, ParagraphTexts(posting)))
      /\ c.discipline = DisciplineAlignment(f, j) /\ c.domain = DomainAlignment(f, j)
      /\ c.location = LocationAlignment(f, j, posting.workplace)
      /\ c.experience = ExperienceAlignment(f, j) /\ c.title = TitleAlignment(f, j)
      /\ c.scope = ScopeAlignment(f, j) /\ c.workplace = WorkplaceAlignment(f, posting.workplace)
      /\ c.language = LanguageAlignment(f, j) /\ c.education = EducationAlignment(f, j)
  BY <1>2 DEF Components
<1>7. /\ Apiece("skill", c.skill) /\ Apiece("role", c.role) /\ Apiece("seniority", c.seniority)
      /\ Apiece("discipline", c.discipline) /\ Apiece("domain", c.domain) /\ Apiece("location", c.location)
  BY <1>6, SkillApiece, MembershipApiece, SeniorityApiece, DomainApiece, LocationApiece DEF RoleAlignment, DisciplineAlignment
<1>8. /\ Apiece("experience", c.experience) /\ Apiece("title", c.title) /\ Apiece("scope", c.scope)
      /\ Apiece("workplace", c.workplace) /\ Apiece("language", c.language) /\ Apiece("education", c.education)
  BY <1>6, ExperienceApiece, TitleApiece, ScopeApiece, WorkplaceApiece, LanguageApiece, EducationApiece
<1>9. \A n \in Names : Apiece(n, c[n])
  BY <1>7, <1>8 DEF Names
<1>10. /\ r.blockers \cap f.skills = {} /\ r.blockers \cap c.skill.matched = {}
       /\ r.blockers # {} => HasGap("skill", c.skill) /\ GapSeverity(c.skill.raw) = "high"
  BY <1>4, <1>5, <1>6, BlockersShown
<1>11. Told(r)
  BY <1>4, <1>9, <1>10 DEF Told, Apiece
<1> QED
  BY <1>1, <1>3, <1>10, <1>11, StoriesTold

-----------------------------------------------------------------------------
(* The subscriber's steps.                                                 *)

MatchInv ==
    /\ job \in Posting \cup {Unknown}
    /\ "entries" \in DOMAIN profile /\ profile.entries \in Seq(WorkEntry)

LEMMA MatchInvHolds == MatchSpec => []MatchInv
<1>1. MatchInit => MatchInv
  BY MatchAssumption DEF MatchInit, MatchInv
<1>2. MatchInv /\ [MatchNext]_matchVars => MatchInv'
  <2> SUFFICES ASSUME MatchInv, [MatchNext]_matchVars PROVE MatchInv'
    OBVIOUS
  <2> USE DEF MatchInv
  <2>1. CASE OpenPosting
    BY <2>1 DEF OpenPosting
  <2>2. CASE LearnSkill
    <3>1. DOMAIN profile' = DOMAIN profile /\ profile'.entries = profile.entries
      BY <2>2 DEF LearnSkill, WithNextSkill
    <3> QED
      BY <2>2, <3>1 DEF LearnSkill
  <2>3. CASE AddEntry
    <3>1. PICK e \in Addable : profile' = [profile EXCEPT !.entries = Append(@, e)]
      BY <2>3 DEF AddEntry
    <3>2. DOMAIN profile' = DOMAIN profile /\ profile'.entries = Append(profile.entries, e)
      BY <3>1
    <3>3. e \in WorkEntry
      BY MatchAssumption
    <3>4. Append(profile.entries, e) \in Seq(WorkEntry)
      BY <3>3
    <3> QED
      BY <2>3, <3>2, <3>4 DEF AddEntry
  <2>4. CASE UNCHANGED matchVars
    BY <2>4 DEF matchVars
  <2> QED
    BY <2>1, <2>2, <2>3, <2>4 DEF MatchNext
<1> QED
  BY <1>1, <1>2, PTL DEF MatchSpec

LEMMA MatchInvExplains == MatchInv => MatchIsExplained
<1> SUFFICES ASSUME MatchInv PROVE MatchIsExplained
  OBVIOUS
<1>1. YearsCountedOnce
  <2>1. PICK s : s = profile.entries /\ s \in Seq(WorkEntry)
    BY DEF MatchInv
  <2>2. PICK n \in Nat : n = Len(s) /\ \A i \in 1..n : s[i] \in WorkEntry
    BY <2>1
  <2>3. EntryYears(profile)
    BY <2>1, <2>2 DEF EntryYears, WorkEntry
  <2> QED
    BY <2>1, <2>2, <2>3, YearsOnce DEF YearsCountedOnce
<1>2. ExplanationAgrees
  BY MatchAgrees DEF ExplanationAgrees, MatchInv
<1> QED
  BY <1>1, <1>2 DEF MatchIsExplained

\* The years of a profile are each counted once, and the explanation of a
\* match tells one story: its blockers come first, and no term is both a
\* point and a gap (profile_features.py, scoring.py, explanations.py).
THEOREM MatchIsExplainedTheorem == MatchSpec => []MatchIsExplained
  BY MatchInvHolds, MatchInvExplains, PTL

=============================================================================

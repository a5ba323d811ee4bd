-------------------------------- MODULE Copilot --------------------------------
(***************************************************************************)
(* Conversations of one subscriber with the copilot                        *)
(* (api/routers/user_ai.py, services/ai/tasks, learning_memory.py,         *)
(* grounding.py, job_analysis_grounding.py, job_analysis_response.py): a   *)
(* request opens or continues a conversation, finds the job it is about,   *)
(* awaits the page of that job, stores the question, asks the model,       *)
(* learns from the prompt and stores the answer.  One event loop serves    *)
(* the chats: they pass one another at the await only, and a stop of the   *)
(* process loses those in flight.  A job may vanish under a conversation.  *)
(*                                                                         *)
(* A text is its length and the tokens somebody looks for in it.  Titles   *)
(* and locale of a conversation, and the refresh of the profile's features *)
(* on the way, are left out.                                               *)
(***************************************************************************)
EXTENDS Integers, Sequences, FiniteSets, SequencesExt, FiniteSetsExt, Functions

CONSTANTS
  NoJob,
  Requests,      \* how many requests, numbered as they begin
  KnownJob,           \* jobs a request may name
  Context,       \* how it may name one: [job, mode]
  Kind,          \* "canonical", "bare" (without features), "legacy" or "gone": what a job is at first
  About,         \* of each job: [title, company, evidence, gaps, matched, missing, wanted, duties, culture]
  Prompts,       \* [learns, hits]: memory keys and career documents a prompt has words of
  Replies,       \* what the model may say: [chars, says]
  MostTalks,     \* bound: conversations
  HasCv,         \* whether an upload with text is there
  RecentMessages         \* messages looked at for the job of a conversation

ASSUME CopilotAssumption ==
  /\ Requests \in Nat /\ RecentMessages \in Nat \ {0}
  /\ NoJob \notin 1 .. Requests /\ NoJob \notin Context

VARIABLES
  conversations,   \* how many there are
  messages,        \* their rows, in order of id
  memory,          \* what was learned: how often each key was seen
  knowledge,       \* career knowledge documents seeded
  audit,           \* records written to the audit log
  jobs,            \* what each job is now
  chat,            \* the requests
  loop,            \* the request the event loop is running, or NoJob
  tick

copilotVars == <<conversations, messages, memory, knowledge, audit, jobs, chat, loop, tick>>
stored == <<conversations, messages, memory, knowledge, audit>>

Chat == 1 .. Requests

FirstN(s, n) == SubSeq(s, 1, Min({n, Len(s)}))

---------------------------------------------------------------------------
(* The job of a conversation *)

(* list_subscriber_ai_copilot_messages: by time and id, the newest first.   *)
After(i, k) == messages[i].at > messages[k].at \/ (messages[i].at = messages[k].at /\ i > k)
Newest(conversation, limit) ==
  LET own == {i \in DOMAIN messages : messages[i].conversation = conversation}
  IN {i \in own : Cardinality({k \in own : After(k, i)}) < limit}

(* Mutant: only answers are looked at.                                      *)
RecoveredFromAnswers(conversation) ==
  LET about == {i \in Newest(conversation, RecentMessages) :
                  messages[i].context # NoJob /\ messages[i].role = "assistant"}
  IN IF about = {} THEN NoJob ELSE messages[CHOOSE i \in about : \A k \in about : k = i \/ After(i, k)].context

(* _recover_conversation_job_analysis_context *)
Recovered(conversation) ==
  LET about == {i \in Newest(conversation, RecentMessages) : messages[i].context # NoJob}
  IN IF about = {} THEN NoJob ELSE messages[CHOOSE i \in about : \A k \in about : k = i \/ After(i, k)].context

---------------------------------------------------------------------------
(* Answers *)

Failed == [chars |-> -1, says |-> {}]  \* no reply, or one that cannot be validated

Generic == {"i can help"}
Headings == {"overall", "fit", "cv", "apply"}

(* answer_needs_job_analysis_fallback *)
NeedsFallback(answer, job) ==
  LET signals == {About[job].title, About[job].company} \cup ToSet(FirstN(About[job].matched, 1)) IN
  \/ answer.chars < 280
  \/ answer.says \cap Generic # {}
  \/ answer.says \cap signals = {}
  \/ Cardinality(answer.says \cap Headings) < 2

(* render_deterministic_job_analysis: four headings, an introduction with   *)
(* the title, and per section the first of what is known or a stock phrase. *)
Analysis(job) ==
  LET a == About[job]
      Part(items) == IF items = <<>> THEN {"stock phrase"} ELSE ToSet(items)
      strengths == FirstN(a.evidence, 4) \o FirstN(a.wanted, 4)
      gaps      == FirstN(a.gaps, 4) \o FirstN(a.missing, 5)
      focus     == FirstN(a.matched, 5) \o FirstN(a.duties, 3)
      next      == FirstN(a.wanted, 3) \o FirstN(a.culture, 3)
  IN [chars |-> 600, says |-> {a.title} \cup Headings \cup Part(strengths) \cup Part(gaps) \cup Part(focus) \cup Part(next)]

(* ensure_foundation_career_knowledge, written before it is searched.       *)
Foundation == {"cv-core-clarity", "job-search-signal-strategy", "learning-plan-principles"}

(* build_copilot_grounding_bundle and search_career_knowledge: the sources  *)
(* of an answer, at most three of them career knowledge ...                 *)
Grounding(prompt) ==
  <<"profile">> \o (IF HasCv THEN <<"cv">> ELSE <<>>)
    \o (IF \E k \in DOMAIN memory : memory[k] > 0 THEN <<"memory">> ELSE <<>>)
    \o [i \in 1 .. Min({3, Cardinality(prompt.hits \cap Foundation)}) |-> "knowledge"]

(* ... and those of the job: its page, itself and the match.                *)
JobSources(context) == IF context = NoJob THEN <<>> ELSE <<"page", "job", "match">>

SourcesOf(prompt, context) == FirstN(FirstN(Grounding(prompt), 6) \o FirstN(JobSources(context), 4), 8)

(* CopilotChatTask.run: in job_fit mode the deterministic analysis stands   *)
(* in for a reply that failed or is too weak; otherwise what the model said *)
(* is the answer.                                                           *)
AnswerTo(reply, context) ==
  LET jobFit == context # NoJob /\ context.mode = "job_fit"
  IN IF jobFit /\ (reply = Failed \/ NeedsFallback(reply, context.job)) THEN Analysis(context.job) ELSE reply

Usable(answer) == answer.chars > 0

---------------------------------------------------------------------------
(* A chat *)

\* kind: what the job was when the request looked it up, "gone" once that is used.
\* seen, for the properties: how many messages were stored when it began.
Resting == [pc |-> "idle", conversation |-> 0, began |-> 0, seen |-> 0, chose |-> NoJob, context |-> NoJob, kind |-> "gone",
         prompt |-> NoJob, sources |-> <<>>, answer |-> Failed]

CopilotInit ==
  /\ conversations = 0 /\ messages = <<>> /\ knowledge = {} /\ audit = {} /\ loop = NoJob /\ tick = 0
  /\ jobs = Kind
  /\ memory = [k \in UNION {p.learns : p \in Prompts} |-> 0]
  /\ chat = [c \in Chat |-> Resting]

ChatGoes(c, r) == chat' = [chat EXCEPT ![c] = r]
Running == {"awaiting", "asking", "thinking", "learning", "answering", "closing"}
Arrives(c) == chat[c].pc = "idle" /\ \A d \in 1 .. c - 1 : chat[d].pc # "idle"

(* chat_with_copilot up to the await: an unknown conversation id opens a    *)
(* new one, before anything is known of the job.                            *)
BeginChat(c, conversation, chose, prompt) ==
  /\ loop = NoJob /\ Arrives(c)
  /\ LET here == IF conversation \in 1 .. conversations THEN conversation ELSE conversations + 1
         context == IF chose # NoJob THEN chose ELSE Recovered(here)
         r == [Resting EXCEPT !.conversation = here, !.began = tick, !.seen = Len(messages), !.chose = chose,
                                 !.context = context, !.prompt = prompt]
     IN /\ here <= MostTalks /\ conversations' = Max({conversations, here})
        /\ IF context = NoJob
           THEN ChatGoes(c, [r EXCEPT !.pc = "asking"]) /\ loop' = c
           ELSE /\ loop' = NoJob
                /\ ChatGoes(c, [r EXCEPT !.kind = jobs[context.job],
                                       !.pc = IF jobs[context.job] = "gone" THEN "refused" ELSE "awaiting"])
  /\ tick' = tick + 1
  /\ UNCHANGED <<messages, memory, knowledge, audit, jobs>>

(* build_job_analysis_grounding_bundle after the page: a canonical job      *)
(* without features is refused.                                             *)
PageRead(c) ==
  /\ loop = NoJob /\ chat[c].pc = "awaiting"
  /\ IF chat[c].kind = "legacy" \/ jobs[chat[c].context.job] = "canonical"
     THEN ChatGoes(c, [chat[c] EXCEPT !.pc = "asking", !.kind = "gone"]) /\ loop' = c
     ELSE ChatGoes(c, [chat[c] EXCEPT !.pc = "refused", !.kind = "gone"]) /\ UNCHANGED loop
  /\ UNCHANGED <<stored, jobs, tick>>

(* Mutant: a message keeps the job its own request named.                   *)
MessageAsChosen(c, role, at, says) ==
  [conversation |-> chat[c].conversation, role |-> role, chat |-> c, at |-> at, context |-> chat[c].chose,
   answer |-> says, sources |-> chat[c].sources]

Message(c, role, at, says) ==
  [conversation |-> chat[c].conversation, role |-> role, chat |-> c, at |-> at, context |-> chat[c].context,
   answer |-> says, sources |-> chat[c].sources]

(* The question is stored under the time the request began.                 *)
SaveQuestion(c) ==
  /\ loop = c /\ chat[c].pc = "asking"
  /\ messages' = Append(messages, Message(c, "user", chat[c].began, NoJob))
  /\ ChatGoes(c, [chat[c] EXCEPT !.pc = "thinking"])
  /\ UNCHANGED <<conversations, memory, knowledge, audit, jobs, loop, tick>>

(* persist_ai_audit_record; a failed write is swallowed and leaves less.    *)
Audit(c, success) == audit' = audit \cup {[chat |-> c, success |-> success]}

Ended(r, pc) == [r EXCEPT !.pc = pc, !.kind = "gone", !.sources = <<>>, !.answer = Failed]
Give(c, pc) == ChatGoes(c, Ended(chat[c], pc)) /\ loop' = NoJob

(* The model is asked; 502 when there is no answer to make of its reply.    *)
Think(c, reply) ==
  /\ loop = c /\ chat[c].pc = "thinking"
  /\ knowledge' = Foundation
  /\ LET answer == AnswerTo(reply, chat[c].context) IN
     IF answer = Failed THEN Give(c, "bad gateway") /\ Audit(c, FALSE)
     ELSE /\ ChatGoes(c, [chat[c] EXCEPT !.pc = "learning", !.answer = answer,
                          !.sources = SourcesOf(chat[c].prompt, chat[c].context)])
          /\ UNCHANGED <<audit, loop>>
  /\ UNCHANGED <<conversations, messages, memory, jobs, tick>>

(* Mutant: a success is audited before its answer is stored.                *)
LearnAuditsFirst(c) ==
  /\ loop = c /\ chat[c].pc = "learning"
  /\ memory' = [k \in DOMAIN memory |-> memory[k] + (IF k \in chat[c].prompt.learns THEN 1 ELSE 0)]
  /\ IF Usable(chat[c].answer) THEN ChatGoes(c, [chat[c] EXCEPT !.pc = "answering"]) /\ Audit(c, TRUE) /\ UNCHANGED loop
     ELSE Give(c, "bad gateway") /\ Audit(c, FALSE)
  /\ UNCHANGED <<conversations, messages, knowledge, jobs, tick>>

(* persist_learning_memory_candidates, before an empty answer is refused.   *)
Learn(c) ==
  /\ loop = c /\ chat[c].pc = "learning"
  /\ memory' = [k \in DOMAIN memory |-> memory[k] + (IF k \in chat[c].prompt.learns THEN 1 ELSE 0)]
  /\ IF Usable(chat[c].answer) THEN ChatGoes(c, [chat[c] EXCEPT !.pc = "answering"]) /\ UNCHANGED <<audit, loop>>
     ELSE Give(c, "bad gateway") /\ Audit(c, FALSE)
  /\ UNCHANGED <<conversations, messages, knowledge, jobs, tick>>

SaveAnswer(c) ==
  /\ loop = c /\ chat[c].pc = "answering"
  /\ messages' = Append(messages, Message(c, "assistant", tick, chat[c].answer))
  /\ ChatGoes(c, [chat[c] EXCEPT !.pc = "closing"])
  /\ tick' = tick + 1
  /\ UNCHANGED <<conversations, memory, knowledge, audit, jobs, loop>>

(* The conversation is touched and the request audited.                     *)
CloseChat(c) ==
  /\ loop = c /\ chat[c].pc = "closing"
  /\ Give(c, "answered") /\ Audit(c, TRUE)
  /\ UNCHANGED <<conversations, messages, memory, knowledge, jobs, tick>>

(* The four profile suggestions: _execute_task_with_audit around a task     *)
(* that stores nothing.                                                     *)
Suggest(c, reply) ==
  /\ loop = NoJob /\ Arrives(c)
  /\ Give(c, IF reply = Failed THEN "bad gateway" ELSE "suggested")
  /\ Audit(c, reply # Failed)
  /\ UNCHANGED <<conversations, messages, memory, knowledge, jobs, tick>>

(* The process stops and starts again.                                      *)
Stop ==
  /\ \E c \in Chat : chat[c].pc \in Running
  /\ chat' = [c \in Chat |-> IF chat[c].pc \in Running THEN Ended(chat[c], "lost") ELSE chat[c]]
  /\ loop' = NoJob
  /\ UNCHANGED <<stored, jobs, tick>>

(* The corpus is refreshed: features appear, a job is merged away.          *)
JobChanges(j) ==
  /\ jobs[j] \in {"canonical", "bare"}
  /\ jobs' = [jobs EXCEPT ![j] = IF @ = "bare" THEN "canonical" ELSE "gone"]
  /\ UNCHANGED <<stored, chat, loop, tick>>

CopilotNext ==
  \/ \E c \in Chat :
       \/ \E n \in 0 .. conversations, chose \in Context \cup {NoJob}, p \in Prompts : BeginChat(c, n, chose, p)
       \/ PageRead(c) \/ SaveQuestion(c) \/ Learn(c) \/ SaveAnswer(c) \/ CloseChat(c)
       \/ \E reply \in Replies \cup {Failed} : Think(c, reply) \/ Suggest(c, reply)
  \/ Stop
  \/ \E j \in KnownJob : JobChanges(j)

CopilotSpec == CopilotInit /\ [][CopilotNext]_copilotVars

---------------------------------------------------------------------------
(* Properties *)

QuestionOf(c) == {i \in DOMAIN messages : messages[i].chat = c /\ messages[i].role = "user"}
AnswerOf(c) == {i \in DOMAIN messages : messages[i].chat = c /\ messages[i].role = "assistant"}

(* Whatever stops, fails or overtakes it: an answer follows its question in *)
(* the conversation and is about the same job, what was learned was said in *)
(* a stored question, a chat audited as a success has its answer and one    *)
(* audited as a failure has none.                                           *)
NothingWithoutQuestion ==
  /\ \A c \in Chat : \A i \in AnswerOf(c) : \E k \in QuestionOf(c) :
       After(i, k) /\ messages[i].conversation = messages[k].conversation /\ messages[i].context = messages[k].context
  /\ \A k \in DOMAIN memory : memory[k] <= Cardinality({c \in Chat : QuestionOf(c) # {} /\ k \in chat[c].prompt.learns})
  /\ \A a \in audit : chat[a.chat].prompt # NoJob => (AnswerOf(a.chat) # {}) = a.success

(* Messages about no job that were there when c began, later than message i *)
(* of its conversation.                                                     *)
Overtaking(i, c) ==
  {k \in 1 .. chat[c].seen : /\ messages[k].conversation = chat[c].conversation
                             /\ messages[k].context = NoJob /\ After(k, i)}

(* A conversation in which only one job was ever named stays about that     *)
(* job: a request that names none is about it if the request that named it  *)
(* was answered before, however many messages ago, and also if only its     *)
(* question was stored, because the model failed or the process stopped,    *)
(* unless RecentMessages messages about no job overtook that question:      *)
(* those of chats that ran while its request awaited the page, since the    *)
(* question is stored under the time its request began.                     *)
StaysOnItsJob ==
  \A c, d \in Chat :
    LET named == {chat[e].chose : e \in {e \in Chat : chat[e].conversation = chat[c].conversation}} \ {NoJob} IN
    (/\ chat[c].pc # "idle" /\ chat[c].chose = NoJob
     /\ chat[d].conversation = chat[c].conversation /\ chat[d].chose # NoJob /\ named = {chat[d].chose}
     /\ \E i \in 1 .. chat[c].seen :
          /\ messages[i].chat = d
          /\ messages[i].role = "assistant" \/ Cardinality(Overtaking(i, c)) < RecentMessages)
      => chat[c].context = chat[d].chose

(* An answer in job_fit mode is never one the code itself calls too weak,   *)
(* the deterministic one included, and its sources have the job.            *)
JobAnswersAreSpecific ==
  \A i \in DOMAIN messages : LET m == messages[i] IN
    m.role = "assistant" /\ m.context # NoJob =>
      /\ "job" \in ToSet(m.sources)
      /\ m.context.mode = "job_fit" => ~NeedsFallback(m.answer, m.context.job)

(* A conversation about a job keeps to it, with answers that are about it.  *)
KeepsToItsJob == StaysOnItsJob /\ JobAnswersAreSpecific
=============================================================================

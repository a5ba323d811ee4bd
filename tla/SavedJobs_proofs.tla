--------------------------- MODULE SavedJobs_proofs ---------------------------
(***************************************************************************)
(* What holds of the corpus of jobs and of a subscriber's saved jobs for    *)
(* every set of requests, postings, roles and places.                       *)
(***************************************************************************)
EXTENDS SavedJobs, TLAPS

---------------------------------------------------------------------------
(* Rows *)

IsRecord(x) == /\ x = [url |-> x.url, text |-> x.text, active |-> x.active]
               /\ x.url \in Posting /\ x.active \in BOOLEAN
IsRecords(rs) == /\ rs = [p \in Posting |-> rs[p]]
                 /\ \A p \in Posting : IsRow(rs[p]) => IsRecord(rs[p])
IsJob(x) == x = [text |-> x.text, active |-> x.active] /\ x.active \in BOOLEAN
IsSaved(x) == x = [by |-> x.by, notes |-> x.notes]
Counters == [Interaction -> Nat]

(* The tables; a link is that of a record there is. *)
TablesOK ==
  /\ IsRecords(records)
  /\ snapshot = [p \in Posting |-> snapshot[p]]
  /\ canon = [k \in Key |-> canon[k]] /\ \A k \in Key : IsRow(canon[k]) => IsJob(canon[k])
  /\ feature = [k \in Key |-> feature[k]]
  /\ links = [p \in Posting |-> links[p]]
  /\ \A p \in Posting : links[p] # Nil => IsRow(records[p])

UserOK ==
  /\ mirrors \subseteq Key
  /\ saved = [j \in ApiJob |-> saved[j]]
  /\ \A j \in ApiJob : IsRow(saved[j]) => IsSaved(saved[j])
  /\ events \in [ApiJob -> Counters] /\ counts \in [ApiJob -> Counters \cup {None}]

---------------------------------------------------------------------------
(* What a request knows when its record is c *)

CallFields == {"op", "pc", "arg", "then", "todo", "read", "groups", "steady", "alone"}
IsCall(c) == c = [f \in CallFields |-> c[f]]

Runs(c) == c.pc \notin Ended \cup {"waiting"}
Rebuilds == {"upsertJob", "upsertLink", "pruneLinks", "markJobs"}
Features == {"buildFeature", "storeFeature", "pruneFeatures"}
Hydrations == {"fetch", "match", "bootstrap", "listRecords", "rematch", "findJobs", "answer"}
                \cup Rebuilds \cup Features

(* What is in its fields at each step. *)
Typed(c) ==
  /\ c.then \in {"answer", "pairs"}
  /\ c.pc \in {"fetch", "match", "bootstrap", "findJobs"} => c.arg \in Posting
  /\ c.pc \in {"syncRecord", "bootstrap", "nextPage", "fetch"} => c.todo \subseteq Posting
  /\ c.pc \in Rebuilds => /\ IsRecords(c.groups) /\ c.todo \subseteq Grouped(c.groups)
                          /\ \A p \in Posting : IsRow(c.groups[p]) => IsRow(records[p])
  /\ c.pc = "upsertLink" => /\ c.read.job \in Grouped(c.groups)
                            /\ c.read.left \subseteq Group(c.groups, c.read.job)
  /\ c.pc \in {"buildFeature", "storeFeature"} => \A t \in c.todo : t.job \in Key
  /\ c.pc = "storeFeature" => c.read.job \in Key /\ IsRow(c.read.row)
  /\ c.pc = "ranked" => c.read = Nil \/ c.read \subseteq Key
  /\ c.pc \in {"readCounts", "writeCounts"} =>
       c.todo \subseteq ApiJob /\ c.op \in {"list", "open", "save"}
  /\ c.pc = "writeCounts" => c.arg \in c.todo /\ c.read \in Counters \cup {None}
  /\ c.pc = "mirror" => c.arg \in Key
  /\ c.pc \in {"insertSaved", "deleteSaved", "insertNote"} => c.arg \in ApiJob
  /\ c.pc \in Rebuilds \cup {"listRecords", "match", "bootstrap"} => c.op \in {"refresh", "hydrate"}
  /\ c.pc \in {"fetch", "rematch", "findJobs"} => c.op \in {"hydrate", "hydratePage", "hydratePages"}
  /\ c.pc = "nextPage" => c.op = "hydratePages"
  /\ c.pc \in {"mirror", "insertSaved"} => c.op = "save"
  /\ Runs(c) /\ c.op = "refresh" =>
       c.pc \in Rebuilds \cup {"listRecords", "answer"} /\ c.steady = {}
  /\ Runs(c) /\ c.op \in {"hydrate", "hydratePage"} =>
       c.pc \in Hydrations /\ c.then = "answer" /\ c.steady = {}

(* The counters it has read are at most the events, and the counters        *)
(* of a job that was not crossed are read by nobody else meanwhile.         *)
OrZero(row) == IF IsRow(row) THEN row ELSE Zero
Records(q, j) == At(q, "writeCounts") /\ req[q].arg = j
Counted(r, c) ==
  c.pc = "writeCounts" =>
    /\ \A i \in Interaction : OrZero(c.read)[i] <= events[c.arg][i]
    /\ c.arg \notin crossed => /\ c.read = counts[c.arg]
                               /\ \A q \in Request \ {r} : ~Records(q, c.arg)

(* The job's feature is still to be stored. *)
Awaits(c, k) ==
  \/ c.pc \in {"buildFeature", "storeFeature"} /\ \E t \in c.todo : t.job = k
  \/ c.pc = "storeFeature" /\ c.read.job = k

(* A ranking: jobs active all along have a feature or are to get one.       *)
Ranks(c) ==
  /\ c.steady \subseteq ActiveJobs
  /\ c.then = "pairs" => c.pc \in Features \cup {"pairs"}
  /\ c.then = "pairs" \/ c.pc = "pairs" =>
       \A k \in c.steady : IsRow(feature[k]) \/ Awaits(c, k)
  /\ c.pc = "ranked" /\ c.read # Nil => c.steady \subseteq c.read

(* A hydration that is alone: nobody but itself changes the texts, the      *)
(* snapshot and the features.                                               *)
UpToDate(k) ==
  [text |-> canon[k].text, page |-> ApplyUrl(k), ctx |-> snapshot[ApplyUrl(k)]]
Hydrates(c) ==
  /\ c.alone /\ c.op \in {"hydrate", "hydratePage"}
  /\ c.pc \in Features \cup {"answer"} /\ snapshot[c.arg] # 0
  =>
       /\ c.pc \in {"buildFeature", "storeFeature"} =>
            \A t \in c.todo : t.text = canon[t.job].text
       /\ c.pc = "storeFeature" /\ ApplyUrl(c.read.job) = c.arg => c.read.row = UpToDate(c.read.job)
       /\ \A k \in ActiveJobs : ApplyUrl(k) = c.arg => feature[k] = UpToDate(k) \/ Awaits(c, k)

(* A rebuild that is alone works on the records as they are; the groups it  *)
(* has dealt with are active and linked.                                    *)
Linked(k) == \A p \in Group(records, k) : links[p] = k
LinkedAsRecorded ==
  \A p \in Posting : links[p] = IF p \in ActiveRecords(records)
                                THEN CanonicalKey(p, records[p]) ELSE Nil
Refreshes(c) ==
  c.alone /\ c.op = "refresh" =>
    /\ c.pc \in Rebuilds => c.groups = records
    /\ c.pc \in Rebuilds \cup {"answer"} =>
         \A k \in Grouped(records) :
           \/ k \in ActiveJobs /\ Linked(k)
           \/ c.pc \in {"upsertJob", "upsertLink"} /\ k \in c.todo
    /\ c.pc = "upsertLink" =>
         /\ c.read.job \in ActiveJobs
         /\ \A p \in Group(records, c.read.job) \ c.read.left : links[p] = c.read.job
    /\ c.pc \in {"markJobs", "answer"} => LinkedAsRecorded
    /\ c.pc = "answer" => ActiveJobs = Grouped(records)

Held(c) == Typed(c) /\ Ranks(c) /\ Hydrates(c) /\ Refreshes(c)
Knows(r, c) == IsCall(c) /\ Counted(r, c) /\ Held(c)

Alone == \A q \in InFlight : req[q].alone => InFlight = {q}

CorpusInv ==
  /\ TablesOK /\ UserOK /\ InteractionsCounted
  /\ req = [q \in Request |-> req[q]] /\ Alone
  /\ \A q \in Request : Knows(q, req[q])

---------------------------------------------------------------------------
(* Calls *)

LEMMA CallFacts ==
  ASSUME NEW op, NEW pc, NEW arg
  PROVE  LET c == Call(op, pc, arg) IN
         /\ IsCall(c) /\ c.op = op /\ c.pc = pc /\ c.arg = arg /\ c.then = "answer"
         /\ c.todo = {} /\ c.read = Nil /\ c.groups = Nil /\ c.steady = {} /\ c.alone
BY DEF Call, IsCall, CallFields

LEMMA BecomeReq ==
  ASSUME CorpusInv, NEW r \in Request, NEW call, IsCall(call), Become(r, call)
  PROVE  /\ req' = [q \in Request |-> req'[q]]
         /\ IsCall(req'[r]) /\ req'[r].op = call.op /\ req'[r].pc = call.pc
         /\ call.pc \notin Ended => req'[r] = call
         /\ call.pc \in Ended => req'[r].then = "answer" /\ req'[r].steady = {}
         /\ \A q \in Request \ {r} : req'[q] = req[q]
<1>1. /\ IsCall(Outcome(call)) /\ Outcome(call).op = call.op /\ Outcome(call).pc = call.pc
      /\ call.pc \in Ended => Outcome(call).then = "answer" /\ Outcome(call).steady = {}
  BY DEF Outcome, Call, IsCall, CallFields
<1>2. call.pc \notin Ended => Outcome(call) = call BY DEF Outcome
<1>3. req' = [req EXCEPT ![r] = Outcome(call)] BY DEF Become
<1>4. req = [q \in Request |-> req[q]] BY DEF CorpusInv
<1>5. req'[r] = Outcome(call) /\ \A q \in Request \ {r} : req'[q] = req[q] BY <1>3, <1>4
<1>6. req' = [q \in Request |-> req'[q]] BY <1>3, <1>4
<1> QED BY <1>1, <1>2, <1>5, <1>6

(* Who does not run has nothing to know. *)
LEMMA AtRest ==
  ASSUME NEW q, NEW c, IsCall(c), ~Runs(c), c.then = "answer", c.steady = {}
  PROVE  Knows(q, c) /\ Knows(q, c)'
BY DEF Knows, Counted, Held, Typed, Ranks, Hydrates, Refreshes, Runs, Ended, Rebuilds, Features

LEMMA CountsRest ==
  ASSUME CorpusInv, NEW r \in Request, req'[r].pc # "writeCounts",
         \A q \in Request \ {r} : req'[q] = req[q], UNCHANGED <<events, counts, crossed>>
  PROVE  InteractionsCounted' /\ \A q \in Request \ {r} : Counted(q, req[q])'
<1>1. InteractionsCounted' BY DEF CorpusInv, InteractionsCounted
<1>2. ASSUME NEW q \in Request \ {r} PROVE Counted(q, req[q])'
  <2>1. req'[q] = req[q] /\ Counted(q, req[q]) BY <1>2 DEF CorpusInv, Knows
  <2>2. \A p \in Request : \A j : Records(p, j)' => Records(p, j) BY DEF Records, At
  <2> QED BY <2>1, <2>2, <1>2 DEF Counted, OrZero
<1> QED BY <1>1, <1>2

(* What the others know stays true as long as nothing is taken away.        *)
LEMMA OthersKnow ==
  ASSUME CorpusInv, NEW q \in Request, NEW c, IsCall(c), Typed(c), Ranks(c),
         Runs(c) => ~c.alone,
         \A p \in Posting : IsRow(records[p]) => IsRow(records'[p]),
         ActiveJobs \subseteq ActiveJobs',
         \A k \in ActiveJobs : IsRow(feature[k]) => IsRow(feature'[k]),
         Counted(q, c)'
  PROVE  Knows(q, c)'
<1>1. Typed(c)' BY DEF Typed, IsRow
<1>2. Ranks(c)' BY DEF Ranks, Awaits
<1>3. Hydrates(c)' /\ Refreshes(c)'
  BY DEF Hydrates, Refreshes, Runs, Features, Rebuilds, Ended
<1> QED BY <1>1, <1>2, <1>3 DEF Knows, Held

(* A request that runs makes a step. *)
LEMMA Keeps ==
  ASSUME CorpusInv, NEW r \in Request, Runs(req[r]),
         NEW call, IsCall(call), Become(r, call), Runs(call) => call.alone = req[r].alone,
         call.pc # "waiting",
         TablesOK', UserOK', InteractionsCounted',
         \A p \in Posting : IsRow(records[p]) => IsRow(records'[p]),
         ActiveJobs \subseteq ActiveJobs',
         \A k \in ActiveJobs : IsRow(feature[k]) => IsRow(feature'[k]),
         \A q \in Request \ {r} : Counted(q, req[q])',
         Runs(call) => Knows(r, call)'
  PROVE  CorpusInv'
<1>1. /\ req' = [q \in Request |-> req'[q]]
      /\ IsCall(req'[r]) /\ req'[r].pc = call.pc
      /\ call.pc \notin Ended => req'[r] = call
      /\ call.pc \in Ended => req'[r].then = "answer" /\ req'[r].steady = {}
      /\ \A q \in Request \ {r} : req'[q] = req[q]
  BY BecomeReq
<1>2. InFlight' \subseteq InFlight /\ r \in InFlight /\ \A q \in Request : q \in InFlight <=> Runs(req[q])
  BY <1>1 DEF InFlight, At, Runs
<1>3. Alone'
  <2> SUFFICES ASSUME NEW q \in InFlight', req'[q].alone PROVE InFlight' = {q}
    BY DEF Alone
  <2>0. q \in Request /\ q \in InFlight BY <1>2 DEF InFlight
  <2>1. req[q].alone
    <3>1. q = r => Runs(call) BY <1>1 DEF InFlight, At, Runs
    <3>2. q = r => req'[r] = call BY <3>1, <1>1 DEF Runs
    <3> QED BY <1>1, <2>0, <3>1, <3>2
  <2> QED BY <1>2, <2>0, <2>1 DEF CorpusInv, Alone
<1>4. ASSUME NEW q \in Request PROVE Knows(q, req[q])'
  <2>1. CASE q = r /\ Runs(call)
    <3>1. req'[q] = call BY <1>1, <2>1 DEF Runs
    <3> QED BY <2>1, <3>1 DEF Knows
  <2>2. CASE q = r /\ ~Runs(call)
    <3> PICK c : c = req'[r] OBVIOUS
    <3>1. Knows(r, c)' BY <1>1, <2>2, AtRest DEF Runs
    <3> QED BY <2>2, <3>1 DEF Knows
  <2>3. CASE q # r
    <3> PICK c : c = req[q] OBVIOUS
    <3>1. IsCall(c) /\ Typed(c) /\ Ranks(c) BY DEF CorpusInv, Knows, Held
    <3>2. Runs(c) => ~c.alone BY <1>2, <2>3 DEF CorpusInv, Alone
    <3>3. req'[q] = c BY <1>1, <2>3
    <3>4. Counted(q, c)' BY <2>3, <3>3 DEF Counted
    <3>5. Knows(q, c)' BY <3>1, <3>2, <3>4, OthersKnow
    <3> QED BY <3>3, <3>5 DEF Knows
  <2> QED BY <2>1, <2>2, <2>3
<1> QED BY <1>1, <1>3, <1>4 DEF CorpusInv

(* A step that does not touch what the subscriber has. *)
LEMMA CorpusKeeps ==
  ASSUME CorpusInv, NEW r \in Request, Runs(req[r]),
         NEW call, IsCall(call), Become(r, call), Runs(call) => call.alone = req[r].alone,
         call.pc \notin {"waiting", "writeCounts"}, UNCHANGED user,
         TablesOK',
         \A p \in Posting : IsRow(records[p]) => IsRow(records'[p]),
         ActiveJobs \subseteq ActiveJobs',
         \A k \in ActiveJobs : IsRow(feature[k]) => IsRow(feature'[k]),
         Runs(call) => Held(call)'
  PROVE  CorpusInv'
<1>1. UserOK' BY DEF CorpusInv, UserOK, user
<1>2. InteractionsCounted' /\ \A q \in Request \ {r} : Counted(q, req[q])'
  BY BecomeReq, CountsRest DEF user
<1>3. Runs(call) => Knows(r, call)' BY DEF Knows, Counted
<1> QED BY <1>1, <1>2, <1>3, Keeps

(* A step that touches no table a request knows anything of. *)
LEMMA Rests ==
  ASSUME CorpusInv, NEW r \in Request, Runs(req[r]),
         NEW call, IsCall(call), Become(r, call), Runs(call) => call.alone = req[r].alone,
         call.pc \notin {"waiting", "writeCounts"}, UNCHANGED <<corpus, events, counts, crossed>>,
         UserOK', Runs(call) => Held(call)
  PROVE  CorpusInv'
<1>0. UNCHANGED <<page, snapshot, records, canon, links, feature>> BY DEF corpus
<1>1. TablesOK' BY <1>0 DEF CorpusInv, TablesOK
<1>2. ActiveJobs' = ActiveJobs BY <1>0 DEF ActiveJobs
<1>3. Runs(call) => Held(call)'
  BY <1>0, <1>2 DEF Held, Typed, Ranks, Hydrates, Refreshes, Awaits, UpToDate, Linked, LinkedAsRecorded,
                    Grouped, Group, ActiveRecords
<1>4. InteractionsCounted' /\ \A q \in Request \ {r} : Counted(q, req[q])'
  BY BecomeReq, CountsRest
<1>5. Runs(call) => Knows(r, call)' BY <1>3 DEF Knows, Counted
<1> QED BY <1>0, <1>1, <1>2, <1>4, <1>5, Keeps

(* A request starts: it has read nothing of what others rebuild or compute. *)
LEMMA Begins ==
  ASSUME CorpusInv, NEW r \in Request, NEW call, IsCall(call), Begin(r, call),
         UNCHANGED <<corpus, user>>,
         call.pc \notin Rebuilds \cup Features \cup {"waiting", "writeCounts", "ranked", "pairs"},
         call.op \in {"refresh", "hydrate", "hydratePage"} => call.pc # "answer",
         call.then = "answer", call.steady = {}, Typed(call)
  PROVE  CorpusInv'
<1> PICK c : c = [call EXCEPT !.alone = InFlight = {}] OBVIOUS
<1>1. /\ IsCall(c) /\ c.op = call.op /\ c.pc = call.pc /\ c.arg = call.arg /\ c.then = "answer"
      /\ c.todo = call.todo /\ c.read = call.read /\ c.groups = call.groups /\ c.steady = {}
      /\ c.alone => InFlight = {}
  BY DEF IsCall, CallFields
<1>2. /\ req' = [q \in Request |-> req'[q]] /\ req'[r] = c
      /\ \A q \in Request \ {r} : req'[q] = IF q \in InFlight THEN [req[q] EXCEPT !.alone = FALSE]
                                            ELSE req[q]
      /\ req[r].pc = "waiting"
  BY DEF Begin, At
<1>3. ASSUME NEW q \in Request \ {r}
      PROVE  /\ IsCall(req'[q]) /\ req'[q].op = req[q].op /\ req'[q].pc = req[q].pc
             /\ req'[q].arg = req[q].arg /\ req'[q].then = req[q].then /\ req'[q].todo = req[q].todo
             /\ req'[q].read = req[q].read /\ req'[q].groups = req[q].groups
             /\ req'[q].steady = req[q].steady
             /\ q \in InFlight => req'[q].alone = FALSE
  <2>1. IsCall(req[q]) BY DEF CorpusInv, Knows
  <2>2. CASE q \in InFlight
    <3>1. req'[q] = [req[q] EXCEPT !.alone = FALSE] BY <1>2, <2>2
    <3> QED BY <2>1, <3>1 DEF IsCall, CallFields
  <2> QED BY <1>2, <2>1, <2>2
<1>4. /\ \A q \in Request \ {r} : q \in InFlight' <=> q \in InFlight
      /\ r \notin InFlight
  BY <1>2, <1>3 DEF InFlight, At
<1>5. Alone'
  <2> SUFFICES ASSUME NEW q \in InFlight', req'[q].alone PROVE InFlight' = {q}
    BY DEF Alone
  <2>1. q \in Request BY DEF InFlight
  <2>2. q = r BY <1>3, <1>4, <2>1
  <2>3. InFlight = {} BY <1>1, <1>2, <2>2
  <2> QED BY <1>4, <2>2, <2>3 DEF InFlight
<1>6. UNCHANGED <<snapshot, records, canon, links, feature, mirrors, saved, events, counts, crossed>>
  BY DEF corpus, user
<1>7. TablesOK' /\ UserOK' /\ InteractionsCounted'
  BY <1>6 DEF CorpusInv, TablesOK, UserOK, InteractionsCounted
<1>8. ActiveJobs' = ActiveJobs BY <1>6 DEF ActiveJobs
<1>9. ASSUME NEW q \in Request, NEW j, Records(q, j)' PROVE Records(q, j)
  <2>0. call.pc # "writeCounts" OBVIOUS
  <2>1. req'[r].pc # "writeCounts" BY <1>1, <1>2, <2>0
  <2>2. req'[q].pc = "writeCounts" BY <1>9 DEF Records, At
  <2>3. q # r BY <2>1, <2>2
  <2> QED BY <1>3, <1>9, <2>3 DEF Records, At
<1>10. ASSUME NEW q \in Request PROVE Knows(q, req[q])'
  <2> PICK d : d = req'[q] OBVIOUS
  <2>1. CASE q = r
    <3>0. Typed(c) /\ d = c BY <1>1, <1>2, <2>1 DEF Typed, Runs
    <3>1. Typed(d)' BY <1>6, <3>0 DEF Typed
    <3>2. Ranks(d)' BY <1>1, <1>2, <2>1 DEF Ranks, Features
    <3>a. /\ d.pc \notin Rebuilds /\ d.pc \notin Features
          /\ d.op \in {"refresh", "hydrate", "hydratePage"} => d.pc # "answer"
      BY <1>1, <1>2, <2>1
    <3>3. Hydrates(d)' /\ Refreshes(d)'
      BY <3>a DEF Hydrates, Refreshes, Features, Rebuilds
    <3>4. Counted(q, d)' BY <1>1, <1>2, <2>1 DEF Counted
    <3> QED BY <1>1, <1>2, <2>1, <3>1, <3>2, <3>3, <3>4 DEF Knows, Held
  <2>2. CASE q # r
    <3>1. IsCall(req[q]) /\ Typed(req[q]) /\ Ranks(req[q]) /\ Counted(q, req[q])
      BY DEF CorpusInv, Knows, Held
    <3> PICK e : e = req[q] OBVIOUS
    <3>0. /\ d.op = e.op /\ d.pc = e.pc /\ d.arg = e.arg /\ d.then = e.then /\ d.todo = e.todo
          /\ d.read = e.read /\ d.groups = e.groups /\ d.steady = e.steady
      BY <1>3, <2>2
    <3>2. Typed(d) BY <3>0, <3>1 DEF Typed, Runs
    <3>3. Ranks(d) BY <1>3, <2>2, <3>1 DEF Ranks, Awaits
    <3>4. Runs(d) => ~d.alone BY <1>3, <2>2 DEF Runs, InFlight, At
    <3>5. Counted(q, d)' BY <1>3, <1>6, <1>9, <2>2, <3>1 DEF Counted
    <3>6. Knows(q, d)' BY <1>3, <1>6, <1>8, <2>2, <3>2, <3>3, <3>4, <3>5, OthersKnow
    <3> QED BY <3>6 DEF Knows
  <2> QED BY <2>1, <2>2
<1> QED BY <1>2, <1>5, <1>7, <1>10 DEF CorpusInv

LEMMA StopKeeps == ASSUME CorpusInv, Stop, UNCHANGED user PROVE CorpusInv'
<1>1. /\ req' = [q \in Request |-> req'[q]]
      /\ \A q \in Request : req'[q] = IF q \in InFlight THEN Outcome([req[q] EXCEPT !.pc = "stopped"])
                                      ELSE req[q]
  BY DEF Stop
<1>2. UNCHANGED <<snapshot, records, canon, links, feature, mirrors, saved, events, counts, crossed>>
  BY DEF Stop, corpus, user
<1>3. ASSUME NEW q \in Request
      PROVE  IsCall(req'[q]) /\ ~Runs(req'[q])
             /\ (q \in InFlight => req'[q].then = "answer" /\ req'[q].steady = {})
  <2>1. IsCall(req[q]) BY DEF CorpusInv, Knows
  <2>2. CASE q \in InFlight
    <3> PICK c : c = [req[q] EXCEPT !.pc = "stopped"] OBVIOUS
    <3>1. c.pc = "stopped" BY <2>1 DEF IsCall, CallFields
    <3>2. req'[q] = Call(c.op, "stopped", c.arg) BY <1>1, <2>2, <3>1 DEF Outcome, Ended
    <3> PICK op : op = c.op OBVIOUS
    <3> PICK arg : arg = c.arg OBVIOUS
    <3> PICK pc : pc = "stopped" OBVIOUS
    <3> PICK d : d = Call(op, pc, arg) OBVIOUS
    <3>3. req'[q] = d BY <3>2
    <3>4. IsCall(d) /\ d.pc = "stopped" /\ d.then = "answer" /\ d.steady = {} BY CallFacts
    <3> QED BY <3>3, <3>4 DEF Runs, Ended
  <2>3. CASE q \notin InFlight BY <1>1, <2>1, <2>3 DEF InFlight, At, Runs
  <2> QED BY <2>2, <2>3
<1>4. Alone' BY <1>3 DEF Alone, InFlight, At, Runs
<1>5. TablesOK' /\ UserOK' /\ InteractionsCounted'
  BY <1>2 DEF CorpusInv, TablesOK, UserOK, InteractionsCounted
<1>6. ActiveJobs' = ActiveJobs BY <1>2 DEF ActiveJobs
<1>7. ASSUME NEW q \in Request PROVE Knows(q, req[q])'
  <2> PICK d : d = req'[q] OBVIOUS
  <2>1. CASE q \in InFlight
    <3>1. Knows(q, d)' BY <1>3, <2>1, AtRest
    <3> QED BY <3>1 DEF Knows
  <2>2. CASE q \notin InFlight
    <3>1. d = req[q] BY <1>1, <2>2
    <3>2. IsCall(d) /\ Typed(d) /\ Ranks(d) BY <3>1 DEF CorpusInv, Knows, Held
    <3>3. ~Runs(d) BY <1>3
    <3>4. Counted(q, d)' BY <3>3 DEF Counted, Runs, Ended
    <3>5. Knows(q, d)' BY <1>2, <1>6, <3>2, <3>3, <3>4, OthersKnow
    <3> QED BY <3>5 DEF Knows
  <2> QED BY <2>1, <2>2
<1> QED BY <1>1, <1>4, <1>5, <1>7 DEF CorpusInv

LEMMA StaysPut ==
  ASSUME CorpusInv, UNCHANGED <<snapshot, records, canon, links, feature, req, user>>
  PROVE  CorpusInv'
<1>1. TablesOK' /\ UserOK' /\ InteractionsCounted'
  BY DEF CorpusInv, TablesOK, UserOK, InteractionsCounted, user
<1>2. InFlight' = InFlight BY DEF InFlight, At
<1>3. Alone' BY <1>2 DEF CorpusInv, Alone
<1>4. ActiveJobs' = ActiveJobs BY DEF ActiveJobs
<1>5. ASSUME NEW q \in Request PROVE Knows(q, req[q])'
  <2> PICK c : c = req[q] OBVIOUS
  <2>1. Knows(q, c) BY DEF CorpusInv
  <2>2. Held(c)'
    BY <1>4, <2>1 DEF Knows, Held, Typed, Ranks, Hydrates, Refreshes, Awaits, UpToDate, Linked,
                      LinkedAsRecorded, Grouped, Group, ActiveRecords
  <2>3. Counted(q, c)' BY <2>1 DEF Knows, Counted, Records, At, user
  <2> QED BY <2>1, <2>2, <2>3 DEF Knows
<1> QED BY <1>1, <1>3, <1>5 DEF CorpusInv

---------------------------------------------------------------------------
(* Starts *)

LEMMA Mine ==
  ASSUME CorpusInv, NEW r \in Request
  PROVE  /\ IsCall(req[r]) /\ Counted(r, req[r])
         /\ Typed(req[r]) /\ Ranks(req[r]) /\ Hydrates(req[r]) /\ Refreshes(req[r])
BY DEF CorpusInv, Knows, Held

LEMMA SyncJobSourceKeeps ==
  ASSUME CorpusInv, NEW r \in Request, SyncJobSource(r), UNCHANGED <<corpus, user>>
  PROVE  CorpusInv'
<1>1. PICK seen \in SUBSET Posting :
        Begin(r, [Call("sync", IF seen = {} THEN "markMissing" ELSE "syncRecord", seen)
                    EXCEPT !.todo = seen])
  BY DEF SyncJobSource
<1> PICK c : c = [Call("sync", IF seen = {} THEN "markMissing" ELSE "syncRecord", seen)
                             EXCEPT !.todo = seen]
  OBVIOUS
<1>2. /\ IsCall(c) /\ c.then = "answer" /\ c.steady = {}
      /\ c.op = "sync" /\ c.pc \in {"markMissing", "syncRecord"} /\ c.todo = seen
  BY DEF Call, IsCall, CallFields
<1>3. Typed(c) BY <1>2 DEF Typed, Rebuilds, Runs, ApiJob, IsCanonical
<1>4. /\ c.pc \notin Rebuilds \cup Features \cup {"waiting", "writeCounts", "ranked", "pairs"}
      /\ c.op \in {"refresh", "hydrate", "hydratePage"} => c.pc # "answer"
  BY <1>2 DEF Rebuilds, Features
<1> QED BY <1>1, <1>2, <1>3, <1>4, Begins

LEMMA RefreshCanonicalJobsKeeps ==
  ASSUME CorpusInv, NEW r \in Request, RefreshCanonicalJobs(r), UNCHANGED <<corpus, user>>
  PROVE  CorpusInv'
<1>1. Begin(r, Call("refresh", "listRecords", Nil))
  BY DEF RefreshCanonicalJobs
<1> PICK c : c = Call("refresh", "listRecords", Nil)
  OBVIOUS
<1>2. /\ IsCall(c) /\ c.then = "answer" /\ c.steady = {}
      /\ c.op = "refresh" /\ c.pc = "listRecords"
  BY DEF Call, IsCall, CallFields
<1>3. Typed(c) BY <1>2 DEF Typed, Rebuilds, Runs, ApiJob, IsCanonical
<1>4. /\ c.pc \notin Rebuilds \cup Features \cup {"waiting", "writeCounts", "ranked", "pairs"}
      /\ c.op \in {"refresh", "hydrate", "hydratePage"} => c.pc # "answer"
  BY <1>2 DEF Rebuilds, Features
<1> QED BY <1>1, <1>2, <1>3, <1>4, Begins

LEMMA HydrateJobUrlKeeps ==
  ASSUME CorpusInv, NEW r \in Request, HydrateJobUrl(r), UNCHANGED <<corpus, user>>
  PROVE  CorpusInv'
<1>1. PICK u \in Posting : Begin(r, Call("hydrate", "fetch", u))
  BY DEF HydrateJobUrl
<1> PICK c : c = Call("hydrate", "fetch", u)
  OBVIOUS
<1>2. /\ IsCall(c) /\ c.then = "answer" /\ c.steady = {}
      /\ c.op = "hydrate" /\ c.pc = "fetch" /\ c.arg = u /\ c.todo = {}
  BY DEF Call, IsCall, CallFields
<1>3. Typed(c) BY <1>2 DEF Typed, Hydrations, Rebuilds, Runs, ApiJob, IsCanonical
<1>4. /\ c.pc \notin Rebuilds \cup Features \cup {"waiting", "writeCounts", "ranked", "pairs"}
      /\ c.op \in {"refresh", "hydrate", "hydratePage"} => c.pc # "answer"
  BY <1>2 DEF Rebuilds, Features
<1> QED BY <1>1, <1>2, <1>3, <1>4, Begins

LEMMA HydrateJobPageKeeps ==
  ASSUME CorpusInv, NEW r \in Request, HydrateJobPage(r), UNCHANGED <<corpus, user>>
  PROVE  CorpusInv'
<1>1. PICK u \in Posting : Begin(r, Call("hydratePage", "fetch", u))
  BY DEF HydrateJobPage
<1> PICK c : c = Call("hydratePage", "fetch", u)
  OBVIOUS
<1>2. /\ IsCall(c) /\ c.then = "answer" /\ c.steady = {}
      /\ c.op = "hydratePage" /\ c.pc = "fetch" /\ c.arg = u /\ c.todo = {}
  BY DEF Call, IsCall, CallFields
<1>3. Typed(c) BY <1>2 DEF Typed, Hydrations, Rebuilds, Runs, ApiJob, IsCanonical
<1>4. /\ c.pc \notin Rebuilds \cup Features \cup {"waiting", "writeCounts", "ranked", "pairs"}
      /\ c.op \in {"refresh", "hydrate", "hydratePage"} => c.pc # "answer"
  BY <1>2 DEF Rebuilds, Features
<1> QED BY <1>1, <1>2, <1>3, <1>4, Begins

LEMMA ApplyUrls == \A k \in Key : ApplyUrl(k) \in Posting
BY DEF Key, ApplyUrl

LEMMA HydrateJobPagesKeeps ==
  ASSUME CorpusInv, NEW r \in Request, HydrateJobPages(r), UNCHANGED <<corpus, user>>
  PROVE  CorpusInv'
<1>1. Begin(r, [Call("hydratePages", IF ActiveJobs = {} THEN "answer" ELSE "nextPage", Nil)
                    EXCEPT !.todo = {ApplyUrl(k) : k \in ActiveJobs}])
  BY DEF HydrateJobPages
<1> PICK c : c = [Call("hydratePages", IF ActiveJobs = {} THEN "answer" ELSE "nextPage", Nil)
                    EXCEPT !.todo = {ApplyUrl(k) : k \in ActiveJobs}]
  OBVIOUS
<1>2. /\ IsCall(c) /\ c.then = "answer" /\ c.steady = {}
      /\ c.op = "hydratePages" /\ c.pc \in {"answer", "nextPage"}
      /\ c.todo = {ApplyUrl(k) : k \in ActiveJobs}
  BY DEF Call, IsCall, CallFields
<1>3. Typed(c) BY <1>2, ApplyUrls DEF Typed, ActiveJobs, Rebuilds, Runs, ApiJob, IsCanonical
<1>4. /\ c.pc \notin Rebuilds \cup Features \cup {"waiting", "writeCounts", "ranked", "pairs"}
      /\ c.op \in {"refresh", "hydrate", "hydratePage"} => c.pc # "answer"
  BY <1>2 DEF Rebuilds, Features
<1> QED BY <1>1, <1>2, <1>3, <1>4, Begins

LEMMA OpenJobKeeps ==
  ASSUME CorpusInv, NEW r \in Request, OpenJob(r), UNCHANGED <<corpus, user>>
  PROVE  CorpusInv'
<1>1. PICK j \in ApiJob : Begin(r, [Call("open", IF Resolves(j) THEN "readCounts" ELSE "refused", j)
                                        EXCEPT !.todo = {j}])
  BY DEF OpenJob
<1> PICK c : c = [Call("open", IF Resolves(j) THEN "readCounts" ELSE "refused", j)
                                        EXCEPT !.todo = {j}]
  OBVIOUS
<1>2. /\ IsCall(c) /\ c.then = "answer" /\ c.steady = {}
      /\ c.op = "open" /\ c.pc \in {"readCounts", "refused"} /\ c.todo = {j}
  BY DEF Call, IsCall, CallFields
<1>3. Typed(c) BY <1>2 DEF Typed, Rebuilds, Runs, ApiJob, IsCanonical
<1>4. /\ c.pc \notin Rebuilds \cup Features \cup {"waiting", "writeCounts", "ranked", "pairs"}
      /\ c.op \in {"refresh", "hydrate", "hydratePage"} => c.pc # "answer"
  BY <1>2 DEF Rebuilds, Features
<1> QED BY <1>1, <1>2, <1>3, <1>4, Begins

LEMMA ListJobsPageKeeps ==
  ASSUME CorpusInv, NEW r \in Request, ListJobsPage(r), UNCHANGED <<corpus, user>>
  PROVE  CorpusInv'
<1>1. Begin(r, Call("list", "rank", Nil))
  BY DEF ListJobsPage
<1> PICK c : c = Call("list", "rank", Nil)
  OBVIOUS
<1>2. /\ IsCall(c) /\ c.then = "answer" /\ c.steady = {}
      /\ c.op = "list" /\ c.pc = "rank"
  BY DEF Call, IsCall, CallFields
<1>3. Typed(c) BY <1>2 DEF Typed, Rebuilds, Runs, ApiJob, IsCanonical
<1>4. /\ c.pc \notin Rebuilds \cup Features \cup {"waiting", "writeCounts", "ranked", "pairs"}
      /\ c.op \in {"refresh", "hydrate", "hydratePage"} => c.pc # "answer"
  BY <1>2 DEF Rebuilds, Features
<1> QED BY <1>1, <1>2, <1>3, <1>4, Begins

LEMMA SaveKeeps ==
  ASSUME CorpusInv, NEW r \in Request, Save(r), UNCHANGED <<corpus, user>>
  PROVE  CorpusInv'
<1>1. PICK j \in ApiJob : Begin(r, [Call("save", IF IsRow(saved[j]) \/ ~Resolves(j) THEN "refused"
                                            ELSE IF IsCanonical(j) THEN "mirror" ELSE "insertSaved", j)
                             EXCEPT !.read = j \in mirrors])
  BY DEF Save
<1> PICK c : c = [Call("save", IF IsRow(saved[j]) \/ ~Resolves(j) THEN "refused"
                                            ELSE IF IsCanonical(j) THEN "mirror" ELSE "insertSaved", j)
                             EXCEPT !.read = j \in mirrors]
  OBVIOUS
<1>2. /\ IsCall(c) /\ c.then = "answer" /\ c.steady = {}
      /\ c.op = "save" /\ c.arg = j /\ c.pc \in {"refused", "mirror", "insertSaved"}
      /\ c.pc = "mirror" => IsCanonical(j)
  BY DEF Call, IsCall, CallFields
<1>3. Typed(c) BY <1>2 DEF Typed, Rebuilds, Runs, ApiJob, IsCanonical
<1>4. /\ c.pc \notin Rebuilds \cup Features \cup {"waiting", "writeCounts", "ranked", "pairs"}
      /\ c.op \in {"refresh", "hydrate", "hydratePage"} => c.pc # "answer"
  BY <1>2 DEF Rebuilds, Features
<1> QED BY <1>1, <1>2, <1>3, <1>4, Begins

LEMMA UnsaveKeeps ==
  ASSUME CorpusInv, NEW r \in Request, Unsave(r), UNCHANGED <<corpus, user>>
  PROVE  CorpusInv'
<1>1. PICK j \in ApiJob : Begin(r, [Call("unsave", IF IsRow(saved[j]) THEN "deleteSaved" ELSE "refused", j)
                             EXCEPT !.read = saved[j]])
  BY DEF Unsave
<1> PICK c : c = [Call("unsave", IF IsRow(saved[j]) THEN "deleteSaved" ELSE "refused", j)
                             EXCEPT !.read = saved[j]]
  OBVIOUS
<1>2. /\ IsCall(c) /\ c.then = "answer" /\ c.steady = {}
      /\ c.op = "unsave" /\ c.arg = j /\ c.pc \in {"deleteSaved", "refused"}
  BY DEF Call, IsCall, CallFields
<1>3. Typed(c) BY <1>2 DEF Typed, Rebuilds, Runs, ApiJob, IsCanonical
<1>4. /\ c.pc \notin Rebuilds \cup Features \cup {"waiting", "writeCounts", "ranked", "pairs"}
      /\ c.op \in {"refresh", "hydrate", "hydratePage"} => c.pc # "answer"
  BY <1>2 DEF Rebuilds, Features
<1> QED BY <1>1, <1>2, <1>3, <1>4, Begins

LEMMA AddNoteKeeps ==
  ASSUME CorpusInv, NEW r \in Request, AddNote(r), UNCHANGED <<corpus, user>>
  PROVE  CorpusInv'
<1>1. PICK j \in ApiJob : Begin(r, [Call("note", "insertNote", j) EXCEPT !.read = saved[j]])
  BY DEF AddNote
<1> PICK c : c = [Call("note", "insertNote", j) EXCEPT !.read = saved[j]]
  OBVIOUS
<1>2. /\ IsCall(c) /\ c.then = "answer" /\ c.steady = {}
      /\ c.op = "note" /\ c.arg = j /\ c.pc = "insertNote"
  BY DEF Call, IsCall, CallFields
<1>3. Typed(c) BY <1>2 DEF Typed, Rebuilds, Runs, ApiJob, IsCanonical
<1>4. /\ c.pc \notin Rebuilds \cup Features \cup {"waiting", "writeCounts", "ranked", "pairs"}
      /\ c.op \in {"refresh", "hydrate", "hydratePage"} => c.pc # "answer"
  BY <1>2 DEF Rebuilds, Features
<1> QED BY <1>1, <1>2, <1>3, <1>4, Begins

LEMMA UpdateStatusKeeps ==
  ASSUME CorpusInv, NEW r \in Request, UpdateStatus(r), UNCHANGED <<corpus, user>>
  PROVE  CorpusInv'
<1>1. PICK j \in ApiJob : Begin(r, Call("status", IF IsRow(saved[j]) THEN "rank" ELSE "refused", j))
  BY DEF UpdateStatus
<1> PICK c : c = Call("status", IF IsRow(saved[j]) THEN "rank" ELSE "refused", j)
  OBVIOUS
<1>2. /\ IsCall(c) /\ c.then = "answer" /\ c.steady = {}
      /\ c.op = "status" /\ c.pc \in {"rank", "refused"}
  BY DEF Call, IsCall, CallFields
<1>3. Typed(c) BY <1>2 DEF Typed, Rebuilds, Runs, ApiJob, IsCanonical
<1>4. /\ c.pc \notin Rebuilds \cup Features \cup {"waiting", "writeCounts", "ranked", "pairs"}
      /\ c.op \in {"refresh", "hydrate", "hydratePage"} => c.pc # "answer"
  BY <1>2 DEF Rebuilds, Features
<1> QED BY <1>1, <1>2, <1>3, <1>4, Begins

---------------------------------------------------------------------------
(* Records, and the canonical jobs rebuilt from them *)

LEMMA MovedFacts ==
  ASSUME NEW old, IsCall(old), NEW pc
  PROVE  LET c == [old EXCEPT !.pc = pc] IN
         /\ IsCall(c) /\ c.op = old.op /\ c.pc = pc /\ c.arg = old.arg /\ c.then = old.then
         /\ c.todo = old.todo /\ c.read = old.read /\ c.groups = old.groups
         /\ c.steady = old.steady /\ c.alone = old.alone
BY DEF IsCall, CallFields

LEMMA RowFacts ==
  /\ \A x : IsRecord(x) \/ IsJob(x) => IsRow(x)
  /\ \A x : IsSaved(x) => IsRow(x)
  /\ \A x \in Counters : IsRow(x)
<1>1. DOMAIN None = {"none"} BY DEF None
<1>2. ASSUME NEW x, IsRecord(x) PROVE "url" \in DOMAIN x BY <1>2 DEF IsRecord
<1>3. ASSUME NEW x, IsJob(x) PROVE "text" \in DOMAIN x BY <1>3 DEF IsJob
<1>4. ASSUME NEW x, IsSaved(x) PROVE "by" \in DOMAIN x BY <1>4 DEF IsSaved
<1>5. ASSUME NEW x \in Counters PROVE "open" \in DOMAIN x BY DEF Counters, Interaction
<1> QED BY <1>1, <1>2, <1>3, <1>4, <1>5 DEF IsRow

LEMMA GroupedKeys ==
  ASSUME NEW rs, IsRecords(rs)
  PROVE  /\ Grouped(rs) \subseteq Key
         /\ \A k : Group(rs, k) \subseteq Posting
         /\ \A k : \A p \in Group(rs, k) : IsRow(rs[p]) /\ CanonicalKey(p, rs[p]) = k
BY DEF IsRecords, IsRecord, Grouped, Group, ActiveRecords, CanonicalKey, Key

(* A record comes or changes. *)
LEMMA RecordsUpserted ==
  ASSUME CorpusInv, NEW p \in Posting, NEW u \in Posting, NEW text, UpsertRecord(p, u, text),
         UNCHANGED <<snapshot, canon, links, feature>>
  PROVE  /\ TablesOK'
         /\ \A q \in Posting : IsRow(records[q]) => IsRow(records'[q])
         /\ ActiveJobs' = ActiveJobs
<1> PICK x : x = [url |-> u, text |-> text, active |-> TRUE] OBVIOUS
<1>1. IsRecord(x) BY DEF IsRecord
<1>2. IsRow(x) BY <1>1, RowFacts
<1>3. records' = [records EXCEPT ![p] = x] BY DEF UpsertRecord
<1>4. IsRecords(records) BY DEF CorpusInv, TablesOK
<1>5. IsRecords(records') BY <1>1, <1>3, <1>4 DEF IsRecords
<1>6. \A q \in Posting : IsRow(records[q]) => IsRow(records'[q]) BY <1>2, <1>3, <1>4 DEF IsRecords
<1>7. TablesOK' BY <1>5, <1>6 DEF CorpusInv, TablesOK
<1>8. ActiveJobs' = ActiveJobs BY DEF ActiveJobs
<1> QED BY <1>6, <1>7, <1>8

LEMMA SyncRecordKeeps ==
  ASSUME CorpusInv, NEW r \in Request, SyncRecord(r), UNCHANGED user
  PROVE  CorpusInv'
<1>1. PICK p \in req[r].todo :
        /\ UpsertRecord(p, p, page[p])
        /\ Become(r, [req[r] EXCEPT !.todo = @ \ {p},
                        !.pc = IF req[r].todo = {p} THEN "markMissing" ELSE "syncRecord"])
  BY DEF SyncRecord
<1> PICK c : c = [req[r] EXCEPT !.todo = @ \ {p},
                    !.pc = IF req[r].todo = {p} THEN "markMissing" ELSE "syncRecord"]
  OBVIOUS
<1>2. IsCall(req[r]) /\ Typed(req[r]) /\ Ranks(req[r]) BY Mine
<1>3. /\ IsCall(c) /\ c.op = req[r].op /\ c.pc \in {"markMissing", "syncRecord"}
      /\ c.todo = req[r].todo \ {p} /\ c.then = req[r].then /\ c.steady = req[r].steady
      /\ c.alone = req[r].alone
  BY <1>2 DEF IsCall, CallFields
<1>4. req[r].pc = "syncRecord" BY DEF SyncRecord, At
<1>5. Runs(req[r]) BY <1>4 DEF Runs, Ended
<1>6. p \in Posting BY <1>1, <1>2, <1>4 DEF Typed
<1> PICK text : text = page[p] OBVIOUS
<1>7. /\ TablesOK' /\ ActiveJobs' = ActiveJobs
      /\ \A q \in Posting : IsRow(records[q]) => IsRow(records'[q])
  BY <1>1, <1>6, RecordsUpserted DEF SyncRecord
<1>8. /\ c.then = "answer" /\ c.op \notin {"refresh", "hydrate", "hydratePage"}
      /\ c.steady \subseteq ActiveJobs /\ c.todo \subseteq Posting
  BY <1>2, <1>3, <1>4, <1>5 DEF Typed, Ranks, Features, Hydrations, Rebuilds
<1>9. Held(c)'
  BY <1>3, <1>7, <1>8 DEF Held, Typed, Ranks, Hydrates, Refreshes, Rebuilds
<1>10. feature' = feature BY DEF SyncRecord
<1> QED BY <1>1, <1>3, <1>5, <1>7, <1>9, <1>10, CorpusKeeps

LEMMA MarkMissingRecordsKeeps ==
  ASSUME CorpusInv, NEW r \in Request, MarkMissingRecords(r), UNCHANGED user
  PROVE  CorpusInv'
<1> PICK c : c = [req[r] EXCEPT !.pc = "answer"] OBVIOUS
<1>1. Become(r, c) /\ req[r].pc = "markMissing" BY DEF MarkMissingRecords, Go, At
<1>2. IsCall(req[r]) /\ Typed(req[r]) /\ Ranks(req[r]) BY Mine
<1>3. /\ IsCall(c) /\ c.op = req[r].op /\ c.pc = "answer"
      /\ c.then = req[r].then /\ c.steady = req[r].steady /\ c.alone = req[r].alone
  BY <1>2 DEF IsCall, CallFields
<1>4. Runs(req[r]) BY <1>1 DEF Runs, Ended
<1>5. /\ c.then = "answer" /\ c.op \notin {"refresh", "hydrate", "hydratePage"}
      /\ c.steady \subseteq ActiveJobs
  BY <1>1, <1>2, <1>3, <1>4 DEF Typed, Ranks, Features, Hydrations, Rebuilds
<1>6. IsRecords(records) /\ UNCHANGED <<snapshot, canon, links, feature>>
  BY DEF CorpusInv, TablesOK, MarkMissingRecords
<1>7. ASSUME NEW p \in Posting, IsRow(records[p]) PROVE IsRecord(records'[p])
  <2>1. IsRecord(records[p]) BY <1>6, <1>7 DEF IsRecords
  <2>2. records'[p] = records[p] \/ records'[p] = [records[p] EXCEPT !.active = FALSE]
    BY DEF MarkMissingRecords
  <2> QED BY <2>1, <2>2 DEF IsRecord
<1>8. \A p \in Posting : ~IsRow(records[p]) => records'[p] = records[p]
  BY DEF MarkMissingRecords
<1>9. records' = [p \in Posting |-> records'[p]] BY DEF MarkMissingRecords
<1>10. IsRecords(records') BY <1>7, <1>8, <1>9 DEF IsRecords
<1>11. \A p \in Posting : IsRow(records[p]) => IsRow(records'[p]) BY <1>7, RowFacts
<1>12. TablesOK' BY <1>6, <1>10, <1>11 DEF CorpusInv, TablesOK
<1>13. ActiveJobs' = ActiveJobs BY <1>6 DEF ActiveJobs
<1>14. Held(c)'
  BY <1>3, <1>5, <1>13 DEF Held, Typed, Ranks, Hydrates, Refreshes, Rebuilds
<1> QED BY <1>1, <1>3, <1>4, <1>6, <1>11, <1>12, <1>13, <1>14, CorpusKeeps

LEMMA ListRecordsKeeps ==
  ASSUME CorpusInv, NEW r \in Request, ListRecords(r), UNCHANGED user
  PROVE  CorpusInv'
<1> PICK c : c = AfterGroup([req[r] EXCEPT !.groups = records], Grouped(records)) OBVIOUS
<1>1. Become(r, c) /\ req[r].pc = "listRecords" BY DEF ListRecords, At
<1>2. IsCall(req[r]) /\ Typed(req[r]) /\ Ranks(req[r]) BY Mine
<1>3. /\ IsCall(c) /\ c.op = req[r].op /\ c.todo = Grouped(records) /\ c.groups = records
      /\ c.pc = IF Grouped(records) = {} THEN "pruneLinks" ELSE "upsertJob"
      /\ c.then = req[r].then /\ c.steady = req[r].steady /\ c.alone = req[r].alone
  BY <1>2 DEF IsCall, CallFields, AfterGroup
<1>4. Runs(req[r]) BY <1>1 DEF Runs, Ended
<1>5. c.then = "answer" /\ c.steady = {} /\ c.op \in {"refresh", "hydrate"}
  BY <1>1, <1>2, <1>3, <1>4 DEF Typed, Ranks, Features, Rebuilds
<1>6. IsRecords(records) BY DEF CorpusInv, TablesOK
<1>7. Typed(c) BY <1>3, <1>5, <1>6 DEF Typed, Rebuilds, Hydrations
<1>8. Held(c)
  BY <1>3, <1>5, <1>7 DEF Held, Ranks, Hydrates, Refreshes, Rebuilds, Features
<1>9. UserOK' /\ UNCHANGED <<corpus, events, counts, crossed>>
  BY DEF CorpusInv, UserOK, user, ListRecords
<1> QED BY <1>1, <1>3, <1>4, <1>8, <1>9, Rests

LEMMA UpsertCanonicalJobKeeps ==
  ASSUME CorpusInv, NEW r \in Request, UpsertCanonicalJob(r), UNCHANGED user
  PROVE  CorpusInv'
<1> PICK gs : gs = req[r].groups OBVIOUS
<1>0. PICK k \in req[r].todo :
        /\ \E p \in Group(gs, k) : canon' = [canon EXCEPT ![k] = [text |-> gs[p].text, active |-> TRUE]]
        /\ Become(r, [req[r] EXCEPT !.read = [job |-> k, left |-> Group(gs, k)],
                                    !.pc = "upsertLink"])
  BY DEF UpsertCanonicalJob, PrimaryRecord
<1>1. PICK p \in Group(gs, k) :
        /\ canon' = [canon EXCEPT ![k] = [text |-> gs[p].text, active |-> TRUE]]
        /\ Become(r, [req[r] EXCEPT !.read = [job |-> k, left |-> Group(gs, k)],
                                    !.pc = "upsertLink"])
  BY <1>0
<1> PICK rd : rd = [job |-> k, left |-> Group(gs, k)] OBVIOUS
<1> PICK c : c = [req[r] EXCEPT !.read = rd, !.pc = "upsertLink"] OBVIOUS
<1>2. req[r].pc = "upsertJob" /\ UNCHANGED <<snapshot, records, links, feature>>
  BY DEF UpsertCanonicalJob, At
<1>3. IsCall(req[r]) /\ Typed(req[r]) /\ Ranks(req[r]) /\ Refreshes(req[r]) BY Mine
<1>4. /\ IsCall(c) /\ c.op = req[r].op /\ c.pc = "upsertLink" /\ c.todo = req[r].todo /\ c.groups = gs
      /\ c.read = rd /\ c.then = req[r].then /\ c.steady = req[r].steady /\ c.alone = req[r].alone
  BY <1>3 DEF IsCall, CallFields
<1>5. Runs(req[r]) BY <1>2 DEF Runs, Ended
<1>6. /\ c.then = "answer" /\ c.steady = {} /\ c.op \in {"refresh", "hydrate"}
      /\ IsRecords(gs) /\ c.todo \subseteq Grouped(gs) /\ k \in Grouped(gs)
      /\ \A q \in Posting : IsRow(gs[q]) => IsRow(records[q])
  BY <1>1, <1>2, <1>3, <1>4, <1>5 DEF Typed, Ranks, Features, Rebuilds
<1>7. k \in Key BY <1>6, GroupedKeys
<1> PICK x : x = [text |-> gs[p].text, active |-> TRUE] OBVIOUS
<1>8. IsJob(x) /\ x.active BY DEF IsJob
<1>9. canon = [q \in Key |-> canon[q]] /\ \A q \in Key : IsRow(canon[q]) => IsJob(canon[q])
  BY DEF CorpusInv, TablesOK
<1>10. /\ canon' = [q \in Key |-> canon'[q]] /\ canon'[k] = x
       /\ \A q \in Key \ {k} : canon'[q] = canon[q]
  BY <1>1, <1>7, <1>9
<1>11. TablesOK' BY <1>2, <1>8, <1>9, <1>10 DEF CorpusInv, TablesOK
<1>12. k \in ActiveJobs' /\ ActiveJobs \subseteq ActiveJobs'
  BY <1>7, <1>8, <1>10, RowFacts DEF ActiveJobs
<1>13. Typed(c)' BY <1>2, <1>4, <1>6 DEF Typed, Rebuilds, Hydrations
<1>14. Refreshes(c)'
  <2> SUFFICES ASSUME c.alone, c.op = "refresh" PROVE Refreshes(c)' BY DEF Refreshes
  <2>1. gs = records BY <1>2, <1>3, <1>4 DEF Refreshes, Rebuilds
  <2>2. \A q \in Grouped(records) : (q \in ActiveJobs /\ Linked(q)) \/ q \in c.todo
    BY <1>2, <1>3, <1>4 DEF Refreshes, Rebuilds
  <2>3. \A q : Linked(q)' <=> Linked(q) BY <1>2 DEF Linked, Group, ActiveRecords
  <2>4. Grouped(records)' = Grouped(records) /\ Group(records, k)' = Group(records, k)
    BY <1>2 DEF Grouped, Group, ActiveRecords
  <2> QED BY <1>2, <1>4, <1>12, <2>1, <2>2, <2>3, <2>4 DEF Refreshes, Rebuilds
<1>15. Held(c)' BY <1>4, <1>6, <1>13, <1>14 DEF Held, Ranks, Hydrates, Features
<1> QED BY <1>1, <1>2, <1>4, <1>5, <1>11, <1>12, <1>15, CorpusKeeps

LEMMA UpsertCanonicalLinkKeeps ==
  ASSUME CorpusInv, NEW r \in Request, UpsertCanonicalLink(r), UNCHANGED user
  PROVE  CorpusInv'
<1> PICK gs : gs = req[r].groups OBVIOUS
<1> PICK k : k = req[r].read.job OBVIOUS
<1>1. PICK p \in req[r].read.left :
        /\ links' = [links EXCEPT ![p] = k]
        /\ LET left == req[r].read.left \ {p}
           IN  Become(r, IF left = {} THEN AfterGroup([req[r] EXCEPT !.read = Nil], req[r].todo \ {k})
                         ELSE [req[r] EXCEPT !.read = [job |-> k, left |-> left]])
  BY DEF UpsertCanonicalLink
<1> PICK left : left = req[r].read.left \ {p} OBVIOUS
<1> PICK rd : rd = [job |-> k, left |-> left] OBVIOUS
<1> PICK c : c = IF left = {} THEN AfterGroup([req[r] EXCEPT !.read = Nil], req[r].todo \ {k})
                 ELSE [req[r] EXCEPT !.read = rd]
  OBVIOUS
<1>2. req[r].pc = "upsertLink" /\ UNCHANGED <<snapshot, records, canon, feature>>
  BY DEF UpsertCanonicalLink, At
<1>3. IsCall(req[r]) /\ Typed(req[r]) /\ Ranks(req[r]) /\ Refreshes(req[r]) BY Mine
<1>4. /\ IsCall(c) /\ c.op = req[r].op /\ c.groups = gs /\ c.then = req[r].then
      /\ c.steady = req[r].steady /\ c.alone = req[r].alone
      /\ left = {} => /\ c.pc \in {"pruneLinks", "upsertJob"} /\ c.todo = req[r].todo \ {k}
                      /\ c.pc = "pruneLinks" => c.todo = {}
      /\ left # {} => c.pc = "upsertLink" /\ c.todo = req[r].todo /\ c.read = rd
  BY <1>2, <1>3 DEF IsCall, CallFields, AfterGroup
<1>5. Runs(req[r]) BY <1>2 DEF Runs, Ended
<1>6. /\ c.then = "answer" /\ c.steady = {} /\ c.op \in {"refresh", "hydrate"}
      /\ IsRecords(gs) /\ req[r].todo \subseteq Grouped(gs) /\ k \in Grouped(gs)
      /\ req[r].read.left \subseteq Group(gs, k)
      /\ \A q \in Posting : IsRow(gs[q]) => IsRow(records[q])
  BY <1>2, <1>3, <1>4, <1>5 DEF Typed, Ranks, Features, Rebuilds
<1>7. p \in Posting /\ p \in Group(gs, k) /\ IsRow(records[p]) /\ CanonicalKey(p, gs[p]) = k
  BY <1>1, <1>6, GroupedKeys
<1>8. links = [q \in Posting |-> links[q]] BY DEF CorpusInv, TablesOK
<1>9. /\ links' = [q \in Posting |-> links'[q]] /\ links'[p] = k
      /\ \A q \in Posting \ {p} : links'[q] = links[q]
  BY <1>1, <1>7, <1>8
<1>10. TablesOK' BY <1>2, <1>7, <1>9 DEF CorpusInv, TablesOK
<1>11. ActiveJobs' = ActiveJobs BY <1>2 DEF ActiveJobs
<1>12. c.todo \subseteq Grouped(gs) /\ c.pc \in Rebuilds BY <1>4, <1>6 DEF Rebuilds
<1>13. Typed(c)'
  <2>1. c.pc \in {"pruneLinks", "upsertJob", "upsertLink"} BY <1>4
  <2>2. c.pc = "upsertLink" => /\ c.read.job \in Grouped(gs)
                              /\ c.read.left \subseteq Group(gs, c.read.job)
    BY <1>4, <1>6
  <2> QED BY <1>2, <1>4, <1>6, <1>12, <2>1, <2>2 DEF Typed, Rebuilds, Hydrations
<1>14. Refreshes(c)'
  <2> SUFFICES ASSUME c.alone, c.op = "refresh" PROVE Refreshes(c)' BY DEF Refreshes
  <2>1. gs = records BY <1>2, <1>3, <1>4 DEF Refreshes, Rebuilds
  <2>2. /\ \A q \in Grouped(records) : (q \in ActiveJobs /\ Linked(q)) \/ q \in req[r].todo
        /\ k \in ActiveJobs /\ \A q \in Group(records, k) \ req[r].read.left : links[q] = k
    BY <1>2, <1>3, <1>4 DEF Refreshes, Rebuilds
  <2>3. /\ Grouped(records)' = Grouped(records)
        /\ \A j : Group(records, j)' = Group(records, j)
    BY <1>2 DEF Grouped, Group, ActiveRecords
  <2>4. ASSUME NEW j \in Grouped(records), Linked(j) PROVE Linked(j)'
    <3>1. p \in Group(records, j) => j = k BY <1>6, <1>7, <2>1, GroupedKeys
    <3>2. \A q \in Group(records, j) : q \in Posting BY <1>6, <2>1, GroupedKeys
    <3> QED BY <1>9, <2>3, <2>4, <3>1, <3>2 DEF Linked
  <2>5. \A q \in Group(records, k) \ left : links'[q] = k
    <3>1. Group(records, k) \subseteq Posting BY <1>6, <2>1, GroupedKeys
    <3> QED BY <1>9, <2>2, <3>1
  <2>6. left = {} => Linked(k)' BY <2>3, <2>5 DEF Linked
  <2>7. \A q \in Grouped(records) :
          (q \in ActiveJobs' /\ Linked(q)') \/ (c.pc \in {"upsertJob", "upsertLink"} /\ q \in c.todo)
    BY <1>4, <1>11, <2>2, <2>4, <2>6
  <2>8. c.pc = "upsertLink" =>
          /\ c.read.job \in ActiveJobs'
          /\ \A q \in Group(records, c.read.job) \ c.read.left : links'[q] = c.read.job
    <3>1. rd.job = k /\ rd.left = left OBVIOUS
    <3>2. c.pc = "upsertLink" => c.read = rd BY <1>4
    <3>3. k \in ActiveJobs' BY <1>11, <2>2
    <3> QED BY <2>5, <3>1, <3>2, <3>3
  <2>9. c.pc \notin {"markJobs", "answer"} BY <1>4
  <2> QED BY <1>2, <1>4, <2>1, <2>3, <2>7, <2>8, <2>9 DEF Refreshes
<1>15. Held(c)' BY <1>4, <1>6, <1>12, <1>13, <1>14 DEF Held, Ranks, Hydrates, Features, Rebuilds
<1>16. c.pc \notin {"waiting", "writeCounts"} BY <1>4
<1> QED BY <1>1, <1>2, <1>4, <1>5, <1>10, <1>11, <1>15, <1>16, CorpusKeeps

LEMMA PruneLinksKeeps ==
  ASSUME CorpusInv, NEW r \in Request, PruneLinks(r), UNCHANGED user
  PROVE  CorpusInv'
<1> PICK c : c = [req[r] EXCEPT !.pc = "markJobs"] OBVIOUS
<1>1. /\ Become(r, c) /\ req[r].pc = "pruneLinks"
      /\ UNCHANGED <<snapshot, records, canon, feature>>
      /\ links' = [p \in Posting |-> IF IsRow(records[p]) /\ ~records[p].active THEN Nil ELSE links[p]]
  BY DEF PruneLinks, Go, At
<1>2. IsCall(req[r]) /\ Typed(req[r]) /\ Ranks(req[r]) /\ Refreshes(req[r]) BY Mine
<1>3. /\ IsCall(c) /\ c.op = req[r].op /\ c.pc = "markJobs" /\ c.todo = req[r].todo
      /\ c.groups = req[r].groups /\ c.then = req[r].then /\ c.steady = req[r].steady
      /\ c.alone = req[r].alone
  BY <1>2 DEF IsCall, CallFields
<1>4. Runs(req[r]) BY <1>1 DEF Runs, Ended
<1>5. c.then = "answer" /\ c.steady = {} /\ c.op \in {"refresh", "hydrate"}
  BY <1>1, <1>2, <1>3, <1>4 DEF Typed, Ranks, Features, Rebuilds
<1>6. IsRecords(records) /\ \A p \in Posting : links[p] # Nil => IsRow(records[p])
  BY DEF CorpusInv, TablesOK
<1>7. TablesOK' BY <1>1, <1>6 DEF CorpusInv, TablesOK
<1>8. ActiveJobs' = ActiveJobs BY <1>1 DEF ActiveJobs
<1>9. Typed(c)' BY <1>1, <1>2, <1>3, <1>5 DEF Typed, Rebuilds, Hydrations
<1>10. Refreshes(c)'
  <2> SUFFICES ASSUME c.alone, c.op = "refresh" PROVE Refreshes(c)' BY DEF Refreshes
  <2>1. c.groups = records /\ \A k \in Grouped(records) : k \in ActiveJobs /\ Linked(k)
    BY <1>1, <1>2, <1>3 DEF Refreshes, Rebuilds
  <2>2. /\ Grouped(records)' = Grouped(records) /\ ActiveRecords(records)' = ActiveRecords(records)
        /\ \A k : Group(records, k)' = Group(records, k)
    BY <1>1 DEF Grouped, Group, ActiveRecords
  <2>3. ASSUME NEW p \in ActiveRecords(records) PROVE links'[p] = CanonicalKey(p, records[p])
    <3>1. /\ p \in Posting /\ IsRow(records[p]) /\ records[p].active
          /\ CanonicalKey(p, records[p]) \in Grouped(records)
          /\ p \in Group(records, CanonicalKey(p, records[p]))
      BY DEF ActiveRecords, Grouped, Group
    <3>2. links[p] = CanonicalKey(p, records[p]) BY <2>1, <3>1 DEF Linked
    <3> QED BY <1>1, <3>1, <3>2
  <2>4. ASSUME NEW p \in Posting \ ActiveRecords(records) PROVE links'[p] = Nil
    <3>1. ~IsRow(records[p]) \/ ~records[p].active BY DEF ActiveRecords
    <3> QED BY <1>1, <1>6, <3>1
  <2>5. LinkedAsRecorded' BY <1>1, <2>2, <2>3, <2>4 DEF LinkedAsRecorded, CanonicalKey
  <2>6. \A k \in Grouped(records) : k \in ActiveJobs' /\ Linked(k)'
    <3>1. ASSUME NEW k \in Grouped(records), NEW p \in Group(records, k) PROVE links'[p] = k
      <4>1. p \in ActiveRecords(records) /\ CanonicalKey(p, records[p]) = k BY DEF Group
      <4> QED BY <2>3, <4>1
    <3> QED BY <1>8, <2>1, <2>2, <3>1 DEF Linked
  <2> QED BY <1>1, <1>3, <2>1, <2>2, <2>5, <2>6 DEF Refreshes
<1>11. Held(c)' BY <1>3, <1>5, <1>9, <1>10 DEF Held, Ranks, Hydrates, Features
<1> QED BY <1>1, <1>3, <1>4, <1>7, <1>8, <1>11, CorpusKeeps

(* Jobs become inactive only here, and those who rank are told.             *)
LEMMA MarkMissingJobsKeeps ==
  ASSUME CorpusInv, NEW r \in Request, MarkMissingJobs(r), UNCHANGED user
  PROVE  CorpusInv'
<1> PICK seen : seen = Grouped(req[r].groups) OBVIOUS
<1> PICK c : c = [req[r] EXCEPT !.pc = AfterRefresh(req[r])] OBVIOUS
<1>1. /\ canon' = [k \in Key |-> IF IsRow(canon[k]) /\ k \notin seen
                                 THEN [canon[k] EXCEPT !.active = FALSE] ELSE canon[k]]
      /\ req' = [q \in Request |-> IF q = r THEN Outcome(c)
                                   ELSE [req[q] EXCEPT !.steady = @ \cap seen]]
      /\ req[r].pc = "markJobs"
      /\ UNCHANGED <<snapshot, records, links, feature>>
  BY DEF MarkMissingJobs, At
<1>2. /\ IsCall(req[r]) /\ Typed(req[r]) /\ Ranks(req[r]) /\ Hydrates(req[r]) /\ Refreshes(req[r])
  BY Mine
<1>3. /\ IsCall(c) /\ c.op = req[r].op /\ c.pc = AfterRefresh(req[r]) /\ c.todo = req[r].todo
      /\ c.groups = req[r].groups /\ c.then = req[r].then /\ c.steady = req[r].steady
      /\ c.alone = req[r].alone
  BY <1>2 DEF IsCall, CallFields
<1>4. /\ c.then = "answer" /\ c.steady = {} /\ c.op \in {"refresh", "hydrate"}
      /\ Runs(req[r])
  BY <1>1, <1>2, <1>3 DEF Typed, Ranks, Features, Rebuilds, Runs, Ended
<1>5. c.pc = IF c.op = "hydrate" THEN "rematch" ELSE "answer" BY <1>3 DEF AfterRefresh
<1>6. /\ req' = [q \in Request |-> req'[q]] /\ req'[r] = c
      /\ \A q \in Request \ {r} : req'[q] = [req[q] EXCEPT !.steady = @ \cap seen]
  BY <1>1, <1>5 DEF Outcome, Ended
<1>7. ASSUME NEW q \in Request \ {r}
      PROVE  /\ IsCall(req'[q]) /\ req'[q].op = req[q].op /\ req'[q].pc = req[q].pc
             /\ req'[q].arg = req[q].arg /\ req'[q].then = req[q].then /\ req'[q].todo = req[q].todo
             /\ req'[q].read = req[q].read /\ req'[q].groups = req[q].groups
             /\ req'[q].steady = req[q].steady \cap seen /\ req'[q].alone = req[q].alone
  <2>1. IsCall(req[q]) BY DEF CorpusInv, Knows
  <2> QED BY <1>6, <2>1 DEF IsCall, CallFields
<1>8. /\ canon = [k \in Key |-> canon[k]] /\ \A k \in Key : IsRow(canon[k]) => IsJob(canon[k])
      /\ IsRecords(records)
  BY DEF CorpusInv, TablesOK
<1>9. canon' = [k \in Key |-> canon'[k]] BY <1>1
<1>10. ASSUME NEW k \in Key, IsRow(canon[k])
       PROVE  IsJob(canon'[k]) /\ (canon'[k].active <=> (canon[k].active /\ k \in seen))
  <2>1. canon'[k] = IF k \in seen THEN canon[k] ELSE [canon[k] EXCEPT !.active = FALSE]
    BY <1>1, <1>10
  <2>2. IsJob(canon[k]) BY <1>8, <1>10
  <2> QED BY <2>1, <2>2 DEF IsJob
<1>11. \A k \in Key : ~IsRow(canon[k]) => canon'[k] = canon[k] BY <1>1
<1>12. \A k \in Key : IsRow(canon'[k]) <=> IsRow(canon[k]) BY <1>10, <1>11, RowFacts
<1>13. TablesOK' BY <1>1, <1>9, <1>10, <1>12 DEF CorpusInv, TablesOK
<1>14. ActiveJobs' = ActiveJobs \cap seen BY <1>10, <1>12 DEF ActiveJobs
<1>15. InFlight' = InFlight
  <2>1. Runs(c) BY <1>5 DEF Runs, Ended
  <2>2. \A q \in Request : Runs(req'[q]) <=> Runs(req[q]) BY <1>4, <1>6, <1>7, <2>1 DEF Runs
  <2> QED BY <2>2 DEF InFlight, At, Runs
<1>16. r \in InFlight BY <1>4 DEF InFlight, At, Runs
<1>17. Alone'
  <2>1. \A q \in InFlight : req'[q].alone => req[q].alone BY <1>3, <1>6, <1>7 DEF InFlight
  <2> QED BY <1>15, <2>1 DEF CorpusInv, Alone
<1>18. UserOK' /\ InteractionsCounted' BY DEF CorpusInv, UserOK, InteractionsCounted, user
<1>19. ASSUME NEW q \in Request, NEW j, Records(q, j)' PROVE Records(q, j)
  <2>1. req'[q].pc = "writeCounts" BY <1>19 DEF Records, At
  <2>2. q # r BY <1>5, <1>6, <2>1
  <2> QED BY <1>7, <1>19, <2>2 DEF Records, At
<1>20. Knows(r, req[r])'
  <2>1. Typed(c)' BY <1>4, <1>5 DEF Typed, Rebuilds, Hydrations
  <2>2. Ranks(c)' /\ Hydrates(c)' BY <1>4, <1>5 DEF Ranks, Hydrates, Features
  <2>3. Refreshes(c)'
    <3> SUFFICES ASSUME c.alone, c.op = "refresh" PROVE Refreshes(c)' BY DEF Refreshes
    <3>1. /\ c.groups = records /\ \A k \in Grouped(records) : k \in ActiveJobs /\ Linked(k)
          /\ LinkedAsRecorded
      BY <1>1, <1>2, <1>3 DEF Refreshes, Rebuilds
    <3>2. /\ Grouped(records)' = Grouped(records) /\ ActiveRecords(records)' = ActiveRecords(records)
          /\ \A k : Group(records, k)' = Group(records, k)
      BY <1>1 DEF Grouped, Group, ActiveRecords
    <3>3. ActiveJobs' = Grouped(records) BY <1>3, <1>14, <3>1
    <3>4. LinkedAsRecorded' BY <1>1, <3>1, <3>2 DEF LinkedAsRecorded
    <3>5. \A k \in Grouped(records) : Linked(k)' BY <1>1, <3>1, <3>2 DEF Linked
    <3>6. c.pc = "answer" BY <1>5
    <3> QED BY <3>2, <3>3, <3>4, <3>5, <3>6 DEF Refreshes, Rebuilds
  <2>4. Counted(r, c)' BY <1>5 DEF Counted
  <2> QED BY <1>3, <1>6, <2>1, <2>2, <2>3, <2>4 DEF Knows, Held
<1>21. ASSUME NEW q \in Request \ {r} PROVE Knows(q, req[q])'
  <2> PICK e : e = req[q] OBVIOUS
  <2> PICK d : d = req'[q] OBVIOUS
  <2>1. Typed(e) /\ Ranks(e) /\ Counted(q, e) BY DEF CorpusInv, Knows, Held
  <2>2. /\ IsCall(d) /\ d.op = e.op /\ d.pc = e.pc /\ d.arg = e.arg /\ d.then = e.then
        /\ d.todo = e.todo /\ d.read = e.read /\ d.groups = e.groups
        /\ d.steady = e.steady \cap seen
        /\ d.alone = e.alone
    BY <1>7
  <2>a. d.steady \subseteq e.steady /\ d.steady \subseteq seen /\ (e.steady = {} => d.steady = {})
    BY <2>2
  <2>3. Typed(d)'
    <3>1. Typed(d) BY <2>1, <2>2, <2>a DEF Typed, Runs
    <3> QED BY <1>1, <3>1 DEF Typed
  <2>4. Ranks(d)'
    <3>1. Ranks(d) /\ d.steady \subseteq ActiveJobs' BY <1>14, <2>1, <2>2, <2>a DEF Ranks, Awaits
    <3> QED BY <1>1, <3>1 DEF Ranks, Awaits
  <2>5. Counted(q, d)' BY <1>19, <2>1, <2>2 DEF Counted, user
  <2>6. Runs(d) => ~d.alone
    <3>1. Runs(d) => q \in InFlight BY <2>2 DEF Runs, InFlight, At
    <3> QED BY <1>16, <2>2, <3>1 DEF CorpusInv, Alone
  <2>7. Hydrates(d)' /\ Refreshes(d)'
    BY <2>6 DEF Hydrates, Refreshes, Runs, Features, Rebuilds, Ended
  <2> QED BY <2>2, <2>3, <2>4, <2>5, <2>7 DEF Knows, Held
<1> QED BY <1>6, <1>13, <1>17, <1>18, <1>20, <1>21 DEF CorpusInv

---------------------------------------------------------------------------
(* Pages and features *)

LEMMA FetchPageKeeps ==
  ASSUME CorpusInv, NEW r \in Request, FetchPage(r), UNCHANGED user
  PROVE  CorpusInv'
<1> PICK pc : pc = AfterFetch(req[r], snapshot') OBVIOUS
<1> PICK c : c = [req[r] EXCEPT !.pc = pc] OBVIOUS
<1>1. /\ Become(r, c) /\ req[r].pc = "fetch" /\ UNCHANGED <<records, canon, links, feature>>
      /\ StoreSnapshot(req[r].arg) \/ snapshot' = snapshot
  BY DEF FetchPage, Go, At
<1>2. IsCall(req[r]) /\ Typed(req[r]) /\ Ranks(req[r]) BY Mine
<1>3. /\ IsCall(c) /\ c.op = req[r].op /\ c.pc = pc /\ c.todo = req[r].todo /\ c.arg = req[r].arg
      /\ c.then = req[r].then /\ c.steady = req[r].steady /\ c.alone = req[r].alone
  BY <1>2 DEF IsCall, CallFields
<1>4. Runs(req[r]) BY <1>1 DEF Runs, Ended
<1>5. /\ c.then = "answer" /\ c.op \in {"hydrate", "hydratePage", "hydratePages"} /\ c.arg \in Posting
      /\ c.steady \subseteq ActiveJobs /\ (c.op # "hydratePages" => c.steady = {})
  BY <1>1, <1>2, <1>3, <1>4 DEF Typed, Ranks, Features
<1>6. /\ c.op = "hydrate" => c.pc = "match" \/ (c.pc = "answer" /\ snapshot'[c.arg] = 0)
      /\ c.op = "hydratePage" => c.pc = "findJobs"
      /\ c.op = "hydratePages" => c.pc = "nextPage"
  BY <1>3, <1>5 DEF AfterFetch
<1>7. snapshot = [p \in Posting |-> snapshot[p]] BY DEF CorpusInv, TablesOK
<1>8. snapshot' = [p \in Posting |-> snapshot'[p]] BY <1>1, <1>7 DEF StoreSnapshot
<1>9. TablesOK' BY <1>1, <1>8 DEF CorpusInv, TablesOK
<1>10. ActiveJobs' = ActiveJobs BY <1>1 DEF ActiveJobs
<1>11. c.todo \subseteq Posting BY <1>1, <1>2, <1>3 DEF Typed
<1>12. c.pc \in {"match", "findJobs", "nextPage"} \/ (c.pc = "answer" /\ c.op = "hydrate")
  BY <1>5, <1>6
<1>13. Typed(c)' BY <1>5, <1>6, <1>11, <1>12 DEF Typed, Rebuilds, Hydrations
<1>14. Ranks(c)' BY <1>5, <1>10, <1>12 DEF Ranks
<1>15. Hydrates(c)' /\ Refreshes(c)' BY <1>5, <1>6, <1>12 DEF Hydrates, Refreshes, Features, Rebuilds
<1>16. Held(c)' BY <1>13, <1>14, <1>15 DEF Held
<1>17. c.pc \notin {"waiting", "writeCounts"} BY <1>12
<1> QED BY <1>1, <1>3, <1>4, <1>9, <1>10, <1>16, <1>17, CorpusKeeps

(* The features of some jobs are to be computed, among them all active ones *)
(* of the URL.                                                              *)
LEMMA ListedJobs ==
  ASSUME NEW old, IsCall(old), old.then = "answer", old.steady \subseteq ActiveJobs,
         old.op \in {"hydrate", "hydratePage", "hydratePages"},
         old.op # "hydratePages" => old.steady = {},
         NEW jobs, NEW c, c = ToFeatures(old, jobs) \/ c = ListJobs(old, jobs),
         \A k \in ActiveJobs : ApplyUrl(k) = old.arg => k \in jobs
  PROVE  /\ IsCall(c) /\ c.alone = old.alone /\ Held(c)
         /\ c.pc \notin {"waiting", "writeCounts"}
<1> PICK ts : ts = {[job |-> k, text |-> canon[k].text] : k \in jobs \cap ActiveJobs} OBVIOUS
<1>1. CASE jobs = {} /\ c = ToFeatures(old, jobs)
  <2>1. c = [old EXCEPT !.pc = old.then] BY <1>1 DEF ToFeatures
  <2>2. /\ IsCall(c) /\ c.op = old.op /\ c.arg = old.arg /\ c.pc = "answer" /\ c.then = "answer"
        /\ c.steady = old.steady /\ c.alone = old.alone
    BY <2>1 DEF IsCall, CallFields
  <2>3. Typed(c) BY <2>2 DEF Typed, Rebuilds, Hydrations
  <2>4. Ranks(c) BY <2>2 DEF Ranks
  <2>5. Refreshes(c) BY <2>2 DEF Refreshes
  <2>6. Hydrates(c) BY <1>1, <2>2 DEF Hydrates
  <2> QED BY <2>2, <2>3, <2>4, <2>5, <2>6 DEF Held
<1>2. CASE c = ListJobs(old, jobs)
  <2>1. c = [old EXCEPT !.todo = ts, !.pc = IF jobs \cap ActiveJobs = {} THEN "pruneFeatures"
                                            ELSE "buildFeature"]
    BY <1>2 DEF ListJobs
  <2>2. /\ IsCall(c) /\ c.op = old.op /\ c.arg = old.arg /\ c.then = "answer" /\ c.todo = ts
        /\ c.steady = old.steady /\ c.alone = old.alone
        /\ c.pc = IF jobs \cap ActiveJobs = {} THEN "pruneFeatures" ELSE "buildFeature"
    BY <2>1 DEF IsCall, CallFields
  <2>3. \A t \in ts : t.job \in Key /\ t.text = canon[t.job].text BY DEF ActiveJobs
  <2>4. ASSUME NEW k \in jobs \cap ActiveJobs PROVE \E t \in ts : t.job = k
    <3> PICK t : t = [job |-> k, text |-> canon[k].text] OBVIOUS
    <3> QED BY t \in ts, t.job = k
  <2>5. Typed(c) BY <2>2, <2>3 DEF Typed, Rebuilds, Hydrations, Features
  <2>6. Ranks(c) BY <2>2 DEF Ranks
  <2>7. Refreshes(c) BY <2>2 DEF Refreshes
  <2>8. Hydrates(c)
    <3>1. \A k \in ActiveJobs : ApplyUrl(k) = c.arg => Awaits(c, k) BY <2>2, <2>4 DEF Awaits
    <3> QED BY <2>2, <2>3, <3>1 DEF Hydrates
  <2> QED BY <2>2, <2>5, <2>6, <2>7, <2>8 DEF Held
<1> QED BY <1>1, <1>2 DEF ToFeatures

LEMMA MatchKeeps ==
  ASSUME CorpusInv, NEW r \in Request, Match(r), UNCHANGED user
  PROVE  CorpusInv'
<1> PICK u : u = req[r].arg OBVIOUS
<1> PICK c : c = IF MatchedRecords(u) = {}
                 THEN [req[r] EXCEPT !.pc = "bootstrap", !.todo = MatchedLegacyJobs(u)]
                 ELSE ToFeatures(req[r], MatchedJobs(u))
  OBVIOUS
<1>1. Become(r, c) /\ req[r].pc = "match" /\ UNCHANGED corpus BY DEF Match, At
<1>2. IsCall(req[r]) /\ Typed(req[r]) /\ Ranks(req[r]) BY Mine
<1>3. Runs(req[r]) BY <1>1 DEF Runs, Ended
<1>4. /\ req[r].then = "answer" /\ req[r].op = "hydrate" /\ u \in Posting /\ req[r].steady = {}
  BY <1>1, <1>2, <1>3 DEF Typed, Ranks, Features, Rebuilds
<1>5. UserOK' /\ UNCHANGED <<events, counts, crossed>> BY DEF CorpusInv, UserOK, user
<1>6. CASE MatchedRecords(u) = {}
  <2>1. /\ IsCall(c) /\ c.op = "hydrate" /\ c.pc = "bootstrap" /\ c.todo = MatchedLegacyJobs(u)
        /\ c.arg = u /\ c.then = "answer" /\ c.steady = {} /\ c.alone = req[r].alone
    BY <1>2, <1>4, <1>6 DEF IsCall, CallFields
  <2>2. Typed(c) BY <1>4, <2>1 DEF Typed, Rebuilds, Hydrations, MatchedLegacyJobs
  <2>3. Held(c) BY <2>1, <2>2 DEF Held, Ranks, Hydrates, Refreshes, Features
  <2> QED BY <1>1, <1>3, <1>5, <2>1, <2>3, Rests
<1>7. CASE MatchedRecords(u) # {}
  <2>1. \A k \in ActiveJobs : ApplyUrl(k) = u => k \in MatchedJobs(u) BY DEF MatchedJobs
  <2> PICK jobs : jobs = MatchedJobs(u) OBVIOUS
  <2>2. c = ToFeatures(req[r], jobs) BY <1>7
  <2>3. IsCall(c) /\ c.alone = req[r].alone /\ Held(c) /\ c.pc \notin {"waiting", "writeCounts"}
    BY <1>2, <1>4, <2>1, <2>2, ListedJobs
  <2> QED BY <1>1, <1>3, <1>5, <2>3, Rests
<1> QED BY <1>6, <1>7

LEMMA RematchKeeps ==
  ASSUME CorpusInv, NEW r \in Request, Rematch(r), UNCHANGED user
  PROVE  CorpusInv'
<1> PICK u : u = req[r].arg OBVIOUS
<1> PICK jobs : jobs = MatchedJobs(u) OBVIOUS
<1> PICK c : c = ToFeatures(req[r], jobs) OBVIOUS
<1>1. Become(r, c) /\ req[r].pc = "rematch" /\ UNCHANGED corpus BY DEF Rematch, At
<1>2. IsCall(req[r]) /\ Typed(req[r]) /\ Ranks(req[r]) BY Mine
<1>3. Runs(req[r]) BY <1>1 DEF Runs, Ended
<1>4. /\ req[r].then = "answer" /\ req[r].op \in {"hydrate", "hydratePage", "hydratePages"}
      /\ req[r].steady \subseteq ActiveJobs /\ (req[r].op # "hydratePages" => req[r].steady = {})
  BY <1>1, <1>2, <1>3 DEF Typed, Ranks, Features
<1>5. UserOK' /\ UNCHANGED <<events, counts, crossed>> BY DEF CorpusInv, UserOK, user
<1>6. \A k \in ActiveJobs : ApplyUrl(k) = u => k \in jobs BY DEF MatchedJobs
<1>7. IsCall(c) /\ c.alone = req[r].alone /\ Held(c) /\ c.pc \notin {"waiting", "writeCounts"}
  BY <1>2, <1>4, <1>6, ListedJobs
<1> QED BY <1>1, <1>3, <1>5, <1>7, Rests

LEMMA FindJobsKeeps ==
  ASSUME CorpusInv, NEW r \in Request, FindJobs(r), UNCHANGED user
  PROVE  CorpusInv'
<1> PICK jobs : jobs = {k \in Key : IsRow(canon[k]) /\ ApplyUrl(k) = req[r].arg} OBVIOUS
<1> PICK c : c = ToFeatures(req[r], jobs) OBVIOUS
<1>1. Become(r, c) /\ req[r].pc = "findJobs" /\ UNCHANGED corpus BY DEF FindJobs, At
<1>2. IsCall(req[r]) /\ Typed(req[r]) /\ Ranks(req[r]) BY Mine
<1>3. Runs(req[r]) BY <1>1 DEF Runs, Ended
<1>4. /\ req[r].then = "answer" /\ req[r].op \in {"hydrate", "hydratePage", "hydratePages"}
      /\ req[r].steady \subseteq ActiveJobs /\ (req[r].op # "hydratePages" => req[r].steady = {})
  BY <1>1, <1>2, <1>3 DEF Typed, Ranks, Features
<1>5. UserOK' /\ UNCHANGED <<events, counts, crossed>> BY DEF CorpusInv, UserOK, user
<1>6. \A k \in ActiveJobs : ApplyUrl(k) = req[r].arg => k \in jobs BY DEF ActiveJobs
<1>7. IsCall(c) /\ c.alone = req[r].alone /\ Held(c) /\ c.pc \notin {"waiting", "writeCounts"}
  BY <1>2, <1>4, <1>6, ListedJobs
<1> QED BY <1>1, <1>3, <1>5, <1>7, Rests

LEMMA NextPageKeeps ==
  ASSUME CorpusInv, NEW r \in Request, NextPage(r), UNCHANGED user
  PROVE  CorpusInv'
<1>1. req[r].pc = "nextPage" /\ UNCHANGED corpus BY DEF NextPage, At
<1>2. IsCall(req[r]) /\ Typed(req[r]) /\ Ranks(req[r]) BY Mine
<1>3. Runs(req[r]) BY <1>1 DEF Runs, Ended
<1>4. /\ req[r].then = "answer" /\ req[r].op = "hydratePages" /\ req[r].steady \subseteq ActiveJobs
      /\ req[r].todo \subseteq Posting
  BY <1>1, <1>2, <1>3 DEF Typed, Ranks, Features
<1>5. UserOK' /\ UNCHANGED <<events, counts, crossed>> BY DEF CorpusInv, UserOK, user
<1>6. CASE req[r].todo = {}
  <2> PICK jobs : jobs = ActiveJobs OBVIOUS
  <2> PICK c : c = ListJobs(req[r], jobs) OBVIOUS
  <2>1. Become(r, c) BY <1>6 DEF NextPage
  <2>2. IsCall(c) /\ c.alone = req[r].alone /\ Held(c) /\ c.pc \notin {"waiting", "writeCounts"}
    BY <1>2, <1>4, ListedJobs
  <2> QED BY <1>1, <1>3, <1>5, <2>1, <2>2, Rests
<1>7. CASE req[r].todo # {}
  <2>1. PICK u \in req[r].todo : Become(r, [req[r] EXCEPT !.arg = u, !.todo = @ \ {u}, !.pc = "fetch"])
    BY <1>7 DEF NextPage
  <2> PICK c : c = [req[r] EXCEPT !.arg = u, !.todo = @ \ {u}, !.pc = "fetch"] OBVIOUS
  <2>2. /\ IsCall(c) /\ c.op = "hydratePages" /\ c.pc = "fetch" /\ c.arg \in Posting
        /\ c.todo \subseteq Posting
        /\ c.then = "answer" /\ c.steady = req[r].steady /\ c.alone = req[r].alone
    BY <1>2, <1>4 DEF IsCall, CallFields
  <2>3. Held(c)
    BY <1>4, <2>2 DEF Held, Typed, Rebuilds, Ranks, Hydrates, Refreshes, Features
  <2> QED BY <1>1, <1>3, <1>5, <2>1, <2>2, <2>3, Rests
<1> QED BY <1>6, <1>7

LEMMA BootstrapRecordKeeps ==
  ASSUME CorpusInv, NEW r \in Request, BootstrapRecord(r), UNCHANGED user
  PROVE  CorpusInv'
<1> PICK u : u = req[r].arg OBVIOUS
<1> PICK text : text = snapshot[u] OBVIOUS
<1>1. PICK p \in req[r].todo :
        /\ UpsertRecord(p, u, text)
        /\ Become(r, [req[r] EXCEPT !.todo = @ \ {p},
                        !.pc = IF req[r].todo = {p} THEN "listRecords" ELSE "bootstrap"])
  BY DEF BootstrapRecord
<1> PICK c : c = [req[r] EXCEPT !.todo = @ \ {p},
                    !.pc = IF req[r].todo = {p} THEN "listRecords" ELSE "bootstrap"]
  OBVIOUS
<1>2. IsCall(req[r]) /\ Typed(req[r]) /\ Ranks(req[r]) BY Mine
<1>3. /\ IsCall(c) /\ c.op = req[r].op /\ c.pc \in {"listRecords", "bootstrap"} /\ c.arg = u
      /\ c.todo = req[r].todo \ {p} /\ c.then = req[r].then /\ c.steady = req[r].steady
      /\ c.alone = req[r].alone
  BY <1>2 DEF IsCall, CallFields
<1>4. req[r].pc = "bootstrap" /\ UNCHANGED <<snapshot, canon, links, feature>>
  BY DEF BootstrapRecord, At
<1>5. Runs(req[r]) BY <1>4 DEF Runs, Ended
<1>6. /\ p \in Posting /\ u \in Posting /\ c.todo \subseteq Posting
      /\ c.then = "answer" /\ c.op = "hydrate" /\ c.steady = {}
  BY <1>1, <1>2, <1>3, <1>4, <1>5 DEF Typed, Ranks, Features, Rebuilds
<1>7. /\ TablesOK' /\ ActiveJobs' = ActiveJobs
      /\ \A q \in Posting : IsRow(records[q]) => IsRow(records'[q])
  BY <1>1, <1>4, <1>6, RecordsUpserted
<1>8. Held(c)'
  BY <1>3, <1>6 DEF Held, Typed, Rebuilds, Hydrations, Ranks, Hydrates, Refreshes, Features
<1>9. c.pc \notin {"waiting", "writeCounts"} BY <1>3
<1> QED BY <1>1, <1>3, <1>4, <1>5, <1>7, <1>8, <1>9, CorpusKeeps

LEMMA BuildFeatureKeeps ==
  ASSUME CorpusInv, NEW r \in Request, BuildFeature(r), UNCHANGED user
  PROVE  CorpusInv'
<1>1. PICK t \in req[r].todo :
        \E u \in IF ContextPages(t.job) = {} THEN {ApplyUrl(t.job)} ELSE ContextPages(t.job) :
          Become(r, [req[r] EXCEPT !.pc = "storeFeature", !.todo = @ \ {t},
                       !.read = [job |-> t.job,
                                 row |-> [text |-> t.text, ctx |-> snapshot[u], page |-> u]]])
  BY DEF BuildFeature
<1>2. PICK u \in IF ContextPages(t.job) = {} THEN {ApplyUrl(t.job)} ELSE ContextPages(t.job) :
        Become(r, [req[r] EXCEPT !.pc = "storeFeature", !.todo = @ \ {t},
                     !.read = [job |-> t.job,
                               row |-> [text |-> t.text, ctx |-> snapshot[u], page |-> u]]])
  BY <1>1
<1> PICK row : row = [text |-> t.text, ctx |-> snapshot[u], page |-> u] OBVIOUS
<1> PICK rd : rd = [job |-> t.job, row |-> row] OBVIOUS
<1> PICK c : c = [req[r] EXCEPT !.pc = "storeFeature", !.todo = @ \ {t}, !.read = rd] OBVIOUS
<1>3. Become(r, c) /\ req[r].pc = "buildFeature" /\ UNCHANGED corpus BY <1>2 DEF BuildFeature, At
<1>4. IsCall(req[r]) /\ Typed(req[r]) /\ Ranks(req[r]) /\ Hydrates(req[r]) BY Mine
<1>5. /\ IsCall(c) /\ c.op = req[r].op /\ c.pc = "storeFeature" /\ c.arg = req[r].arg
      /\ c.todo = req[r].todo \ {t} /\ c.read = rd /\ c.then = req[r].then
      /\ c.steady = req[r].steady /\ c.alone = req[r].alone
  BY <1>4 DEF IsCall, CallFields
<1>6. Runs(req[r]) BY <1>3 DEF Runs, Ended
<1>7. UserOK' /\ UNCHANGED <<events, counts, crossed>> BY DEF CorpusInv, UserOK, user
<1>8. c.op # "refresh" BY <1>3, <1>4, <1>5, <1>6 DEF Typed, Rebuilds
<1>9. /\ t.job \in Key /\ \A s \in c.todo : s.job \in Key
      /\ c.then \in {"answer", "pairs"}
      /\ c.op \in {"hydrate", "hydratePage"} => c.then = "answer" /\ c.steady = {}
  BY <1>3, <1>4, <1>5, <1>6 DEF Typed
<1>10. IsRow(row)
  <2>1. "text" \in DOMAIN row /\ DOMAIN None = {"none"} BY DEF None
  <2> QED BY <2>1 DEF IsRow
<1>11. Typed(c) BY <1>5, <1>8, <1>9, <1>10 DEF Typed, Rebuilds, Hydrations, Features
<1>12. \A k : Awaits(req[r], k) => Awaits(c, k) BY <1>3, <1>5 DEF Awaits
<1>13. Ranks(c) BY <1>3, <1>4, <1>5, <1>12 DEF Ranks, Features
<1>14. Hydrates(c)
  <2> SUFFICES ASSUME c.alone, c.op \in {"hydrate", "hydratePage"}, snapshot[c.arg] # 0
               PROVE  /\ \A s \in c.todo : s.text = canon[s.job].text
                      /\ ApplyUrl(rd.job) = c.arg => row = UpToDate(rd.job)
                      /\ \A k \in ActiveJobs : ApplyUrl(k) = c.arg =>
                                                 feature[k] = UpToDate(k) \/ Awaits(c, k)
    BY <1>5 DEF Hydrates, Features
  <2>1. /\ \A s \in req[r].todo : s.text = canon[s.job].text
        /\ \A k \in ActiveJobs : ApplyUrl(k) = c.arg => feature[k] = UpToDate(k) \/ Awaits(req[r], k)
    BY <1>3, <1>4, <1>5 DEF Hydrates, Features
  <2>2. ASSUME ApplyUrl(t.job) = c.arg PROVE row = UpToDate(t.job)
    <3>1. ContextPages(t.job) = {c.arg} BY <2>2 DEF ContextPages
    <3>2. u = c.arg BY <3>1
    <3>3. t.text = canon[t.job].text BY <1>1, <2>1
    <3> QED BY <2>2, <3>2, <3>3 DEF UpToDate
  <2> QED BY <1>5, <1>12, <2>1, <2>2
<1>15. Refreshes(c) BY <1>8 DEF Refreshes
<1>16. Held(c) BY <1>11, <1>13, <1>14, <1>15 DEF Held
<1> QED BY <1>3, <1>5, <1>6, <1>7, <1>16, Rests

LEMMA StoreFeatureKeeps ==
  ASSUME CorpusInv, NEW r \in Request, StoreFeature(r), UNCHANGED user
  PROVE  CorpusInv'
<1> PICK k : k = req[r].read.job OBVIOUS
<1> PICK row : row = req[r].read.row OBVIOUS
<1> PICK pc : pc = IF req[r].todo = {} THEN "pruneFeatures" ELSE "buildFeature" OBVIOUS
<1> PICK c : c = [req[r] EXCEPT !.read = Nil, !.pc = pc] OBVIOUS
<1>1. /\ Become(r, c) /\ req[r].pc = "storeFeature" /\ UNCHANGED <<snapshot, records, canon, links>>
      /\ feature' = [feature EXCEPT ![k] = row]
  BY DEF StoreFeature, At
<1>2. IsCall(req[r]) /\ Typed(req[r]) /\ Ranks(req[r]) /\ Hydrates(req[r]) BY Mine
<1>3. /\ IsCall(c) /\ c.op = req[r].op /\ c.pc = pc /\ c.arg = req[r].arg
      /\ c.todo = req[r].todo /\ c.then = req[r].then
      /\ c.steady = req[r].steady /\ c.alone = req[r].alone
  BY <1>2 DEF IsCall, CallFields
<1>4. Runs(req[r]) BY <1>1 DEF Runs, Ended
<1>5. /\ k \in Key /\ IsRow(row) /\ \A t \in c.todo : t.job \in Key
      /\ c.then \in {"answer", "pairs"} /\ c.op # "refresh"
      /\ c.op \in {"hydrate", "hydratePage"} => c.then = "answer" /\ c.steady = {}
  BY <1>1, <1>2, <1>3, <1>4 DEF Typed, Rebuilds
<1>6. feature = [q \in Key |-> feature[q]] BY DEF CorpusInv, TablesOK
<1>7. /\ feature' = [q \in Key |-> feature'[q]] /\ feature'[k] = row
      /\ \A q \in Key \ {k} : feature'[q] = feature[q]
  BY <1>1, <1>5, <1>6
<1>8. TablesOK' BY <1>1, <1>7 DEF CorpusInv, TablesOK
<1>9. ActiveJobs' = ActiveJobs /\ ActiveJobs \subseteq Key BY <1>1 DEF ActiveJobs
<1>10. \A q \in Key : IsRow(feature[q]) => IsRow(feature'[q]) BY <1>5, <1>7
<1>11. pc \in {"pruneFeatures", "buildFeature"} /\ (pc = "pruneFeatures" <=> c.todo = {}) BY <1>3
<1>12. Typed(c)' BY <1>3, <1>5, <1>11 DEF Typed, Rebuilds, Hydrations, Features
<1>13. \A q : Awaits(req[r], q) => q = k \/ Awaits(c, q) BY <1>1, <1>3, <1>11 DEF Awaits
<1>14. Ranks(c)'
  <2>1. c.steady \subseteq ActiveJobs' BY <1>2, <1>3, <1>9 DEF Ranks
  <2>2. \A q : Awaits(c, q)' <=> Awaits(c, q) BY DEF Awaits
  <2>3. c.then = "pairs" => \A q \in c.steady : IsRow(feature'[q]) \/ Awaits(c, q)
    <3> SUFFICES ASSUME c.then = "pairs", NEW q \in c.steady
                 PROVE  IsRow(feature'[q]) \/ Awaits(c, q)
      OBVIOUS
    <3>1. IsRow(feature[q]) \/ Awaits(req[r], q) BY <1>2, <1>3 DEF Ranks
    <3> QED BY <1>5, <1>7, <1>9, <1>10, <1>13, <2>1, <3>1
  <2> QED BY <1>3, <1>11, <2>1, <2>2, <2>3 DEF Ranks, Features
<1>15. Hydrates(c)'
  <2> SUFFICES ASSUME c.alone, c.op \in {"hydrate", "hydratePage"}, snapshot[c.arg] # 0
               PROVE  /\ \A t \in c.todo : t.text = canon[t.job].text
                      /\ \A q \in ActiveJobs : ApplyUrl(q) = c.arg =>
                           feature'[q] = UpToDate(q) \/ Awaits(c, q)
    BY <1>1, <1>3, <1>9, <1>11 DEF Hydrates, UpToDate, Awaits
  <2>1. /\ \A t \in req[r].todo : t.text = canon[t.job].text
        /\ ApplyUrl(k) = c.arg => row = UpToDate(k)
        /\ \A q \in ActiveJobs : ApplyUrl(q) = c.arg => feature[q] = UpToDate(q) \/ Awaits(req[r], q)
    BY <1>1, <1>2, <1>3 DEF Hydrates, Features
  <2>2. ASSUME NEW q \in ActiveJobs, ApplyUrl(q) = c.arg PROVE feature'[q] = UpToDate(q) \/ Awaits(c, q)
    <3>1. CASE q = k BY <1>7, <2>1, <2>2, <3>1
    <3>2. CASE q # k BY <1>7, <1>9, <1>13, <2>1, <2>2, <3>2
    <3> QED BY <3>1, <3>2
  <2> QED BY <1>3, <2>1, <2>2
<1>16. Refreshes(c)' BY <1>5 DEF Refreshes
<1>17. Held(c)' BY <1>12, <1>14, <1>15, <1>16 DEF Held
<1>18. c.pc \notin {"waiting", "writeCounts"} BY <1>3, <1>11
<1> QED BY <1>1, <1>3, <1>4, <1>8, <1>9, <1>10, <1>17, <1>18, CorpusKeeps

LEMMA PruneFeaturesKeeps ==
  ASSUME CorpusInv, NEW r \in Request, PruneFeatures(r), UNCHANGED user
  PROVE  CorpusInv'
<1> PICK pc : pc = req[r].then OBVIOUS
<1> PICK c : c = [req[r] EXCEPT !.pc = pc] OBVIOUS
<1>1. /\ Become(r, c) /\ req[r].pc = "pruneFeatures" /\ UNCHANGED <<snapshot, records, canon, links>>
      /\ feature' = [k \in Key |-> IF IsRow(canon[k]) /\ ~canon[k].active THEN None ELSE feature[k]]
  BY DEF PruneFeatures, Go, At
<1>2. IsCall(req[r]) /\ Typed(req[r]) /\ Ranks(req[r]) /\ Hydrates(req[r]) BY Mine
<1>3. /\ IsCall(c) /\ c.op = req[r].op /\ c.pc = pc /\ c.arg = req[r].arg /\ c.then = pc
      /\ c.steady = req[r].steady /\ c.alone = req[r].alone
  BY <1>2 DEF IsCall, CallFields
<1>4. Runs(req[r]) BY <1>1 DEF Runs, Ended
<1>5. /\ pc \in {"answer", "pairs"} /\ c.op # "refresh"
      /\ c.op \in {"hydrate", "hydratePage"} => pc = "answer" /\ c.steady = {}
  BY <1>1, <1>2, <1>3, <1>4 DEF Typed, Rebuilds
<1>6. TablesOK' BY <1>1 DEF CorpusInv, TablesOK
<1>7. ActiveJobs' = ActiveJobs BY <1>1 DEF ActiveJobs
<1>8. \A k \in ActiveJobs : feature'[k] = feature[k] BY <1>1 DEF ActiveJobs
<1>9. \A k : ~Awaits(req[r], k) BY <1>1 DEF Awaits
<1>10. Typed(c)' BY <1>3, <1>5 DEF Typed, Rebuilds, Hydrations
<1>11. Ranks(c)'
  <2>1. c.steady \subseteq ActiveJobs BY <1>2, <1>3 DEF Ranks
  <2>2. pc = "pairs" => \A k \in c.steady : IsRow(feature[k]) BY <1>2, <1>3, <1>9 DEF Ranks
  <2> QED BY <1>3, <1>5, <1>7, <1>8, <2>1, <2>2 DEF Ranks
<1>12. Hydrates(c)'
  <2> SUFFICES ASSUME c.alone, c.op \in {"hydrate", "hydratePage"}, snapshot[c.arg] # 0
               PROVE  \A k \in ActiveJobs : ApplyUrl(k) = c.arg => feature'[k] = UpToDate(k)
    BY <1>1, <1>3, <1>5, <1>7 DEF Hydrates, UpToDate, Features
  <2>1. \A k \in ActiveJobs : ApplyUrl(k) = c.arg => feature[k] = UpToDate(k)
    BY <1>1, <1>2, <1>3, <1>9 DEF Hydrates, Features
  <2> QED BY <1>8, <2>1
<1>13. Refreshes(c)' BY <1>5 DEF Refreshes
<1>14. Held(c)' BY <1>10, <1>11, <1>12, <1>13 DEF Held
<1>15. c.pc \notin {"waiting", "writeCounts"} BY <1>3, <1>5
<1> QED BY <1>1, <1>3, <1>4, <1>6, <1>7, <1>8, <1>14, <1>15, CorpusKeeps

---------------------------------------------------------------------------
(* Rankings *)

LEMMA ReadProfileKeeps ==
  ASSUME CorpusInv, NEW r \in Request, ReadProfile(r), UNCHANGED user
  PROVE  CorpusInv'
<1> PICK all : all = RanksCorpus(req[r]) OBVIOUS
<1> PICK steady : steady = IF all THEN ActiveJobs ELSE {} OBVIOUS
<1> PICK c : c = IF all \/ RanksCrawled(req[r])
                 THEN [req[r] EXCEPT !.pc = "storeProfile", !.read = profile,
                                     !.groups = all, !.steady = steady]
                 ELSE [req[r] EXCEPT !.pc = "ranked", !.read = Nil]
  OBVIOUS
<1>1. Become(r, c) /\ req[r].pc = "rank" /\ UNCHANGED corpus BY DEF ReadProfile, At
<1>2. IsCall(req[r]) /\ Typed(req[r]) /\ Ranks(req[r]) BY Mine
<1>3. /\ IsCall(c) /\ c.op = req[r].op /\ c.pc \in {"storeProfile", "ranked"} /\ c.then = req[r].then
      /\ c.pc = "ranked" => c.read = Nil
      /\ c.steady = req[r].steady \/ c.steady = steady
      /\ c.alone = req[r].alone
  BY <1>2 DEF IsCall, CallFields
<1>4. Runs(req[r]) BY <1>1 DEF Runs, Ended
<1>5. /\ c.then = "answer" /\ c.steady \subseteq ActiveJobs
      /\ c.op \notin {"refresh", "hydrate", "hydratePage"}
  BY <1>1, <1>2, <1>3, <1>4 DEF Typed, Ranks, Features, Rebuilds, Hydrations
<1>6. UserOK' /\ UNCHANGED <<events, counts, crossed>> BY DEF CorpusInv, UserOK, user
<1>7. Held(c) BY <1>3, <1>5 DEF Held, Typed, Rebuilds, Ranks, Hydrates, Refreshes
<1>8. c.pc \notin {"waiting", "writeCounts"} BY <1>3
<1> QED BY <1>1, <1>3, <1>4, <1>6, <1>7, <1>8, Rests

LEMMA StoreProfileKeeps ==
  ASSUME CorpusInv, NEW r \in Request, StoreProfile(r), UNCHANGED user
  PROVE  CorpusInv'
<1> PICK c : \/ c = [req[r] EXCEPT !.pc = "raised"]
             \/ c = [req[r] EXCEPT !.pc = "missing"]
             \/ c = [req[r] EXCEPT !.pc = "ranked", !.read = Nil]
           /\ Become(r, c)
  <2>1. CASE ~req[r].read /\ profile BY <2>1 DEF StoreProfile, Go
  <2>2. CASE ~(~req[r].read /\ profile) BY <2>2 DEF StoreProfile
  <2> QED BY <2>1, <2>2
<1>1. Become(r, c) /\ req[r].pc = "storeProfile" /\ UNCHANGED corpus BY DEF StoreProfile, At
<1>2. IsCall(req[r]) /\ Typed(req[r]) /\ Ranks(req[r]) BY Mine
<1>3. /\ IsCall(c) /\ c.op = req[r].op /\ c.pc \in {"raised", "missing", "ranked"}
      /\ c.then = req[r].then /\ (c.pc = "ranked" => c.read = Nil)
      /\ c.steady = req[r].steady /\ c.alone = req[r].alone
  BY <1>2 DEF IsCall, CallFields
<1>4. Runs(req[r]) BY <1>1 DEF Runs, Ended
<1>5. /\ c.then = "answer" /\ c.steady \subseteq ActiveJobs
      /\ c.op \notin {"refresh", "hydrate", "hydratePage"}
  BY <1>1, <1>2, <1>3, <1>4 DEF Typed, Ranks, Features, Rebuilds, Hydrations
<1>6. UserOK' /\ UNCHANGED <<events, counts, crossed>> BY DEF CorpusInv, UserOK, user
<1>7. Held(c) BY <1>3, <1>5 DEF Held, Typed, Rebuilds, Ranks, Hydrates, Refreshes
<1>8. c.pc \notin {"waiting", "writeCounts"} BY <1>3
<1> QED BY <1>1, <1>3, <1>4, <1>6, <1>7, <1>8, Rests

LEMMA EnsureFeaturesKeeps ==
  ASSUME CorpusInv, NEW r \in Request, EnsureFeatures(r), UNCHANGED user
  PROVE  CorpusInv'
<1>1. req[r].pc = "missing" /\ UNCHANGED corpus BY DEF EnsureFeatures, At
<1>2. IsCall(req[r]) /\ Typed(req[r]) /\ Ranks(req[r]) BY Mine
<1>3. Runs(req[r]) BY <1>1 DEF Runs, Ended
<1>4. /\ req[r].then = "answer" /\ req[r].steady \subseteq ActiveJobs
      /\ req[r].op \notin {"refresh", "hydrate", "hydratePage"}
  BY <1>1, <1>2, <1>3 DEF Typed, Ranks, Features, Rebuilds, Hydrations
<1>5. UserOK' /\ UNCHANGED <<events, counts, crossed>> BY DEF CorpusInv, UserOK, user
<1>6. CASE MissingFeatures = {}
  <2> PICK c : c = [req[r] EXCEPT !.pc = "pairs"] OBVIOUS
  <2>1. Become(r, c) BY <1>6 DEF EnsureFeatures
  <2>2. /\ IsCall(c) /\ c.op = req[r].op /\ c.pc = "pairs" /\ c.then = "answer"
        /\ c.steady = req[r].steady /\ c.alone = req[r].alone
    BY <1>2, <1>4 DEF IsCall, CallFields
  <2>3. \A k \in ActiveJobs : IsRow(feature[k]) BY <1>6 DEF MissingFeatures
  <2>4. Held(c) BY <1>4, <2>2, <2>3 DEF Held, Typed, Rebuilds, Ranks, Hydrates, Refreshes
  <2> QED BY <1>1, <1>3, <1>5, <2>1, <2>2, <2>4, Rests
<1>7. CASE MissingFeatures # {}
  <2> PICK jobs : jobs = MissingFeatures OBVIOUS
  <2> PICK ts : ts = {[job |-> k, text |-> canon[k].text] : k \in jobs} OBVIOUS
  <2> PICK c : c = [ToFeatures(req[r], jobs) EXCEPT !.then = "pairs"] OBVIOUS
  <2>1. Become(r, c) BY <1>7 DEF EnsureFeatures
  <2>2. jobs \cap ActiveJobs = jobs BY DEF MissingFeatures
  <2>3. ToFeatures(req[r], jobs) = [req[r] EXCEPT !.todo = ts, !.pc = "buildFeature"]
    BY <1>7, <2>2 DEF ToFeatures, ListJobs
  <2>4. /\ IsCall(c) /\ c.op = req[r].op /\ c.pc = "buildFeature" /\ c.then = "pairs" /\ c.todo = ts
        /\ c.steady = req[r].steady /\ c.alone = req[r].alone
    BY <1>2, <2>3 DEF IsCall, CallFields
  <2>5. \A t \in ts : t.job \in Key BY DEF MissingFeatures, ActiveJobs
  <2>6. ASSUME NEW k \in jobs PROVE Awaits(c, k)
    <3> PICK t : t = [job |-> k, text |-> canon[k].text] OBVIOUS
    <3>1. t \in ts /\ t.job = k OBVIOUS
    <3> QED BY <2>4, <3>1 DEF Awaits
  <2>7. \A k \in ActiveJobs : IsRow(feature[k]) \/ Awaits(c, k) BY <2>6 DEF MissingFeatures
  <2>8. Held(c)
    BY <1>4, <2>4, <2>5, <2>7 DEF Held, Typed, Rebuilds, Ranks, Hydrates, Refreshes, Features
  <2> QED BY <1>1, <1>3, <1>5, <2>1, <2>4, <2>8, Rests
<1> QED BY <1>6, <1>7

LEMMA ReadPairsKeeps ==
  ASSUME CorpusInv, NEW r \in Request, ReadPairs(r), UNCHANGED user
  PROVE  CorpusInv'
<1> PICK jobs : jobs = {k \in ActiveJobs : IsRow(feature[k])} OBVIOUS
<1> PICK c : c = [req[r] EXCEPT !.pc = "ranked", !.then = "answer", !.read = jobs] OBVIOUS
<1>1. Become(r, c) /\ req[r].pc = "pairs" /\ UNCHANGED corpus BY DEF ReadPairs, At
<1>2. IsCall(req[r]) /\ Typed(req[r]) /\ Ranks(req[r]) BY Mine
<1>3. /\ IsCall(c) /\ c.op = req[r].op /\ c.pc = "ranked" /\ c.then = "answer" /\ c.read = jobs
      /\ c.steady = req[r].steady /\ c.alone = req[r].alone
  BY <1>2 DEF IsCall, CallFields
<1>4. Runs(req[r]) BY <1>1 DEF Runs, Ended
<1>5. c.op \notin {"refresh", "hydrate", "hydratePage"}
  BY <1>1, <1>2, <1>3, <1>4 DEF Typed, Rebuilds, Hydrations, Features
<1>6. \A k : ~Awaits(req[r], k) BY <1>1 DEF Awaits
<1>7. c.steady \subseteq jobs BY <1>1, <1>2, <1>3, <1>6 DEF Ranks
<1>8. jobs \subseteq ActiveJobs /\ jobs \subseteq Key BY DEF ActiveJobs
<1>9. UserOK' /\ UNCHANGED <<events, counts, crossed>> BY DEF CorpusInv, UserOK, user
<1>10. Held(c) BY <1>3, <1>5, <1>7, <1>8 DEF Held, Typed, Rebuilds, Ranks, Hydrates, Refreshes
<1> QED BY <1>1, <1>3, <1>4, <1>9, <1>10, Rests

LEMMA AnswerKeeps ==
  ASSUME CorpusInv, NEW r \in Request, Answer(r), UNCHANGED user
  PROVE  CorpusInv'
<1> PICK c : c = [req[r] EXCEPT !.pc = "done"] OBVIOUS
<1>1. Become(r, c) /\ req[r].pc = "answer" /\ UNCHANGED corpus BY DEF Answer, Go, At
<1>2. IsCall(req[r]) BY Mine
<1>3. IsCall(c) /\ c.pc = "done" BY <1>2 DEF IsCall, CallFields
<1>4. Runs(req[r]) /\ ~Runs(c) BY <1>1, <1>3 DEF Runs, Ended
<1>5. UserOK' /\ UNCHANGED <<events, counts, crossed>> BY DEF CorpusInv, UserOK, user
<1> QED BY <1>1, <1>3, <1>4, <1>5, Rests

---------------------------------------------------------------------------
(* Counters *)

LEMMA ReadCountsKeeps ==
  ASSUME CorpusInv, NEW r \in Request, ReadCounts(r)
  PROVE  CorpusInv'
<1>1. PICK j \in req[r].todo :
        /\ Become(r, [req[r] EXCEPT !.arg = j, !.read = counts[j], !.pc = "writeCounts"])
        /\ crossed' = IF \E q \in Request \ {r} : At(q, "writeCounts") /\ req[q].arg = j
                      THEN crossed \cup {j} ELSE crossed
  BY DEF ReadCounts
<1> PICK read : read = counts[j] OBVIOUS
<1> PICK c : c = [req[r] EXCEPT !.arg = j, !.read = read, !.pc = "writeCounts"] OBVIOUS
<1>2. /\ req[r].pc = "readCounts"
      /\ UNCHANGED <<page, snapshot, records, canon, links, feature, mirrors, saved, events, counts>>
  BY DEF ReadCounts, At, corpus
<1>3. IsCall(req[r]) /\ Typed(req[r]) /\ Ranks(req[r]) BY Mine
<1>4. /\ IsCall(c) /\ c.op = req[r].op /\ c.pc = "writeCounts" /\ c.arg = j /\ c.read = read
      /\ c.todo = req[r].todo /\ c.then = req[r].then /\ c.steady = req[r].steady
      /\ c.alone = req[r].alone
  BY <1>3 DEF IsCall, CallFields
<1>5. Runs(req[r]) BY <1>2 DEF Runs, Ended
<1>6. /\ c.todo \subseteq ApiJob /\ j \in ApiJob /\ c.op \in {"list", "open", "save"}
      /\ c.then = "answer" /\ c.steady \subseteq ActiveJobs
  BY <1>1, <1>2, <1>3, <1>4 DEF Typed, Ranks, Features
<1>7. counts \in [ApiJob -> Counters \cup {None}] BY DEF CorpusInv, UserOK
<1>8. TablesOK' /\ UserOK' BY <1>2 DEF CorpusInv, TablesOK, UserOK
<1>9. crossed \subseteq crossed' BY <1>1
<1>10. InteractionsCounted' BY <1>2, <1>9 DEF CorpusInv, InteractionsCounted
<1>11. ActiveJobs' = ActiveJobs BY <1>2 DEF ActiveJobs
<1>12. /\ req' = [q \in Request |-> req'[q]] /\ req'[r] = c
       /\ \A q \in Request \ {r} : req'[q] = req[q]
  <2>1. c.pc \notin Ended BY <1>4 DEF Ended
  <2> QED BY <1>1, <1>4, <2>1, BecomeReq
<1>13. j \notin crossed' => \A q \in Request \ {r} : ~Records(q, j) BY <1>1 DEF Records
<1>14. ASSUME NEW q \in Request \ {r} PROVE Counted(q, req[q])'
  <2> PICK d : d = req[q] OBVIOUS
  <2> SUFFICES ASSUME d.pc = "writeCounts" PROVE Counted(q, d)' BY <1>12 DEF Counted
  <2>1. Counted(q, d) BY Mine
  <2>2. Records(q, d.arg) BY DEF Records, At
  <2>3. ASSUME d.arg \notin crossed', NEW s \in Request \ {q} PROVE ~Records(s, d.arg)'
    <3>1. CASE s = r
      <4>1. d.arg # j BY <1>13, <2>2, <2>3
      <4> QED BY <1>4, <1>12, <3>1, <4>1 DEF Records
    <3>2. CASE s # r
      <4>1. ~Records(s, d.arg) BY <1>9, <2>1, <2>3 DEF Counted
      <4> QED BY <1>12, <3>2, <4>1 DEF Records, At
    <3> QED BY <3>1, <3>2
  <2> QED BY <1>2, <1>9, <2>1, <2>3 DEF Counted
<1>15. Counted(r, c)'
  <2>1. \A i \in Interaction : OrZero(read)[i] <= events[j][i]
    BY <1>6 DEF CorpusInv, InteractionsCounted, OrZero
  <2>2. \A q \in Request \ {r} : Records(q, j)' => Records(q, j) BY <1>12 DEF Records, At
  <2> QED BY <1>2, <1>4, <1>13, <2>1, <2>2 DEF Counted
<1>16. Held(c)'
  <2>1. Typed(c)'
    <3>1. c.read \in Counters \cup {None} /\ c.arg \in c.todo BY <1>1, <1>4, <1>6, <1>7
    <3> QED BY <1>4, <1>6, <3>1 DEF Typed, Rebuilds
  <2> QED BY <1>4, <1>6, <1>11, <2>1 DEF Held, Ranks, Hydrates, Refreshes, Features, Rebuilds
<1>17. Knows(r, c)' BY <1>4, <1>15, <1>16 DEF Knows
<1> QED BY <1>1, <1>2, <1>4, <1>5, <1>8, <1>10, <1>11, <1>14, <1>17, Keeps

LEMMA WriteCountsKeeps ==
  ASSUME CorpusInv, NEW r \in Request, WriteCounts(r)
  PROVE  CorpusInv'
<1> PICK j : j = req[r].arg OBVIOUS
<1> PICK old : old = OrZero(req[r].read) OBVIOUS
<1>1. /\ req[r].pc = "writeCounts" /\ UNCHANGED corpus
      /\ UNCHANGED <<page, snapshot, records, canon, links, feature, mirrors, saved, crossed>>
  BY DEF WriteCounts, At, corpus
<1>2. IsCall(req[r]) /\ Typed(req[r]) /\ Ranks(req[r]) /\ Counted(r, req[r]) BY Mine
<1>3. Runs(req[r]) BY <1>1 DEF Runs, Ended
<1>4. /\ req[r].todo \subseteq ApiJob /\ j \in ApiJob /\ req[r].op \in {"list", "open", "save"}
      /\ req[r].then = "answer" /\ req[r].steady \subseteq ActiveJobs
      /\ req[r].read \in Counters \cup {None}
  BY <1>1, <1>2 DEF Typed, Ranks, Features
<1>5. Records(r, j) BY <1>1 DEF Records, At
<1>6. CASE ~IsRow(req[r].read) /\ IsRow(counts[j])
  <2> PICK c : c = [req[r] EXCEPT !.pc = "raised"] OBVIOUS
  <2>1. Become(r, c) /\ UNCHANGED <<events, counts>> BY <1>6 DEF WriteCounts, Go
  <2>2. IsCall(c) /\ c.pc = "raised" BY <1>2 DEF IsCall, CallFields
  <2>3. ~Runs(c) BY <2>2 DEF Runs, Ended
  <2>4. UserOK' BY <1>1, <2>1 DEF CorpusInv, UserOK
  <2> QED BY <1>1, <1>3, <2>1, <2>2, <2>3, <2>4, Rests
<1>7. CASE ~(~IsRow(req[r].read) /\ IsRow(counts[j]))
  <2> PICK i : i = WhichInteraction(req[r].op) OBVIOUS
  <2> PICK rest : rest = req[r].todo \ {j} OBVIOUS
  <2> PICK c : c = AfterRecord(req[r], rest) OBVIOUS
  <2>1. CountEvent(r, j, i) /\ Become(r, c) BY <1>7 DEF WriteCounts
  <2>2. i \in Interaction BY <1>4 DEF WhichInteraction, Interaction
  <2>3. events \in [ApiJob -> Counters] /\ counts \in [ApiJob -> Counters \cup {None}]
    BY DEF CorpusInv, UserOK
  <2>4. old \in Counters BY <1>4 DEF OrZero, Zero, Counters, IsRow
  <2> PICK new : new = [old EXCEPT ![i] = @ + 1] OBVIOUS
  <2> PICK evs : evs = [events[j] EXCEPT ![i] = @ + 1] OBVIOUS
  <2>5. counts' = [counts EXCEPT ![j] = new] /\ events' = [events EXCEPT ![j] = evs]
    BY <1>4, <2>1, <2>3 DEF CountEvent, OrZero
  <2>6. events[j] \in Counters BY <1>4, <2>3
  <2>7. /\ new \in Counters /\ new[i] = old[i] + 1
        /\ \A h \in Interaction \ {i} : new[h] = old[h]
    BY <2>2, <2>4 DEF Counters
  <2>8. /\ evs \in Counters /\ evs[i] = events[j][i] + 1
        /\ \A h \in Interaction \ {i} : evs[h] = events[j][h]
    BY <2>2, <2>6 DEF Counters
  <2>9. /\ counts'[j] = new /\ events'[j] = evs
        /\ \A h \in ApiJob \ {j} : counts'[h] = counts[h] /\ events'[h] = events[h]
    BY <1>4, <2>3, <2>5
  <2>10. UserOK' BY <1>1, <2>3, <2>5, <2>7, <2>8 DEF CorpusInv, UserOK
  <2>11. TablesOK' /\ ActiveJobs' = ActiveJobs BY <1>1 DEF CorpusInv, TablesOK, ActiveJobs
  <2>12. \A h \in Interaction : old[h] \in Nat /\ events[j][h] \in Nat BY <2>4, <2>6 DEF Counters
  <2>13. \A h \in Interaction : new[h] <= evs[h]
    <3>1. \A h \in Interaction : old[h] <= events[j][h] BY <1>1, <1>2 DEF Counted
    <3> QED BY <2>2, <2>7, <2>8, <2>12, <3>1
  <2>14. j \notin crossed => new = evs
    <3> SUFFICES ASSUME j \notin crossed PROVE new = evs OBVIOUS
    <3>1. req[r].read = counts[j] BY <1>1, <1>2 DEF Counted
    <3>2. old = events[j] BY <1>4, <3>1 DEF CorpusInv, InteractionsCounted, OrZero
    <3> QED BY <3>2
  <2>15. IsRow(new) BY <2>7, RowFacts
  <2>16. InteractionsCounted'
    <3> SUFFICES ASSUME NEW h \in ApiJob
                 PROVE  /\ \A g \in Interaction : OrZero(counts'[h])[g] <= events'[h][g]
                        /\ h \notin crossed' => OrZero(counts'[h]) = events'[h]
      BY DEF InteractionsCounted, OrZero
    <3>1. CASE h = j BY <1>1, <2>9, <2>13, <2>14, <2>15, <3>1 DEF OrZero
    <3>2. CASE h # j
      <4>1. /\ \A g \in Interaction : OrZero(counts[h])[g] <= events[h][g]
            /\ h \notin crossed => OrZero(counts[h]) = events[h]
        BY DEF CorpusInv, InteractionsCounted, OrZero
      <4> QED BY <1>1, <2>9, <3>2, <4>1
    <3> QED BY <3>1, <3>2
  <2>17. /\ IsCall(c) /\ c.op = req[r].op /\ c.todo = rest /\ c.then = "answer"
         /\ c.pc \in {"readCounts", "rank", "answer"}
         /\ c.steady = req[r].steady /\ c.alone = req[r].alone
    BY <1>2, <1>4 DEF AfterRecord, IsCall, CallFields
  <2>18. /\ req'[r].pc # "writeCounts" /\ \A q \in Request \ {r} : req'[q] = req[q]
    BY <2>1, <2>17, BecomeReq
  <2>19. ASSUME NEW q \in Request \ {r} PROVE Counted(q, req[q])'
    <3> PICK d : d = req[q] OBVIOUS
    <3> SUFFICES ASSUME d.pc = "writeCounts" PROVE Counted(q, d)' BY <2>18 DEF Counted
    <3>1. Counted(q, d) /\ Typed(d) BY Mine
    <3>2. \A s \in Request : Records(s, d.arg)' => Records(s, d.arg) BY <2>18 DEF Records, At
    <3>3. d.arg = j => j \in crossed BY <1>5, <3>1 DEF Counted
    <3>4. d.arg \in ApiJob /\ d.read \in Counters \cup {None} BY <3>1 DEF Typed
    <3>5. \A h \in Interaction : OrZero(d.read)[h] \in Nat
      BY <3>4 DEF OrZero, Zero, Counters, IsRow
    <3>6. \A h \in Interaction : OrZero(d.read)[h] <= events'[d.arg][h]
      <4>1. CASE d.arg = j
        <5> SUFFICES ASSUME NEW h \in Interaction PROVE OrZero(d.read)[h] <= evs[h]
          BY <2>9, <4>1
        <5>1. evs[h] = events[j][h] \/ evs[h] = events[j][h] + 1 BY <2>8
        <5>2. OrZero(d.read)[h] <= events[j][h] BY <3>1, <4>1 DEF Counted
        <5>3. OrZero(d.read)[h] \in Nat /\ events[j][h] \in Nat BY <2>12, <3>5
        <5> QED BY <5>1, <5>2, <5>3
      <4>2. CASE d.arg # j BY <2>9, <3>1, <3>4, <4>2 DEF Counted
      <4> QED BY <4>1, <4>2
    <3>7. d.arg \notin crossed => d.read = counts'[d.arg] /\ \A s \in Request \ {q} : ~Records(s, d.arg)'
      BY <2>9, <3>1, <3>2, <3>3, <3>4 DEF Counted
    <3> QED BY <1>1, <3>6, <3>7 DEF Counted
  <2>20. Held(c)'
    BY <1>4, <2>11, <2>17 DEF Held, Typed, Ranks, Hydrates, Refreshes, Features, Rebuilds
  <2>21. Knows(r, c)' BY <2>17, <2>20 DEF Knows, Counted
  <2>22. c.pc # "waiting" BY <2>17
  <2> QED BY <1>1, <1>3, <2>1, <2>10, <2>11, <2>16, <2>17, <2>19, <2>21, <2>22, Keeps
<1> QED BY <1>6, <1>7

---------------------------------------------------------------------------
(* The jobs page and the saved jobs *)

LEMMA ShowPageKeeps ==
  ASSUME CorpusInv, NEW r \in Request, ShowPage(r)
  PROVE  CorpusInv'
<1> PICK shown : shown = Shown(req[r]) OBVIOUS
<1> PICK c : c = IF req[r].op # "list" THEN [req[r] EXCEPT !.pc = "answer"]
                 ELSE [req[r] EXCEPT !.pc = IF shown = {} THEN "answer" ELSE "readCounts",
                                     !.todo = shown]
  OBVIOUS
<1>1. Become(r, c) /\ req[r].pc = "ranked" /\ UNCHANGED <<corpus, user>>
  BY DEF ShowPage, ReadsOnly, At
<1>2. IsCall(req[r]) /\ Typed(req[r]) /\ Ranks(req[r]) BY Mine
<1>3. /\ IsCall(c) /\ c.op = req[r].op /\ c.pc \in {"answer", "readCounts"} /\ c.then = req[r].then
      /\ c.pc = "readCounts" => c.op = "list" /\ c.todo = shown
      /\ c.steady = req[r].steady /\ c.alone = req[r].alone
  BY <1>2 DEF IsCall, CallFields
<1>4. Runs(req[r]) BY <1>1 DEF Runs, Ended
<1>5. /\ c.then = "answer" /\ c.steady \subseteq ActiveJobs
      /\ c.op \notin {"refresh", "hydrate", "hydratePage"}
  BY <1>1, <1>2, <1>3, <1>4 DEF Typed, Ranks, Features, Rebuilds, Hydrations
<1>6. mirrors \subseteq Key BY DEF CorpusInv, UserOK
<1>7. shown \subseteq ApiJob BY <1>1, <1>2, <1>6 DEF Typed, Shown, ApiJob
<1>8. UserOK' /\ UNCHANGED <<events, counts, crossed>> BY <1>1 DEF CorpusInv, UserOK, user
<1>9. Held(c) BY <1>3, <1>5, <1>7 DEF Held, Typed, Rebuilds, Ranks, Hydrates, Refreshes, Features
<1>10. c.pc \notin {"waiting", "writeCounts"} BY <1>3
<1> QED BY <1>1, <1>3, <1>4, <1>8, <1>9, <1>10, Rests

LEMMA EnsureMirrorKeeps ==
  ASSUME CorpusInv, NEW r \in Request, EnsureMirror(r)
  PROVE  CorpusInv'
<1> PICK pc : pc = IF ~req[r].read /\ req[r].arg \in mirrors THEN "raised" ELSE "insertSaved" OBVIOUS
<1> PICK c : c = [req[r] EXCEPT !.pc = pc] OBVIOUS
<1>1. /\ Become(r, c) /\ req[r].pc = "mirror"
      /\ UNCHANGED <<corpus, saved, events, counts, crossed>>
      /\ mirrors' = mirrors \/ mirrors' = mirrors \cup {req[r].arg}
  BY DEF EnsureMirror, Go, At
<1>2. IsCall(req[r]) /\ Typed(req[r]) /\ Ranks(req[r]) BY Mine
<1>3. /\ IsCall(c) /\ c.op = req[r].op /\ c.pc = pc /\ c.arg = req[r].arg /\ c.then = req[r].then
      /\ c.steady = req[r].steady /\ c.alone = req[r].alone
  BY <1>2 DEF IsCall, CallFields
<1>4. Runs(req[r]) BY <1>1 DEF Runs, Ended
<1>5. c.then = "answer" /\ c.steady \subseteq ActiveJobs /\ c.op = "save" /\ c.arg \in Key
  BY <1>1, <1>2, <1>3 DEF Typed, Ranks, Features
<1>6. UserOK' BY <1>1, <1>3, <1>5 DEF CorpusInv, UserOK
<1>7. pc \in {"raised", "insertSaved"} OBVIOUS
<1>8. Held(c)
  BY <1>3, <1>5, <1>7 DEF Held, Typed, Rebuilds, Ranks, Hydrates, Refreshes, Features, ApiJob
<1>9. c.pc \notin {"waiting", "writeCounts"} BY <1>3, <1>7
<1> QED BY <1>1, <1>3, <1>4, <1>6, <1>8, <1>9, Rests

LEMMA InsertSavedKeeps ==
  ASSUME CorpusInv, NEW r \in Request, InsertSaved(r)
  PROVE  CorpusInv'
<1> PICK j : j = req[r].arg OBVIOUS
<1> PICK row : row = [by |-> r, notes |-> {}] OBVIOUS
<1>1. req[r].pc = "insertSaved" /\ UNCHANGED <<corpus, mirrors, events, counts, crossed>>
  BY DEF InsertSaved, At
<1>2. IsCall(req[r]) /\ Typed(req[r]) /\ Ranks(req[r]) BY Mine
<1>3. Runs(req[r]) BY <1>1 DEF Runs, Ended
<1>4. /\ j \in ApiJob /\ req[r].op = "save" /\ req[r].then = "answer"
      /\ req[r].steady \subseteq ActiveJobs
  BY <1>1, <1>2 DEF Typed, Ranks, Features
<1>5. CASE IsRow(saved[j])
  <2> PICK c : c = [req[r] EXCEPT !.pc = "raised"] OBVIOUS
  <2>1. Become(r, c) /\ saved' = saved BY <1>5 DEF InsertSaved, Go
  <2>2. IsCall(c) /\ c.pc = "raised" BY <1>2 DEF IsCall, CallFields
  <2>3. ~Runs(c) BY <2>2 DEF Runs, Ended
  <2>4. UserOK' BY <1>1, <2>1 DEF CorpusInv, UserOK
  <2> QED BY <1>1, <1>3, <2>1, <2>2, <2>3, <2>4, Rests
<1>6. CASE ~IsRow(saved[j])
  <2> PICK c : c = [req[r] EXCEPT !.pc = "readCounts", !.todo = {j}] OBVIOUS
  <2>1. Become(r, c) /\ saved' = [saved EXCEPT ![j] = row] BY <1>6 DEF InsertSaved
  <2>2. /\ IsCall(c) /\ c.op = "save" /\ c.pc = "readCounts" /\ c.todo = {j} /\ c.then = "answer"
        /\ c.steady = req[r].steady /\ c.alone = req[r].alone
    BY <1>2, <1>4 DEF IsCall, CallFields
  <2>3. IsSaved(row) BY DEF IsSaved
  <2>4. UserOK' BY <1>1, <1>4, <2>1, <2>3 DEF CorpusInv, UserOK
  <2>5. Held(c)
    BY <1>4, <2>2 DEF Held, Typed, Rebuilds, Ranks, Hydrates, Refreshes, Features
  <2> QED BY <1>1, <1>3, <2>1, <2>2, <2>4, <2>5, Rests
<1> QED BY <1>5, <1>6

(* A request on a saved job ends. *)
LEMMA SavedEnds ==
  ASSUME CorpusInv, NEW r \in Request, Runs(req[r]), NEW pc \in Ended, Go(r, pc),
         UNCHANGED <<corpus, mirrors, events, counts, crossed>>,
         saved' = [j \in ApiJob |-> saved'[j]],
         \A j \in ApiJob : IsRow(saved'[j]) => IsSaved(saved'[j])
  PROVE  CorpusInv'
<1> PICK c : c = [req[r] EXCEPT !.pc = pc] OBVIOUS
<1>1. IsCall(req[r]) BY Mine
<1>2. IsCall(c) /\ c.pc = pc BY <1>1 DEF IsCall, CallFields
<1>3. ~Runs(c) /\ c.pc \notin {"waiting", "writeCounts"} BY <1>2 DEF Runs, Ended
<1>4. UserOK' BY DEF CorpusInv, UserOK
<1>5. Become(r, c) BY DEF Go
<1> QED BY <1>2, <1>3, <1>4, <1>5, Rests

LEMMA DeleteSavedKeeps ==
  ASSUME CorpusInv, NEW r \in Request, DeleteSaved(r)
  PROVE  CorpusInv'
<1> PICK pc : pc = IF Same(r) THEN "done" ELSE "refused" OBVIOUS
<1>1. /\ Go(r, pc) /\ req[r].pc = "deleteSaved"
      /\ UNCHANGED <<corpus, mirrors, events, counts, crossed>>
      /\ saved' = saved \/ saved' = [saved EXCEPT ![req[r].arg] = None]
  BY DEF DeleteSaved, At
<1>2. Typed(req[r]) BY Mine
<1>3. Runs(req[r]) /\ pc \in Ended BY <1>1 DEF Runs, Ended
<1>4. /\ saved = [j \in ApiJob |-> saved[j]]
      /\ \A j \in ApiJob : IsRow(saved[j]) => IsSaved(saved[j])
  BY DEF CorpusInv, UserOK
<1>5. req[r].arg \in ApiJob BY <1>1, <1>2 DEF Typed
<1>6. /\ saved' = [j \in ApiJob |-> saved'[j]]
      /\ \A j \in ApiJob : IsRow(saved'[j]) => IsSaved(saved'[j])
  BY <1>1, <1>4, <1>5 DEF IsRow
<1> QED BY <1>1, <1>3, <1>6, SavedEnds

(* A note is put on the row its request had found. *)
LEMMA NotedRow ==
  ASSUME CorpusInv, NEW r \in Request, InsertNote(r)
  PROVE  /\ req[r].arg \in ApiJob
         /\ saved' = [j \in ApiJob |-> saved'[j]]
         /\ \A j \in ApiJob \ {req[r].arg} : saved'[j] = saved[j]
         /\ ~Same(r) => saved' = saved
         /\ Same(r) => LET x == saved'[req[r].arg] IN
              /\ IsSaved(x) /\ x.by = saved[req[r].arg].by
              /\ x.notes \subseteq saved[req[r].arg].notes \cup {r}
<1> PICK j : j = req[r].arg OBVIOUS
<1>1. req[r].pc = "insertNote" BY DEF InsertNote, At
<1>2. Typed(req[r]) BY Mine
<1>3. j \in ApiJob BY <1>1, <1>2 DEF Typed
<1>4. /\ saved = [i \in ApiJob |-> saved[i]]
      /\ \A i \in ApiJob : IsRow(saved[i]) => IsSaved(saved[i])
  BY DEF CorpusInv, UserOK
<1>5. CASE ~Same(r) BY <1>3, <1>4, <1>5 DEF InsertNote
<1>6. CASE Same(r)
  <2> PICK row : row = saved[j] OBVIOUS
  <2> PICK notes : notes = row.notes \cup {r} OBVIOUS
  <2> PICK x : x = [row EXCEPT !.notes = notes] OBVIOUS
  <2>1. IsSaved(row) BY <1>3, <1>4, <1>6 DEF Same
  <2>2. IsSaved(x) /\ x.by = row.by /\ x.notes = notes BY <2>1 DEF IsSaved
  <2>3. saved' = [saved EXCEPT ![j] = x] BY <1>3, <1>4, <1>6 DEF InsertNote
  <2>4. saved'[j] = x /\ \A i \in ApiJob \ {j} : saved'[i] = saved[i] BY <1>3, <1>4, <2>3
  <2> QED BY <1>3, <1>4, <1>6, <2>2, <2>3, <2>4
<1> QED BY <1>5, <1>6

LEMMA InsertNoteKeeps ==
  ASSUME CorpusInv, NEW r \in Request, InsertNote(r)
  PROVE  CorpusInv'
<1> PICK pc : pc = IF Same(r) THEN "done" ELSE "raised" OBVIOUS
<1>1. /\ Go(r, pc) /\ req[r].pc = "insertNote"
      /\ UNCHANGED <<corpus, mirrors, events, counts, crossed>>
  BY DEF InsertNote, At
<1>2. Runs(req[r]) /\ pc \in Ended BY <1>1 DEF Runs, Ended
<1>3. /\ saved = [j \in ApiJob |-> saved[j]]
      /\ \A j \in ApiJob : IsRow(saved[j]) => IsSaved(saved[j])
  BY DEF CorpusInv, UserOK
<1>4. /\ saved' = [j \in ApiJob |-> saved'[j]]
      /\ \A j \in ApiJob : IsRow(saved'[j]) => IsSaved(saved'[j])
  BY <1>3, NotedRow
<1> QED BY <1>1, <1>2, <1>4, SavedEnds

---------------------------------------------------------------------------
(* The invariant *)

LEMMA InitInv == SavedJobsInit => CorpusInv
<1> SUFFICES ASSUME SavedJobsInit PROVE CorpusInv OBVIOUS
<1>1. /\ records = [p \in Posting |-> None] /\ snapshot = [p \in Posting |-> 0]
      /\ canon = [k \in Key |-> None] /\ links = [p \in Posting |-> Nil]
      /\ feature = [k \in Key |-> None] /\ req = [q \in Request |-> Call(Nil, "waiting", Nil)]
      /\ mirrors = {} /\ saved = [j \in ApiJob |-> None] /\ events = [j \in ApiJob |-> Zero]
      /\ counts = [j \in ApiJob |-> None]
  BY DEF SavedJobsInit, CorpusInit
<1>2. TablesOK BY <1>1 DEF TablesOK, IsRecords, IsRow
<1>3. Zero \in Counters BY DEF Zero, Counters
<1>4. UserOK BY <1>1, <1>3 DEF UserOK, IsRow
<1>5. InteractionsCounted
  <2>1. \A i \in Interaction : Zero[i] <= Zero[i] BY DEF Zero
  <2> QED BY <1>1, <2>1 DEF InteractionsCounted, IsRow
<1>6. ASSUME NEW q \in Request PROVE Knows(q, req[q]) /\ ~Runs(req[q])
  <2> PICK c : c = Call(Nil, "waiting", Nil) OBVIOUS
  <2>1. IsCall(c) /\ c.pc = "waiting" /\ c.then = "answer" /\ c.steady = {}
    BY DEF Call, IsCall, CallFields
  <2>2. ~Runs(c) BY <2>1 DEF Runs
  <2> QED BY <1>1, <2>1, <2>2, AtRest
<1>7. Alone BY <1>6 DEF Alone, InFlight, At, Runs
<1> QED BY <1>1, <1>2, <1>4, <1>5, <1>6, <1>7 DEF CorpusInv

LEMMA CorpusStepKeeps ==
  ASSUME CorpusInv, NEW r \in Request, CorpusStep(r), UNCHANGED user
  PROVE  CorpusInv'
<1>1. CASE SyncJobSource(r) BY <1>1, SyncJobSourceKeeps DEF SyncJobSource
<1>2. CASE SyncRecord(r) BY <1>2, SyncRecordKeeps
<1>3. CASE MarkMissingRecords(r) BY <1>3, MarkMissingRecordsKeeps
<1>4. CASE RefreshCanonicalJobs(r) BY <1>4, RefreshCanonicalJobsKeeps DEF RefreshCanonicalJobs
<1>5. CASE ListRecords(r) BY <1>5, ListRecordsKeeps
<1>6. CASE UpsertCanonicalJob(r) BY <1>6, UpsertCanonicalJobKeeps
<1>7. CASE UpsertCanonicalLink(r) BY <1>7, UpsertCanonicalLinkKeeps
<1>8. CASE PruneLinks(r) BY <1>8, PruneLinksKeeps
<1>9. CASE MarkMissingJobs(r) BY <1>9, MarkMissingJobsKeeps
<1>10. CASE BuildFeature(r) BY <1>10, BuildFeatureKeeps
<1>11. CASE StoreFeature(r) BY <1>11, StoreFeatureKeeps
<1>12. CASE PruneFeatures(r) BY <1>12, PruneFeaturesKeeps
<1>13. CASE HydrateJobUrl(r) BY <1>13, HydrateJobUrlKeeps DEF HydrateJobUrl
<1>14. CASE FetchPage(r) BY <1>14, FetchPageKeeps
<1>15. CASE Match(r) BY <1>15, MatchKeeps
<1>16. CASE BootstrapRecord(r) BY <1>16, BootstrapRecordKeeps
<1>17. CASE Rematch(r) BY <1>17, RematchKeeps
<1>18. CASE HydrateJobPage(r) BY <1>18, HydrateJobPageKeeps DEF HydrateJobPage
<1>19. CASE FindJobs(r) BY <1>19, FindJobsKeeps
<1>20. CASE HydrateJobPages(r) BY <1>20, HydrateJobPagesKeeps DEF HydrateJobPages
<1>21. CASE NextPage(r) BY <1>21, NextPageKeeps
<1>22. CASE ReadProfile(r) BY <1>22, ReadProfileKeeps
<1>23. CASE StoreProfile(r) BY <1>23, StoreProfileKeeps
<1>24. CASE EnsureFeatures(r) BY <1>24, EnsureFeaturesKeeps
<1>25. CASE ReadPairs(r) BY <1>25, ReadPairsKeeps
<1>26. CASE Answer(r) BY <1>26, AnswerKeeps
<1> QED
  BY <1>1, <1>2, <1>3, <1>4, <1>5, <1>6, <1>7, <1>8, <1>9, <1>10, <1>11, <1>12, <1>13, <1>14, <1>15,
     <1>16, <1>17, <1>18, <1>19, <1>20, <1>21, <1>22, <1>23, <1>24, <1>25, <1>26 DEF CorpusStep

LEMMA SavedStepKeeps ==
  ASSUME CorpusInv, NEW r \in Request, SavedStep(r)
  PROVE  CorpusInv'
<1>1. CASE ReadCounts(r) BY <1>1, ReadCountsKeeps
<1>2. CASE WriteCounts(r) BY <1>2, WriteCountsKeeps
<1>3. CASE OpenJob(r) BY <1>3, OpenJobKeeps DEF OpenJob, ReadsOnly
<1>4. CASE ListJobsPage(r) BY <1>4, ListJobsPageKeeps DEF ListJobsPage, ReadsOnly
<1>5. CASE ShowPage(r) BY <1>5, ShowPageKeeps
<1>6. CASE Save(r) BY <1>6, SaveKeeps DEF Save, ReadsOnly
<1>7. CASE EnsureMirror(r) BY <1>7, EnsureMirrorKeeps
<1>8. CASE InsertSaved(r) BY <1>8, InsertSavedKeeps
<1>9. CASE Unsave(r) BY <1>9, UnsaveKeeps DEF Unsave, ReadsOnly
<1>10. CASE DeleteSaved(r) BY <1>10, DeleteSavedKeeps
<1>11. CASE AddNote(r) BY <1>11, AddNoteKeeps DEF AddNote, ReadsOnly
<1>12. CASE InsertNote(r) BY <1>12, InsertNoteKeeps
<1>13. CASE UpdateStatus(r) BY <1>13, UpdateStatusKeeps DEF UpdateStatus, ReadsOnly
<1> QED
  BY <1>1, <1>2, <1>3, <1>4, <1>5, <1>6, <1>7, <1>8, <1>9, <1>10, <1>11, <1>12, <1>13 DEF SavedStep

LEMMA NextInv == CorpusInv /\ [JobsNext]_jobsVars => CorpusInv'
<1> SUFFICES ASSUME CorpusInv, [JobsNext]_jobsVars PROVE CorpusInv' OBVIOUS
<1>1. CASE \E r \in Request : CorpusStep(r) /\ UNCHANGED user BY <1>1, CorpusStepKeeps
<1>2. CASE \E r \in Request : SavedStep(r) BY <1>2, SavedStepKeeps
<1>3. CASE Stop /\ UNCHANGED user BY <1>3, StopKeeps
<1>4. CASE \E p \in Posting : EditPage(p) /\ UNCHANGED user BY <1>4, StaysPut DEF EditPage
<1>5. CASE UNCHANGED jobsVars BY <1>5, StaysPut DEF jobsVars, corpusVars, corpus
<1> QED BY <1>1, <1>2, <1>3, <1>4, <1>5 DEF JobsNext

(* The invariant holds of every behaviour: the tables keep their shape, and   *)
(* every request knows at each of its steps what it needs for the next one,   *)
(* whatever others do and wherever they are stopped (the chains of            *)
(* transactions of a rebuild, a hydration, a ranking and an interaction).     *)
THEOREM CorpusInvariant == JobsSpec => []CorpusInv
BY InitInv, NextInv, PTL DEF JobsSpec

---------------------------------------------------------------------------
(* Theorems *)

(* The counters of a job are its events unless two interactions with it were *)
(* recorded at the same time, and never more (the counters are read before    *)
(* the transaction that raises them).                                         *)
THEOREM CountedTheorem == JobsSpec => []InteractionsCounted
<1>1. CorpusInv => InteractionsCounted BY DEF CorpusInv
<1> QED BY CorpusInvariant, <1>1, PTL

(* A rebuild of the canonical jobs that ran alone leaves exactly the jobs and *)
(* links that the records say, whatever stops cut earlier rebuilds off (a     *)
(* chain of transactions over records, jobs and links).                       *)
THEOREM RefreshTheorem == JobsSpec => []RefreshIsRecompute
<1>1. ASSUME CorpusInv PROVE RefreshIsRecompute
  <2> SUFFICES ASSUME NEW r \in InFlight, At(r, "answer"), req[r].op = "refresh", req[r].alone
               PROVE  ActiveJobs = Grouped(records) /\ LinkedAsRecorded
    BY DEF RefreshIsRecompute, LinkedAsRecorded
  <2>1. r \in Request BY DEF InFlight
  <2>2. Refreshes(req[r]) BY <1>1, <2>1, Mine
  <2> QED BY <2>2 DEF Refreshes, At
<1> QED BY CorpusInvariant, <1>1, PTL

(* A hydration that ran alone leaves the active jobs of its URL with features *)
(* of their text and of the page as it was read; and a ranked page shows      *)
(* every job that was active all along, although other requests compute and   *)
(* prune features meanwhile.                                                  *)
THEOREM FeaturesTheorem == JobsSpec => []FeaturesUpToDate
<1>1. ASSUME CorpusInv PROVE HydratedIsUpToDate
  <2> SUFFICES ASSUME NEW r \in InFlight, At(r, "answer"), req[r].op \in {"hydrate", "hydratePage"},
                      req[r].alone, NEW k \in {j \in ActiveJobs : ApplyUrl(j) = req[r].arg},
                      snapshot[req[r].arg] # 0
               PROVE  feature[k] = [text |-> canon[k].text, page |-> req[r].arg,
                                    ctx |-> snapshot[req[r].arg]]
    BY DEF HydratedIsUpToDate
  <2>1. r \in Request BY DEF InFlight
  <2>2. Hydrates(req[r]) BY <1>1, <2>1, Mine
  <2>3. ~Awaits(req[r], k) BY DEF Awaits, At
  <2>4. feature[k] = UpToDate(k) BY <2>2, <2>3 DEF Hydrates, At
  <2> QED BY <2>4 DEF UpToDate
<1>2. ASSUME CorpusInv PROVE RankingCovers
  <2> SUFFICES ASSUME NEW r \in InFlight, At(r, "ranked"), req[r].read # Nil
               PROVE  req[r].steady \subseteq req[r].read
    BY DEF RankingCovers
  <2>1. r \in Request BY DEF InFlight
  <2>2. Ranks(req[r]) BY <1>2, <2>1, Mine
  <2> QED BY <2>2 DEF Ranks, At
<1>3. CorpusInv => FeaturesUpToDate BY <1>1, <1>2 DEF FeaturesUpToDate
<1> QED BY CorpusInvariant, <1>3, PTL

(* A saved row stays that of the request that made it until somebody takes it *)
(* away, and a note goes to the row its request had found (save_job and the   *)
(* notes check first and write in later steps).                               *)
THEOREM SavedTheorem == JobsSpec => SavedRowsKeepTheirOwn
<1> DEFINE Own == \A j \in ApiJob :
                    IsRow(saved[j]) /\ IsRow(saved'[j]) =>
                      /\ saved'[j].by = saved[j].by
                      /\ \A r \in saved'[j].notes \ saved[j].notes : req[r].read.by = saved[j].by
<1>1. ASSUME CorpusInv, [JobsNext]_jobsVars PROVE Own
  <2>1. CASE UNCHANGED saved BY <2>1
  <2>2. ASSUME NEW r \in Request, InsertSaved(r) PROVE Own
    <3> PICK j : j = req[r].arg OBVIOUS
    <3>1. Typed(req[r]) BY <1>1, <2>2, Mine
    <3>2. j \in ApiJob BY <2>2, <3>1 DEF InsertSaved, At, Typed
    <3>3. saved = [i \in ApiJob |-> saved[i]] BY <1>1 DEF CorpusInv, UserOK
    <3>4. CASE IsRow(saved[j]) BY <2>2, <3>4 DEF InsertSaved
    <3>5. CASE ~IsRow(saved[j])
      <4>1. \A i \in ApiJob \ {j} : saved'[i] = saved[i] BY <2>2, <3>2, <3>3, <3>5 DEF InsertSaved
      <4> QED BY <3>5, <4>1
    <3> QED BY <3>4, <3>5
  <2>3. ASSUME NEW r \in Request, DeleteSaved(r) PROVE Own
    <3> PICK j : j = req[r].arg OBVIOUS
    <3>1. Typed(req[r]) BY <1>1, <2>3, Mine
    <3>2. j \in ApiJob BY <2>3, <3>1 DEF DeleteSaved, At, Typed
    <3>3. saved = [i \in ApiJob |-> saved[i]] BY <1>1 DEF CorpusInv, UserOK
    <3>4. saved' = saved \/ (saved'[j] = None /\ \A i \in ApiJob \ {j} : saved'[i] = saved[i])
      BY <2>3, <3>2, <3>3 DEF DeleteSaved
    <3> QED BY <3>4 DEF IsRow
  <2>4. ASSUME NEW r \in Request, InsertNote(r) PROVE Own
    <3> PICK j : j = req[r].arg OBVIOUS
    <3>1. /\ j \in ApiJob /\ \A i \in ApiJob \ {j} : saved'[i] = saved[i]
          /\ ~Same(r) => saved' = saved
          /\ Same(r) => saved'[j].by = saved[j].by /\ saved'[j].notes \subseteq saved[j].notes \cup {r}
      BY <1>1, <2>4, NotedRow
    <3>2. Same(r) => req[r].read.by = saved[j].by BY DEF Same
    <3> QED BY <3>1, <3>2
  <2>5. ASSUME NEW r \in Request, SavedStep(r) PROVE Own
    <3>1. UNCHANGED saved \/ InsertSaved(r) \/ DeleteSaved(r) \/ InsertNote(r)
      BY <2>5 DEF SavedStep, ReadsOnly, user, ReadCounts, WriteCounts, OpenJob, ListJobsPage, ShowPage,
                  Save, EnsureMirror, Unsave, AddNote, UpdateStatus
    <3> QED BY <2>1, <2>2, <2>3, <2>4, <3>1
  <2> QED BY <1>1, <2>1, <2>5 DEF JobsNext, jobsVars, user
<1>2. CorpusInv /\ [JobsNext]_jobsVars => [Own]_jobsVars BY <1>1
<1> QED BY CorpusInvariant, <1>2, PTL DEF JobsSpec, SavedRowsKeepTheirOwn
===============================================================================

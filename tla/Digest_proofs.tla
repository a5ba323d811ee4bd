--------------------------- MODULE Digest_proofs ---------------------------
(***************************************************************************)
(* Proofs about Digest, for any number of processes, sources, postings and *)
(* subscribers, any window and any number of failures and kills: the rows  *)
(* of the jobs table are true, the digest implements its feed, which skips *)
(* nothing, and without failures nobody gets a posting twice.              *)
(***************************************************************************)
EXTENDS Digest, TLAPS

CrawlPlaces == [pc : {"idle", "start", "fetch", "find", "write", "mark", "finish", "failed", "done"},
                source : Source, started : Time, todo : SUBSET Posting, seen : SUBSET Posting,
                job : Posting \cup {Nil}, found : BOOLEAN, ok : SUBSET Source]

NotifyPlaces == [pc : {"idle", "crawl", "since", "open", "build", "skip", "address", "send",
                       "sent", "advance", "fail", "end"},
                 command : {"notify", "crawl", "send"}, generated : Time,
                 since : Time \cup {Nil}, digest : SUBSET Wanted, to : SUBSET Recipient,
                 moves : BOOLEAN]

Rows == [source : Source \cup {Nil}, active : BOOLEAN, firstSeen : Time \cup {Nil},
         lastSeen : Time \cup {Nil}]

TypeOK ==
  /\ now \in Time /\ failures \in Nat /\ lock \in BOOLEAN
  /\ rows \in [Posting -> Rows]
  /\ crawled \in [Source -> [ok : BOOLEAN, jobs : SUBSET Posting]]
  /\ crawler \in [Process -> CrawlPlaces]
  /\ notifier \in [Process -> NotifyPlaces]
  /\ \A p \in Process : crawler[p].pc = "write" => crawler[p].job \in Posting
  /\ checkpoint \in Time \cup {Nil} /\ horizon \in Time \cup {Nil}
  /\ mailed \subseteq Recipient \X Posting
  /\ byHand \in Seq({"notify", "crawl", "send"})

-----------------------------------------------------------------------------
(* What holds as long as no crawl was started by hand *)

(* run_crawl.sh: the lock directory belongs to the one script that runs.     *)
ScheduledAlone ==
  \A p \in Scheduled : Running(p) => lock /\ \A q \in Scheduled : Running(q) => q = p

(* A command typed by hand only sends.                                       *)
SendsOnly(p) ==
  p \in Manual => notifier[p].pc \notin {"crawl", "since", "advance"} /\ ~notifier[p].moves

(* A crawl that is under way stamps no time before the checkpoint, has       *)
(* withdrawn the last result of its source, and has left a row for what it   *)
(* has seen.                                                                 *)
UnderWay(c) == c.pc \in {"fetch", "find", "write", "mark", "finish", "failed"}
CrawlIsTrue(p) ==
  LET c == crawler[p] IN
  notifier[p].pc = "crawl" =>
    /\ c.pc \in {"idle", "start", "done"} => c.seen = {}
    /\ UnderWay(c) =>
         /\ checkpoint # Nil => checkpoint <= c.started
         /\ c.started <= now
         /\ ~crawled[c.source].ok
         /\ \A j \in c.seen : HasRow(j) /\ rows[j].source = c.source /\ rows[j].active
         /\ c.pc = "write" /\ c.found => HasRow(c.job)
         /\ c.pc = "finish" =>
              \A j \in Posting : rows[j].source = c.source /\ rows[j].active => j \in c.seen

(* What the last successful crawl of a source says of the rows.              *)
SourceIsTrue(s) ==
  crawled[s].ok =>
    /\ \A j \in Posting : rows[j].source = s /\ rows[j].active => j \in crawled[s].jobs
    /\ \A j \in crawled[s].jobs : HasRow(j) /\ (rows[j].source = s => rows[j].active)

(* A digest holds everything wanted that was first seen since, and what is   *)
(* not addressed any more has been mailed.                                   *)
AfterSince == {"open", "build", "skip", "address", "send", "sent", "advance"}
AfterBuild == {"skip", "address", "send", "sent", "advance"}
DigestIsTrue(n) ==
  /\ n.pc \in {"idle", "crawl"} => ~n.moves /\ n.since = Nil
  /\ n.pc \in {"since", "advance"} => n.moves
  /\ n.pc \in {"idle", "crawl", "since", "open", "build"} => n.digest = {}
  /\ n.pc = "skip" => n.digest = {}
  /\ \A j \in n.digest : HasRow(j) /\ (n.moves => n.since <= rows[j].firstSeen)
  /\ n.moves =>
       /\ n.generated <= now
       /\ checkpoint # Nil => checkpoint <= n.generated
       /\ \A j \in Posting : HasRow(j) /\ n.pc \in {"since"} \cup AfterSince
                                => rows[j].firstSeen <= n.generated
       /\ n.pc \in AfterSince =>
            /\ n.since \in Time /\ n.since <= n.generated
            /\ checkpoint # Nil => n.since = checkpoint
       /\ n.pc \in AfterBuild =>
            \A j \in Wanted : HasRow(j) /\ n.since <= rows[j].firstSeen => j \in n.digest
       /\ n.pc \in {"send", "sent", "advance"} =>
            \A r \in Loyal, j \in n.digest :
              <<r, j>> \in mailed \/ (n.pc = "send" /\ r \in n.to)
  /\ ~n.moves => n.pc # "advance"

(* Who was started by the script mails only on the way to the checkpoint.    *)
OnTheWay(p) ==
  p \in Scheduled /\ ~notifier[p].moves =>
    notifier[p].since = Nil /\ notifier[p].pc \notin {"build", "address", "send", "sent"}

(* Without failures: what was mailed is behind the checkpoint, or belongs to *)
(* the digest that is being sent.                                            *)
Mailing(p, r, j) ==
  /\ notifier[p].pc \in {"send", "sent", "advance"}
  /\ j \in notifier[p].digest /\ r \notin notifier[p].to
MailsAreOld ==
  failures = 0 /\ byHand = <<>> =>
    /\ \A p \in Process : notifier[p].pc # "fail"
    /\ \A p \in Manual : ~Running(p)
    /\ \A r \in Recipient, j \in Posting : <<r, j>> \in mailed =>
         \/ HasRow(j) /\ checkpoint # Nil /\ rows[j].firstSeen <= checkpoint
         \/ \E p \in Scheduled : Mailing(p, r, j)

Honest(p) == SendsOnly(p) /\ CrawlIsTrue(p) /\ DigestIsTrue(notifier[p]) /\ OnTheWay(p)

UndisturbedInv ==
  /\ ScheduledAlone
  /\ checkpoint # Nil => checkpoint <= now
  /\ \A j \in Posting : HasRow(j) => rows[j].firstSeen <= now
  /\ \A s \in Source : SourceIsTrue(s)
  /\ \A p \in Process : Honest(p)
  /\ MailsAreOld

Inv == TypeOK /\ (Undisturbed => UndisturbedInv)

-----------------------------------------------------------------------------
(* Facts that every step needs *)

LEMMA TimeIsNat == Time \subseteq Nat /\ 0 \in Time /\ Nil \notin Time
BY ClockAssumption, NoValue DEF Time

(* A command that was started by hand stays in the history.                  *)
LEMMA StaysUndisturbed ==
  ASSUME TypeOK, byHand' = byHand \/ \E c \in {"notify", "crawl", "send"} : byHand' = Append(byHand, c),
         Undisturbed'
  PROVE  Undisturbed
<1>1. CASE byHand' = byHand BY <1>1 DEF Undisturbed
<1>2. ASSUME NEW c \in {"notify", "crawl", "send"}, byHand' = Append(byHand, c) PROVE Undisturbed
  <2>1. byHand \in Seq({"notify", "crawl", "send"}) BY DEF TypeOK
  <2>2. Len(byHand') = Len(byHand) + 1 /\ Len(byHand) \in Nat
        /\ \A i \in 1 .. Len(byHand) : byHand'[i] = byHand[i]
    BY <1>2, <2>1
  <2> QED BY <2>2 DEF Undisturbed
<1> QED BY <1>1, <1>2

LEMMA OthersDisturb ==
  ASSUME TypeOK, NEW c \in {"notify", "crawl"}, byHand' = Append(byHand, c)
  PROVE  ~Undisturbed'
<1>1. byHand \in Seq({"notify", "crawl", "send"}) BY DEF TypeOK
<1>2. Len(byHand') = Len(byHand) + 1 /\ Len(byHand) \in Nat /\ byHand'[Len(byHand) + 1] = c
  BY <1>1
<1> QED BY <1>2 DEF Undisturbed

-----------------------------------------------------------------------------
(* Steps of a command outside its crawl *)

(* A step of a running command that touches no row and not the checkpoint.   *)
LEMMA OnlyNotifies ==
  ASSUME Inv, NEW p \in Process, NEW n \in NotifyPlaces, Becomes(p, n), Running(p),
         n.pc \notin {"idle", "crawl"},
         UNCHANGED <<now, rows, crawler, crawled, lock, checkpoint, horizon, byHand>>,
         failures' \in Nat, mailed \subseteq mailed', mailed' \subseteq Recipient \X Posting,
         UndisturbedInv => SendsOnly(p)' /\ DigestIsTrue(n)' /\ OnTheWay(p)' /\ MailsAreOld'
  PROVE  Inv'
<1>1. notifier \in [Process -> NotifyPlaces] BY DEF Inv, TypeOK
<1>2. notifier' \in [Process -> NotifyPlaces] /\ notifier'[p] = n
      /\ \A q \in Process \ {p} : notifier'[q] = notifier[q]
  BY <1>1 DEF Becomes
<1>3. TypeOK' BY <1>2 DEF Inv, TypeOK
<1>4. Undisturbed' <=> Undisturbed BY DEF Undisturbed
<1>5. SUFFICES ASSUME Undisturbed, UndisturbedInv PROVE UndisturbedInv'
  BY <1>3, <1>4 DEF Inv
<1>6. \A q \in Process : Running(q)' <=> Running(q)
  BY <1>2 DEF Running, Notifying
<1>7. ScheduledAlone' BY <1>5, <1>6, ProcessAssumption DEF UndisturbedInv, ScheduledAlone
<1>8. \A s \in Source : SourceIsTrue(s)'
  BY <1>5 DEF UndisturbedInv, SourceIsTrue, HasRow
<1>9. ASSUME NEW q \in Process PROVE Honest(q)'
  <2>1. CASE q = p
    <3>1. CrawlIsTrue(p)' BY <1>2 DEF CrawlIsTrue
    <3> QED BY <1>2, <1>5, <2>1, <3>1 DEF Honest
  <2>2. CASE q # p
    <3>1. Honest(q) BY <1>5 DEF UndisturbedInv
    <3>2. notifier'[q] = notifier[q] BY <1>2, <2>2
    <3>3. CrawlIsTrue(q)' BY <3>1, <3>2 DEF Honest, CrawlIsTrue, HasRow
    <3>4. DigestIsTrue(notifier[q])' BY <3>1, <3>2 DEF Honest, DigestIsTrue, HasRow
    <3> QED BY <3>1, <3>2, <3>3, <3>4 DEF Honest, SendsOnly, OnTheWay
  <2> QED BY <2>1, <2>2
<1>10. (\A j \in Posting : HasRow(j) => rows[j].firstSeen <= now)'
  BY <1>5 DEF UndisturbedInv, HasRow
<1> QED BY <1>5, <1>7, <1>8, <1>9, <1>10 DEF UndisturbedInv

(* Such a step that mails nothing.                                           *)
LEMMA NobodyMails ==
  ASSUME TypeOK, UndisturbedInv, NEW p \in Process, NEW n \in NotifyPlaces, Becomes(p, n), Running(p),
         n.pc # "idle", UNCHANGED <<rows, checkpoint, mailed, byHand>>,
         failures' = 0 => failures = 0 /\ n.pc # "fail",
         failures' = 0 /\ p \in Scheduled /\ notifier[p].pc \in {"send", "sent", "advance"} =>
           /\ n.pc \in {"send", "sent", "advance"}
           /\ n.digest = notifier[p].digest /\ n.to = notifier[p].to
  PROVE  MailsAreOld'
<1>1. notifier'[p] = n /\ \A q \in Process \ {p} : notifier'[q] = notifier[q]
  BY DEF TypeOK, Becomes
<1>2. SUFFICES ASSUME failures' = 0, byHand' = <<>>
               PROVE  /\ \A q \in Process : notifier'[q].pc # "fail"
                      /\ \A q \in Manual : ~Running(q)'
                      /\ \A r \in Recipient, j \in Posting : <<r, j>> \in mailed' =>
                           \/ HasRow(j)' /\ checkpoint' # Nil /\ rows'[j].firstSeen <= checkpoint'
                           \/ \E q \in Scheduled : Mailing(q, r, j)'
  BY DEF MailsAreOld
<1>3. MailsAreOld /\ failures = 0 /\ byHand = <<>> BY <1>2 DEF UndisturbedInv
<1>4. p \in Scheduled BY <1>3, ProcessAssumption DEF MailsAreOld
<1>5. \A q \in Process : notifier'[q].pc # "fail" BY <1>1, <1>2, <1>3 DEF MailsAreOld
<1>6. \A q \in Manual : ~Running(q)'
  BY <1>1, <1>3, <1>4, ProcessAssumption DEF MailsAreOld, Running, Notifying
<1>7. ASSUME NEW q \in Scheduled, NEW r, NEW j, Mailing(q, r, j) PROVE Mailing(q, r, j)'
  <2>1. CASE q = p BY <1>1, <1>2, <1>7, <2>1 DEF Mailing
  <2>2. CASE q # p BY <1>1, <1>7, <2>2, ProcessAssumption DEF Mailing
  <2> QED BY <2>1, <2>2
<1>8. ASSUME NEW r \in Recipient, NEW j \in Posting, <<r, j>> \in mailed'
      PROVE  \/ HasRow(j)' /\ checkpoint' # Nil /\ rows'[j].firstSeen <= checkpoint'
             \/ \E q \in Scheduled : Mailing(q, r, j)'
  BY <1>3, <1>7, <1>8 DEF MailsAreOld, HasRow
<1> QED BY <1>5, <1>6, <1>8

LEMMA DecideStep == ASSUME Inv, NEW p \in Process, Decide(p) PROVE Inv'
<1>1. notifier[p] \in NotifyPlaces /\ now \in Time /\ notifier[p].pc = "crawl"
  BY DEF Inv, TypeOK, Decide, Notifying
<1>2. PICK n : n = IF notifier[p].command = "crawl" THEN [notifier[p] EXCEPT !.pc = "end"]
                   ELSE IF crawler[p].ok = {}
                        THEN [notifier[p] EXCEPT !.pc = "open", !.generated = now]
                        ELSE [notifier[p] EXCEPT !.pc = "since", !.generated = now, !.moves = TRUE]
  OBVIOUS
<1>3. Becomes(p, n) BY <1>2 DEF Decide
<1>4. /\ n \in NotifyPlaces /\ n.pc \in {"end", "open", "since"}
      /\ n.digest = notifier[p].digest /\ n.to = notifier[p].to /\ n.since = notifier[p].since
      /\ n.pc # "since" => n.moves = notifier[p].moves
      /\ n.pc = "since" => n.moves /\ n.generated = now
  BY <1>1, <1>2 DEF NotifyPlaces
<1>5. Running(p) BY <1>1 DEF Running, Notifying
<1>6. UNCHANGED <<now, rows, crawler, crawled, failures, lock, checkpoint, horizon, byHand, mailed>>
  BY DEF Decide, NoCrawl, crawlVars
<1>7. ASSUME UndisturbedInv PROVE SendsOnly(p)' /\ DigestIsTrue(n)' /\ OnTheWay(p)' /\ MailsAreOld'
  <2>1. Honest(p) /\ p \notin Manual BY <1>1, <1>7 DEF UndisturbedInv, Honest, SendsOnly
  <2>2. notifier'[p] = n BY <1>3 DEF Becomes, Inv, TypeOK
  <2>3. ~notifier[p].moves /\ notifier[p].since = Nil /\ notifier[p].digest = {}
    BY <1>1, <2>1 DEF Honest, DigestIsTrue
  <2>4. now \in Nat BY <1>1, TimeIsNat
  <2>5. DigestIsTrue(n)'
    BY <1>4, <1>6, <1>7, <2>3, <2>4 DEF DigestIsTrue, UndisturbedInv, AfterSince, AfterBuild, HasRow
  <2>6. OnTheWay(p)' BY <1>4, <2>2, <2>3 DEF OnTheWay
  <2>7. MailsAreOld' BY <1>1, <1>3, <1>4, <1>5, <1>6, <1>7, NobodyMails DEF Inv
  <2> QED BY <2>1, <2>5, <2>6, <2>7 DEF SendsOnly
<1> QED BY <1>3, <1>4, <1>5, <1>6, <1>7, OnlyNotifies DEF Inv, TypeOK

LEMMA ResolveSinceStep == ASSUME Inv, NEW p \in Process, ResolveSince(p) PROVE Inv'
<1>1. notifier[p] \in NotifyPlaces /\ checkpoint \in Time \cup {Nil} /\ notifier[p].pc = "since"
  BY DEF Inv, TypeOK, ResolveSince, Notifying
<1>2. PICK t : t = IF checkpoint # Nil THEN checkpoint
                   ELSE IF notifier[p].generated < Window THEN 0 ELSE notifier[p].generated - Window
  OBVIOUS
<1>3. t \in Time /\ (checkpoint = Nil => t <= notifier[p].generated) /\ (checkpoint # Nil => t = checkpoint)
  <2>1. notifier[p].generated \in 0 .. MaxTime BY <1>1 DEF NotifyPlaces, Time
  <2> QED BY <1>1, <1>2, <2>1, ClockAssumption, DigestAssumption DEF Time
<1>4. PICK n : n = [notifier[p] EXCEPT !.pc = "open", !.since = t] OBVIOUS
<1>5. Becomes(p, n) BY <1>2, <1>4 DEF ResolveSince
<1>6. /\ n \in NotifyPlaces /\ n.pc = "open" /\ n.since = t /\ n.digest = notifier[p].digest
      /\ n.to = notifier[p].to /\ n.moves = notifier[p].moves /\ n.generated = notifier[p].generated
  BY <1>1, <1>3, <1>4 DEF NotifyPlaces
<1>7. Running(p) BY <1>1 DEF Running, Notifying
<1>8. UNCHANGED <<now, rows, crawler, crawled, failures, lock, checkpoint, horizon, byHand, mailed>>
  BY DEF ResolveSince, NoCrawl, crawlVars
<1>9. ASSUME UndisturbedInv PROVE SendsOnly(p)' /\ DigestIsTrue(n)' /\ OnTheWay(p)' /\ MailsAreOld'
  <2>1. Honest(p) /\ p \notin Manual BY <1>1, <1>9 DEF UndisturbedInv, Honest, SendsOnly
  <2>2. notifier'[p] = n BY <1>5 DEF Becomes, Inv, TypeOK
  <2>3. notifier[p].moves BY <1>1, <2>1 DEF Honest, DigestIsTrue
  <2>4. DigestIsTrue(n)'
    BY <1>1, <1>3, <1>6, <1>8, <2>1, <2>3 DEF Honest, DigestIsTrue, AfterSince, AfterBuild, HasRow
  <2>5. OnTheWay(p)' BY <1>6, <2>2, <2>3 DEF OnTheWay
  <2>6. MailsAreOld' BY <1>1, <1>5, <1>6, <1>7, <1>8, <1>9, NobodyMails DEF Inv
  <2> QED BY <2>1, <2>4, <2>5, <2>6 DEF SendsOnly
<1> QED BY <1>5, <1>6, <1>7, <1>8, <1>9, OnlyNotifies DEF Inv, TypeOK

LEMMA OpenRunStep == ASSUME Inv, NEW p \in Process, OpenRun(p) PROVE Inv'
<1>1. notifier[p] \in NotifyPlaces /\ notifier[p].pc = "open"
  BY DEF Inv, TypeOK, OpenRun, Notifying
<1>2. PICK n : n = [notifier[p] EXCEPT !.pc = IF notifier[p].since = Nil THEN "skip" ELSE "build"]
  OBVIOUS
<1>3. Becomes(p, n) BY <1>2 DEF OpenRun, Proceed
<1>4. /\ n \in NotifyPlaces /\ n.pc = (IF notifier[p].since = Nil THEN "skip" ELSE "build")
      /\ n.since = notifier[p].since /\ n.digest = notifier[p].digest
      /\ n.to = notifier[p].to /\ n.moves = notifier[p].moves /\ n.generated = notifier[p].generated
  BY <1>1, <1>2 DEF NotifyPlaces
<1>5. Running(p) BY <1>1 DEF Running, Notifying
<1>6. UNCHANGED <<now, rows, crawler, crawled, failures, lock, checkpoint, horizon, byHand, mailed>>
  BY DEF OpenRun, NoCrawl, crawlVars
<1>7. ASSUME UndisturbedInv PROVE SendsOnly(p)' /\ DigestIsTrue(n)' /\ OnTheWay(p)' /\ MailsAreOld'
  <2>1. Honest(p) BY <1>7 DEF UndisturbedInv
  <2>2. notifier'[p] = n BY <1>3 DEF Becomes, Inv, TypeOK
  <2>3. n.moves => n.pc = "build"
    BY <1>1, <1>4, <2>1, TimeIsNat DEF Honest, DigestIsTrue, AfterSince
  <2>4. DigestIsTrue(n)'
    BY <1>1, <1>4, <1>6, <2>1, <2>3 DEF Honest, DigestIsTrue, AfterSince, AfterBuild, HasRow
  <2>5. OnTheWay(p)' BY <1>4, <2>1, <2>2 DEF Honest, OnTheWay
  <2>6. MailsAreOld' BY <1>1, <1>3, <1>4, <1>5, <1>6, <1>7, NobodyMails DEF Inv
  <2> QED BY <1>4, <2>1, <2>2, <2>4, <2>5, <2>6 DEF SendsOnly, Honest
<1> QED BY <1>3, <1>4, <1>5, <1>6, <1>7, OnlyNotifies DEF Inv, TypeOK

LEMMA BuildDigestStep == ASSUME Inv, NEW p \in Process, BuildDigest(p) PROVE Inv'
<1> DEFINE digest == {j \in Wanted : HasRow(j) /\ rows[j].firstSeen >= notifier[p].since}
<1>1. notifier[p] \in NotifyPlaces /\ notifier[p].pc = "build"
  BY DEF Inv, TypeOK, BuildDigest, Notifying
<1>2. PICK next \in {"address", "skip"} :
        /\ Becomes(p, [notifier[p] EXCEPT !.digest = digest, !.pc = next])
        /\ next = "skip" => digest = {}
  BY DEF BuildDigest
<1>3. PICK n : n = [notifier[p] EXCEPT !.digest = digest, !.pc = next] OBVIOUS
<1>4. /\ n \in NotifyPlaces /\ n.pc = next /\ n.since = notifier[p].since /\ n.digest = digest
      /\ n.to = notifier[p].to /\ n.moves = notifier[p].moves /\ n.generated = notifier[p].generated
  BY <1>1, <1>3 DEF NotifyPlaces
<1>5. Running(p) /\ Becomes(p, n) BY <1>1, <1>2, <1>3 DEF Running, Notifying
<1>6. UNCHANGED <<now, rows, crawler, crawled, failures, lock, checkpoint, horizon, byHand, mailed>>
  BY DEF BuildDigest, NoCrawl, crawlVars
<1>7. ASSUME UndisturbedInv PROVE SendsOnly(p)' /\ DigestIsTrue(n)' /\ OnTheWay(p)' /\ MailsAreOld'
  <2>1. Honest(p) BY <1>7 DEF UndisturbedInv
  <2>2. notifier'[p] = n BY <1>5 DEF Becomes, Inv, TypeOK
  <2>3. \A j \in Wanted : HasRow(j) => rows[j].firstSeen \in Nat
    BY TimeIsNat, DigestAssumption DEF Inv, TypeOK, Rows, HasRow
  <2>4. \A j \in Wanted : j \in digest <=> HasRow(j) /\ rows[j].firstSeen >= notifier[p].since
    OBVIOUS
  <2>5. n.moves => n.since \in Nat BY <1>1, <1>4, <2>1, TimeIsNat DEF Honest, DigestIsTrue, AfterSince
  <2>6. DigestIsTrue(n)'
    <3> HIDE DEF digest
    <3>1. digest \subseteq Wanted BY DEF digest
    <3>2. \A j \in digest : HasRow(j) /\ (n.moves => n.since <= rows[j].firstSeen)
      BY <1>4, <2>3, <2>4, <2>5, <3>1
    <3>3. n.moves => \A j \in Wanted : HasRow(j) /\ n.since <= rows[j].firstSeen => j \in digest
      BY <1>4, <2>3, <2>4, <2>5
    <3> QED BY <1>1, <1>2, <1>4, <1>6, <2>1, <3>1, <3>2, <3>3
            DEF Honest, DigestIsTrue, AfterSince, AfterBuild, HasRow
  <2>7. OnTheWay(p)' BY <1>1, <1>4, <2>1, <2>2 DEF Honest, OnTheWay
  <2>8. MailsAreOld' BY <1>1, <1>4, <1>5, <1>6, <1>7, NobodyMails DEF Inv
  <2> QED BY <1>4, <2>1, <2>2, <2>6, <2>7, <2>8 DEF SendsOnly, Honest
<1> QED BY <1>4, <1>5, <1>6, <1>7, OnlyNotifies DEF Inv, TypeOK

LEMMA AddressStep == ASSUME Inv, NEW p \in Process, Address(p) PROVE Inv'
<1>1. notifier[p] \in NotifyPlaces /\ notifier[p].pc = "address"
  BY DEF Inv, TypeOK, Address, Notifying
<1>2. PICK to \in SUBSET Recipient :
        /\ Becomes(p, [notifier[p] EXCEPT !.to = to, !.pc = "send"])
        /\ p \in Scheduled => Loyal \subseteq to
  BY ProcessAssumption DEF Address, Recipient
<1>3. PICK n : n = [notifier[p] EXCEPT !.to = to, !.pc = "send"] OBVIOUS
<1>4. /\ n \in NotifyPlaces /\ n.pc = "send" /\ n.to = to
      /\ n.since = notifier[p].since /\ n.digest = notifier[p].digest
      /\ n.moves = notifier[p].moves /\ n.generated = notifier[p].generated
  BY <1>1, <1>3 DEF NotifyPlaces
<1>5. Running(p) /\ Becomes(p, n) BY <1>1, <1>2, <1>3 DEF Running, Notifying
<1>6. UNCHANGED <<now, rows, crawler, crawled, failures, lock, checkpoint, horizon, byHand, mailed>>
  BY DEF Address, NoCrawl, crawlVars
<1>7. ASSUME UndisturbedInv PROVE SendsOnly(p)' /\ DigestIsTrue(n)' /\ OnTheWay(p)' /\ MailsAreOld'
  <2>1. Honest(p) BY <1>7 DEF UndisturbedInv
  <2>2. notifier'[p] = n BY <1>5 DEF Becomes, Inv, TypeOK
  <2>3. n.moves => Loyal \subseteq to
    BY <1>2, <1>4, <2>1, ProcessAssumption DEF Honest, SendsOnly
  <2>4. DigestIsTrue(n)'
    BY <1>1, <1>4, <1>6, <2>1, <2>3 DEF Honest, DigestIsTrue, AfterSince, AfterBuild, HasRow
  <2>5. OnTheWay(p)' BY <1>1, <1>4, <2>1, <2>2 DEF Honest, OnTheWay
  <2>6. MailsAreOld' BY <1>1, <1>4, <1>5, <1>6, <1>7, NobodyMails DEF Inv
  <2> QED BY <1>4, <2>1, <2>2, <2>4, <2>5, <2>6 DEF SendsOnly, Honest
<1> QED BY <1>4, <1>5, <1>6, <1>7, OnlyNotifies DEF Inv, TypeOK

LEMMA SendStep ==
  ASSUME Inv, NEW p \in Process, NEW r \in Recipient, Send(p, r) PROVE Inv'
<1>1. notifier[p] \in NotifyPlaces /\ notifier[p].pc = "send" /\ r \in notifier[p].to
  BY DEF Inv, TypeOK, Send, Notifying
<1>2. PICK n : n = [notifier[p] EXCEPT !.to = notifier[p].to \ {r},
                                       !.pc = IF notifier[p].to = {r} THEN "sent" ELSE "send"]
  OBVIOUS
<1>3. /\ n \in NotifyPlaces /\ n.pc = (IF notifier[p].to = {r} THEN "sent" ELSE "send")
      /\ n.to = notifier[p].to \ {r} /\ n.since = notifier[p].since
      /\ n.digest = notifier[p].digest /\ n.moves = notifier[p].moves
      /\ n.generated = notifier[p].generated
  BY <1>1, <1>2 DEF NotifyPlaces
<1>4. Running(p) /\ Becomes(p, n) BY <1>1, <1>2 DEF Running, Notifying, Send
<1>5. UNCHANGED <<now, rows, crawler, crawled, failures, lock, checkpoint, horizon, byHand>>
  BY DEF Send, NoCrawl, crawlVars
<1>6. mailed' = mailed \cup ({r} \X n.digest) /\ n.digest \subseteq Posting
  BY <1>1, <1>3, DigestAssumption DEF Send, NotifyPlaces
<1>7. mailed' \subseteq Recipient \X Posting BY <1>6 DEF Inv, TypeOK
<1>8. ASSUME UndisturbedInv PROVE SendsOnly(p)' /\ DigestIsTrue(n)' /\ OnTheWay(p)' /\ MailsAreOld'
  <2>1. Honest(p) BY <1>8 DEF UndisturbedInv
  <2>2. notifier'[p] = n /\ \A q \in Process \ {p} : notifier'[q] = notifier[q]
    BY <1>4 DEF Becomes, Inv, TypeOK
  <2>3. ASSUME n.moves, NEW l \in Loyal, NEW j \in n.digest
        PROVE  <<l, j>> \in mailed' \/ (n.pc = "send" /\ l \in n.to)
    <3>1. <<l, j>> \in mailed \/ l \in notifier[p].to
      BY <1>1, <1>3, <2>1, <2>3 DEF Honest, DigestIsTrue
    <3> QED BY <1>3, <1>6, <3>1
  <2>4. DigestIsTrue(n)'
    BY <1>1, <1>3, <1>5, <2>1, <2>3 DEF Honest, DigestIsTrue, AfterSince, AfterBuild, HasRow
  <2>5. OnTheWay(p)' BY <1>1, <1>3, <2>1, <2>2 DEF Honest, OnTheWay
  <2>6. ASSUME failures' = 0, byHand' = <<>> PROVE MailsAreOld'
    <3>1. MailsAreOld /\ failures = 0 /\ byHand = <<>> BY <1>5, <1>8, <2>6 DEF UndisturbedInv
    <3>2. p \in Scheduled /\ \A q \in Process : notifier'[q].pc # "fail"
      BY <1>3, <1>4, <2>2, <3>1, ProcessAssumption DEF MailsAreOld
    <3>3. \A q \in Manual : ~Running(q)'
      BY <2>2, <3>1, <3>2, ProcessAssumption DEF MailsAreOld, Running, Notifying
    <3>4. ASSUME NEW q \in Scheduled, NEW x, NEW j, Mailing(q, x, j) PROVE Mailing(q, x, j)'
      <4>1. CASE q = p BY <1>3, <2>2, <3>4, <4>1 DEF Mailing
      <4>2. CASE q # p BY <2>2, <3>4, <4>2, ProcessAssumption DEF Mailing
      <4> QED BY <4>1, <4>2
    <3>5. ASSUME NEW j \in n.digest PROVE Mailing(p, r, j)' BY <1>3, <2>2, <3>5 DEF Mailing
    <3>6. ASSUME NEW x \in Recipient, NEW j \in Posting, <<x, j>> \in mailed'
          PROVE  \/ HasRow(j)' /\ checkpoint' # Nil /\ rows'[j].firstSeen <= checkpoint'
                 \/ \E q \in Scheduled : Mailing(q, x, j)'
      <4>1. CASE <<x, j>> \in mailed BY <1>5, <3>1, <3>4, <4>1 DEF MailsAreOld, HasRow
      <4>2. CASE <<x, j>> \notin mailed BY <1>6, <3>2, <3>5, <3>6, <4>2
      <4> QED BY <4>1, <4>2
    <3> QED BY <3>2, <3>3, <3>6 DEF MailsAreOld
  <2>7. MailsAreOld' BY <2>6 DEF MailsAreOld
  <2> QED BY <1>3, <2>1, <2>2, <2>4, <2>5, <2>7 DEF SendsOnly, Honest
<1> QED BY <1>3, <1>4, <1>5, <1>6, <1>7, <1>8, OnlyNotifies DEF Inv, TypeOK

(* The two ends that go on to the checkpoint. *)
LEMMA SettleStep ==
  ASSUME Inv, NEW p \in Process, NEW status, Settle(p, status), notifier[p].pc \in {"skip", "sent"},
         NoCrawl, UNCHANGED <<lock, checkpoint, horizon, mailed, byHand>>
  PROVE  Inv'
<1>1. notifier[p] \in NotifyPlaces BY DEF Inv, TypeOK
<1>2. PICK n : n = [notifier[p] EXCEPT !.pc = IF notifier[p].moves THEN "advance" ELSE "end"]
  OBVIOUS
<1>3. /\ n \in NotifyPlaces /\ n.pc = (IF n.moves THEN "advance" ELSE "end")
      /\ n.to = notifier[p].to /\ n.since = notifier[p].since
      /\ n.digest = notifier[p].digest /\ n.moves = notifier[p].moves
      /\ n.generated = notifier[p].generated
  BY <1>1, <1>2 DEF NotifyPlaces
<1>4. Running(p) /\ Becomes(p, n) BY <1>2 DEF Running, Notifying, Settle, Proceed
<1>5. UNCHANGED <<now, rows, crawler, crawled, failures>> BY DEF NoCrawl, crawlVars
<1>6. ASSUME UndisturbedInv PROVE SendsOnly(p)' /\ DigestIsTrue(n)' /\ OnTheWay(p)' /\ MailsAreOld'
  <2>1. Honest(p) BY <1>6 DEF UndisturbedInv
  <2>2. notifier'[p] = n BY <1>4 DEF Becomes, Inv, TypeOK
  <2>3. DigestIsTrue(n)'
    BY <1>3, <1>5, <2>1 DEF Honest, DigestIsTrue, AfterSince, AfterBuild, HasRow
  <2>4. OnTheWay(p)' BY <1>3, <2>1, <2>2 DEF Honest, OnTheWay
  <2>5. p \in Scheduled /\ notifier[p].pc = "sent" => n.pc = "advance"
    BY <1>3, <2>1 DEF Honest, OnTheWay
  <2>6. MailsAreOld' BY <1>3, <1>4, <1>5, <1>6, <2>5, NobodyMails DEF Inv
  <2> QED BY <1>3, <2>1, <2>2, <2>3, <2>4, <2>6 DEF SendsOnly, Honest
<1> QED BY <1>3, <1>4, <1>5, <1>6, OnlyNotifies DEF Inv, TypeOK

LEMMA FinishSkippedStep == ASSUME Inv, NEW p \in Process, FinishSkipped(p) PROVE Inv'
BY SettleStep DEF FinishSkipped, Notifying

LEMMA FinishSentStep == ASSUME Inv, NEW p \in Process, FinishSent(p) PROVE Inv'
BY SettleStep DEF FinishSent, Notifying

(* Whatever goes wrong leads to "fail" or to the end. *)
LEMMA Breaks ==
  ASSUME Inv, NEW p \in Process, NEW pc \in {"fail", "end"}, Proceed(p, pc), Running(p),
         UNCHANGED <<now, rows, crawler, crawled, lock, checkpoint, horizon, mailed, byHand>>,
         failures' \in Nat,
         failures' = 0 => failures = 0 /\ notifier[p].pc = "fail"
  PROVE  Inv'
<1>1. notifier[p] \in NotifyPlaces BY DEF Inv, TypeOK
<1>2. PICK n : n = [notifier[p] EXCEPT !.pc = pc] OBVIOUS
<1>3. /\ n \in NotifyPlaces /\ n.pc = pc /\ n.to = notifier[p].to /\ n.since = notifier[p].since
      /\ n.digest = notifier[p].digest /\ n.moves = notifier[p].moves
      /\ n.generated = notifier[p].generated
  BY <1>1, <1>2 DEF NotifyPlaces
<1>4. Becomes(p, n) BY <1>2 DEF Proceed
<1>5. ASSUME UndisturbedInv PROVE SendsOnly(p)' /\ DigestIsTrue(n)' /\ OnTheWay(p)' /\ MailsAreOld'
  <2>1. Honest(p) BY <1>5 DEF UndisturbedInv
  <2>2. notifier'[p] = n BY <1>4 DEF Becomes, Inv, TypeOK
  <2>3. DigestIsTrue(n)'
    BY <1>3, <2>1 DEF Honest, DigestIsTrue, AfterSince, AfterBuild, HasRow
  <2>4. OnTheWay(p)' BY <1>3, <2>1, <2>2 DEF Honest, OnTheWay
  <2>5. MailsAreOld'
    <3>1. CASE failures' = 0 BY <1>5, <3>1 DEF UndisturbedInv, MailsAreOld
    <3>2. CASE failures' # 0 BY <3>2 DEF MailsAreOld
    <3> QED BY <3>1, <3>2
  <2> QED BY <1>3, <2>1, <2>2, <2>3, <2>4, <2>5 DEF SendsOnly, Honest
<1> QED BY <1>3, <1>4, <1>5, OnlyNotifies DEF Inv, TypeOK

LEMMA FinishFailedStep == ASSUME Inv, NEW p \in Process, FinishFailed(p) PROVE Inv'
BY Breaks DEF FinishFailed, Notifying, Running, NoCrawl, crawlVars, Inv, TypeOK

LEMMA NotifyRaisesStep == ASSUME Inv, NEW p \in Process, NotifyRaises(p) PROVE Inv'
<1>1. failures' \in Nat /\ failures' # 0 BY DEF Inv, TypeOK, NotifyRaises, FailOnce
<1>2. Running(p) BY DEF NotifyRaises, Running, Notifying
<1>3. PICK pc \in {"fail", "end"} : Proceed(p, pc) BY DEF NotifyRaises
<1> QED BY <1>1, <1>2, <1>3, Breaks DEF NotifyRaises

LEMMA CrawlAbortsStep ==
  ASSUME Inv, NEW p \in Process, Notifying(p, "crawl"), CrawlAborts(p) PROVE Inv'
<1>1. failures' \in Nat /\ failures' # 0 BY DEF Inv, TypeOK, CrawlAborts, FailOnce
<1>2. Running(p) BY DEF Running, Notifying
<1> QED BY <1>1, <1>2, Breaks DEF CrawlAborts

-----------------------------------------------------------------------------
(* Who moves the checkpoint, starts, ends or crawls *)

(* A command that moves the checkpoint was started by the script, and only   *)
(* the script crawls: nobody else does either.                               *)
LEMMA OneAtATime ==
  ASSUME TypeOK, UndisturbedInv, NEW p \in Process, NEW q \in Process,
         notifier[p].moves \/ notifier[p].pc \in {"crawl", "advance"},
         notifier[q].moves \/ notifier[q].pc \in {"crawl", "advance"}
  PROVE  p = q
<1>1. Honest(p) /\ Honest(q) BY DEF UndisturbedInv
<1>2. p \in Scheduled /\ q \in Scheduled
  BY <1>1, ProcessAssumption DEF Honest, SendsOnly
<1>3. Running(p) /\ Running(q) BY <1>1 DEF Honest, DigestIsTrue, Running, Notifying
<1> QED BY <1>2, <1>3 DEF UndisturbedInv, ScheduledAlone

LEMMA AdvanceStep == ASSUME Inv, NEW p \in Process, AdvanceCheckpoint(p) PROVE Inv'
<1>1. notifier[p] \in NotifyPlaces /\ notifier[p].pc = "advance" /\ notifier \in [Process -> NotifyPlaces]
  BY DEF Inv, TypeOK, AdvanceCheckpoint, Notifying
<1>2. PICK n : n = [notifier[p] EXCEPT !.pc = "end"] OBVIOUS
<1>3. /\ n \in NotifyPlaces /\ n.pc = "end" /\ n.to = notifier[p].to /\ n.since = notifier[p].since
      /\ n.digest = notifier[p].digest /\ n.moves = notifier[p].moves
      /\ n.generated = notifier[p].generated
  BY <1>1, <1>2 DEF NotifyPlaces
<1>4. notifier' \in [Process -> NotifyPlaces] /\ notifier'[p] = n
      /\ \A q \in Process \ {p} : notifier'[q] = notifier[q]
  BY <1>1, <1>2, <1>3 DEF AdvanceCheckpoint, Proceed, Becomes
<1>5. /\ UNCHANGED <<now, rows, crawler, crawled, failures, lock, mailed, byHand>>
      /\ checkpoint' = n.generated /\ checkpoint' \in Time
      /\ horizon' \in Time \cup {Nil}
  BY <1>1, <1>3 DEF AdvanceCheckpoint, NoCrawl, crawlVars, NotifyPlaces, Inv, TypeOK
<1>6. TypeOK' BY <1>4, <1>5 DEF Inv, TypeOK
<1>7. SUFFICES ASSUME Undisturbed, UndisturbedInv PROVE UndisturbedInv'
  BY <1>5, <1>6 DEF Inv, Undisturbed
<1>8. Honest(p) /\ n.moves BY <1>1, <1>3, <1>7 DEF UndisturbedInv, Honest, DigestIsTrue
<1>9. n.generated <= now /\ now \in Nat /\ n.generated \in Nat
      /\ (checkpoint # Nil => checkpoint <= n.generated)
  BY <1>3, <1>8, TimeIsNat DEF Honest, DigestIsTrue, NotifyPlaces, Inv, TypeOK
<1>10. \A q \in Process : Running(q)' <=> Running(q)
  BY <1>1, <1>3, <1>4 DEF Running, Notifying
<1>11. ScheduledAlone' BY <1>5, <1>7, <1>10, ProcessAssumption DEF UndisturbedInv, ScheduledAlone
<1>12. \A s \in Source : SourceIsTrue(s)' BY <1>5, <1>7 DEF UndisturbedInv, SourceIsTrue, HasRow
<1>13. ASSUME NEW q \in Process PROVE Honest(q)'
  <2>1. CASE q = p
    <3>1. DigestIsTrue(n)'
      BY <1>3, <1>5, <1>8, <1>9 DEF Honest, DigestIsTrue, AfterSince, AfterBuild, HasRow
    <3>2. CrawlIsTrue(p)' BY <1>3, <1>4 DEF CrawlIsTrue
    <3> QED BY <1>3, <1>4, <1>8, <2>1, <3>1, <3>2 DEF Honest, SendsOnly, OnTheWay
  <2>2. CASE q # p
    <3>1. Honest(q) /\ notifier'[q] = notifier[q] BY <1>4, <1>7, <2>2 DEF UndisturbedInv
    <3>2. notifier[q].pc # "crawl" /\ ~notifier[q].moves
      BY <1>1, <1>7, <2>2, OneAtATime DEF Inv
    <3>3. CrawlIsTrue(q)' BY <3>1, <3>2 DEF CrawlIsTrue
    <3>4. DigestIsTrue(notifier[q])'
      BY <1>5, <3>1, <3>2 DEF Honest, DigestIsTrue, HasRow
    <3> QED BY <3>1, <3>3, <3>4 DEF Honest, SendsOnly, OnTheWay
  <2> QED BY <2>1, <2>2
<1>14. (\A j \in Posting : HasRow(j) => rows[j].firstSeen <= now)'
  BY <1>5, <1>7 DEF UndisturbedInv, HasRow
<1>15. MailsAreOld'
  <2>1. SUFFICES ASSUME failures' = 0, byHand' = <<>> PROVE MailsAreOld' BY DEF MailsAreOld
  <2>2. MailsAreOld /\ failures = 0 /\ byHand = <<>> BY <1>5, <1>7, <2>1 DEF UndisturbedInv
  <2>3. ASSUME NEW r \in Recipient, NEW j \in Posting, <<r, j>> \in mailed'
        PROVE  HasRow(j)' /\ checkpoint' # Nil /\ rows'[j].firstSeen <= checkpoint'
    <3>1. checkpoint' # Nil BY <1>5, TimeIsNat
    <3>2. CASE HasRow(j) /\ checkpoint # Nil /\ rows[j].firstSeen <= checkpoint
      <4>1. rows[j].firstSeen \in Nat /\ checkpoint \in Nat
        BY <3>2, TimeIsNat DEF Inv, TypeOK, Rows, HasRow
      <4> QED BY <1>5, <1>9, <3>1, <3>2, <4>1 DEF HasRow
    <3>3. ASSUME NEW q \in Scheduled, Mailing(q, r, j) PROVE HasRow(j) /\ rows[j].firstSeen <= n.generated
      <4>1. Honest(q) /\ q \in Process BY <1>7, ProcessAssumption DEF UndisturbedInv
      <4>2. notifier[q].moves BY <3>3, <4>1 DEF Honest, OnTheWay, DigestIsTrue, Mailing
      <4>3. q = p BY <1>1, <1>7, <4>1, <4>2, OneAtATime DEF Inv
      <4>4. HasRow(j) BY <3>3, <4>1 DEF Honest, DigestIsTrue, Mailing
      <4> QED BY <1>3, <1>8, <3>3, <4>3, <4>4 DEF Honest, DigestIsTrue, Mailing, AfterSince
    <3> QED BY <1>5, <2>2, <2>3, <3>1, <3>2, <3>3 DEF MailsAreOld, HasRow
  <2> QED BY <1>3, <1>4, <1>10, <2>2, <2>3, ProcessAssumption DEF MailsAreOld
<1> QED BY <1>5, <1>7, <1>9, <1>11, <1>12, <1>13, <1>14, <1>15, TimeIsNat DEF UndisturbedInv

(* A command is started, ends or is killed.                                  *)
LEMMA ComesAndGoes ==
  ASSUME Inv, NEW p \in Process, NEW n \in NotifyPlaces, NEW c \in CrawlPlaces,
         Becomes(p, n), crawler' = [crawler EXCEPT ![p] = c],
         c.pc = "write" => c.job \in Posting,
         UNCHANGED <<now, rows, crawled, checkpoint, horizon, mailed>>,
         failures' \in Nat, lock' \in BOOLEAN, byHand' \in Seq({"notify", "crawl", "send"}),
         Undisturbed' =>
           /\ Undisturbed
           /\ UndisturbedInv => ScheduledAlone' /\ SendsOnly(p)' /\ CrawlIsTrue(p)'
                                /\ DigestIsTrue(n)' /\ OnTheWay(p)' /\ MailsAreOld'
  PROVE  Inv'
<1>1. notifier \in [Process -> NotifyPlaces] /\ crawler \in [Process -> CrawlPlaces] BY DEF Inv, TypeOK
<1>2. /\ notifier' \in [Process -> NotifyPlaces] /\ notifier'[p] = n
      /\ crawler' \in [Process -> CrawlPlaces] /\ crawler'[p] = c
      /\ \A q \in Process \ {p} : notifier'[q] = notifier[q] /\ crawler'[q] = crawler[q]
  BY <1>1 DEF Becomes
<1>3. TypeOK' BY <1>2 DEF Inv, TypeOK
<1>4. SUFFICES ASSUME Undisturbed', UndisturbedInv PROVE UndisturbedInv' BY <1>3 DEF Inv
<1>5. \A s \in Source : SourceIsTrue(s)' BY <1>4 DEF UndisturbedInv, SourceIsTrue, HasRow
<1>6. ASSUME NEW q \in Process PROVE Honest(q)'
  <2>1. CASE q = p BY <1>2, <1>4, <2>1 DEF Honest
  <2>2. CASE q # p
    <3>1. Honest(q) /\ notifier'[q] = notifier[q] /\ crawler'[q] = crawler[q]
      BY <1>2, <1>4, <2>2 DEF UndisturbedInv
    <3>2. CrawlIsTrue(q)' BY <3>1 DEF Honest, CrawlIsTrue, HasRow
    <3>3. DigestIsTrue(notifier[q])' BY <3>1 DEF Honest, DigestIsTrue, HasRow
    <3> QED BY <3>1, <3>2, <3>3 DEF Honest, SendsOnly, OnTheWay
  <2> QED BY <2>1, <2>2
<1>7. (\A j \in Posting : HasRow(j) => rows[j].firstSeen <= now)'
  BY <1>4 DEF UndisturbedInv, HasRow
<1> QED BY <1>4, <1>5, <1>6, <1>7 DEF UndisturbedInv

LEMMA IdleTyped ==
  /\ IdleNotifier \in NotifyPlaces /\ IdleNotifier.pc = "idle" /\ ~IdleNotifier.moves
  /\ IdleNotifier.digest = {} /\ IdleNotifier.since = Nil /\ IdleNotifier.to = {}
  /\ IdleCrawler \in CrawlPlaces /\ IdleCrawler.pc = "idle" /\ IdleCrawler.seen = {}
BY TimeIsNat, SourceAssumption DEF IdleNotifier, IdleCrawler, NotifyPlaces, CrawlPlaces, Source

(* Without failures nothing that was mailed is forgotten when a command that *)
(* does not mail starts or ends.                                             *)
LEMMA MailsStay ==
  ASSUME TypeOK, UndisturbedInv, NEW p \in Process, NEW n \in NotifyPlaces, Becomes(p, n),
         n.pc # "fail", UNCHANGED <<rows, checkpoint, mailed, byHand, failures>>,
         p \in Manual => n.pc = "idle",
         notifier[p].pc \notin {"send", "sent", "advance"}
  PROVE  MailsAreOld'
<1>1. notifier'[p] = n /\ \A q \in Process \ {p} : notifier'[q] = notifier[q]
  BY DEF TypeOK, Becomes
<1>2. SUFFICES ASSUME failures' = 0, byHand' = <<>> PROVE MailsAreOld' BY DEF MailsAreOld
<1>3. MailsAreOld /\ failures = 0 /\ byHand = <<>> BY <1>2 DEF UndisturbedInv
<1>4. \A q \in Process : notifier'[q].pc # "fail" BY <1>1, <1>3 DEF MailsAreOld
<1>5. \A q \in Manual : ~Running(q)'
  BY <1>1, <1>3, ProcessAssumption DEF MailsAreOld, Running, Notifying
<1>6. ASSUME NEW q \in Scheduled, NEW r, NEW j, Mailing(q, r, j) PROVE Mailing(q, r, j)'
  BY <1>1, <1>6, ProcessAssumption DEF Mailing
<1> QED BY <1>3, <1>4, <1>5, <1>6 DEF MailsAreOld, HasRow

LEMMA LaunchScheduledStep == ASSUME Inv, NEW p \in Process, LaunchScheduled(p) PROVE Inv'
<1>1. /\ p \in Scheduled /\ ~lock /\ lock' = TRUE /\ notifier[p].pc = "idle"
      /\ UNCHANGED <<now, rows, crawled, failures, checkpoint, horizon, mailed, byHand>>
  BY DEF LaunchScheduled, Launch, Notifying
<1>2. PICK n : n = [IdleNotifier EXCEPT !.pc = "crawl", !.command = "notify"] OBVIOUS
<1>3. PICK c : c = [IdleCrawler EXCEPT !.pc = "start"] OBVIOUS
<1>4. /\ n \in NotifyPlaces /\ n.pc = "crawl" /\ ~n.moves /\ n.digest = {} /\ n.since = Nil
      /\ c \in CrawlPlaces /\ c.pc = "start" /\ c.seen = {}
  BY <1>2, <1>3, IdleTyped DEF NotifyPlaces, CrawlPlaces
<1>5. Becomes(p, n) /\ crawler' = [crawler EXCEPT ![p] = c]
  BY <1>2, <1>3 DEF LaunchScheduled, Launch, BeginCrawl, Crawls
<1>6. notifier'[p] = n /\ crawler'[p] = c /\ \A q \in Process \ {p} : notifier'[q] = notifier[q]
  BY <1>5 DEF Inv, TypeOK, Becomes
<1>7. ASSUME UndisturbedInv
      PROVE  ScheduledAlone' /\ SendsOnly(p)' /\ CrawlIsTrue(p)' /\ DigestIsTrue(n)' /\ OnTheWay(p)' /\ MailsAreOld'
  <2>1. \A q \in Scheduled : Running(q)' => q = p
    BY <1>1, <1>6, <1>7, ProcessAssumption DEF UndisturbedInv, ScheduledAlone, Running, Notifying
  <2>2. ScheduledAlone' BY <1>1, <2>1 DEF ScheduledAlone
  <2>3. CrawlIsTrue(p)' BY <1>4, <1>6 DEF CrawlIsTrue, UnderWay
  <2>4. DigestIsTrue(n)' BY <1>4 DEF DigestIsTrue, AfterSince, AfterBuild
  <2>5. SendsOnly(p)' /\ OnTheWay(p)'
    BY <1>1, <1>4, <1>6, ProcessAssumption DEF SendsOnly, OnTheWay
  <2>6. MailsAreOld' BY <1>1, <1>4, <1>5, <1>7, MailsStay, ProcessAssumption DEF Inv
  <2> QED BY <2>2, <2>3, <2>4, <2>5, <2>6
<1>8. Undisturbed' => Undisturbed BY <1>1 DEF Undisturbed
<1> QED BY <1>1, <1>4, <1>5, <1>7, <1>8, ComesAndGoes DEF Inv, TypeOK

LEMMA LaunchByHandStep ==
  ASSUME Inv, NEW p \in Process, NEW command \in {"notify", "crawl"}, LaunchByHand(p, command)
  PROVE  Inv'
<1>1. UNCHANGED <<now, rows, crawled, failures, lock, checkpoint, horizon, mailed>>
      /\ byHand' = Append(byHand, command)
  BY DEF LaunchByHand, Launch, ByHand
<1>2. PICK n : n = [IdleNotifier EXCEPT !.pc = "crawl", !.command = command] OBVIOUS
<1>3. PICK c : c = [IdleCrawler EXCEPT !.pc = "start"] OBVIOUS
<1>4. n \in NotifyPlaces /\ c \in CrawlPlaces /\ c.pc = "start"
  BY <1>2, <1>3, IdleTyped DEF NotifyPlaces, CrawlPlaces
<1>5. Becomes(p, n) /\ crawler' = [crawler EXCEPT ![p] = c]
  BY <1>2, <1>3 DEF LaunchByHand, Launch, BeginCrawl, Crawls
<1>6. ~Undisturbed' BY <1>1, OthersDisturb DEF Inv
<1>7. byHand' \in Seq({"notify", "crawl", "send"}) BY <1>1 DEF Inv, TypeOK
<1> QED BY <1>1, <1>4, <1>5, <1>6, <1>7, ComesAndGoes DEF Inv, TypeOK

LEMMA LaunchSendStep ==
  ASSUME Inv, NEW p \in Process, NEW since \in Time, LaunchSend(p, since) PROVE Inv'
<1>1. /\ p \in Manual /\ byHand' = Append(byHand, "send")
      /\ UNCHANGED <<now, rows, crawler, crawled, failures, lock, checkpoint, horizon, mailed>>
  BY DEF LaunchSend, ByHand, NoCrawl, crawlVars
<1>2. PICK n : n = [IdleNotifier EXCEPT !.pc = "open", !.command = "send", !.generated = now,
                                        !.since = since]
  OBVIOUS
<1>3. /\ n \in NotifyPlaces /\ n.pc = "open" /\ ~n.moves /\ n.digest = {}
      /\ now \in Time /\ crawler[p] \in CrawlPlaces
  BY <1>2, IdleTyped DEF NotifyPlaces, Inv, TypeOK
<1>4. PICK c : c = crawler[p] OBVIOUS
<1>5. crawler' = [crawler EXCEPT ![p] = c] /\ Becomes(p, n)
  BY <1>1, <1>2, <1>4 DEF LaunchSend, Inv, TypeOK
<1>6. notifier'[p] = n /\ \A q \in Process \ {p} : notifier'[q] = notifier[q]
  BY <1>5 DEF Inv, TypeOK, Becomes
<1>7. byHand' # <<>> /\ byHand' \in Seq({"notify", "crawl", "send"}) BY <1>1 DEF Inv, TypeOK
<1>8. Undisturbed' => Undisturbed BY <1>1, StaysUndisturbed DEF Inv
<1>9. ASSUME UndisturbedInv
      PROVE  ScheduledAlone' /\ SendsOnly(p)' /\ CrawlIsTrue(p)' /\ DigestIsTrue(n)' /\ OnTheWay(p)' /\ MailsAreOld'
  <2>1. \A q \in Scheduled : Running(q)' <=> Running(q)
    BY <1>1, <1>6, ProcessAssumption DEF Running, Notifying
  <2>2. ScheduledAlone' BY <1>1, <1>9, <2>1 DEF UndisturbedInv, ScheduledAlone
  <2>3. CrawlIsTrue(p)' BY <1>3, <1>6 DEF CrawlIsTrue
  <2>4. DigestIsTrue(n)' BY <1>3 DEF DigestIsTrue, AfterSince, AfterBuild
  <2>5. SendsOnly(p)' /\ OnTheWay(p)'
    BY <1>1, <1>3, <1>6, ProcessAssumption DEF SendsOnly, OnTheWay
  <2>6. MailsAreOld' BY <1>7 DEF MailsAreOld
  <2> QED BY <2>2, <2>3, <2>4, <2>5, <2>6
<1>10. c \in CrawlPlaces /\ (c.pc = "write" => c.job \in Posting)
  BY <1>3, <1>4 DEF Inv, TypeOK
<1> QED BY <1>1, <1>3, <1>5, <1>7, <1>8, <1>9, <1>10, ComesAndGoes DEF Inv, TypeOK

(* Who ends or is killed rests; the lock is taken away only by its owner.    *)
LEMMA Rests ==
  ASSUME Inv, NEW p \in Process, Becomes(p, IdleNotifier), Crawls(p, IdleCrawler), Running(p),
         UNCHANGED <<now, rows, crawled, checkpoint, horizon, mailed, byHand>>,
         lock' \in BOOLEAN, p \in Manual => lock' = lock,
         failures' \in Nat, failures' # 0 \/ (failures' = failures /\ notifier[p].pc = "end")
  PROVE  Inv'
<1>1. PICK n : n = IdleNotifier OBVIOUS
<1>2. PICK c : c = IdleCrawler OBVIOUS
<1>3. /\ n \in NotifyPlaces /\ n.pc = "idle" /\ ~n.moves /\ n.digest = {} /\ n.since = Nil
      /\ c \in CrawlPlaces /\ c.pc = "idle"
  BY <1>1, <1>2, IdleTyped
<1>4. Becomes(p, n) /\ crawler' = [crawler EXCEPT ![p] = c] BY <1>1, <1>2 DEF Crawls
<1>5. notifier'[p] = n /\ \A q \in Process \ {p} : notifier'[q] = notifier[q]
  BY <1>4 DEF Inv, TypeOK, Becomes
<1>6. ASSUME UndisturbedInv
      PROVE  ScheduledAlone' /\ SendsOnly(p)' /\ CrawlIsTrue(p)' /\ DigestIsTrue(n)' /\ OnTheWay(p)' /\ MailsAreOld'
  <2>1. ~Running(p)' BY <1>3, <1>5 DEF Running, Notifying
  <2>2. \A q \in Process \ {p} : Running(q)' <=> Running(q) BY <1>5 DEF Running, Notifying
  <2>3. ScheduledAlone' BY <1>6, <2>1, <2>2, ProcessAssumption DEF UndisturbedInv, ScheduledAlone
  <2>4. CrawlIsTrue(p)' BY <1>3, <1>5 DEF CrawlIsTrue
  <2>5. DigestIsTrue(n)' BY <1>3 DEF DigestIsTrue, AfterSince, AfterBuild
  <2>6. SendsOnly(p)' /\ OnTheWay(p)' BY <1>3, <1>5 DEF SendsOnly, OnTheWay
  <2>7. MailsAreOld'
    <3>1. CASE failures' # 0 BY <3>1 DEF MailsAreOld
    <3>2. CASE failures' = failures /\ notifier[p].pc = "end"
      BY <1>3, <1>4, <1>6, <3>2, MailsStay DEF Inv
    <3> QED BY <3>1, <3>2
  <2> QED BY <2>3, <2>4, <2>5, <2>6, <2>7
<1>7. Undisturbed' => Undisturbed BY DEF Undisturbed
<1> QED BY <1>3, <1>4, <1>6, <1>7, ComesAndGoes DEF Inv, TypeOK

LEMMA EndStep == ASSUME Inv, NEW p \in Process, End(p) PROVE Inv'
<1>1. lock' \in BOOLEAN /\ (p \in Manual => lock' = lock)
  BY ProcessAssumption DEF End, Inv, TypeOK
<1> QED BY <1>1, Rests DEF End, Running, Notifying, Inv, TypeOK

LEMMA KillStep == ASSUME Inv, NEW p \in Process, Kill(p) PROVE Inv'
<1>1. failures' \in Nat /\ failures' # 0 BY DEF Kill, FailOnce, Inv, TypeOK
<1> QED BY <1>1, Rests DEF Kill, Running, Notifying, Inv, TypeOK

LEMMA TickStep == ASSUME Inv, Tick, UNCHANGED digestOnly PROVE Inv'
<1>1. /\ UNCHANGED <<rows, crawler, crawled, failures, lock, checkpoint, horizon, notifier, mailed, byHand>>
      /\ now \in Nat /\ now' = now + 1 /\ now' \in Time
  BY ClockAssumption DEF Tick, digestOnly, Inv, TypeOK, Time
<1>2. TypeOK' BY <1>1 DEF Inv, TypeOK
<1>3. SUFFICES ASSUME Undisturbed, UndisturbedInv PROVE UndisturbedInv'
  BY <1>1, <1>2 DEF Inv, Undisturbed
<1>4. \A t \in Nat : t <= now => t <= now' BY <1>1
<1>5. ScheduledAlone' BY <1>1, <1>3 DEF UndisturbedInv, ScheduledAlone, Running, Notifying
<1>6. \A s \in Source : SourceIsTrue(s)' BY <1>1, <1>3 DEF UndisturbedInv, SourceIsTrue, HasRow
<1>7. ASSUME NEW q \in Process PROVE Honest(q)'
  <2>1. Honest(q) BY <1>3 DEF UndisturbedInv
  <2>2. crawler[q].started \in Nat /\ notifier[q].generated \in Nat
    BY TimeIsNat DEF Inv, TypeOK, CrawlPlaces, NotifyPlaces
  <2>3. CrawlIsTrue(q)' BY <1>1, <1>4, <2>1, <2>2 DEF Honest, CrawlIsTrue, HasRow
  <2>4. DigestIsTrue(notifier[q])' BY <1>1, <1>4, <2>1, <2>2 DEF Honest, DigestIsTrue, HasRow
  <2> QED BY <1>1, <2>1, <2>3, <2>4 DEF Honest, SendsOnly, OnTheWay
<1>8. (\A j \in Posting : HasRow(j) => rows[j].firstSeen <= now)'
  <2>1. \A j \in Posting : HasRow(j) => rows[j].firstSeen \in Nat
    BY TimeIsNat DEF Inv, TypeOK, Rows, HasRow
  <2> QED BY <1>1, <1>3, <1>4, <2>1 DEF UndisturbedInv, HasRow
<1>9. (checkpoint # Nil => checkpoint <= now)'
  BY <1>1, <1>3, <1>4, TimeIsNat DEF UndisturbedInv, Inv, TypeOK
<1>10. MailsAreOld' BY <1>1, <1>3 DEF UndisturbedInv, MailsAreOld, Mailing, Running, Notifying, HasRow
<1> QED BY <1>5, <1>6, <1>7, <1>8, <1>9, <1>10 DEF UndisturbedInv

-----------------------------------------------------------------------------
(* The crawl *)

(* A row that is there keeps its first_seen_at.                              *)
FirstSeenStays == \A j \in Posting : HasRow(j) => rows'[j].firstSeen = rows[j].firstSeen

LEMMA OnlyCrawls ==
  ASSUME Inv, NEW p \in Process, NEW c \in CrawlPlaces, Crawls(p, c), Notifying(p, "crawl"),
         c.pc = "write" => c.job \in Posting,
         UNCHANGED <<now, digestOnly>>, rows' \in [Posting -> Rows], FirstSeenStays,
         crawled' \in [Source -> [ok : BOOLEAN, jobs : SUBSET Posting]],
         failures' \in Nat, failures' = 0 => failures = 0,
         UndisturbedInv => CrawlIsTrue(p)' /\ (\A s \in Source : SourceIsTrue(s)')
                           /\ (\A j \in Posting : HasRow(j) => rows[j].firstSeen <= now)'
  PROVE  Inv'
<1>1. UNCHANGED <<lock, checkpoint, horizon, notifier, mailed, byHand>> BY DEF digestOnly
<1>2. crawler' \in [Process -> CrawlPlaces] /\ crawler'[p] = c
      /\ \A q \in Process \ {p} : crawler'[q] = crawler[q]
  BY DEF Inv, TypeOK, Crawls
<1>3. TypeOK' BY <1>1, <1>2 DEF Inv, TypeOK
<1>4. SUFFICES ASSUME Undisturbed, UndisturbedInv PROVE UndisturbedInv'
  BY <1>1, <1>3 DEF Inv, Undisturbed
<1>5. ScheduledAlone' BY <1>1, <1>4 DEF UndisturbedInv, ScheduledAlone, Running, Notifying
<1>6. \A j \in Posting : HasRow(j) => HasRow(j)' BY DEF FirstSeenStays, HasRow
<1>7. ASSUME NEW q \in Process PROVE Honest(q)'
  <2>1. Honest(q) /\ notifier[q] \in NotifyPlaces BY <1>4 DEF UndisturbedInv, Inv, TypeOK
  <2>2. CrawlIsTrue(q)'
    <3>1. CASE q = p BY <1>4, <3>1
    <3>2. CASE q # p
      <4>1. notifier[q].pc # "crawl" BY <1>4, <3>2, OneAtATime DEF Inv, Notifying
      <4> QED BY <1>1, <4>1 DEF CrawlIsTrue
    <3> QED BY <3>1, <3>2
  <2>3. ~notifier[q].moves
    <3>1. CASE q = p BY <2>1, <3>1 DEF Honest, DigestIsTrue, Notifying
    <3>2. CASE q # p BY <1>4, <3>2, OneAtATime DEF Inv, Notifying
    <3> QED BY <3>1, <3>2
  <2>4. notifier[q].digest \subseteq Posting BY <2>1, DigestAssumption DEF NotifyPlaces
  <2>5. DigestIsTrue(notifier[q])' BY <1>1, <1>6, <2>1, <2>3, <2>4 DEF Honest, DigestIsTrue
  <2> QED BY <1>1, <2>1, <2>2, <2>5 DEF Honest, SendsOnly, OnTheWay
<1>8. MailsAreOld'
  BY <1>1, <1>4, <1>6 DEF UndisturbedInv, MailsAreOld, FirstSeenStays, Mailing, Running, Notifying
<1> QED BY <1>1, <1>4, <1>5, <1>7, <1>8 DEF UndisturbedInv

(* The steps that leave the table alone: who goes on to another place.       *)
LEMMA CrawlerMoves ==
  ASSUME Inv, NEW p \in Process, NEW c \in CrawlPlaces, Crawls(p, c), Notifying(p, "crawl"),
         c.pc = "write" => c.job \in Posting,
         UNCHANGED <<now, digestOnly, rows, crawled>>,
         failures' \in Nat, failures' = 0 => failures = 0,
         c.pc \in {"start", "done"} => c.seen = {},
         c.pc \notin {"start", "done"} =>
           /\ UnderWay(crawler[p]) /\ UnderWay(c) /\ c.pc # "finish"
           /\ c.source = crawler[p].source /\ c.started = crawler[p].started
           /\ c.seen = crawler[p].seen
           /\ c.pc = "write" /\ c.found => HasRow(c.job)
  PROVE  Inv'
<1>1. crawler'[p] = c BY DEF Inv, TypeOK, Crawls
<1>2. ASSUME UndisturbedInv
      PROVE  CrawlIsTrue(p)' /\ (\A s \in Source : SourceIsTrue(s)')
             /\ (\A j \in Posting : HasRow(j) => rows[j].firstSeen <= now)'
  <2>1. CrawlIsTrue(p) BY <1>2 DEF UndisturbedInv, Honest
  <2>2. CrawlIsTrue(p)'
    BY <1>1, <2>1 DEF CrawlIsTrue, UnderWay, Notifying, digestOnly, HasRow
  <2>3. \A s \in Source : SourceIsTrue(s)' BY <1>2 DEF UndisturbedInv, SourceIsTrue, HasRow
  <2> QED BY <1>2, <2>2, <2>3 DEF UndisturbedInv, HasRow
<1>3. FirstSeenStays BY DEF FirstSeenStays
<1> QED BY <1>2, <1>3, OnlyCrawls DEF Inv, TypeOK

LEMMA NextSourceStep ==
  ASSUME Inv, NEW p \in Process, NEW ok \in SUBSET Source, NextSource(p, ok)
  PROVE  \E c \in CrawlPlaces : Crawls(p, c) /\ c.pc \in {"start", "done"} /\ c.seen = {}
<1>1. crawler[p].source \in Source BY DEF Inv, TypeOK, CrawlPlaces
<1>2. PICK c : c = IF SourceOf(p) = NumSources
                   THEN [IdleCrawler EXCEPT !.pc = "done", !.ok = ok]
                   ELSE [IdleCrawler EXCEPT !.pc = "start", !.ok = ok, !.source = SourceOf(p) + 1]
  OBVIOUS
<1>3. SourceOf(p) # NumSources => SourceOf(p) + 1 \in Source
  BY <1>1, SourceAssumption DEF Source, SourceOf
<1>4. c \in CrawlPlaces /\ c.pc \in {"start", "done"} /\ c.seen = {}
  BY <1>2, <1>3, IdleTyped DEF CrawlPlaces
<1> QED BY <1>2, <1>4 DEF NextSource

LEMMA ParseJobsStep ==
  ASSUME Inv, NEW p \in Process, Notifying(p, "crawl"), ParseJobs(p), UNCHANGED digestOnly PROVE Inv'
<1>1. crawler[p] \in CrawlPlaces /\ crawler[p].pc = "fetch" BY DEF Inv, TypeOK, ParseJobs, Crawling
<1>2. PICK page \in SUBSET Lists[SourceOf(p)] :
        Crawls(p, [crawler[p] EXCEPT !.todo = page, !.pc = IF page = {} THEN "mark" ELSE "find"])
  BY DEF ParseJobs
<1>3. page \subseteq Posting
  BY <1>1, ListsAssumption DEF SourceOf, CrawlPlaces
<1>4. PICK c : c = [crawler[p] EXCEPT !.todo = page, !.pc = IF page = {} THEN "mark" ELSE "find"]
  OBVIOUS
<1>5. c \in CrawlPlaces /\ c.pc \in {"mark", "find"} /\ c.source = crawler[p].source
      /\ c.started = crawler[p].started /\ c.seen = crawler[p].seen
  BY <1>1, <1>3, <1>4 DEF CrawlPlaces
<1> QED BY <1>1, <1>2, <1>4, <1>5, CrawlerMoves DEF ParseJobs, UnderWay, Inv, TypeOK

LEMMA FindJobStep ==
  ASSUME Inv, NEW p \in Process, Notifying(p, "crawl"), FindJob(p), UNCHANGED digestOnly PROVE Inv'
<1>1. crawler[p] \in CrawlPlaces /\ crawler[p].pc = "find" BY DEF Inv, TypeOK, FindJob, Crawling
<1>2. PICK j \in crawler[p].todo :
        Crawls(p, [crawler[p] EXCEPT !.job = j, !.found = HasRow(j), !.pc = "write"])
  BY DEF FindJob
<1>3. j \in Posting BY <1>1 DEF CrawlPlaces
<1>4. PICK c : c = [crawler[p] EXCEPT !.job = j, !.found = HasRow(j), !.pc = "write"] OBVIOUS
<1>5. HasRow(j) \in BOOLEAN BY DEF HasRow
<1>6. c \in CrawlPlaces /\ c.pc = "write" /\ c.source = crawler[p].source /\ c.job = j
      /\ c.found = HasRow(j)
      /\ c.started = crawler[p].started /\ c.seen = crawler[p].seen
  BY <1>1, <1>3, <1>4, <1>5 DEF CrawlPlaces
<1> QED BY <1>1, <1>2, <1>3, <1>4, <1>6, CrawlerMoves DEF FindJob, UnderWay, Inv, TypeOK

(* A crawl of a source that breaks off.                                      *)
LEMMA CrawlBreaks ==
  ASSUME Inv, NEW p \in Process, Notifying(p, "crawl"), Onward(p, "failed"), UnderWay(crawler[p]),
         UNCHANGED <<now, digestOnly, rows, crawled>>,
         failures' \in Nat, failures' = 0 => failures = 0
  PROVE  Inv'
<1>1. crawler[p] \in CrawlPlaces BY DEF Inv, TypeOK
<1>2. PICK c : c = [crawler[p] EXCEPT !.pc = "failed"] OBVIOUS
<1>3. c \in CrawlPlaces /\ c.pc = "failed" /\ c.source = crawler[p].source
      /\ c.started = crawler[p].started /\ c.seen = crawler[p].seen
  BY <1>1, <1>2 DEF CrawlPlaces
<1> QED BY <1>2, <1>3, CrawlerMoves DEF Onward, UnderWay

LEMMA InsertRefusedStep ==
  ASSUME Inv, NEW p \in Process, Notifying(p, "crawl"), InsertRefused(p), UNCHANGED digestOnly
  PROVE  Inv'
BY CrawlBreaks DEF InsertRefused, Crawling, UnderWay, Inv, TypeOK

LEMMA FailRunStep ==
  ASSUME Inv, NEW p \in Process, Notifying(p, "crawl"), FailRun(p), UNCHANGED digestOnly PROVE Inv'
<1>1. crawler[p].ok \in SUBSET Source BY DEF Inv, TypeOK, CrawlPlaces
<1>2. PICK c \in CrawlPlaces : Crawls(p, c) /\ c.pc \in {"start", "done"} /\ c.seen = {}
  BY <1>1, NextSourceStep DEF FailRun
<1> QED BY <1>2, CrawlerMoves DEF FailRun, Inv, TypeOK

LEMMA SourceRaisesStep ==
  ASSUME Inv, NEW p \in Process, Notifying(p, "crawl"), SourceRaises(p), UNCHANGED digestOnly PROVE Inv'
<1>1. failures' \in Nat /\ failures' # 0 BY DEF Inv, TypeOK, SourceRaises, FailOnce
<1>2. CASE Crawling(p, "start")
  <2>1. crawler[p].ok \in SUBSET Source BY DEF Inv, TypeOK, CrawlPlaces
  <2>2. PICK c \in CrawlPlaces : Crawls(p, c) /\ c.pc \in {"start", "done"} /\ c.seen = {}
    BY <1>2, <2>1, NextSourceStep DEF SourceRaises
  <2> QED BY <1>1, <2>2, CrawlerMoves DEF SourceRaises
<1>3. CASE ~Crawling(p, "start")
  BY <1>1, <1>3, CrawlBreaks DEF SourceRaises, Crawling, UnderWay
<1> QED BY <1>2, <1>3

LEMMA StartRunStep ==
  ASSUME Inv, NEW p \in Process, Notifying(p, "crawl"), StartRun(p), UNCHANGED digestOnly PROVE Inv'
<1>1. crawler[p] \in CrawlPlaces /\ crawler[p].pc = "start" /\ now \in Time
  BY DEF Inv, TypeOK, StartRun, Crawling
<1>2. PICK c : c = [crawler[p] EXCEPT !.pc = "fetch", !.started = now] OBVIOUS
<1>3. c \in CrawlPlaces /\ c.pc = "fetch" /\ c.source = crawler[p].source /\ c.started = now
      /\ c.seen = crawler[p].seen
  BY <1>1, <1>2 DEF CrawlPlaces
<1>4. PICK run : run = [crawled[c.source] EXCEPT !.ok = FALSE] OBVIOUS
<1>5. crawled' = [crawled EXCEPT ![c.source] = run] /\ Crawls(p, c)
  BY <1>2, <1>3, <1>4 DEF StartRun, SourceOf
<1>6. c.source \in Source /\ run \in [ok : BOOLEAN, jobs : SUBSET Posting] /\ ~run.ok
  <2>1. c.source \in Source BY <1>3 DEF CrawlPlaces
  <2>2. crawled[c.source] \in [ok : BOOLEAN, jobs : SUBSET Posting] BY <2>1 DEF Inv, TypeOK
  <2> QED BY <1>4, <2>1, <2>2
<1>7. crawled' \in [Source -> [ok : BOOLEAN, jobs : SUBSET Posting]] /\ crawled'[c.source] = run
      /\ \A s \in Source \ {c.source} : crawled'[s] = crawled[s]
  BY <1>5, <1>6 DEF Inv, TypeOK
<1>8. UNCHANGED <<now, rows, failures, checkpoint, notifier>> BY DEF StartRun, digestOnly
<1>9. crawler'[p] = c BY <1>5 DEF Inv, TypeOK, Crawls
<1>10. ASSUME UndisturbedInv
       PROVE  CrawlIsTrue(p)' /\ (\A s \in Source : SourceIsTrue(s)')
              /\ (\A j \in Posting : HasRow(j) => rows[j].firstSeen <= now)'
  <2>1. c.seen = {} BY <1>1, <1>3, <1>10 DEF UndisturbedInv, Honest, CrawlIsTrue, Notifying
  <2>2. now <= now BY <1>1, TimeIsNat
  <2>3. CrawlIsTrue(p)'
    BY <1>3, <1>6, <1>7, <1>8, <1>9, <1>10, <2>1, <2>2 DEF CrawlIsTrue, UndisturbedInv
  <2>4. ASSUME NEW s \in Source PROVE SourceIsTrue(s)'
    <3>1. SourceIsTrue(s) BY <1>10 DEF UndisturbedInv
    <3>2. CASE s = c.source BY <1>6, <1>7, <3>2 DEF SourceIsTrue
    <3>3. CASE s # c.source BY <1>7, <1>8, <3>1, <3>3 DEF SourceIsTrue, HasRow
    <3> QED BY <3>2, <3>3
  <2> QED BY <1>8, <1>10, <2>3, <2>4 DEF UndisturbedInv, HasRow
<1>11. FirstSeenStays BY <1>8 DEF FirstSeenStays
<1> QED BY <1>3, <1>5, <1>7, <1>8, <1>10, <1>11, OnlyCrawls DEF Inv, TypeOK

LEMMA FinishRunStep ==
  ASSUME Inv, NEW p \in Process, Notifying(p, "crawl"), FinishRun(p), UNCHANGED digestOnly PROVE Inv'
<1>1. crawler[p] \in CrawlPlaces /\ crawler[p].pc = "finish" /\ crawler[p].source \in Source
  BY DEF Inv, TypeOK, CrawlPlaces, FinishRun, Crawling
<1>2. crawler[p].ok \cup {SourceOf(p)} \in SUBSET Source BY <1>1 DEF CrawlPlaces, SourceOf
<1>3. PICK c \in CrawlPlaces : Crawls(p, c) /\ c.pc \in {"start", "done"} /\ c.seen = {}
  BY <1>2, NextSourceStep DEF FinishRun
<1>4. PICK own : own = crawler[p].source OBVIOUS
<1>5. PICK run : run = [ok |-> TRUE, jobs |-> crawler[p].seen] OBVIOUS
<1>6. own \in Source /\ run \in [ok : BOOLEAN, jobs : SUBSET Posting] /\ run.jobs = crawler[p].seen
  BY <1>1, <1>4, <1>5 DEF CrawlPlaces
<1>7. crawled' \in [Source -> [ok : BOOLEAN, jobs : SUBSET Posting]] /\ crawled'[own] = run
      /\ \A s \in Source \ {own} : crawled'[s] = crawled[s]
  BY <1>4, <1>5, <1>6 DEF FinishRun, SourceOf, Inv, TypeOK
<1>8. UNCHANGED <<now, rows, failures>> BY DEF FinishRun
<1>9. crawler'[p] = c BY <1>3 DEF Inv, TypeOK, Crawls
<1>10. ASSUME UndisturbedInv
       PROVE  CrawlIsTrue(p)' /\ (\A s \in Source : SourceIsTrue(s)')
              /\ (\A j \in Posting : HasRow(j) => rows[j].firstSeen <= now)'
  <2>1. CrawlIsTrue(p)' BY <1>3, <1>9 DEF CrawlIsTrue, UnderWay
  <2>2. CrawlIsTrue(p) BY <1>10 DEF UndisturbedInv, Honest
  <2>3. SourceIsTrue(own)'
    BY <1>1, <1>4, <1>6, <1>7, <1>8, <2>2 DEF CrawlIsTrue, UnderWay, SourceIsTrue, HasRow, Notifying
  <2>4. \A s \in Source \ {own} : SourceIsTrue(s)'
    BY <1>7, <1>8, <1>10 DEF UndisturbedInv, SourceIsTrue, HasRow
  <2> QED BY <1>8, <1>10, <2>1, <2>3, <2>4 DEF UndisturbedInv, HasRow
<1>11. FirstSeenStays BY <1>8 DEF FirstSeenStays
<1> QED BY <1>3, <1>7, <1>8, <1>10, <1>11, OnlyCrawls DEF Inv, TypeOK

LEMMA WriteJobStep ==
  ASSUME Inv, NEW p \in Process, Notifying(p, "crawl"), WriteJob(p), UNCHANGED digestOnly PROVE Inv'
<1>1. crawler[p] \in CrawlPlaces /\ crawler[p].pc = "write" /\ crawler[p].job \in Posting
  BY DEF Inv, TypeOK, WriteJob, Crawling
<1>2. PICK job : job = crawler[p].job OBVIOUS
<1>3. PICK row : row = Upserted(rows[job], p) OBVIOUS
<1>4. PICK c : c = [crawler[p] EXCEPT !.todo = crawler[p].todo \ {job},
                      !.seen = crawler[p].seen \cup {job}, !.job = Nil, !.found = FALSE,
                      !.pc = IF crawler[p].todo \ {job} = {} THEN "mark" ELSE "find"]
  OBVIOUS
<1>5. c \in CrawlPlaces /\ c.pc \in {"mark", "find"} /\ c.source = crawler[p].source
      /\ c.started = crawler[p].started /\ c.seen = crawler[p].seen \cup {job}
  BY <1>1, <1>2, <1>4 DEF CrawlPlaces
<1>6. Crawls(p, c) /\ crawler'[p] = c BY <1>2, <1>4 DEF WriteJob, JobSeen, Inv, TypeOK, Crawls
<1>7. rows[job] \in Rows BY <1>1, <1>2 DEF Inv, TypeOK
<1>8. row \in Rows /\ row.source = c.source /\ row.active
      /\ row.firstSeen = IF crawler[p].found THEN rows[job].firstSeen ELSE c.started
  BY <1>1, <1>3, <1>5, <1>7 DEF Upserted, SourceOf, Rows, CrawlPlaces
<1>9. rows' \in [Posting -> Rows] /\ rows'[job] = row
      /\ \A j \in Posting \ {job} : rows'[j] = rows[j]
  BY <1>1, <1>2, <1>3, <1>8 DEF WriteJob, Inv, TypeOK
<1>10. UNCHANGED <<now, crawled, failures, checkpoint, notifier>> BY DEF WriteJob, digestOnly
<1>11. FirstSeenStays
  <2>1. HasRow(job) => row.firstSeen = rows[job].firstSeen BY <1>2, <1>8 DEF WriteJob
  <2> QED BY <1>9, <2>1 DEF FirstSeenStays
<1>12. ASSUME UndisturbedInv
       PROVE  CrawlIsTrue(p)' /\ (\A s \in Source : SourceIsTrue(s)')
              /\ (\A j \in Posting : HasRow(j) => rows[j].firstSeen <= now)'
  <2>1. CrawlIsTrue(p) BY <1>12 DEF UndisturbedInv, Honest
  <2>2. c.started <= now /\ ~crawled[c.source].ok /\ c.source \in Source
    BY <1>1, <1>5, <2>1 DEF CrawlIsTrue, UnderWay, Notifying, CrawlPlaces
  <2>3. row.firstSeen # Nil /\ row.firstSeen <= now
    <3>1. CASE crawler[p].found
      <4>1. HasRow(job) BY <1>1, <1>2, <2>1, <3>1 DEF CrawlIsTrue, UnderWay, Notifying
      <4> QED BY <1>1, <1>2, <1>8, <1>12, <3>1, <4>1 DEF UndisturbedInv, HasRow
    <3>2. CASE ~crawler[p].found
      <4>1. c.started # Nil BY <1>5, TimeIsNat DEF CrawlPlaces
      <4> QED BY <1>8, <2>2, <3>2, <4>1
    <3> QED BY <3>1, <3>2
  <2>4. \A j \in Posting : HasRow(j)' <=> HasRow(j) \/ j = job
    BY <1>9, <2>3 DEF HasRow
  <2>5. crawler[p].seen \subseteq Posting BY <1>1 DEF CrawlPlaces
  <2>6. ASSUME NEW j \in c.seen PROVE HasRow(j)' /\ rows'[j].source = c.source /\ rows'[j].active
    <3>1. CASE j = job BY <1>1, <1>2, <1>8, <1>9, <2>4, <3>1
    <3>2. CASE j # job
      <4>1. j \in crawler[p].seen /\ j \in Posting BY <1>5, <2>5, <3>2
      <4>2. HasRow(j) /\ rows[j].source = c.source /\ rows[j].active
        BY <1>1, <1>5, <2>1, <4>1 DEF CrawlIsTrue, UnderWay, Notifying
      <4> QED BY <1>9, <2>4, <3>2, <4>1, <4>2
    <3> QED BY <3>1, <3>2
  <2>7. CrawlIsTrue(p)'
    BY <1>1, <1>5, <1>6, <1>10, <2>1, <2>2, <2>6 DEF CrawlIsTrue, UnderWay, Notifying
  <2>8. ASSUME NEW s \in Source PROVE SourceIsTrue(s)'
    <3>1. SUFFICES ASSUME crawled[s].ok PROVE SourceIsTrue(s)' BY <1>10 DEF SourceIsTrue
    <3>2. SourceIsTrue(s) /\ s # c.source BY <1>12, <2>2, <3>1 DEF UndisturbedInv
    <3>3. crawled[s].jobs \subseteq Posting BY DEF Inv, TypeOK
    <3> QED BY <1>8, <1>9, <1>10, <2>4, <3>1, <3>2, <3>3 DEF SourceIsTrue
  <2>9. (\A j \in Posting : HasRow(j) => rows[j].firstSeen <= now)'
    BY <1>9, <1>10, <1>12, <2>3, <2>4 DEF UndisturbedInv
  <2> QED BY <2>7, <2>8, <2>9
<1> QED BY <1>5, <1>6, <1>9, <1>10, <1>11, <1>12, OnlyCrawls DEF Inv, TypeOK

LEMMA MarkMissingStep ==
  ASSUME Inv, NEW p \in Process, Notifying(p, "crawl"), MarkMissing(p), UNCHANGED digestOnly
  PROVE  Inv'
<1>1. crawler[p] \in CrawlPlaces /\ crawler[p].pc = "mark" BY DEF Inv, TypeOK, MarkMissing, Crawling
<1>2. PICK c : c = [crawler[p] EXCEPT !.pc = "finish"] OBVIOUS
<1>3. c \in CrawlPlaces /\ c.pc = "finish" /\ c.source = crawler[p].source
      /\ c.started = crawler[p].started /\ c.seen = crawler[p].seen
  BY <1>1, <1>2 DEF CrawlPlaces
<1>4. Crawls(p, c) /\ crawler'[p] = c BY <1>2 DEF MarkMissing, Onward, Inv, TypeOK, Crawls
<1>5. ASSUME NEW j \in Posting
      PROVE  /\ rows'[j] \in Rows /\ rows'[j].source = rows[j].source
             /\ rows'[j].firstSeen = rows[j].firstSeen
             /\ rows'[j].active <=>
                  rows[j].active /\ ~(rows[j].source = c.source /\ j \notin c.seen)
  <2>1. rows[j] \in Rows BY DEF Inv, TypeOK
  <2>2. PICK off : off = [rows[j] EXCEPT !.active = FALSE] OBVIOUS
  <2>3. off \in Rows /\ off.source = rows[j].source /\ off.firstSeen = rows[j].firstSeen /\ ~off.active
    BY <2>1, <2>2 DEF Rows
  <2>4. rows'[j] = IF rows[j].source = c.source /\ j \notin c.seen THEN off ELSE rows[j]
    BY <1>3, <2>2 DEF MarkMissing, SourceOf
  <2> QED BY <2>1, <2>3, <2>4
<1>6. rows' \in [Posting -> Rows] BY <1>5 DEF MarkMissing
<1>7. UNCHANGED <<now, crawled, failures, checkpoint, notifier>> BY DEF MarkMissing, digestOnly
<1>8. FirstSeenStays BY <1>5 DEF FirstSeenStays
<1>9. \A j \in Posting : HasRow(j)' <=> HasRow(j) BY <1>5 DEF HasRow
<1>10. ASSUME UndisturbedInv
       PROVE  CrawlIsTrue(p)' /\ (\A s \in Source : SourceIsTrue(s)')
              /\ (\A j \in Posting : HasRow(j) => rows[j].firstSeen <= now)'
  <2>1. CrawlIsTrue(p) BY <1>10 DEF UndisturbedInv, Honest
  <2>2. ~crawled[c.source].ok /\ c.seen \subseteq Posting
    BY <1>1, <1>3, <2>1 DEF CrawlIsTrue, UnderWay, Notifying, CrawlPlaces
  <2>3. CrawlIsTrue(p)'
    <3>1. \A j \in c.seen : HasRow(j)' /\ rows'[j].source = c.source /\ rows'[j].active
      BY <1>1, <1>3, <1>5, <1>9, <2>1, <2>2 DEF CrawlIsTrue, UnderWay, Notifying
    <3>2. \A j \in Posting : rows'[j].source = c.source /\ rows'[j].active => j \in c.seen
      BY <1>5
    <3> QED BY <1>1, <1>3, <1>4, <1>7, <2>1, <3>1, <3>2 DEF CrawlIsTrue, UnderWay, Notifying
  <2>4. ASSUME NEW s \in Source PROVE SourceIsTrue(s)'
    <3>1. SUFFICES ASSUME crawled[s].ok PROVE SourceIsTrue(s)' BY <1>7 DEF SourceIsTrue
    <3>2. SourceIsTrue(s) /\ s # c.source BY <1>10, <2>2, <3>1 DEF UndisturbedInv
    <3>3. crawled[s].jobs \subseteq Posting BY DEF Inv, TypeOK
    <3> QED BY <1>5, <1>7, <1>9, <3>1, <3>2, <3>3 DEF SourceIsTrue
  <2> QED BY <1>5, <1>7, <1>9, <1>10, <2>3, <2>4 DEF UndisturbedInv
<1> QED BY <1>3, <1>4, <1>6, <1>7, <1>8, <1>10, OnlyCrawls DEF Inv, TypeOK

-----------------------------------------------------------------------------
LEMMA InitInv == ASSUME DigestInit PROVE Inv
<1> USE DEF DigestInit, CrawlInit
<1>1. NoRow \in Rows /\ NoRow.source = Nil /\ ~NoRow.active /\ NoRow.firstSeen = Nil BY DEF NoRow, Rows
<1>2. rows \in [Posting -> Rows] /\ \A j \in Posting : ~HasRow(j) /\ ~rows[j].active
  BY <1>1 DEF HasRow
<1>3. crawled \in [Source -> [ok : BOOLEAN, jobs : SUBSET Posting]] /\ \A s \in Source : ~crawled[s].ok
  OBVIOUS
<1>4. TypeOK
  <2>1. failures \in Nat /\ byHand \in Seq({"notify", "crawl", "send"}) OBVIOUS
  <2> QED BY <1>2, <1>3, <2>1, IdleTyped, TimeIsNat DEF TypeOK
<1>5. UndisturbedInv
  <2>1. \A p \in Process : notifier[p] = IdleNotifier /\ ~Running(p)
    BY IdleTyped DEF Running, Notifying
  <2>2. ScheduledAlone BY <2>1, ProcessAssumption DEF ScheduledAlone
  <2>3. ASSUME NEW p \in Process PROVE Honest(p)
    <3>1. CrawlIsTrue(p) BY <2>1, IdleTyped DEF CrawlIsTrue
    <3>2. DigestIsTrue(notifier[p]) BY <2>1, IdleTyped DEF DigestIsTrue, AfterSince, AfterBuild
    <3> QED BY <2>1, <3>1, <3>2, IdleTyped DEF Honest, SendsOnly, OnTheWay
  <2>4. MailsAreOld BY <2>1, IdleTyped, ProcessAssumption DEF MailsAreOld
  <2> QED BY <1>2, <1>3, <2>2, <2>3, <2>4 DEF UndisturbedInv, SourceIsTrue
<1> QED BY <1>4, <1>5 DEF Inv

LEMMA StutterStep == ASSUME Inv, UNCHANGED digestVars PROVE Inv'
<1>1. UNCHANGED <<now, rows, crawler, crawled, failures, lock, checkpoint, horizon, notifier, mailed, byHand>>
  BY DEF digestVars, crawlVars, digestOnly
<1> QED BY <1>1 DEF Inv, TypeOK, Undisturbed, UndisturbedInv, ScheduledAlone, Running, Notifying, HasRow,
               SourceIsTrue, Honest, SendsOnly, CrawlIsTrue, DigestIsTrue, OnTheWay, MailsAreOld, Mailing

LEMMA NextInv == ASSUME Inv, [Next]_digestVars PROVE Inv'
<1>1. ASSUME NEW p \in Process, Begin(p) PROVE Inv'
  BY <1>1, LaunchScheduledStep, LaunchByHandStep, LaunchSendStep DEF Begin
<1>2. ASSUME NEW p \in Process, CrawlPhase(p) PROVE Inv'
  BY <1>2, StartRunStep, ParseJobsStep, FindJobStep, WriteJobStep, InsertRefusedStep,
     MarkMissingStep, FinishRunStep, FailRunStep DEF CrawlPhase, CrawlStep
<1>3. ASSUME NEW p \in Process, NotifyStep(p) PROVE Inv'
  BY <1>3, DecideStep, ResolveSinceStep, OpenRunStep, BuildDigestStep, FinishSkippedStep,
     AddressStep, SendStep, FinishSentStep, AdvanceStep, FinishFailedStep, EndStep DEF NotifyStep
<1>4. ASSUME NEW p \in Process, Fails(p) PROVE Inv'
  BY <1>4, SourceRaisesStep, CrawlAbortsStep, NotifyRaisesStep DEF Fails
<1> QED BY <1>1, <1>2, <1>3, <1>4, KillStep, TickStep, StutterStep DEF Next, Step

(* The invariant the theorems below rest on: types, and what holds of lock,  *)
(* crawl, digest, checkpoint and mails while only the script crawls.         *)
THEOREM Invariant == DigestSpec => []Inv
BY InitInv, NextInv, PTL DEF DigestSpec

-----------------------------------------------------------------------------
(* The rows of the jobs table *)

LEMMA MarkKeepsFirstSeen ==
  ASSUME Inv, NEW p \in Process, MarkMissing(p)
  PROVE  \A j \in Posting : rows'[j].firstSeen = rows[j].firstSeen
<1>1. ASSUME NEW j \in Posting PROVE rows'[j].firstSeen = rows[j].firstSeen
  <2>1. rows[j] \in Rows BY DEF Inv, TypeOK
  <2>2. [rows[j] EXCEPT !.active = FALSE].firstSeen = rows[j].firstSeen BY <2>1 DEF Rows
  <2>3. rows'[j] \in {rows[j], [rows[j] EXCEPT !.active = FALSE]} BY DEF MarkMissing
  <2> QED BY <2>2, <2>3
<1> QED BY <1>1

LEMMA FirstSeenKept == ASSUME Inv, [Next]_digestVars PROVE FirstSeenStays
<1>1. CASE rows' = rows BY <1>1 DEF FirstSeenStays
<1>2. ASSUME NEW p \in Process, WriteJob(p) PROVE FirstSeenStays
  <2>1. PICK j : j = crawler[p].job OBVIOUS
  <2>2. j \in Posting BY <1>2, <2>1 DEF WriteJob, Crawling, Inv, TypeOK
  <2>3. rows' = [rows EXCEPT ![j] = Upserted(rows[j], p)] /\ (crawler[p].found \/ ~HasRow(j))
    BY <1>2, <2>1 DEF WriteJob
  <2>4. HasRow(j) => Upserted(rows[j], p).firstSeen = rows[j].firstSeen BY <2>3 DEF Upserted
  <2> QED BY <2>2, <2>3, <2>4 DEF FirstSeenStays, Inv, TypeOK
<1>3. ASSUME NEW p \in Process, MarkMissing(p) PROVE FirstSeenStays
  BY <1>3, MarkKeepsFirstSeen DEF FirstSeenStays
<1>4. ASSUME NEW p \in Process, CrawlStep(p), rows' # rows PROVE WriteJob(p) \/ MarkMissing(p)
  BY <1>4 DEF CrawlStep, StartRun, ParseJobs, FindJob, InsertRefused, FinishRun, FailRun
<1>5. ASSUME NEW p \in Process, NotifyStep(p) PROVE rows' = rows
  BY <1>5 DEF NotifyStep, Decide, ResolveSince, OpenRun, BuildDigest, FinishSkipped, Address, Send,
              FinishSent, AdvanceCheckpoint, FinishFailed, End, NoCrawl, crawlVars
<1>6. ASSUME NEW p \in Process, Begin(p) \/ Fails(p) \/ Kill(p) PROVE rows' = rows
  BY <1>6 DEF Begin, LaunchScheduled, LaunchByHand, LaunchSend, Launch, Fails, SourceRaises, CrawlAborts,
              NotifyRaises, Kill, NoCrawl, crawlVars
<1>7. CASE UNCHANGED digestVars BY <1>1, <1>7 DEF digestVars, crawlVars
<1> QED BY <1>1, <1>2, <1>3, <1>4, <1>5, <1>6, <1>7 DEF Next, Step, CrawlPhase, Tick

LEMMA RowsMatch == ASSUME Inv, Undisturbed PROVE ActiveMatchesLastCrawl
<1>1. \A s \in Source : SourceIsTrue(s) BY DEF Inv, UndisturbedInv
<1> QED BY <1>1 DEF ActiveMatchesLastCrawl, SourceIsTrue

(* upsert_job, mark_missing_jobs_inactive: a posting stays known and keeps   *)
(* its first_seen_at whatever crawls race on it, and while no crawl is       *)
(* started by hand the active rows are those of the last crawl.              *)
THEOREM RowsTheorem == DigestSpec => RowsAreTrue
<1>1. Inv /\ [Next]_digestVars =>
        [\A j \in Posting : HasRow(j) => rows'[j].firstSeen = rows[j].firstSeen]_rows
  BY FirstSeenKept DEF FirstSeenStays
<1>2. Inv => (Undisturbed => ActiveMatchesLastCrawl) BY RowsMatch
<1> QED BY <1>1, <1>2, Invariant, PTL DEF DigestSpec, RowsAreTrue

-----------------------------------------------------------------------------
(* The digest implements its feed *)

LEMMA InitFeeds == ASSUME DigestInit PROVE Feed!FeedInit
BY DEF DigestInit, CrawlInit, Feed!FeedInit, NoRow

(* What touches neither first_seen_at nor the checkpoint nor the mails.      *)
LEMMA Stutters ==
  ASSUME \A j \in Posting : rows'[j].firstSeen = rows[j].firstSeen,
         UNCHANGED <<checkpoint, horizon, mailed>>
  PROVE  UNCHANGED Feed!feedVars
BY DEF Feed!feedVars

LEMMA WriteFeeds ==
  ASSUME Inv, Undisturbed, NEW p \in Process, Notifying(p, "crawl"), WriteJob(p), UNCHANGED digestOnly
  PROVE  Feed!FeedNext \/ UNCHANGED Feed!feedVars
<1>1. crawler[p] \in CrawlPlaces /\ crawler[p].pc = "write" /\ crawler[p].job \in Posting
  BY DEF Inv, TypeOK, WriteJob, Crawling
<1>2. PICK j : j = crawler[p].job OBVIOUS
<1>3. PICK t : t = crawler[p].started OBVIOUS
<1>4. CrawlIsTrue(p) BY DEF Inv, UndisturbedInv, Honest
<1>5. UNCHANGED <<checkpoint, horizon, mailed>> BY DEF digestOnly
<1>6. j \in Posting /\ t \in Time BY <1>1, <1>2, <1>3 DEF CrawlPlaces
<1>7. Upserted(rows[j], p).firstSeen = IF crawler[p].found THEN rows[j].firstSeen ELSE t
  BY <1>3 DEF Upserted
<1>8. rows'[j] = Upserted(rows[j], p) /\ \A i \in Posting \ {j} : rows'[i] = rows[i]
  BY <1>2, <1>6 DEF WriteJob, Inv, TypeOK
<1>9. CASE crawler[p].found BY <1>5, <1>7, <1>8, <1>9, Stutters
<1>10. CASE ~crawler[p].found
  <2>1. ~HasRow(j) BY <1>2, <1>10 DEF WriteJob
  <2>2. checkpoint # Nil => checkpoint <= t
    BY <1>1, <1>3, <1>4 DEF CrawlIsTrue, UnderWay, Notifying
  <2>3. Feed!Discover(j, t)
    BY <1>5, <1>6, <1>7, <1>8, <1>10, <2>1, <2>2 DEF Feed!Discover, Feed!Known, HasRow
  <2> QED BY <1>6, <2>3 DEF Feed!FeedNext
<1> QED BY <1>9, <1>10

LEMMA SendFeeds ==
  ASSUME Inv, Undisturbed, NEW p \in Process, NEW r \in Recipient, Send(p, r)
  PROVE  Feed!FeedNext
<1>1. notifier[p] \in NotifyPlaces /\ DigestIsTrue(notifier[p])
  BY DEF Inv, TypeOK, UndisturbedInv, Honest
<1>2. PICK digest : digest = notifier[p].digest OBVIOUS
<1>3. digest \in SUBSET Wanted /\ \A j \in digest : HasRow(j) /\ j \in Posting
  BY <1>1, <1>2, DigestAssumption DEF NotifyPlaces, DigestIsTrue
<1>4. mailed' = mailed \cup ({r} \X digest) /\ UNCHANGED <<rows, checkpoint, horizon>>
  BY <1>2 DEF Send, NoCrawl, crawlVars
<1>5. Feed!Mail(r, digest) BY <1>3, <1>4 DEF Feed!Mail, Feed!Known, HasRow
<1> QED BY <1>3, <1>5 DEF Feed!FeedNext

LEMMA AdvanceFeeds ==
  ASSUME Inv, Undisturbed, NEW p \in Process, AdvanceCheckpoint(p)
  PROVE  Feed!FeedNext
<1>1. notifier[p] \in NotifyPlaces /\ DigestIsTrue(notifier[p]) /\ notifier[p].pc = "advance"
  BY DEF Inv, TypeOK, UndisturbedInv, Honest, AdvanceCheckpoint, Notifying
<1>2. PICK since : since = notifier[p].since OBVIOUS
<1>3. PICK t : t = notifier[p].generated OBVIOUS
<1>4. /\ since \in Time /\ t \in Time /\ since <= t /\ (checkpoint # Nil => since = checkpoint)
      /\ \A j \in Wanted : HasRow(j) /\ since <= rows[j].firstSeen => j \in notifier[p].digest
      /\ \A l \in Loyal, j \in notifier[p].digest : <<l, j>> \in mailed
  BY <1>1, <1>2, <1>3 DEF DigestIsTrue, AfterSince, AfterBuild, NotifyPlaces
<1>5. /\ checkpoint' = t /\ UNCHANGED <<rows, mailed>>
      /\ horizon' = IF checkpoint = Nil THEN since ELSE horizon
  BY <1>2, <1>3 DEF AdvanceCheckpoint, NoCrawl, crawlVars
<1>6. \A j \in Wanted : Feed!SeenIn(j, since, t) => \A l \in Loyal : <<l, j>> \in mailed
  BY <1>4, DigestAssumption DEF Feed!SeenIn, Feed!Known, HasRow
<1>7. Feed!Advance(since, t) BY <1>4, <1>5, <1>6 DEF Feed!Advance
<1> QED BY <1>4, <1>7 DEF Feed!FeedNext

LEMMA StepFeeds ==
  ASSUME Inv, Undisturbed, [Next]_digestVars
  PROVE  Feed!FeedNext \/ UNCHANGED Feed!feedVars
<1>1. CASE UNCHANGED <<rows, checkpoint, horizon, mailed>> BY <1>1, Stutters
<1>2. ASSUME NEW p \in Process, CrawlPhase(p) PROVE Feed!FeedNext \/ UNCHANGED Feed!feedVars
  <2>1. CASE WriteJob(p) BY <1>2, <2>1, WriteFeeds DEF CrawlPhase
  <2>2. CASE MarkMissing(p)
    BY <1>2, <2>2, MarkKeepsFirstSeen, Stutters DEF CrawlPhase, digestOnly
  <2>3. CASE ~(WriteJob(p) \/ MarkMissing(p))
    BY <1>1, <1>2, <2>3 DEF CrawlPhase, digestOnly, CrawlStep, StartRun, ParseJobs, FindJob, InsertRefused,
                            FinishRun, FailRun
  <2> QED BY <2>1, <2>2, <2>3
<1>3. ASSUME NEW p \in Process, NotifyStep(p) PROVE Feed!FeedNext \/ UNCHANGED Feed!feedVars
  <2>1. CASE AdvanceCheckpoint(p) BY <2>1, AdvanceFeeds
  <2>2. ASSUME NEW r \in Recipient, Send(p, r) PROVE Feed!FeedNext BY <2>2, SendFeeds
  <2>3. CASE ~AdvanceCheckpoint(p) /\ ~\E r \in Recipient : Send(p, r)
    BY <1>1, <1>3, <2>3 DEF NotifyStep, Decide, ResolveSince, OpenRun, BuildDigest, FinishSkipped, Address,
                            FinishSent, FinishFailed, End, NoCrawl, crawlVars
  <2> QED BY <2>1, <2>2, <2>3
<1>4. ASSUME NEW p \in Process, Begin(p) \/ Fails(p) \/ Kill(p) PROVE UNCHANGED Feed!feedVars
  <2>1. UNCHANGED <<rows, checkpoint, horizon, mailed>>
    BY <1>4 DEF Begin, LaunchScheduled, LaunchByHand, LaunchSend, Launch, Fails, SourceRaises, CrawlAborts,
                NotifyRaises, Kill, NoCrawl, crawlVars, digestOnly
  <2> QED BY <2>1, Stutters
<1>5. CASE UNCHANGED digestVars BY <1>1, <1>5 DEF digestVars, crawlVars, digestOnly
<1>6. CASE Tick /\ UNCHANGED digestOnly BY <1>1, <1>6 DEF Tick, digestOnly
<1> QED BY <1>2, <1>3, <1>4, <1>5, <1>6 DEF Next, Step

LEMMA UndisturbedBefore == ASSUME Inv, [Next]_digestVars, Undisturbed' PROVE Undisturbed
<1>1. CASE byHand' = byHand BY <1>1, StaysUndisturbed DEF Inv
<1>2. ASSUME NEW p \in Process, Begin(p)
      PROVE  byHand' = byHand \/ \E c \in {"notify", "crawl", "send"} : byHand' = Append(byHand, c)
  BY <1>2 DEF Begin, LaunchScheduled, LaunchByHand, LaunchSend, ByHand
<1>3. ASSUME NEW p \in Process, Step(p) PROVE byHand' = byHand
  BY <1>3 DEF Step, CrawlPhase, digestOnly, NotifyStep, Decide, ResolveSince, OpenRun, BuildDigest,
              FinishSkipped, Address, Send, FinishSent, AdvanceCheckpoint, FinishFailed, End
<1>4. ASSUME NEW p \in Process, Fails(p) \/ Kill(p) PROVE byHand' = byHand
  BY <1>4 DEF Fails, CrawlAborts, NotifyRaises, Kill, digestOnly
<1>5. CASE UNCHANGED digestVars BY <1>1, <1>5 DEF digestVars, digestOnly
<1> QED BY <1>1, <1>2, <1>3, <1>4, <1>5, StaysUndisturbed DEF Inv, Next, digestOnly

(* crawl_and_notify: as long as no crawl is started by hand, the checkpoint  *)
(* never goes back, moves only past a stretch that was mailed to every loyal *)
(* subscriber, and no posting turns up behind it, whatever fails half way.   *)
THEOREM FeedTheorem == DigestSpec => FeedImplemented
<1>1. Inv /\ [Next]_digestVars => [Undisturbed' => Feed!FeedNext]_Feed!feedVars
  BY StepFeeds, UndisturbedBefore
<1>2. DigestInit => Feed!FeedInit BY InitFeeds
<1> QED BY <1>1, <1>2, Invariant, PTL DEF DigestSpec, FeedImplemented

-----------------------------------------------------------------------------
(* Nothing is skipped, and nothing is mailed twice *)

(* Postings are first seen at a time, and a checkpoint is one.               *)
Stamped ==
  /\ \A j \in Posting : HasRow(j) => rows[j].firstSeen \in Nat
  /\ checkpoint # Nil => checkpoint \in Nat

LEMMA FeedStamps == ASSUME Stamped, Feed!FeedNext PROVE Stamped'
<1>1. ASSUME NEW j \in Posting, NEW t \in Time, Feed!Discover(j, t) PROVE Stamped'
  <2>1. PICK seen : seen = [i \in Posting |-> rows[i].firstSeen] OBVIOUS
  <2>2. [i \in Posting |-> rows'[i].firstSeen] = [seen EXCEPT ![j] = t] /\ UNCHANGED checkpoint
    BY <1>1, <2>1 DEF Feed!Discover
  <2>3. ASSUME NEW i \in Posting PROVE rows'[i].firstSeen = IF i = j THEN t ELSE rows[i].firstSeen
    <3>1. [k \in Posting |-> rows'[k].firstSeen][i] = [seen EXCEPT ![j] = t][i] BY <2>2
    <3> QED BY <2>1, <3>1
  <2> QED BY <2>2, <2>3, TimeIsNat DEF Stamped, HasRow
<1>2. ASSUME [i \in Posting |-> rows'[i].firstSeen] = [i \in Posting |-> rows[i].firstSeen],
             checkpoint' = checkpoint \/ checkpoint' \in Time
      PROVE  Stamped'
  <2>1. ASSUME NEW i \in Posting PROVE rows'[i].firstSeen = rows[i].firstSeen
    <3>1. [k \in Posting |-> rows'[k].firstSeen][i] = [k \in Posting |-> rows[k].firstSeen][i] BY <1>2
    <3> QED BY <3>1
  <2> QED BY <1>2, <2>1, TimeIsNat DEF Stamped, HasRow
<1>3. ASSUME NEW r \in Recipient, NEW digest \in SUBSET Wanted, Feed!Mail(r, digest) PROVE Stamped'
  BY <1>2, <1>3 DEF Feed!Mail
<1>4. ASSUME NEW since \in Time, NEW t \in Time, Feed!Advance(since, t) PROVE Stamped'
  BY <1>2, <1>4 DEF Feed!Advance
<1> QED BY <1>1, <1>3, <1>4 DEF Feed!FeedNext

(* A step of the feed leaves nothing behind the checkpoint unmailed.         *)
LEMMA FeedSkipsNothing ==
  ASSUME Stamped, Feed!FeedNext, Feed!NoJobSkipped PROVE Feed!NoJobSkipped'
<1>1. \A j \in Posting : HasRow(j) => rows[j].firstSeen \in Nat BY DEF Stamped
<1>2. checkpoint # Nil => checkpoint \in Nat BY DEF Stamped
<1>3. ASSUME NEW j \in Posting, NEW t \in Time, Feed!Discover(j, t) PROVE Feed!NoJobSkipped'
  <2>1. PICK seen : seen = [i \in Posting |-> rows[i].firstSeen] OBVIOUS
  <2>2. [i \in Posting |-> rows'[i].firstSeen] = [seen EXCEPT ![j] = t]
        /\ UNCHANGED <<checkpoint, horizon, mailed>>
    BY <1>3, <2>1 DEF Feed!Discover
  <2>3. \A i \in Posting : rows'[i].firstSeen = IF i = j THEN t ELSE rows[i].firstSeen
    <3>1. ASSUME NEW i \in Posting PROVE rows'[i].firstSeen = IF i = j THEN t ELSE rows[i].firstSeen
      <4>1. [k \in Posting |-> rows'[k].firstSeen][i] = [seen EXCEPT ![j] = t][i] BY <2>2
      <4> QED BY <2>1, <4>1
    <3> QED BY <3>1
  <2>4. checkpoint # Nil => checkpoint <= t /\ t \in Nat BY <1>3, TimeIsNat DEF Feed!Discover
  <2>5. ASSUME NEW i \in Wanted, checkpoint # Nil, Feed!SeenIn(i, horizon, checkpoint)'
        PROVE  Feed!SeenIn(i, horizon, checkpoint)
    BY <1>2, <2>2, <2>3, <2>4, <2>5, DigestAssumption DEF Feed!SeenIn, Feed!Known
  <2> QED BY <2>2, <2>5 DEF Feed!NoJobSkipped
<1>4. ASSUME NEW r \in Recipient, NEW digest \in SUBSET Wanted, Feed!Mail(r, digest)
      PROVE  Feed!NoJobSkipped'
  <2>1. UNCHANGED <<checkpoint, horizon>> /\ mailed \subseteq mailed'
        /\ [i \in Posting |-> rows'[i].firstSeen] = [i \in Posting |-> rows[i].firstSeen]
    BY <1>4 DEF Feed!Mail
  <2>2. ASSUME NEW i \in Wanted, checkpoint # Nil, Feed!SeenIn(i, horizon, checkpoint)'
        PROVE  Feed!SeenIn(i, horizon, checkpoint)
    BY <2>1, <2>2 DEF Feed!SeenIn, Feed!Known
  <2> QED BY <2>1, <2>2 DEF Feed!NoJobSkipped
<1>5. ASSUME NEW since \in Time, NEW t \in Time, Feed!Advance(since, t) PROVE Feed!NoJobSkipped'
  <2>1. checkpoint' = t /\ UNCHANGED mailed /\ (checkpoint = Nil => horizon' = since)
        /\ (checkpoint # Nil => since = checkpoint /\ horizon' = horizon)
        /\ [i \in Posting |-> rows'[i].firstSeen] = [i \in Posting |-> rows[i].firstSeen]
    BY <1>5 DEF Feed!Advance
  <2>2. ASSUME NEW i \in Wanted, Feed!SeenIn(i, horizon, checkpoint)', NEW l \in Loyal
        PROVE  <<l, i>> \in mailed
    <3>1. i \in Posting BY DigestAssumption
    <3>2. HasRow(i) /\ rows[i].firstSeen \in Nat /\ horizon' <= rows[i].firstSeen /\ rows[i].firstSeen < t
      BY <1>1, <2>1, <2>2, <3>1 DEF Feed!SeenIn, Feed!Known, HasRow
    <3>3. CASE since <= rows[i].firstSeen
      BY <1>5, <3>1, <3>2, <3>3 DEF Feed!Advance, Feed!SeenIn, Feed!Known, HasRow
    <3>4. CASE ~(since <= rows[i].firstSeen)
      <4>1. since \in Nat BY TimeIsNat
      <4>2. checkpoint # Nil BY <2>1, <3>2, <3>4
      <4>3. rows[i].firstSeen < checkpoint /\ horizon <= rows[i].firstSeen
        BY <2>1, <3>2, <3>4, <4>1, <4>2
      <4> QED BY <3>1, <3>2, <4>2, <4>3 DEF Feed!NoJobSkipped, Feed!SeenIn, Feed!Known, HasRow
    <3> QED BY <3>3, <3>4
  <2> QED BY <2>1, <2>2 DEF Feed!NoJobSkipped
<1> QED BY <1>3, <1>4, <1>5 DEF Feed!FeedNext

(* What the digest feed promises: no wanted posting first seen before the    *)
(* checkpoint is left out for a subscriber who stays enabled, because the    *)
(* feed moves the checkpoint from where it stands, past what was mailed.     *)
THEOREM AtLeastOnce == Feed!FeedSpec => []Feed!NoJobSkipped
<1>1. Feed!FeedInit => Stamped /\ Feed!NoJobSkipped
  <2> SUFFICES ASSUME Feed!FeedInit PROVE Stamped /\ Feed!NoJobSkipped OBVIOUS
  <2>1. checkpoint = Nil /\ [i \in Posting |-> rows[i].firstSeen] = [i \in Posting |-> Nil]
    BY DEF Feed!FeedInit
  <2>2. ASSUME NEW i \in Posting PROVE rows[i].firstSeen = Nil
    <3>1. [k \in Posting |-> rows[k].firstSeen][i] = [k \in Posting |-> Nil][i] BY <2>1
    <3> QED BY <3>1
  <2> QED BY <2>1, <2>2 DEF Stamped, HasRow, Feed!NoJobSkipped
<1>2. Stamped /\ Feed!NoJobSkipped /\ [Feed!FeedNext]_Feed!feedVars => (Stamped /\ Feed!NoJobSkipped)'
  <2> SUFFICES ASSUME Stamped, Feed!NoJobSkipped, [Feed!FeedNext]_Feed!feedVars
               PROVE  (Stamped /\ Feed!NoJobSkipped)'
    OBVIOUS
  <2>1. CASE Feed!FeedNext BY <2>1, FeedStamps, FeedSkipsNothing
  <2>2. CASE UNCHANGED Feed!feedVars
    <3>1. UNCHANGED <<checkpoint, horizon, mailed>>
          /\ [i \in Posting |-> rows'[i].firstSeen] = [i \in Posting |-> rows[i].firstSeen]
      BY <2>2 DEF Feed!feedVars
    <3>2. ASSUME NEW i \in Posting PROVE rows'[i].firstSeen = rows[i].firstSeen
      <4>1. [k \in Posting |-> rows'[k].firstSeen][i] = [k \in Posting |-> rows[k].firstSeen][i] BY <3>1
      <4> QED BY <4>1
    <3> QED BY <3>1, <3>2, DigestAssumption DEF Stamped, HasRow, Feed!NoJobSkipped, Feed!SeenIn, Feed!Known
  <2> QED BY <2>1, <2>2
<1> QED BY <1>1, <1>2, PTL DEF Feed!FeedSpec

LEMMA NothingSkippedStep ==
  ASSUME Inv, [Next]_digestVars, Undisturbed => Feed!NoJobSkipped
  PROVE  (Undisturbed => Feed!NoJobSkipped)'
<1>1. SUFFICES ASSUME Undisturbed' PROVE Feed!NoJobSkipped' OBVIOUS
<1>2. Undisturbed /\ Feed!NoJobSkipped BY <1>1, UndisturbedBefore
<1>3. Stamped BY TimeIsNat DEF Inv, TypeOK, Rows, HasRow, Stamped
<1>4. CASE Feed!FeedNext BY <1>2, <1>3, <1>4, FeedSkipsNothing
<1>5. CASE UNCHANGED Feed!feedVars
  BY <1>2, <1>5 DEF Feed!feedVars, Feed!NoJobSkipped, Feed!SeenIn, Feed!Known
<1> QED BY <1>2, <1>4, <1>5, StepFeeds

(* crawl_and_notify delivers at least once: a wanted posting first seen      *)
(* between the first checkpoint's horizon and the checkpoint has been mailed *)
(* to every loyal subscriber, whatever failed or was killed in between.      *)
THEOREM NothingSkippedTheorem == DigestSpec => [](Undisturbed => Feed!NoJobSkipped)
<1>1. DigestInit => (Undisturbed => Feed!NoJobSkipped) BY DEF DigestInit, Feed!NoJobSkipped
<1>2. Inv /\ [Next]_digestVars /\ (Undisturbed => Feed!NoJobSkipped)
        => (Undisturbed => Feed!NoJobSkipped)'
  BY NothingSkippedStep
<1> QED BY <1>1, <1>2, Invariant, PTL DEF DigestSpec

LEMMA NothingTwice == ASSUME Inv PROVE MailedOnce
<1>1. SUFFICES ASSUME failures = 0, byHand = <<>>, NEW p \in Process, Notifying(p, "send"),
                      NEW r \in notifier[p].to, NEW j \in notifier[p].digest, <<r, j>> \in mailed
               PROVE  rows[j].firstSeen = notifier[p].since
  BY DEF MailedOnce
<1>2. UndisturbedInv /\ MailsAreOld BY <1>1 DEF Inv, Undisturbed, UndisturbedInv
<1>3. notifier[p] \in NotifyPlaces /\ r \in Recipient /\ j \in Posting
  BY <1>1, DigestAssumption DEF Inv, TypeOK, NotifyPlaces
<1>4. Honest(p) /\ p \in Scheduled
  BY <1>1, <1>2, ProcessAssumption DEF UndisturbedInv, MailsAreOld, Running, Notifying
<1>5. notifier[p].moves BY <1>1, <1>4 DEF Honest, OnTheWay, Notifying
<1>6. ASSUME NEW q \in Scheduled, Mailing(q, r, j) PROVE FALSE
  <2>1. q \in Process /\ Honest(q) BY <1>2, ProcessAssumption DEF UndisturbedInv
  <2>2. notifier[q].moves BY <1>6, <2>1 DEF Honest, OnTheWay, DigestIsTrue, Mailing
  <2>3. q = p BY <1>2, <1>5, <2>1, <2>2, OneAtATime DEF Inv
  <2> QED BY <1>1, <1>6, <2>3 DEF Mailing
<1>7. HasRow(j) /\ checkpoint # Nil /\ rows[j].firstSeen <= checkpoint
  BY <1>1, <1>2, <1>3, <1>6 DEF MailsAreOld
<1>8. notifier[p].since = checkpoint /\ notifier[p].since <= rows[j].firstSeen
  BY <1>1, <1>4, <1>5, <1>7 DEF Honest, DigestIsTrue, AfterSince, Notifying
<1>9. rows[j].firstSeen \in Nat /\ checkpoint \in Nat
  BY <1>3, <1>7, TimeIsNat DEF Inv, TypeOK, Rows, HasRow
<1> QED BY <1>7, <1>8, <1>9

(* _send_digest_emails: without failures and commands by hand a mail repeats *)
(* a posting only when it was first seen in the very second of the           *)
(* checkpoint.                                                               *)
THEOREM MailedTheorem == DigestSpec => []MailedOnce
<1>1. Inv => MailedOnce BY NothingTwice
<1> QED BY <1>1, Invariant, PTL
=============================================================================

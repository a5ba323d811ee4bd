------------------------------- MODULE Digest -------------------------------
(***************************************************************************)
(* The digest mails (cli.py: crawl-and-notify, send-digest) over the       *)
(* crawl: a run crawls every source, mails what was first seen since the   *)
(* checkpoint and then moves the checkpoint.  scripts/run_crawl.sh starts  *)
(* scheduled runs and holds a lock directory around each of them; commands *)
(* started by hand take no lock.                                           *)
(***************************************************************************)
EXTENDS Crawl, Sequences

CONSTANTS Scheduled,   \* processes started by run_crawl.sh
          Manual,      \* processes started by hand
          Wanted,      \* postings that pass the keyword filter
          Subscriber,  \* addresses that may have the digest enabled
          Loyal,       \* those that have it enabled throughout
          Default,     \* HIRING_RADAR_EMAIL_TO_DEFAULT
          Window,      \* --window-hours
          MaxByHand    \* bound: commands started by hand in a behaviour

Recipient == Subscriber \cup {Default}

ASSUME ProcessAssumption == Process = Scheduled \cup Manual /\ Scheduled \cap Manual = {}
ASSUME DigestAssumption  == Wanted \subseteq Posting /\ Loyal \subseteq Subscriber
                              /\ Window \in Nat /\ MaxByHand \in Nat

VARIABLES
  lock,        \* the lock directory exists
  checkpoint,  \* last_processed_at of notification_checkpoints, Nil without a row
  horizon,     \* history: since of the run that wrote the first checkpoint
  notices,     \* status of the notification_runs row of each process's run
  notifier,    \* where each process is in its command
  mailed,      \* pairs of a recipient and a posting mailed to it
  byHand       \* history: the commands started by hand

digestOnly == <<lock, checkpoint, horizon, notices, notifier, mailed, byHand>>
digestVars == <<crawlVars, digestOnly>>

IdleNotifier == [pc |-> "idle", command |-> "notify", generated |-> 0, since |-> Nil,
                 digest |-> {}, to |-> {}, moves |-> FALSE]

DigestInit ==
  /\ CrawlInit
  /\ lock = FALSE
  /\ checkpoint = Nil
  /\ horizon = Nil
  /\ notices = [p \in Process |-> "none"]
  /\ notifier = [p \in Process |-> IdleNotifier]
  /\ mailed = {}
  /\ byHand = <<>>

Notifying(p, pc) == notifier[p].pc = pc
Becomes(p, n)    == notifier' = [notifier EXCEPT ![p] = n]
Proceed(p, pc)   == Becomes(p, [notifier[p] EXCEPT !.pc = pc])
NoCrawl          == UNCHANGED crawlVars

---------------------------------------------------------------------------
(* Starting and ending a command *)

Launch(p, command) ==
  /\ Notifying(p, "idle")
  /\ Becomes(p, [IdleNotifier EXCEPT !.pc = "crawl", !.command = command])
  /\ notices' = [notices EXCEPT ![p] = "none"]
  /\ BeginCrawl(p)
  /\ UNCHANGED <<now, rows, crawled, failures>>
  /\ UNCHANGED <<checkpoint, horizon, mailed>>

(* run_crawl.sh: when mkdir fails the run is skipped. *)
LaunchScheduled(p) ==
  /\ p \in Scheduled
  /\ ~lock /\ lock' = TRUE
  /\ Launch(p, "notify") /\ UNCHANGED byHand

ByHand(p, command) ==
  /\ p \in Manual /\ Len(byHand) < MaxByHand
  /\ byHand' = Append(byHand, command)

LaunchByHand(p, command) ==
  /\ ByHand(p, command)
  /\ UNCHANGED lock
  /\ Launch(p, command)

(* send-digest: no crawl, the caller's --since, no checkpoint. *)
LaunchSend(p, since) ==
  /\ ByHand(p, "send")
  /\ Notifying(p, "idle")
  /\ Becomes(p, [IdleNotifier EXCEPT !.pc = "open", !.command = "send",
                                     !.generated = now, !.since = since])
  /\ notices' = [notices EXCEPT ![p] = "none"]
  /\ NoCrawl /\ UNCHANGED <<lock, checkpoint, horizon, mailed>>

(* The process exits; trap cleanup EXIT removes the lock directory. *)
End(p) ==
  /\ Notifying(p, "end")
  /\ Becomes(p, IdleNotifier)
  /\ Crawls(p, IdleCrawler)
  /\ lock' = (lock /\ p \notin Scheduled)
  /\ UNCHANGED <<now, rows, crawled, failures>>
  /\ UNCHANGED <<checkpoint, horizon, notices, mailed, byHand>>

---------------------------------------------------------------------------
(* The digest of one command *)

(* After the crawl: without a successful source the run is recorded as      *)
(* skipped, with no since, and the checkpoint stays.                        *)
Decide(p) ==
  /\ Notifying(p, "crawl") /\ Crawling(p, "done")
  /\ LET n == notifier[p] IN
     Becomes(p, IF n.command = "crawl" THEN [n EXCEPT !.pc = "end"]
                ELSE IF crawler[p].ok = {} THEN [n EXCEPT !.pc = "open", !.generated = now]
                ELSE [n EXCEPT !.pc = "since", !.generated = now, !.moves = TRUE])
  /\ NoCrawl /\ UNCHANGED <<lock, checkpoint, horizon, notices, mailed, byHand>>

(* _resolve_digest_since *)
ResolveSince(p) ==
  LET fallback == IF notifier[p].generated < Window THEN 0
                  ELSE notifier[p].generated - Window IN
  /\ Notifying(p, "since")
  /\ Becomes(p, [notifier[p] EXCEPT !.pc = "open",
                    !.since = IF checkpoint # Nil THEN checkpoint ELSE fallback])
  /\ NoCrawl /\ UNCHANGED <<lock, checkpoint, horizon, notices, mailed, byHand>>

(* start_notification_run *)
OpenRun(p) ==
  /\ Notifying(p, "open")
  /\ notices' = [notices EXCEPT ![p] = "running"]
  /\ Proceed(p, IF notifier[p].since = Nil THEN "skip" ELSE "build")
  /\ NoCrawl /\ UNCHANGED <<lock, checkpoint, horizon, mailed, byHand>>

(* build_digest and the keyword filter; an empty digest is only sent with   *)
(* --send-empty, which the script does not pass.                            *)
BuildDigest(p) ==
  LET digest == {j \in Wanted : HasRow(j) /\ rows[j].firstSeen >= notifier[p].since} IN
  /\ Notifying(p, "build")
  /\ \E next \in IF digest # {} THEN {"address"}
                 ELSE {"skip"} \cup (IF p \in Manual THEN {"address"} ELSE {}) :
       Becomes(p, [notifier[p] EXCEPT !.digest = digest, !.pc = next])
  /\ NoCrawl /\ UNCHANGED <<lock, checkpoint, horizon, notices, mailed, byHand>>

Settle(p, status) ==
  /\ notices' = [notices EXCEPT ![p] = status]
  /\ Proceed(p, IF notifier[p].moves THEN "advance" ELSE "end")

FinishSkipped(p) ==
  /\ Notifying(p, "skip")
  /\ Settle(p, "skipped")
  /\ NoCrawl /\ UNCHANGED <<lock, checkpoint, horizon, mailed, byHand>>

(* _resolve_digest_recipients: the subscribers who have the digest enabled  *)
(* now, else the default; --to is left to commands started by hand.         *)
Address(p) ==
  /\ Notifying(p, "address")
  /\ \E on \in SUBSET Subscriber, explicit \in BOOLEAN :
       LET to == IF explicit \/ on = {} THEN {Default} ELSE on IN
       /\ Loyal \subseteq on
       /\ explicit => p \in Manual
       /\ Becomes(p, [notifier[p] EXCEPT !.to = to, !.pc = "send"])
  /\ NoCrawl /\ UNCHANGED <<lock, checkpoint, horizon, notices, mailed, byHand>>

(* Mutant: the loop stops after its first recipient. *)
SendFirst(p, r) ==
  /\ Notifying(p, "send") /\ r \in notifier[p].to
  /\ mailed' = mailed \cup ({r} \X notifier[p].digest)
  /\ Becomes(p, [notifier[p] EXCEPT !.to = {}, !.pc = "sent"])
  /\ NoCrawl /\ UNCHANGED <<lock, checkpoint, horizon, notices, byHand>>

(* One mail of _send_digest_emails. *)
Send(p, r) ==
  /\ Notifying(p, "send") /\ r \in notifier[p].to
  /\ mailed' = mailed \cup ({r} \X notifier[p].digest)
  /\ Becomes(p, [notifier[p] EXCEPT !.to = notifier[p].to \ {r},
                    !.pc = IF notifier[p].to = {r} THEN "sent" ELSE "send"])
  /\ NoCrawl /\ UNCHANGED <<lock, checkpoint, horizon, notices, byHand>>

FinishSent(p) ==
  /\ Notifying(p, "sent")
  /\ Settle(p, "sent")
  /\ NoCrawl /\ UNCHANGED <<lock, checkpoint, horizon, mailed, byHand>>

(* Mutant: the checkpoint is set to the start of the digest. *)
AdvanceToSince(p) ==
  /\ Notifying(p, "advance")
  /\ checkpoint' = notifier[p].since
  /\ horizon' = IF checkpoint = Nil THEN notifier[p].since ELSE horizon
  /\ Proceed(p, "end")
  /\ NoCrawl /\ UNCHANGED <<lock, notices, mailed, byHand>>

(* _advance_digest_checkpoint: to the time the digest was generated. *)
AdvanceCheckpoint(p) ==
  /\ Notifying(p, "advance")
  /\ checkpoint' = notifier[p].generated
  /\ horizon' = IF checkpoint = Nil THEN notifier[p].since ELSE horizon
  /\ Proceed(p, "end")
  /\ NoCrawl /\ UNCHANGED <<lock, notices, mailed, byHand>>

(* Mutant: a failed run moves the checkpoint as well. *)
FailAndMove(p) ==
  /\ Notifying(p, "fail")
  /\ Settle(p, "failed")
  /\ NoCrawl /\ UNCHANGED <<lock, checkpoint, horizon, mailed, byHand>>

(* The except clauses. *)
FinishFailed(p) ==
  /\ Notifying(p, "fail")
  /\ notices' = [notices EXCEPT ![p] = "failed"]
  /\ Proceed(p, "end")
  /\ NoCrawl /\ UNCHANGED <<lock, checkpoint, horizon, mailed, byHand>>

NotifyStep(p) ==
  \/ Decide(p) \/ ResolveSince(p) \/ OpenRun(p) \/ BuildDigest(p) \/ FinishSkipped(p)
  \/ Address(p) \/ (\E r \in Recipient : Send(p, r)) \/ FinishSent(p)
  \/ AdvanceCheckpoint(p) \/ FinishFailed(p) \/ End(p)

---------------------------------------------------------------------------
(* Failures *)

(* No SMTP settings, no recipient, a refused mail, a locked database.       *)
(* Before start_notification_run returned there is no row to mark.          *)
NotifyRaises(p) ==
  /\ notifier[p].pc \in {"since", "open", "build", "skip", "address", "send", "sent",
                         "advance"}
  /\ FailOnce
  /\ Proceed(p, IF notifier[p].pc \in {"since", "open"} THEN "end" ELSE "fail")
  /\ UNCHANGED <<now, rows, crawler, crawled>>
  /\ UNCHANGED <<lock, checkpoint, horizon, notices, mailed, byHand>>

(* An exception of the except clause of a source ends the whole command; the *)
(* fault that made the source fail may still be there.                       *)
CrawlAborts(p) ==
  /\ Crawling(p, "failed")
  /\ FailOnce \/ (failures > 0 /\ UNCHANGED failures)
  /\ Proceed(p, "end")
  /\ UNCHANGED <<now, rows, crawler, crawled>>
  /\ UNCHANGED <<lock, checkpoint, horizon, notices, mailed, byHand>>

(* Power loss or SIGKILL of script and command: no trap, no except clause.  *)
Kill(p) ==
  /\ ~Notifying(p, "idle")
  /\ FailOnce
  /\ Becomes(p, IdleNotifier)
  /\ Crawls(p, IdleCrawler)
  /\ UNCHANGED <<now, rows, crawled>>
  /\ UNCHANGED <<lock, checkpoint, horizon, notices, mailed, byHand>>

---------------------------------------------------------------------------
CrawlPhase(p) == Notifying(p, "crawl") /\ CrawlStep(p) /\ UNCHANGED digestOnly

Fails(p) ==
  \/ Notifying(p, "crawl") /\ SourceRaises(p) /\ UNCHANGED digestOnly
  \/ Notifying(p, "crawl") /\ CrawlAborts(p)
  \/ NotifyRaises(p)

Step(p) == CrawlPhase(p) \/ NotifyStep(p)

Begin(p) ==
  \/ LaunchScheduled(p)
  \/ \E command \in {"notify", "crawl"} : LaunchByHand(p, command)
  \/ \E since \in Time : LaunchSend(p, since)

Next ==
  \/ Tick /\ UNCHANGED digestOnly
  \/ \E p \in Process : Begin(p) \/ Step(p) \/ Fails(p) \/ Kill(p)

DigestSpec == DigestInit /\ [][Next]_digestVars

(* Cron keeps starting the script, and a started command runs on.           *)
Fairness ==
  /\ WF_digestVars(\E p \in Scheduled : LaunchScheduled(p))
  /\ \A p \in Process : WF_digestVars(Step(p))

FairDigestSpec == DigestSpec /\ Fairness

---------------------------------------------------------------------------
(* Properties *)

Feed == INSTANCE DigestFeed WITH firstSeen <- [j \in Posting |-> rows[j].firstSeen]

(* No command was started by hand so far that crawls; one that only sends  *)
(* takes part in nothing the feed promises.                                 *)
Undisturbed == \A i \in 1 .. Len(byHand) : byHand[i] = "send"

(* As long as no crawl is started by hand, crawl and digest implement the   *)
(* feed: the checkpoint never goes back, moves only past a stretch that has *)
(* been mailed to every subscriber, and no posting turns up behind it,      *)
(* whatever sources, mails or processes fail half way.                      *)
FeedImplemented == Feed!FeedInit /\ [][Undisturbed' => Feed!FeedNext]_Feed!feedVars

(* Without failures a mail repeats a posting only when it was first seen in *)
(* the very second of the checkpoint (first_seen_at >= since).              *)
MailedOnce ==
  failures = 0 /\ byHand = <<>> =>
    \A p \in Process : Notifying(p, "send") =>
      \A r \in notifier[p].to, j \in notifier[p].digest :
        <<r, j>> \in mailed => rows[j].firstSeen = notifier[p].since

(* The rows of the jobs table are true however crawls race on a posting: it *)
(* stays known, and stays first seen when its row was inserted; and as long *)
(* as no crawl is started by hand the active rows are those of the last     *)
(* crawl (upsert_job, mark_missing_jobs_inactive).                          *)
RowsAreTrue ==
  /\ [](Undisturbed => ActiveMatchesLastCrawl)
  /\ [][\A j \in Posting : HasRow(j) => rows'[j].firstSeen = rows[j].firstSeen]_rows

Running(p) == ~Notifying(p, "idle")

(* A scheduled run is skipped as "already running" only while another one   *)
(* is running.                                                              *)
LockMeansRunning == lock => \E p \in Scheduled : Running(p)

(* Once there is a checkpoint, a posting first seen after it gets mailed to *)
(* every subscriber who stays enabled, however runs fail in between - unless*)
(* a killed run has left its lock behind or a crawl is started by hand.     *)
ReportedEventually ==
  \A j \in Wanted, r \in Loyal :
    (HasRow(j) /\ checkpoint # Nil /\ rows[j].firstSeen >= checkpoint)
      ~> (<<r, j>> \in mailed \/ ~LockMeansRunning \/ ~Undisturbed)
=============================================================================

----------------------------- MODULE DigestFeed -----------------------------
(***************************************************************************)
(* What the digest promises, without saying how: postings become known at  *)
(* some time, mails bring known postings to subscribers, and the           *)
(* checkpoint moves past a stretch of time only when everything first seen *)
(* in it has been mailed to everybody who subscribes throughout.  Mails    *)
(* may repeat postings: the promise is "at least once".                    *)
(***************************************************************************)
EXTENDS Naturals

CONSTANTS Posting,    \* postings
          Wanted,     \* postings that pass the keyword filter
          Recipient,  \* addresses that may get a mail
          Loyal,      \* subscribers enabled throughout
          Time,       \* time stamps
          Nil

VARIABLES
  firstSeen,   \* when each posting became known, Nil before
  checkpoint,  \* everything first seen before it has been dealt with
  horizon,     \* where the first digest that counted began
  mailed       \* pairs of a recipient and a posting mailed to it

feedVars == <<firstSeen, checkpoint, horizon, mailed>>

FeedTypeOK ==
  /\ firstSeen \in [Posting -> Time \cup {Nil}]
  /\ checkpoint \in Time \cup {Nil}
  /\ horizon \in Time \cup {Nil}
  /\ mailed \subseteq Recipient \X Posting

FeedInit ==
  /\ firstSeen = [j \in Posting |-> Nil]
  /\ checkpoint = Nil
  /\ horizon = Nil
  /\ mailed = {}

Known(j) == firstSeen[j] # Nil

(* Known, and first seen in the stretch from a up to, not including, b. *)
SeenIn(j, a, b) == Known(j) /\ a <= firstSeen[j] /\ firstSeen[j] < b

(* A new posting is first seen at the checkpoint or later. *)
Discover(j, t) ==
  /\ ~Known(j)
  /\ checkpoint # Nil => checkpoint <= t
  /\ firstSeen' = [firstSeen EXCEPT ![j] = t]
  /\ UNCHANGED <<checkpoint, horizon, mailed>>

Mail(r, digest) ==
  /\ \A j \in digest : Known(j)
  /\ mailed' = mailed \cup ({r} \X digest)
  /\ UNCHANGED <<firstSeen, checkpoint, horizon>>

Advance(since, t) ==
  /\ IF checkpoint = Nil THEN horizon' = since
                         ELSE since = checkpoint /\ UNCHANGED horizon
  /\ since <= t
  /\ \A j \in Wanted : SeenIn(j, since, t) => \A r \in Loyal : <<r, j>> \in mailed
  /\ checkpoint' = t
  /\ UNCHANGED <<firstSeen, mailed>>

FeedNext ==
  \/ \E j \in Posting, t \in Time : Discover(j, t)
  \/ \E r \in Recipient, digest \in SUBSET Wanted : Mail(r, digest)
  \/ \E since, t \in Time : Advance(since, t)

FeedSpec == FeedInit /\ [][FeedNext]_feedVars

(* At least once: every wanted posting first seen between the horizon and   *)
(* the checkpoint has been mailed to every subscriber enabled throughout.   *)
NoJobSkipped ==
  checkpoint # Nil =>
    \A j \in Wanted : SeenIn(j, horizon, checkpoint) =>
      \A r \in Loyal : <<r, j>> \in mailed
=============================================================================

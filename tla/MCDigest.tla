------------------------------ MODULE MCDigest ------------------------------
(* Small instances of Digest for TLC: scheduled runs only, with failures, or *)
(* one scheduled run beside one command started by hand.                     *)
EXTENDS Digest, TLC

CONSTANT j1
MCShared  == <<{j1}, {j1}>>   \* both sources list the posting

VARIABLE part   \* which of the two this behaviour explores

MCInit == DigestInit /\ part \in {"scheduled", "by hand"}

\* Bounds of the second: two seconds, one run of each process, no failure.
OneRunEach ==
  /\ now' <= 1 /\ failures' = 0
  /\ \A p \in Process : notices[p] # "none" => notices'[p] # "none"

MCNext ==
  /\ UNCHANGED part
  /\ \/ part = "scheduled" /\ byHand' = <<>> /\ Next
     \/ part = "by hand" /\ Next /\ OneRunEach

MCSpec == /\ MCInit /\ [][MCNext]_<<digestVars, part>>
          /\ Fairness
=============================================================================

----------------------------- MODULE OneTimeLink -----------------------------
(***************************************************************************)
(* What a link mailed to a subscriber promises (sign-in links and password *)
(* reset links): it is issued once, at most one request gets to spend it,  *)
(* and a spent link stays spent.                                           *)
(***************************************************************************)
CONSTANTS Link,     \* the links that can be issued
          User,     \* the requests that may present one
          NoUser    \* nobody has spent the link

VARIABLES issued,   \* the links mailed so far
          spentBy   \* who spent each link, if anybody

links == <<issued, spentBy>>

LinkInit == issued = {} /\ spentBy = [l \in Link |-> NoUser]

Issue(l) ==
  /\ l \notin issued
  /\ issued' = issued \cup {l}
  /\ UNCHANGED spentBy

Spend(l, u) ==
  /\ l \in issued /\ spentBy[l] = NoUser
  /\ spentBy' = [spentBy EXCEPT ![l] = u]
  /\ UNCHANGED issued

LinkNext == \E l \in Link : Issue(l) \/ \E u \in User : Spend(l, u)

LinkSpec == LinkInit /\ [][LinkNext]_links
=============================================================================

------------------------------ MODULE MCEmployer ------------------------------
(* Small instances of Employer: two companies that know the same two          *)
(* candidate numbers, and the kinds of requests that meet.                    *)
EXTENDS Employer, TLC

CONSTANTS e1, e2, e3, d1, d2, d3, A, B, c1, c2, s1, s2

MCEmail == {e1, e2, e3}
MCOldCompany == {A, B}
MCFounder == (A :> e1) @@ (B :> e2)
MCDomain == (e1 :> d1) @@ (e2 :> d2) @@ (e3 :> d3)
MCCandidate == {c1, c2}
MCStage == {s1, s2}

TeamOps == {"register", "login", "invite", "updateMember"}
QueueOps == {"prepareQueue", "updateItem"}
StageOps == {"createJob", "stage"}
TalentOps == {"bulkTag", "bulkNote", "deleteTag"}

(* Three requests of one concern, the last two of which may overlap; and two  *)
(* that write about the same candidate for any reason.                        *)
MCMenus ==
  {<<{"register", "invite"}, TeamOps, TeamOps>>,
   <<StageOps, StageOps, {"stage"}>>,
   <<{"createCampaign"}, QueueOps, QueueOps>>,
   <<TalentOps \cup {"register", "stage", "createCampaign"},
     TalentOps \cup {"stage", "createCampaign"}, {}>>}

(* Nothing tells the candidates, the stages or the two old companies apart.   *)
Swap == (A :> B) @@ (B :> A) @@ (e1 :> e2) @@ (e2 :> e1) @@ (d1 :> d2) @@ (d2 :> d1)
Alike == Permutations(MCCandidate) \cup Permutations(MCStage) \cup {Swap}
===============================================================================

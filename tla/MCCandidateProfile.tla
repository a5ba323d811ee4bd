------------------------ MODULE MCCandidateProfile ------------------------
(* Two sections (one a pivot clears, one it keeps and certificates refer to), *)
(* one entry from a CV and one of the user, and a CV of every use.            *)
EXTENDS CandidateProfile

MCSection == {"education", "language"}
CvWith(use, h, edu, lang) ==
  [use |-> use, headline |-> h, roles |-> {"engineer"},
   entries |-> [s \in MCSection |-> IF s = "education" THEN edu ELSE lang]]
MCDraft == { CvWith("pivot", "from cv", {"e1"}, {}),
             CvWith("replace", Nil, {}, {"e1"}),
             [CvWith("failed", Nil, {}, {}) EXCEPT !.roles = {}] }
MCRequest == 1 .. 3
============================================================================

------------------------------- MODULE MCCopilot -------------------------------
\* Three requests in two conversations about two jobs, one of which gets its
\* features late and vanishes: the data for MCPages.
EXTENDS Copilot

MCContext == {[job |-> "j1", mode |-> "job_fit"], [job |-> "j2", mode |-> "other"]}
MCKind == ("j1" :> "bare") @@ ("j2" :> "legacy")
TextOf(title, matched) ==
  [title |-> title, company |-> "acme", evidence |-> <<"five years">>, gaps |-> <<>>, matched |-> matched,
   missing |-> <<"rust">>, wanted |-> <<"sql">>, duties |-> <<>>, culture |-> <<>>]
MCAbout == ("j1" :> TextOf("dev", <<"go">>)) @@ ("j2" :> TextOf("ops", <<>>))
MCPrompts == {[learns |-> {"interest:python"}, hits |-> Foundation]}
MCReplies == {[chars |-> 0, says |-> {}], [chars |-> 300, says |-> {"dev", "fit", "cv"}]}

=============================================================================

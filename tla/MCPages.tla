------------------------------- MODULE MCPages -------------------------------
\* What is read of other sites and of the subscriber's own texts, and what the
\* copilot makes of it: one part is explored in each behaviour.
EXTENDS Scrape, RetrievalContext, PageContext, MCCopilot

VARIABLE part       \* which of them this behaviour explores

-----------------------------------------------------------------------------
\* Sources whose API, pages and redirects meet every way of reading them.

Marks == << <<"", {}>>, <<"Dev", {"dev"}>>, <<"dev", {"dev"}>>, <<"Ops Lead", {"ops"}>>, <<"Berlin", {"berlin"}>>,
            <<"Apply", {"button"}>>, <<"Open roles", {"button", "openings"}>>, <<"QA", {"length"}>>, <<"acme", {"acme"}>>,
            <<"boards.greenhouse.io", {"greenhouse"}>>, <<"jobs.lever.co", {"lever"}>>, <<"acme.com", {}>>,
            <<"/", {"root"}>>, <<"/acme", {}>>, <<"/jobs", {"generic", "job word", "page word"}>>,
            <<"/openings", {"generic", "job word", "page word", "openings path"}>>,
            <<"/acme/jobs/1", {"deep", "job word", "page word"}>>, <<"/acme/jobs/2", {"deep", "job word", "page word"}>>,
            <<"/about", {}>> >>
Named2 == {Marks[i][1] : i \in 1..Len(Marks)}
MCSays == [t \in Named2 |-> Marks[CHOOSE i \in 1..Len(Marks) : Marks[i][1] = t][2]]
MCLowered == [t \in Named2 |-> IF t = "Dev" THEN "dev" ELSE t]
MCIdOf == [p \in {"/", "/acme", "/jobs", "/openings", "/acme/jobs/1", "/acme/jobs/2", "/about"} |->
             CASE p = "/" -> None [] p = "/acme/jobs/1" -> "1" [] p = "/acme/jobs/2" -> "2" [] OTHER -> p]

To(host, path) == [site |-> host, path |-> path]
Board == To("boards.greenhouse.io", "/acme")
Lever == To("jobs.lever.co", "/acme")
Site == To("acme.com", "/jobs")
Src(name, type, url) == [name |-> name, type |-> type, company |-> "acme", url |-> url]
MCSources == {<<Src("a", "greenhouse", Board), Src("b", "lever", Lever)>>,
              <<Src("a", "greenhouse", Site), Src("b", "custom_static", Site)>>}

One == To(None, "/acme/jobs/1")
Two == To("jobs.lever.co", "/acme/jobs/2")
L(text, to) == [class |-> "plain", text |-> text, to |-> to]
JL(text, to) == [class |-> "job-link", text |-> text, to |-> to]
Box(class, heading, links, place, rest) ==
  [class |-> class, heading |-> heading, links |-> links, place |-> place, rest |-> rest]
In(class, text) == [class |-> class, text |-> text]
Layouts == {<<>>,
  <<Box("opening", "", <<L("Dev", One)>>, In("location", "Berlin"), <<>>),
    Box("opening", "", <<L("dev", One)>>, In("location", "Berlin"), <<>>)>>,
  <<Box("opening", "", <<>>, None, <<>>), Box("other", "Ops Lead", <<L("Dev", One), L("Apply", Two)>>, None, <<"Berlin">>)>>,
  <<Box("other", "", <<L("Open roles", To(None, "/openings")), L("QA", One), L("Apply", Two)>>, None, <<>>)>>,
  <<Box("job-listing", "", <<L("Apply", None), JL("Ops Lead", Two)>>, In("job-location", "Berlin"), <<"Dev">>)>>}
MCPages == {[url |-> u, page |-> b] : u \in {Board, Site, Lever, To("acme.com", "/openings")}, b \in Layouts}

Listing(title, url, place, id) == [title |-> title, url |-> url, place |-> place, id |-> id]
MCAnswers == {[shape |-> "text", items |-> <<>>], [shape |-> "array", items |-> <<>>], [shape |-> "jobs", items |-> <<>>],
  [shape |-> "jobs", items |-> <<Listing(None, Two, None, "7"), Listing("Dev", None, "Berlin", "8")>>],
  [shape |-> "jobs", items |-> <<Listing("Dev", Two, "Berlin", None), Listing("Ops Lead", Two, "", "9")>>]}

Filter(include, exclude, fields) == [include |-> include, exclude |-> exclude, fields |-> fields]
MCSettings == {Filter({}, {}, {"title"}), Filter({"dev"}, {"berlin"}, {"title", "location"}),
               Filter({"acme"}, {"ops"}, {"title", "company_name"})}

-----------------------------------------------------------------------------
\* Documents whose paragraphs just fit, do not fit and repeat, cut into chunks
\* of DEFAULT_MAX_CHARS = 1200.
MCLength == ("p" :> 20) @@ ("q" :> 100) @@ ("r" :> 300) @@ ("s" :> 1000)
MCBodies == {<<"q">>, <<"r", "s", "r">>, <<"s", "p", "s">>, <<"s", "q", "s", "r", "r">>}
MCSourceOf == <<1, 1>>
Limit(items, total, tokens, each) == [items |-> items, total |-> total, tokens |-> tokens, each |-> each]
MCLimits == {Limit(5, 4000, 800, 1200), Limit(2, 1500, 800, 1200), Limit(1, 130, 10, 50)}

-----------------------------------------------------------------------------
\* An address that shows a page, or a page and its posting, which repeat one
\* another in part.
PageLines == {"Intro", "Role", "About the role", "Build", "Requirements", "Python", "Culture", "Fun", "Team", "Jobs powered by"}
MCHeadingOf == [l \in PageLines |->
  CASE l = "About the role" -> "about_role" [] l = "Requirements" -> "requirements"
    [] l = "Culture" -> "culture" [] l = "Team" -> "about_team" [] OTHER -> Nothing]
MCSize == [l \in PageLines |-> IF l \in {"Intro", "Build", "Python", "Fun"} THEN 60 ELSE 12]
MCTermsOf == [l \in PageLines |-> IF l = "Python" THEN {"python"} ELSE {}]
Show(lever, shown, posting) == [lever |-> lever, title |-> "t", lines |-> shown, posting |-> posting]
Posting(description, lists, closing) == [description |-> description, lists |-> lists, closing |-> closing]
Under(heading, shown) == [heading |-> heading, lines |-> shown]
MCSites ==
  {Show(FALSE, <<"Intro", "Requirements", "Python", "Jobs powered by", "Culture", "Fun">>, Nothing),
   Show(TRUE, <<"Intro", "Role", "Requirements", "Python", "Build">>,
        Posting(<<"Intro">>, <<Under("Requirements", <<"Python", "Fun">>), Under("Role", <<"Build">>)>>, <<"Fun">>)),
   Show(TRUE, <<"Team", "Fun", "Fun">>, Posting(<<"Intro">>, <<>>, <<>>))}

-----------------------------------------------------------------------------
ScrapeAtRest == sources = <<>> /\ at = 1 /\ stage = "off" /\ next = None /\ docs = <<>>
                /\ parsed = <<>> /\ rows = <<>> /\ digest = None
ContextAtRest == body = <<>> /\ limits \in {l \in Limits : l.items = 1} /\ chunks = <<>> /\ results = <<>> /\ bundle = EmptyBundle
PageAtRest == site = Nothing /\ clock = LastTick /\ snapshot = Nothing /\ asker = [a \in Asker |-> Idle]
Init == \/ part = "scrape"  /\ ScrapeInit   /\ ContextAtRest /\ PageAtRest /\ CopilotInit
        \/ part = "context" /\ ScrapeAtRest /\ ContextInit   /\ PageAtRest /\ CopilotInit
        \/ part = "page"    /\ ScrapeAtRest /\ ContextAtRest /\ PageInit   /\ CopilotInit
        \/ part = "copilot" /\ ScrapeAtRest /\ ContextAtRest /\ PageAtRest /\ CopilotInit
Next ==
  /\ UNCHANGED part
  /\ \/ part = "scrape"  /\ ScrapeNext  /\ UNCHANGED <<contextVars, pageVars, copilotVars>>
     \/ part = "context" /\ ContextNext /\ UNCHANGED <<scrapeVars, pageVars, copilotVars>>
     \/ part = "page"    /\ PageNext    /\ UNCHANGED <<scrapeVars, contextVars, copilotVars>>
     \/ part = "copilot" /\ CopilotNext /\ UNCHANGED <<scrapeVars, contextVars, pageVars>>
Spec == Init /\ [][Next]_<<part, scrapeVars, contextVars, pageVars, copilotVars>>
=============================================================================

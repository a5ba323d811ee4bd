----------------------------- MODULE MCMatching -----------------------------
\* A few postings and profiles that reach every branch of the scores.
EXTENDS Matching

MCSkills == <<"s1", "s2", "s3", "s4", "s5", "s6", "s7", "s8", "s9", "s10", "s11">>
\* A skill is a text that says itself; s9 also says a discipline.
Words == << <<"dev", {<<"role", "eng">>, <<"token", "dev">>}>>,
            <<"senior dev", {<<"role", "eng">>, <<"token", "dev">>, <<"token", "sr">>, <<"level", "senior">>,
                             <<"profilelevel", "senior">>, <<"skill", "s1">>}>>,
            <<"head of data", {<<"role", "data">>, <<"token", "data">>, <<"level", "director">>,
                               <<"profilelevel", "director">>, <<"manages", "x">>, <<"skill", "s2">>}>>,
            <<"intern", {<<"profilelevel", "intern">>, <<"level", "intern">>}>>,
            <<"built", {<<"skill", "s1">>, <<"skill", "s3">>, <<"impact", "delivery">>, <<"scope", "ic">>}>>,
            <<"led", {<<"described", "lead">>, <<"owns", "technical_leadership">>,
                      <<"owns", "system_ownership">>, <<"impact", "scale">>, <<"scope", "tech-lead">>,
                      <<"skill", "s2">>, <<"domain", "fintech">>}>>,
            <<"other work", {<<"skill", "s12">>, <<"domain", "gaming">>}>>,
            <<"asks 1", {<<"skill", "s1">>}>>, <<"asks 1-2", {<<"skill", "s1">>, <<"skill", "s2">>, <<"years", 3>>}>>,
            <<"asks 1-4", {<<"skill", MCSkills[i]>> : i \in 1..4} \cup {<<"years", 5>>, <<"domain", "fintech">>,
                <<"scope", "tech-lead">>, <<"language", "de">>, <<"language", "en">>, <<"education", "master">>}>>,
            <<"asks 1-11", {<<"skill", MCSkills[i]>> : i \in 1..11} \cup {<<"discipline", "backend">>, <<"scope", "manager">>}>>,
            <<"likes 3, 11", {<<"skill", "s3">>, <<"skill", "s11">>}>>,
            <<"BSc", {<<"education", "bachelor">>}>>, <<"plain", {}>> >>
MCText == ToSet(MCSkills) \cup {Words[i][1] : i \in 1..Len(Words)}
MCSignals == [t \in MCText |->
    IF t \in ToSet(MCSkills) THEN {<<"skill", t>>} \cup (IF t = "s9" THEN {<<"discipline", "frontend">>} ELSE {})
    ELSE UNION {Words[i][2] : i \in {k \in 1..Len(Words) : Words[k][1] = t}}]
Levels == <<"executive", "director", "principal", "lead", "senior", "junior", "intern">>
MCFirstWins == [role |-> <<"eng", "data">>, discipline |-> <<"backend", "frontend">>, level |-> Levels,
            profilelevel |-> Levels, education |-> <<"doctorate", "master", "bachelor">>,
            employment |-> <<"internship">>, scope |-> <<"manager", "architect", "tech-lead", "senior-ic", "ic">>]

Par(marks, text) == [marks |-> marks, text |-> text]
Page == [requirements |-> {"asks 1"}, technologies |-> {"likes 3, 11"}, responsibilities |-> {"built"}]
P(title, pars, workplace, chars, page) ==
    [title |-> title, paragraphs |-> pars, workplace |-> workplace, places |-> {"berlin"},
     trust |-> 90, fresh |-> 80, chars |-> chars, external |-> page]
MCPosting ==
    {P("dev", <<>>, Unknown, 0, Unknown),
     P("dev", <<Par({}, "asks 1")>>, "remote", 60, Unknown),
     P("senior dev", <<Par({"required"}, "asks 1-2"), Par({"preferred"}, "likes 3, 11")>>, "remote", 500, Unknown),
     P("senior dev", <<Par({"required"}, "asks 1-4"), Par({}, "plain")>>, "onsite", 1500, Page),
     P("head of data", <<Par({}, "plain"), Par({"required", "preferred"}, "asks 1-11")>>, "hybrid", 900, Unknown),
     P("intern", <<Par({"preferred"}, "likes 3, 11")>>, "onsite", 100, Unknown)}

E(title, summary, from, to) == [title |-> title, summary |-> summary, from |-> from, to |-> to]
MCAddable == {E("senior dev", "built", 2010, 2018), E("senior dev", "led", 2012, 2014),
            E("head of data", "built", 2012, 2014), E("head of data", "led", 2019, 0),
            E("dev", "other work", 2023, 2021)}
NoProfile == [skills |-> {}, about |-> {}, entries |-> <<>>, places |-> {}, remote |-> Unknown,
          languages |-> {}, degrees |-> {}]
MCProfile ==
    {NoProfile,
     [NoProfile EXCEPT !.about = {"head of data"}, !.places = {"berlin"}, !.remote = "remote",
                   !.languages = {"de"}, !.degrees = {"BSc"}],
     [NoProfile EXCEPT !.skills = {"s11"}, !.about = {"plain"}, !.places = {"paris"}, !.remote = "hybrid"],
     [NoProfile EXCEPT !.remote = "onsite", !.languages = {"fr"}]}
=============================================================================

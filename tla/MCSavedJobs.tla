----------------------------- MODULE MCSavedJobs -----------------------------
(* Small instances of SavedJobs: two postings of one role, at one place or    *)
(* two, and the kinds of requests that meet.                                  *)
EXTENDS SavedJobs, TLC

CONSTANTS a, b, engineer, here, there

MCPosting == {a, b}
Siblings  == (a :> engineer) @@ (b :> engineer)
SamePlace == (a :> here) @@ (b :> here)
Apart     == (a :> here) @@ (b :> there)
MCTitled  == {a}

Hydrations == {"hydrate", "hydratePage", "hydratePages"}

MCMenus ==
  {<<{"sync"}, {"refresh"}, Hydrations \cup {"list"}>>,
   <<{"hydrate"}, Hydrations \cup {"refresh", "sync"}, {"refresh", "list"}>>,
   <<{"hydrate"}, {"save", "list", "open"}, {"save", "list"}>>,
   <<{"save"}, {"unsave", "note", "status"}, {"unsave", "note", "save"}>>}
==============================================================================

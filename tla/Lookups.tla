------------------------------ MODULE Lookups -------------------------------
(***************************************************************************)
(* The two ways to a file, browsing and searching.  They share nothing but  *)
(* the disk, so a behaviour is that of one of them.                         *)
(***************************************************************************)
EXTENDS Browse, Ranking

VARIABLE way   \* "browse" or "search"

lookupsVars == <<browseVars, rankingVars, way>>

LookupsInit ==
    \/ way = "browse" /\ BrowseInit /\ typed = <<>> /\ docs = {}
    \/ way = "search" /\ RankingInit /\ world = (CHOOSE w \in Worlds : TRUE) /\ at = Nowhere /\ named = Nowhere

\* The query is complete, the path is found, or nothing can be listed.
Settled ==
    \/ way = "search" /\ Len(typed) = MaxQuery
    \/ way = "browse" /\ (named # Nowhere \/ ~Lists(RootPath))

LookupsNext ==
    \/ way = "browse" /\ BrowseNext /\ UNCHANGED <<rankingVars, way>>
    \/ way = "search" /\ RankingNext /\ UNCHANGED <<browseVars, way>>
    \/ Settled /\ UNCHANGED lookupsVars

LookupsSpec == LookupsInit /\ [][LookupsNext]_lookupsVars

=============================================================================

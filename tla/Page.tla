-------------------------------- MODULE Page --------------------------------
(***************************************************************************)
(* What a page does apart from editing: it signs in and out, it asks from   *)
(* its effects, and it gets listings and hits to show.  The three share     *)
(* nothing that any of them depends on, so a behaviour is that of one.      *)
(***************************************************************************)
EXTENDS Lookups, Queries, WebSession

VARIABLE part   \* "lookups", "queries" or "session"

pageVars == <<lookupsVars, queriesVars, webVars, part>>

\* The parts that a behaviour is not about, in some state of theirs.
LookupsAside == LookupsInit /\ way = "search" /\ docs = (CHOOSE D \in SUBSET AllDocs : Cardinality(D) = 3)
QueriesAside == QueriesInit /\ component = "palette"
SessionAside ==
    /\ auth = "anon" /\ shown = "anon"
    /\ jar = NoSession /\ live = {}
    /\ calls = [c \in Call |-> NoCall]
    /\ busy = FALSE /\ signedOut = FALSE /\ overtaken = FALSE /\ unsure = FALSE

PageInit ==
    \/ part = "lookups" /\ LookupsInit /\ QueriesAside /\ SessionAside
    \/ part = "queries" /\ LookupsAside /\ QueriesInit /\ SessionAside
    \/ part = "session" /\ LookupsAside /\ QueriesAside /\ WebInit

InLookups(A) == part = "lookups" /\ A /\ UNCHANGED <<queriesVars, webVars, part>>
InQueries(A) == part = "queries" /\ A /\ UNCHANGED <<lookupsVars, webVars, part>>
InSession(A) == part = "session" /\ A /\ UNCHANGED <<lookupsVars, queriesVars, part>>

PageNext == InLookups(LookupsNext) \/ InQueries(QueriesNext) \/ InSession(WebNext)

\* QueriesFairness and WebFairness.
PageFairness ==
    /\ \A s \in Search : WF_pageVars(InQueries(Palettes(Send(s) \/ SearchEnds(s))))
    /\ \A a \in Listing : WF_pageVars(InQueries(Nodes(ServeListing(a) \/ ListingEnds(a))))
    /\ WF_pageVars(InQueries(Nodes(Render)))
    /\ \A c \in Call : WF_pageVars(InSession(ServeCall(c) \/ CallEnds(c)))
    /\ WF_pageVars(InSession(RenderAuth))

PageSpec == PageInit /\ [][PageNext]_pageVars /\ PageFairness

=============================================================================

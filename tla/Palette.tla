------------------------------ MODULE Palette -------------------------------
(***************************************************************************)
(* web/src/components/SearchPalette.tsx: an effect asks the server anew for *)
(* every change of the query, after a delay, and drops the answer of the    *)
(* query before.  A key is handled together with the effects it causes, as  *)
(* React flushes them before the next event.                                *)
(***************************************************************************)
EXTENDS Integers

CONSTANTS
    Query,     \* queries, trimmed
    NoQuery,   \* the empty one
    Search,    \* bound of the model: as many searches under way
    MaxHits    \* the most hits of a search

ASSUME PaletteAssumption == NoQuery \notin Query /\ MaxHits \in Nat

VARIABLES
    up,         \* the palette is on the screen
    query,
    results,    \* how many hits are shown, and (history) of which query
    active,     \* the hit that Enter opens
    searching,  \* loading
    searches    \* the searches under way

paletteVars == <<up, query, results, active, searching, searches>>

NoSearch == [stage |-> "none"]
NoHits == [of |-> NoQuery, n |-> 0]

SearchRecord == [stage : {"delayed", "sent"}, of : Query, cancelled : BOOLEAN]

PaletteTypeOK ==
    /\ up \in BOOLEAN
    /\ query \in Query \cup {NoQuery}
    /\ results \in [of : Query \cup {NoQuery}, n : 0 .. MaxHits]
    /\ active \in -1 .. MaxHits
    /\ searching \in BOOLEAN
    /\ searches \in [Search -> SearchRecord \cup {NoSearch}]

Fresh ==
    /\ query' = NoQuery
    /\ results' = NoHits
    /\ active' = 0
    /\ searching' = FALSE

PaletteInit ==
    /\ up = FALSE
    /\ query = NoQuery
    /\ results = NoHits
    /\ active = 0
    /\ searching = FALSE
    /\ searches = [s \in Search |-> NoSearch]

UnderWay(s) == searches[s] # NoSearch

\* The effect's cleanup: a search still delayed is not sent, one that was sent
\* is cancelled.
CleanedUp ==
    [s \in Search |-> IF UnderWay(s) /\ searches[s].stage = "sent"
                      THEN [searches[s] EXCEPT !.cancelled = TRUE]
                      ELSE NoSearch]

-----------------------------------------------------------------------------
(* The user *)

OpenPalette ==
    /\ ~up
    /\ up' = TRUE
    /\ Fresh
    /\ UNCHANGED searches

\* By Escape, a click beside it, or opening a hit.
ClosePalette ==
    /\ up
    /\ up' = FALSE
    /\ Fresh
    /\ searches' = CleanedUp

\* The query may be the same but for the spaces around it.
TypeQuery(s, q) ==
    /\ up
    /\ ~UnderWay(s)
    /\ query' = q
    /\ searching' = TRUE
    /\ searches' = [CleanedUp EXCEPT ![s] = [stage |-> "delayed", of |-> q, cancelled |-> FALSE]]
    /\ UNCHANGED <<up, results, active>>

ClearQuery ==
    /\ up
    /\ query' = NoQuery
    /\ results' = NoHits
    /\ searching' = FALSE
    /\ searches' = CleanedUp
    /\ UNCHANGED <<up, active>>

Moves(i) == up /\ active' = i /\ UNCHANGED <<up, query, results, searching, searches>>

\* Mutant: the selection may be moved past the last hit.
DownPast == Moves(active + 1)

\* With no hits shown this is -1.
Down == Moves(IF active + 1 < results.n THEN active + 1 ELSE results.n - 1)
Up == Moves(IF active > 0 THEN active - 1 ELSE 0)
Hover == \E i \in 0 .. results.n - 1 : Moves(i)

-----------------------------------------------------------------------------
(* Timers and answers *)

Send(s) ==
    /\ UnderWay(s)
    /\ searches[s].stage = "delayed"
    /\ searches' = [searches EXCEPT ![s].stage = "sent"]
    /\ UNCHANGED <<up, query, results, active, searching>>

Sent(s) == UnderWay(s) /\ searches[s].stage = "sent"

\* Mutant: the flag that drops answers of earlier queries is not looked at.
SearchAnsweredLate(s) ==
    /\ Sent(s)
    /\ \E n \in 0 .. MaxHits : results' = [of |-> searches[s].of, n |-> n]
    /\ active' = 0
    /\ searching' = FALSE
    /\ searches' = [searches EXCEPT ![s] = NoSearch]
    /\ UNCHANGED <<up, query>>

\* Mutant: new hits leave the selection where it was.
SearchAnsweredAside(s) ==
    /\ Sent(s)
    /\ ~searches[s].cancelled
    /\ \E n \in 0 .. MaxHits : results' = [of |-> searches[s].of, n |-> n]
    /\ searching' = FALSE
    /\ searches' = [searches EXCEPT ![s] = NoSearch]
    /\ UNCHANGED <<up, query, active>>

SearchAnswered(s) ==
    /\ Sent(s)
    /\ ~searches[s].cancelled
    /\ \E n \in 0 .. MaxHits : results' = [of |-> searches[s].of, n |-> n]
    /\ active' = 0
    /\ searching' = FALSE
    /\ searches' = [searches EXCEPT ![s] = NoSearch]
    /\ UNCHANGED <<up, query>>

\* Mutant: loading is reset where the search has worked only.
SearchFailedStuck(s) ==
    /\ Sent(s)
    /\ ~searches[s].cancelled
    /\ results' = NoHits
    /\ searches' = [searches EXCEPT ![s] = NoSearch]
    /\ UNCHANGED <<up, query, active, searching>>

SearchFailed(s) ==
    /\ Sent(s)
    /\ ~searches[s].cancelled
    /\ results' = NoHits
    /\ searching' = FALSE
    /\ searches' = [searches EXCEPT ![s] = NoSearch]
    /\ UNCHANGED <<up, query, active>>

SearchIgnored(s) ==
    /\ Sent(s)
    /\ searches[s].cancelled
    /\ searches' = [searches EXCEPT ![s] = NoSearch]
    /\ UNCHANGED <<up, query, results, active, searching>>

SearchEnds(s) == SearchAnswered(s) \/ SearchFailed(s) \/ SearchIgnored(s)

PaletteNext ==
    \/ OpenPalette \/ ClosePalette \/ ClearQuery \/ Down \/ Up \/ Hover
    \/ \E s \in Search : Send(s) \/ SearchEnds(s) \/ \E q \in Query : TypeQuery(s, q)

-----------------------------------------------------------------------------

(***************************************************************************)
(* Once nothing is loading, the hits shown are those of the query shown,    *)
(* whatever order the answers to earlier queries came in.                   *)
(***************************************************************************)
HitsOfQuery == ~searching /\ results.n > 0 => results.of = query

(***************************************************************************)
(* While hits are shown, Enter opens one of them: the selection follows     *)
(* lists that get longer and shorter, and may be moved while there is none. *)
(***************************************************************************)
ActiveIsHit == results.n > 0 => active \in 0 .. results.n - 1

(***************************************************************************)
(* Once the user stops typing, loading ends, whatever becomes of the        *)
(* searches.                                                                *)
(***************************************************************************)
StopsTyping == <>[][\A s \in Search, q \in Query : ~TypeQuery(s, q)]_paletteVars

SearchingEnds == StopsTyping => []<>~searching

=============================================================================

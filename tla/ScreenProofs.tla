---------------------------- MODULE ScreenProofs ----------------------------
(***************************************************************************)
(* The page's components that wait for answers.  Queries for any number of  *)
(* queries, searches, listings and edits: what is shown is what was asked   *)
(* for last, in whatever order answers come.  The editor for any number of  *)
(* paths, contents and calls: nothing on the screen is lost or mistaken.    *)
(***************************************************************************)
EXTENDS Queries, Editor, FiniteSetTheorems, TLAPS

(***************************************************************************)
(* The inductive invariants.                                                *)
(***************************************************************************)

\* A search whose answer will be shown is for the query on the screen, and it
\* is the only one.
Live(s) == UnderWay(s) /\ ~searches[s].cancelled

LiveSound ==
    /\ \A s \in Search : Live(s) => up /\ searching /\ searches[s].of = query
    /\ \A s, t \in Search : Live(s) /\ Live(t) => s = t

PaletteInv == PaletteTypeOK /\ LiveSound /\ HitsOfQuery /\ ActiveIsHit

\* Nothing is known of an edit before the server has made it.
AtMade ==
    /\ \A e \in Edit : edits[e] # NoEdit /\ edits[e].stage = "served" => edits[e].at <= version
    /\ \A a \in Listing : ListingUnderWay(a) => listings[a].at <= version

\* A listing that will be shown was served after every edit the page knows of,
\* unless the page is about to ask again.
ServedFresh ==
    ~due => \A a \in Listing :
                ListingUnderWay(a) /\ ~listings[a].cancelled /\ listings[a].stage = "served"
                    => listings[a].at >= told

NodeInv == NodeTypeOK /\ AtMade /\ ServedFresh /\ TreeFresh

-----------------------------------------------------------------------------
(* The palette *)

\* No search is told from one by the names of its fields.
LEMMA SearchesDiffer ==
    /\ NoSearch \notin SearchRecord
    /\ NoHits \in [of : Query \cup {NoQuery}, n : 0 .. MaxHits]
    /\ NoHits.n = 0
    /\ 0 \in -1 .. MaxHits
  BY PaletteAssumption DEF NoSearch, SearchRecord, NoHits

\* The cleanup leaves no search whose answer will be shown.
LEMMA CleanedUpDead ==
    ASSUME PaletteTypeOK
    PROVE  /\ CleanedUp \in [Search -> SearchRecord \cup {NoSearch}]
           /\ \A s \in Search : CleanedUp[s] = NoSearch \/ CleanedUp[s].cancelled
  <1> SUFFICES ASSUME NEW s \in Search
               PROVE  /\ CleanedUp[s] \in SearchRecord \cup {NoSearch}
                      /\ CleanedUp[s] = NoSearch \/ CleanedUp[s].cancelled
    BY DEF CleanedUp
  <1>1. CASE UnderWay(s) /\ searches[s].stage = "sent"
    <2>1. searches[s] \in SearchRecord
      BY <1>1 DEF PaletteTypeOK, UnderWay
    <2>2. CleanedUp[s] = [searches[s] EXCEPT !.cancelled = TRUE]
      BY <1>1 DEF CleanedUp
    <2> QED
      BY <2>1, <2>2 DEF SearchRecord
  <1>2. CASE ~(UnderWay(s) /\ searches[s].stage = "sent")
    BY <1>2 DEF CleanedUp
  <1> QED
    BY <1>1, <1>2

LEMMA PaletteStarts ==
    ASSUME PaletteInit
    PROVE  PaletteInv
  <1> USE SearchesDiffer, PaletteAssumption DEF PaletteInit
  <1>1. PaletteTypeOK
    BY Zenon DEF PaletteTypeOK
  <1>2. LiveSound
    BY DEF LiveSound, Live, UnderWay
  <1> QED
    BY <1>1, <1>2 DEF PaletteInv, HitsOfQuery, ActiveIsHit

\* Once no search is left whose answer will be shown, the cleanup of a changed
\* query is sound.
LEMMA AllCleaned ==
    ASSUME PaletteInv, searches' = CleanedUp
    PROVE  /\ searches' \in [Search -> SearchRecord \cup {NoSearch}]
           /\ LiveSound'
  <1>1. \A s \in Search : ~Live(s)'
    BY CleanedUpDead DEF PaletteInv, Live, UnderWay
  <1> QED
    BY <1>1, CleanedUpDead DEF PaletteInv, LiveSound

\* A step of one search that brings up none to be shown leaves the rest sound.
LEMMA LiveFewer ==
    ASSUME LiveSound, up' = up, searching' = searching, query' = query,
           \A t \in Search : Live(t)' => Live(t) /\ searches'[t].of = searches[t].of
    PROVE  LiveSound'
  BY DEF LiveSound

\* The end of a search leaves the others as they are.
LEMMA SearchGone ==
    ASSUME PaletteInv, NEW s \in Search, searches' = [searches EXCEPT ![s] = NoSearch]
    PROVE  /\ searches' \in [Search -> SearchRecord \cup {NoSearch}]
           /\ \A t \in Search : Live(t)' => Live(t) /\ t # s /\ searches'[t] = searches[t]
  BY DEF PaletteInv, PaletteTypeOK, Live, UnderWay

\* That of the only one to be shown leaves none.
LEMMA LastGone ==
    ASSUME PaletteInv, NEW s \in Search, Live(s), searches' = [searches EXCEPT ![s] = NoSearch]
    PROVE  \A t \in Search : ~Live(t)'
  BY SearchGone DEF PaletteInv, LiveSound

LEMMA PaletteStep ==
    ASSUME PaletteInv, [PaletteNext]_paletteVars
    PROVE  PaletteInv'
  <1> USE SearchesDiffer, PaletteAssumption
  <1>t. PaletteTypeOK /\ LiveSound /\ HitsOfQuery /\ ActiveIsHit
    BY DEF PaletteInv
  <1>1. CASE OpenPalette
    <2>1. PaletteTypeOK'
      BY <1>1, <1>t DEF OpenPalette, Fresh, PaletteTypeOK
    <2>2. \A s \in Search : ~Live(s)'
      BY <1>1, <1>t DEF OpenPalette, LiveSound, Live, UnderWay
    <2> QED
      BY <1>1, <2>1, <2>2
      DEF OpenPalette, Fresh, PaletteInv, LiveSound, HitsOfQuery, ActiveIsHit
  <1>2. CASE ClosePalette
    <2>1. PaletteTypeOK'
      BY <1>2, <1>t, AllCleaned DEF ClosePalette, Fresh, PaletteTypeOK
    <2> QED
      BY <1>2, <2>1, AllCleaned DEF ClosePalette, Fresh, PaletteInv, HitsOfQuery, ActiveIsHit
  <1>3. CASE ClearQuery
    <2>1. PaletteTypeOK'
      BY <1>3, <1>t, AllCleaned DEF ClearQuery, PaletteTypeOK
    <2> QED
      BY <1>3, <2>1, AllCleaned DEF ClearQuery, PaletteInv, HitsOfQuery, ActiveIsHit
  <1>4. ASSUME NEW s \in Search, NEW q \in Query, TypeQuery(s, q)
        PROVE  PaletteInv'
    <2> DEFINE new == [stage |-> "delayed", of |-> q, cancelled |-> FALSE]
    <2>1. new \in SearchRecord
      BY DEF SearchRecord
    <2>2. searches' = [CleanedUp EXCEPT ![s] = new]
      BY <1>4 DEF TypeQuery
    <2>3. searches' \in [Search -> SearchRecord \cup {NoSearch}] /\ searches'[s] = new
      BY <2>1, <2>2, <1>t, CleanedUpDead
    <2>4. \A t \in Search \ {s} : ~Live(t)'
      BY <2>2, <1>t, CleanedUpDead DEF Live, UnderWay
    <2>5. PaletteTypeOK'
      BY <1>4, <1>t, <2>3 DEF TypeQuery, PaletteTypeOK
    <2>6. LiveSound'
      BY <1>4, <2>3, <2>4 DEF TypeQuery, LiveSound
    <2> QED
      BY <1>4, <1>t, <2>5, <2>6 DEF TypeQuery, PaletteInv, HitsOfQuery, ActiveIsHit
  <1>5. ASSUME NEW i \in -1 .. MaxHits, Moves(i), results.n > 0 => i \in 0 .. results.n - 1
        PROVE  PaletteInv'
    <2>1. PaletteTypeOK' /\ HitsOfQuery' /\ ActiveIsHit'
      BY <1>5, <1>t DEF Moves, PaletteTypeOK, HitsOfQuery, ActiveIsHit
    <2>2. LiveSound'
      BY <1>5, <1>t DEF Moves, LiveSound, Live, UnderWay
    <2> QED
      BY <2>1, <2>2 DEF PaletteInv
  <1>6. CASE Down
    BY <1>5, <1>6, <1>t DEF Down, PaletteTypeOK, ActiveIsHit
  <1>7. CASE Up
    BY <1>5, <1>7, <1>t DEF Up, PaletteTypeOK, ActiveIsHit
  <1>8. CASE Hover
    <2>1. PICK i \in 0 .. results.n - 1 : Moves(i)
      BY <1>8 DEF Hover
    <2>2. i \in -1 .. MaxHits
      BY <1>t DEF PaletteTypeOK
    <2> QED
      BY <1>5, <2>1, <2>2
  <1>9. ASSUME NEW s \in Search, Send(s)
        PROVE  PaletteInv'
    <2>1. searches[s] \in SearchRecord
      BY <1>9, <1>t DEF Send, PaletteTypeOK, UnderWay
    <2>2. [searches[s] EXCEPT !.stage = "sent"] \in SearchRecord
      BY <2>1 DEF SearchRecord
    <2>3. searches' = [searches EXCEPT ![s] = [searches[s] EXCEPT !.stage = "sent"]]
      BY <1>9 DEF Send
    <2>4. \A t \in Search : Live(t)' => Live(t) /\ searches'[t].of = searches[t].of
      BY <2>1, <2>2, <2>3, <1>t DEF PaletteTypeOK, Live, UnderWay, SearchRecord
    <2>5. PaletteTypeOK'
      BY <1>9, <1>t, <2>2, <2>3 DEF Send, PaletteTypeOK
    <2>6. LiveSound'
      BY <1>9, <1>t, <2>4, LiveFewer DEF Send
    <2> QED
      BY <1>9, <1>t, <2>5, <2>6 DEF Send, PaletteInv, HitsOfQuery, ActiveIsHit
  <1>10. ASSUME NEW s \in Search, SearchAnswered(s)
         PROVE  PaletteInv'
    <2>1. Live(s)
      BY <1>10 DEF SearchAnswered, Sent, Live
    <2>2. searches' = [searches EXCEPT ![s] = NoSearch]
      BY <1>10 DEF SearchAnswered
    <2>3. PICK n \in 0 .. MaxHits : results' = [of |-> searches[s].of, n |-> n]
      BY <1>10 DEF SearchAnswered
    <2>4. searches[s].of = query
      BY <2>1, <1>t DEF LiveSound
    <2>5. results' \in [of : Query \cup {NoQuery}, n : 0 .. MaxHits]
      BY <1>t, <2>3, <2>4 DEF PaletteTypeOK
    <2>8. PaletteTypeOK'
      BY <1>10, <1>t, <2>2, <2>5, SearchGone, Zenon DEF SearchAnswered, PaletteTypeOK
    <2>6. LiveSound'
      BY <2>1, <2>2, LastGone DEF LiveSound
    <2>7. HitsOfQuery' /\ ActiveIsHit'
      BY <1>10, <2>3, <2>4 DEF SearchAnswered, HitsOfQuery, ActiveIsHit
    <2> QED
      BY <2>6, <2>7, <2>8 DEF PaletteInv
  <1>11. ASSUME NEW s \in Search, SearchFailed(s)
         PROVE  PaletteInv'
    <2>1. Live(s) /\ searches' = [searches EXCEPT ![s] = NoSearch]
      BY <1>11 DEF SearchFailed, Sent, Live
    <2>2. PaletteTypeOK'
      BY <1>11, <1>t, <2>1, SearchGone DEF SearchFailed, PaletteTypeOK
    <2>3. LiveSound'
      BY <2>1, LastGone DEF LiveSound
    <2> QED
      BY <1>11, <2>2, <2>3 DEF SearchFailed, PaletteInv, HitsOfQuery, ActiveIsHit
  <1>12. ASSUME NEW s \in Search, SearchIgnored(s)
         PROVE  PaletteInv'
    <2>1. searches' = [searches EXCEPT ![s] = NoSearch]
      BY <1>12 DEF SearchIgnored
    <2>2. PaletteTypeOK'
      BY <1>12, <1>t, <2>1, SearchGone DEF SearchIgnored, PaletteTypeOK
    <2>3. LiveSound'
      BY <1>12, <1>t, <2>1, SearchGone, LiveFewer DEF SearchIgnored
    <2> QED
      BY <1>12, <1>t, <2>2, <2>3 DEF SearchIgnored, PaletteInv, HitsOfQuery, ActiveIsHit
  <1>13. CASE UNCHANGED paletteVars
    BY <1>13, <1>t
    DEF paletteVars, PaletteInv, PaletteTypeOK, LiveSound, Live, UnderWay, HitsOfQuery, ActiveIsHit
  <1> QED
    BY <1>1, <1>2, <1>3, <1>4, <1>6, <1>7, <1>8, <1>9, <1>10, <1>11, <1>12, <1>13
    DEF PaletteNext, SearchEnds

-----------------------------------------------------------------------------
(* A directory of the tree *)

\* No listing and no edit is told from one by its stage.
LEMMA StagesTold ==
    /\ NoListing \notin ListingRecord
    /\ NoEdit.stage = "none" /\ NoEdit # [stage |-> "sent"]
    /\ \A v \in Nat : Shown(v).shown /\ Shown(v).at = v
    /\ ~Nothing.shown
  BY DirNodeAssumption DEF NoListing, ListingRecord, NoEdit, Shown, Nothing

\* The cleanup leaves no listing that will be shown.
LEMMA CancelledDead ==
    ASSUME NodeInv
    PROVE  /\ Cancelled \in [Listing -> ListingRecord \cup {NoListing}]
           /\ \A a \in Listing :
                 Cancelled[a] # NoListing =>
                    /\ Cancelled[a].cancelled
                    /\ Cancelled[a].at <= version
  <1> SUFFICES ASSUME NEW a \in Listing
               PROVE  /\ Cancelled[a] \in ListingRecord \cup {NoListing}
                      /\ Cancelled[a] # NoListing =>
                            /\ Cancelled[a].cancelled
                            /\ Cancelled[a].at <= version
    BY DEF Cancelled
  <1>1. CASE ListingUnderWay(a)
    <2>1. listings[a] \in ListingRecord
      BY <1>1 DEF NodeInv, NodeTypeOK, ListingUnderWay
    <2>2. Cancelled[a] = [listings[a] EXCEPT !.cancelled = TRUE]
      BY <1>1 DEF Cancelled
    <2>3. listings[a].at <= version
      BY <1>1 DEF NodeInv, AtMade
    <2>4. /\ Cancelled[a] \in ListingRecord
          /\ Cancelled[a].cancelled
          /\ Cancelled[a].at = listings[a].at
      BY <2>1, <2>2 DEF ListingRecord
    <2> QED
      BY <2>3, <2>4
  <1>2. CASE ~ListingUnderWay(a)
    BY <1>2 DEF Cancelled
  <1> QED
    BY <1>1, <1>2

\* What a run of the effect leaves: no listing that will be shown was served
\* yet, and an expanded directory is loading.
LEMMA EffectRuns ==
    ASSUME NodeInv, NEW open \in BOOLEAN, RunsEffect(open), version' = version
    PROVE  /\ listings' \in [Listing -> ListingRecord \cup {NoListing}]
           /\ loading' \in BOOLEAN /\ error' \in BOOLEAN
           /\ open => loading'
           /\ \A a \in Listing :
                 ListingUnderWay(a)' => /\ listings'[a].at <= version'
                                        /\ listings'[a].cancelled \/ listings'[a].stage # "served"
  <1>v. version \in Nat /\ version' \in Nat
    BY DirNodeAssumption DEF NodeInv, NodeTypeOK
  <1>1. CASE open
    <2> DEFINE new == [stage |-> "sent", at |-> 0, cancelled |-> FALSE]
    <2>1. PICK a \in Listing : listings' = [Cancelled EXCEPT ![a] = new]
      BY <1>1 DEF RunsEffect
    <2>2. loading' = TRUE /\ error' = FALSE
      BY <1>1 DEF RunsEffect
    <2>3. new \in ListingRecord /\ new.at = 0 /\ new.stage = "sent"
      BY DirNodeAssumption DEF ListingRecord
    <2>4. listings' \in [Listing -> ListingRecord \cup {NoListing}]
      BY <2>1, <2>3, CancelledDead, Zenon
    <2>5. listings'[a] = new
      BY <2>1, CancelledDead
    <2>6. \A b \in Listing \ {a} : listings'[b] = Cancelled[b]
      BY <2>1, CancelledDead
    <2>7. ASSUME NEW b \in Listing, ListingUnderWay(b)'
          PROVE  /\ listings'[b].at <= version'
                 /\ listings'[b].cancelled \/ listings'[b].stage # "served"
      <3>1. CASE b = a
        BY <3>1, <2>3, <2>5, <1>v
      <3>2. CASE b # a
        BY <3>2, <2>6, <2>7, CancelledDead DEF ListingUnderWay
      <3> QED
        BY <3>1, <3>2
    <2> QED
      BY <2>2, <2>4, <2>7
  <1>2. CASE ~open
    <2>1. listings' = Cancelled /\ loading' = loading /\ error' = error
      BY <1>2 DEF RunsEffect
    <2>2. loading' \in BOOLEAN /\ error' \in BOOLEAN
      BY <2>1 DEF NodeInv, NodeTypeOK
    <2> QED
      BY <1>2, <2>1, <2>2, CancelledDead DEF ListingUnderWay
  <1> QED
    BY <1>1, <1>2

\* The end of a listing leaves the others as they are.
LEMMA ListingGone ==
    ASSUME NodeInv, NEW a \in Listing, listings' = [listings EXCEPT ![a] = NoListing]
    PROVE  /\ listings' \in [Listing -> ListingRecord \cup {NoListing}]
           /\ \A b \in Listing : ListingUnderWay(b)' => ListingUnderWay(b) /\ listings'[b] = listings[b]
  BY DEF NodeInv, NodeTypeOK, ListingUnderWay

\* The types of what only the server and its answers change, and of the rest.
ServerTyped ==
    /\ version \in 0 .. MaxEdits
    /\ edits \in [Edit -> {NoEdit, [stage |-> "sent"]} \cup [stage : {"served"}, at : 1 .. MaxEdits]]
    /\ told \in 0 .. version

PageTyped ==
    /\ due \in BOOLEAN
    /\ expanded \in BOOLEAN
    /\ entries \in {Nothing} \cup {Shown(v) : v \in 0 .. version}
    /\ error \in BOOLEAN
    /\ loading \in BOOLEAN
    /\ listings \in [Listing -> ListingRecord \cup {NoListing}]

LEMMA Typed ==
    /\ NodeTypeOK <=> ServerTyped /\ PageTyped
    /\ NodeTypeOK' <=> ServerTyped' /\ PageTyped'
  <1>1. NodeTypeOK <=> ServerTyped /\ PageTyped
    BY Zenon DEF NodeTypeOK, ServerTyped, PageTyped
  <1>2. NodeTypeOK' <=> ServerTyped' /\ PageTyped'
    BY Zenon DEF NodeTypeOK, ServerTyped, PageTyped
  <1> QED
    BY <1>1, <1>2

LEMMA NodeStarts ==
    ASSUME NodeInit
    PROVE  NodeInv
  <1> USE StagesTold DEF NodeInit
  <1>1. version \in 0 .. MaxEdits /\ told \in 0 .. version
    BY DirNodeAssumption
  <1>2. ServerTyped
    BY <1>1, Zenon DEF ServerTyped
  <1>3. PageTyped
    BY Zenon DEF PageTyped
  <1>4. AtMade /\ ServedFresh /\ TreeFresh
    BY DEF AtMade, ServedFresh, ListingUnderWay, TreeFresh
  <1> QED
    BY <1>2, <1>3, <1>4, Typed DEF NodeInv

\* A step that leaves the server alone and what the page knows of it.
LEMMA ServerRests ==
    ASSUME NodeInv, UNCHANGED <<version, edits, told>>
    PROVE  /\ ServerTyped'
           /\ entries \in {Nothing} \cup {Shown(v) : v \in 0 .. version'}
           /\ \A e \in Edit : edits'[e] # NoEdit /\ edits'[e].stage = "served" => edits'[e].at <= version'
  BY Typed DEF NodeInv, ServerTyped, PageTyped, AtMade

\* Nor does it bring one up to be shown.
LEMMA GoneSound ==
    ASSUME NodeInv, NEW a \in Listing, listings' = [listings EXCEPT ![a] = NoListing],
           UNCHANGED <<version, edits, told, due>>
    PROVE  AtMade' /\ ServedFresh'
  <1>1. \A b \in Listing : ListingUnderWay(b)' => ListingUnderWay(b) /\ listings'[b] = listings[b]
    BY ListingGone
  <1>2. AtMade'
    BY <1>1, ServerRests DEF NodeInv, AtMade
  <1>3. ServedFresh'
    BY <1>1 DEF NodeInv, ServedFresh
  <1> QED
    BY <1>2, <1>3

LEMMA NodeStep ==
    ASSUME NodeInv, [NodeNext]_nodeVars
    PROVE  NodeInv'
  <1>t. ServerTyped /\ PageTyped /\ AtMade /\ ServedFresh /\ TreeFresh
    BY Typed DEF NodeInv
  <1>v. version \in Nat /\ told \in Nat /\ told <= version
    BY <1>t, DirNodeAssumption DEF ServerTyped
  <1>1. CASE Toggle
    <2>1. RunsEffect(expanded') /\ expanded' \in BOOLEAN
      BY <1>1, <1>t DEF Toggle, PageTyped
    <2>2. version' = version
      BY <1>1 DEF Toggle
    <2>3. ServerTyped' /\ entries' \in {Nothing} \cup {Shown(v) : v \in 0 .. version'}
      BY <1>1, ServerRests DEF Toggle
    <2>4. PageTyped'
      BY <1>1, <1>t, <2>1, <2>2, <2>3, EffectRuns, Zenon DEF Toggle, PageTyped
    <2>5. AtMade' /\ ServedFresh'
      BY <1>1, <2>1, <2>2, EffectRuns, ServerRests DEF Toggle, AtMade, ServedFresh
    <2>6. TreeFresh'
      BY <2>1, <2>2, EffectRuns DEF TreeFresh
    <2> QED
      BY <2>3, <2>4, <2>5, <2>6, Typed DEF NodeInv
  <1>2. CASE Render
    <2>1. RunsEffect(expanded) /\ expanded \in BOOLEAN /\ expanded' = expanded
      BY <1>2, <1>t DEF Render, PageTyped
    <2>2. version' = version
      BY <1>2 DEF Render
    <2>3. ServerTyped' /\ entries' \in {Nothing} \cup {Shown(v) : v \in 0 .. version'}
      BY <1>2, ServerRests DEF Render
    <2>4. PageTyped'
      BY <1>2, <2>1, <2>2, <2>3, EffectRuns, Zenon DEF Render, PageTyped
    <2>5. AtMade' /\ ServedFresh'
      BY <1>2, <2>1, <2>2, EffectRuns, ServerRests DEF Render, AtMade, ServedFresh
    <2>6. TreeFresh'
      BY <2>1, <2>2, EffectRuns DEF TreeFresh
    <2> QED
      BY <2>3, <2>4, <2>5, <2>6, Typed DEF NodeInv
  <1>3. CASE Remount
    <2>1. ServerTyped'
      BY <1>3, ServerRests DEF Remount
    <2>2. PageTyped'
      BY <1>3, CancelledDead, Zenon DEF Remount, PageTyped
    <2>3. AtMade' /\ ServedFresh'
      BY <1>3, CancelledDead, ServerRests DEF Remount, AtMade, ServedFresh, ListingUnderWay
    <2>4. TreeFresh'
      BY <1>3 DEF Remount, TreeFresh
    <2> QED
      BY <2>1, <2>2, <2>3, <2>4, Typed DEF NodeInv
  <1>4. ASSUME NEW a \in Listing, ServeListing(a)
        PROVE  NodeInv'
    <2>1. listings[a] \in ListingRecord
      BY <1>4, <1>t DEF ServeListing, PageTyped, ListingUnderWay
    <2>2. PICK r \in ListingRecord :
             /\ listings' = [listings EXCEPT ![a] = r]
             /\ r.cancelled = listings[a].cancelled
             /\ \/ r.stage = "served" /\ r.at = version
                \/ r.stage = "failed" /\ r.at = listings[a].at
      <3>1. CASE listings' = [listings EXCEPT ![a].stage = "served", ![a].at = version]
        <4> DEFINE r == [listings[a] EXCEPT !.stage = "served", !.at = version]
        <4>1. r \in ListingRecord /\ r.cancelled = listings[a].cancelled /\ r.stage = "served" /\ r.at = version
          BY <2>1, <1>t DEF ListingRecord, ServerTyped
        <4>2. listings' = [listings EXCEPT ![a] = r]
          BY <3>1, <1>t DEF PageTyped
        <4> QED
          BY <4>1, <4>2
      <3>2. CASE listings' = [listings EXCEPT ![a].stage = "failed"]
        <4> DEFINE r == [listings[a] EXCEPT !.stage = "failed"]
        <4>1. r \in ListingRecord /\ r.cancelled = listings[a].cancelled /\ r.stage = "failed" /\ r.at = listings[a].at
          BY <2>1 DEF ListingRecord
        <4> QED
          BY <4>1, <3>2
      <3> QED
        BY <1>4, <3>1, <3>2 DEF ServeListing
    <2>3. \A b \in Listing \ {a} : listings'[b] = listings[b]
      BY <2>2, <1>t DEF PageTyped
    <2>4. listings' \in [Listing -> ListingRecord \cup {NoListing}] /\ listings'[a] = r
      BY <2>2, <1>t DEF PageTyped
    <2>5. ServerTyped' /\ version' = version /\ told' = told /\ due' = due
      BY <1>4, ServerRests DEF ServeListing
    <2>6. PageTyped'
      BY <1>4, <1>t, <2>4, Zenon DEF ServeListing, PageTyped
    <2>7. AtMade'
      <3>1. listings'[a].at <= version'
        BY <1>4, <1>t, <1>v, <2>2, <2>4, <2>5 DEF ServeListing, AtMade
      <3> QED
        BY <1>4, <1>t, <2>3, <2>5, <3>1, ServerRests DEF ServeListing, AtMade, ListingUnderWay
    <2>8. ServedFresh'
      BY <1>t, <1>v, <2>2, <2>3, <2>4, <2>5 DEF ServedFresh, ListingUnderWay
    <2>9. TreeFresh'
      BY <1>4, <1>t DEF ServeListing, TreeFresh
    <2> QED
      BY <2>5, <2>6, <2>7, <2>8, <2>9, Typed DEF NodeInv
  <1>5. ASSUME NEW a \in Listing, ListingAnswered(a)
        PROVE  NodeInv'
    <2>1. /\ listings[a] \in ListingRecord
          /\ ListingUnderWay(a)
          /\ ~listings[a].cancelled
          /\ listings[a].stage = "served"
          /\ listings' = [listings EXCEPT ![a] = NoListing]
      BY <1>5, <1>t DEF ListingAnswered, Comes, PageTyped, ListingUnderWay
    <2>2. listings[a].at \in 0 .. version
      BY <1>t, <1>v, <2>1 DEF AtMade, ListingRecord
    <2>3. ServerTyped' /\ version' = version /\ told' = told /\ due' = due
      BY <1>5, ServerRests DEF ListingAnswered
    <2>4. PageTyped'
      BY <1>5, <1>t, <2>1, <2>2, <2>3, ListingGone, Zenon DEF ListingAnswered, PageTyped
    <2>5. AtMade' /\ ServedFresh'
      BY <1>5, <2>1, GoneSound DEF ListingAnswered
    <2>6. ~due => listings[a].at >= told
      BY <1>t, <2>1 DEF ServedFresh
    <2>7. entries'.shown /\ entries'.at = listings[a].at
      BY <1>5, <2>2, <1>v, StagesTold DEF ListingAnswered
    <2>8. TreeFresh'
      BY <2>3, <2>6, <2>7 DEF TreeFresh
    <2> QED
      BY <2>3, <2>4, <2>5, <2>8, Typed DEF NodeInv
  <1>6. ASSUME NEW a \in Listing, ListingFailed(a)
        PROVE  NodeInv'
    <2>1. listings' = [listings EXCEPT ![a] = NoListing]
      BY <1>6 DEF ListingFailed, Comes
    <2>2. ServerTyped' /\ version' = version /\ told' = told /\ due' = due
      BY <1>6, ServerRests DEF ListingFailed
    <2>3. PageTyped'
      BY <1>6, <1>t, <2>1, <2>2, ListingGone, Zenon DEF ListingFailed, PageTyped
    <2>4. AtMade' /\ ServedFresh'
      BY <1>6, <2>1, GoneSound DEF ListingFailed
    <2>5. TreeFresh'
      BY <1>6 DEF ListingFailed, TreeFresh
    <2> QED
      BY <2>2, <2>3, <2>4, <2>5, Typed DEF NodeInv
  <1>7. ASSUME NEW a \in Listing, ListingIgnored(a)
        PROVE  NodeInv'
    <2>1. listings' = [listings EXCEPT ![a] = NoListing]
      BY <1>7 DEF ListingIgnored, Comes
    <2>2. ServerTyped' /\ version' = version /\ told' = told /\ due' = due
      BY <1>7, ServerRests DEF ListingIgnored
    <2>3. PageTyped'
      BY <1>7, <1>t, <2>1, <2>2, ListingGone, Zenon DEF ListingIgnored, PageTyped
    <2>4. AtMade' /\ ServedFresh'
      BY <1>7, <2>1, GoneSound DEF ListingIgnored
    <2>5. TreeFresh'
      BY <1>7, <1>t DEF ListingIgnored, TreeFresh
    <2> QED
      BY <2>2, <2>3, <2>4, <2>5, Typed DEF NodeInv
  <1>8. ASSUME NEW e \in Edit, edits[e] # NoEdit, edits' = [edits EXCEPT ![e] = NoEdit],
               told' \in Nat, told' <= version,
               (due' = due /\ told' = told) \/ due' = TRUE,
               UNCHANGED <<version, expanded, entries, error, loading, listings>>
        PROVE  NodeInv'
    <2>1. /\ edits' \in [Edit -> {NoEdit, [stage |-> "sent"]} \cup [stage : {"served"}, at : 1 .. MaxEdits]]
          /\ \A d \in Edit : edits'[d] # NoEdit => edits'[d] = edits[d]
      BY <1>8, <1>t DEF ServerTyped
    <2>2. told' \in 0 .. version'
      BY <1>8, <1>v
    <2>3. ServerTyped'
      BY <1>8, <1>t, <2>1, <2>2, Zenon DEF ServerTyped
    <2>4. PageTyped'
      BY <1>8, <1>t, Zenon DEF PageTyped
    <2>5. AtMade'
      BY <1>8, <1>t, <2>1 DEF AtMade, ListingUnderWay
    <2>6. ServedFresh' /\ TreeFresh'
      BY <1>8, <1>t DEF ServedFresh, TreeFresh, ListingUnderWay
    <2> QED
      BY <2>3, <2>4, <2>5, <2>6, Typed DEF NodeInv
  <1>9. ASSUME NEW e \in Edit, EditAnswered(e)
        PROVE  NodeInv'
    <2>1. edits[e].at \in 1 .. MaxEdits /\ edits[e] # NoEdit /\ edits[e].at <= version
      BY <1>9, <1>t, StagesTold DEF EditAnswered, ServerTyped, AtMade
    <2>2. told' \in Nat /\ told' <= version
      BY <1>9, <1>v, <2>1 DEF EditAnswered
    <2> QED
      BY <1>8, <1>9, <2>1, <2>2 DEF EditAnswered
  <1>10. ASSUME NEW e \in Edit, EditFailed(e)
         PROVE  NodeInv'
    BY <1>8, <1>10, <1>v DEF EditFailed
  <1>11. ASSUME NEW e \in Edit, NEW x,
                edits' = [edits EXCEPT ![e] = x],
                \/ x = [stage |-> "sent"] /\ version' = version
                \/ x = [stage |-> "served", at |-> version + 1] /\ version' = version + 1,
                version' <= MaxEdits,
                UNCHANGED <<told, due, expanded, entries, error, loading, listings>>
         PROVE  NodeInv'
    <2>1. version' \in 0 .. MaxEdits /\ told' \in 0 .. version' /\ version <= version'
      BY <1>11, <1>v, DirNodeAssumption
    <2>2. x \in {NoEdit, [stage |-> "sent"]} \cup [stage : {"served"}, at : 1 .. MaxEdits]
      BY <1>11, <1>v, DirNodeAssumption
    <2>3. edits' \in [Edit -> {NoEdit, [stage |-> "sent"]} \cup [stage : {"served"}, at : 1 .. MaxEdits]]
      BY <1>11, <1>t, <2>2, Zenon DEF ServerTyped
    <2>4. ServerTyped'
      BY <2>1, <2>3, Zenon DEF ServerTyped
    <2>5. entries' \in {Nothing} \cup {Shown(v) : v \in 0 .. version'}
      BY <1>11, <1>t, <1>v, <2>1 DEF PageTyped
    <2>6. PageTyped'
      BY <1>11, <1>t, <2>5, Zenon DEF PageTyped
    <2>7. AtMade'
      <3>1. edits'[e] = x /\ \A d \in Edit \ {e} : edits'[d] = edits[d]
        BY <1>11, <1>t DEF ServerTyped
      <3>2. x.stage = "served" => x.at <= version'
        BY <1>11, <1>v
      <3>3. ASSUME NEW d \in Edit, edits'[d] # NoEdit, edits'[d].stage = "served"
            PROVE  edits'[d].at <= version'
        <4>1. CASE d = e
          BY <3>1, <3>2, <3>3, <4>1
        <4>2. CASE d # e
          <5>1. edits[d] \in [stage : {"served"}, at : 1 .. MaxEdits] /\ edits[d].at <= version
            BY <3>1, <3>3, <4>2, <1>t, StagesTold DEF AtMade, ServerTyped
          <5> QED
            BY <3>1, <4>2, <5>1, <2>1, <1>v, DirNodeAssumption
        <4> QED
          BY <4>1, <4>2
      <3>4. ASSUME NEW a \in Listing, ListingUnderWay(a)'
            PROVE  listings'[a].at <= version'
        <4>1. listings'[a] = listings[a] /\ listings[a] \in ListingRecord /\ listings[a].at <= version
          BY <1>11, <1>t, <3>4 DEF AtMade, PageTyped, ListingUnderWay
        <4>2. listings[a].at \in Nat
          BY <4>1, DirNodeAssumption DEF ListingRecord
        <4> QED
          BY <4>1, <4>2, <2>1, <1>v, DirNodeAssumption
      <3> QED
        BY <3>3, <3>4 DEF AtMade
    <2>8. ServedFresh' /\ TreeFresh'
      BY <1>11, <1>t DEF ServedFresh, TreeFresh, ListingUnderWay
    <2> QED
      BY <2>4, <2>6, <2>7, <2>8, Typed DEF NodeInv
  <1>12. ASSUME NEW e \in Edit, SendEdit(e)
         PROVE  NodeInv'
    <2>1. version' = version /\ version' <= MaxEdits
      BY <1>12, <1>t, DirNodeAssumption DEF SendEdit, ServerTyped
    <2> QED
      BY <1>11, <1>12, <2>1, Zenon DEF SendEdit
  <1>13. ASSUME NEW e \in Edit, ServeEdit(e)
         PROVE  NodeInv'
    <2>1. version' = version + 1 /\ version' <= MaxEdits
      BY <1>13, <1>v, DirNodeAssumption DEF ServeEdit
    <2> QED
      BY <1>11, <1>13, <2>1, Zenon DEF ServeEdit
  <1>14. CASE UNCHANGED nodeVars
    <2>1. ServerTyped' /\ PageTyped'
      BY <1>14, <1>t, Zenon DEF nodeVars, ServerTyped, PageTyped
    <2>2. AtMade' /\ ServedFresh' /\ TreeFresh'
      BY <1>14, <1>t DEF nodeVars, AtMade, ServedFresh, TreeFresh, ListingUnderWay
    <2> QED
      BY <2>1, <2>2, Typed DEF NodeInv
  <1> QED
    BY <1>1, <1>2, <1>3, <1>4, <1>5, <1>6, <1>7, <1>9, <1>10, <1>12, <1>13, <1>14
    DEF NodeNext, ListingEnds

-----------------------------------------------------------------------------
(* Both *)

(***************************************************************************)
(* The inductive invariant of the two components side by side.              *)
(***************************************************************************)
QueriesInv == PaletteInv /\ NodeInv /\ component \in {"palette", "node"}

THEOREM QueriesInvariance == QueriesSpec => []QueriesInv
  <1>1. QueriesInit => QueriesInv
    BY PaletteStarts, NodeStarts DEF QueriesInit, QueriesInv
  <1>2. QueriesInv /\ [QueriesNext]_queriesVars => QueriesInv'
    <2> SUFFICES ASSUME QueriesInv, [QueriesNext]_queriesVars
                 PROVE  QueriesInv'
      OBVIOUS
    <2>1. [PaletteNext]_paletteVars /\ [NodeNext]_nodeVars /\ component' = component
      BY DEF QueriesNext, Palettes, Nodes, queriesVars
    <2> QED
      BY <2>1, PaletteStep, NodeStep DEF QueriesInv
  <1> QED
    BY <1>1, <1>2, PTL DEF QueriesSpec

(***************************************************************************)
(* Searches, listings and edits stay within their types, and a listing      *)
(* knows of no edit the server has not made.                                *)
(***************************************************************************)
THEOREM QueriesTyped == QueriesSpec => []QueriesTypeOK
  <1>1. QueriesInv => QueriesTypeOK
    BY DEF QueriesInv, PaletteInv, NodeInv, QueriesTypeOK
  <1> QED
    BY <1>1, QueriesInvariance, PTL

(***************************************************************************)
(* The palette never shows the hits of an earlier query as those of the     *)
(* query on the screen, however many searches are under way.                *)
(***************************************************************************)
THEOREM HitsAnswerQuery == QueriesSpec => []HitsOfQuery
  <1>1. QueriesInv => HitsOfQuery
    BY DEF QueriesInv, PaletteInv
  <1> QED
    BY <1>1, QueriesInvariance, PTL

(***************************************************************************)
(* Enter never opens a hit past the end of the list.                        *)
(***************************************************************************)
THEOREM ActiveStaysHit == QueriesSpec => []ActiveIsHit
  <1>1. QueriesInv => ActiveIsHit
    BY DEF QueriesInv, PaletteInv
  <1> QED
    BY <1>1, QueriesInvariance, PTL

(***************************************************************************)
(* An expanded directory at rest shows every edit the page has been told    *)
(* of, in whatever order edits and listings were served and answered.       *)
(***************************************************************************)
THEOREM TreeStaysFresh == QueriesSpec => []TreeFresh
  <1>1. QueriesInv => TreeFresh
    BY DEF QueriesInv, NodeInv
  <1> QED
    BY <1>1, QueriesInvariance, PTL

-----------------------------------------------------------------------------
(* What the components wait for *)

SearchAwaited == searching => \E s \in Search : Live(s)

ListingAwaited ==
    loading /\ expanded => \E a \in Listing : ListingUnderWay(a) /\ ~listings[a].cancelled

LEMMA SearchStaysAwaited ==
    ASSUME PaletteInv, SearchAwaited, [PaletteNext]_paletteVars
    PROVE  SearchAwaited'
  <1>1. searches \in [Search -> SearchRecord \cup {NoSearch}] /\ NoSearch.stage = "none"
    BY DEF PaletteInv, PaletteTypeOK, NoSearch
  <1>2. CASE OpenPalette \/ ClosePalette \/ ClearQuery \/ \E s \in Search : SearchAnswered(s) \/ SearchFailed(s)
    BY <1>2 DEF OpenPalette, ClosePalette, ClearQuery, Fresh, SearchAnswered, SearchFailed, SearchAwaited
  <1>3. CASE Down \/ Up \/ Hover \/ UNCHANGED paletteVars
    BY <1>3 DEF Down, Up, Hover, Moves, paletteVars, SearchAwaited, Live, UnderWay
  <1>4. ASSUME NEW s \in Search, NEW q \in Query, TypeQuery(s, q) PROVE SearchAwaited'
    <2>1. searches'[s] = [stage |-> "delayed", of |-> q, cancelled |-> FALSE]
      BY <1>4, CleanedUpDead DEF TypeQuery, PaletteInv
    <2> QED
      BY <1>1, <2>1 DEF SearchAwaited, Live, UnderWay
  <1>5. ASSUME NEW s \in Search, Send(s) PROVE SearchAwaited'
    <2>1. searches[s] \in SearchRecord
      BY <1>1, <1>5 DEF Send, UnderWay
    <2>2. \A t \in Search : Live(t) => Live(t)'
      BY <1>1, <1>5, <2>1 DEF Send, Live, UnderWay, SearchRecord
    <2> QED
      BY <1>5, <2>2 DEF Send, SearchAwaited
  <1>6. ASSUME NEW s \in Search, SearchIgnored(s) PROVE SearchAwaited'
    BY <1>1, <1>6 DEF SearchIgnored, SearchAwaited, Live, UnderWay
  <1> QED
    BY <1>2, <1>3, <1>4, <1>5, <1>6 DEF PaletteNext, SearchEnds

LEMMA ListingStaysAwaited ==
    ASSUME NodeInv, ListingAwaited, [NodeNext]_nodeVars
    PROVE  ListingAwaited'
  <1>1. listings \in [Listing -> ListingRecord \cup {NoListing}] /\ NoListing.stage = "none"
    BY DEF NodeInv, NodeTypeOK, NoListing
  <1>2. ASSUME NEW open \in BOOLEAN, RunsEffect(open), expanded' = open PROVE ListingAwaited'
    <2>1. CASE open
      <3>1. PICK a \in Listing :
                    listings' = [Cancelled EXCEPT ![a] = [stage |-> "sent", at |-> 0, cancelled |-> FALSE]]
        BY <1>2, <2>1 DEF RunsEffect
      <3>2. listings'[a] = [stage |-> "sent", at |-> 0, cancelled |-> FALSE]
        BY <3>1, CancelledDead
      <3> QED
        BY <1>1, <3>2 DEF ListingAwaited, ListingUnderWay
    <2> QED
      BY <1>2, <2>1 DEF ListingAwaited
  <1>3. CASE Toggle \/ Render
    BY <1>2, <1>3 DEF Toggle, Render, NodeInv, NodeTypeOK
  <1>4. CASE Remount \/ \E a \in Listing : ListingAnswered(a) \/ ListingFailed(a)
    BY <1>4 DEF Remount, ListingAnswered, ListingFailed, ListingAwaited
  <1>5. ASSUME NEW a \in Listing, ServeListing(a) PROVE ListingAwaited'
    <2>1. listings[a] \in ListingRecord
      BY <1>1, <1>5 DEF ServeListing, ListingUnderWay
    <2>2. \A b \in Listing : /\ ListingUnderWay(b) => ListingUnderWay(b)'
                             /\ listings'[b].cancelled = listings[b].cancelled
      BY <1>1, <1>5, <2>1 DEF ServeListing, ListingUnderWay, ListingRecord
    <2> QED
      BY <1>5, <2>2 DEF ServeListing, ListingAwaited
  <1>6. ASSUME NEW a \in Listing, ListingIgnored(a) PROVE ListingAwaited'
    BY <1>1, <1>6 DEF ListingIgnored, Comes, ListingAwaited, ListingUnderWay
  <1>7. CASE \/ \E e \in Edit : SendEdit(e) \/ ServeEdit(e) \/ EditAnswered(e) \/ EditFailed(e)
             \/ UNCHANGED nodeVars
    BY <1>7 DEF SendEdit, ServeEdit, EditAnswered, EditFailed, nodeVars, ListingAwaited, ListingUnderWay
  <1> QED
    BY <1>3, <1>4, <1>5, <1>6, <1>7 DEF NodeNext, ListingEnds

(***************************************************************************)
(* The palette shows that it searches, and an expanded directory that it    *)
(* loads, only while the timer or the answer that will end it is still to   *)
(* come: no cleanup cancels it for nothing.  It is the safe half of         *)
(* SearchingEnds and LoadingEnds.                                           *)
(***************************************************************************)
THEOREM AnswersAwaited == QueriesSpec => [](SearchAwaited /\ ListingAwaited)
  <1>1. QueriesInit => SearchAwaited /\ ListingAwaited
    BY DEF QueriesInit, PaletteInit, NodeInit, SearchAwaited, ListingAwaited
  <1>2. QueriesInv /\ SearchAwaited /\ ListingAwaited /\ [QueriesNext]_queriesVars
        => (SearchAwaited /\ ListingAwaited)'
    <2> SUFFICES ASSUME QueriesInv, SearchAwaited, ListingAwaited, [QueriesNext]_queriesVars
                 PROVE  (SearchAwaited /\ ListingAwaited)'
      OBVIOUS
    <2>1. [PaletteNext]_paletteVars /\ [NodeNext]_nodeVars
      BY DEF QueriesNext, Palettes, Nodes, queriesVars
    <2> QED
      BY <2>1, SearchStaysAwaited, ListingStaysAwaited DEF QueriesInv
  <1> QED
    BY <1>1, <1>2, QueriesInvariance, PTL DEF QueriesSpec

-----------------------------------------------------------------------------
(***************************************************************************)
(* The editor, for any number of paths, contents and calls in flight.  The  *)
(* inductive invariant says of each path no call has cast doubt on what     *)
(* every call in flight that names it means: what has been served is on the *)
(* disk, and the page has yet to be told.                                   *)
(***************************************************************************)

\* EditorTypeOK but for the number of saves, which OneSave tells.
EditorTyped ==
    /\ disk \in [Path -> Content \cup {Absent}]
    /\ file \in OpenFile \cup {NoFile}
    /\ prompt \in Prompt
    /\ saving \in BOOLEAN
    /\ signedIn \in BOOLEAN
    /\ calls \in [Call -> CallRecord \cup {Free}]
    /\ doubt \subseteq Path

Saves(c) == calls[c].op = "save"

OneSave ==
    /\ \A c \in Call : Saves(c) => saving
    /\ saving => \E c \in Call : Saves(c)
    /\ \A c, d \in Call : Saves(c) /\ Saves(d) => c = d

\* Nobody is asked for nothing: a call that may discard edits without leave was
\* made when there were none and none could come back.
Settled == ~Dirty /\ ~saving

MayDiscard(x) == x.op = "open" \/ (x.op = "create" /\ ~x.held)

AskedWell ==
    /\ prompt = "clean" => Settled
    /\ \A c \in Call :
          InFlight(c) /\ ~calls[c].excused =>
             /\ MayDiscard(calls[c]) => Settled
             /\ calls[c].op # "delete"

\* A rename, and no other call, names two paths.
TwoNamed ==
    \A c \in Call : InFlight(c) =>
        IF calls[c].op \in {"rename", "rename_dir"}
        THEN calls[c].path # calls[c].to
        ELSE calls[c].path = calls[c].to

\* Calls that overlap cast doubt on the paths they share, unless both only read.
Alone ==
    \A c, d \in Call, p \in Path \ doubt :
        p \in Named(calls[c]) /\ p \in Named(calls[d]) =>
            c = d \/ (calls[c].op = "open" /\ calls[d].op = "open")

Done(c) == InFlight(c) /\ calls[c].answer = "ok"

Agreed(p) == file.path = p => file.original = disk[p]

\* No call has changed the path without the page having been told.
Quiet(p) == \A c \in Call : Done(c) /\ p \in Named(calls[c]) => calls[c].op = "open"

\* What a call in flight means for a path it names.
Fits(p, x) ==
    /\ (x.answer = "ok" /\ p = x.path) =>
          /\ x.op \in {"open", "save"} => x.data = disk[p]
          /\ x.op = "create" => file.path # p
          /\ (x.op = "rename" /\ x.to \notin doubt /\ file.path = p) => file.original = disk[x.to]
    /\ (x.answer = "ok" /\ x.op = "rename" /\ p = x.to) => file.path # p
    /\ (x.op = "delete" /\ file.path = p) => x.held

Known ==
    \A p \in Path \ doubt :
       /\ Quiet(p) => Agreed(p)
       /\ \A c \in Call : p \in Named(calls[c]) => Fits(p, calls[c])

EditorInv == EditorTyped /\ OneSave /\ AskedWell /\ TwoNamed /\ Alone /\ Known

-----------------------------------------------------------------------------
(* What every step needs to know of files and calls. *)

LEMMA FilesTold ==
    /\ NoFile \notin OpenFile /\ NoFile.path \notin Path
    /\ \A f \in OpenFile : f.path \in Path /\ f.original \in Content /\ f.content \in Content
    /\ \A p \in Path, d, e \in Content : [path |-> p, original |-> d, content |-> e] \in OpenFile
  BY EditorAssumption DEF NoFile, OpenFile

LEMMA CallsTold ==
    /\ Free \notin CallRecord /\ Free.op = "none"
    /\ \A x \in CallRecord : x.op # "none" /\ x.path \in Path /\ x.to \in Path /\ x.data \in Content
  BY DEF Free, CallRecord

LEMMA CallTyped ==
    ASSUME EditorTyped, NEW c \in Call, InFlight(c)
    PROVE  calls[c] \in CallRecord
  BY DEF EditorTyped, InFlight

\* A step of one call leaves the others as they are.
LEMMA OneCall ==
    ASSUME EditorTyped, NEW c \in Call, NEW y \in CallRecord \cup {Free},
           calls' = [calls EXCEPT ![c] = y]
    PROVE  /\ calls' \in [Call -> CallRecord \cup {Free}]
           /\ calls'[c] = y
           /\ \A d \in Call \ {c} : calls'[d] = calls[d]
  BY DEF EditorTyped

-----------------------------------------------------------------------------
(* Saves are one at a time. *)

LEMMA SavesSame ==
    ASSUME EditorInv, NEW c \in Call, NEW y \in CallRecord \cup {Free},
           calls' = [calls EXCEPT ![c] = y],
           saving' = saving, (y.op = "save") <=> Saves(c)
    PROVE  OneSave'
  <1>1. \A d \in Call : Saves(d)' <=> Saves(d)
    BY OneCall DEF EditorInv, Saves
  <1> QED
    BY <1>1 DEF EditorInv, OneSave

LEMMA SaveGone ==
    ASSUME EditorInv, NEW c \in Call, calls' = [calls EXCEPT ![c] = Free],
           saving' = (saving /\ ~Saves(c))
    PROVE  OneSave'
  <1>1. ~Saves(c)' /\ \A d \in Call \ {c} : Saves(d)' <=> Saves(d)
    BY OneCall, CallsTold DEF EditorInv, Saves
  <1>2. CASE Saves(c)
    <2>1. \A d \in Call : ~Saves(d)'
      BY <1>1, <1>2 DEF EditorInv, OneSave
    <2> QED
      BY <2>1, <1>2 DEF OneSave
  <1>3. CASE ~Saves(c)
    <2>1. \A d \in Call : Saves(d)' <=> Saves(d)
      BY <1>1, <1>3
    <2>2. saving' <=> saving
      BY <1>3
    <2> QED
      BY <2>1, <2>2 DEF EditorInv, OneSave
  <1> QED
    BY <1>2, <1>3

\* What the typed part and the single save say together.
LEMMA SavesCounted ==
    ASSUME EditorInv
    PROVE  EditorTypeOK
  <1> DEFINE S == {c \in Call : InFlight(c) /\ calls[c].op = "save"}
  <1>1. CASE saving
    <2>1. PICK c \in Call : Saves(c)
      BY <1>1 DEF EditorInv, OneSave
    <2>2. S = {c}
      BY <2>1, CallsTold DEF EditorInv, OneSave, Saves, InFlight
    <2> QED
      BY <1>1, <2>2, FS_Singleton DEF EditorInv, EditorTyped, EditorTypeOK
  <1>2. CASE ~saving
    <2>1. S = {}
      BY <1>2 DEF EditorInv, OneSave, Saves
    <2> QED
      BY <1>2, <2>1, FS_EmptySet DEF EditorInv, EditorTyped, EditorTypeOK
  <1> QED
    BY <1>1, <1>2

-----------------------------------------------------------------------------
(* What is known of a path no call has cast doubt on. *)

\* A call ends, or makes way for one that reads the same path; the others keep
\* what they mean.
LEMMA EndsKnown ==
    ASSUME EditorInv, NEW c \in Call, NEW y \in CallRecord \cup {Free},
           calls' = [calls EXCEPT ![c] = y],
           \/ y = Free
           \/ y.op = "open" /\ y.answer = "pending" /\ Named(y) \subseteq Named(calls[c]),
           doubt \subseteq doubt', disk' = disk,
           \A p \in Path \ doubt' : p \notin Named(calls[c]) /\ file'.path = p => file' = file,
           \A p \in Path \ doubt' : p \in Named(calls[c]) /\ Quiet(p)' => Agreed(p)'
    PROVE  Alone' /\ Known'
  <1>1. /\ calls'[c] = y
        /\ \A d \in Call \ {c} : calls'[d] = calls[d]
    BY OneCall DEF EditorInv
  <1>2. Named(y) \subseteq Named(calls[c]) /\ (Named(y) # {} => y.op = "open" /\ y.answer = "pending")
    BY DEF Named
  <1>3. Alone'
    <2> SUFFICES ASSUME NEW d \in Call, NEW e \in Call, NEW p \in Path \ doubt',
                        p \in Named(calls'[d]), p \in Named(calls'[e]), d # e
                 PROVE  calls'[d].op = "open" /\ calls'[e].op = "open"
      BY DEF Alone
    <2>1. p \in Named(calls[d]) /\ p \in Named(calls[e])
      BY <1>1, <1>2
    <2>2. calls[d].op = "open" /\ calls[e].op = "open"
      BY <2>1 DEF EditorInv, Alone
    <2> QED
      BY <2>2, <1>1, <1>2
  <1>4. Known'
    <2> SUFFICES ASSUME NEW p \in Path \ doubt'
                 PROVE  /\ Quiet(p)' => Agreed(p)'
                        /\ \A d \in Call : p \in Named(calls'[d]) => Fits(p, calls[d])'
      BY DEF Known
    <2>0. p \in Path \ doubt
      OBVIOUS
    <2>1. ASSUME Quiet(p)', p \notin Named(calls[c])
          PROVE  Agreed(p)'
      <3>1. Quiet(p)
        BY <2>1, <1>1 DEF Quiet, Done, InFlight
      <3>2. Agreed(p)
        BY <2>0, <3>1 DEF EditorInv, Known
      <3> QED
        BY <2>1, <3>2 DEF Agreed
    <2>2. ASSUME NEW d \in Call \ {c}, p \in Named(calls[d])
          PROVE  Fits(p, calls[d])'
      <3>1. Fits(p, calls[d]) /\ calls'[d] = calls[d]
        BY <2>0, <2>2, <1>1 DEF EditorInv, Known
      <3>2. calls[d].op = "open" \/ (file'.path = p => file' = file)
        BY <2>0, <2>2 DEF EditorInv, Alone
      <3> QED
        BY <3>1, <3>2 DEF Fits
    <2>3. p \in Named(y) => Fits(p, calls[c])'
      BY <1>1, <1>2 DEF Fits
    <2> QED
      BY <2>1, <2>2, <2>3, <1>1
  <1> QED
    BY <1>3, <1>4

\* A call that has no effect, or whose answer is lost.
LEMMA FailsKnown ==
    ASSUME EditorInv, NEW c \in Call, InFlight(c), NEW a \in {"error", "denied"},
           calls' = [calls EXCEPT ![c].answer = a],
           doubt' = IF calls[c].answer = "ok" THEN doubt \cup Named(calls[c]) ELSE doubt,
           disk' = disk, file' = file
    PROVE  Alone' /\ Known'
  <1> DEFINE y == [calls[c] EXCEPT !.answer = a]
  <1>0. calls[c] \in CallRecord
    BY CallTyped DEF EditorInv
  <1>1. /\ y \in CallRecord /\ y.answer = a
        /\ y.op = calls[c].op /\ y.path = calls[c].path /\ y.to = calls[c].to /\ y.held = calls[c].held
    BY <1>0 DEF CallRecord
  <1>2. calls' = [calls EXCEPT ![c] = y]
    OBVIOUS
  <1>3. calls'[c] = y /\ \A d \in Call \ {c} : calls'[d] = calls[d]
    BY <1>1, <1>2, OneCall DEF EditorInv
  <1> HIDE DEF y
  <1>4. \A d \in Call : Named(calls'[d]) = Named(calls[d]) /\ calls'[d].op = calls[d].op
    BY <1>0, <1>1, <1>3, CallsTold DEF Named
  <1>5. Alone'
    BY <1>4 DEF EditorInv, Alone
  <1>6. Known'
    <2> SUFFICES ASSUME NEW p \in Path \ doubt'
                 PROVE  /\ Quiet(p)' => Agreed(p)'
                        /\ \A d \in Call : p \in Named(calls'[d]) => Fits(p, calls[d])'
      BY DEF Known
    <2>0. p \in Path \ doubt /\ (p \in Named(calls[c]) => calls[c].answer # "ok")
      OBVIOUS
    <2>1. Quiet(p)' => Agreed(p)'
      <3>1. Quiet(p)' => Quiet(p)
        BY <2>0, <1>3, <1>4 DEF Quiet, Done, InFlight
      <3> QED
        BY <2>0, <3>1 DEF EditorInv, Known, Agreed
    <2>2. ASSUME NEW d \in Call \ {c}, p \in Named(calls[d])
          PROVE  Fits(p, calls[d])'
      BY <2>0, <2>2, <1>3 DEF EditorInv, Known, Fits
    <2>3. p \in Named(calls[c]) => Fits(p, calls[c])'
      BY <2>0, <1>1, <1>3 DEF EditorInv, Known, Fits
    <2> QED
      BY <2>1, <2>2, <2>3, <1>4
  <1> QED
    BY <1>5, <1>6

\* A call the server grants: the disk and the answer change as one.
LEMMA ServedKnown ==
    ASSUME EditorInv, NEW c \in Call, InFlight(c), calls[c].answer = "pending",
           Granted(calls[c]), disk' = Effect(calls[c]),
           calls' = [calls EXCEPT ![c].answer = "ok",
                                  ![c].data = IF calls[c].op = "open" THEN disk[calls[c].path] ELSE @],
           doubt' = doubt, file' = file
    PROVE  /\ disk' \in [Path -> Content \cup {Absent}]
           /\ \E y \in CallRecord :
                 /\ calls' = [calls EXCEPT ![c] = y]
                 /\ \A f \in {"op", "path", "to", "held", "excused"} : y[f] = calls[c][f]
           /\ Alone' /\ Known'
  <1> DEFINE x == calls[c]
             y == [x EXCEPT !.answer = "ok", !.data = IF x.op = "open" THEN disk[x.path] ELSE @]
  <1>0. x \in CallRecord /\ x.path \in Path /\ x.to \in Path /\ x.data \in Content
    BY CallTyped, CallsTold DEF EditorInv
  <1>1. x.op = "open" => disk[x.path] \in Content
    BY <1>0 DEF Granted, EditorInv, EditorTyped
  <1>2. /\ y \in CallRecord /\ y.answer = "ok"
        /\ y.op = x.op /\ y.path = x.path /\ y.to = x.to /\ y.held = x.held /\ y.excused = x.excused
        /\ y.data = IF x.op = "open" THEN disk[x.path] ELSE x.data
    BY <1>0, <1>1 DEF CallRecord
  <1>3. calls' = [calls EXCEPT ![c] = y]
    OBVIOUS
  <1>4. calls'[c] = y /\ \A d \in Call \ {c} : calls'[d] = calls[d]
    BY <1>2, <1>3, OneCall DEF EditorInv
  <1> HIDE DEF y
  <1>5. Named(y) = Named(x)
    <2>1. x # Free /\ y # Free
      BY <1>0, <1>2, CallsTold
    <2> QED
      BY <2>1, <1>2 DEF Named
  <1>6. \A d \in Call : Named(calls'[d]) = Named(calls[d]) /\ calls'[d].op = calls[d].op
    BY <1>2, <1>4, <1>5
  <1>7. Alone'
    BY <1>6 DEF EditorInv, Alone
  <1>8. x.op \in {"open", "save", "create", "rename", "rename_dir", "delete"} /\ x.path \in Named(x) /\ x.to \in Named(x) /\ Named(x) = {x.path, x.to}
    BY <1>0, CallsTold DEF CallRecord, Named
  <1>d. disk \in [Path -> Content \cup {Absent}]
    BY DEF EditorInv, EditorTyped
  <1>9. /\ disk' \in [Path -> Content \cup {Absent}]
        /\ \A p \in Path : (p \notin Named(x) \/ x.op = "open") => disk'[p] = disk[p]
        /\ x.op = "save" => disk'[x.path] = x.data
        /\ x.op = "rename" => disk'[x.to] = disk[x.path]
    <2>1. CASE x.op = "open"
      BY <2>1, <1>d DEF Effect
    <2>2. CASE x.op \in {"save", "create"}
      BY <2>2, <1>d, <1>0, <1>8 DEF Effect
    <2>3. CASE x.op = "delete"
      BY <2>3, <1>d, <1>0, <1>8 DEF Effect
    <2>4. CASE x.op \in {"rename", "rename_dir"}
      <3>1. disk' = [disk EXCEPT ![x.path] = Absent, ![x.to] = disk[x.path]]
        BY <2>4 DEF Effect
      <3> QED
        BY <2>4, <3>1, <1>d, <1>0, <1>8
    <2> QED
      BY <2>1, <2>2, <2>3, <2>4, <1>8
  <1>10. Known'
    <2> SUFFICES ASSUME NEW p \in Path \ doubt
                 PROVE  /\ Quiet(p)' => Agreed(p)'
                        /\ \A d \in Call : p \in Named(calls'[d]) => Fits(p, calls[d])'
      BY DEF Known
    <2>1. ASSUME Quiet(p)'
          PROVE  Agreed(p)'
      <3>1. Quiet(p)
        BY <2>1, <1>4, <1>6 DEF Quiet, Done, InFlight
      <3>2. p \notin Named(x) \/ x.op = "open"
        BY <2>1, <1>2, <1>4, <1>6, CallsTold DEF Quiet, Done, InFlight
      <3> QED
        BY <3>1, <3>2, <1>9 DEF EditorInv, Known, Agreed
    <2>2. ASSUME NEW d \in Call \ {c}, p \in Named(calls[d])
          PROVE  Fits(p, calls[d])'
      <3>1. Fits(p, calls[d]) /\ calls'[d] = calls[d]
        BY <2>2, <1>4 DEF EditorInv, Known
      <3>2. \A q \in Path \ doubt : q \in Named(calls[d]) => disk'[q] = disk[q]
        BY <2>2, <1>9 DEF EditorInv, Alone
      <3>3. calls[d].to \in Path /\ calls[d].to \in Named(calls[d])
        BY <2>2, CallTyped, CallsTold DEF EditorInv, InFlight, Named
      <3> QED
        BY <2>2, <3>1, <3>2, <3>3 DEF Fits
    <2>3. ASSUME p \in Named(x)
          PROVE  Fits(p, calls[c])'
      <3>1. Fits(p, x)
        BY <2>3 DEF EditorInv, Known
      <3>2. x.op # "open" => Quiet(p)
        BY <2>3 DEF EditorInv, Alone, Quiet, Done
      <3>3. x.op # "open" /\ file.path = p => file.original = disk[p] /\ disk[p] # Absent
        BY <3>2, FilesTold, EditorAssumption DEF EditorInv, EditorTyped, Known, Agreed
      <3>4. x.op = "create" => disk[x.path] = Absent
        BY DEF Granted
      <3>5. x.op = "rename" => disk[x.to] = Absent
        BY DEF Granted
      <3> QED
        BY <3>1, <3>3, <3>4, <3>5, <1>2, <1>4, <1>9, <1>0 DEF Fits
    <2> QED
      BY <2>1, <2>2, <2>3, <1>6
  <1>11. \A f \in {"op", "path", "to", "held", "excused"} : y[f] = x[f]
    BY <1>2
  <1> QED
    BY <1>2, <1>3, <1>7, <1>9, <1>10, <1>11

\* A new call, and those it overlaps.
LEMMA SentKnown ==
    ASSUME EditorInv, NEW c \in Call, NEW x \in CallRecord, Sends(c, x),
           x.answer = "pending",
           x.op = "delete" => x.path = x.to /\ (file.path = x.path => x.held)
    PROVE  /\ doubt' \subseteq Path
           /\ Alone' /\ Known'
  <1>1. calls'[c] = x /\ \A d \in Call \ {c} : calls'[d] = calls[d]
    BY OneCall DEF EditorInv, Sends
  <1>2. /\ doubt \subseteq doubt'
        /\ \A d \in Call, p \in Path \ doubt' :
              p \in Named(x) /\ p \in Named(calls[d]) => x.op = "open" /\ calls[d].op = "open"
    BY DEF Sends, Clash
  <1>3. calls[c] = Free /\ Named(calls[c]) = {}
    BY DEF Sends, InFlight, Named
  <1>4. doubt' \subseteq Path
    <2>1. \A d \in Call : Named(calls[d]) \subseteq Path
      BY CallTyped, CallsTold DEF EditorInv, InFlight, Named
    <2>2. Named(x) \subseteq Path
      BY CallsTold DEF Named
    <2>3. Clash(x) \subseteq Call
      BY DEF Clash
    <2>4. UNION {Named(calls[d]) : d \in Clash(x)} \subseteq Path
      BY <2>1, <2>3
    <2> QED
      BY <2>2, <2>4 DEF Sends, EditorInv, EditorTyped
  <1>5. Alone'
    <2> SUFFICES ASSUME NEW d \in Call, NEW e \in Call, NEW p \in Path \ doubt',
                        p \in Named(calls'[d]), p \in Named(calls'[e]), d # e
                 PROVE  calls'[d].op = "open" /\ calls'[e].op = "open"
      BY DEF Alone
    <2>1. CASE d = c
      BY <2>1, <1>1, <1>2
    <2>2. CASE e = c
      BY <2>2, <1>1, <1>2
    <2>3. CASE d # c /\ e # c
      BY <2>3, <1>1, <1>2 DEF EditorInv, Alone
    <2> QED
      BY <2>1, <2>2, <2>3
  <1>6. Known'
    <2> SUFFICES ASSUME NEW p \in Path \ doubt'
                 PROVE  /\ Quiet(p)' => Agreed(p)'
                        /\ \A d \in Call : p \in Named(calls'[d]) => Fits(p, calls[d])'
      BY DEF Known
    <2>0. p \in Path \ doubt /\ disk' = disk /\ file' = file
      BY <1>2 DEF Sends
    <2>1. Quiet(p)' => Agreed(p)'
      <3>1. Quiet(p)' => Quiet(p)
        BY <1>1, <1>3 DEF Quiet, Done, InFlight
      <3> QED
        BY <2>0, <3>1 DEF EditorInv, Known, Agreed
    <2>2. ASSUME NEW d \in Call \ {c}, p \in Named(calls[d])
          PROVE  Fits(p, calls[d])'
      BY <2>0, <2>2, <1>1, <1>2 DEF EditorInv, Known, Fits
    <2>3. p \in Named(x) => Fits(p, calls[c])'
      BY <2>0, <1>1, CallsTold DEF Fits, Named
    <2> QED
      BY <2>1, <2>2, <2>3, <1>1
  <1> QED
    BY <1>4, <1>5, <1>6

\* Typing changes neither paths nor the baseline.
LEMMA TypedKnown ==
    ASSUME EditorInv, NEW d \in Content, Type(d)
    PROVE  /\ calls' \in [Call -> CallRecord \cup {Free}]
           /\ \A c \in Call : InFlight(c)' => InFlight(c) /\ calls'[c].excused = TRUE
           /\ OneSave' /\ TwoNamed' /\ Alone' /\ Known'
  <1>1. ASSUME NEW c \in Call
        PROVE  /\ calls'[c] \in CallRecord \cup {Free}
               /\ InFlight(c)' <=> InFlight(c)
               /\ InFlight(c) =>
                     /\ calls'[c].excused = TRUE
                     /\ calls'[c].op = calls[c].op /\ calls'[c].path = calls[c].path
                     /\ calls'[c].to = calls[c].to /\ calls'[c].data = calls[c].data
                     /\ calls'[c].held = calls[c].held /\ calls'[c].answer = calls[c].answer
               /\ calls'[c].op = calls[c].op
    <2>1. CASE InFlight(c)
      <3>1. calls[c] \in CallRecord /\ calls'[c] = [calls[c] EXCEPT !.excused = TRUE]
        BY <2>1, CallTyped DEF EditorInv, Type
      <3>2. calls'[c] \in CallRecord
        BY <3>1 DEF CallRecord
      <3> QED
        BY <2>1, <3>1, <3>2, CallsTold DEF CallRecord, InFlight
    <2>2. CASE ~InFlight(c)
      BY <2>2, CallsTold DEF Type, InFlight
    <2> QED
      BY <2>1, <2>2
  <1>2. \A c \in Call : Named(calls'[c]) = Named(calls[c]) /\ (Saves(c)' <=> Saves(c)) /\ (Done(c)' <=> Done(c))
    BY <1>1 DEF Named, InFlight, Saves, Done
  <1>3. saving' = saving /\ disk' = disk /\ doubt' = doubt
    BY DEF Type
  <1>4. file'.path = file.path /\ file'.original = file.original
    <2>1. file \in OpenFile /\ file' = [file EXCEPT !.content = d]
      BY DEF Type, EditorInv, EditorTyped
    <2> QED
      BY <2>1 DEF OpenFile
  <1>5. OneSave'
    BY <1>2, <1>3 DEF EditorInv, OneSave
  <1>6. TwoNamed'
    BY <1>1 DEF EditorInv, TwoNamed
  <1>7. Alone'
    BY <1>1, <1>2, <1>3 DEF EditorInv, Alone
  <1>8. Known'
    <2> SUFFICES ASSUME NEW p \in Path \ doubt
                 PROVE  /\ Quiet(p)' => Agreed(p)'
                        /\ \A c \in Call : p \in Named(calls'[c]) => Fits(p, calls[c])'
      BY <1>3 DEF Known
    <2>1. Quiet(p)' => Quiet(p)
      BY <1>1, <1>2 DEF Quiet
    <2>2. ASSUME NEW c \in Call, p \in Named(calls[c])
          PROVE  Fits(p, calls[c])'
      <3>1. Fits(p, calls[c]) /\ InFlight(c)
        BY <2>2 DEF EditorInv, Known, Named, InFlight
      <3> QED
        BY <3>1, <1>1, <1>3, <1>4 DEF Fits
    <2> QED
      BY <2>1, <2>2, <1>2, <1>3, <1>4 DEF EditorInv, Known, Agreed
  <1>9. calls' \in [Call -> CallRecord \cup {Free}]
    BY <1>1 DEF Type
  <1> QED
    BY <1>1, <1>5, <1>6, <1>7, <1>8, <1>9

-----------------------------------------------------------------------------
(* The whole invariant, for calls that begin and end. *)

LEMMA SentInv ==
    ASSUME EditorInv, NEW c \in Call, NEW x \in CallRecord, Sends(c, x),
           x.answer = "pending",
           IF x.op \in {"rename", "rename_dir"} THEN x.path # x.to ELSE x.path = x.to,
           x.op = "delete" => (file.path = x.path => x.held) /\ x.excused,
           x.op = "save" => Dirty /\ ~saving /\ saving' = TRUE,
           x.op # "save" => saving' = saving,
           MayDiscard(x) /\ ~x.excused => Settled,
           prompt' \in {prompt, "none"}
    PROVE  EditorInv'
  <1>1. calls'[c] = x /\ (\A d \in Call \ {c} : calls'[d] = calls[d]) /\ calls' \in [Call -> CallRecord \cup {Free}]
    BY OneCall DEF EditorInv, Sends
  <1>2. doubt' \subseteq Path /\ Alone' /\ Known'
    BY SentKnown
  <1>3. disk' = disk /\ file' = file /\ signedIn' = signedIn /\ ~InFlight(c)
    BY DEF Sends
  <1>4. EditorTyped'
    <2>1. saving' \in BOOLEAN
      BY DEF EditorInv, EditorTyped
    <2>2. prompt' \in Prompt
      BY DEF EditorInv, EditorTyped, Prompt
    <2> QED
      BY <1>1, <1>2, <1>3, <2>1, <2>2 DEF EditorInv, EditorTyped
  <1>5. OneSave'
    <2>1. CASE x.op = "save"
      <3>1. \A d \in Call : ~Saves(d)
        BY <2>1 DEF EditorInv, OneSave
      <3>2. \A d \in Call : Saves(d)' <=> d = c
        BY <2>1, <3>1, <1>1 DEF Saves
      <3> QED
        BY <2>1, <3>2 DEF OneSave
    <2>2. CASE x.op # "save"
      <3>1. ~Saves(c)
        BY <1>3, CallsTold DEF InFlight, Saves
      <3> QED
        BY <2>2, <3>1, SavesSame DEF Sends
    <2> QED
      BY <2>1, <2>2
  <1>6. TwoNamed'
    BY <1>1 DEF EditorInv, TwoNamed, InFlight
  <1>7. AskedWell'
    <2>1. CASE x.op = "save"
      <3>1. ~Settled /\ ~MayDiscard(x) /\ x.op # "delete"
        BY <2>1 DEF Settled, MayDiscard
      <3>2. prompt # "clean" /\ prompt' # "clean"
        BY <3>1 DEF EditorInv, AskedWell
      <3> QED
        BY <3>1, <3>2, <1>1 DEF EditorInv, AskedWell, InFlight, MayDiscard
    <2>2. CASE x.op # "save"
      <3>1. Settled' <=> Settled
        BY <2>2, <1>3 DEF Settled, Dirty, NoFile
      <3> QED
        BY <3>1, <1>1 DEF EditorInv, AskedWell, InFlight, MayDiscard
    <2> QED
      BY <2>1, <2>2
  <1> QED
    BY <1>2, <1>4, <1>5, <1>6, <1>7 DEF EditorInv

LEMMA EndedInv ==
    ASSUME EditorInv, NEW c \in Call, NEW y \in CallRecord \cup {Free}, InFlight(c),
           calls' = [calls EXCEPT ![c] = y],
           \/ y = Free
           \/ /\ y.op = "open" /\ y.answer = "pending" /\ Named(y) \subseteq Named(calls[c])
              /\ y.path = y.to /\ (y.excused \/ Settled),
           saving' = (saving /\ ~Saves(c)), prompt' = prompt, signedIn' \in BOOLEAN,
           disk' = disk, file' \in OpenFile \cup {NoFile},
           doubt \subseteq doubt', doubt' \subseteq Path,
           Settled => ~Dirty',
           \A p \in Path \ doubt' : p \notin Named(calls[c]) /\ file'.path = p => file' = file,
           \A p \in Path \ doubt' : p \in Named(calls[c]) /\ Quiet(p)' => Agreed(p)'
    PROVE  EditorInv'
  <1>1. calls'[c] = y /\ (\A d \in Call \ {c} : calls'[d] = calls[d]) /\ calls' \in [Call -> CallRecord \cup {Free}]
    BY OneCall DEF EditorInv
  <1>2. Alone' /\ Known'
    BY EndsKnown
  <1>3. EditorTyped'
    <2>1. saving' \in BOOLEAN
      OBVIOUS
    <2> QED
      BY <1>1, <2>1 DEF EditorInv, EditorTyped
  <1>4. ~(y.op = "save")
    BY CallsTold
  <1>5. OneSave'
    <2>1. CASE y = Free
      BY <2>1, SaveGone
    <2>2. CASE y # Free /\ ~Saves(c)
      <3>1. saving' = saving
        BY <2>2, Zenon DEF EditorInv, EditorTyped
      <3> QED
        BY <2>2, <1>4, <3>1, SavesSame
    <2>3. CASE y # Free /\ Saves(c)
      <3>1. \A d \in Call : ~Saves(d)'
        BY <2>3, <1>1, <1>4 DEF EditorInv, OneSave, Saves
      <3> QED
        BY <2>3, <3>1 DEF OneSave
    <2> QED
      BY <2>1, <2>2, <2>3
  <1>6. TwoNamed'
    BY <1>1 DEF EditorInv, TwoNamed, InFlight
  <1>7. AskedWell'
    <2>1. Settled => Settled'
      BY DEF Settled
    <2> QED
      BY <2>1, <1>1 DEF EditorInv, AskedWell, InFlight
  <1> QED
    BY <1>2, <1>3, <1>5, <1>6, <1>7 DEF EditorInv

\* Deny, LoseAnswer and a refusal by the server: only the answer changes, and a
\* lost one leaves doubt.
LEMMA FailsInv ==
    ASSUME EditorInv, NEW c \in Call, InFlight(c), NEW a \in {"error", "denied"},
           calls' = [calls EXCEPT ![c].answer = a],
           doubt' = IF calls[c].answer = "ok" THEN doubt \cup Named(calls[c]) ELSE doubt,
           UNCHANGED <<disk, file, saving, prompt, signedIn>>
    PROVE  EditorInv'
  <1> DEFINE y == [calls[c] EXCEPT !.answer = a]
  <1>0. calls[c] \in CallRecord
    BY CallTyped DEF EditorInv
  <1>1. /\ y \in CallRecord
        /\ y.op = calls[c].op /\ y.path = calls[c].path /\ y.to = calls[c].to
        /\ y.held = calls[c].held /\ y.excused = calls[c].excused
    BY <1>0 DEF CallRecord
  <1>2. calls' = [calls EXCEPT ![c] = y]
    OBVIOUS
  <1> HIDE DEF y
  <1>3. calls'[c] = y /\ (\A d \in Call \ {c} : calls'[d] = calls[d]) /\ calls' \in [Call -> CallRecord \cup {Free}]
    BY <1>1, <1>2, OneCall DEF EditorInv
  <1>4. Alone' /\ Known'
    BY FailsKnown
  <1>5. OneSave'
    BY <1>1, <1>2, SavesSame DEF Saves
  <1>6. doubt' \subseteq Path
    BY <1>0, CallsTold DEF EditorInv, EditorTyped, Named
  <1>7. EditorTyped'
    BY <1>3, <1>6 DEF EditorInv, EditorTyped
  <1>8. TwoNamed'
    BY <1>1, <1>3 DEF EditorInv, TwoNamed, InFlight
  <1>9. AskedWell'
    BY <1>1, <1>3 DEF EditorInv, AskedWell, InFlight, MayDiscard, Settled, Dirty, NoFile
  <1> QED
    BY <1>4, <1>5, <1>7, <1>8, <1>9 DEF EditorInv

LEMMA ServeInv ==
    ASSUME EditorInv, NEW c \in Call, Serve(c)
    PROVE  EditorInv'
  <1>1. CASE ~Granted(calls[c])
    BY <1>1, FailsInv DEF Serve, Answers
  <1>2. CASE Granted(calls[c])
    <2>1. /\ disk' \in [Path -> Content \cup {Absent}]
          /\ Alone' /\ Known'
      BY <1>2, ServedKnown DEF Serve
    <2>2. PICK y \in CallRecord :
             /\ calls' = [calls EXCEPT ![c] = y]
             /\ \A f \in {"op", "path", "to", "held", "excused"} : y[f] = calls[c][f]
      BY <1>2, ServedKnown DEF Serve
    <2>3. calls'[c] = y /\ (\A d \in Call \ {c} : calls'[d] = calls[d]) /\ calls' \in [Call -> CallRecord \cup {Free}]
      BY <2>2, OneCall DEF EditorInv
    <2>4. /\ y.op = calls[c].op /\ y.path = calls[c].path /\ y.to = calls[c].to
          /\ y.held = calls[c].held /\ y.excused = calls[c].excused
      BY <2>2
    <2>5. InFlight(c) /\ UNCHANGED <<file, saving, prompt, signedIn, doubt>>
      BY DEF Serve
    <2>6. OneSave'
      BY <2>2, <2>4, <2>5, SavesSame DEF Saves
    <2>7. EditorTyped'
      BY <2>1, <2>3, <2>5 DEF EditorInv, EditorTyped
    <2>8. TwoNamed'
      BY <2>3, <2>4, <2>5 DEF EditorInv, TwoNamed, InFlight
    <2>9. AskedWell'
      BY <2>3, <2>4, <2>5 DEF EditorInv, AskedWell, InFlight, MayDiscard, Settled, Dirty, NoFile
    <2> QED
      BY <2>1, <2>6, <2>7, <2>8, <2>9 DEF EditorInv
  <1> QED
    BY <1>1, <1>2

LEMMA UserInv ==
    ASSUME EditorInv, NEW c \in Call, User(c)
    PROVE  EditorInv'
  <1>t. EditorTyped /\ AskedWell
    BY DEF EditorInv
  <1>0. ASSUME NEW op \in {"open", "save", "create", "rename", "rename_dir", "delete"},
               NEW p \in Path, NEW q \in Path, NEW d \in Content,
               NEW h \in BOOLEAN, NEW e \in BOOLEAN
        PROVE  Request(op, p, q, d, h, e) \in CallRecord
    BY DEF Request, CallRecord
  <1>1. CASE Save(c)
    <2>1. file \in OpenFile
      BY <1>1, <1>t DEF Save, Dirty, EditorTyped
    <2>2. Request("save", file.path, file.path, file.content, FALSE, FALSE) \in CallRecord
      BY <2>1, <1>0, FilesTold
    <2> QED
      BY <1>1, <2>2, SentInv DEF Save, Request, MayDiscard
  <1>2. ASSUME NEW p \in Path, Open(c, p)
        PROVE  EditorInv'
    <2> DEFINE e == Asks \/ saving
    <2>1. e \in BOOLEAN /\ (~e => Settled)
      BY DEF Asks, Settled
    <2>2. Request("open", p, p, Template, FALSE, e) \in CallRecord
      BY <2>1, <1>0, EditorAssumption
    <2> QED
      BY <1>2, <2>1, <2>2, SentInv DEF Open, Request
  <1>3. ASSUME NEW p \in Path, Create(c, p)
        PROVE  EditorInv'
    <2> DEFINE x == Request("create", p, p, Template, prompt = "dirty", prompt = "unsure")
    <2>1. x \in CallRecord
      BY <1>0, EditorAssumption
    <2>2. MayDiscard(x) /\ ~x.excused => Settled
      BY <1>3, <1>t DEF Create, MayDiscard, Request, EditorTyped, Prompt, AskedWell
    <2> QED
      BY <1>3, <2>1, <2>2, SentInv DEF Create, Request
  <1>4. ASSUME NEW p \in Path, Delete(c, p)
        PROVE  EditorInv'
    <2> DEFINE x == Request("delete", p, p, Template, file.path = p, TRUE)
    <2>1. x \in CallRecord
      BY <1>0, EditorAssumption
    <2> QED
      BY <1>4, <2>1, SentInv DEF Delete, Request, MayDiscard
  <1>5. ASSUME NEW p \in Path, NEW q \in Path, NEW op \in {"rename", "rename_dir"}, Rename(c, op, p, q)
        PROVE  EditorInv'
    <2> DEFINE x == Request(op, p, q, Template, FALSE, FALSE)
    <2>1. x \in CallRecord
      BY <1>0, EditorAssumption
    <2> QED
      BY <1>5, <2>1, SentInv DEF Rename, Request, MayDiscard
  <1> QED
    BY <1>1, <1>2, <1>3, <1>4, <1>5 DEF User

LEMMA AnsweredInv ==
    ASSUME EditorInv, NEW c \in Call, Answered(c)
    PROVE  EditorInv'
  <1> DEFINE x == calls[c]
  <1>0. /\ InFlight(c) /\ x \in CallRecord /\ x.path \in Path /\ x.to \in Path /\ x.data \in Content
        /\ Named(x) = {x.path, x.to}
    <2>1. InFlight(c)
      BY DEF Answered, OpenAnswered, SaveAnswered, CreateAnswered, RenameAnswered,
             RenameDirAnswered, DeleteAnswered, Failed, Ok
    <2> QED
      BY <2>1, CallTyped, CallsTold DEF EditorInv, Named, InFlight
  <1>t. /\ EditorTyped /\ file \in OpenFile \cup {NoFile} /\ saving \in BOOLEAN /\ signedIn \in BOOLEAN
        /\ doubt \subseteq Path
    BY DEF EditorInv, EditorTyped
  \* What is known of the paths the call names.
  <1>k. \A p \in Path \ doubt : p \in Named(x) => Fits(p, x)
    BY DEF EditorInv, Known
  <1>n. IF x.op \in {"rename", "rename_dir"} THEN x.path # x.to ELSE x.path = x.to
    BY <1>0 DEF EditorInv, TwoNamed
  <1>1. CASE OpenAnswered(c)
    <2> DEFINE f == [path |-> x.path, original |-> x.data, content |-> x.data]
    <2>1. x.op = "open" /\ x.answer = "ok" /\ calls' = [calls EXCEPT ![c] = Free] /\ file' = f
      BY <1>1 DEF OpenAnswered, Ok, Ends
    <2>2. f \in OpenFile /\ f.path = x.path /\ f.original = x.data /\ f.content = x.data
      BY <1>0, FilesTold
    <2>3. saving' = (saving /\ ~Saves(c)) /\ UNCHANGED <<disk, prompt, signedIn, doubt>>
      BY <1>1, <1>t, <2>1 DEF OpenAnswered, Saves
    <2>4. ~Dirty'
      BY <2>1, <2>2 DEF Dirty
    <2>5. \A p \in Path \ doubt' : p \notin Named(calls[c]) /\ file'.path = p => file' = file
      BY <1>0, <2>1, <2>2
    <2>6. \A p \in Path \ doubt' : p \in Named(calls[c]) /\ Quiet(p)' => Agreed(p)'
      BY <1>0, <1>n, <1>k, <2>1, <2>2, <2>3 DEF Fits, Agreed
    <2> QED
      BY <1>0, <1>t, <2>1, <2>2, <2>3, <2>4, <2>5, <2>6, EndedInv
  <1>2. CASE SaveAnswered(c)
    <2> DEFINE f == IF file.path = x.path THEN [file EXCEPT !.original = x.data] ELSE file
    <2>1. x.op = "save" /\ x.answer = "ok" /\ calls' = [calls EXCEPT ![c] = Free] /\ file' = f /\ ~saving'
      BY <1>2 DEF SaveAnswered, Ok, Ends
    <2>2. /\ f \in OpenFile \cup {NoFile} /\ f.path = file.path
          /\ f.path = x.path => f.original = x.data
          /\ f.path # x.path => f = file
      <3>1. CASE file.path = x.path
        <4>1. file \in OpenFile
          BY <3>1, <1>0, <1>t, FilesTold
        <4> QED
          BY <3>1, <4>1, <1>0 DEF OpenFile
      <3>2. CASE file.path # x.path
        BY <3>2, <1>t
      <3> QED
        BY <3>1, <3>2
    <2> HIDE DEF f
    <2>3. saving' = (saving /\ ~Saves(c)) /\ UNCHANGED <<disk, prompt, signedIn, doubt>>
      BY <1>2, <2>1 DEF SaveAnswered, Saves
    <2>4. Settled => ~Dirty'
      BY <2>1 DEF EditorInv, OneSave, Saves, Settled
    <2>5. \A p \in Path \ doubt' : p \notin Named(calls[c]) /\ file'.path = p => file' = file
      BY <1>0, <2>1, <2>2
    <2>6. \A p \in Path \ doubt' : p \in Named(calls[c]) /\ Quiet(p)' => Agreed(p)'
      BY <1>0, <1>n, <1>k, <2>1, <2>2, <2>3 DEF Fits, Agreed
    <2> QED
      BY <1>0, <1>t, <2>1, <2>2, <2>3, <2>4, <2>5, <2>6, EndedInv
  <1>3. CASE CreateAnswered(c)
    <2>1. x.op = "create" /\ x.answer = "ok" /\ UNCHANGED <<disk, file, saving, prompt, signedIn, doubt>>
      BY <1>3 DEF CreateAnswered, Ok
    <2>2. PICK y \in CallRecord \cup {Free} :
             /\ calls' = [calls EXCEPT ![c] = y]
             /\ \/ y = Free
                \/ /\ y.op = "open" /\ y.answer = "pending" /\ Named(y) \subseteq Named(calls[c])
                   /\ y.path = y.to /\ (y.excused \/ Settled)
      <3>1. CASE Ends(c)
        BY <3>1 DEF Ends
      <3>2. CASE ~Ends(c)
        <4> DEFINE y == Request("open", x.path, x.path, Template, FALSE, x.held \/ x.excused)
        <4>1. calls' = [calls EXCEPT ![c] = y]
          BY <1>3, <3>2 DEF CreateAnswered
        <4>2. y \in CallRecord
          BY <1>0, EditorAssumption DEF Request, CallRecord
        <4>3. y.op = "open" /\ y.answer = "pending" /\ y.path = x.path /\ y.to = x.path
          BY DEF Request
        <4>4. y.excused \/ Settled
          BY <1>0, <2>1 DEF Request, EditorInv, AskedWell, MayDiscard
        <4>5. Named(y) \subseteq Named(calls[c])
          BY <1>0, <4>3 DEF Named
        <4> QED
          BY <4>1, <4>2, <4>3, <4>4, <4>5
      <3> QED
        BY <3>1, <3>2
    <2>3. saving' = (saving /\ ~Saves(c))
      BY <1>t, <2>1 DEF Saves
    <2>4. Settled => ~Dirty'
      BY <2>1 DEF Settled, Dirty, NoFile
    <2>6. \A p \in Path \ doubt' : p \in Named(calls[c]) /\ Quiet(p)' => Agreed(p)'
      BY <1>0, <1>n, <1>k, <2>1 DEF Fits, Agreed
    <2> QED
      BY <1>0, <1>t, <2>1, <2>2, <2>3, <2>4, <2>6, EndedInv
  <1>4. CASE RenameAnswered(c)
    <2> DEFINE f == IF file.path = x.path THEN [file EXCEPT !.path = x.to] ELSE file
    <2>1. /\ x.op = "rename" /\ x.answer = "ok" /\ calls' = [calls EXCEPT ![c] = Free] /\ file' = f
          /\ doubt' = IF x.path \in doubt THEN doubt \cup {x.to} ELSE doubt
          /\ UNCHANGED <<disk, saving, prompt, signedIn>>
      BY <1>4 DEF RenameAnswered, Ok, Ends
    <2>2. /\ f \in OpenFile \cup {NoFile}
          /\ IF file.path = x.path
             THEN f.path = x.to /\ f.original = file.original /\ f.content = file.content /\ file # NoFile /\ f # NoFile
             ELSE f = file
      <3>1. CASE file.path = x.path
        <4>1. file \in OpenFile
          BY <3>1, <1>0, <1>t, FilesTold
        <4>2. f \in OpenFile
          BY <3>1, <4>1, <1>0 DEF OpenFile
        <4> QED
          BY <3>1, <4>1, <4>2, <1>0, FilesTold DEF OpenFile
      <3>2. CASE file.path # x.path
        BY <3>2, <1>t
      <3> QED
        BY <3>1, <3>2
    <2> HIDE DEF f
    <2>3. saving' = (saving /\ ~Saves(c))
      BY <1>t, <2>1 DEF Saves
    <2>4. Settled => ~Dirty'
      BY <2>1, <2>2 DEF Settled, Dirty
    <2>5. \A p \in Path \ doubt' : p \notin Named(calls[c]) /\ file'.path = p => file' = file
      BY <1>0, <2>1, <2>2
    <2>6. ASSUME NEW p \in Path \ doubt', p \in Named(calls[c])
          PROVE  Agreed(p)'
      <3>1. CASE file.path = x.path
        <4>1. p = x.to => x.path \in Path \ doubt /\ x.to \notin doubt
          BY <1>0, <2>1, <2>6
        <4>2. p = x.to => file.original = disk[x.to]
          BY <3>1, <4>1, <1>0, <1>k, <2>1 DEF Fits
        <4> QED
          BY <3>1, <4>2, <2>1, <2>2 DEF Agreed
      <3>2. CASE file.path # x.path
        <4>1. p \in Path \ doubt
          BY <2>1
        <4>2. p = x.to => file.path # p
          BY <4>1, <1>0, <1>k, <2>1, <2>6 DEF Fits
        <4> QED
          BY <3>2, <4>2, <1>0, <2>1, <2>2, <2>6 DEF Agreed
      <3> QED
        BY <3>1, <3>2
    <2>7. doubt \subseteq doubt' /\ doubt' \subseteq Path
      BY <1>0, <1>t, <2>1
    <2> QED
      BY <1>0, <1>t, <2>1, <2>2, <2>3, <2>4, <2>5, <2>6, <2>7, EndedInv
  <1>5. CASE RenameDirAnswered(c)
    <2>1. /\ x.op = "rename_dir" /\ calls' = [calls EXCEPT ![c] = Free]
          /\ doubt' = doubt \cup Named(x)
          /\ UNCHANGED <<disk, file, saving, prompt, signedIn>>
      BY <1>5 DEF RenameDirAnswered, Ok, Ends
    <2>3. saving' = (saving /\ ~Saves(c))
      BY <1>t, <2>1 DEF Saves
    <2>4. Settled => ~Dirty'
      BY <2>1 DEF Settled, Dirty, NoFile
    <2>7. doubt \subseteq doubt' /\ doubt' \subseteq Path
      BY <1>0, <1>t, <2>1
    <2> QED
      BY <1>0, <1>t, <2>1, <2>3, <2>4, <2>7, EndedInv
  <1>6. CASE DeleteAnswered(c)
    <2>1. /\ x.op = "delete" /\ x.answer = "ok" /\ calls' = [calls EXCEPT ![c] = Free]
          /\ file' = IF x.held THEN NoFile ELSE file
          /\ UNCHANGED <<disk, saving, prompt, signedIn, doubt>>
      BY <1>6 DEF DeleteAnswered, Ok, Ends
    <2>3. saving' = (saving /\ ~Saves(c))
      BY <1>t, <2>1 DEF Saves
    <2>4. Settled => ~Dirty'
      BY <2>1 DEF Settled, Dirty, NoFile
    <2>5. \A p \in Path \ doubt' : p \notin Named(calls[c]) /\ file'.path = p => file' = file
      BY <2>1, FilesTold
    <2>6. \A p \in Path \ doubt' : p \in Named(calls[c]) /\ Quiet(p)' => Agreed(p)'
      BY <1>k, <2>1, FilesTold DEF Fits, Agreed
    <2> QED
      BY <1>0, <1>t, <2>1, <2>3, <2>4, <2>5, <2>6, EndedInv
  <1>7. CASE Failed(c)
    <2>1. /\ x.answer \in {"error", "denied"} /\ calls' = [calls EXCEPT ![c] = Free]
          /\ saving' = (saving /\ ~Saves(c)) /\ signedIn' \in BOOLEAN
          /\ UNCHANGED <<disk, file, prompt, doubt>>
      BY <1>7, <1>t DEF Failed, Ends, Saves
    <2>4. Settled => ~Dirty'
      BY <2>1 DEF Settled, Dirty, NoFile
    <2>6. ASSUME NEW p \in Path \ doubt', p \in Named(calls[c]), Quiet(p)'
          PROVE  Agreed(p)'
      <3>1. \A d \in Call \ {c} : calls'[d] = calls[d]
        BY <2>1
      <3>2. Quiet(p)
        BY <2>1, <2>6, <3>1 DEF Quiet, Done, InFlight
      <3> QED
        BY <2>1, <2>6, <3>2 DEF EditorInv, Known, Agreed
    <2> QED
      BY <1>0, <1>t, <2>1, <2>4, <2>6, EndedInv
  <1> QED
    BY <1>1, <1>2, <1>3, <1>4, <1>5, <1>6, <1>7 DEF Answered

\* What neither touches the file and the calls nor asks.
LEMMA AsideInv ==
    ASSUME EditorInv, UNCHANGED <<disk, file, saving, calls, doubt>>,
           prompt' \in Prompt, signedIn' \in BOOLEAN,
           prompt' = "clean" => prompt = "clean" \/ Settled
    PROVE  EditorInv'
  <1>1. EditorTyped'
    BY DEF EditorInv, EditorTyped
  <1>2. OneSave' /\ TwoNamed'
    BY DEF EditorInv, OneSave, Saves, TwoNamed, InFlight
  <1>3. AskedWell'
    BY DEF EditorInv, AskedWell, InFlight, Settled, Dirty, NoFile
  <1>4. Alone' /\ Known'
    BY DEF EditorInv, Alone, Known, Quiet, Done, InFlight, Agreed, Fits
  <1> QED
    BY <1>1, <1>2, <1>3, <1>4 DEF EditorInv

LEMMA EditorStarts ==
    ASSUME EditorInit
    PROVE  EditorInv
  <1>1. EditorTyped
    BY EditorAssumption DEF EditorInit, EditorTyped, Prompt
  <1>2. \A c \in Call : calls[c] = Free /\ ~InFlight(c) /\ Named(calls[c]) = {}
    BY DEF EditorInit, InFlight, Named
  <1>3. OneSave /\ AskedWell /\ TwoNamed /\ Alone
    BY <1>2, CallsTold DEF EditorInit, OneSave, Saves, AskedWell, TwoNamed, Alone
  <1>4. Known
    BY <1>2, FilesTold DEF EditorInit, Known, Agreed
  <1> QED
    BY <1>1, <1>3, <1>4 DEF EditorInv

LEMMA EditorStep ==
    ASSUME EditorInv, [EditorNext]_editorVars
    PROVE  EditorInv'
  <1>t. prompt \in Prompt /\ signedIn \in BOOLEAN
    BY DEF EditorInv, EditorTyped
  <1>1. ASSUME NEW d \in Content, Type(d)
        PROVE  EditorInv'
    <2>1. /\ calls' \in [Call -> CallRecord \cup {Free}]
          /\ OneSave' /\ TwoNamed' /\ Alone' /\ Known'
      BY <1>1, TypedKnown
    <2>2. file' \in OpenFile
      BY <1>1 DEF Type, EditorInv, EditorTyped, OpenFile
    <2>3. prompt' \in Prompt /\ prompt' # "clean"
      BY <1>1, <1>t DEF Type, Prompt
    <2>4. EditorTyped'
      BY <1>1, <2>1, <2>2, <2>3 DEF Type, EditorInv, EditorTyped
    <2>5. AskedWell'
      BY <1>1, <2>3, TypedKnown DEF AskedWell
    <2> QED
      BY <2>1, <2>4, <2>5 DEF EditorInv
  <1>2. CASE PromptNewFile
    BY <1>2, <1>t, AsideInv DEF PromptNewFile, Prompt, Asks, Settled
  <1>3. CASE Cancel
    BY <1>3, <1>t, AsideInv DEF Cancel, Prompt
  <1>4. CASE SignOut
    BY <1>4, <1>t, AsideInv DEF SignOut
  <1>5. CASE SignIn
    BY <1>5, <1>t, AsideInv DEF SignIn
  <1>6. ASSUME NEW c \in Call, Deny(c)
        PROVE  EditorInv'
    BY <1>6, FailsInv DEF Deny, Answers
  <1>7. ASSUME NEW c \in Call, LoseAnswer(c)
        PROVE  EditorInv'
    BY <1>7, FailsInv DEF LoseAnswer, Answers
  <1>8. CASE UNCHANGED editorVars
    BY <1>8, <1>t, AsideInv DEF editorVars
  <1> QED
    BY <1>1, <1>2, <1>3, <1>4, <1>5, <1>6, <1>7, <1>8, UserInv, ServeInv, AnsweredInv DEF EditorNext

THEOREM EditorInvariance == EditorSpec => []EditorInv
  <1> QED
    BY EditorStarts, EditorStep, PTL DEF EditorSpec

(***************************************************************************)
(* Saving is disabled exactly while the one save is under way, which ends   *)
(* however its call does.                                                   *)
(***************************************************************************)
THEOREM EditorTyping == EditorSpec => []EditorTypeOK
  <1> QED
    BY EditorInvariance, SavesCounted, PTL

(***************************************************************************)
(* Once the calls on the open file are answered, the baseline of "unsaved   *)
(* changes" is what the server holds, unless some of them overlapped or an  *)
(* answer was lost, however many calls there are and in whatever order the  *)
(* server takes them and answers come back.                                 *)
(***************************************************************************)
THEOREM BaselineTrue == EditorSpec => []BaselineAgrees
  <1>1. EditorInv => BaselineAgrees
    <2> SUFFICES ASSUME EditorInv, file # NoFile, file.path \notin doubt,
                        \A c \in Call : file.path \notin Named(calls[c])
                 PROVE  file.original = disk[file.path]
      BY DEF BaselineAgrees
    <2>1. file.path \in Path
      BY FilesTold DEF EditorInv, EditorTyped
    <2> QED
      BY <2>1 DEF EditorInv, Known, Quiet, Agreed
  <1> QED
    BY <1>1, EditorInvariance, PTL

(***************************************************************************)
(* No answer takes unsaved edits away without leave.                        *)
(***************************************************************************)
THEOREM EditsStayKept == EditorSpec => EditsKept
  <1> DEFINE Kept == \A c \in Call : Answered(c) /\ Lost => calls[c].excused
  <1>1. EditorInv /\ [EditorNext]_editorVars => [Kept]_editorVars
    <2> SUFFICES ASSUME EditorInv, NEW c \in Call, Answered(c), Lost, ~calls[c].excused
                 PROVE  FALSE
      OBVIOUS
    <2>0. file \in OpenFile /\ Dirty /\ ~Settled
      BY DEF Lost, Dirty, EditorInv, EditorTyped, Settled
    <2>1. file' = NoFile \/ file'.content # file.content
      BY DEF Lost
    <2>2. InFlight(c) => calls[c].op # "open" /\ calls[c].op # "delete"
      BY <2>0 DEF EditorInv, AskedWell, MayDiscard
    <2>3. ~OpenAnswered(c) /\ ~DeleteAnswered(c)
      BY <2>2 DEF OpenAnswered, DeleteAnswered, Ok
    <2>4. ~CreateAnswered(c) /\ ~RenameDirAnswered(c) /\ ~Failed(c)
      BY <2>0, <2>1, FilesTold DEF CreateAnswered, RenameDirAnswered, Failed
    <2>5. InFlight(c) => calls[c].to \in Path /\ calls[c].data \in Content
      BY CallTyped, CallsTold DEF EditorInv
    <2>6. ~SaveAnswered(c)
      <3> SUFFICES ASSUME SaveAnswered(c)
                   PROVE  FALSE
        OBVIOUS
      <3>1. file' = [file EXCEPT !.original = calls[c].data] \/ file' = file
        BY DEF SaveAnswered
      <3>2. file' \in OpenFile /\ file'.content = file.content
        BY <2>0, <2>5, <3>1 DEF SaveAnswered, Ok, OpenFile
      <3> QED
        BY <2>1, <3>2, FilesTold
    <2>7. ~RenameAnswered(c)
      <3> SUFFICES ASSUME RenameAnswered(c)
                   PROVE  FALSE
        OBVIOUS
      <3>1. file' = [file EXCEPT !.path = calls[c].to] \/ file' = file
        BY DEF RenameAnswered
      <3>2. file' \in OpenFile /\ file'.content = file.content
        BY <2>0, <2>5, <3>1 DEF RenameAnswered, Ok, OpenFile
      <3> QED
        BY <2>1, <3>2, FilesTold
    <2> QED
      BY <2>3, <2>4, <2>6, <2>7 DEF Answered
  <1> QED
    BY <1>1, EditorInvariance, PTL DEF EditorSpec, EditsKept

=============================================================================

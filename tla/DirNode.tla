------------------------------ MODULE DirNode -------------------------------
(***************************************************************************)
(* web/src/components/FileTree.tsx, DirNode: one directory of the tree, its *)
(* entries listed when it is expanded and listed again when App raises      *)
(* refreshNonce, which it does when the answer to an edit has come.         *)
(*                                                                          *)
(* What the server holds is the number of edits it has made; a listing is   *)
(* the number when it was served.                                           *)
(***************************************************************************)
EXTENDS Naturals

CONSTANTS
    Listing,    \* bound of the model: as many listings under way
    Edit,       \* bound of the model: as many edits under way
    MaxEdits    \* bound of the model: edits the server makes

ASSUME DirNodeAssumption == MaxEdits \in Nat

VARIABLES
    version,    \* edits the server has made
    edits,      \* the edits under way
    told,       \* history: the latest edit whose answer has come
    due,        \* refreshNonce is raised and the page not rendered since
    expanded,
    entries,    \* the listing shown, or Nothing
    error,
    loading,
    listings    \* the listings under way

nodeVars == <<version, edits, told, due, expanded, entries, error, loading, listings>>

Nothing == [at |-> 0, shown |-> FALSE]
Shown(v) == [at |-> v, shown |-> TRUE]

NoEdit == [stage |-> "none"]
NoListing == [stage |-> "none"]

ListingRecord == [stage : {"sent", "served", "failed"}, at : 0 .. MaxEdits, cancelled : BOOLEAN]

NodeTypeOK ==
    /\ version \in 0 .. MaxEdits
    /\ edits \in [Edit -> {NoEdit, [stage |-> "sent"]} \cup [stage : {"served"}, at : 1 .. MaxEdits]]
    /\ told \in 0 .. version
    /\ due \in BOOLEAN
    /\ expanded \in BOOLEAN
    /\ entries \in {Nothing} \cup {Shown(v) : v \in 0 .. version}
    /\ error \in BOOLEAN
    /\ loading \in BOOLEAN
    /\ listings \in [Listing -> ListingRecord \cup {NoListing}]

-----------------------------------------------------------------------------
(* The effect *)

ListingUnderWay(a) == listings[a] # NoListing

Cancelled ==
    [a \in Listing |-> IF ListingUnderWay(a) THEN [listings[a] EXCEPT !.cancelled = TRUE] ELSE NoListing]

\* Its cleanup, then its body: of a collapsed node it does nothing.
RunsEffect(open) ==
    IF open
    THEN /\ \E a \in Listing :
              /\ ~ListingUnderWay(a)
              /\ listings' = [Cancelled EXCEPT ![a] = [stage |-> "sent", at |-> 0, cancelled |-> FALSE]]
         /\ loading' = TRUE
         /\ error' = FALSE
    ELSE /\ listings' = Cancelled
         /\ UNCHANGED <<loading, error>>

NodeInit ==
    /\ version = 0
    /\ edits = [e \in Edit |-> NoEdit]
    /\ told = 0
    /\ due = FALSE
    /\ expanded = FALSE
    /\ entries = Nothing
    /\ error = FALSE
    /\ loading = FALSE
    /\ listings = [a \in Listing |-> NoListing]

Toggle ==
    /\ expanded' = ~expanded
    /\ RunsEffect(expanded')
    /\ UNCHANGED <<version, edits, told, due, entries>>

\* Mutant: the effect does not depend on refreshNonce.
RenderAlone ==
    /\ due
    /\ due' = FALSE
    /\ UNCHANGED <<version, edits, told, expanded, entries, error, loading, listings>>

\* The render that a raised refreshNonce makes due.
Render ==
    /\ due
    /\ due' = FALSE
    /\ RunsEffect(expanded)
    /\ UNCHANGED <<version, edits, told, expanded, entries>>

\* The node leaves the page, with its parent's entries or on signing out, and
\* comes back collapsed; the root, which comes back expanded, has Toggle next.
Remount ==
    /\ expanded' = FALSE
    /\ entries' = Nothing
    /\ error' = FALSE
    /\ loading' = FALSE
    /\ due' = FALSE
    /\ listings' = Cancelled
    /\ UNCHANGED <<version, edits, told>>

-----------------------------------------------------------------------------
(* Listings *)

ServeListing(a) ==
    /\ ListingUnderWay(a)
    /\ listings[a].stage = "sent"
    /\ \/ listings' = [listings EXCEPT ![a].stage = "served", ![a].at = version]
       \/ listings' = [listings EXCEPT ![a].stage = "failed"]
    /\ UNCHANGED <<version, edits, told, due, expanded, entries, error, loading>>

Comes(a, stage) ==
    /\ ListingUnderWay(a)
    /\ listings[a].stage = stage
    /\ listings' = [listings EXCEPT ![a] = NoListing]

ListingAnswered(a) ==
    /\ Comes(a, "served")
    /\ ~listings[a].cancelled
    /\ entries' = Shown(listings[a].at)
    /\ loading' = FALSE
    /\ UNCHANGED <<version, edits, told, due, expanded, error>>

\* Mutant: loading is reset where the listing has worked only.
ListingFailedStuck(a) ==
    /\ Comes(a, "failed")
    /\ ~listings[a].cancelled
    /\ error' = TRUE
    /\ UNCHANGED <<version, edits, told, due, expanded, entries, loading>>

ListingFailed(a) ==
    /\ Comes(a, "failed")
    /\ ~listings[a].cancelled
    /\ error' = TRUE
    /\ loading' = FALSE
    /\ UNCHANGED <<version, edits, told, due, expanded, entries>>

ListingIgnored(a) ==
    /\ \E stage \in {"served", "failed"} : Comes(a, stage)
    /\ listings[a].cancelled
    /\ UNCHANGED <<version, edits, told, due, expanded, entries, error, loading>>

ListingEnds(a) == ListingAnswered(a) \/ ListingFailed(a) \/ ListingIgnored(a)

-----------------------------------------------------------------------------
(* Edits: create, rename and delete of files and directories *)

SendEdit(e) ==
    /\ edits[e] = NoEdit
    /\ edits' = [edits EXCEPT ![e] = [stage |-> "sent"]]
    /\ UNCHANGED <<version, told, due, expanded, entries, error, loading, listings>>

ServeEdit(e) ==
    /\ edits[e].stage = "sent"
    /\ version < MaxEdits
    /\ version' = version + 1
    /\ edits' = [edits EXCEPT ![e] = [stage |-> "served", at |-> version + 1]]
    /\ UNCHANGED <<told, due, expanded, entries, error, loading, listings>>

\* The answer raises refreshNonce ...
EditAnswered(e) ==
    /\ edits[e].stage = "served"
    /\ told' = IF edits[e].at > told THEN edits[e].at ELSE told
    /\ due' = TRUE
    /\ edits' = [edits EXCEPT ![e] = NoEdit]
    /\ UNCHANGED <<version, expanded, entries, error, loading, listings>>

\* ... an error, or another client's edit, does not.
EditFailed(e) ==
    /\ edits[e] # NoEdit
    /\ edits' = [edits EXCEPT ![e] = NoEdit]
    /\ UNCHANGED <<version, told, due, expanded, entries, error, loading, listings>>

NodeNext ==
    \/ Toggle \/ Render \/ Remount
    \/ \E a \in Listing : ServeListing(a) \/ ListingEnds(a)
    \/ \E e \in Edit : SendEdit(e) \/ ServeEdit(e) \/ EditAnswered(e) \/ EditFailed(e)

-----------------------------------------------------------------------------

(***************************************************************************)
(* An expanded directory that is not loading and shows no error lists every *)
(* edit whose answer has come, in whatever order edits and listings were    *)
(* served and answered.                                                     *)
(***************************************************************************)
TreeFresh ==
    expanded /\ ~loading /\ ~error /\ ~due => entries.shown /\ entries.at >= told

(***************************************************************************)
(* An expanded directory does not go on loading.  One that is collapsed     *)
(* while it loads does: the answer that would end it has been cancelled,    *)
(* and its row shows the spinner until it is expanded again.                *)
(***************************************************************************)
LoadingEnds == (loading /\ expanded) ~> (~loading \/ ~expanded)

=============================================================================

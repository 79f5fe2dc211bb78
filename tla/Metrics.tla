------------------------------ MODULE Metrics -------------------------------
(***************************************************************************)
(* internal/metrics/metrics.go and the calls that feed it: a handler counts *)
(* what it has done, and the middleware around it counts the request once   *)
(* it has been answered; a Build swaps its result into the index, and its   *)
(* caller reports it afterwards.  Each method runs under the mutex, and     *)
(* Snapshot reads all at once.                                              *)
(***************************************************************************)
EXTENDS Naturals, FiniteSets

CONSTANTS
    Hit,           \* bound of the model: as many requests at once
    Rebuild,       \* bound of the model: as many Builds at once
    MaxRequests,   \* bound of the model: requests counted
    MaxFound       \* bound of the model: files that a Build finds

ASSUME MetricsAssumption == IsFiniteSet(Hit) /\ MaxRequests \in Nat /\ MaxFound \in Nat

VARIABLES
    hits,       \* how far each request is
    counts,     \* the counters
    builds,     \* builds[b]: what Build b has found and not reported, or None
    inIndex,    \* what the Build found that was swapped in last
    reported,   \* IndexedFiles
    crossed     \* history: that Build was swapped in before another had reported

metricsVars == <<hits, counts, builds, inIndex, reported, crossed>>

Counter == {"reads", "writes", "searches"}
Done == [found |-> FALSE, files |-> 0]
Found(n) == [found |-> TRUE, files |-> n]

MetricsTypeOK ==
    /\ hits \in [Hit -> {"none", "running", "answered", "broken"}]
    /\ counts \in [Counter \cup {"requests", "errors"} -> Nat]
    /\ builds \in [Rebuild -> [found : BOOLEAN, files : 0 .. MaxFound]]
    /\ inIndex \in 0 .. MaxFound
    /\ reported \in 0 .. MaxFound
    /\ crossed \in BOOLEAN

MetricsInit ==
    /\ hits = [h \in Hit |-> "none"]
    /\ counts = [k \in Counter \cup {"requests", "errors"} |-> 0]
    /\ builds = [b \in Rebuild |-> Done]
    /\ inIndex = 0
    /\ reported = 0
    /\ crossed = FALSE

HitIs(h, s) == hits' = [hits EXCEPT ![h] = s]

HitArrives(h) ==
    /\ hits[h] = "none"
    /\ HitIs(h, "running")
    /\ UNCHANGED <<counts, builds, inIndex, reported, crossed>>

\* IncFileRead, IncFileWrite and IncSearch: GetFile, SaveFile, CreateFile and
\* Search count what they have done, the others, RenameFile too, do not.
HitSucceeds(h) ==
    /\ hits[h] = "running"
    /\ HitIs(h, "answered")
    /\ \/ \E k \in Counter : counts' = [counts EXCEPT ![k] = @ + 1]
       \/ UNCHANGED counts
    /\ UNCHANGED <<builds, inIndex, reported, crossed>>

\* Mutant: GetFile counts before it looks at the error.
HitFailsCounted(h) ==
    /\ hits[h] = "running"
    /\ HitIs(h, "broken")
    /\ counts' = [counts EXCEPT !["reads"] = @ + 1]
    /\ UNCHANGED <<builds, inIndex, reported, crossed>>

\* With an error of the client's, or of the server's.
HitFails(h) ==
    /\ hits[h] = "running"
    /\ HitIs(h, "answered") \/ HitIs(h, "broken")
    /\ UNCHANGED <<counts, builds, inIndex, reported, crossed>>

ObserveRequest(h) ==
    /\ hits[h] \in {"answered", "broken"}
    /\ counts["requests"] < MaxRequests
    /\ HitIs(h, "none")
    /\ counts' = [counts EXCEPT !["requests"] = @ + 1,
                                !["errors"] = IF hits[h] = "broken" THEN @ + 1 ELSE @]
    /\ UNCHANGED <<builds, inIndex, reported, crossed>>

-----------------------------------------------------------------------------

Unreported == {b \in Rebuild : builds[b] # Done}

\* The end of Build.
BuildSwaps(b) ==
    /\ b \notin Unreported
    /\ \E n \in 0 .. MaxFound : inIndex' = n /\ builds' = [builds EXCEPT ![b] = Found(n)]
    /\ crossed' = (Unreported # {})
    /\ UNCHANGED <<hits, counts, reported>>

\* Mutant: the first report, of the Build at start, stays.
SetIndexOnce(b) ==
    /\ b \in Unreported
    /\ reported' = IF reported = 0 THEN builds[b].files ELSE reported
    /\ builds' = [builds EXCEPT ![b] = Done]
    /\ UNCHANGED <<hits, counts, inIndex, crossed>>

\* By Reindex, or main's goroutine.
SetIndex(b) ==
    /\ b \in Unreported
    /\ reported' = builds[b].files
    /\ builds' = [builds EXCEPT ![b] = Done]
    /\ UNCHANGED <<hits, counts, inIndex, crossed>>

MetricsNext ==
    \/ \E h \in Hit : HitArrives(h) \/ HitSucceeds(h) \/ HitFails(h) \/ ObserveRequest(h)
    \/ \E b \in Rebuild : BuildSwaps(b) \/ SetIndex(b)

MetricsSpec == MetricsInit /\ [][MetricsNext]_metricsVars

-----------------------------------------------------------------------------

(***************************************************************************)
(* A snapshot makes sense whenever it is taken: what handlers have counted  *)
(* and the requests that failed are different requests, each of them        *)
(* counted or not answered yet.                                             *)
(***************************************************************************)
Answering == {h \in Hit : hits[h] = "answered"}

CountsAgree ==
    counts["reads"] + counts["writes"] + counts["searches"] + counts["errors"]
        <= counts["requests"] + Cardinality(Answering)

(***************************************************************************)
(* IndexedFiles is what the Build in the index found, once nobody has a     *)
(* report to make, unless that Build was swapped in between the swap and    *)
(* the report of another, which may then be the last to report.             *)
(***************************************************************************)
LastReported == Unreported = {} /\ ~crossed => reported = inIndex

=============================================================================

------------------------------- MODULE Vault --------------------------------
(***************************************************************************)
(* internal/api/files.go and search.go: the handlers that keep the disk and *)
(* the search index in step.  CreateFile, DeleteFile and RenameFile first   *)
(* let the Manager finish, then update the index; nothing holds the two     *)
(* together, and the index is lost when the process stops.                  *)
(***************************************************************************)
EXTENDS Files, SearchIndex

CONSTANT MaxCrashes    \* bound of the model

ASSUME CrashesAssumption == MaxCrashes \in Nat

VARIABLES
    indexed,   \* requests past their index update, or whose run is over
    crashes,   \* number of new runs so far
    raced,     \* history: paths named by overlapping requests, or while a
               \* Build that has been swapped in was running
    moved,     \* history: paths named by directory renames since that Build
    dirty      \* history: dirty[b]: paths named while Build b has been running

history == <<raced, moved, dirty>>
vaultVars == <<vars, indexVars, indexed, crashes, history>>

VaultTypeOK ==
    /\ TypeOK
    /\ IndexTypeOK
    /\ indexed \subseteq Req
    /\ crashes \in 0 .. MaxCrashes
    /\ raced \subseteq Paths
    /\ moved \subseteq Paths
    /\ dirty \in [Builder -> SUBSET Paths]

VaultInit ==
    /\ Init
    /\ IndexInit
    /\ indexed = {}
    /\ crashes = 0
    /\ raced = {}
    /\ moved = {}
    /\ dirty = [b \in Builder |-> {}]

\* The handlers with an index update after the Manager's answer.
Owes(r) ==
    /\ stage[r] = "done"
    /\ res[r] = "ok"
    /\ call[r].op \in {"create", "delete", "rename"}
    /\ r \notin indexed

Changes(r) == call[r].op # "read" /\ (InFlight(r) \/ Owes(r))

Named(c) == {c.path, c.to}
Overlap(c1, c2) ==
    \E p \in Named(c1), q \in Named(c2) : IsPrefix(p, q) \/ IsPrefix(q, p)
Under(S, p) == \E q \in S : IsPrefix(q, p)

-----------------------------------------------------------------------------

\* History: what an accepted call of request r may leave in doubt.
Doubt(r) ==
    LET c      == call'[r]
        rivals == {q \in Req : Changes(q) /\ Overlap(c, call[q])}
    IN  IF c.op = "read" \/ stage'[r] = "done"
        THEN UNCHANGED history
        ELSE /\ raced' = IF rivals = {} THEN raced
                         ELSE raced \cup Named(c) \cup UNION {Named(call[q]) : q \in rivals}
             /\ moved' = IF c.op = "rename_dir" THEN moved \cup Named(c) ELSE moved
             /\ dirty' = [b \in Builder |-> IF Walking(b) THEN dirty[b] \cup Named(c)
                                                         ELSE dirty[b]]

HandlerStarts(r) ==
    /\ Arrive(r)
    /\ Doubt(r)
    /\ UNCHANGED <<indexVars, indexed, crashes>>

HandlerContinues(r) ==
    /\ Continue(r)
    /\ UNCHANGED <<indexVars, indexed, crashes, history>>

\* The handler's last act on the index, under idx.mu.
UpdateIndex(r) ==
    /\ Owes(r)
    /\ docs' = CASE call[r].op = "create" -> Add(call[r].path)
                 [] call[r].op = "delete" -> RemoveDoc(call[r].path)
                 [] call[r].op = "rename" -> RenameDoc(call[r].path, call[r].to)
    /\ indexed' = indexed \cup {r}
    /\ UNCHANGED <<vars, built, capped, walk, crashes, history>>

Reindex(b) ==
    /\ b # Boot
    /\ StartBuild(b)
    /\ dirty' = [dirty EXCEPT ![b] = UNION {Named(call[q]) : q \in {x \in Req : Changes(x)}}]
    /\ UNCHANGED <<vars, indexed, crashes, raced, moved>>

BuildReads(b) ==
    /\ Visit(b, fs)
    /\ UNCHANGED <<vars, indexed, crashes, history>>

BuildEnds(b) ==
    /\ Swap(b)
    /\ raced' = dirty[b]
    /\ moved' = {}
    /\ dirty' = [dirty EXCEPT ![b] = {}]
    /\ UNCHANGED <<vars, indexed, crashes>>

\* A run begins, with an index of its own, on what is on disk.
NewRun ==
    /\ crashes < MaxCrashes
    /\ crashes' = crashes + 1
    /\ docs' = {}
    /\ built' = FALSE
    /\ capped' = FALSE
    /\ walk' = [b \in Builder |-> IF b = Boot THEN Begun
                                  ELSE IF Walking(b) THEN Walk("done", {}, {})
                                  ELSE walk[b]]
    /\ raced' = {}
    /\ moved' = {}

\* The process stops and is started again.
Restart ==
    /\ NewRun
    /\ Killed({r \in Req : InFlight(r)})
    /\ indexed' = indexed \cup {r \in Req : Owes(r)}
    /\ dirty' = [b \in Builder |-> {}]
    /\ UNCHANGED <<fs, call, res, got, mk>>

\* It is started again while it shuts down: the port is free as soon as
\* Shutdown begins, and the requests of the old run go on.  Their updates go
\* to an index that nobody asks any more.
Handover ==
    /\ NewRun
    /\ indexed' = indexed \cup {r \in Req : Changes(r)}
    /\ dirty' = [b \in Builder |->
                   IF b = Boot THEN UNION {Named(call[r]) : r \in {x \in Req : Changes(x)}} ELSE {}]
    /\ UNCHANGED vars

OfOldRun(r) == InFlight(r) /\ r \in indexed

\* Its ten seconds are over.
OldRunEnds ==
    /\ \E r \in Req : OfOldRun(r)
    /\ Killed({r \in Req : OfOldRun(r)})
    /\ UNCHANGED <<fs, call, res, got, mk, indexVars, indexed, crashes, history>>

VaultQuiet ==
    /\ \A r \in Req : stage[r] \in {"done", "killed"} /\ ~Owes(r)
    /\ \A b \in Builder : ~Walking(b)
    /\ UNCHANGED vaultVars

VaultNext ==
    \/ \E r \in Req : HandlerStarts(r) \/ HandlerContinues(r) \/ UpdateIndex(r)
    \/ \E b \in Builder : Reindex(b) \/ BuildReads(b) \/ BuildEnds(b)
    \/ Restart \/ Handover \/ OldRunEnds
    \/ VaultQuiet

\* Goroutines that can run do; nobody has to send a request or a reindex.
VaultFairness ==
    /\ \A r \in Req : WF_vaultVars(HandlerContinues(r)) /\ WF_vaultVars(UpdateIndex(r))
    /\ \A b \in Builder : WF_vaultVars(BuildReads(b)) /\ WF_vaultVars(BuildEnds(b))

VaultSpec == VaultInit /\ [][VaultNext]_vaultVars /\ VaultFairness

-----------------------------------------------------------------------------
(* Properties.                                                             *)

\* Nothing in progress, or overlapping in the past, concerns path p.
Undisputed(p) ==
    /\ Indexable(p)
    /\ ~Under(raced, p)
    /\ \A r \in Req : Changes(r) => ~Under(Named(call[r]), p)

\* The index lists a markdown file exactly if it is on disk, for every path
\* whose last changes were made one after the other, and neither during the
\* Build the index comes from nor by a directory rename since.
IndexAgrees ==
    built /\ ~capped =>
        \A p \in DOMAIN fs \cup docs :
            Undisputed(p) /\ ~Under(moved, p) => (p \in docs <=> IsFile(fs, p))

\* A Build that starts when no request is in progress, with no more to come,
\* makes the index equal to the disk, whatever happened before.
Repaired ==
    (/\ \A r \in Req : stage[r] \in {"done", "killed"} /\ ~Owes(r)
     /\ \E b \in Builder : Walking(b)
     /\ \A b \in Builder : Walking(b) => dirty[b] = {})
    ~> (built /\ (capped \/ docs = OnDisk(fs)))

\* docs/architecture.md: "Edits made through mdtree update the index
\* incrementally", a directory rename included.
EditsReachIndex ==
    built /\ ~capped =>
        \A p \in DOMAIN fs \cup docs :
            Undisputed(p) => (p \in docs <=> IsFile(fs, p))

\* The index "is populated by Build and kept current by Add, Remove and Rename":
\* swapping a Build in does not drop a file that is there.
BuildKeepsAdded ==
    [][\A b \in Builder : Swap(b) => \A p \in docs \ docs' : ~IsFile(fs, p)]_vaultVars

=============================================================================

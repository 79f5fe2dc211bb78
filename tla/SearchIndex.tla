---------------------------- MODULE SearchIndex -----------------------------
(***************************************************************************)
(* internal/search/index.go: the in-memory index of markdown paths.  Add,   *)
(* Remove and Rename each hold idx.mu throughout and are operators on docs. *)
(* Build walks the disk for as long as it takes without the lock, one       *)
(* directory at a time, and only then takes the lock to swap its result in. *)
(***************************************************************************)
EXTENDS FileSystem

CONSTANTS
    Builder,    \* calls of Build: the one main starts, and the reindexes
    Boot,       \* the one main starts
    Skipped,    \* directory names that are ignored or start with a dot
    MaxFiles    \* maxFiles

ASSUME IndexAssumption ==
    /\ Boot \in Builder
    /\ Skipped \subseteq Name
    /\ MaxFiles \in Nat \ {0}

VARIABLES
    docs,     \* the indexed paths
    built,    \* builtAt is set
    capped,   \* the last Build to end left files out
    walk      \* walk[b]: where Build b is

indexVars == <<docs, built, capped, walk>>

\* `todo' holds the directories still to be read, `found' the files so far.
Walk(s, todo, found) == [state |-> s, todo |-> todo, found |-> found]
Unused == Walk("unused", {}, {})
Begun == Walk("walking", {Root}, {})

IndexTypeOK ==
    /\ docs \in SUBSET Path
    /\ \A p \in docs : IsMarkdown(p)
    /\ built \in BOOLEAN
    /\ capped \in BOOLEAN
    /\ walk \in [Builder -> [state : {"unused", "walking", "done"},
                             todo : SUBSET Path, found : SUBSET Path]]

\* A server that has just started: NewIndex, and Build running beside it.
FreshWalk == [b \in Builder |-> IF b = Boot THEN Begun ELSE Unused]

IndexInit ==
    /\ docs = {}
    /\ built = FALSE
    /\ capped = FALSE
    /\ walk = FreshWalk

Walking(b) == walk[b].state = "walking"

-----------------------------------------------------------------------------

StartBuild(b) ==
    /\ walk[b] = Unused
    /\ walk' = [walk EXCEPT ![b] = Begun]
    /\ UNCHANGED <<docs, built, capped>>

\* Mutant: Build indexes every file.
VisitFiles(b, t) ==
    /\ Walking(b)
    /\ \E d \in walk[b].todo :
          LET entries == IF IsDir(t, d) THEN Children(t, d) ELSE {}
              dirs    == {q \in entries : IsDir(t, q) /\ Last(q) \notin Skipped}
          IN  walk' = [walk EXCEPT ![b].todo = (@ \ {d}) \cup dirs,
                                   ![b].found = @ \cup {q \in entries : IsFile(t, q)}]
    /\ UNCHANGED <<docs, built, capped>>

\* filepath.WalkDir reads one directory of tree t; one that is no longer there
\* is passed over.
Visit(b, t) ==
    /\ Walking(b)
    /\ \E d \in walk[b].todo :
          LET entries == IF IsDir(t, d) THEN Children(t, d) ELSE {}
              dirs    == {q \in entries : IsDir(t, q) /\ Last(q) \notin Skipped}
              files   == {q \in entries : IsFile(t, q) /\ IsMarkdown(q)}
          IN  walk' = [walk EXCEPT ![b].todo = (@ \ {d}) \cup dirs,
                                   ![b].found = @ \cup files]
    /\ UNCHANGED <<docs, built, capped>>

\* Mutant: Build adds what it found to what is indexed.
SwapMerges(b) ==
    /\ Walking(b)
    /\ walk[b].todo = {}
    /\ docs' = docs \cup walk[b].found
    /\ capped' = FALSE
    /\ built' = TRUE
    /\ walk' = [walk EXCEPT ![b] = Walk("done", {}, {})]

\* The walk stops at maxFiles files: which ones it met first is not modelled.
Swap(b) ==
    /\ Walking(b)
    /\ walk[b].todo = {}
    /\ LET found == walk[b].found
       IN  IF Cardinality(found) <= MaxFiles
           THEN docs' = found /\ capped' = FALSE
           ELSE /\ docs' \in {S \in SUBSET found : Cardinality(S) = MaxFiles}
                /\ capped' = TRUE
    /\ built' = TRUE
    /\ walk' = [walk EXCEPT ![b] = Walk("done", {}, {})]

Add(p) == IF IsMarkdown(p) THEN docs \cup {p} ELSE docs

RemoveDoc(p) == docs \ {p}

\* Mutant: the old path stays indexed.
RenameDocKeeps(from, to) == docs \cup (IF IsMarkdown(to) THEN {to} ELSE {})

RenameDoc(from, to) == (docs \ {from}) \cup (IF IsMarkdown(to) THEN {to} ELSE {})

\* The files a walk of tree t finds: no directory above them is skipped.
Indexable(p) == IsMarkdown(p) /\ \A i \in 1 .. Len(p) - 1 : p[i] \notin Skipped
OnDisk(t) == {p \in DOMAIN t : Indexable(p) /\ IsFile(t, p)}

=============================================================================

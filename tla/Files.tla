------------------------------- MODULE Files --------------------------------
(***************************************************************************)
(* internal/files/file.go: files.Manager, as the HTTP server runs it, one   *)
(* goroutine per request and no lock around the disk.  Each action is one   *)
(* system call of one request together with the code that runs up to the    *)
(* next one.  Resolver.Resolve, IsMarkdown and the first os.Stat of a call  *)
(* have no effect and are one action, the request's first.                  *)
(***************************************************************************)
EXTENDS FileSystem

CONSTANTS
    Paths,    \* the paths requests name, already resolved
    Trees     \* the trees the server may find at start

ASSUME PathsAssumption == Paths \subseteq Seq(Name)

ASSUME TreesAssumption ==
    \A t \in Trees :
        /\ Tree(t)
        /\ \A p \in DOMAIN t : ~IsTemp(p) /\ t[p].data # Torn

VARIABLES
    fs,     \* the tree on disk
    call,   \* call[r]: what request r asks for
    stage,  \* stage[r]: the call request r makes next
    res,    \* res[r]: its result, "none" until it is known
    got,    \* got[r]: the content a read returned
    mk      \* mk[r]: how many components of a path MkdirAll has got to

vars == <<fs, call, stage, res, got, mk>>

Ops == {"read", "save", "create", "delete", "rename", "mkdir", "delete_dir",
        "rename_dir"}
Calls == [op : Ops \cup {"none"}, path : Paths \cup {Root}, to : Paths \cup {Root}]
Call(op, p, q) == [op |-> op, path |-> p, to |-> q]
NoCall == Call("none", Root, Root)

Waiting == {"stat_to", "read_file", "mkdir_all", "mkdir_next", "create_temp",
            "write", "publish", "cleanup", "info", "move", "read_dir", "remove"}
Stages == Waiting \cup {"idle", "done", "killed"}
Results == {"none", "ok", "refused", "failed"}

TypeOK ==
    /\ Tree(fs)
    /\ call \in [Req -> Calls]
    /\ stage \in [Req -> Stages]
    /\ res \in [Req -> Results]
    /\ got \in [Req -> Content \cup {Torn, NoData}]
    /\ mk \in [Req -> Nat]

Init ==
    /\ fs \in Trees
    /\ call = [r \in Req |-> NoCall]
    /\ stage = [r \in Req |-> "idle"]
    /\ res = [r \in Req |-> "none"]
    /\ got = [r \in Req |-> NoData]
    /\ mk = [r \in Req |-> 0]

InFlight(r) == stage[r] \in Waiting

Goto(r, s) == stage' = [stage EXCEPT ![r] = s] /\ UNCHANGED res

Answer(r, v) ==
    /\ stage' = [stage EXCEPT ![r] = "done"]
    /\ res' = [res EXCEPT ![r] = v]

\* Mutant: writeFileAtomic without its deferred Remove.
AbortLeaves(r) ==
    /\ stage' = [stage EXCEPT ![r] = "done"]
    /\ res' = [res EXCEPT ![r] = "failed"]

\* writeFileAtomic fails after CreateTemp: only its deferred Remove remains.
Abort(r) ==
    /\ stage' = [stage EXCEPT ![r] = "cleanup"]
    /\ res' = [res EXCEPT ![r] = "failed"]

\* A request arrives and makes its first os.Stat.
Admit(r, c, accepted, next) ==
    /\ stage[r] = "idle"
    /\ call' = [call EXCEPT ![r] = c]
    /\ IF accepted THEN Goto(r, next) ELSE Answer(r, "refused")
    /\ UNCHANGED <<fs, got, mk>>

\* Where the request puts something: Rename and RenameDir at `to'.
Target(r) == IF call[r].op \in {"rename", "rename_dir"} THEN call[r].to
                                                        ELSE call[r].path

-----------------------------------------------------------------------------
(* First steps.                                                            *)

Read(r, p) ==
    Admit(r, Call("read", p, p), IsMarkdown(p) /\ IsFile(fs, p), "read_file")

Save(r, p) ==
    Admit(r, Call("save", p, p), IsMarkdown(p) /\ IsFile(fs, p), "create_temp")

Create(r, p) ==
    Admit(r, Call("create", p, p), IsMarkdown(p) /\ Missing(fs, p), "mkdir_all")

Delete(r, p) ==
    Admit(r, Call("delete", p, p), IsMarkdown(p) /\ IsFile(fs, p), "remove")

Rename(r, p, q) ==
    Admit(r, Call("rename", p, q),
          IsMarkdown(p) /\ IsMarkdown(q) /\ IsFile(fs, p), "stat_to")

Mkdir(r, p) ==
    Admit(r, Call("mkdir", p, p), Missing(fs, p), "mkdir_all")

DeleteDir(r, p) ==
    Admit(r, Call("delete_dir", p, p), p # Root /\ IsDir(fs, p), "read_dir")

RenameDir(r, p, q) ==
    Admit(r, Call("rename_dir", p, q), p # Root /\ IsDir(fs, p), "stat_to")

Arrive(r) ==
    \E p \in Paths :
        \/ Read(r, p)
        \/ Save(r, p)
        \/ Create(r, p)
        \/ Delete(r, p)
        \/ Mkdir(r, p)
        \/ DeleteDir(r, p)
        \/ \E q \in Paths : Rename(r, p, q) \/ RenameDir(r, p, q)

-----------------------------------------------------------------------------
(* The system calls that follow.                                           *)

ReadFile(r) ==
    /\ stage[r] = "read_file"
    /\ LET p == call[r].path
       IN  IF IsFile(fs, p)
           THEN Answer(r, "ok") /\ got' = [got EXCEPT ![r] = fs[p].data]
           ELSE Answer(r, "failed") /\ UNCHANGED got
    /\ UNCHANGED <<fs, call, mk>>

StatTo(r) ==
    /\ stage[r] = "stat_to"
    /\ IF Missing(fs, call[r].to) THEN Goto(r, "mkdir_all") ELSE Answer(r, "refused")
    /\ UNCHANGED <<fs, call, got, mk>>

\* The directory os.MkdirAll is asked for.
DirWanted(r) == IF call[r].op = "mkdir" THEN call[r].path ELSE Front(Target(r))

DirReady(r) ==
    CASE call[r].op = "mkdir"  -> Answer(r, "ok")
      [] call[r].op = "create" -> Goto(r, "create_temp")
      [] OTHER                 -> Goto(r, "move")

\* os.MkdirAll looks upwards for the deepest component that exists ...
MkdirAll(r) ==
    /\ stage[r] = "mkdir_all"
    /\ LET d == DirWanted(r)
       IN  \/ IsDir(fs, d) /\ DirReady(r) /\ UNCHANGED mk
           \/ ~IsDir(fs, d) /\ ~Missing(fs, d) /\ Answer(r, "failed") /\ UNCHANGED mk
           \/ /\ Missing(fs, d)
              /\ \E n \in 1 .. Len(d) :
                    /\ SubSeq(d, 1, n - 1) \in DOMAIN fs
                    /\ SubSeq(d, 1, n) \notin DOMAIN fs
                    /\ mk' = [mk EXCEPT ![r] = n]
              /\ Goto(r, "mkdir_next")
    /\ UNCHANGED <<fs, call, got>>

\* ... then makes the rest one os.Mkdir at a time; it takes a directory that
\* has appeared meanwhile, and fails on a file or a parent that has gone.
MkdirNext(r) ==
    /\ stage[r] = "mkdir_next"
    /\ LET d == DirWanted(r)
           q == SubSeq(d, 1, mk[r])
       IN  IF IsDir(fs, q) \/ (q \notin DOMAIN fs /\ IsDir(fs, Front(q)))
           THEN /\ fs' = IF IsDir(fs, q) THEN fs ELSE Put(fs, q, DirNode)
                /\ IF mk[r] = Len(d)
                   THEN DirReady(r) /\ UNCHANGED mk
                   ELSE mk' = [mk EXCEPT ![r] = @ + 1] /\ UNCHANGED <<stage, res>>
           ELSE Answer(r, "failed") /\ UNCHANGED <<fs, mk>>
    /\ UNCHANGED <<call, got>>

TempPath(r) == Append(Front(call[r].path), r)

\* writeFileAtomic: os.CreateTemp in the directory of the file.
CreateTemp(r) ==
    /\ stage[r] = "create_temp"
    /\ IF IsDir(fs, Front(call[r].path))
       THEN fs' = Put(fs, TempPath(r), FileNode(Torn)) /\ Goto(r, "write")
       ELSE UNCHANGED fs /\ Answer(r, "failed")
    /\ UNCHANGED <<call, got, mk>>

\* Mutant: writeFileAtomic renames before the content is written and synced.
FlushLater(r) == stage[r] = "write" /\ Goto(r, "publish") /\ UNCHANGED <<fs, call, got, mk>>

\* WriteString and Sync through the descriptor, wherever the directory of the
\* temp file may have been moved; a full disk fails them.
Flush(r) ==
    /\ stage[r] = "write"
    /\ fs' = [p \in DOMAIN fs |->
                IF p # Root /\ Last(p) = r THEN FileNode(r) ELSE fs[p]]
    /\ Goto(r, "publish")
    /\ UNCHANGED <<call, got, mk>>

FlushFails(r) ==
    /\ stage[r] = "write"
    /\ Abort(r)
    /\ UNCHANGED <<fs, call, got, mk>>

\* os.Rename of the temp file into place.
Publish(r) ==
    /\ stage[r] = "publish"
    /\ LET p == call[r].path
       IN  IF Renamable(fs, TempPath(r), p)
           THEN fs' = MoveTree(fs, TempPath(r), p) /\ Goto(r, "cleanup")
           ELSE UNCHANGED fs /\ Abort(r)
    /\ UNCHANGED <<call, got, mk>>

\* The deferred os.Remove of the temp file's name, whatever became of it.
Cleanup(r) ==
    /\ stage[r] = "cleanup"
    /\ fs' = Drop(fs, TempPath(r))
    /\ Goto(r, IF res[r] = "none" THEN "info" ELSE "done")
    /\ UNCHANGED <<call, got, mk>>

\* infoOf: the call reports failure if what it wrote is already gone.
Info(r) ==
    /\ stage[r] = "info"
    /\ Answer(r, IF Target(r) \in DOMAIN fs THEN "ok" ELSE "failed")
    /\ UNCHANGED <<fs, call, got, mk>>

\* The os.Rename of Rename and RenameDir.
Move(r) ==
    /\ stage[r] = "move"
    /\ LET from == call[r].path
           to   == call[r].to
       IN  IF Renamable(fs, from, to)
           THEN /\ fs' = MoveTree(fs, from, to)
                /\ IF call[r].op = "rename" THEN Goto(r, "info") ELSE Answer(r, "ok")
           ELSE UNCHANGED fs /\ Answer(r, "failed")
    /\ UNCHANGED <<call, got, mk>>

ReadDir(r) ==
    /\ stage[r] = "read_dir"
    /\ LET p == call[r].path
       IN  IF IsDir(fs, p)
           THEN IF Children(fs, p) = {} THEN Goto(r, "remove") ELSE Answer(r, "refused")
           ELSE Answer(r, "failed")
    /\ UNCHANGED <<fs, call, got, mk>>

\* Mutant: os.RemoveAll for os.Remove.
UnlinkAll(r) ==
    /\ stage[r] = "remove"
    /\ fs' = [q \in {x \in DOMAIN fs : ~IsPrefix(call[r].path, x)} |-> fs[q]]
    /\ Answer(r, "ok")
    /\ UNCHANGED <<call, got, mk>>

\* The os.Remove of Delete and DeleteDir.
Unlink(r) ==
    /\ stage[r] = "remove"
    /\ LET p == call[r].path
       IN  IF Removable(fs, p)
           THEN fs' = Drop(fs, p) /\ Answer(r, "ok")
           ELSE UNCHANGED fs /\ Answer(r, "failed")
    /\ UNCHANGED <<call, got, mk>>

Continue(r) ==
    \/ ReadFile(r) \/ StatTo(r) \/ MkdirAll(r) \/ MkdirNext(r)
    \/ CreateTemp(r) \/ Flush(r) \/ FlushFails(r) \/ Publish(r) \/ Cleanup(r)
    \/ Info(r) \/ Move(r) \/ ReadDir(r) \/ Unlink(r)

-----------------------------------------------------------------------------
Killed(S) == stage' = [r \in Req |-> IF r \in S THEN "killed" ELSE stage[r]]

\* A process stops with requests S in flight: a kill, a crash, or the end of
\* the ten seconds main gives Shutdown.  What is on disk stays, and so do the
\* requests of a second process that serves the same root meanwhile.
Crash ==
    /\ \E S \in SUBSET {r \in Req : InFlight(r)} : S # {} /\ Killed(S)
    /\ UNCHANGED <<fs, call, res, got, mk>>

\* Every request has been made and answered.
Quiet ==
    /\ \A r \in Req : stage[r] \in {"done", "killed"}
    /\ UNCHANGED vars

Next == (\E r \in Req : Arrive(r) \/ Continue(r)) \/ Crash \/ Quiet

Spec == Init /\ [][Next]_vars

-----------------------------------------------------------------------------
(* Properties.                                                             *)

\* writeFileAtomic, "so readers never observe a partial write": no markdown
\* file on disk, also after a crash, is partly written, and no read returns one.
WholeFiles ==
    /\ \A p \in DOMAIN fs : fs[p].data = Torn => IsTemp(p)
    /\ \A r \in Req : got[r] # Torn

\* The deferred Remove leaves no temp file behind, except that of a request
\* that was killed, unless a directory may have been renamed under the writer.
Renamed(q) ==
    /\ call[q].op \in {"rename", "rename_dir"}
    /\ stage[q] \in {"info", "done", "killed"}
    /\ res[q] # "refused"

TempsAccounted ==
    \A p \in DOMAIN fs : \A r \in Req :
        (p # Root /\ Last(p) = r) =>
            \/ stage[r] \in {"write", "publish", "cleanup", "killed"}
            \/ \E q \in Req : Renamed(q)

\* "It fails with ErrExists if the file already exists": as long as nobody
\* deletes or renames anything, at most one Create of a path succeeds.
CreateIsExclusive ==
    (\A r \in Req : call[r].op \notin {"delete", "delete_dir", "rename", "rename_dir"})
    => \A q, r \in Req :
          /\ call[q].op = "create" /\ res[q] = "ok"
          /\ call[r].op = "create" /\ res[r] = "ok"
          /\ call[q].path = call[r].path
          => q = r

\* How far AtomicFiles takes request r to be.
PhaseOf(r) ==
    CASE stage[r] = "idle" -> "idle"
      [] stage[r] \in {"done", "killed"} -> "closed"
      [] stage[r] \in {"read_file", "stat_to", "read_dir", "remove"} -> "open"
      [] stage[r] = "info" \/ (stage[r] = "cleanup" /\ res[r] = "none") -> "applied"
      [] OTHER -> "begun"

Atomic == INSTANCE AtomicFiles WITH
    tree  <- Settled(fs),
    ask   <- call,
    phase <- [r \in Req |-> PhaseOf(r)],
    reply <- [r \in Req |-> IF stage[r] = "done" THEN res[r] ELSE "none"],
    seen  <- got

\* Every call of the Manager is atomic in the sense of AtomicFiles.
CallsAreAtomic == Atomic!Spec

=============================================================================

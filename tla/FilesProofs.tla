----------------------------- MODULE FilesProofs -----------------------------
(***************************************************************************)
(* Files keeps its invariants for every set of names, requests and trees.   *)
(***************************************************************************)
EXTENDS Files, FileSystemProofs

\* The stages of a request whose temp file may exist.
Owning == {"write", "publish", "cleanup", "info", "done", "killed"}

IsTempOf(p, r) == p # Root /\ Last(p) = r

\* A temp file is not a directory.
TempsAreFiles == \A p \in DOMAIN fs : IsTemp(p) => ~IsDir(fs, p)

\* Only a request that has got as far as os.CreateTemp has one.
TempsOwned == \A p \in DOMAIN fs : \A r \in Req : IsTempOf(p, r) => stage[r] \in Owning

\* It is whole before it is renamed into place.
TempsWritten ==
    \A p \in DOMAIN fs : \A r \in Req :
        IsTempOf(p, r) /\ stage[r] = "publish" => fs[p].data # Torn

\* It is where the request expects it, unless a rename may have moved it.
TempsPlaced ==
    \A p \in DOMAIN fs : \A r \in Req :
        IsTempOf(p, r) =>
            \/ p = TempPath(r) /\ stage[r] \in {"write", "publish", "cleanup", "killed"}
            \/ \E q \in Req : Renamed(q)

\* os.MkdirAll stays on the path it was asked for.
MkInRange ==
    \A r \in Req : stage[r] = "mkdir_next" => mk[r] \in 1 .. Len(DirWanted(r))

\* No request is about to remove the root.
RootSpared == \A r \in Req : stage[r] \in {"read_dir", "remove"} => call[r].path # Root

\* A request that renames is the only one to reach a "move", unrefused.
Course(s, v, op) ==
    /\ s \in {"idle", "stat_to", "mkdir_all", "mkdir_next", "move"} => v # "refused"
    /\ s \in {"stat_to", "move"} => op \in {"rename", "rename_dir"}
    /\ s \in {"mkdir_all", "mkdir_next"} => op \in {"create", "mkdir", "rename", "rename_dir"}

OnCourse == \A r \in Req : Course(stage[r], res[r], call[r].op)

\* What the invariants need to be inductive.
Inv ==
    /\ TypeOK
    /\ WholeFiles
    /\ TempsAreFiles
    /\ TempsOwned
    /\ TempsWritten
    /\ TempsPlaced
    /\ MkInRange
    /\ RootSpared
    /\ OnCourse

\* A path a request names is a path, and neither it nor a directory above it
\* is a temp file.
LEMMA NamedPath ==
    ASSUME NEW p \in Paths \cup {Root}
    PROVE  /\ p \in Path /\ ~IsTemp(p)
           /\ p # Root => Front(p) \in Path
           /\ \A n \in 0 .. Len(p) : SubSeq(p, 1, n) \in Path /\ ~IsTemp(SubSeq(p, 1, n))
<1>1. p \in Seq(Name)
  <2>1. Root \in Seq(Name)
    BY DEF Root
  <2> QED
    BY <2>1, PathsAssumption
<1>2. ASSUME NEW q \in Seq(Name) PROVE q \in Path /\ ~IsTemp(q)
  <2>1. q # <<>> => Last(q) \in Name
    BY DEF Last
  <2> QED
    BY <2>1, NamesAssumption DEF Path, IsTemp, Root
<1>3. ASSUME NEW n \in 0 .. Len(p) PROVE SubSeq(p, 1, n) \in Seq(Name)
  BY <1>1
<1> QED
  BY <1>1, <1>2, <1>3, ParentPath DEF Root

\* The invariant holds at start, on any tree without temp files.
LEMMA InitInv == Init => Inv
<1> SUFFICES ASSUME Init PROVE Inv
  OBVIOUS
<1> USE DEF Init
<1>1. Tree(fs) /\ \A p \in DOMAIN fs : ~IsTemp(p) /\ fs[p].data # Torn
  BY TreesAssumption
<1>2. TypeOK
  BY <1>1 DEF TypeOK, Calls, Call, NoCall, Stages, Results
<1>3. WholeFiles
  BY <1>1, NamesAssumption DEF WholeFiles
<1>4. \A p \in DOMAIN fs : \A r \in Req : ~IsTempOf(p, r)
  BY <1>1 DEF IsTempOf, IsTemp
<1>5. TempsAreFiles /\ TempsOwned /\ TempsWritten /\ TempsPlaced
  BY <1>1, <1>4 DEF TempsAreFiles, TempsOwned, TempsWritten, TempsPlaced
<1>6. MkInRange /\ RootSpared /\ OnCourse
  BY DEF MkInRange, RootSpared, OnCourse, Course
<1> QED
  BY <1>2, <1>3, <1>5, <1>6 DEF Inv

-----------------------------------------------------------------------------
(* Steps that leave the tree alone.                                        *)

\* A step of request r that does not touch the disk keeps the invariant if it
\* moves r on in its own state as the code does.
LEMMA SameTree ==
    ASSUME Inv, NEW r \in Req, fs' = fs,
           call' \in [Req -> Calls], stage' \in [Req -> Stages],
           res' \in [Req -> Results], got' \in [Req -> Content \cup {Torn, NoData}],
           mk' \in [Req -> Nat], got'[r] # Torn,
           \A q \in Req : q # r =>
               /\ call'[q] = call[q] /\ stage'[q] = stage[q]
               /\ res'[q] = res[q] /\ got'[q] = got[q] /\ mk'[q] = mk[q],
           stage[r] \in Owning =>
               /\ call'[r] = call[r] /\ stage'[r] \in Owning
               /\ stage'[r] = "publish" => stage[r] = "publish"
               /\ stage[r] \in {"write", "publish", "cleanup", "killed"} =>
                     stage'[r] \in {"write", "publish", "cleanup", "killed"},
           Renamed(r) => Renamed(r)',
           stage'[r] = "mkdir_next" => mk'[r] \in 1 .. Len(DirWanted(r)'),
           stage'[r] \in {"read_dir", "remove"} => call'[r].path # Root,
           Course(stage'[r], res'[r], call'[r].op)
    PROVE  Inv'
<1>1. TypeOK' /\ TempsAreFiles'
  BY DEF Inv, TypeOK, TempsAreFiles
<1>2. WholeFiles'
  BY DEF Inv, WholeFiles
<1>3. TempsOwned'
  BY DEF Inv, TempsOwned
<1>4. TempsWritten'
  BY DEF Inv, TempsWritten, TempsOwned
<1>5. TempsPlaced'
  <2> SUFFICES ASSUME NEW p \in DOMAIN fs, NEW q \in Req, IsTempOf(p, q)
               PROVE  \/ p = TempPath(q)' /\ stage'[q] \in {"write", "publish", "cleanup", "killed"}
                      \/ \E x \in Req : Renamed(x)'
    BY DEF TempsPlaced
  <2>1. CASE \E x \in Req : Renamed(x)
    BY <2>1 DEF Renamed
  <2>2. CASE p = TempPath(q) /\ stage[q] \in {"write", "publish", "cleanup", "killed"}
    BY <2>2 DEF TempPath, Owning
  <2> QED
    BY <2>1, <2>2 DEF Inv, TempsPlaced
<1>6. MkInRange'
  BY DEF Inv, MkInRange, DirWanted, Target
<1>7. RootSpared'
  BY DEF Inv, RootSpared
<1>8. OnCourse'
  BY DEF Inv, OnCourse
<1> QED
  BY <1>1, <1>2, <1>3, <1>4, <1>5, <1>6, <1>7, <1>8 DEF Inv

\* The first os.Stat of a call, accepted or refused.
LEMMA AdmitInv ==
    ASSUME Inv, NEW r \in Req, NEW c \in Calls, NEW accepted \in BOOLEAN,
           NEW next \in Waiting \ {"write", "publish", "cleanup", "info", "mkdir_next"},
           next \in {"read_dir", "remove"} /\ accepted => c.path # Root,
           next \in {"stat_to", "move"} => c.op \in {"rename", "rename_dir"},
           next = "mkdir_all" => c.op \in {"create", "mkdir"},
           Admit(r, c, accepted, next)
    PROVE  Inv'
<1>1. /\ stage[r] = "idle" /\ call' = [call EXCEPT ![r] = c]
      /\ UNCHANGED <<fs, got, mk>>
      /\ \/ accepted /\ stage' = [stage EXCEPT ![r] = next] /\ res' = res
         \/ /\ ~accepted /\ stage' = [stage EXCEPT ![r] = "done"]
            /\ res' = [res EXCEPT ![r] = "refused"]
  BY DEF Admit, Goto, Answer
<1>2. /\ call \in [Req -> Calls] /\ stage \in [Req -> Stages]
      /\ res \in [Req -> Results] /\ got \in [Req -> Content \cup {Torn, NoData}]
      /\ mk \in [Req -> Nat] /\ got[r] # Torn
  BY DEF Inv, TypeOK, WholeFiles
<1>3. /\ call' \in [Req -> Calls] /\ stage' \in [Req -> Stages]
      /\ res' \in [Req -> Results] /\ got' = got /\ mk' = mk /\ fs' = fs
      /\ stage'[r] \in {next, "done"} /\ call'[r] = c
      /\ stage'[r] = next /\ next # "done" => accepted
      /\ \A q \in Req : q # r => /\ call'[q] = call[q] /\ stage'[q] = stage[q]
                                 /\ res'[q] = res[q]
  BY <1>1, <1>2 DEF Stages, Results, Waiting
<1>4. stage[r] \notin Owning /\ ~Renamed(r)
  BY <1>1 DEF Owning, Renamed
<1>5. stage'[r] # "mkdir_next" /\ (stage'[r] \in {"read_dir", "remove"} => call'[r].path # Root)
  BY <1>3 DEF Waiting
<1>6. Course(stage'[r], res'[r], call'[r].op)
  BY <1>1, <1>2, <1>3 DEF Course, Inv, OnCourse
<1> QED
  BY <1>2, <1>3, <1>4, <1>5, <1>6, SameTree

\* The first step of a request, whatever it asks for.
LEMMA ArriveInv ==
    ASSUME Inv, NEW r \in Req, Arrive(r)
    PROVE  Inv'
<1>1. PICK p \in Paths :
         \/ Read(r, p) \/ Save(r, p) \/ Create(r, p) \/ Delete(r, p)
         \/ Mkdir(r, p) \/ DeleteDir(r, p)
         \/ \E q \in Paths : Rename(r, p, q) \/ RenameDir(r, p, q)
  BY DEF Arrive
<1>2. \A op \in Ops, q \in Paths : Call(op, p, q) \in Calls /\ Call(op, p, q).path = p
                                      /\ Call(op, p, q).op = op
  BY DEF Call, Calls
<1> DEFINE firsts == {"read_file", "create_temp", "mkdir_all", "remove", "stat_to", "read_dir"}
<1>3. firsts \subseteq Waiting \ {"write", "publish", "cleanup", "info", "mkdir_next"}
  BY DEF Waiting
<1>4. p \in Paths /\ {"read", "save", "create", "delete", "rename", "mkdir", "delete_dir",
                      "rename_dir"} = Ops
  BY DEF Ops
<1> HIDE DEF firsts
<1>5. ASSUME NEW op \in Ops, NEW q \in Paths, NEW accepted \in BOOLEAN, NEW next \in firsts,
             next \in {"read_dir", "remove"} /\ accepted => p # Root,
             next = "stat_to" => op \in {"rename", "rename_dir"},
             next = "mkdir_all" => op \in {"create", "mkdir"},
             Admit(r, Call(op, p, q), accepted, next)
      PROVE  Inv'
  <2>1. /\ Call(op, p, q) \in Calls /\ Call(op, p, q).path = p /\ Call(op, p, q).op = op
        /\ next \in Waiting \ {"write", "publish", "cleanup", "info", "mkdir_next"}
        /\ next # "move"
    BY <1>2, <1>3, <1>5 DEF firsts
  <2> QED
    BY <1>5, <2>1, AdmitInv
<1> USE DEF firsts
<1>6. CASE Read(r, p)
  BY <1>4, <1>5, <1>6 DEF Read
<1>7. CASE Save(r, p)
  BY <1>4, <1>5, <1>7 DEF Save
<1>8. CASE Create(r, p)
  BY <1>4, <1>5, <1>8 DEF Create
<1>9. CASE Delete(r, p)
  BY <1>4, <1>5, <1>9 DEF Delete, IsMarkdown
<1>10. CASE Mkdir(r, p)
  BY <1>4, <1>5, <1>10 DEF Mkdir, Missing
<1>11. CASE DeleteDir(r, p)
  BY <1>4, <1>5, <1>11 DEF DeleteDir
<1>12. ASSUME NEW q \in Paths, Rename(r, p, q) PROVE Inv'
  BY <1>4, <1>5, <1>12 DEF Rename
<1>13. ASSUME NEW q \in Paths, RenameDir(r, p, q) PROVE Inv'
  BY <1>4, <1>5, <1>13 DEF RenameDir
<1> QED
  BY <1>1, <1>6, <1>7, <1>8, <1>9, <1>10, <1>11, <1>12, <1>13

\* Goto and Answer, as the next steps use them.
LEMMA TypesOf ==
    ASSUME Inv
    PROVE  /\ Tree(fs)
           /\ call \in [Req -> Calls] /\ stage \in [Req -> Stages]
           /\ res \in [Req -> Results] /\ got \in [Req -> Content \cup {Torn, NoData}]
           /\ mk \in [Req -> Nat] /\ \A r \in Req : got[r] # Torn
           /\ \A r \in Req : /\ call[r].path \in Paths \cup {Root}
                             /\ call[r].to \in Paths \cup {Root}
                             /\ Target(r) \in Paths \cup {Root}
  BY DEF Inv, TypeOK, WholeFiles, Calls, Target

\* os.ReadFile of Read: what it returns is whole, as its path is no temp file.
LEMMA ReadFileInv ==
    ASSUME Inv, NEW r \in Req, ReadFile(r)
    PROVE  Inv'
<1>1. /\ stage[r] = "read_file" /\ fs' = fs /\ call' = call /\ mk' = mk
      /\ stage' = [stage EXCEPT ![r] = "done"]
      /\ \E v \in {"ok", "failed"} : res' = [res EXCEPT ![r] = v]
      /\ \/ got' = got
         \/ /\ IsFile(fs, call[r].path)
            /\ got' = [got EXCEPT ![r] = fs[call[r].path].data]
  BY DEF ReadFile, Answer
<1>2. IsFile(fs, call[r].path) =>
         fs[call[r].path].data \in Content \cup {NoData}
  <2>1. ~IsTemp(call[r].path)
    BY TypesOf, NamedPath
  <2> QED
    BY <2>1, TypesOf DEF Inv, WholeFiles, IsFile, Tree, Node
<1>3. got' \in [Req -> Content \cup {Torn, NoData}] /\ got'[r] # Torn
      /\ \A q \in Req : q # r => got'[q] = got[q]
  <2>1. Torn \notin Content \cup {NoData}
    BY NamesAssumption DEF Content
  <2> QED
    BY <1>1, <1>2, <2>1, TypesOf
<1>4. /\ stage' \in [Req -> Stages] /\ res' \in [Req -> Results] /\ stage'[r] = "done"
      /\ \A q \in Req : q # r => stage'[q] = stage[q] /\ res'[q] = res[q]
  BY <1>1, TypesOf DEF Stages, Results
<1>5. stage[r] \notin Owning /\ ~Renamed(r) /\ Course(stage'[r], res'[r], call'[r].op)
  BY <1>1, <1>4 DEF Owning, Renamed, Course
<1> QED
  BY <1>1, <1>3, <1>4, <1>5, TypesOf, SameTree

\* A step that only moves request r to another stage, or answers it.
LEMMA StageInv ==
    ASSUME Inv, NEW r \in Req, NEW s \in Stages, NEW v \in Results,
           fs' = fs, call' = call, got' = got,
           stage' = [stage EXCEPT ![r] = s], res' = [res EXCEPT ![r] = v],
           mk' \in [Req -> Nat], \A q \in Req : q # r => mk'[q] = mk[q],
           stage[r] \in Owning =>
               /\ s \in Owning \ {"publish"}
               /\ stage[r] \in {"write", "publish", "cleanup", "killed"} =>
                     s \in {"write", "cleanup", "killed"},
           Renamed(r) => s \in {"info", "done", "killed"} /\ v # "refused",
           s = "mkdir_next" => mk'[r] \in 1 .. Len(DirWanted(r)),
           s \in {"read_dir", "remove"} => call[r].path # Root,
           Course(s, v, call[r].op)
    PROVE  Inv'
<1>1. /\ stage' \in [Req -> Stages] /\ res' \in [Req -> Results]
      /\ stage'[r] = s /\ res'[r] = v
      /\ \A q \in Req : q # r => stage'[q] = stage[q] /\ res'[q] = res[q]
  BY TypesOf
<1>2. Renamed(r) => Renamed(r)'
  BY <1>1 DEF Renamed
<1>3. DirWanted(r)' = DirWanted(r)
  BY DEF DirWanted, Target
<1>4. /\ call' \in [Req -> Calls] /\ got' \in [Req -> Content \cup {Torn, NoData}]
      /\ got'[r] # Torn
  BY TypesOf
<1>5. s \in Owning \ {"publish"} => s \in Owning /\ s # "publish"
  OBVIOUS
<1>6. Course(stage'[r], res'[r], call'[r].op)
  BY <1>1
<1> QED
  BY <1>1, <1>2, <1>3, <1>4, <1>5, <1>6, SameTree

\* The second os.Stat of Rename and RenameDir.
LEMMA StatToInv ==
    ASSUME Inv, NEW r \in Req, StatTo(r)
    PROVE  Inv'
<1>1. /\ stage[r] = "stat_to" /\ UNCHANGED <<fs, call, got, mk>>
      /\ \/ stage' = [stage EXCEPT ![r] = "mkdir_all"] /\ res' = res
         \/ stage' = [stage EXCEPT ![r] = "done"] /\ res' = [res EXCEPT ![r] = "refused"]
  BY DEF StatTo, Goto, Answer
<1>2. res = [res EXCEPT ![r] = res[r]] /\ res[r] \in Results
  BY TypesOf
<1>3. stage[r] \notin Owning /\ ~Renamed(r) /\ Course("mkdir_all", res[r], call[r].op)
  BY <1>1 DEF Owning, Renamed, Inv, OnCourse, Course
<1>4. /\ "mkdir_all" \in Stages /\ "done" \in Stages /\ "refused" \in Results
      /\ mk' \in [Req -> Nat] /\ \A q \in Req : q # r => mk'[q] = mk[q]
  BY <1>1, TypesOf DEF Stages, Waiting, Results
<1>5. CASE stage' = [stage EXCEPT ![r] = "mkdir_all"] /\ res' = res
  BY <1>1, <1>2, <1>3, <1>4, <1>5, StageInv DEF Course
<1>6. CASE stage' = [stage EXCEPT ![r] = "done"] /\ res' = [res EXCEPT ![r] = "refused"]
  BY <1>1, <1>3, <1>4, <1>6, StageInv DEF Course
<1> QED
  BY <1>1, <1>5, <1>6

\* What DirReady makes of request r.
LEMMA DirReadyStage ==
    ASSUME Inv, NEW r \in Req, stage[r] \in {"mkdir_all", "mkdir_next"}, DirReady(r)
    PROVE  \E s \in {"done", "create_temp", "move"}, v \in {"ok", res[r]} :
              /\ s \in Stages /\ v \in Results /\ Course(s, v, call[r].op)
              /\ stage' = [stage EXCEPT ![r] = s] /\ res' = [res EXCEPT ![r] = v]
<1>1. /\ {"done", "create_temp", "move"} \subseteq Stages /\ "ok" \in Results
      /\ res = [res EXCEPT ![r] = res[r]] /\ res[r] \in Results
  BY TypesOf DEF Results, Stages, Waiting
<1>2. /\ res[r] # "refused"
      /\ call[r].op \in {"create", "mkdir", "rename", "rename_dir"}
  BY DEF Inv, OnCourse, Course
<1>3. CASE call[r].op = "mkdir"
  <2>1. stage' = [stage EXCEPT ![r] = "done"] /\ res' = [res EXCEPT ![r] = "ok"]
    BY <1>3 DEF DirReady, Answer
  <2> QED
    BY <1>1, <2>1 DEF Course
<1>4. CASE call[r].op = "create"
  <2>1. stage' = [stage EXCEPT ![r] = "create_temp"] /\ res' = [res EXCEPT ![r] = res[r]]
    BY <1>1, <1>4 DEF DirReady, Goto
  <2> QED
    BY <1>1, <2>1 DEF Course
<1>5. CASE call[r].op \in {"rename", "rename_dir"}
  <2>1. stage' = [stage EXCEPT ![r] = "move"] /\ res' = [res EXCEPT ![r] = res[r]]
    BY <1>1, <1>5 DEF DirReady, Goto
  <2> QED
    BY <1>1, <1>2, <1>5, <2>1 DEF Course
<1> QED
  BY <1>2, <1>3, <1>4, <1>5

\* os.MkdirAll, up to its first os.Mkdir.
LEMMA MkdirAllInv ==
    ASSUME Inv, NEW r \in Req, MkdirAll(r)
    PROVE  Inv'
<1>1. stage[r] = "mkdir_all" /\ UNCHANGED <<fs, call, got>>
  BY DEF MkdirAll
<1>2. stage[r] \notin Owning /\ ~Renamed(r) /\ Course("mkdir_next", res[r], call[r].op)
  BY <1>1 DEF Owning, Renamed, Inv, OnCourse, Course
<1>3. res = [res EXCEPT ![r] = res[r]] /\ res[r] \in Results /\ "ok" \in Results
      /\ "failed" \in Results /\ mk \in [Req -> Nat]
      /\ {"done", "create_temp", "move", "mkdir_next"} \subseteq Stages
  BY TypesOf DEF Results, Stages, Waiting
<1>4. CASE DirReady(r) /\ UNCHANGED mk
  <2>1. PICK s \in {"done", "create_temp", "move"}, v \in {"ok", res[r]} :
            /\ s \in Stages /\ v \in Results /\ Course(s, v, call[r].op)
            /\ stage' = [stage EXCEPT ![r] = s] /\ res' = [res EXCEPT ![r] = v]
    BY <1>1, <1>4, DirReadyStage
  <2> QED
    BY <1>1, <1>2, <1>3, <1>4, <2>1, StageInv
<1>5. CASE Answer(r, "failed") /\ UNCHANGED mk
  BY <1>1, <1>2, <1>3, <1>5, StageInv DEF Answer, Course
<1>6. CASE /\ \E n \in 1 .. Len(DirWanted(r)) : mk' = [mk EXCEPT ![r] = n]
           /\ Goto(r, "mkdir_next")
  <2>1. Len(DirWanted(r)) \in Nat
    BY TypesOf, NamedPath, ParentPath, PathLength DEF DirWanted, Front, Root, Path
  <2>2. mk' \in [Req -> Nat] /\ mk'[r] \in 1 .. Len(DirWanted(r))
        /\ \A q \in Req : q # r => mk'[q] = mk[q]
    BY <1>3, <1>6, <2>1
  <2>3. stage' = [stage EXCEPT ![r] = "mkdir_next"] /\ res' = [res EXCEPT ![r] = res[r]]
    BY <1>3, <1>6 DEF Goto
  <2> QED
    BY <1>1, <1>2, <1>3, <2>2, <2>3, StageInv
<1> QED
  BY <1>4, <1>5, <1>6 DEF MkdirAll

\* infoOf: the last os.Stat of a call.
LEMMA InfoInv ==
    ASSUME Inv, NEW r \in Req, Info(r)
    PROVE  Inv'
<1>1. /\ stage[r] = "info" /\ UNCHANGED <<fs, call, got, mk>>
      /\ stage' = [stage EXCEPT ![r] = "done"]
  BY DEF Info, Answer
<1>2. PICK v \in {"ok", "failed"} : res' = [res EXCEPT ![r] = v]
  BY DEF Info, Answer
<1>3. /\ "done" \in Stages /\ v \in Results /\ v # "refused"
      /\ mk' \in [Req -> Nat] /\ \A q \in Req : q # r => mk'[q] = mk[q]
  BY <1>1, TypesOf DEF Stages, Results
<1>4. stage[r] \in Owning => "done" \in Owning \ {"publish"}
  BY DEF Owning
<1> QED
  BY <1>1, <1>2, <1>3, <1>4, StageInv DEF Course

\* A write that fails leaves the temp file to its deferred Remove.
LEMMA FlushFailsInv ==
    ASSUME Inv, NEW r \in Req, FlushFails(r)
    PROVE  Inv'
<1>1. /\ stage[r] = "write" /\ UNCHANGED <<fs, call, got, mk>>
      /\ stage' = [stage EXCEPT ![r] = "cleanup"] /\ res' = [res EXCEPT ![r] = "failed"]
  BY DEF FlushFails, Abort
<1>2. /\ "cleanup" \in Stages /\ "failed" \in Results /\ "cleanup" \in Owning \ {"publish"}
      /\ ~Renamed(r)
      /\ mk' \in [Req -> Nat] /\ \A q \in Req : q # r => mk'[q] = mk[q]
  BY <1>1, TypesOf DEF Stages, Waiting, Results, Owning, Renamed
<1> QED
  BY <1>1, <1>2, StageInv DEF Course

\* os.ReadDir of DeleteDir.
LEMMA ReadDirInv ==
    ASSUME Inv, NEW r \in Req, ReadDir(r)
    PROVE  Inv'
<1>1. /\ stage[r] = "read_dir" /\ UNCHANGED <<fs, call, got, mk>>
      /\ \/ stage' = [stage EXCEPT ![r] = "remove"] /\ res' = res
         \/ \E v \in {"refused", "failed"} :
               stage' = [stage EXCEPT ![r] = "done"] /\ res' = [res EXCEPT ![r] = v]
  BY DEF ReadDir, Answer, Goto
<1>2. stage[r] \notin Owning /\ ~Renamed(r) /\ call[r].path # Root
  BY <1>1 DEF Owning, Renamed, Inv, RootSpared
<1>3. /\ {"remove", "done"} \subseteq Stages /\ {"refused", "failed"} \subseteq Results
      /\ res = [res EXCEPT ![r] = res[r]] /\ res[r] \in Results
      /\ mk' \in [Req -> Nat] /\ \A q \in Req : q # r => mk'[q] = mk[q]
  BY <1>1, TypesOf DEF Stages, Waiting, Results
<1>4. CASE stage' = [stage EXCEPT ![r] = "remove"] /\ res' = res
  BY <1>1, <1>2, <1>3, <1>4, StageInv DEF Course
<1>5. ASSUME NEW v \in {"refused", "failed"},
             stage' = [stage EXCEPT ![r] = "done"], res' = [res EXCEPT ![r] = v]
      PROVE  Inv'
  BY <1>1, <1>2, <1>3, <1>5, StageInv DEF Course
<1> QED
  BY <1>1, <1>4, <1>5

\* Some of the requests in flight are stopped where they are.
KillsSome ==
    /\ UNCHANGED <<fs, call, res, got, mk>>
    /\ \E S : stage' = [r \in Req |-> IF r \in S THEN "killed" ELSE stage[r]]
    /\ \A r \in Req : stage'[r] # stage[r] => InFlight(r)

LEMMA KillInv ==
    ASSUME Inv, KillsSome
    PROVE  Inv'
<1>1. UNCHANGED <<fs, call, res, got, mk>>
  BY DEF KillsSome
<1>2. /\ stage' \in [Req -> Stages]
      /\ \A r \in Req : stage'[r] = stage[r] \/ (stage'[r] = "killed" /\ stage[r] \in Waiting)
  BY TypesOf DEF KillsSome, Stages, InFlight
<1>3. TypeOK' /\ WholeFiles' /\ TempsAreFiles'
  BY <1>1, <1>2 DEF Inv, TypeOK, WholeFiles, TempsAreFiles
<1>4. TempsOwned' /\ TempsWritten' /\ MkInRange' /\ RootSpared'
  BY <1>1, <1>2 DEF Inv, TempsOwned, TempsWritten, MkInRange, RootSpared, Owning,
                    DirWanted, Target
<1>5. \A q \in Req : Renamed(q) => Renamed(q)'
  BY <1>1, <1>2 DEF Renamed
<1>6. TempsPlaced'
  BY <1>1, <1>2, <1>5 DEF Inv, TempsPlaced, TempPath
<1>7. OnCourse'
  BY <1>1, <1>2 DEF Inv, OnCourse, Course
<1> QED
  BY <1>3, <1>4, <1>6, <1>7 DEF Inv

LEMMA CrashKills == Crash => KillsSome
<1> SUFFICES ASSUME Crash PROVE KillsSome
  OBVIOUS
<1>1. PICK S \in SUBSET {r \in Req : InFlight(r)} : Killed(S)
  BY DEF Crash
<1>2. stage' = [r \in Req |-> IF r \in S THEN "killed" ELSE stage[r]]
  BY <1>1 DEF Killed
<1>3. \A r \in Req : stage'[r] # stage[r] => InFlight(r)
  BY <1>1, <1>2
<1> QED
  BY <1>2, <1>3 DEF KillsSome, Crash

-----------------------------------------------------------------------------
(* Steps that change the tree.  After a step of request r to stage s, an    *)
(* entry p is one of these.                                                *)

\* The stages of a request whose temp file must be where it was made.
Housed == {"write", "publish", "cleanup", "killed"}

\* Not a temp file, and whole.
Plain(p) == ~IsTemp(p) /\ fs'[p].data # Torn

\* As it was, and a temp file of r only where r still answers for it.
Kept(p, r, s) ==
    /\ p \in DOMAIN fs /\ fs'[p] = fs[p]
    /\ IsTempOf(p, r) => /\ s = "publish" => stage[r] = "publish"
                         /\ p = TempPath(r) => s \in Housed

\* Moved with a directory, under the name it had.
Carried(p, s) ==
    /\ \E x \in DOMAIN fs :
          /\ fs'[p] = fs[x]
          /\ p = x \/ (p # Root /\ x # Root /\ Last(p) = Last(x))
    /\ s # "publish"
    /\ \E q \in Req : Renamed(q)'

\* The temp file of r, just made or written.
Written(p, r, s) ==
    /\ IsTempOf(p, r) /\ ~IsDir(fs', p) /\ s \in Owning
    /\ s = "publish" => fs'[p].data # Torn
    /\ (p = TempPath(r) /\ s \in Housed) \/ \E q \in Req : Renamed(q)'

\* A step of request r whose entries are all of these kinds keeps the invariant.
LEMMA TreeStep ==
    ASSUME Inv, NEW r \in Req, NEW s \in Stages, NEW v \in Results,
           Tree(fs'), call' = call, got' = got,
           stage' = [stage EXCEPT ![r] = s], res' = [res EXCEPT ![r] = v],
           mk' \in [Req -> Nat], \A q \in Req : q # r => mk'[q] = mk[q],
           stage[r] \in Owning => s \in Owning,
           Renamed(r) => Renamed(r)',
           s = "mkdir_next" => mk'[r] \in 1 .. Len(DirWanted(r)),
           s \in {"read_dir", "remove"} => call[r].path # Root,
           Course(s, v, call[r].op),
           \A p \in DOMAIN fs' :
              Plain(p) \/ Kept(p, r, s) \/ Carried(p, s) \/ Written(p, r, s)
    PROVE  Inv'
<1>1. /\ stage' \in [Req -> Stages] /\ res' \in [Req -> Results]
      /\ stage'[r] = s /\ res'[r] = v
      /\ \A q \in Req : q # r => stage'[q] = stage[q] /\ res'[q] = res[q]
  BY TypesOf
<1>2. \A q \in Req : Renamed(q) => Renamed(q)'
  BY <1>1 DEF Renamed
<1>3. /\ \A q \in Req : TempPath(q)' = TempPath(q)
      /\ \A q \in Req : DirWanted(q)' = DirWanted(q)
  BY DEF TempPath, DirWanted, Target
<1>4. TypeOK'
  BY <1>1, TypesOf DEF TypeOK
<1>5. WholeFiles'
  BY TypesOf DEF Inv, WholeFiles, Plain, Kept, Carried, Written, IsTempOf, IsTemp
<1>6. TempsAreFiles'
  BY DEF Inv, TempsAreFiles, Plain, Kept, Carried, Written, IsTempOf, IsTemp, IsDir
<1>7. TempsOwned'
  <2> SUFFICES ASSUME NEW p \in DOMAIN fs', NEW q \in Req, IsTempOf(p, q)
               PROVE  stage'[q] \in Owning
    BY DEF TempsOwned
  <2>1. stage[q] \in Owning => stage'[q] \in Owning
    BY <1>1
  <2>2. ~Plain(p)
    BY DEF Plain, IsTempOf, IsTemp
  <2>3. Kept(p, r, s) \/ Carried(p, s) => stage[q] \in Owning
    BY DEF Inv, TempsOwned, Kept, Carried, IsTempOf
  <2>4. Written(p, r, s) => q = r /\ s \in Owning
    BY DEF Written, IsTempOf
  <2> QED
    BY <1>1, <2>1, <2>2, <2>3, <2>4
<1>8. TempsWritten'
  <2> SUFFICES ASSUME NEW p \in DOMAIN fs', NEW q \in Req, IsTempOf(p, q), stage'[q] = "publish"
               PROVE  fs'[p].data # Torn
    BY DEF TempsWritten
  <2>1. CASE q = r
    BY <1>1, <2>1 DEF Inv, TempsWritten, Plain, Kept, Carried, Written
  <2>2. CASE q # r
    BY <1>1, <2>2 DEF Inv, TempsWritten, Plain, Kept, Carried, Written, IsTempOf
  <2> QED
    BY <2>1, <2>2
<1>9. TempsPlaced'
  <2> SUFFICES ASSUME NEW p \in DOMAIN fs', NEW q \in Req, IsTempOf(p, q),
                      \A x \in Req : ~Renamed(x)'
               PROVE  p = TempPath(q) /\ stage'[q] \in Housed
    BY <1>3 DEF TempsPlaced, Housed
  <2>1. ~Plain(p) /\ ~Carried(p, s)
    BY DEF Plain, Carried, IsTempOf, IsTemp
  <2>2. CASE Written(p, r, s)
    BY <1>1, <2>2 DEF Written, IsTempOf
  <2>3. CASE Kept(p, r, s)
    <3>1. p = TempPath(q) /\ stage[q] \in Housed
      BY <1>2, <2>3 DEF Inv, TempsPlaced, Kept, Housed
    <3> QED
      BY <1>1, <2>3, <3>1 DEF Kept
  <2> QED
    BY <2>1, <2>2, <2>3
<1>10. MkInRange' /\ RootSpared' /\ OnCourse'
  BY <1>1, <1>3 DEF Inv, MkInRange, RootSpared, OnCourse
<1> QED
  BY <1>4, <1>5, <1>6, <1>7, <1>8, <1>9, <1>10 DEF Inv

\* The paths the code makes from those of a request.
LEMMA CallPaths ==
    ASSUME Inv, NEW r \in Req
    PROVE  /\ call[r].path \in Path /\ ~IsTemp(call[r].path)
           /\ call[r].to \in Path /\ ~IsTemp(call[r].to)
           /\ DirWanted(r) \in Path /\ Len(DirWanted(r)) \in Nat
           /\ \A n \in 0 .. Len(DirWanted(r)) : ~IsTemp(SubSeq(DirWanted(r), 1, n))
           /\ TempPath(r) \in Path /\ IsTempOf(TempPath(r), r) /\ IsTemp(TempPath(r))
           /\ Front(TempPath(r)) = Front(call[r].path)
<1>1. /\ call[r].path \in Paths \cup {Root} /\ call[r].to \in Paths \cup {Root}
      /\ Target(r) \in Paths \cup {Root}
  BY TypesOf
<1>2. ASSUME NEW p \in Paths \cup {Root}
      PROVE  /\ p \in Path /\ Front(p) \in Path /\ Len(Front(p)) \in Nat
             /\ \A n \in 0 .. Len(Front(p)) : ~IsTemp(SubSeq(Front(p), 1, n))
  <2>1. CASE p = Root
    <3>1. Front(p) = Root /\ Len(Root) = 0 /\ SubSeq(Root, 1, 0) = Root /\ Root \in Path
      BY <2>1 DEF Front, Root, Path
    <3>2. \A n \in 0 .. Len(Front(p)) : SubSeq(Front(p), 1, n) = Root
      BY <3>1
    <3> QED
      BY <2>1, <3>1, <3>2 DEF IsTemp
  <2>2. CASE p # Root
    <3>1. /\ p \in Path /\ Front(p) \in Path /\ Len(p) \in Nat \ {0}
          /\ Len(Front(p)) = Len(p) - 1
          /\ \A n \in 0 .. Len(p) - 1 : SubSeq(p, 1, n) = SubSeq(Front(p), 1, n)
      BY <2>2, NamedPath, ParentPath DEF Root
    <3>2. ASSUME NEW n \in 0 .. Len(Front(p)) PROVE ~IsTemp(SubSeq(Front(p), 1, n))
      <4>1. n \in 0 .. Len(p) - 1 /\ n \in 0 .. Len(p)
        BY <3>1
      <4>2. ~IsTemp(SubSeq(p, 1, n))
        BY <4>1, NamedPath
      <4> QED
        BY <3>1, <4>1, <4>2
    <3>3. Len(Front(p)) \in Nat
      BY <3>1
    <3> QED
      BY <3>1, <3>2, <3>3
  <2> QED
    BY <2>1, <2>2
<1>3. /\ DirWanted(r) \in Path /\ Len(DirWanted(r)) \in Nat
      /\ \A n \in 0 .. Len(DirWanted(r)) : ~IsTemp(SubSeq(DirWanted(r), 1, n))
  BY <1>1, <1>2, NamedPath, PathLength DEF DirWanted
<1>4. ASSUME NEW d \in Path
      PROVE  /\ Append(d, r) \in Path /\ Append(d, r) # <<>>
             /\ Last(Append(d, r)) = r /\ Front(Append(d, r)) = d
  BY DEF Path, Last, Front
<1>5. Front(call[r].path) \in Path
  BY <1>1, <1>2
<1>6. /\ TempPath(r) \in Path /\ IsTempOf(TempPath(r), r) /\ IsTemp(TempPath(r))
      /\ Front(TempPath(r)) = Front(call[r].path)
  BY <1>4, <1>5 DEF TempPath, IsTempOf, IsTemp, Root
<1> QED
  BY <1>1, <1>3, <1>6, NamedPath

\* os.CreateTemp: the one temp file of the request.
LEMMA CreateTempInv ==
    ASSUME Inv, NEW r \in Req, CreateTemp(r)
    PROVE  Inv'
<1>1. stage[r] = "create_temp" /\ UNCHANGED <<call, got, mk>>
  BY DEF CreateTemp
<1>2. /\ {"write", "done"} \subseteq Stages /\ "failed" \in Results /\ res[r] \in Results
      /\ res = [res EXCEPT ![r] = res[r]] /\ stage[r] \notin Owning /\ ~Renamed(r)
      /\ mk' \in [Req -> Nat] /\ \A q \in Req : q # r => mk'[q] = mk[q]
  BY <1>1, TypesOf DEF Stages, Waiting, Results, Owning, Renamed
<1>3. CASE IsDir(fs, Front(call[r].path))
  <2> DEFINE t == TempPath(r)
  <2>1. /\ fs' = Put(fs, t, FileNode(Torn))
        /\ stage' = [stage EXCEPT ![r] = "write"] /\ res' = [res EXCEPT ![r] = res[r]]
    BY <1>2, <1>3 DEF CreateTemp, Goto
  <2>2. \A p \in DOMAIN fs : ~IsTempOf(p, r)
    BY <1>2 DEF Inv, TempsOwned
  <2>3. t \in Path /\ IsTempOf(t, r) /\ t \notin DOMAIN fs /\ IsDir(fs, Front(t))
    BY <1>3, <2>2, CallPaths
  <2>4. FileNode(Torn) \in Node
    BY DEF FileNode, Node
  <2>5. Tree(fs')
    BY <2>1, <2>3, <2>4, PutTree, TypesOf
  <2>6. ASSUME NEW p \in DOMAIN fs'
        PROVE  Kept(p, r, "write") \/ Written(p, r, "write")
    <3>1. p \in DOMAIN fs => fs'[p] = fs[p] /\ ~IsTempOf(p, r)
      BY <2>1, <2>2, <2>3 DEF Put
    <3>2. p \notin DOMAIN fs => p = t /\ fs'[p] = FileNode(Torn)
      BY <2>1 DEF Put
    <3>3. p \notin DOMAIN fs => ~IsDir(fs', p)
      BY <3>2 DEF IsDir, FileNode
    <3> QED
      BY <2>3, <3>1, <3>2, <3>3 DEF Kept, Written, Owning, Housed
  <2> QED
    BY <1>1, <1>2, <2>1, <2>5, <2>6, TreeStep DEF Owning, Course
<1>4. CASE ~IsDir(fs, Front(call[r].path))
  BY <1>1, <1>2, <1>4, StageInv DEF CreateTemp, Answer, Course
<1> QED
  BY <1>3, <1>4

\* The write and Sync of the temp file, wherever it is now.
LEMMA FlushInv ==
    ASSUME Inv, NEW r \in Req, Flush(r)
    PROVE  Inv'
<1>1. /\ stage[r] = "write" /\ UNCHANGED <<call, got, mk>>
      /\ fs' = [p \in DOMAIN fs |-> IF IsTempOf(p, r) THEN FileNode(r) ELSE fs[p]]
      /\ stage' = [stage EXCEPT ![r] = "publish"] /\ res' = res
  BY DEF Flush, Goto, IsTempOf
<1>2. /\ "publish" \in Stages /\ "publish" \in Owning /\ res[r] \in Results
      /\ res = [res EXCEPT ![r] = res[r]] /\ ~Renamed(r)
      /\ mk' \in [Req -> Nat] /\ \A q \in Req : q # r => mk'[q] = mk[q]
  BY <1>1, TypesOf DEF Stages, Waiting, Owning, Renamed
<1>3. r \in Content /\ r # Torn /\ FileNode(r).data = r /\ FileNode(r).kind = "file"
  BY NamesAssumption DEF Content, FileNode
<1>4. Tree(fs')
  <2> DEFINE F == {p \in DOMAIN fs : IsTempOf(p, r)}
  <2>1. fs' = [p \in DOMAIN fs |-> IF p \in F THEN FileNode(r) ELSE fs[p]]
    BY <1>1
  <2>2. \A p \in DOMAIN fs : p \in F => ~IsDir(fs, p)
    BY DEF Inv, TempsAreFiles, IsTempOf, IsTemp
  <2> HIDE DEF F
  <2> QED
    <3>1. Tree(fs)
      BY TypesOf
    <3>2. Tree([p \in DOMAIN fs |-> IF p \in F THEN FileNode(r) ELSE fs[p]])
      BY <1>3, <2>2, <3>1, RewriteTree
    <3> QED
      BY <2>1, <3>2
<1>5. ASSUME NEW p \in DOMAIN fs'
      PROVE  Kept(p, r, "publish") \/ Written(p, r, "publish")
  <2>1. CASE IsTempOf(p, r)
    <3>1. p \in DOMAIN fs /\ fs'[p] = FileNode(r) /\ ~IsDir(fs', p) /\ fs'[p].data # Torn
      BY <1>1, <1>3, <2>1 DEF IsDir
    <3>2. p = TempPath(r) \/ \E q \in Req : Renamed(q) /\ q # r
      BY <1>2, <2>1, <3>1 DEF Inv, TempsPlaced
    <3>3. \A q \in Req : Renamed(q) /\ q # r => Renamed(q)'
      BY <1>1, TypesOf DEF Renamed
    <3> QED
      BY <1>2, <2>1, <3>1, <3>2, <3>3 DEF Written, Housed
  <2>2. CASE ~IsTempOf(p, r)
    BY <1>1, <2>2 DEF Kept
  <2> QED
    BY <2>1, <2>2
<1> QED
  BY <1>1, <1>2, <1>4, <1>5, TreeStep DEF Course

\* One os.Mkdir of os.MkdirAll.
LEMMA MkdirNextInv ==
    ASSUME Inv, NEW r \in Req, MkdirNext(r)
    PROVE  Inv'
<1> DEFINE d == DirWanted(r)
           q == SubSeq(d, 1, mk[r])
<1>1. stage[r] = "mkdir_next" /\ UNCHANGED <<call, got>>
  BY DEF MkdirNext
<1>2. /\ {"done", "create_temp", "move", "mkdir_next"} \subseteq Stages
      /\ {"ok", "failed"} \subseteq Results /\ res[r] \in Results
      /\ res = [res EXCEPT ![r] = res[r]] /\ stage = [stage EXCEPT ![r] = stage[r]]
      /\ stage[r] \notin Owning /\ ~Renamed(r) /\ mk \in [Req -> Nat]
      /\ Course("mkdir_next", res[r], call[r].op)
  BY <1>1, TypesOf DEF Stages, Waiting, Results, Owning, Renamed, Inv, OnCourse, Course
<1>3. /\ d \in Path /\ Len(d) \in Nat /\ mk[r] \in 1 .. Len(d)
      /\ q \in Path /\ ~IsTemp(q) /\ Len(q) = mk[r] /\ q # Root
  <2>1. d \in Path /\ Len(d) \in Nat /\ mk[r] \in 1 .. Len(d)
    BY <1>1, CallPaths DEF Inv, MkInRange
  <2>2. mk[r] \in 0 .. Len(d)
    BY <2>1
  <2>3. q \in Path /\ Len(q) = mk[r] /\ ~IsTemp(q)
    BY <2>1, <2>2, AncestorPath, CallPaths
  <2> QED
    BY <2>1, <2>3 DEF Root
<1>4. CASE Answer(r, "failed") /\ UNCHANGED <<fs, mk>>
  BY <1>1, <1>2, <1>4, StageInv DEF Answer, Course
<1>5. CASE /\ IsDir(fs, q) \/ (q \notin DOMAIN fs /\ IsDir(fs, Front(q)))
           /\ fs' = IF IsDir(fs, q) THEN fs ELSE Put(fs, q, DirNode)
           /\ IF mk[r] = Len(d)
              THEN DirReady(r) /\ UNCHANGED mk
              ELSE mk' = [mk EXCEPT ![r] = @ + 1] /\ UNCHANGED <<stage, res>>
  <2>1. DirNode \in Node /\ DirNode.data = NoData /\ NoData # Torn
    BY NamesAssumption DEF DirNode, Node
  <2>2. Tree(fs')
    BY <1>3, <1>5, <2>1, PutTree, TypesOf
  <2>3. ASSUME NEW p \in DOMAIN fs', NEW s \in {"done", "create_temp", "move", "mkdir_next"}
        PROVE  Plain(p) \/ Kept(p, r, s)
    <3>1. \A x \in DOMAIN fs : ~IsTempOf(x, r)
      BY <1>2 DEF Inv, TempsOwned
    <3>2. (p \in DOMAIN fs /\ fs'[p] = fs[p]) \/ (p = q /\ fs'[p] = DirNode)
      BY <1>5 DEF Put
    <3> QED
      BY <1>3, <2>1, <3>1, <3>2 DEF Plain, Kept
  <2>4. CASE mk[r] = Len(d) /\ DirReady(r) /\ UNCHANGED mk
    <3>1. PICK s \in {"done", "create_temp", "move"}, v \in {"ok", res[r]} :
              /\ s \in Stages /\ v \in Results /\ Course(s, v, call[r].op)
              /\ stage' = [stage EXCEPT ![r] = s] /\ res' = [res EXCEPT ![r] = v]
      BY <1>1, <2>4, DirReadyStage
    <3>2. mk' \in [Req -> Nat] /\ \A x \in Req : x # r => mk'[x] = mk[x]
      BY <1>2, <2>4
    <3>3. \A p \in DOMAIN fs' : Plain(p) \/ Kept(p, r, s)
      BY <2>3, <3>1
    <3> QED
      BY <1>1, <1>2, <2>2, <3>1, <3>2, <3>3, TreeStep
  <2>5. CASE /\ mk[r] # Len(d) /\ mk' = [mk EXCEPT ![r] = @ + 1]
             /\ UNCHANGED <<stage, res>>
    <3>1. /\ mk' \in [Req -> Nat] /\ mk'[r] \in 1 .. Len(d)
          /\ \A x \in Req : x # r => mk'[x] = mk[x]
      BY <1>2, <1>3, <2>5
    <3>2. /\ stage' = [stage EXCEPT ![r] = "mkdir_next"]
          /\ res' = [res EXCEPT ![r] = res[r]]
      BY <1>1, <1>2, <2>5
    <3>3. \A p \in DOMAIN fs' : Plain(p) \/ Kept(p, r, "mkdir_next")
      BY <2>3
    <3> QED
      BY <1>1, <1>2, <2>2, <3>1, <3>2, <3>3, TreeStep
  <2> QED
    BY <1>5, <2>4, <2>5
<1> QED
  BY <1>4, <1>5 DEF MkdirNext

\* os.Rename of the temp file: only that entry moves, and it is whole.
LEMMA PublishInv ==
    ASSUME Inv, NEW r \in Req, Publish(r)
    PROVE  Inv'
<1> DEFINE t == TempPath(r)
           to == call[r].path
<1>1. stage[r] = "publish" /\ UNCHANGED <<call, got, mk>>
  BY DEF Publish
<1>2. /\ "cleanup" \in Stages /\ "cleanup" \in Owning /\ "failed" \in Results
      /\ "cleanup" \in Owning \ {"publish"}
      /\ res[r] \in Results /\ res = [res EXCEPT ![r] = res[r]] /\ ~Renamed(r)
      /\ mk' \in [Req -> Nat] /\ \A q \in Req : q # r => mk'[q] = mk[q]
  BY <1>1, TypesOf DEF Stages, Waiting, Owning, Renamed, Results
<1>3. CASE Renamable(fs, t, to)
  <2>1. /\ fs' = MoveTree(fs, t, to)
        /\ stage' = [stage EXCEPT ![r] = "cleanup"] /\ res' = [res EXCEPT ![r] = res[r]]
    BY <1>2, <1>3 DEF Publish, Goto
  <2>2. /\ t \in Path /\ to \in Path /\ IsTempOf(t, r) /\ ~IsTemp(to) /\ IsTemp(t)
        /\ t \in DOMAIN fs /\ Tree(fs)
    BY <1>3, CallPaths, TypesOf DEF Renamable
  <2>3. fs[t].data # Torn /\ ~IsDir(fs, t)
    BY <1>1, <2>2 DEF Inv, TempsWritten, TempsAreFiles
  <2>4. Tree(fs')
    BY <1>3, <2>1, <2>2, MoveTreeTree
  <2>5. ASSUME NEW p \in DOMAIN fs'
        PROVE  Plain(p) \/ Kept(p, r, "cleanup")
    <3>1. \/ p \in DOMAIN fs /\ fs'[p] = fs[p]
          \/ \E x \in DOMAIN fs : /\ IsPrefix(t, x) /\ p = Rebase(x, t, to)
                                  /\ fs'[p] = fs[x]
      BY <1>3, <2>1, <2>2, MovedEntries
    <3>2. CASE p \in DOMAIN fs /\ fs'[p] = fs[p]
      BY <3>2 DEF Kept, Housed
    <3>3. ASSUME NEW x \in DOMAIN fs, IsPrefix(t, x), p = Rebase(x, t, to), fs'[p] = fs[x]
          PROVE  Plain(p)
      <4>1. x = t
        BY <2>2, <2>3, <3>3, AncestorIsDir
      <4>2. p = to
        BY <2>2, <3>3, <4>1, RebaseStrict
      <4> QED
        BY <2>2, <2>3, <3>3, <4>1, <4>2 DEF Plain
    <3> QED
      BY <3>1, <3>2, <3>3
  <2> QED
    BY <1>1, <1>2, <2>1, <2>4, <2>5, TreeStep DEF Course
<1>4. CASE ~Renamable(fs, t, to)
  <2>1. /\ fs' = fs /\ stage' = [stage EXCEPT ![r] = "cleanup"]
        /\ res' = [res EXCEPT ![r] = "failed"]
    BY <1>4 DEF Publish, Abort
  <2> QED
    BY <1>1, <1>2, <2>1, StageInv DEF Course
<1> QED
  BY <1>3, <1>4

\* The deferred os.Remove of the temp file.
LEMMA CleanupInv ==
    ASSUME Inv, NEW r \in Req, Cleanup(r)
    PROVE  Inv'
<1> DEFINE t == TempPath(r)
           s == IF res[r] = "none" THEN "info" ELSE "done"
<1>1. /\ stage[r] = "cleanup" /\ UNCHANGED <<call, got, mk>>
      /\ fs' = Drop(fs, t)
      /\ stage' = [stage EXCEPT ![r] = s] /\ res' = res
  BY DEF Cleanup, Goto
<1>2. /\ s \in Stages /\ s \in Owning /\ s \notin {"publish", "mkdir_next", "read_dir", "remove"}
      /\ res[r] \in Results /\ res' = [res EXCEPT ![r] = res[r]] /\ ~Renamed(r)
      /\ mk' \in [Req -> Nat] /\ \A q \in Req : q # r => mk'[q] = mk[q]
  BY <1>1, TypesOf DEF Stages, Waiting, Owning, Renamed, Results
<1>3. Tree(fs) /\ t \in Path /\ IsTempOf(t, r) /\ IsTemp(t) /\ t # Root
  BY CallPaths, TypesOf DEF IsTemp
<1>4. Tree(fs')
  <2>1. ~IsDir(fs, t)
    BY <1>3 DEF Inv, TempsAreFiles, IsDir
  <2> QED
    BY <1>1, <1>3, <2>1, FileIsLeaf, DropTree
<1>5. \A p \in DOMAIN fs' : Kept(p, r, s)
  BY <1>1, <1>2 DEF Drop, Kept
<1> QED
  BY <1>1, <1>2, <1>4, <1>5, TreeStep DEF Course

\* os.Remove of Delete and DeleteDir.
LEMMA UnlinkInv ==
    ASSUME Inv, NEW r \in Req, Unlink(r)
    PROVE  Inv'
<1> DEFINE p == call[r].path
<1>1. /\ stage[r] = "remove" /\ UNCHANGED <<call, got, mk>>
      /\ stage' = [stage EXCEPT ![r] = "done"]
      /\ \/ /\ Removable(fs, p) /\ fs' = Drop(fs, p)
            /\ res' = [res EXCEPT ![r] = "ok"]
         \/ fs' = fs /\ res' = [res EXCEPT ![r] = "failed"]
  BY DEF Unlink, Answer
<1>2. /\ "done" \in Stages /\ {"ok", "failed"} \subseteq Results
      /\ stage[r] \notin Owning /\ ~Renamed(r)
      /\ mk' \in [Req -> Nat] /\ \A q \in Req : q # r => mk'[q] = mk[q]
  BY <1>1, TypesOf DEF Stages, Results, Owning, Renamed
<1>3. CASE fs' = fs /\ res' = [res EXCEPT ![r] = "failed"]
  BY <1>1, <1>2, <1>3, StageInv DEF Course
<1>4. CASE Removable(fs, p) /\ fs' = Drop(fs, p) /\ res' = [res EXCEPT ![r] = "ok"]
  <2>1. p \in Path /\ p # Root
    BY <1>1, CallPaths DEF Inv, RootSpared
  <2>2. Tree(fs')
    BY <1>4, <2>1, DropTree, TypesOf DEF Removable
  <2>3. \A x \in DOMAIN fs : ~IsTempOf(x, r)
    BY <1>2 DEF Inv, TempsOwned
  <2>4. \A x \in DOMAIN fs' : Kept(x, r, "done")
    BY <1>4, <2>3 DEF Drop, Kept
  <2> QED
    BY <1>1, <1>2, <1>4, <2>2, <2>4, TreeStep DEF Course
<1> QED
  BY <1>1, <1>3, <1>4

\* os.Rename of Rename and RenameDir, with everything below the directory.
LEMMA MoveInv ==
    ASSUME Inv, NEW r \in Req, Move(r)
    PROVE  Inv'
<1> DEFINE from == call[r].path
           to == call[r].to
<1>1. stage[r] = "move" /\ UNCHANGED <<call, got, mk>>
  BY DEF Move
<1>2. /\ {"info", "done"} \subseteq Stages /\ {"info", "done"} \subseteq Owning
      /\ {"ok", "failed"} \subseteq Results
      /\ res[r] \in Results /\ res = [res EXCEPT ![r] = res[r]]
      /\ stage[r] \notin Owning /\ ~Renamed(r)
      /\ mk' \in [Req -> Nat] /\ \A q \in Req : q # r => mk'[q] = mk[q]
  BY <1>1, TypesOf DEF Stages, Waiting, Owning, Renamed, Results
<1>3. CASE Renamable(fs, from, to)
  <2>1. fs' = MoveTree(fs, from, to)
    BY <1>3 DEF Move
  <2>2. PICK s \in {"info", "done"}, v \in {"ok", res[r]} :
            stage' = [stage EXCEPT ![r] = s] /\ res' = [res EXCEPT ![r] = v]
    <3>1. \/ stage' = [stage EXCEPT ![r] = "info"] /\ res' = [res EXCEPT ![r] = res[r]]
          \/ stage' = [stage EXCEPT ![r] = "done"] /\ res' = [res EXCEPT ![r] = "ok"]
      BY <1>2, <1>3 DEF Move, Goto, Answer
    <3> QED
      BY <3>1
  <2>3. Renamed(r)'
    <3>1. call[r].op \in {"rename", "rename_dir"} /\ res[r] # "refused"
      BY <1>1 DEF Inv, OnCourse, Course
    <3>2. call'[r] = call[r] /\ stage'[r] = s /\ res'[r] = v
      BY <1>1, <2>2, TypesOf
    <3> QED
      BY <3>1, <3>2 DEF Renamed
  <2>4. /\ from \in Path /\ to \in Path /\ ~IsTemp(from) /\ ~IsTemp(to)
        /\ from \in DOMAIN fs /\ Tree(fs)
    BY <1>3, CallPaths, TypesOf DEF Renamable
  <2>5. Tree(fs')
    BY <1>3, <2>1, <2>4, MoveTreeTree
  <2>6. ASSUME NEW p \in DOMAIN fs'
        PROVE  Plain(p) \/ Carried(p, s)
    <3>1. PICK x \in DOMAIN fs :
             /\ fs'[p] = fs[x]
             /\ \/ p = x
                \/ p = to /\ x = from
                \/ p # Root /\ x # Root /\ Last(p) = Last(x)
      BY <1>3, <2>1, <2>4, MovedNames
    <3>2. CASE p = to /\ x = from
      BY <2>4, <3>1, <3>2 DEF Inv, WholeFiles, Plain
    <3> QED
      BY <2>2, <2>3, <3>1, <3>2 DEF Carried
  <2>7. s \in Stages /\ v \in Results /\ s \in Owning
        /\ s \notin {"mkdir_next", "read_dir", "remove"}
    BY <1>2, <2>2
  <2> QED
    BY <1>1, <1>2, <2>2, <2>5, <2>6, <2>7, TreeStep DEF Course
<1>4. CASE ~Renamable(fs, from, to)
  <2>1. /\ fs' = fs /\ stage' = [stage EXCEPT ![r] = "done"]
        /\ res' = [res EXCEPT ![r] = "failed"]
    BY <1>4 DEF Move, Answer
  <2> QED
    BY <1>1, <1>2, <2>1, StageInv DEF Course
<1> QED
  BY <1>3, <1>4

-----------------------------------------------------------------------------
(* The theorems.                                                           *)

\* Every step keeps the invariant: one case for each system call.
LEMMA StepInv == Inv /\ [Next]_vars => Inv'
<1> SUFFICES ASSUME Inv, [Next]_vars PROVE Inv'
  OBVIOUS
<1>1. ASSUME NEW r \in Req, Arrive(r) PROVE Inv'
  BY <1>1, ArriveInv
<1>2. ASSUME NEW r \in Req, Continue(r) PROVE Inv'
  <2>1. CASE ReadFile(r) \/ StatTo(r) \/ MkdirAll(r) \/ Info(r)
    BY <2>1, ReadFileInv, StatToInv, MkdirAllInv, InfoInv
  <2>2. CASE FlushFails(r) \/ ReadDir(r)
    BY <2>2, FlushFailsInv, ReadDirInv
  <2>3. CASE MkdirNext(r) \/ CreateTemp(r) \/ Flush(r) \/ Publish(r)
    BY <2>3, MkdirNextInv, CreateTempInv, FlushInv, PublishInv
  <2>4. CASE Cleanup(r) \/ Move(r) \/ Unlink(r)
    BY <2>4, CleanupInv, MoveInv, UnlinkInv
  <2> QED
    BY <1>2, <2>1, <2>2, <2>3, <2>4 DEF Continue
<1>3. CASE Crash
  BY <1>3, CrashKills, KillInv
<1>4. CASE UNCHANGED vars
  BY <1>4 DEF vars, Inv, TypeOK, WholeFiles, TempsAreFiles, TempsOwned, TempsWritten,
              TempsPlaced, Renamed, TempPath, MkInRange, DirWanted, Target, RootSpared,
              OnCourse
<1> QED
  BY <1>1, <1>2, <1>3, <1>4 DEF Next, Quiet

\* The inductive invariant holds throughout.
THEOREM Invariance == Spec => []Inv
<1> QED
  BY InitInv, StepInv, PTL DEF Spec

\* Whatever requests run, and wherever they are killed, what is on disk stays
\* a tree with its root in place.
THEOREM TreeStaysTree == Spec => []TypeOK
<1>1. Inv => TypeOK
  BY DEF Inv
<1> QED
  BY <1>1, Invariance, PTL

\* No markdown file is ever partly written, and no read returns one that is.
THEOREM NoTornFile == Spec => []WholeFiles
<1>1. Inv => WholeFiles
  BY DEF Inv
<1> QED
  BY <1>1, Invariance, PTL

\* A temp file belongs to a request that still answers for it, or that was
\* killed, unless a rename may have moved its directory.
THEOREM LitterAccounted == Spec => []TempsAccounted
<1>1. Inv => TempsAccounted
  BY DEF Inv, TempsPlaced, TempsAccounted, IsTempOf
<1> QED
  BY <1>1, Invariance, PTL

=============================================================================

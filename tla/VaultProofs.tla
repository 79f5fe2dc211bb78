----------------------------- MODULE VaultProofs ----------------------------
(***************************************************************************)
(* The vault for every set of names, requests, Builds and trees:            *)
(* files.Manager, for all that its requests interleave, implements          *)
(* AtomicFiles, and from there on what a request does to the disk is one of *)
(* four effects, against which the index is shown to keep up.               *)
(***************************************************************************)
EXTENDS Vault, FilesProofs

-----------------------------------------------------------------------------
(* The tree without temp files.                                             *)

\* Trees that differ in temp files only look the same.
LEMMA SettledSame ==
    ASSUME NEW t, NEW u,
           \A p : ~IsTemp(p) => (p \in DOMAIN t <=> p \in DOMAIN u),
           \A p \in DOMAIN t : ~IsTemp(p) => t[p] = u[p]
    PROVE  Settled(t) = Settled(u)
  BY DEF Settled

LEMMA SettledAt ==
    ASSUME NEW t, NEW p, ~IsTemp(p)
    PROVE  /\ p \in DOMAIN Settled(t) <=> p \in DOMAIN t
           /\ p \in DOMAIN t => Settled(t)[p] = t[p]
           /\ IsDir(Settled(t), p) <=> IsDir(t, p)
           /\ IsFile(Settled(t), p) <=> IsFile(t, p)
  BY DEF Settled, IsDir, IsFile

LEMMA SettledPut ==
    ASSUME NEW t, NEW p, NEW n
    PROVE  Settled(Put(t, p, n)) = IF IsTemp(p) THEN Settled(t) ELSE Put(Settled(t), p, n)
  <1>1. /\ DOMAIN Put(t, p, n) = DOMAIN t \cup {p}
        /\ \A q \in DOMAIN t \cup {p} : Put(t, p, n)[q] = IF q = p THEN n ELSE t[q]
    BY DEF Put
  <1>2. CASE IsTemp(p)
    BY <1>1, <1>2, SettledSame
  <1>3. CASE ~IsTemp(p)
    <2>1. {q \in DOMAIN t \cup {p} : ~IsTemp(q)} = DOMAIN Settled(t) \cup {p}
      BY <1>3 DEF Settled
    <2>2. \A q \in DOMAIN Settled(t) : Settled(t)[q] = t[q]
      BY DEF Settled
    <2> QED
      BY <1>1, <1>3, <2>1, <2>2 DEF Settled, Put
  <1> QED
    BY <1>2, <1>3

LEMMA SettledDrop ==
    ASSUME NEW t, NEW p
    PROVE  Settled(Drop(t, p)) = IF IsTemp(p) THEN Settled(t) ELSE Drop(Settled(t), p)
  <1>1. DOMAIN Drop(t, p) = DOMAIN t \ {p} /\ \A q \in DOMAIN t \ {p} : Drop(t, p)[q] = t[q]
    BY DEF Drop
  <1>2. CASE IsTemp(p)
    BY <1>1, <1>2, SettledSame
  <1>3. CASE ~IsTemp(p)
    BY <1>3 DEF Settled, Drop
  <1> QED
    BY <1>2, <1>3

\* A directory that may be removed may be removed with its temp files unseen.
LEMMA SettledRemovable ==
    ASSUME NEW t, NEW p, ~IsTemp(p), Removable(t, p)
    PROVE  Removable(Settled(t), p)
  BY DEF Removable, Children, Settled

LEMMA SettledRenamable ==
    ASSUME NEW t, NEW from, NEW to, ~IsTemp(from), ~IsTemp(to), ~IsTemp(Front(to)),
           Renamable(t, from, to)
    PROVE  Renamable(Settled(t), from, to)
  BY SettledAt DEF Renamable

\* A rename moves what is seen as it moves the whole.
LEMMA SettledMove ==
    ASSUME NEW t, Tree(t), NEW from \in Path, NEW to \in Path,
           ~IsTemp(from), ~IsTemp(to), Renamable(t, from, to)
    PROVE  Settled(MoveTree(t, from, to)) = MoveTree(Settled(t), from, to)
  <1> DEFINE s == Settled(t)
             stay(f) == {q \in DOMAIN f : ~IsPrefix(from, q) /\ q # to}
             gone(f) == {Rebase(q, from, to) : q \in {x \in DOMAIN f : IsPrefix(from, x)}}
             at(f, q) == IF IsPrefix(to, q) THEN f[Rebase(q, to, from)] ELSE f[q]
  <1>1. \A f : MoveTree(f, from, to) = [q \in stay(f) \cup gone(f) |-> at(f, q)]
    BY DEF MoveTree
  <1>2. DOMAIN s = {q \in DOMAIN t : ~IsTemp(q)} /\ \A q \in DOMAIN s : s[q] = t[q]
    BY DEF Settled
  <1>3. \A x \in DOMAIN t : IsPrefix(from, x) =>
          /\ IsTemp(Rebase(x, from, to)) <=> IsTemp(x)
          /\ IsPrefix(to, Rebase(x, from, to)) /\ Rebase(Rebase(x, from, to), to, from) = x
    <2> SUFFICES ASSUME NEW x \in DOMAIN t, IsPrefix(from, x)
                 PROVE  /\ IsTemp(Rebase(x, from, to)) <=> IsTemp(x)
                        /\ IsPrefix(to, Rebase(x, from, to))
                        /\ Rebase(Rebase(x, from, to), to, from) = x
      OBVIOUS
    <2>1. x \in Path
      BY DEF Tree
    <2>2. /\ x = from => Rebase(x, from, to) = to
          /\ x # from => /\ x # <<>> /\ Rebase(x, from, to) # <<>>
                         /\ Last(Rebase(x, from, to)) = Last(x)
      BY <2>1, RebaseStrict
    <2>3. IsTemp(Rebase(x, from, to)) <=> IsTemp(x)
      BY <2>2 DEF IsTemp, Root
    <2> QED
      BY <2>1, <2>3, RebaseBack
  <1>4. \A q \in stay(t) : ~IsPrefix(to, q)
    <2> SUFFICES ASSUME NEW q \in DOMAIN t, q # to, IsPrefix(to, q) PROVE FALSE
      OBVIOUS
    <2>1. IsDir(t, to)
      BY AncestorIsDir
    <2> QED
      BY <2>1 DEF Renamable
  <1>5. stay(s) = {q \in stay(t) : ~IsTemp(q)}
    BY <1>2
  <1>6. gone(s) = {q \in gone(t) : ~IsTemp(q)}
    <2>1. ASSUME NEW q \in gone(s) PROVE q \in gone(t) /\ ~IsTemp(q)
      <3>1. PICK x \in DOMAIN s : IsPrefix(from, x) /\ q = Rebase(x, from, to)
        OBVIOUS
      <3> QED
        BY <1>2, <1>3, <3>1
    <2>2. ASSUME NEW q \in gone(t), ~IsTemp(q) PROVE q \in gone(s)
      <3>1. PICK x \in DOMAIN t : IsPrefix(from, x) /\ q = Rebase(x, from, to)
        OBVIOUS
      <3> QED
        BY <1>2, <1>3, <2>2, <3>1
    <2> QED
      BY <2>1, <2>2
  <1>7. \A q \in stay(s) \cup gone(s) : at(s, q) = at(t, q)
    <2>1. ASSUME NEW q \in stay(s) PROVE at(s, q) = at(t, q)
      BY <1>2, <1>4, <1>5
    <2>2. ASSUME NEW q \in gone(s) PROVE at(s, q) = at(t, q)
      <3>1. PICK x \in DOMAIN s : IsPrefix(from, x) /\ q = Rebase(x, from, to)
        OBVIOUS
      <3>2. IsPrefix(to, q) /\ Rebase(q, to, from) = x
        BY <1>2, <1>3, <3>1
      <3> QED
        BY <1>2, <3>1, <3>2
    <2> QED
      BY <2>1, <2>2
  <1> HIDE DEF stay, gone, at, s
  <1>8. Settled([q \in stay(t) \cup gone(t) |-> at(t, q)])
          = [q \in stay(s) \cup gone(s) |-> at(t, q)]
    BY <1>5, <1>6 DEF Settled
  <1>9. [q \in stay(s) \cup gone(s) |-> at(s, q)] = [q \in stay(s) \cup gone(s) |-> at(t, q)]
    BY <1>7
  <1>10. Settled(MoveTree(t, from, to)) = MoveTree(s, from, to)
    BY <1>1, <1>8, <1>9
  <1> QED
    BY <1>10 DEF s

\* The rename of a temp file into place is seen as a file appearing there.
LEMMA SettledPublish ==
    ASSUME NEW t, Tree(t), NEW from \in Path, NEW to \in Path,
           IsTemp(from), ~IsTemp(to), ~IsDir(t, from), Renamable(t, from, to)
    PROVE  Settled(MoveTree(t, from, to)) = Put(Settled(t), to, t[from])
  <1> DEFINE u == MoveTree(t, from, to)
  <1>1. \A x \in DOMAIN t : IsPrefix(from, x) => x = from
    BY AncestorIsDir
  <1>2. from \in DOMAIN t /\ IsPrefix(from, from) /\ Rebase(from, from, to) = to
    <2>1. IsPrefix(from, from)
      BY PrefixElements, PathLength
    <2> QED
      BY <2>1, RebaseStrict DEF Renamable
  <1>3. to \in DOMAIN u /\ u[to] = t[from]
    BY <1>2, MovingEntries
  <1>4. ASSUME NEW q, ~IsTemp(q), q # to
        PROVE  (q \in DOMAIN u <=> q \in DOMAIN t) /\ (q \in DOMAIN t => u[q] = t[q])
    <2>1. q \in DOMAIN t => q \in DOMAIN u /\ u[q] = t[q]
      BY <1>1, <1>4, StayingEntries
    <2>2. q \in DOMAIN u => q \in DOMAIN t
      BY <1>1, <1>2, <1>4, MovedEntries
    <2> QED
      BY <2>1, <2>2
  <1> HIDE DEF u
  <1>5. DOMAIN Settled(u) = DOMAIN Settled(t) \cup {to}
    BY <1>3, <1>4 DEF Settled
  <1>6. \A q \in DOMAIN Settled(u) : Settled(u)[q] = IF q = to THEN t[from] ELSE Settled(t)[q]
    BY <1>3, <1>4 DEF Settled
  <1>7. Settled(u) = [q \in DOMAIN Settled(u) |-> Settled(u)[q]]
    BY DEF Settled
  <1> QED
    BY <1>5, <1>6, <1>7 DEF Put, u

-----------------------------------------------------------------------------
(* The operators of AtomicFiles are those of Files.                         *)

LEMMA SameLooks ==
    /\ Atomic!Root = Root /\ Atomic!DirNode = DirNode
    /\ \A p : Atomic!Front(p) = Front(p)
    /\ \A c : Atomic!FileNode(c) = FileNode(c)
    /\ \A t, p : Atomic!IsDir(t, p) <=> IsDir(t, p)
    /\ \A t, p : Atomic!IsFile(t, p) <=> IsFile(t, p)
    /\ \A t : Atomic!Settled(t) = Settled(t)
  <1>1. Atomic!Root = Root /\ Atomic!DirNode = DirNode
    BY DEF Atomic!Root, Root, Atomic!DirNode, DirNode
  <1>2. /\ \A p : Atomic!Front(p) = Front(p)
        /\ \A c : Atomic!FileNode(c) = FileNode(c)
    BY DEF Atomic!Front, Front, Atomic!FileNode, FileNode
  <1>3. /\ \A t, p : Atomic!IsDir(t, p) <=> IsDir(t, p)
        /\ \A t, p : Atomic!IsFile(t, p) <=> IsFile(t, p)
    BY DEF Atomic!IsDir, IsDir, Atomic!IsFile, IsFile
  <1>4. ASSUME NEW t PROVE Atomic!Settled(t) = Settled(t)
    BY DEF Atomic!Settled, Settled, Atomic!IsTemp, IsTemp, Atomic!Last, Last, Atomic!Root, Root
  <1> QED
    BY <1>1, <1>2, <1>3, <1>4

LEMMA SameChanges ==
    /\ \A t, p, n : Atomic!Put(t, p, n) = Put(t, p, n)
    /\ \A t, p : Atomic!Drop(t, p) = Drop(t, p)
    /\ \A t, p, q : Atomic!MoveTree(t, p, q) = MoveTree(t, p, q)
    /\ \A t, p, q : Atomic!Renamable(t, p, q) <=> Renamable(t, p, q)
    /\ \A t, p : Atomic!Removable(t, p) <=> Removable(t, p)
  <1>1. /\ \A t, p, n : Atomic!Put(t, p, n) = Put(t, p, n)
        /\ \A t, p : Atomic!Drop(t, p) = Drop(t, p)
    BY DEF Atomic!Put, Put, Atomic!Drop, Drop
  <1>2. ASSUME NEW t, NEW p, NEW q PROVE Atomic!MoveTree(t, p, q) = MoveTree(t, p, q)
    BY DEF Atomic!MoveTree, MoveTree, Atomic!Rebase, Rebase, Atomic!IsPrefix, IsPrefix
  <1>3. ASSUME NEW t, NEW p, NEW q PROVE Atomic!Renamable(t, p, q) <=> Renamable(t, p, q)
    BY SameLooks DEF Atomic!Renamable, Renamable, Atomic!IsPrefix, IsPrefix
  <1>4. ASSUME NEW t, NEW p PROVE Atomic!Removable(t, p) <=> Removable(t, p)
    BY SameLooks DEF Atomic!Removable, Removable, Atomic!Children, Children
  <1> QED
    BY <1>1, <1>2, <1>3, <1>4

-----------------------------------------------------------------------------
(* What AtomicFiles sees of a request.                                      *)

(***************************************************************************)
(* The second inductive invariant of Files: how far a request can have got  *)
(* with its operation and its result, and that what is about to be renamed  *)
(* into place is what the request was to write.                             *)
(***************************************************************************)
Suits(s, v, op) ==
    /\ s \notin {"cleanup", "done", "killed"} => v = "none"
    /\ s = "cleanup" => v \in {"none", "failed"}
    /\ s = "read_file" => op = "read"
    /\ s \in {"create_temp", "write", "publish", "cleanup"} => op \in {"save", "create"}
    /\ s \in {"read_dir", "remove"} => op \in {"delete", "delete_dir"}

AllSuit == \A r \in Req : Suits(stage[r], res[r], call[r].op)

TempsReady ==
    \A p \in DOMAIN fs : \A r \in Req :
        IsTempOf(p, r) /\ stage[r] = "publish" => fs[p] = FileNode(r)

AtomicInv == Inv /\ AllSuit /\ TempsReady

PhaseAt(s, v) ==
    CASE s = "idle" -> "idle"
      [] s \in {"done", "killed"} -> "closed"
      [] s \in {"read_file", "stat_to", "read_dir", "remove"} -> "open"
      [] s = "info" \/ (s = "cleanup" /\ v = "none") -> "applied"
      [] OTHER -> "begun"

phaseBar == [r \in Req |-> PhaseOf(r)]
replyBar == [r \in Req |-> IF stage[r] = "done" THEN res[r] ELSE "none"]

LEMMA PhaseBarAt ==
    ASSUME NEW r \in Req
    PROVE  phaseBar[r] = PhaseAt(stage[r], res[r]) /\ PhaseOf(r) = PhaseAt(stage[r], res[r])
  BY DEF phaseBar, PhaseOf, PhaseAt

\* Request r goes to stage s with result v.
Moves(r, s, v) ==
    /\ stage' = [stage EXCEPT ![r] = s]
    /\ res' = [res EXCEPT ![r] = v]

LEMMA WhatMoves ==
    ASSUME Inv, NEW r \in Req
    PROVE  /\ \A s : Goto(r, s) => Moves(r, s, res[r])
           /\ \A v : Answer(r, v) => Moves(r, "done", v)
           /\ Abort(r) => Moves(r, "cleanup", "failed")
  BY TypesOf DEF Goto, Answer, Abort, Moves

LEMMA BarMoves ==
    ASSUME Inv, NEW r \in Req, NEW s, NEW v, Moves(r, s, v)
    PROVE  /\ phaseBar' = [phaseBar EXCEPT ![r] = PhaseAt(s, v)]
           /\ replyBar' = [replyBar EXCEPT ![r] = IF s = "done" THEN v ELSE "none"]
           /\ \A q \in Req : /\ stage'[q] = IF q = r THEN s ELSE stage[q]
                             /\ res'[q] = IF q = r THEN v ELSE res[q]
  <1>1. \A q \in Req : /\ stage'[q] = IF q = r THEN s ELSE stage[q]
                       /\ res'[q] = IF q = r THEN v ELSE res[q]
    BY TypesOf DEF Moves
  <1>2. \A q \in Req : PhaseOf(q) = PhaseAt(stage[q], res[q])
    BY PhaseBarAt
  <1>3. \A q \in Req : PhaseOf(q)' = PhaseAt(stage'[q], res'[q])
    BY DEF PhaseOf, PhaseAt
  <1>4. \A q \in Req : PhaseOf(q)' = IF q = r THEN PhaseAt(s, v) ELSE PhaseOf(q)
    BY <1>1, <1>2, <1>3
  <1>5. phaseBar' = [phaseBar EXCEPT ![r] = PhaseAt(s, v)]
    BY <1>4 DEF phaseBar
  <1>6. replyBar' = [replyBar EXCEPT ![r] = IF s = "done" THEN v ELSE "none"]
    BY <1>1 DEF replyBar
  <1> QED
    BY <1>1, <1>5, <1>6

\* An open request that moves on is, to AtomicFiles, answered or further on.
LEMMA Progress ==
    ASSUME AtomicInv, NEW r \in Req, stage[r] # "done", NEW s, NEW v, Moves(r, s, v)
    PROVE  /\ s = "done" => Atomic!Close(r, v)
           /\ s # "done" => Atomic!Advance(r, PhaseAt(s, v))
           /\ s # "done" /\ PhaseAt(s, v) = PhaseAt(stage[r], res[r]) => UNCHANGED <<phaseBar, replyBar>>
           /\ call' = call /\ Suits(s, v, call[r].op) => AllSuit'
  <1>1. /\ phaseBar' = [phaseBar EXCEPT ![r] = PhaseAt(s, v)]
        /\ replyBar' = [replyBar EXCEPT ![r] = IF s = "done" THEN v ELSE "none"]
        /\ \A q \in Req : /\ stage'[q] = IF q = r THEN s ELSE stage[q]
                          /\ res'[q] = IF q = r THEN v ELSE res[q]
    BY BarMoves DEF AtomicInv
  <1>2. replyBar = [replyBar EXCEPT ![r] = "none"]
    BY DEF replyBar
  <1>3. s # "done" => replyBar' = replyBar
    BY <1>1, <1>2
  <1>4. phaseBar = [phaseBar EXCEPT ![r] = PhaseAt(stage[r], res[r])]
    BY PhaseBarAt DEF phaseBar
  <1>5. s = "done" => Atomic!Close(r, v)
    BY <1>1 DEF Atomic!Close, phaseBar, replyBar, PhaseAt
  <1>6. s # "done" => Atomic!Advance(r, PhaseAt(s, v))
    BY <1>1, <1>3 DEF Atomic!Advance, phaseBar, replyBar
  <1>7. call' = call /\ Suits(s, v, call[r].op) => AllSuit'
    BY <1>1 DEF AllSuit, AtomicInv
  <1> QED
    BY <1>1, <1>3, <1>4, <1>5, <1>6, <1>7

\* What a step of request r comes to.
Stutters == UNCHANGED <<Settled(fs), call, phaseBar, replyBar, got>>

Steps(r) ==
    \/ Atomic!Open(r) \/ Atomic!Begin(r) \/ Atomic!GiveUp(r) \/ Atomic!Give(r)
    \/ Atomic!MakeDir(r) \/ Atomic!DirMade(r) \/ Atomic!Apply(r) \/ Atomic!Confirm(r)
    \/ Stutters

\* A step that leaves the tree alone makes no request ready to publish.
LEMMA TempsStay ==
    ASSUME AtomicInv, NEW r \in Req, NEW s, NEW v, Moves(r, s, v), fs' = fs, s # "publish"
    PROVE  TempsReady'
  <1>1. \A q \in Req : stage'[q] = IF q = r THEN s ELSE stage[q]
    BY BarMoves DEF AtomicInv
  <1> QED
    BY <1>1 DEF AtomicInv, TempsReady

\* A request that is refused or fails before it has an effect.
LEMMA GivesUp ==
    ASSUME AtomicInv, NEW r \in Req, NEW v \in {"refused", "failed"}, Moves(r, "done", v),
           \/ PhaseAt(stage[r], res[r]) = "open"
           \/ PhaseAt(stage[r], res[r]) \in {"begun", "applied"} /\ v = "failed",
           UNCHANGED <<Settled(fs), call, got>>
    PROVE  Atomic!GiveUp(r) /\ AllSuit'
  <1>1. stage[r] # "done"
    BY DEF PhaseAt
  <1>2. Atomic!Close(r, v) /\ (Suits("done", v, call[r].op) => AllSuit')
    BY <1>1, Progress
  <1>3. phaseBar[r] = PhaseAt(stage[r], res[r])
    BY PhaseBarAt
  <1>4. Atomic!GiveUp(r)
    <2>1. phaseBar[r] = "open" \/ (phaseBar[r] \in {"begun", "applied"} /\ v = "failed")
      BY <1>3
    <2>2. UNCHANGED <<Settled(fs), call, got>>
      OBVIOUS
    <2> QED
      BY <1>2, <2>1, <2>2 DEF Atomic!GiveUp, phaseBar
  <1> QED
    BY <1>2, <1>4 DEF Suits

-----------------------------------------------------------------------------
(* Step by step.                                                            *)

Implements(r) == Steps(r) /\ AllSuit' /\ TempsReady'

\* A step that neither AtomicFiles nor another request can see.
LEMMA Unseen ==
    ASSUME AtomicInv, NEW r \in Req, NEW s, NEW v, Moves(r, s, v),
           stage[r] # "done", s # "done", PhaseAt(s, v) = PhaseAt(stage[r], res[r]),
           Suits(s, v, call[r].op), UNCHANGED <<Settled(fs), call, got>>
    PROVE  Steps(r) /\ AllSuit'
  <1>1. UNCHANGED <<phaseBar, replyBar>> /\ AllSuit'
    BY Progress
  <1> QED
    BY <1>1 DEF Steps, Stutters

\* Arrivals: accepted, further on than that, or refused.
LEMMA AdmitImplements ==
    ASSUME AtomicInv, NEW r \in Req, NEW op \in Ops, NEW p \in Paths, NEW q \in Paths,
           NEW accepted \in BOOLEAN,
           NEW next \in {"read_file", "create_temp", "mkdir_all", "remove", "stat_to", "read_dir"},
           Suits(next, "none", op), Admit(r, Call(op, p, q), accepted, next)
    PROVE  Implements(r)
  <1> DEFINE c == Call(op, p, q)
  <1>1. stage[r] = "idle" /\ call' = [call EXCEPT ![r] = c] /\ UNCHANGED <<fs, got>>
    BY DEF Admit
  <1>2. res[r] = "none" /\ phaseBar[r] = "idle"
    BY <1>1, PhaseBarAt DEF AtomicInv, AllSuit, Suits, PhaseAt
  <1>3. PICK s \in {next, "done"} : \E v \in {"none", "refused"} :
           /\ Moves(r, s, v)
           /\ s = next => v = "none"
           /\ s = "done" => v = "refused"
    <2>1. CASE accepted
      BY <1>2, <2>1, WhatMoves DEF Admit, AtomicInv
    <2>2. CASE ~accepted
      BY <2>2, WhatMoves DEF Admit, AtomicInv
    <2> QED
      BY <2>1, <2>2
  <1>4. PICK v \in {"none", "refused"} :
           /\ Moves(r, s, v)
           /\ s = next => v = "none"
           /\ s = "done" => v = "refused"
    BY <1>3
  <1>5. /\ s = "done" => Atomic!Close(r, "refused")
        /\ s # "done" => Atomic!Advance(r, PhaseAt(s, "none"))
    BY <1>1, <1>4, Progress
  <1>6. PhaseAt(next, "none") \in {"open", "begun"}
    BY DEF PhaseAt
  <1>7. c \in Atomic!Asks
    BY DEF Call, Atomic!Asks, Ops
  <1>8. Settled(fs)' = Settled(fs)
    BY <1>1 DEF Settled
  <1>9. Atomic!Open(r)
    <2>1. Atomic!Advance(r, "open") \/ Atomic!Advance(r, "begun") \/ Atomic!Close(r, "refused")
      BY <1>4, <1>5, <1>6
    <2> HIDE DEF c
    <2> QED
      BY <1>1, <1>2, <1>7, <1>8, <2>1 DEF Atomic!Open, phaseBar
  <1>10. AllSuit'
    <2>1. \A x \in Req : /\ stage'[x] = IF x = r THEN s ELSE stage[x]
                         /\ res'[x] = IF x = r THEN v ELSE res[x]
                         /\ call'[x] = IF x = r THEN c ELSE call[x]
      BY <1>1, <1>4, BarMoves, TypesOf DEF AtomicInv
    <2>2. Suits(s, v, c.op)
      BY <1>4 DEF Suits, Call
    <2> HIDE DEF c
    <2> QED
      BY <2>1, <2>2 DEF AllSuit, AtomicInv
  <1>11. TempsReady'
    BY <1>1, <1>4, TempsStay
  <1> QED
    BY <1>9, <1>10, <1>11 DEF Implements, Steps

LEMMA ArriveImplements ==
    ASSUME AtomicInv, NEW r \in Req, Arrive(r)
    PROVE  Implements(r)
  <1>1. PICK p \in Paths :
           \/ Read(r, p) \/ Save(r, p) \/ Create(r, p) \/ Delete(r, p)
           \/ Mkdir(r, p) \/ DeleteDir(r, p)
           \/ \E q \in Paths : Rename(r, p, q) \/ RenameDir(r, p, q)
    BY DEF Arrive
  <1>2. /\ Suits("read_file", "none", "read") /\ Suits("remove", "none", "delete")
        /\ \A op \in {"save", "create"} : Suits("create_temp", "none", op)
        /\ \A op : Suits("mkdir_all", "none", op) /\ Suits("stat_to", "none", op)
        /\ Suits("read_dir", "none", "delete_dir")
    BY DEF Suits
  <1>3. {"read", "save", "create", "delete", "rename", "mkdir", "delete_dir", "rename_dir"} = Ops
    BY DEF Ops
  <1>4. CASE Read(r, p)
    BY <1>2, <1>3, <1>4, AdmitImplements DEF Read, IsMarkdown, IsFile
  <1>5. CASE Save(r, p)
    BY <1>2, <1>3, <1>5, AdmitImplements DEF Save, IsMarkdown, IsFile
  <1>6. CASE Create(r, p)
    BY <1>2, <1>3, <1>6, AdmitImplements DEF Create, IsMarkdown, Missing
  <1>7. CASE Delete(r, p)
    BY <1>2, <1>3, <1>7, AdmitImplements DEF Delete, IsMarkdown, IsFile
  <1>8. CASE Mkdir(r, p)
    BY <1>2, <1>3, <1>8, AdmitImplements DEF Mkdir, Missing
  <1>9. CASE DeleteDir(r, p)
    BY <1>2, <1>3, <1>9, AdmitImplements DEF DeleteDir, IsDir
  <1>10. ASSUME NEW q \in Paths, Rename(r, p, q) PROVE Implements(r)
    BY <1>2, <1>3, <1>10, AdmitImplements DEF Rename, IsMarkdown, IsFile
  <1>11. ASSUME NEW q \in Paths, RenameDir(r, p, q) PROVE Implements(r)
    BY <1>2, <1>3, <1>11, AdmitImplements DEF RenameDir, IsDir
  <1> QED
    BY <1>1, <1>4, <1>5, <1>6, <1>7, <1>8, <1>9, <1>10, <1>11

LEMMA ReadFileImplements ==
    ASSUME AtomicInv, NEW r \in Req, ReadFile(r)
    PROVE  Implements(r)
  <1> DEFINE p == call[r].path
  <1>1. stage[r] = "read_file" /\ UNCHANGED <<fs, call>> /\ call[r].op = "read" /\ ~IsTemp(p)
    BY CallPaths DEF ReadFile, AtomicInv, AllSuit, Suits
  <1>2. Settled(fs)' = Settled(fs)
    BY <1>1 DEF Settled
  <1>3. CASE IsFile(fs, p) /\ Answer(r, "ok") /\ got' = [got EXCEPT ![r] = fs[p].data]
    <2>1. Moves(r, "done", "ok")
      BY <1>3, WhatMoves DEF AtomicInv
    <2>2. Atomic!Close(r, "ok") /\ AllSuit'
      BY <1>1, <2>1, Progress DEF Suits
    <2>3. TempsReady'
      BY <1>1, <2>1, TempsStay
    <2>4. Atomic!IsFile(Settled(fs), p) /\ Settled(fs)[p] = fs[p]
      BY <1>1, <1>3, SettledAt, SameLooks DEF IsFile
    <2>5. phaseBar[r] = "open"
      BY <1>1, PhaseBarAt DEF PhaseAt
    <2>6. Atomic!Give(r)
      BY <1>1, <1>2, <1>3, <2>2, <2>4, <2>5 DEF Atomic!Give, phaseBar
    <2> QED
      BY <2>2, <2>3, <2>6 DEF Implements, Steps
  <1>4. CASE Answer(r, "failed") /\ UNCHANGED got
    <2>1. Moves(r, "done", "failed")
      BY <1>4, WhatMoves DEF AtomicInv
    <2>2. Atomic!GiveUp(r) /\ AllSuit'
      BY <1>1, <1>2, <1>4, <2>1, GivesUp DEF PhaseAt
    <2>3. TempsReady'
      BY <1>1, <2>1, TempsStay
    <2> QED
      BY <2>2, <2>3 DEF Implements, Steps
  <1> QED
    BY <1>3, <1>4 DEF ReadFile

LEMMA StatToImplements ==
    ASSUME AtomicInv, NEW r \in Req, StatTo(r)
    PROVE  Implements(r)
  <1>1. stage[r] = "stat_to" /\ UNCHANGED <<fs, call, got>> /\ res[r] = "none"
    BY DEF StatTo, AtomicInv, AllSuit, Suits
  <1>2. Settled(fs)' = Settled(fs) /\ phaseBar[r] = "open"
    BY <1>1, PhaseBarAt DEF Settled, PhaseAt
  <1>3. CASE Goto(r, "mkdir_all")
    <2>1. Moves(r, "mkdir_all", "none")
      BY <1>1, <1>3, WhatMoves DEF AtomicInv
    <2>2. Atomic!Advance(r, PhaseAt("mkdir_all", "none")) /\ AllSuit'
      BY <1>1, <2>1, Progress DEF Suits
    <2>3. Atomic!Begin(r)
      BY <1>1, <1>2, <2>2 DEF Atomic!Begin, PhaseAt, phaseBar
    <2>4. TempsReady'
      BY <1>1, <2>1, TempsStay
    <2> QED
      BY <2>2, <2>3, <2>4 DEF Implements, Steps
  <1>4. CASE Answer(r, "refused")
    <2>1. Moves(r, "done", "refused")
      BY <1>4, WhatMoves DEF AtomicInv
    <2>2. Atomic!GiveUp(r) /\ AllSuit'
      BY <1>1, <1>2, <2>1, GivesUp DEF PhaseAt
    <2>3. TempsReady'
      BY <1>1, <2>1, TempsStay
    <2> QED
      BY <2>2, <2>3 DEF Implements, Steps
  <1> QED
    BY <1>3, <1>4 DEF StatTo

LEMMA WayWanted ==
    ASSUME AtomicInv, NEW r \in Req, stage[r] \in {"mkdir_all", "mkdir_next"}
    PROVE  /\ Atomic!Way(r) = DirWanted(r)
           /\ call[r].op \in {"create", "mkdir", "rename", "rename_dir"}
           /\ res[r] = "none" /\ phaseBar[r] = "begun"
  <1>1. call[r].op \in {"create", "mkdir", "rename", "rename_dir"} /\ res[r] = "none"
    BY DEF AtomicInv, Inv, OnCourse, Course, AllSuit, Suits
  <1>2. phaseBar[r] = "begun"
    BY PhaseBarAt DEF PhaseAt
  <1>3. Atomic!Way(r) = DirWanted(r)
    BY <1>1, SameLooks DEF Atomic!Way, DirWanted, Target
  <1> QED
    BY <1>1, <1>2, <1>3

\* With its directory there a request goes on, unless that is what it asked for.
LEMMA WhatReady ==
    ASSUME AtomicInv, NEW r \in Req, stage[r] \in {"mkdir_all", "mkdir_next"},
           call' = call, DirReady(r)
    PROVE  /\ AllSuit'
           /\ \/ call[r].op = "mkdir" /\ Atomic!Close(r, "ok")
              \/ UNCHANGED <<phaseBar, replyBar>>
           /\ \E s \in {"done", "create_temp", "move"} : \E v : Moves(r, s, v)
  <1>1. call[r].op \in {"create", "mkdir", "rename", "rename_dir"} /\ res[r] = "none"
    BY WayWanted
  <1>2. CASE call[r].op = "mkdir"
    <2>1. Moves(r, "done", "ok")
      BY <1>2, WhatMoves DEF DirReady, AtomicInv
    <2> QED
      BY <1>2, <2>1, Progress DEF Suits
  <1>3. CASE call[r].op = "create"
    <2>1. Moves(r, "create_temp", "none")
      BY <1>1, <1>3, WhatMoves DEF DirReady, AtomicInv
    <2>2. PhaseAt("create_temp", "none") = PhaseAt(stage[r], res[r])
      BY DEF PhaseAt
    <2>3. Suits("create_temp", "none", call[r].op)
      BY <1>3 DEF Suits
    <2> QED
      BY <2>1, <2>2, <2>3, Progress
  <1>4. CASE call[r].op \in {"rename", "rename_dir"}
    <2>1. Moves(r, "move", "none")
      BY <1>1, <1>4, WhatMoves DEF DirReady, AtomicInv
    <2>2. PhaseAt("move", "none") = PhaseAt(stage[r], res[r])
      BY DEF PhaseAt
    <2>3. Suits("move", "none", call[r].op)
      BY DEF Suits
    <2> QED
      BY <2>1, <2>2, <2>3, Progress
  <1> QED
    BY <1>1, <1>2, <1>3, <1>4

LEMMA MkdirAllImplements ==
    ASSUME AtomicInv, NEW r \in Req, MkdirAll(r)
    PROVE  Implements(r)
  <1> DEFINE d == DirWanted(r)
  <1>1. stage[r] = "mkdir_all" /\ UNCHANGED <<fs, call, got>>
    BY DEF MkdirAll
  <1>2. /\ Atomic!Way(r) = d /\ call[r].op \in {"create", "mkdir", "rename", "rename_dir"}
        /\ res[r] = "none" /\ phaseBar[r] = "begun"
    BY <1>1, WayWanted
  <1>3. Settled(fs)' = Settled(fs)
    BY <1>1 DEF Settled
  <1>4. CASE IsDir(fs, d) /\ DirReady(r)
    <2>1. /\ AllSuit'
          /\ \/ call[r].op = "mkdir" /\ Atomic!Close(r, "ok")
             \/ UNCHANGED <<phaseBar, replyBar>>
          /\ \E s \in {"done", "create_temp", "move"} : \E v : Moves(r, s, v)
      BY <1>1, <1>4, WhatReady
    <2>2. TempsReady'
      BY <1>1, <2>1, TempsStay
    <2>3. CASE call[r].op = "mkdir" /\ Atomic!Close(r, "ok")
      <3>1. d = call[r].path /\ ~IsTemp(d)
        BY <2>3, CallPaths DEF DirWanted, AtomicInv
      <3>2. Atomic!IsDir(Settled(fs), call[r].path)
        BY <1>4, <3>1, SettledAt, SameLooks
      <3>3. Atomic!DirMade(r)
        BY <1>1, <1>2, <1>3, <2>3, <3>2 DEF Atomic!DirMade, phaseBar
      <3> QED
        BY <2>1, <2>2, <3>3 DEF Implements, Steps
    <2>4. CASE UNCHANGED <<phaseBar, replyBar>>
      BY <1>1, <1>3, <2>1, <2>2, <2>4 DEF Implements, Steps, Stutters
    <2> QED
      BY <2>1, <2>3, <2>4
  <1>5. CASE Answer(r, "failed")
    <2>1. Moves(r, "done", "failed")
      BY <1>5, WhatMoves DEF AtomicInv
    <2>2. Atomic!GiveUp(r) /\ AllSuit'
      BY <1>1, <1>3, <2>1, GivesUp DEF PhaseAt
    <2>3. TempsReady'
      BY <1>1, <2>1, TempsStay
    <2> QED
      BY <2>2, <2>3 DEF Implements, Steps
  <1>6. CASE Goto(r, "mkdir_next")
    <2>1. Moves(r, "mkdir_next", "none")
      BY <1>2, <1>6, WhatMoves DEF AtomicInv
    <2>2. PhaseAt("mkdir_next", "none") = PhaseAt(stage[r], res[r]) /\ Suits("mkdir_next", "none", call[r].op)
      BY <1>1 DEF PhaseAt, Suits
    <2>3. Steps(r) /\ AllSuit'
      BY <1>1, <1>3, <2>1, <2>2, Unseen
    <2>4. TempsReady'
      BY <1>1, <2>1, TempsStay
    <2> QED
      BY <2>3, <2>4 DEF Implements
  <1> QED
    BY <1>4, <1>5, <1>6 DEF MkdirAll

\* One os.Mkdir is a step of its own to AtomicFiles.
LEMMA MkdirNextImplements ==
    ASSUME AtomicInv, NEW r \in Req, MkdirNext(r)
    PROVE  Implements(r)
  <1> DEFINE d == DirWanted(r)
             q == SubSeq(d, 1, mk[r])
  <1>1. stage[r] = "mkdir_next" /\ UNCHANGED <<call, got>>
    BY DEF MkdirNext
  <1>2. /\ Atomic!Way(r) = d /\ call[r].op \in {"create", "mkdir", "rename", "rename_dir"}
        /\ res[r] = "none" /\ phaseBar[r] = "begun"
    BY <1>1, WayWanted
  <1>3. /\ d \in Path /\ mk[r] \in 1 .. Len(d) /\ Len(d) \in Nat
        /\ ~IsTemp(q) /\ q \in Path /\ Len(q) = mk[r] /\ q # <<>>
    <2>1. d \in Path /\ Len(d) \in Nat /\ mk[r] \in 1 .. Len(d)
      BY <1>1, CallPaths DEF AtomicInv, Inv, MkInRange
    <2>2. mk[r] \in 0 .. Len(d)
      BY <2>1
    <2>3. q \in Path /\ Len(q) = mk[r] /\ ~IsTemp(q)
      BY <2>1, <2>2, AncestorPath, CallPaths DEF AtomicInv
    <2> QED
      BY <2>1, <2>3
  <1>4. ~IsTemp(Front(q))
    <2>1. Front(q) \in Path /\ Len(Front(q)) = mk[r] - 1
      BY <1>3, ParentPath
    <2>2. mk[r] - 1 \in 0 .. Len(d) /\ mk[r] - 1 \in 0 .. Len(q) - 1
      BY <1>3
    <2>3. Front(q) = SubSeq(d, 1, mk[r] - 1)
      BY <1>3 DEF Front, Path
    <2> QED
      BY <2>2, <2>3, CallPaths DEF AtomicInv
  <1>5. CASE Answer(r, "failed") /\ UNCHANGED fs
    <2>1. Moves(r, "done", "failed")
      BY <1>5, WhatMoves DEF AtomicInv
    <2>2. Atomic!GiveUp(r) /\ AllSuit'
      BY <1>1, <1>5, <2>1, GivesUp DEF PhaseAt, Settled
    <2>3. TempsReady'
      BY <1>5, <2>1, TempsStay
    <2> QED
      BY <2>2, <2>3 DEF Implements, Steps
  <1>6. ASSUME IsDir(fs, q) \/ (q \notin DOMAIN fs /\ IsDir(fs, Front(q))),
               fs' = IF IsDir(fs, q) THEN fs ELSE Put(fs, q, DirNode),
               IF mk[r] = Len(d)
               THEN DirReady(r) /\ UNCHANGED mk
               ELSE mk' = [mk EXCEPT ![r] = mk[r] + 1] /\ UNCHANGED <<stage, res>>
        PROVE  Implements(r)
    <2>1. /\ AllSuit'
          /\ \/ mk[r] = Len(d) /\ call[r].op = "mkdir" /\ Atomic!Close(r, "ok")
             \/ UNCHANGED <<phaseBar, replyBar>>
          /\ \E s \in {"done", "create_temp", "move", "mkdir_next"} : \E v : Moves(r, s, v)
      <3>1. CASE mk[r] = Len(d) /\ DirReady(r)
        BY <1>1, <3>1, WhatReady
      <3>2. CASE UNCHANGED <<stage, res>>
        <4>1. Moves(r, "mkdir_next", "none")
          BY <1>1, <1>2, <3>2, TypesOf DEF Moves, AtomicInv
        <4>2. PhaseAt("mkdir_next", "none") = PhaseAt(stage[r], res[r])
              /\ Suits("mkdir_next", "none", call[r].op)
          BY <1>1 DEF PhaseAt, Suits
        <4> QED
          BY <1>1, <4>1, <4>2, Progress
      <3> QED
        BY <1>6, <3>1, <3>2
    <2>2. PICK s \in {"done", "create_temp", "move", "mkdir_next"} : \E v : Moves(r, s, v)
      BY <2>1
    <2>3. \A x \in Req : stage'[x] = IF x = r THEN s ELSE stage[x]
      BY <2>2, BarMoves DEF AtomicInv
    <2>4. TempsReady'
      <3>1. ASSUME NEW p \in DOMAIN fs', NEW x \in Req, IsTempOf(p, x), stage'[x] = "publish"
            PROVE  fs'[p] = FileNode(x)
        <4>1. p # q
          BY <1>3, <3>1 DEF IsTempOf, IsTemp
        <4>2. p \in DOMAIN fs /\ fs'[p] = fs[p] /\ stage[x] = "publish"
          BY <1>6, <2>3, <3>1, <4>1 DEF Put
        <4> QED
          BY <3>1, <4>2 DEF AtomicInv, TempsReady
      <3> QED
        BY <3>1 DEF TempsReady
    <2>5. CASE IsDir(fs, q)
      <3>1. Settled(fs)' = Settled(fs)
        BY <1>6, <2>5 DEF Settled
      <3>2. CASE mk[r] = Len(d) /\ call[r].op = "mkdir" /\ Atomic!Close(r, "ok")
        <4>1. q = call[r].path
          <5>1. Len(d) \in 0 .. Len(d) /\ Len(q) = Len(d)
            BY <1>3, <3>2
          <5>2. \A i \in 1 .. Len(d) : q[i] = d[i]
            BY <1>3, <3>2, <5>1, AncestorPath
          <5>3. q = d
            BY <1>3, <5>1, <5>2, PathEqual
          <5> QED
            BY <3>2, <5>3 DEF DirWanted
        <4>2. Atomic!IsDir(Settled(fs), call[r].path)
          <5>1. IsDir(Settled(fs), q)
            BY <1>3, <2>5, SettledAt
          <5> QED
            BY <4>1, <5>1, SameLooks
        <4>3. Atomic!DirMade(r)
          BY <1>1, <1>2, <3>1, <3>2, <4>2 DEF Atomic!DirMade, phaseBar
        <4> QED
          BY <2>1, <2>4, <4>3 DEF Implements, Steps
      <3>3. CASE UNCHANGED <<phaseBar, replyBar>>
        BY <1>1, <2>1, <2>4, <3>1, <3>3 DEF Implements, Steps, Stutters
      <3> QED
        BY <2>1, <3>2, <3>3
    <2>6. CASE ~IsDir(fs, q)
      <3>1. Settled(fs)' = Put(Settled(fs), q, DirNode)
        <4>1. Settled(fs') = Put(Settled(fs), q, DirNode)
          BY <1>3, <1>6, <2>6, SettledPut
        <4> QED
          BY <4>1 DEF Settled
      <3>2. q \notin DOMAIN Settled(fs) /\ IsDir(Settled(fs), Front(q))
        BY <1>3, <1>4, <1>6, <2>6, SettledAt
      <3>3. \/ UNCHANGED <<phaseBar, replyBar>>
            \/ mk[r] = Len(Atomic!Way(r)) /\ call[r].op = "mkdir" /\ Atomic!Close(r, "ok")
        BY <1>2, <2>1
      <3>4. /\ mk[r] \in 1 .. Len(Atomic!Way(r))
            /\ SubSeq(Atomic!Way(r), 1, mk[r]) \notin DOMAIN Settled(fs)
            /\ Atomic!IsDir(Settled(fs), Atomic!Front(SubSeq(Atomic!Way(r), 1, mk[r])))
            /\ Settled(fs)' = Atomic!Put(Settled(fs), SubSeq(Atomic!Way(r), 1, mk[r]), Atomic!DirNode)
        BY <1>2, <1>3, <3>1, <3>2, SameLooks, SameChanges
      <3>5. phaseBar[r] = "begun" /\ UNCHANGED <<call, got>>
        BY <1>1, <1>2
      <3>6. Atomic!MakeDir(r)
        BY <3>3, <3>4, <3>5 DEF Atomic!MakeDir, phaseBar, replyBar
      <3> QED
        BY <2>1, <2>4, <3>6 DEF Implements, Steps
    <2> QED
      BY <2>5, <2>6
  <1> QED
    BY <1>5, <1>6 DEF MkdirNext

LEMMA CreateTempImplements ==
    ASSUME AtomicInv, NEW r \in Req, CreateTemp(r)
    PROVE  Implements(r)
  <1>1. stage[r] = "create_temp" /\ UNCHANGED <<call, got>> /\ res[r] = "none"
    BY DEF CreateTemp, AtomicInv, AllSuit, Suits
  <1>2. CASE fs' = Put(fs, TempPath(r), FileNode(Torn)) /\ Goto(r, "write")
    <2>1. Moves(r, "write", "none")
      BY <1>1, <1>2, WhatMoves DEF AtomicInv
    <2>2. PhaseAt("write", "none") = PhaseAt(stage[r], res[r]) /\ Suits("write", "none", call[r].op)
      BY <1>1 DEF PhaseAt, Suits, AtomicInv, AllSuit
    <2>3. Settled(fs)' = Settled(fs)
      <3>1. Settled(fs') = Settled(fs)
        BY <1>2, CallPaths, SettledPut DEF AtomicInv
      <3> QED
        BY <3>1 DEF Settled
    <2>4. Steps(r) /\ AllSuit'
      BY <1>1, <2>1, <2>2, <2>3, Unseen
    <2>5. \A x \in Req : stage'[x] = IF x = r THEN "write" ELSE stage[x]
      BY <2>1, BarMoves DEF AtomicInv
    <2>6. TempsReady'
      <3>1. ASSUME NEW p \in DOMAIN fs', NEW x \in Req, IsTempOf(p, x), stage'[x] = "publish"
            PROVE  fs'[p] = FileNode(x)
        <4>1. stage[x] = "publish" /\ x # r
          BY <2>5, <3>1
        <4>2. p # TempPath(r)
          BY <3>1, <4>1, CallPaths DEF AtomicInv, IsTempOf
        <4>3. p \in DOMAIN fs /\ fs'[p] = fs[p]
          BY <1>2, <4>2 DEF Put
        <4> QED
          BY <3>1, <4>1, <4>3 DEF AtomicInv, TempsReady
      <3> QED
        BY <3>1 DEF TempsReady
    <2> QED
      BY <2>4, <2>6 DEF Implements
  <1>3. CASE UNCHANGED fs /\ Answer(r, "failed")
    <2>1. Moves(r, "done", "failed") /\ Settled(fs)' = Settled(fs)
      BY <1>3, WhatMoves DEF AtomicInv, Settled
    <2>2. Atomic!GiveUp(r) /\ AllSuit'
      BY <1>1, <2>1, GivesUp DEF PhaseAt
    <2>3. TempsReady'
      BY <1>3, <2>1, TempsStay
    <2> QED
      BY <2>2, <2>3 DEF Implements, Steps
  <1> QED
    BY <1>2, <1>3 DEF CreateTemp

LEMMA FlushImplements ==
    ASSUME AtomicInv, NEW r \in Req, Flush(r)
    PROVE  Implements(r)
  <1>1. /\ stage[r] = "write" /\ UNCHANGED <<call, got>> /\ res[r] = "none"
        /\ fs' = [p \in DOMAIN fs |-> IF IsTempOf(p, r) THEN FileNode(r) ELSE fs[p]]
        /\ Goto(r, "publish")
    BY DEF Flush, AtomicInv, AllSuit, Suits, IsTempOf
  <1>2. Moves(r, "publish", "none")
    BY <1>1, WhatMoves DEF AtomicInv
  <1>3. PhaseAt("publish", "none") = PhaseAt(stage[r], res[r]) /\ Suits("publish", "none", call[r].op)
    BY <1>1 DEF PhaseAt, Suits, AtomicInv, AllSuit
  <1>4. Settled(fs)' = Settled(fs)
    <2>1. \A p : IsTempOf(p, r) => IsTemp(p)
      BY DEF IsTempOf, IsTemp
    <2>2. DOMAIN fs' = DOMAIN fs /\ \A p \in DOMAIN fs : ~IsTemp(p) => fs'[p] = fs[p]
      BY <1>1, <2>1
    <2>3. Settled(fs') = Settled(fs)
      BY <2>2, SettledSame
    <2> QED
      BY <2>3 DEF Settled
  <1>5. Steps(r) /\ AllSuit'
    BY <1>1, <1>2, <1>3, <1>4, Unseen
  <1>6. \A x \in Req : stage'[x] = IF x = r THEN "publish" ELSE stage[x]
    BY <1>2, BarMoves DEF AtomicInv
  <1>7. TempsReady'
    <2>1. ASSUME NEW p \in DOMAIN fs', NEW x \in Req, IsTempOf(p, x), stage'[x] = "publish"
          PROVE  fs'[p] = FileNode(x)
      <3>1. CASE x = r
        BY <1>1, <2>1, <3>1
      <3>2. CASE x # r
        <4>1. stage[x] = "publish" /\ ~IsTempOf(p, r)
          BY <1>6, <2>1, <3>2 DEF IsTempOf
        <4>2. p \in DOMAIN fs /\ fs'[p] = fs[p]
          BY <1>1, <4>1
        <4> QED
          BY <2>1, <4>1, <4>2 DEF AtomicInv, TempsReady
      <3> QED
        BY <3>1, <3>2
    <2> QED
      BY <2>1 DEF TempsReady
  <1> QED
    BY <1>5, <1>7 DEF Implements

LEMMA FlushFailsImplements ==
    ASSUME AtomicInv, NEW r \in Req, FlushFails(r)
    PROVE  Implements(r)
  <1>1. stage[r] = "write" /\ UNCHANGED <<fs, call, got>> /\ Moves(r, "cleanup", "failed")
    BY WhatMoves DEF FlushFails, AtomicInv
  <1>2. /\ PhaseAt("cleanup", "failed") = PhaseAt(stage[r], res[r])
        /\ Suits("cleanup", "failed", call[r].op)
    BY <1>1 DEF PhaseAt, Suits, AtomicInv, AllSuit
  <1>3. Settled(fs)' = Settled(fs)
    BY <1>1 DEF Settled
  <1>4. Steps(r) /\ AllSuit'
    BY <1>1, <1>2, <1>3, Unseen
  <1>5. TempsReady'
    BY <1>1, TempsStay
  <1> QED
    BY <1>4, <1>5 DEF Implements

\* A step that carries entries along by their names makes none ready, and
\* spoils none.
LEMMA TempsCarried ==
    ASSUME AtomicInv, NEW r \in Req, NEW s, NEW v, Moves(r, s, v), s # "publish",
           \A p \in DOMAIN fs' : IsTemp(p) =>
              \E x \in DOMAIN fs : /\ fs'[p] = fs[x]
                                   /\ x # Root /\ Last(p) = Last(x)
    PROVE  TempsReady'
  <1>1. \A q \in Req : stage'[q] = IF q = r THEN s ELSE stage[q]
    BY BarMoves DEF AtomicInv
  <1>2. ASSUME NEW p \in DOMAIN fs', NEW q \in Req, IsTempOf(p, q), stage'[q] = "publish"
        PROVE  fs'[p] = FileNode(q)
    <2>1. IsTemp(p)
      BY <1>2 DEF IsTempOf, IsTemp
    <2>2. PICK x \in DOMAIN fs : fs'[p] = fs[x] /\ x # Root /\ Last(p) = Last(x)
      BY <2>1
    <2>3. IsTempOf(x, q) /\ stage[q] = "publish"
      BY <1>1, <1>2, <2>2 DEF IsTempOf
    <2> QED
      BY <2>2, <2>3 DEF AtomicInv, TempsReady
  <1> QED
    BY <1>2 DEF TempsReady

\* The paths a request puts something at, and where they are.
LEMMA PlacesNamed ==
    ASSUME AtomicInv, NEW r \in Req
    PROVE  /\ call[r].path \in Path /\ ~IsTemp(call[r].path)
           /\ call[r].to \in Path /\ ~IsTemp(call[r].to)
           /\ call[r].path # Root => ~IsTemp(Front(call[r].path))
           /\ call[r].to # Root => ~IsTemp(Front(call[r].to))
  <1>1. /\ call[r].path \in Paths \cup {Root} /\ call[r].to \in Paths \cup {Root}
        /\ call[r].path \in Path /\ ~IsTemp(call[r].path)
        /\ call[r].to \in Path /\ ~IsTemp(call[r].to)
    BY TypesOf, CallPaths DEF AtomicInv
  <1>2. ASSUME NEW p \in Paths \cup {Root}, p # Root PROVE ~IsTemp(Front(p))
    <2>1. p \in Path /\ \A n \in 0 .. Len(p) : ~IsTemp(SubSeq(p, 1, n))
      BY NamedPath
    <2>2. Len(p) \in Nat \ {0} /\ Front(p) = SubSeq(p, 1, Len(p) - 1)
      BY <1>2, <2>1, ParentPath DEF Front, Root
    <2>3. Len(p) - 1 \in 0 .. Len(p)
      BY <2>2
    <2> QED
      BY <2>1, <2>2, <2>3
  <1> QED
    BY <1>1, <1>2

\* The rename of the temp file is the one effect of a Save or a Create.
LEMMA PublishImplements ==
    ASSUME AtomicInv, NEW r \in Req, Publish(r)
    PROVE  Implements(r)
  <1> DEFINE t == TempPath(r)
             to == call[r].path
  <1>1. /\ stage[r] = "publish" /\ UNCHANGED <<call, got>> /\ res[r] = "none"
        /\ call[r].op \in {"save", "create"}
    BY DEF Publish, AtomicInv, AllSuit, Suits
  <1>2. /\ t \in Path /\ to \in Path /\ IsTempOf(t, r) /\ IsTemp(t) /\ ~IsTemp(to) /\ Tree(fs)
    BY CallPaths, TypesOf DEF AtomicInv
  <1>3. CASE Renamable(fs, t, to) /\ fs' = MoveTree(fs, t, to) /\ Goto(r, "cleanup")
    <2>1. Moves(r, "cleanup", "none")
      BY <1>1, <1>3, WhatMoves DEF AtomicInv
    <2>2. t \in DOMAIN fs /\ fs[t] = FileNode(r) /\ ~IsDir(fs, t)
      BY <1>1, <1>2, <1>3 DEF Renamable, AtomicInv, TempsReady, Inv, TempsAreFiles
    <2>3. Settled(fs)' = Put(Settled(fs), to, FileNode(r))
      <3>1. Settled(fs') = Put(Settled(fs), to, FileNode(r))
        BY <1>2, <1>3, <2>2, SettledPublish
      <3> QED
        BY <3>1 DEF Settled
    <2>4. IsDir(Settled(fs), Front(to)) /\ ~IsDir(Settled(fs), to)
      <3>1. to # Root /\ IsDir(fs, Front(to)) /\ ~IsDir(fs, to)
        BY <1>3 DEF Renamable
      <3> QED
        BY <1>2, <3>1, PlacesNamed, SettledAt
    <2>5. Atomic!Effect(r)
      BY <1>1, <2>3, <2>4, SameLooks, SameChanges DEF Atomic!Effect
    <2>6. Atomic!Advance(r, PhaseAt("cleanup", "none")) /\ AllSuit'
      BY <1>1, <2>1, Progress DEF Suits
    <2>7. Atomic!Apply(r)
      <3>1. phaseBar[r] = "begun" /\ PhaseAt("cleanup", "none") = "applied"
        BY <1>1, PhaseBarAt DEF PhaseAt
      <3> QED
        BY <1>1, <2>5, <2>6, <3>1 DEF Atomic!Apply, phaseBar
    <2>8. ASSUME NEW p \in DOMAIN fs', IsTemp(p)
          PROVE  \E x \in DOMAIN fs : fs'[p] = fs[x] /\ x # Root /\ Last(p) = Last(x)
      <3>1. PICK x \in DOMAIN fs : /\ fs'[p] = fs[x]
                                   /\ \/ p = x
                                      \/ p = to /\ x = t
                                      \/ p # Root /\ x # Root /\ Last(p) = Last(x)
        BY <1>2, <1>3, MovedNames
      <3> QED
        BY <1>2, <2>8, <3>1 DEF IsTemp
    <2>9. TempsReady'
      BY <2>1, <2>8, TempsCarried
    <2> QED
      BY <2>6, <2>7, <2>9 DEF Implements, Steps
  <1>4. CASE UNCHANGED fs /\ Abort(r)
    <2>1. Moves(r, "cleanup", "failed") /\ Settled(fs)' = Settled(fs)
      BY <1>4, WhatMoves DEF AtomicInv, Settled
    <2>2. /\ PhaseAt("cleanup", "failed") = PhaseAt(stage[r], res[r])
          /\ Suits("cleanup", "failed", call[r].op)
      BY <1>1 DEF PhaseAt, Suits
    <2>3. Steps(r) /\ AllSuit'
      BY <1>1, <2>1, <2>2, Unseen
    <2>4. TempsReady'
      BY <1>4, <2>1, TempsStay
    <2> QED
      BY <2>3, <2>4 DEF Implements
  <1> QED
    BY <1>3, <1>4 DEF Publish

LEMMA CleanupImplements ==
    ASSUME AtomicInv, NEW r \in Req, Cleanup(r)
    PROVE  Implements(r)
  <1>1. /\ stage[r] = "cleanup" /\ UNCHANGED <<call, got>> /\ fs' = Drop(fs, TempPath(r))
        /\ res[r] \in {"none", "failed"} /\ IsTemp(TempPath(r))
    BY CallPaths DEF Cleanup, AtomicInv, AllSuit, Suits
  <1>2. Settled(fs)' = Settled(fs)
    <2>1. Settled(fs') = Settled(fs)
      BY <1>1, SettledDrop
    <2> QED
      BY <2>1 DEF Settled
  <1>3. \A p \in DOMAIN fs' : p \in DOMAIN fs /\ fs'[p] = fs[p]
    BY <1>1 DEF Drop
  <1>4. \A p \in DOMAIN fs' : IsTemp(p) =>
          \E x \in DOMAIN fs : fs'[p] = fs[x] /\ x # Root /\ Last(p) = Last(x)
    BY <1>3 DEF IsTemp
  <1>5. CASE res[r] = "none"
    <2>1. Moves(r, "info", "none")
      BY <1>5, WhatMoves DEF Cleanup, AtomicInv
    <2>2. PhaseAt("info", "none") = PhaseAt(stage[r], res[r]) /\ Suits("info", "none", call[r].op)
      BY <1>1, <1>5 DEF PhaseAt, Suits
    <2>3. Steps(r) /\ AllSuit'
      BY <1>1, <1>2, <2>1, <2>2, Unseen
    <2>4. TempsReady'
      BY <1>4, <2>1, TempsCarried
    <2> QED
      BY <2>3, <2>4 DEF Implements
  <1>6. CASE res[r] = "failed"
    <2>1. Moves(r, "done", "failed")
      BY <1>6, WhatMoves DEF Cleanup, AtomicInv
    <2>2. Atomic!GiveUp(r) /\ AllSuit'
      BY <1>1, <1>2, <1>6, <2>1, GivesUp DEF PhaseAt
    <2>3. TempsReady'
      BY <1>4, <2>1, TempsCarried
    <2> QED
      BY <2>2, <2>3 DEF Implements, Steps
  <1> QED
    BY <1>1, <1>5, <1>6

LEMMA InfoImplements ==
    ASSUME AtomicInv, NEW r \in Req, Info(r)
    PROVE  Implements(r)
  <1>1. stage[r] = "info" /\ UNCHANGED <<fs, call, got>>
    BY DEF Info
  <1>2. Settled(fs)' = Settled(fs) /\ phaseBar[r] = "applied"
    BY <1>1, PhaseBarAt DEF Settled, PhaseAt
  <1>3. PICK v \in {"ok", "failed"} : Moves(r, "done", v)
    BY WhatMoves DEF Info, AtomicInv
  <1>4. TempsReady'
    BY <1>1, <1>3, TempsStay
  <1>5. CASE v = "ok"
    <2>1. Atomic!Close(r, "ok") /\ AllSuit'
      BY <1>1, <1>3, <1>5, Progress DEF Suits
    <2>2. Atomic!Confirm(r)
      BY <1>1, <1>2, <2>1 DEF Atomic!Confirm, phaseBar
    <2> QED
      BY <1>4, <2>1, <2>2 DEF Implements, Steps
  <1>6. CASE v = "failed"
    <2>1. PhaseAt(stage[r], res[r]) = "applied"
      BY <1>1 DEF PhaseAt
    <2>2. Atomic!GiveUp(r) /\ AllSuit'
      BY <1>1, <1>2, <1>3, <1>6, <2>1, GivesUp
    <2> QED
      BY <1>4, <2>2 DEF Implements, Steps
  <1> QED
    BY <1>5, <1>6

\* The rename a Rename or RenameDir asked for is its one effect.
LEMMA MoveImplements ==
    ASSUME AtomicInv, NEW r \in Req, Move(r)
    PROVE  Implements(r)
  <1> DEFINE from == call[r].path
             to == call[r].to
  <1>1. /\ stage[r] = "move" /\ UNCHANGED <<call, got>> /\ res[r] = "none"
        /\ call[r].op \in {"rename", "rename_dir"}
    BY DEF Move, AtomicInv, AllSuit, Suits, Inv, OnCourse, Course
  <1>2. from \in Path /\ to \in Path /\ ~IsTemp(from) /\ ~IsTemp(to) /\ Tree(fs)
    BY CallPaths, TypesOf DEF AtomicInv
  <1>3. phaseBar[r] = "begun" /\ PhaseAt(stage[r], res[r]) = "begun"
    BY <1>1, PhaseBarAt DEF PhaseAt
  <1>4. CASE /\ Renamable(fs, from, to) /\ fs' = MoveTree(fs, from, to)
             /\ IF call[r].op = "rename" THEN Goto(r, "info") ELSE Answer(r, "ok")
    <2>1. Settled(fs)' = MoveTree(Settled(fs), from, to)
      <3>1. Settled(fs') = MoveTree(Settled(fs), from, to)
        BY <1>2, <1>4, SettledMove
      <3> QED
        BY <3>1 DEF Settled
    <2>2. Renamable(Settled(fs), from, to)
      <3>1. ~IsTemp(Front(to))
        BY <1>4, PlacesNamed DEF Renamable
      <3> QED
        BY <1>2, <1>4, <3>1, SettledRenamable
    <2>3. Atomic!Effect(r)
      BY <1>1, <2>1, <2>2, SameChanges DEF Atomic!Effect
    <2>4. PICK s \in {"info", "done"}, v \in {"none", "ok"} :
             Moves(r, s, v) /\ (s = "info" => v = "none") /\ (s = "done" => v = "ok")
      <3>1. CASE call[r].op = "rename"
        BY <1>1, <1>4, <3>1, WhatMoves DEF AtomicInv
      <3>2. CASE call[r].op # "rename"
        BY <1>4, <3>2, WhatMoves DEF AtomicInv
      <3> QED
        BY <3>1, <3>2
    <2>5. /\ s = "done" => Atomic!Close(r, "ok")
          /\ s # "done" => Atomic!Advance(r, "applied")
          /\ AllSuit'
      <3>1. /\ s = "done" => Atomic!Close(r, v)
            /\ s # "done" => Atomic!Advance(r, PhaseAt(s, v))
            /\ call' = call /\ Suits(s, v, call[r].op) => AllSuit'
        BY <1>1, <2>4, Progress
      <3>2. Suits(s, v, call[r].op) /\ PhaseAt("info", "none") = "applied"
        BY <2>4 DEF Suits, PhaseAt
      <3> QED
        BY <1>1, <2>4, <3>1, <3>2
    <2>6. Atomic!Apply(r)
      BY <1>1, <1>3, <2>3, <2>4, <2>5 DEF Atomic!Apply, phaseBar
    <2>7. ASSUME NEW p \in DOMAIN fs', IsTemp(p)
          PROVE  \E x \in DOMAIN fs : fs'[p] = fs[x] /\ x # Root /\ Last(p) = Last(x)
      <3>1. PICK x \in DOMAIN fs : /\ fs'[p] = fs[x]
                                   /\ \/ p = x
                                      \/ p = to /\ x = from
                                      \/ p # Root /\ x # Root /\ Last(p) = Last(x)
        BY <1>2, <1>4, MovedNames
      <3> QED
        BY <1>2, <2>7, <3>1 DEF IsTemp
    <2>8. TempsReady'
      BY <2>4, <2>7, TempsCarried
    <2> QED
      BY <2>5, <2>6, <2>8 DEF Implements, Steps
  <1>5. CASE UNCHANGED fs /\ Answer(r, "failed")
    <2>1. Moves(r, "done", "failed") /\ Settled(fs)' = Settled(fs)
      BY <1>5, WhatMoves DEF AtomicInv, Settled
    <2>2. Atomic!GiveUp(r) /\ AllSuit'
      BY <1>1, <1>3, <2>1, GivesUp
    <2>3. TempsReady'
      BY <1>5, <2>1, TempsStay
    <2> QED
      BY <2>2, <2>3 DEF Implements, Steps
  <1> QED
    BY <1>4, <1>5 DEF Move

LEMMA ReadDirImplements ==
    ASSUME AtomicInv, NEW r \in Req, ReadDir(r)
    PROVE  Implements(r)
  <1>1. /\ stage[r] = "read_dir" /\ UNCHANGED <<fs, call, got>> /\ res[r] = "none"
        /\ call[r].op \in {"delete", "delete_dir"}
    BY DEF ReadDir, AtomicInv, AllSuit, Suits
  <1>2. Settled(fs)' = Settled(fs) /\ PhaseAt(stage[r], res[r]) = "open"
    BY <1>1 DEF Settled, PhaseAt
  <1>3. CASE Goto(r, "remove")
    <2>1. Moves(r, "remove", "none")
      BY <1>1, <1>3, WhatMoves DEF AtomicInv
    <2>2. PhaseAt("remove", "none") = "open" /\ Suits("remove", "none", call[r].op)
      BY <1>1 DEF PhaseAt, Suits
    <2>3. Steps(r) /\ AllSuit'
      BY <1>1, <1>2, <2>1, <2>2, Unseen
    <2>4. TempsReady'
      BY <1>1, <2>1, TempsStay
    <2> QED
      BY <2>3, <2>4 DEF Implements
  <1>4. ASSUME NEW v \in {"refused", "failed"}, Answer(r, v) PROVE Implements(r)
    <2>1. Moves(r, "done", v)
      BY <1>4, WhatMoves DEF AtomicInv
    <2>2. Atomic!GiveUp(r) /\ AllSuit'
      BY <1>1, <1>2, <2>1, GivesUp
    <2>3. TempsReady'
      BY <1>1, <2>1, TempsStay
    <2> QED
      BY <2>2, <2>3 DEF Implements, Steps
  <1> QED
    BY <1>3, <1>4 DEF ReadDir

LEMMA UnlinkImplements ==
    ASSUME AtomicInv, NEW r \in Req, Unlink(r)
    PROVE  Implements(r)
  <1> DEFINE p == call[r].path
  <1>1. /\ stage[r] = "remove" /\ UNCHANGED <<call, got>> /\ res[r] = "none"
        /\ call[r].op \in {"delete", "delete_dir"} /\ ~IsTemp(p)
    BY CallPaths DEF Unlink, AtomicInv, AllSuit, Suits
  <1>2. phaseBar[r] = "open" /\ PhaseAt(stage[r], res[r]) = "open"
    BY <1>1, PhaseBarAt DEF PhaseAt
  <1>3. CASE Removable(fs, p) /\ fs' = Drop(fs, p) /\ Answer(r, "ok")
    <2>1. Removable(Settled(fs), p)
      BY <1>1, <1>3, SettledRemovable
    <2>2. Settled(fs)' = Drop(Settled(fs), p)
      <3>1. Settled(fs') = Drop(Settled(fs), p)
        BY <1>1, <1>3, SettledDrop
      <3> QED
        BY <3>1 DEF Settled
    <2>3. Atomic!Effect(r)
      BY <1>1, <2>1, <2>2, SameChanges DEF Atomic!Effect
    <2>4. Moves(r, "done", "ok")
      BY <1>3, WhatMoves DEF AtomicInv
    <2>5. Atomic!Close(r, "ok") /\ AllSuit'
      BY <1>1, <2>4, Progress DEF Suits
    <2>6. Atomic!Apply(r)
      BY <1>1, <1>2, <2>3, <2>5 DEF Atomic!Apply, phaseBar
    <2>7. \A x \in DOMAIN fs' : x \in DOMAIN fs /\ fs'[x] = fs[x]
      BY <1>3 DEF Drop
    <2>8. TempsReady'
      BY <2>4, <2>7, TempsCarried DEF IsTemp
    <2> QED
      BY <2>5, <2>6, <2>8 DEF Implements, Steps
  <1>4. CASE UNCHANGED fs /\ Answer(r, "failed")
    <2>1. Moves(r, "done", "failed") /\ Settled(fs)' = Settled(fs)
      BY <1>4, WhatMoves DEF AtomicInv, Settled
    <2>2. Atomic!GiveUp(r) /\ AllSuit'
      BY <1>1, <1>2, <2>1, GivesUp
    <2>3. TempsReady'
      BY <1>4, <2>1, TempsStay
    <2> QED
      BY <2>2, <2>3 DEF Implements, Steps
  <1> QED
    BY <1>3, <1>4 DEF Unlink

LEMMA KillKeeps ==
    ASSUME AtomicInv, KillsSome
    PROVE  AtomicInv'
  <1>1. UNCHANGED <<fs, call, res, got>> /\ \A r \in Req : stage'[r] \in {"killed", stage[r]}
    BY DEF KillsSome
  <1>2. AllSuit'
    BY <1>1 DEF AllSuit, Suits, AtomicInv
  <1>3. TempsReady'
    BY <1>1 DEF TempsReady, AtomicInv
  <1> QED
    BY <1>2, <1>3, KillInv DEF AtomicInv

LEMMA CrashImplements ==
    ASSUME AtomicInv, Crash
    PROVE  Atomic!Kill /\ AllSuit' /\ TempsReady'
  <1>0. PICK S \in SUBSET {r \in Req : InFlight(r)} : Killed(S)
    BY DEF Crash
  <1>1. /\ UNCHANGED <<fs, call, res, got>>
        /\ S \in SUBSET Req
        /\ \A r \in S : InFlight(r)
        /\ \A r \in Req : stage'[r] = IF r \in S THEN "killed" ELSE stage[r]
    BY <1>0 DEF Crash, Killed
  <1>3. \A r \in Req : PhaseOf(r)' = IF r \in S /\ PhaseOf(r) # "idle" THEN "closed"
                                                                   ELSE PhaseOf(r)
    <2> SUFFICES ASSUME NEW r \in Req
                 PROVE  PhaseOf(r)' = IF r \in S /\ PhaseOf(r) # "idle" THEN "closed"
                                                                     ELSE PhaseOf(r)
      OBVIOUS
    <2>1. PhaseOf(r)' = PhaseAt(stage'[r], res'[r])
      BY DEF PhaseOf, PhaseAt
    <2>2. PhaseOf(r) = PhaseAt(stage[r], res[r])
      BY PhaseBarAt
    <2>3. CASE r \in S
      <3>1. stage'[r] = "killed" /\ stage[r] # "idle"
        BY <1>1, <2>3 DEF InFlight, Waiting
      <3>2. PhaseAt(stage[r], res[r]) # "idle"
        BY <3>1 DEF PhaseAt
      <3> QED
        BY <2>1, <2>2, <2>3, <3>1, <3>2 DEF PhaseAt
    <2>4. CASE r \notin S
      BY <1>1, <2>1, <2>2, <2>4
    <2> QED
      BY <2>3, <2>4
  <1>4. \A r \in Req : stage'[r] = "done" <=> stage[r] = "done"
    BY <1>1 DEF InFlight, Waiting
  <1>5. replyBar' = replyBar
    BY <1>1, <1>4 DEF replyBar
  <1>6. phaseBar' = [r \in Req |-> IF r \in S /\ phaseBar[r] # "idle" THEN "closed"
                                                                 ELSE phaseBar[r]]
    BY <1>3 DEF phaseBar
  <1>7. Settled(fs)' = Settled(fs)
    BY <1>1 DEF Settled
  <1>8. Atomic!Kill
    BY <1>1, <1>5, <1>6, <1>7 DEF Atomic!Kill, phaseBar, replyBar
  <1>9. AllSuit' /\ TempsReady'
    BY CrashKills, KillKeeps DEF AtomicInv
  <1> QED
    BY <1>8, <1>9

-----------------------------------------------------------------------------
(* The refinement.                                                          *)

LEMMA AtomicStarts == Init => AtomicInv /\ Atomic!Init
  <1> SUFFICES ASSUME Init PROVE AtomicInv /\ Atomic!Init
    OBVIOUS
  <1>1. AllSuit /\ TempsReady
    BY DEF Init, AllSuit, Suits, TempsReady, NoCall
  <1>2. NoCall = Atomic!NoAsk
    BY DEF NoCall, Call, Atomic!NoAsk, Atomic!Root, Root
  <1>3. \A r \in Req : PhaseOf(r) = "idle" /\ stage[r] # "done"
    BY DEF Init, PhaseOf
  <1>4. Settled(fs) \in {Atomic!Settled(t) : t \in Trees}
    BY SameLooks DEF Init
  <1>5. Atomic!Init
    BY <1>2, <1>3, <1>4 DEF Init, Atomic!Init
  <1> QED
    BY <1>1, <1>5, InitInv DEF AtomicInv

LEMMA RequestImplements ==
    ASSUME AtomicInv, NEW r \in Req, Arrive(r) \/ Continue(r)
    PROVE  Implements(r)
  <1>1. CASE Arrive(r)
    BY <1>1, ArriveImplements
  <1>2. CASE ReadFile(r) \/ StatTo(r) \/ MkdirAll(r) \/ MkdirNext(r)
    BY <1>2, ReadFileImplements, StatToImplements, MkdirAllImplements, MkdirNextImplements
  <1>3. CASE CreateTemp(r) \/ Flush(r) \/ FlushFails(r) \/ Publish(r)
    BY <1>3, CreateTempImplements, FlushImplements, FlushFailsImplements, PublishImplements
  <1>4. CASE Cleanup(r) \/ Info(r) \/ Move(r) \/ ReadDir(r) \/ Unlink(r)
    BY <1>4, CleanupImplements, InfoImplements, MoveImplements, ReadDirImplements, UnlinkImplements
  <1> QED
    BY <1>1, <1>2, <1>3, <1>4 DEF Continue

LEMMA AtomicStep == AtomicInv /\ [Next]_vars => AtomicInv' /\ [Atomic!Next]_(Atomic!vars)
  <1> SUFFICES ASSUME AtomicInv, [Next]_vars
               PROVE  AtomicInv' /\ [Atomic!Next]_(Atomic!vars)
    OBVIOUS
  <1>1. Inv'
    BY StepInv DEF AtomicInv
  <1>2. Stutters <=> UNCHANGED Atomic!vars
    BY DEF Stutters, Atomic!vars, phaseBar, replyBar
  <1>3. ASSUME NEW r \in Req, Arrive(r) \/ Continue(r) PROVE Implements(r)
    BY <1>3, RequestImplements
  <1>4. \A r \in Req : Steps(r) => Atomic!Next \/ Stutters
    BY DEF Steps, Atomic!Next
  <1>5. CASE \E r \in Req : Arrive(r) \/ Continue(r)
    BY <1>1, <1>2, <1>3, <1>4, <1>5 DEF Implements, AtomicInv
  <1>6. CASE Crash
    BY <1>1, <1>6, CrashImplements DEF AtomicInv, Atomic!Next
  <1>7. CASE UNCHANGED vars
    <2>1. UNCHANGED <<fs, call, stage, res, got>>
      BY <1>7 DEF vars
    <2>2. AllSuit' /\ TempsReady'
      BY <2>1 DEF AtomicInv, AllSuit, TempsReady
    <2>3. Stutters
      BY <2>1 DEF Stutters, Settled, phaseBar, replyBar, PhaseOf
    <2> QED
      BY <1>1, <1>2, <2>2, <2>3 DEF AtomicInv
  <1> QED
    BY <1>5, <1>6, <1>7 DEF Next, Quiet

\* The invariants hold in every reachable state.
THEOREM AtomicInvariance == Spec => []AtomicInv
  <1>1. AtomicInv /\ [Next]_vars => AtomicInv'
    BY AtomicStep
  <1> QED
    BY <1>1, AtomicStarts, PTL DEF Spec

(***************************************************************************)
(* Every operation of the Manager takes effect at most once, in one step    *)
(* between its arrival and its answer, in which no half-written file is to  *)
(* be seen, however the system calls of the requests interleave and         *)
(* wherever the process is killed: writeFileAtomic, os.Rename, os.Remove    *)
(* and each os.Mkdir are that step, and no other changes what is seen.      *)
(***************************************************************************)
THEOREM ManagerIsAtomic == Spec => CallsAreAtomic
  BY AtomicStarts, AtomicStep, AtomicInvariance, PTL DEF Spec, CallsAreAtomic, Atomic!Spec

-----------------------------------------------------------------------------
(* What a step of files.Manager does to the files the index knows of.       *)

SameFiles(S) == \A p \in Path \ S : ~IsTemp(p) => (IsFile(fs', p) <=> IsFile(fs, p))

\* Request r has had its effect.
Took(r) == phaseBar[r] = "applied" \/ replyBar[r] = "ok"

Rests(r) == SameFiles({}) /\ (Took(r)' => Took(r) \/ call[r].op \in {"read", "mkdir"})

Writes(r) ==
    /\ call[r].op \in {"save", "create"}
    /\ Took(r)'
    /\ IsFile(fs', call[r].path)
    /\ SameFiles({call[r].path})

Deletes(r) ==
    /\ call[r].op \in {"delete", "delete_dir"}
    /\ Took(r)'
    /\ ~IsFile(fs', call[r].path)
    /\ SameFiles({call[r].path})

Renames(r) ==
    LET from == call[r].path
        to   == call[r].to
    IN  /\ call[r].op \in {"rename", "rename_dir"}
        /\ Took(r)'
        /\ SameFiles({p \in Path : IsPrefix(from, p) \/ IsPrefix(to, p)})
        /\ IsFile(fs, from) =>
              /\ SameFiles({from, to})
              /\ IsFile(fs', to)
              /\ from # to => ~IsFile(fs', from)

\* No directory is a temp file, so the tree without them is one.
LEMMA SettledTree ==
    ASSUME Inv
    PROVE  Tree(Settled(fs))
  <1>1. Tree(fs) /\ ~IsTemp(Root)
    BY TypesOf DEF IsTemp
  <1>2. ASSUME NEW p \in DOMAIN Settled(fs)
        PROVE  /\ p \in DOMAIN fs /\ Settled(fs)[p] = fs[p]
               /\ \A n \in 0 .. Len(p) - 1 : IsDir(Settled(fs), SubSeq(p, 1, n))
    <2>1. p \in DOMAIN fs /\ Settled(fs)[p] = fs[p]
      BY <1>2 DEF Settled
    <2>2. ASSUME NEW n \in 0 .. Len(p) - 1
          PROVE  IsDir(Settled(fs), SubSeq(p, 1, n))
      <3>1. IsDir(fs, SubSeq(p, 1, n))
        BY <1>1, <2>1 DEF Tree
      <3>2. ~IsTemp(SubSeq(p, 1, n))
        BY <3>1 DEF Inv, TempsAreFiles, IsDir
      <3> QED
        BY <3>1, <3>2, SettledAt
    <2> QED
      BY <2>1, <2>2
  <1>3. IsDir(Settled(fs), Root)
    BY <1>1, SettledAt DEF Tree
  <1> QED
    BY <1>1, <1>2, <1>3 DEF Tree

\* Of a file, os.Rename moves nothing but the file.
LEMMA MovedFiles ==
    ASSUME NEW t, Tree(t), NEW from \in Path, NEW to \in Path, Renamable(t, from, to),
           NEW u, u = MoveTree(t, from, to)
    PROVE  /\ \A p \in Path : ~IsPrefix(from, p) /\ ~IsPrefix(to, p) => (IsFile(u, p) <=> IsFile(t, p))
           /\ IsFile(t, from) =>
                 /\ \A p \in Path \ {from, to} : IsFile(u, p) <=> IsFile(t, p)
                 /\ IsFile(u, to)
                 /\ from # to => ~IsFile(u, from)
  <1>1. \A p \in Path : IsPrefix(p, p)
    BY PrefixElements, PathLength
  <1>2. ASSUME NEW p \in Path, ~IsPrefix(from, p), ~IsPrefix(to, p)
        PROVE  IsFile(u, p) <=> IsFile(t, p)
    <2>1. p \in DOMAIN u => p \in DOMAIN t /\ u[p] = t[p]
      <3> SUFFICES ASSUME p \in DOMAIN u PROVE p \in DOMAIN t /\ u[p] = t[p]
        OBVIOUS
      <3>1. \A x \in DOMAIN t : IsPrefix(from, x) => p # Rebase(x, from, to)
        BY <1>2, RebaseBack DEF Tree
      <3> QED
        BY <3>1, MovedEntries
    <2>2. p \in DOMAIN t => p \in DOMAIN u /\ u[p] = t[p]
      BY <1>1, <1>2, StayingEntries
    <2> QED
      BY <2>1, <2>2 DEF IsFile
  <1>3. ASSUME IsFile(t, from)
        PROVE  /\ \A p \in Path \ {from, to} : IsFile(u, p) <=> IsFile(t, p)
               /\ IsFile(u, to)
               /\ from # to => ~IsFile(u, from)
    <2>1. \A x \in DOMAIN t : IsPrefix(from, x) => x = from
      BY <1>3, AncestorIsDir DEF IsFile, IsDir
    <2>2. Rebase(from, from, to) = to /\ from \in DOMAIN t
      BY <1>1, <1>3, RebaseStrict DEF IsFile
    <2>3. to \in DOMAIN u /\ u[to] = t[from]
      BY <1>1, <2>2, MovingEntries
    <2>4. \A p \in DOMAIN u : p = to \/ (p \in DOMAIN t /\ u[p] = t[p] /\ ~IsPrefix(from, p))
      BY <2>1, <2>2, MovedEntries
    <2>5. ASSUME NEW p \in Path \ {from, to}
          PROVE  IsFile(u, p) <=> IsFile(t, p)
      <3>1. p \in DOMAIN t => p \in DOMAIN u /\ u[p] = t[p]
        BY <2>1, StayingEntries
      <3> QED
        BY <2>4, <3>1 DEF IsFile
    <2>6. from # to => from \notin DOMAIN u
      BY <1>1, <2>4
    <2> QED
      BY <1>3, <2>3, <2>5, <2>6 DEF IsFile
  <1> QED
    BY <1>2, <1>3

\* The file system as the index sees it.
LEMMA SeenFiles ==
    ASSUME NEW p, ~IsTemp(p)
    PROVE  /\ IsFile(fs, p) <=> IsFile(Settled(fs), p)
           /\ IsFile(fs', p) <=> IsFile(Settled(fs'), p)
           /\ p \in DOMAIN fs <=> p \in DOMAIN Settled(fs)
  BY SettledAt

LEMMA PutFiles ==
    ASSUME NEW t, NEW p, NEW n, NEW q
    PROVE  IsFile(Put(t, p, n), q) <=> IF q = p THEN n.kind = "file" ELSE IsFile(t, q)
  BY DEF Put, IsFile

LEMMA DropFiles ==
    ASSUME NEW t, NEW p, NEW q
    PROVE  IsFile(Drop(t, p), q) <=> q # p /\ IsFile(t, q)
  BY DEF Drop, IsFile

\* The effect of a call, as AtomicFiles has it.
LEMMA EffectOnFiles ==
    ASSUME Inv, NEW r \in Req, Atomic!Effect(r), Took(r)'
    PROVE  Writes(r) \/ Deletes(r) \/ Renames(r)
  <1> DEFINE P == call[r].path
             Q == call[r].to
             t == Settled(fs)
  <1>0. P \in Path /\ Q \in Path /\ ~IsTemp(P) /\ ~IsTemp(Q) /\ Tree(t)
    BY CallPaths, SettledTree
  <1>1. Settled(fs)' = Settled(fs')
    BY DEF Settled
  <1>2. CASE call[r].op \in {"save", "create"} /\ Settled(fs') = Put(t, P, FileNode(r))
    <2>1. \A p \in Path : ~IsTemp(p) => (IsFile(fs', p) <=> p = P \/ IsFile(fs, p))
      <3> SUFFICES ASSUME NEW p \in Path, ~IsTemp(p)
                   PROVE  IsFile(fs', p) <=> p = P \/ IsFile(fs, p)
        OBVIOUS
      <3>1. FileNode(r).kind = "file"
        BY DEF FileNode
      <3>2. IsFile(Settled(fs'), p) <=> IF p = P THEN FileNode(r).kind = "file" ELSE IsFile(t, p)
        BY <1>2, PutFiles
      <3> QED
        BY <3>1, <3>2, SeenFiles
    <2> QED
      BY <1>0, <1>2, <2>1 DEF Writes, SameFiles
  <1>3. CASE call[r].op \in {"delete", "delete_dir"} /\ Settled(fs') = Drop(t, P)
    <2>1. \A p \in Path : ~IsTemp(p) => (IsFile(fs', p) <=> p # P /\ IsFile(fs, p))
      BY <1>3, DropFiles, SeenFiles
    <2> QED
      BY <1>0, <1>3, <2>1 DEF Deletes, SameFiles
  <1>4. CASE /\ call[r].op \in {"rename", "rename_dir"}
             /\ Renamable(t, P, Q) /\ Settled(fs') = MoveTree(t, P, Q)
    <2> DEFINE u == Settled(fs')
    <2>1. /\ \A p \in Path : ~IsPrefix(P, p) /\ ~IsPrefix(Q, p) => (IsFile(u, p) <=> IsFile(t, p))
          /\ IsFile(t, P) =>
                /\ \A p \in Path \ {P, Q} : IsFile(u, p) <=> IsFile(t, p)
                /\ IsFile(u, Q)
                /\ P # Q => ~IsFile(u, P)
      BY <1>0, <1>4, MovedFiles
    <2> HIDE DEF u, t
    <2>2. \A p : ~IsTemp(p) => (IsFile(fs, p) <=> IsFile(t, p)) /\ (IsFile(fs', p) <=> IsFile(u, p))
      BY SeenFiles DEF u, t
    <2>3. SameFiles({p \in Path : IsPrefix(P, p) \/ IsPrefix(Q, p)})
      BY <2>1, <2>2 DEF SameFiles
    <2>4. IsFile(fs, P) => SameFiles({P, Q}) /\ IsFile(fs', Q) /\ (P # Q => ~IsFile(fs', P))
      BY <1>0, <2>1, <2>2 DEF SameFiles
    <2> QED
      BY <1>4, <2>3, <2>4 DEF Renames
  <1> QED
    BY <1>1, <1>2, <1>3, <1>4, SameChanges, SameLooks DEF Atomic!Effect

\* A step of request r leaves the others where they were, and does one of four
\* things to the files.
Acts(r) ==
    /\ call' = call
    /\ \A q \in Req \ {r} : phaseBar'[q] = phaseBar[q] /\ replyBar'[q] = replyBar[q]
    /\ phaseBar'[r] # "idle"
    /\ \/ Rests(r)
       \/ ~Took(r) /\ (Writes(r) \/ Deletes(r) \/ Renames(r))

LEMMA StepsAct ==
    ASSUME Inv, NEW r \in Req, Steps(r), phaseBar[r] \notin {"idle", "closed"}
    PROVE  Acts(r)
  <1>0. DOMAIN phaseBar = Req /\ DOMAIN replyBar = Req
    BY DEF phaseBar, replyBar
  <1>1. Settled(fs)' = Settled(fs')
    BY DEF Settled
  <1>2. Settled(fs') = Settled(fs) => SameFiles({})
    BY SeenFiles DEF SameFiles
  <1>a. \A ph : Atomic!Advance(r, ph) =>
           /\ phaseBar' = [phaseBar EXCEPT ![r] = ph] /\ replyBar' = replyBar
    BY DEF Atomic!Advance, phaseBar, replyBar
  <1>c. \A v : Atomic!Close(r, v) =>
           /\ phaseBar' = [phaseBar EXCEPT ![r] = "closed"] /\ replyBar' = [replyBar EXCEPT ![r] = v]
    BY DEF Atomic!Close, phaseBar, replyBar
  <1>3. ~Atomic!Open(r)
    BY DEF Atomic!Open, phaseBar
  <1>4. CASE Atomic!Begin(r)
    BY <1>0, <1>1, <1>2, <1>4, <1>a DEF Atomic!Begin, Acts, Rests, Took
  <1>5. CASE Atomic!GiveUp(r)
    <2>1. (\E v \in {"refused", "failed"} : Atomic!Close(r, v)) /\ UNCHANGED <<Settled(fs), call>>
      BY <1>5 DEF Atomic!GiveUp
    <2> QED
      BY <1>0, <1>1, <1>2, <1>c, <2>1 DEF Acts, Rests, Took
  <1>6. CASE Atomic!Give(r)
    <2>1. Atomic!Close(r, "ok") /\ UNCHANGED <<Settled(fs), call>> /\ call[r].op = "read"
      BY <1>6 DEF Atomic!Give
    <2> QED
      BY <1>0, <1>1, <1>2, <1>c, <2>1 DEF Acts, Rests, Took
  <1>7. CASE Atomic!MakeDir(r)
    <2>1. PICK q : /\ q \notin DOMAIN Settled(fs)
                   /\ Settled(fs)' = Put(Settled(fs), q, DirNode)
                   /\ \/ UNCHANGED <<phaseBar, replyBar>>
                      \/ call[r].op = "mkdir" /\ Atomic!Close(r, "ok")
      BY <1>7, SameLooks, SameChanges DEF Atomic!MakeDir, phaseBar, replyBar
    <2>2. call' = call
      BY <1>7 DEF Atomic!MakeDir
    <2>3. SameFiles({})
      <3>1. ASSUME NEW p PROVE IsFile(Settled(fs'), p) <=> IsFile(Settled(fs), p)
        BY <1>1, <2>1, PutFiles DEF DirNode, IsFile
      <3> QED
        BY <3>1, SeenFiles DEF SameFiles
    <2>4. Took(r)' => Took(r) \/ call[r].op = "mkdir"
      BY <2>1 DEF Took
    <2>5. \A x \in Req \ {r} : phaseBar'[x] = phaseBar[x] /\ replyBar'[x] = replyBar[x]
      BY <1>0, <1>c, <2>1
    <2>6. phaseBar'[r] # "idle"
      BY <1>0, <1>c, <2>1
    <2> QED
      BY <2>2, <2>3, <2>4, <2>5, <2>6 DEF Acts, Rests
  <1>8. CASE Atomic!DirMade(r)
    <2>1. Atomic!Close(r, "ok") /\ UNCHANGED <<Settled(fs), call>> /\ call[r].op = "mkdir"
      BY <1>8 DEF Atomic!DirMade
    <2> QED
      BY <1>0, <1>1, <1>2, <1>c, <2>1 DEF Acts, Rests, Took
  <1>9. CASE Atomic!Apply(r)
    <2>1. /\ Atomic!Effect(r) /\ call' = call
          /\ Atomic!Advance(r, "applied") \/ Atomic!Close(r, "ok")
          /\ phaseBar[r] \in {"open", "begun"}
      BY <1>9 DEF Atomic!Apply, phaseBar
    <2>3. ~Took(r)
      BY <2>1 DEF Took, phaseBar, replyBar, PhaseOf
    <2>2. /\ Took(r)' /\ phaseBar'[r] # "idle"
          /\ \A q \in Req \ {r} : phaseBar'[q] = phaseBar[q] /\ replyBar'[q] = replyBar[q]
      BY <1>0, <1>a, <1>c, <2>1 DEF Took
    <2> QED
      BY <2>1, <2>2, <2>3, EffectOnFiles DEF Acts
  <1>10. CASE Atomic!Confirm(r)
    <2>1. Atomic!Close(r, "ok") /\ UNCHANGED <<Settled(fs), call>> /\ phaseBar[r] = "applied"
      BY <1>10 DEF Atomic!Confirm, phaseBar
    <2> QED
      BY <1>0, <1>1, <1>2, <1>c, <2>1 DEF Acts, Rests, Took
  <1>11. CASE Stutters
    BY <1>1, <1>2, <1>11 DEF Stutters, Acts, Rests, Took
  <1> QED
    BY <1>3, <1>4, <1>5, <1>6, <1>7, <1>8, <1>9, <1>10, <1>11 DEF Steps

-----------------------------------------------------------------------------
(* What the index has to do with the disk.                                  *)

\* The paths a change of r may have made the index wrong about.
Touched(r) ==
    IF ~Changes(r) \/ ~Took(r) THEN {}
    ELSE CASE call[r].op \in {"create", "delete"} -> {call[r].path}
           [] call[r].op = "rename" -> Named(call[r])
           [] OTHER -> {}

\* Nothing overlapped request r, nor did a Build run beside it.
Trusted(r) == Changes(r) /\ ~(Named(call[r]) \subseteq raced)

InfoOf == \A r \in Req : stage[r] = "info" => call[r].op \in {"save", "create", "rename"}

\* What the first step of a request made sure of.
Asked ==
    \A r \in Req : Changes(r) =>
        /\ call[r].op \in {"save", "create", "delete", "rename"} => IsMarkdown(call[r].path)
        /\ call[r].op = "rename" => IsMarkdown(call[r].to)
        /\ Named(call[r]) \subseteq Paths

NewcomersOwe == \A r \in Req : phaseBar[r] = "idle" => r \notin indexed

\* Every change beside a Build is noted for it.
Dirtied ==
    \A b \in Builder : Walking(b) =>
        \A r \in Req : Changes(r) => Named(call[r]) \subseteq dirty[b]

\* A Build has found what it should, or has a directory above it still to read.
WalkSound(b, p) ==
    /\ p \in walk[b].found => IsFile(fs, p)
    /\ IsFile(fs, p) =>
          \/ p \in walk[b].found
          \/ \E n \in 0 .. Len(p) - 1 : SubSeq(p, 1, n) \in walk[b].todo

WalksSound ==
    \A b \in Builder : Walking(b) =>
        \A p \in Path : Indexable(p) /\ ~Under(dirty[b], p) => WalkSound(b, p)

FoundMarkdown == \A b \in Builder : \A p \in walk[b].found : IsMarkdown(p)

\* No other change concerns what a trusted one names.
Unrivalled ==
    \A r \in Req : Trusted(r) =>
        /\ r \notin indexed
        /\ \A q \in Req \ {r} : Changes(q) => ~Overlap(call[r], call[q])
        /\ call[r].op = "rename_dir" => Named(call[r]) \subseteq raced \cup moved

\* So the disk is as the request left it, or as it found it.
AsLeft(r) ==
    LET p  == call[r].path
        q  == call[r].to
        op == call[r].op
    IN  /\ op \in {"save", "rename"} /\ ~Took(r) => IsFile(fs, p)
        /\ op = "create" /\ Took(r) => IsFile(fs, p)
        /\ op = "delete" /\ Took(r) => ~IsFile(fs, p)
        /\ op = "delete_dir" => ~IsFile(fs, p)
        /\ op = "rename" /\ Took(r) => IsFile(fs, q) /\ (p # q => ~IsFile(fs, p))

Sound == \A r \in Req : Trusted(r) => AsLeft(r)

\* The index is right about what nobody owes it an update of.
Settles(p) ==
    /\ Indexable(p)
    /\ ~Under(raced, p)
    /\ ~Under(moved, p)
    /\ \A r \in Req : p \notin Touched(r)

Agreement == ~capped => \A p \in Path : Settles(p) => (p \in docs <=> IsFile(fs, p))

VaultTypes ==
    /\ IndexTypeOK
    /\ indexed \subseteq Req
    /\ crashes \in 0 .. MaxCrashes
    /\ raced \subseteq Paths
    /\ moved \subseteq Paths
    /\ dirty \in [Builder -> SUBSET Paths]

Bookkeeping == VaultTypes /\ InfoOf /\ Asked /\ NewcomersOwe /\ Dirtied /\ FoundMarkdown

VaultInv ==
    /\ AtomicInv
    /\ Bookkeeping
    /\ WalksSound
    /\ built => Unrivalled /\ Sound /\ Agreement

-----------------------------------------------------------------------------
(* What the steps of a request do to all this.                              *)

LEMMA BarsTell ==
    ASSUME Inv, NEW r \in Req
    PROVE  /\ InFlight(r) <=> phaseBar[r] \notin {"idle", "closed"}
           /\ Owes(r) <=> /\ replyBar[r] = "ok" /\ r \notin indexed
                          /\ call[r].op \in {"create", "delete", "rename"}
  <1>1. stage[r] \in Waiting \cup {"idle", "done", "killed"}
    BY TypesOf DEF Stages
  <1>2. InFlight(r) <=> phaseBar[r] \notin {"idle", "closed"}
    BY <1>1, PhaseBarAt DEF InFlight, PhaseAt, Waiting
  <1> QED
    BY <1>2 DEF Owes, replyBar

LEMMA BarsTellNext ==
    ASSUME Inv', NEW r \in Req
    PROVE  /\ InFlight(r)' <=> phaseBar'[r] \notin {"idle", "closed"}
           /\ Owes(r)' <=> /\ replyBar'[r] = "ok" /\ r \notin indexed'
                           /\ call'[r].op \in {"create", "delete", "rename"}
  <1>1. stage'[r] \in Waiting \cup {"idle", "done", "killed"}
    BY DEF Stages, Inv, TypeOK
  <1>2. InFlight(r)' <=> phaseBar'[r] \notin {"idle", "closed"}
    BY <1>1 DEF InFlight, Waiting, phaseBar, PhaseOf
  <1> QED
    BY <1>2 DEF Owes, replyBar

\* A request that nothing changes for.
Stays(q) ==
    /\ call'[q] = call[q]
    /\ Changes(q)' <=> Changes(q)
    /\ Took(q)' <=> Took(q)
    /\ Touched(q)' = Touched(q)

LEMMA OthersStay ==
    ASSUME Inv, Inv', NEW q \in Req, call'[q] = call[q], phaseBar'[q] = phaseBar[q],
           replyBar'[q] = replyBar[q], q \in indexed' <=> q \in indexed
    PROVE  Stays(q)
  <1>1. Took(q)' <=> Took(q)
    BY DEF Took
  <1>2. Changes(q)' <=> Changes(q)
    BY BarsTell, BarsTellNext DEF Changes
  <1>3. Touched(q)' = Touched(q)
    BY <1>1, <1>2 DEF Touched, Named
  <1> QED
    BY <1>1, <1>2, <1>3 DEF Stays

\* What the first step of request r makes sure of before it goes on.
Granted(c) ==
    /\ c.op \in {"save", "create", "delete", "rename"} => IsMarkdown(c.path)
    /\ c.op = "rename" => IsMarkdown(c.to)
    /\ c.op \in {"save", "rename"} => IsFile(fs, c.path)
    /\ c.op = "delete_dir" => ~IsFile(fs, c.path)

Arrives(r, c) ==
    /\ stage[r] = "idle"
    /\ c.op \in Ops /\ c.path \in Paths /\ c.to \in Paths
    /\ call' = [call EXCEPT ![r] = c]
    /\ fs' = fs
    /\ \/ Moves(r, "done", "refused")
       \/ /\ \E s \in {"read_file", "create_temp", "mkdir_all", "remove", "stat_to", "read_dir"} :
                Moves(r, s, "none")
          /\ Granted(c)

LEMMA AdmitArrives ==
    ASSUME AtomicInv, NEW r \in Req, NEW op \in Ops, NEW p \in Paths, NEW q \in Paths,
           NEW accepted \in BOOLEAN, accepted => Granted(Call(op, p, q)),
           NEW next \in {"read_file", "create_temp", "mkdir_all", "remove", "stat_to", "read_dir"},
           Admit(r, Call(op, p, q), accepted, next)
    PROVE  \E c : Arrives(r, c)
  <1> DEFINE c == Call(op, p, q)
  <1>1. stage[r] = "idle" /\ call' = [call EXCEPT ![r] = c] /\ UNCHANGED fs
    BY DEF Admit
  <1>2. res[r] = "none"
    BY <1>1 DEF AtomicInv, AllSuit, Suits
  <1>3. c.op \in Ops /\ c.path \in Paths /\ c.to \in Paths
    BY DEF Call
  <1>4. \/ Moves(r, "done", "refused")
        \/ accepted /\ Moves(r, next, "none")
    <2>1. CASE accepted
      BY <1>2, <2>1, WhatMoves DEF Admit, AtomicInv
    <2>2. CASE ~accepted
      BY <2>2, WhatMoves DEF Admit, AtomicInv
    <2> QED
      BY <2>1, <2>2
  <1> HIDE DEF c
  <1>5. Arrives(r, c)
    BY <1>1, <1>3, <1>4 DEF Arrives, c
  <1> QED
    BY <1>5

LEMMA ArriveArrives ==
    ASSUME AtomicInv, NEW r \in Req, Arrive(r)
    PROVE  \E c : Arrives(r, c)
  <1>1. PICK p \in Paths :
           \/ Read(r, p) \/ Save(r, p) \/ Create(r, p) \/ Delete(r, p)
           \/ Mkdir(r, p) \/ DeleteDir(r, p)
           \/ \E q \in Paths : Rename(r, p, q) \/ RenameDir(r, p, q)
    BY DEF Arrive
  <1>2. {"read", "save", "create", "delete", "rename", "mkdir", "delete_dir", "rename_dir"} = Ops
    BY DEF Ops
  <1> DEFINE readOk == IsMarkdown(p) /\ IsFile(fs, p)
             newOk == IsMarkdown(p) /\ Missing(fs, p)
             dirOk == p # Root /\ IsDir(fs, p)
  <1>3. /\ readOk \in BOOLEAN /\ newOk \in BOOLEAN /\ dirOk \in BOOLEAN
        /\ Missing(fs, p) \in BOOLEAN
    BY DEF IsMarkdown, IsFile, IsDir, Missing
  <1>4. /\ Granted(Call("read", p, p)) /\ Granted(Call("mkdir", p, p))
        /\ readOk => Granted(Call("save", p, p)) /\ Granted(Call("delete", p, p))
        /\ newOk => Granted(Call("create", p, p))
        /\ dirOk => Granted(Call("delete_dir", p, p))
        /\ \A q \in Paths : /\ Granted(Call("rename_dir", p, q))
                            /\ readOk /\ IsMarkdown(q) => Granted(Call("rename", p, q))
    BY DEF Granted, Call, IsFile, IsDir
  <1>5. CASE Read(r, p)
    BY <1>2, <1>3, <1>4, <1>5, AdmitArrives DEF Read
  <1>6. CASE Save(r, p)
    BY <1>2, <1>3, <1>4, <1>6, AdmitArrives DEF Save
  <1>7. CASE Create(r, p)
    BY <1>2, <1>3, <1>4, <1>7, AdmitArrives DEF Create
  <1>8. CASE Delete(r, p)
    BY <1>2, <1>3, <1>4, <1>8, AdmitArrives DEF Delete
  <1>9. CASE Mkdir(r, p)
    BY <1>2, <1>3, <1>4, <1>9, AdmitArrives DEF Mkdir
  <1>10. CASE DeleteDir(r, p)
    BY <1>2, <1>3, <1>4, <1>10, AdmitArrives DEF DeleteDir
  <1>11. ASSUME NEW q \in Paths, Rename(r, p, q) PROVE \E c : Arrives(r, c)
    <2>1. (IsMarkdown(p) /\ IsMarkdown(q) /\ IsFile(fs, p)) \in BOOLEAN
      BY DEF IsMarkdown, IsFile
    <2> QED
      BY <1>2, <1>4, <1>11, <2>1, AdmitArrives DEF Rename
  <1>12. ASSUME NEW q \in Paths, RenameDir(r, p, q) PROVE \E c : Arrives(r, c)
    BY <1>2, <1>3, <1>4, <1>12, AdmitArrives DEF RenameDir
  <1> QED
    BY <1>1, <1>5, <1>6, <1>7, <1>8, <1>9, <1>10, <1>11, <1>12

LEMMA ArrivalTells ==
    ASSUME AtomicInv, AtomicInv', NEW r \in Req, NEW c, Arrives(r, c), indexed' = indexed
    PROVE  /\ call'[r] = c /\ phaseBar[r] = "idle" /\ phaseBar'[r] # "idle"
           /\ ~Changes(r) /\ Touched(r) = {} /\ Touched(r)' = {} /\ ~Took(r)'
           /\ Changes(r)' <=> c.op # "read" /\ stage'[r] # "done"
           /\ Changes(r)' => Granted(c)
           /\ \A q \in Req \ {r} : Stays(q) /\ phaseBar'[q] = phaseBar[q]
           /\ \A q \in Req : stage'[q] = "info" => stage[q] = "info" /\ call'[q] = call[q]
  <1>1. Inv /\ Inv' /\ stage[r] = "idle" /\ call' = [call EXCEPT ![r] = c]
    BY DEF AtomicInv, Arrives
  <1>2. \A q \in Req : call'[q] = IF q = r THEN c ELSE call[q]
    BY <1>1, TypesOf
  <1>3. PICK s \in {"read_file", "create_temp", "mkdir_all", "remove", "stat_to", "read_dir", "done"},
             v \in {"none", "refused"} :
           Moves(r, s, v) /\ (s = "done" <=> v = "refused") /\ (s # "done" => Granted(c))
    BY DEF Arrives
  <1>4. /\ \A q \in Req : /\ stage'[q] = IF q = r THEN s ELSE stage[q]
                          /\ res'[q] = IF q = r THEN v ELSE res[q]
        /\ phaseBar' = [phaseBar EXCEPT ![r] = PhaseAt(s, v)]
        /\ replyBar' = [replyBar EXCEPT ![r] = IF s = "done" THEN v ELSE "none"]
    BY <1>1, <1>3, BarMoves
  <1>5. DOMAIN phaseBar = Req /\ DOMAIN replyBar = Req
    BY DEF phaseBar, replyBar
  <1>6. /\ PhaseAt(s, v) \in {"open", "begun", "closed"}
        /\ PhaseAt(s, v) = "closed" <=> s = "done"
    BY DEF PhaseAt
  <1>7. phaseBar[r] = "idle" /\ replyBar[r] = "none"
    BY <1>1 DEF phaseBar, PhaseOf, replyBar
  <1>8. /\ phaseBar'[r] = PhaseAt(s, v) /\ replyBar'[r] # "ok"
        /\ \A q \in Req \ {r} : phaseBar'[q] = phaseBar[q] /\ replyBar'[q] = replyBar[q]
    BY <1>3, <1>4, <1>5
  <1>9. \A q \in Req \ {r} : Stays(q)
    BY <1>1, <1>2, <1>8, OthersStay
  <1>10. ~Took(r) /\ ~Took(r)'
    BY <1>6, <1>7, <1>8 DEF Took
  <1>11. Touched(r) = {} /\ Touched(r)' = {}
    BY <1>10 DEF Touched
  <1>12. ~Changes(r)
    BY <1>1, <1>7, BarsTell DEF Changes
  <1>13. Changes(r)' <=> c.op # "read" /\ stage'[r] # "done"
    BY <1>1, <1>2, <1>4, <1>6, <1>8, BarsTellNext DEF Changes
  <1>14. Changes(r)' => Granted(c)
    BY <1>3, <1>4, <1>13
  <1>15. \A q \in Req : stage'[q] = "info" => stage[q] = "info" /\ call'[q] = call[q]
    BY <1>2, <1>3, <1>4
  <1> QED
    BY <1>2, <1>6, <1>7, <1>8, <1>9, <1>10, <1>11, <1>12, <1>13, <1>14, <1>15

LEMMA RequestKeeps ==
    ASSUME AtomicInv, NEW r \in Req, Arrive(r) \/ Continue(r)
    PROVE  AtomicInv' /\ Steps(r)
  <1>1. Inv'
    BY StepInv DEF AtomicInv, Next
  <1> QED
    BY <1>1, RequestImplements DEF Implements, AtomicInv

\* What the history makes of an accepted call, and of any other.
LEMMA DoubtTells ==
    ASSUME NEW r \in Req, Doubt(r), VaultTypes, Named(call'[r]) \subseteq Paths,
           Asked
    PROVE  /\ raced \subseteq raced' /\ moved \subseteq moved'
           /\ \A b \in Builder : dirty[b] \subseteq dirty'[b]
           /\ raced' \subseteq Paths /\ moved' \subseteq Paths
           /\ dirty' \in [Builder -> SUBSET Paths]
           /\ call'[r].op # "read" /\ stage'[r] # "done" =>
                 /\ \A b \in Builder : Walking(b) => Named(call'[r]) \subseteq dirty'[b]
                 /\ call'[r].op = "rename_dir" => Named(call'[r]) \subseteq moved'
                 /\ \A q \in Req : Changes(q) /\ Overlap(call'[r], call[q]) =>
                       Named(call'[r]) \subseteq raced' /\ Named(call[q]) \subseteq raced'
  <1> DEFINE c == call'[r]
             rivals == {q \in Req : Changes(q) /\ Overlap(c, call[q])}
  <1>0. raced \subseteq Paths /\ moved \subseteq Paths /\ dirty \in [Builder -> SUBSET Paths]
    BY DEF VaultTypes
  <1>1. CASE c.op = "read" \/ stage'[r] = "done"
    BY <1>0, <1>1 DEF Doubt, history
  <1>2. CASE c.op # "read" /\ stage'[r] # "done"
    <2> HIDE DEF c
    <2>1. /\ raced' = IF rivals = {} THEN raced
                      ELSE raced \cup Named(c) \cup UNION {Named(call[q]) : q \in rivals}
          /\ moved' = IF c.op = "rename_dir" THEN moved \cup Named(c) ELSE moved
          /\ dirty' = [b \in Builder |-> IF Walking(b) THEN dirty[b] \cup Named(c) ELSE dirty[b]]
      BY <1>2 DEF Doubt, c
    <2>2. \A q \in rivals : Named(call[q]) \subseteq Paths
      BY DEF Asked
    <2>3. /\ raced \subseteq raced' /\ raced' \subseteq Paths
          /\ \A q \in rivals : Named(c) \subseteq raced' /\ Named(call[q]) \subseteq raced'
      BY <1>0, <2>1, <2>2 DEF c
    <2>4. /\ moved \subseteq moved' /\ moved' \subseteq Paths
          /\ c.op = "rename_dir" => Named(c) \subseteq moved'
      BY <1>0, <2>1 DEF c
    <2>5. /\ \A b \in Builder : dirty[b] \subseteq dirty'[b]
          /\ dirty' \in [Builder -> SUBSET Paths]
          /\ \A b \in Builder : Walking(b) => Named(c) \subseteq dirty'[b]
      BY <1>0, <2>1 DEF c
    <2> QED
      BY <2>3, <2>4, <2>5 DEF c
  <1> QED
    BY <1>1, <1>2

-----------------------------------------------------------------------------
(* The invariant, action by action.                                         *)

LEMMA StartsVault ==
    ASSUME VaultInv, NEW r \in Req, HandlerStarts(r)
    PROVE  VaultInv'
  <1>1. /\ AtomicInv /\ AtomicInv' /\ VaultTypes /\ Asked
        /\ UNCHANGED <<docs, built, capped, walk, indexed, crashes>>
    BY RequestKeeps DEF HandlerStarts, indexVars, VaultInv, Bookkeeping
  <1>2. PICK c : Arrives(r, c)
    BY <1>1, ArriveArrives DEF HandlerStarts
  <1>3. /\ call'[r] = c /\ phaseBar[r] = "idle" /\ phaseBar'[r] # "idle"
        /\ ~Changes(r) /\ Touched(r) = {} /\ Touched(r)' = {} /\ ~Took(r)'
        /\ Changes(r)' <=> c.op # "read" /\ stage'[r] # "done"
        /\ Changes(r)' => Granted(c)
        /\ \A q \in Req \ {r} : Stays(q) /\ phaseBar'[q] = phaseBar[q]
        /\ \A q \in Req : stage'[q] = "info" => stage[q] = "info" /\ call'[q] = call[q]
    BY <1>1, <1>2, ArrivalTells
  <1>4. /\ \A q \in Req \ {r} : call'[q] = call[q] /\ (Changes(q)' <=> Changes(q)) /\ (Took(q)' <=> Took(q))
        /\ \A q \in Req : Touched(q)' = Touched(q)
    BY <1>3 DEF Stays
  <1>5. Named(c) \subseteq Paths /\ fs' = fs
    BY <1>2 DEF Arrives, Named
  <1>6. /\ raced \subseteq raced' /\ moved \subseteq moved'
        /\ \A b \in Builder : dirty[b] \subseteq dirty'[b]
        /\ raced' \subseteq Paths /\ moved' \subseteq Paths
        /\ dirty' \in [Builder -> SUBSET Paths]
        /\ Changes(r)' =>
              /\ \A b \in Builder : Walking(b) => Named(c) \subseteq dirty'[b]
              /\ c.op = "rename_dir" => Named(c) \subseteq moved'
              /\ \A q \in Req : Changes(q) /\ Overlap(c, call[q]) =>
                    Named(c) \subseteq raced' /\ Named(call[q]) \subseteq raced'
    BY <1>1, <1>3, <1>5, DoubtTells DEF HandlerStarts
  <1>7. Bookkeeping'
    <2>1. VaultTypes'
      BY <1>1, <1>6 DEF VaultTypes, IndexTypeOK
    <2>2. InfoOf'
      BY <1>3 DEF InfoOf, VaultInv, Bookkeeping
    <2>3. Asked'
      BY <1>1, <1>3, <1>4, <1>5 DEF Asked, Granted
    <2>4. NewcomersOwe'
      BY <1>1, <1>3 DEF NewcomersOwe, VaultInv, Bookkeeping
    <2>5. Dirtied'
      BY <1>1, <1>3, <1>4, <1>6 DEF Dirtied, VaultInv, Bookkeeping, Walking
    <2>6. FoundMarkdown'
      BY <1>1 DEF FoundMarkdown, VaultInv, Bookkeeping
    <2> QED
      BY <2>1, <2>2, <2>3, <2>4, <2>5, <2>6 DEF Bookkeeping
  <1>8. WalksSound'
    <2>1. \A b \in Builder : \A p : Under(dirty[b], p) => Under(dirty'[b], p)
      BY <1>6 DEF Under
    <2> QED
      BY <1>1, <1>5, <2>1 DEF WalksSound, WalkSound, Walking, VaultInv
  <1>9. ASSUME built PROVE Unrivalled' /\ Sound' /\ Agreement'
    <2>0. Unrivalled /\ Sound /\ Agreement /\ r \notin indexed
      BY <1>3, <1>9 DEF VaultInv, Bookkeeping, NewcomersOwe
    <2>1. \A q \in Req \ {r} : Trusted(q)' =>
             Trusted(q) /\ ~(Changes(r)' /\ Overlap(c, call[q]))
      BY <1>4, <1>6 DEF Trusted
    <2>2. Trusted(r)' => Changes(r)' /\ \A q \in Req \ {r} : ~(Changes(q) /\ Overlap(c, call[q]))
      BY <1>3, <1>6 DEF Trusted
    <2>3. Unrivalled'
      <3>1. ASSUME NEW q \in Req \ {r}, Trusted(q)'
            PROVE  /\ q \notin indexed'
                   /\ \A x \in Req \ {q} : Changes(x)' => ~Overlap(call'[q], call'[x])
                   /\ call'[q].op = "rename_dir" => Named(call'[q]) \subseteq raced' \cup moved'
        <4>1. Trusted(q) /\ ~(Changes(r)' /\ Overlap(c, call[q])) /\ call'[q] = call[q]
          BY <1>4, <2>1, <3>1
        <4>2. Overlap(call[q], c) => Overlap(c, call[q])
          BY DEF Overlap
        <4> QED
          BY <1>1, <1>3, <1>4, <1>6, <2>0, <4>1, <4>2 DEF Unrivalled
      <3>2. ASSUME Trusted(r)'
            PROVE  /\ r \notin indexed'
                   /\ \A x \in Req \ {r} : Changes(x)' => ~Overlap(call'[r], call'[x])
                   /\ call'[r].op = "rename_dir" => Named(call'[r]) \subseteq raced' \cup moved'
        BY <1>1, <1>3, <1>4, <1>6, <2>0, <2>2, <3>2
      <3> QED
        BY <3>1, <3>2 DEF Unrivalled
    <2>4. Sound'
      <3>1. ASSUME NEW q \in Req \ {r}, Trusted(q)' PROVE AsLeft(q)'
        BY <1>4, <1>5, <2>0, <2>1, <3>1 DEF Sound, AsLeft
      <3>2. ASSUME Trusted(r)' PROVE AsLeft(r)'
        BY <1>3, <1>5, <2>2, <3>2 DEF AsLeft, Granted
      <3> QED
        BY <3>1, <3>2 DEF Sound
    <2>5. Agreement'
      <3>1. \A p \in Path : Settles(p)' => Settles(p)
        BY <1>4, <1>6 DEF Settles, Under
      <3> QED
        BY <1>1, <1>5, <2>0, <3>1 DEF Agreement
    <2> QED
      BY <2>3, <2>4, <2>5
  <1> QED
    BY <1>1, <1>7, <1>8, <1>9 DEF VaultInv

\* A request that had its effect is seen to the end, unless it lost it again.
LEMMA TookStays ==
    ASSUME AtomicInv, NEW r \in Req, Continue(r), Took(r)
    PROVE  \/ phaseBar'[r] = "applied" \/ replyBar'[r] = "ok"
           \/ /\ phaseBar'[r] = "closed" /\ replyBar'[r] = "failed"
              /\ Target(r) \notin DOMAIN fs /\ stage[r] = "info"
  <1>1. stage[r] \in Waiting
    BY DEF Continue, ReadFile, StatTo, MkdirAll, MkdirNext, CreateTemp, Flush, FlushFails,
           Publish, Cleanup, Info, Move, ReadDir, Unlink, Waiting
  <1>2. stage[r] = "info" \/ (stage[r] = "cleanup" /\ res[r] = "none")
    BY <1>1, PhaseBarAt DEF Took, replyBar, PhaseAt, Waiting
  <1>3. DOMAIN phaseBar = Req /\ DOMAIN replyBar = Req
    BY DEF phaseBar, replyBar
  <1>4. CASE stage[r] = "info"
    <2>1. Info(r)
      BY <1>4 DEF Continue, ReadFile, StatTo, MkdirAll, MkdirNext, CreateTemp, Flush, FlushFails,
                  Publish, Cleanup, Move, ReadDir, Unlink
    <2>2. PICK v \in {"ok", "failed"} : Moves(r, "done", v) /\ (v = "failed" => Target(r) \notin DOMAIN fs)
      BY <2>1, WhatMoves DEF Info, AtomicInv
    <2>3. phaseBar'[r] = "closed" /\ replyBar'[r] = v
      BY <1>3, <2>2, BarMoves DEF PhaseAt, AtomicInv
    <2> QED
      BY <1>4, <2>2, <2>3
  <1>5. CASE stage[r] = "cleanup" /\ res[r] = "none"
    <2>1. Cleanup(r)
      BY <1>5 DEF Continue, ReadFile, StatTo, MkdirAll, MkdirNext, CreateTemp, Flush, FlushFails,
                  Publish, Info, Move, ReadDir, Unlink
    <2>2. Moves(r, "info", "none")
      BY <1>5, <2>1, WhatMoves DEF Cleanup, AtomicInv
    <2>3. phaseBar'[r] = "applied"
      BY <1>3, <2>2, BarMoves DEF PhaseAt, AtomicInv
    <2> QED
      BY <2>3
  <1> QED
    BY <1>2, <1>4, <1>5

\* Only a call that has a file to look at again gets to its last os.Stat.
LEMMA InfoStays ==
    ASSUME AtomicInv, InfoOf, NEW r \in Req, Continue(r)
    PROVE  InfoOf'
  <1>1. call' = call /\ \A q \in Req \ {r} : stage'[q] = stage[q]
    <2> DEFINE same == \A q \in Req \ {r} : stage'[q] = stage[q]
    <2>1. /\ \A s : Goto(r, s) => same
          /\ \A v : Answer(r, v) => same
          /\ Abort(r) => same
          /\ UNCHANGED stage => same
      BY TypesOf DEF AtomicInv, Goto, Answer, Abort
    <2>2. DirReady(r) => same
      BY <2>1 DEF DirReady
    <2> HIDE DEF same
    <2>3. CASE ReadFile(r) \/ StatTo(r) \/ MkdirAll(r) \/ MkdirNext(r) \/ CreateTemp(r)
      BY <2>1, <2>2, <2>3 DEF ReadFile, StatTo, MkdirAll, MkdirNext, CreateTemp, same
    <2>4. CASE Flush(r) \/ FlushFails(r) \/ Publish(r) \/ Cleanup(r)
      BY <2>1, <2>4 DEF Flush, FlushFails, Publish, Cleanup, same
    <2>5. CASE Info(r) \/ Move(r) \/ ReadDir(r) \/ Unlink(r)
      BY <2>1, <2>5 DEF Info, Move, ReadDir, Unlink, same
    <2> QED
      BY <2>3, <2>4, <2>5 DEF Continue
  <1>2. stage'[r] = "info" => call[r].op \in {"save", "create", "rename"}
    <2> SUFFICES ASSUME stage'[r] = "info" PROVE call[r].op \in {"save", "create", "rename"}
      OBVIOUS
    <2>1. stage \in [Req -> Stages]
      BY TypesOf DEF AtomicInv
    <2>2. CASE Cleanup(r)
      BY <2>2 DEF AtomicInv, AllSuit, Suits, Cleanup
    <2>3. CASE Move(r)
      BY <2>1, <2>3 DEF Move, Answer
    <2>4. ~ReadFile(r) /\ ~StatTo(r) /\ ~MkdirAll(r) /\ ~CreateTemp(r) /\ ~Info(r)
      BY <2>1 DEF ReadFile, StatTo, MkdirAll, CreateTemp, Info, Goto, Answer, DirReady
    <2>5. ~MkdirNext(r)
      BY <2>1 DEF MkdirNext, Goto, Answer, DirReady
    <2>6. ~Flush(r) /\ ~FlushFails(r) /\ ~Publish(r) /\ ~ReadDir(r) /\ ~Unlink(r)
      BY <2>1 DEF Flush, FlushFails, Publish, ReadDir, Unlink, Goto, Answer, Abort
    <2> QED
      BY <2>2, <2>3, <2>4, <2>5, <2>6 DEF Continue
  <1> QED
    BY <1>1, <1>2 DEF InfoOf

LEMMA MarkdownSeen ==
    ASSUME NEW p, IsMarkdown(p)
    PROVE  ~IsTemp(p) /\ p # Root
  BY NamesAssumption DEF IsMarkdown, IsTemp

LEMMA UnderItself ==
    ASSUME NEW p \in Path, NEW S, p \in S
    PROVE  Under(S, p)
  <1>1. IsPrefix(p, p)
    BY PrefixElements, PathLength
  <1> QED
    BY <1>1 DEF Under

\* Whatever a step of a request does to the files, it does under its names.
LEMMA ActsSpare ==
    ASSUME Inv, NEW r \in Req, Acts(r), NEW p \in Path, ~IsTemp(p),
           ~Under(Named(call[r]), p) \/ call[r].op = "read"
    PROVE  IsFile(fs', p) <=> IsFile(fs, p)
  <1>1. CASE Rests(r)
    BY <1>1 DEF Rests, SameFiles
  <1>2. CASE ~Rests(r)
    <2>1. Writes(r) \/ Deletes(r) \/ Renames(r)
      BY <1>2 DEF Acts
    <2>2. call[r].op # "read"
      BY <2>1 DEF Writes, Deletes, Renames
    <2>3. ~Under(Named(call[r]), p)
      BY <2>2
    <2>4. p \notin Named(call[r]) /\ \A q \in Named(call[r]) : ~IsPrefix(q, p)
      <3>1. p \notin Named(call[r])
        BY <2>3, UnderItself
      <3> QED
        BY <2>3, <3>1 DEF Under
    <2>5. /\ p # call[r].path /\ p # call[r].to
          /\ ~IsPrefix(call[r].path, p) /\ ~IsPrefix(call[r].to, p)
      BY <2>4 DEF Named
    <2> QED
      BY <2>1, <2>5 DEF Writes, Deletes, Renames, SameFiles
  <1> QED
    BY <1>1, <1>2

\* What a step of request r comes to, for the index.
LEMMA ContinueTells ==
    ASSUME AtomicInv, AtomicInv', NEW r \in Req, Continue(r), indexed' = indexed
    PROVE  /\ Acts(r) /\ InFlight(r)
           /\ \A q \in Req \ {r} : Stays(q)
           /\ \A q \in Req : call'[q] = call[q] /\ (Changes(q)' => Changes(q))
                             /\ (phaseBar'[q] = "idle" => phaseBar[q] = "idle")
           /\ Changes(r)' /\ Took(r) => Took(r)'
           /\ Took(r)' /\ Changes(r) /\ r \notin indexed
                /\ call[r].op \in {"create", "delete", "rename"} => Changes(r)'
           /\ Took(r) /\ ~Took(r)' => Target(r) \notin DOMAIN fs /\ stage[r] = "info"
  <1>1. Inv /\ Inv' /\ Steps(r)
    BY RequestKeeps DEF AtomicInv
  <1>2. InFlight(r)
    BY DEF Continue, ReadFile, StatTo, MkdirAll, MkdirNext, CreateTemp, Flush, FlushFails,
           Publish, Cleanup, Info, Move, ReadDir, Unlink, Waiting, InFlight
  <1>3. phaseBar[r] \notin {"idle", "closed"}
    BY <1>1, <1>2, BarsTell
  <1>4. Acts(r)
    BY <1>1, <1>3, StepsAct
  <1>5. /\ call' = call /\ phaseBar'[r] # "idle"
        /\ \A q \in Req \ {r} : phaseBar'[q] = phaseBar[q] /\ replyBar'[q] = replyBar[q]
    BY <1>4 DEF Acts
  <1>6. \A q \in Req \ {r} : Stays(q)
    BY <1>1, <1>5, OthersStay
  <1>7. \A q \in Req : call'[q] = call[q] /\ (Changes(q)' => Changes(q))
                       /\ (phaseBar'[q] = "idle" => phaseBar[q] = "idle")
    BY <1>2, <1>5, <1>6 DEF Stays, Changes
  <1>8. /\ Took(r)' <=> phaseBar'[r] = "applied" \/ replyBar'[r] = "ok"
        /\ Changes(r)' <=> call[r].op # "read" /\ (InFlight(r)' \/ Owes(r)')
        /\ Changes(r) => call[r].op # "read"
    BY <1>5 DEF Took, Changes
  <1>9. Took(r) => \/ Took(r)'
                   \/ /\ phaseBar'[r] = "closed" /\ replyBar'[r] = "failed"
                      /\ Target(r) \notin DOMAIN fs /\ stage[r] = "info"
    BY <1>8, TookStays
  <1>10. Changes(r)' /\ Took(r) => Took(r)'
    BY <1>1, <1>8, <1>9, BarsTellNext
  <1>11. Took(r)' /\ Changes(r) /\ r \notin indexed
           /\ call[r].op \in {"create", "delete", "rename"} => Changes(r)'
    BY <1>1, <1>5, <1>8, BarsTellNext
  <1> QED
    BY <1>2, <1>4, <1>6, <1>7, <1>9, <1>10, <1>11

\* A path the index has to be right about, when a step of request r is over.
LEMMA ContinueAgrees ==
    ASSUME VaultInv, AtomicInv', built, NEW r \in Req, Continue(r),
           indexed' = indexed, raced' = raced, moved' = moved,
           NEW p \in Path, Settles(p)'
    PROVE  Settles(p) /\ (IsFile(fs', p) <=> IsFile(fs, p))
  <1> DEFINE c == call[r]
  <1>0. AtomicInv /\ Inv /\ Unrivalled /\ Sound
    BY DEF VaultInv, AtomicInv
  <1>1. /\ Acts(r) /\ InFlight(r)
        /\ \A q \in Req \ {r} : Stays(q)
        /\ call'[r] = c
        /\ Changes(r)' /\ Took(r) => Took(r)'
        /\ Took(r)' /\ Changes(r) /\ r \notin indexed
             /\ c.op \in {"create", "delete", "rename"} => Changes(r)'
        /\ Took(r) /\ ~Took(r)' => Target(r) \notin DOMAIN fs /\ stage[r] = "info"
    BY <1>0, ContinueTells
  <1>2. /\ Indexable(p) /\ ~Under(raced, p) /\ ~Under(moved, p) /\ ~IsTemp(p)
        /\ \A q \in Req : p \notin Touched(q)'
    <2>1. Indexable(p) /\ ~Under(raced, p) /\ ~Under(moved, p) /\ \A q \in Req : p \notin Touched(q)'
      BY DEF Settles, Under, Indexable
    <2> QED
      BY <2>1, MarkdownSeen DEF Indexable
  <1>3. \A q \in Req \ {r} : p \notin Touched(q)
    BY <1>1, <1>2 DEF Stays
  <1>4. c.path \in Path /\ c.to \in Path
    BY <1>0, CallPaths
  <1> HIDE DEF c
  <1>5. CASE ~Under(Named(c), p) \/ ~Changes(r)
    <2>1. p \notin Touched(r)
      BY <1>2, <1>5, UnderItself DEF Touched, Named, c
    <2>2. ~Under(Named(c), p) \/ c.op = "read"
      BY <1>1, <1>5 DEF Changes, c
    <2>3. IsFile(fs', p) <=> IsFile(fs, p)
      BY <1>0, <1>1, <1>2, <2>2, ActsSpare DEF c
    <2> QED
      BY <1>2, <1>3, <2>1, <2>3 DEF Settles
  <1>6. CASE Under(Named(c), p) /\ Changes(r)
    <2>1. Trusted(r) /\ r \notin indexed /\ AsLeft(r)
      <3>1. ~(Named(c) \subseteq raced)
        BY <1>2, <1>6 DEF Under
      <3> QED
        BY <1>0, <1>6, <3>1 DEF Trusted, Unrivalled, Sound, c
    <2>2. c.op # "rename_dir"
      <3>1. c.op = "rename_dir" => Named(c) \subseteq raced \cup moved
        BY <1>0, <2>1 DEF Unrivalled, c
      <3> QED
        BY <1>2, <1>6, <3>1 DEF Under
    <2>3. Touched(r)' = IF ~Changes(r)' \/ ~Took(r)' THEN {}
                        ELSE CASE c.op \in {"create", "delete"} -> {c.path}
                               [] c.op = "rename" -> Named(c)
                               [] OTHER -> {}
      BY <1>1 DEF Touched, Named
    <2>4. /\ Took(r)' /\ c.op \in {"create", "delete"} => p # c.path
          /\ Took(r)' /\ c.op = "rename" => p \notin Named(c)
      BY <1>1, <1>2, <1>6, <2>1, <2>3
    <2>5. Took(r) /\ c.op \in {"create", "delete", "rename"} => Took(r)'
      <3> SUFFICES ASSUME Took(r), ~Took(r)', c.op \in {"create", "delete", "rename"}
                   PROVE  FALSE
        OBVIOUS
      <3>1. Target(r) \notin DOMAIN fs /\ stage[r] = "info"
        BY <1>1
      <3>2. c.op \in {"create", "rename"}
        BY <3>1 DEF VaultInv, Bookkeeping, InfoOf, c
      <3>3. Target(r) = IF c.op = "rename" THEN c.to ELSE c.path
        BY <3>2 DEF Target, c
      <3> QED
        BY <2>1, <3>1, <3>2, <3>3 DEF AsLeft, IsFile, c
    <2>6. p \notin Touched(r)
      BY <2>4, <2>5 DEF Touched, c
    <2>7. IsFile(fs', p) <=> IsFile(fs, p)
      <3>1. CASE Rests(r)
        BY <1>2, <3>1 DEF Rests, SameFiles
      <3>2. CASE ~Took(r) /\ Writes(r)
        <4>1. p # c.path => (IsFile(fs', p) <=> IsFile(fs, p))
          BY <1>2, <3>2 DEF Writes, SameFiles, c
        <4>2. p = c.path => c.op = "save" /\ IsFile(fs, p) /\ IsFile(fs', p)
          BY <2>1, <2>4, <3>2 DEF Writes, AsLeft, c
        <4> QED
          BY <4>1, <4>2
      <3>3. CASE ~Took(r) /\ Deletes(r)
        <4>1. p # c.path => (IsFile(fs', p) <=> IsFile(fs, p))
          BY <1>2, <3>3 DEF Deletes, SameFiles, c
        <4>2. p = c.path => ~IsFile(fs, p) /\ ~IsFile(fs', p)
          BY <2>1, <2>4, <3>3 DEF Deletes, AsLeft, c
        <4> QED
          BY <4>1, <4>2
      <3>4. CASE ~Took(r) /\ Renames(r)
        <4>1. c.op = "rename" /\ Took(r)'
          BY <2>2, <3>4 DEF Renames, c
        <4>2. SameFiles(Named(c))
          <5>1. IsFile(fs, c.path)
            BY <2>1, <3>4, <4>1 DEF AsLeft, c
          <5> QED
            BY <3>4, <5>1 DEF Renames, Named, c
        <4> QED
          BY <1>2, <2>4, <4>1, <4>2 DEF SameFiles
      <3> QED
        BY <1>1, <3>1, <3>2, <3>3, <3>4 DEF Acts
    <2> QED
      BY <1>2, <1>3, <2>6, <2>7 DEF Settles
  <1> QED
    BY <1>5, <1>6

LEMMA ContinuesVault ==
    ASSUME VaultInv, NEW r \in Req, HandlerContinues(r)
    PROVE  VaultInv'
  <1>1. /\ AtomicInv /\ AtomicInv' /\ Inv /\ Continue(r)
        /\ UNCHANGED <<docs, built, capped, walk, indexed, crashes, raced, moved, dirty>>
    BY RequestKeeps DEF HandlerContinues, indexVars, history, VaultInv, AtomicInv
  <1>2. /\ Acts(r) /\ InFlight(r)
        /\ \A q \in Req \ {r} : Stays(q)
        /\ \A q \in Req : call'[q] = call[q] /\ (Changes(q)' => Changes(q))
                          /\ (phaseBar'[q] = "idle" => phaseBar[q] = "idle")
        /\ Changes(r)' /\ Took(r) => Took(r)'
    BY <1>1, ContinueTells
  <1>3. \A q \in Req : Trusted(q)' => Trusted(q)
    BY <1>1, <1>2 DEF Trusted
  <1>4. Bookkeeping'
    <2>1. VaultTypes' /\ FoundMarkdown'
      BY <1>1 DEF VaultTypes, IndexTypeOK, FoundMarkdown, VaultInv, Bookkeeping
    <2>2. InfoOf'
      BY <1>1, InfoStays DEF VaultInv, Bookkeeping
    <2>3. Asked' /\ NewcomersOwe'
      BY <1>1, <1>2 DEF Asked, NewcomersOwe, VaultInv, Bookkeeping
    <2>4. Dirtied'
      BY <1>1, <1>2 DEF Dirtied, VaultInv, Bookkeeping, Walking
    <2> QED
      BY <2>1, <2>2, <2>3, <2>4 DEF Bookkeeping
  <1>5. WalksSound'
    <2> SUFFICES ASSUME NEW b \in Builder, Walking(b), NEW p \in Path, Indexable(p),
                        ~Under(dirty[b], p)
                 PROVE  WalkSound(b, p)'
      BY <1>1 DEF WalksSound, Walking, Under, Indexable
    <2>1. WalkSound(b, p)
      BY DEF VaultInv, WalksSound
    <2>2. ~Under(Named(call[r]), p) \/ call[r].op = "read"
      <3>1. Changes(r) => Named(call[r]) \subseteq dirty[b]
        BY DEF VaultInv, Bookkeeping, Dirtied
      <3> QED
        BY <1>2, <3>1 DEF Changes, Under
    <2>3. IsFile(fs', p) <=> IsFile(fs, p)
      BY <1>1, <1>2, <2>2, MarkdownSeen, ActsSpare DEF Indexable
    <2> QED
      BY <1>1, <2>1, <2>3 DEF WalkSound
  <1>6. ASSUME built PROVE Unrivalled' /\ Sound' /\ Agreement'
    <2>0. Unrivalled /\ Sound /\ Agreement
      BY <1>6 DEF VaultInv
    <2>1. Unrivalled'
      BY <1>1, <1>2, <1>3, <2>0 DEF Unrivalled
    <2>2. Sound'
      <3>1. ASSUME NEW q \in Req \ {r}, Trusted(q)' PROVE AsLeft(q)'
        <4>1. Trusted(q) /\ AsLeft(q) /\ (Took(q)' <=> Took(q)) /\ call'[q] = call[q]
          BY <1>2, <1>3, <2>0, <3>1 DEF Sound, Stays
        <4>2. Changes(r) => ~Overlap(call[q], call[r])
          BY <2>0, <4>1 DEF Unrivalled
        <4>3. call[r].op # "read" => Changes(r)
          BY <1>2 DEF Changes
        <4>4. ASSUME NEW p \in Named(call[q]), p \in Path, ~IsTemp(p)
              PROVE  IsFile(fs', p) <=> IsFile(fs, p)
          <5>1. ~Under(Named(call[r]), p) \/ call[r].op = "read"
            BY <4>2, <4>3, <4>4 DEF Overlap, Under
          <5> QED
            BY <1>1, <1>2, <4>4, <5>1, ActsSpare
        <4>5. /\ IsFile(fs', call[q].path) <=> IsFile(fs, call[q].path)
              /\ IsFile(fs', call[q].to) <=> IsFile(fs, call[q].to)
          BY <1>1, <4>4, CallPaths DEF Named
        <4> QED
          BY <4>1, <4>5 DEF AsLeft
      <3>2. ASSUME Trusted(r)' PROVE AsLeft(r)'
        <4>1. Trusted(r) /\ AsLeft(r) /\ (Took(r) => Took(r)') /\ call'[r] = call[r]
          BY <1>2, <1>3, <2>0, <3>2 DEF Sound, Trusted
        <4>2. /\ call[r].path \in Path /\ ~IsTemp(call[r].path)
              /\ call[r].to \in Path /\ ~IsTemp(call[r].to)
          BY <1>1, CallPaths
        <4>3. CASE Rests(r)
          <5>1. /\ IsFile(fs', call[r].path) <=> IsFile(fs, call[r].path)
                /\ IsFile(fs', call[r].to) <=> IsFile(fs, call[r].to)
            BY <4>2, <4>3 DEF Rests, SameFiles
          <5>2. Took(r)' => Took(r) \/ call[r].op \in {"read", "mkdir"}
            BY <4>3 DEF Rests
          <5> QED
            BY <4>1, <5>1, <5>2 DEF AsLeft
        <4>4. CASE ~Took(r) /\ Writes(r)
          BY <4>1, <4>4 DEF Writes, AsLeft
        <4>5. CASE ~Took(r) /\ Deletes(r)
          BY <4>1, <4>5 DEF Deletes, AsLeft
        <4>6. CASE ~Took(r) /\ Renames(r)
          <5>1. call[r].op = "rename" => IsFile(fs, call[r].path)
            BY <4>1, <4>6 DEF AsLeft
          <5> QED
            BY <4>1, <4>6, <5>1 DEF Renames, AsLeft
        <4> QED
          BY <1>2, <4>3, <4>4, <4>5, <4>6 DEF Acts
      <3> QED
        BY <3>1, <3>2 DEF Sound
    <2>3. Agreement'
      <3>1. \A p \in Path : Settles(p)' => Settles(p) /\ (IsFile(fs', p) <=> IsFile(fs, p))
        BY <1>1, <1>6, ContinueAgrees
      <3> QED
        BY <1>1, <2>0, <3>1 DEF Agreement
    <2> QED
      BY <2>1, <2>2, <2>3
  <1> QED
    BY <1>1, <1>4, <1>5, <1>6 DEF VaultInv

LEMMA UpdatesVault ==
    ASSUME VaultInv, NEW r \in Req, UpdateIndex(r)
    PROVE  VaultInv'
  <1> DEFINE c == call[r]
  <1>1. /\ Owes(r) /\ indexed' = indexed \cup {r}
        /\ docs' = CASE c.op = "create" -> Add(c.path)
                     [] c.op = "delete" -> RemoveDoc(c.path)
                     [] c.op = "rename" -> RenameDoc(c.path, c.to)
        /\ UNCHANGED <<fs, call, stage, res, got, mk, built, capped, walk, crashes, raced, moved, dirty>>
    BY DEF UpdateIndex, vars, history
  <1>2. /\ phaseBar' = phaseBar /\ replyBar' = replyBar /\ phaseBar[r] # "idle"
        /\ \A q \in Req : (Took(q)' <=> Took(q)) /\ (InFlight(q)' <=> InFlight(q))
    BY <1>1 DEF phaseBar, replyBar, PhaseOf, Took, InFlight, Owes
  <1>3. /\ ~Changes(r)' /\ Changes(r) /\ Took(r) /\ c.op \in {"create", "delete", "rename"}
        /\ \A q \in Req \ {r} : Changes(q)' <=> Changes(q)
    BY <1>1 DEF Owes, Changes, InFlight, Waiting, Took, replyBar
  <1>4. /\ Touched(r)' = {} /\ \A q \in Req \ {r} : Touched(q)' = Touched(q)
        /\ Touched(r) = IF c.op = "rename" THEN Named(c) ELSE {c.path}
    BY <1>1, <1>2, <1>3 DEF Touched, Named
  <1>5. AtomicInv' /\ Inv
    <2>1. Inv'
      BY <1>1, StepInv DEF vars, VaultInv, AtomicInv
    <2> QED
      BY <1>1, <2>1 DEF VaultInv, AtomicInv, AllSuit, TempsReady
  <1>6. c.path \in Path /\ c.to \in Path
    BY <1>5, CallPaths
  <1>7. IsMarkdown(c.path) /\ (c.op = "rename" => IsMarkdown(c.to))
    BY <1>3 DEF VaultInv, Bookkeeping, Asked
  <1> HIDE DEF c
  <1>8. /\ c.op = "create" => docs' = docs \cup {c.path}
        /\ c.op = "delete" => docs' = docs \ {c.path}
        /\ c.op = "rename" => docs' = (docs \ {c.path}) \cup {c.to}
    BY <1>1, <1>7 DEF Add, RemoveDoc, RenameDoc
  <1>9. Bookkeeping'
    <2>1. VaultTypes'
      <3>1. docs' \in SUBSET Path /\ \A p \in docs' : IsMarkdown(p)
        BY <1>3, <1>6, <1>7, <1>8 DEF VaultInv, Bookkeeping, VaultTypes, IndexTypeOK
      <3> QED
        BY <1>1, <3>1 DEF VaultInv, Bookkeeping, VaultTypes, IndexTypeOK
    <2>2. InfoOf' /\ FoundMarkdown'
      BY <1>1 DEF InfoOf, FoundMarkdown, VaultInv, Bookkeeping
    <2>3. Asked' /\ NewcomersOwe' /\ Dirtied'
      BY <1>1, <1>2, <1>3 DEF Asked, NewcomersOwe, Dirtied, Walking, VaultInv, Bookkeeping
    <2> QED
      BY <2>1, <2>2, <2>3 DEF Bookkeeping
  <1>10. WalksSound'
    BY <1>1 DEF WalksSound, WalkSound, Walking, VaultInv
  <1>11. ASSUME built PROVE Unrivalled' /\ Sound' /\ Agreement'
    <2>0. Unrivalled /\ Sound /\ Agreement
      BY <1>11 DEF VaultInv
    <2>1. \A q \in Req : Trusted(q)' => Trusted(q) /\ q # r
      BY <1>1, <1>3 DEF Trusted
    <2>2. Unrivalled' /\ Sound'
      BY <1>1, <1>2, <1>3, <2>0, <2>1 DEF Unrivalled, Sound, AsLeft
    <2>3. ASSUME NEW p \in Path, Settles(p)', ~capped
          PROVE  p \in docs' <=> IsFile(fs, p)
      <3>1. /\ Indexable(p) /\ ~Under(raced, p) /\ ~Under(moved, p)
            /\ \A q \in Req \ {r} : p \notin Touched(q)
        BY <1>1, <1>4, <2>3 DEF Settles
      <3>2. CASE p \notin Touched(r)
        <4>1. p \in docs <=> IsFile(fs, p)
          BY <2>0, <2>3, <3>1, <3>2 DEF Agreement, Settles
        <4> QED
          BY <1>3, <1>4, <1>8, <3>2, <4>1 DEF Named
      <3>3. CASE p \in Touched(r)
        <4>1. p \in Named(c)
          BY <1>4, <3>3 DEF Named
        <4>2. p \notin raced
          BY <3>1, UnderItself
        <4>3. AsLeft(r)
          BY <1>3, <2>0, <4>1, <4>2 DEF Sound, Trusted, c
        <4> QED
          BY <1>3, <1>4, <1>8, <3>3, <4>3 DEF AsLeft, Named, c
      <3> QED
        BY <3>2, <3>3
    <2>4. Agreement'
      BY <1>1, <2>3 DEF Agreement
    <2> QED
      BY <2>2, <2>4
  <1> QED
    BY <1>1, <1>5, <1>9, <1>10, <1>11 DEF VaultInv

LEMMA RootAbove ==
    ASSUME NEW p \in Path, IsMarkdown(p)
    PROVE  0 \in 0 .. Len(p) - 1 /\ SubSeq(p, 1, 0) = Root
  <1>1. p # Root /\ Len(p) \in Nat
    BY MarkdownSeen, PathLength
  <1>2. Len(p) # 0
    BY <1>1 DEF Path, Root
  <1> QED
    BY <1>1, <1>2 DEF Root, Path

\* A walk that has just begun has everything before it.
LEMMA BegunSound ==
    ASSUME Inv, NEW b \in Builder, walk'[b] = Begun, fs' = fs,
           NEW p \in Path, IsMarkdown(p)
    PROVE  WalkSound(b, p)'
  <1>1. walk'[b].found = {} /\ walk'[b].todo = {Root}
    BY DEF Begun, Walk
  <1> QED
    BY <1>1, RootAbove DEF WalkSound

\* A step that no request takes.
LEMMA RequestsStill ==
    ASSUME AtomicInv, UNCHANGED <<fs, call, stage, res, got, mk, indexed>>
    PROVE  /\ phaseBar' = phaseBar /\ replyBar' = replyBar /\ AtomicInv'
           /\ \A r \in Req : /\ Changes(r)' <=> Changes(r)
                             /\ Touched(r)' = Touched(r)
                             /\ Took(r)' <=> Took(r)
  <1>1. phaseBar' = phaseBar /\ replyBar' = replyBar
    BY DEF phaseBar, replyBar, PhaseOf
  <1>2. \A r \in Req : (Changes(r)' <=> Changes(r)) /\ (Took(r)' <=> Took(r))
    BY <1>1 DEF Took, Changes, InFlight, Owes
  <1>3. \A r \in Req : Touched(r)' = Touched(r)
    BY <1>2 DEF Touched, Named
  <1>4. Inv'
    BY StepInv DEF vars, AtomicInv
  <1>5. AtomicInv'
    BY <1>4 DEF AtomicInv, AllSuit, TempsReady
  <1> QED
    BY <1>1, <1>2, <1>3, <1>5

LEMMA ReindexVault ==
    ASSUME VaultInv, NEW b \in Builder, Reindex(b)
    PROVE  VaultInv'
  <1>1. /\ walk[b] = Unused /\ walk' = [walk EXCEPT ![b] = Begun]
        /\ dirty' = [dirty EXCEPT ![b] = UNION {Named(call[q]) : q \in {x \in Req : Changes(x)}}]
        /\ UNCHANGED <<docs, built, capped, fs, call, stage, res, got, mk, indexed, crashes, raced, moved>>
    BY DEF Reindex, StartBuild, vars
  <1>2. /\ phaseBar' = phaseBar /\ replyBar' = replyBar
        /\ \A r \in Req : /\ Changes(r)' <=> Changes(r)
                          /\ Touched(r)' = Touched(r)
                          /\ Took(r)' <=> Took(r)
    BY <1>1, RequestsStill DEF VaultInv
  <1>3. AtomicInv' /\ Inv
    BY <1>1, RequestsStill DEF VaultInv, AtomicInv
  <1>4. /\ walk'[b] = Begun /\ \A x \in Builder \ {b} : walk'[x] = walk[x] /\ dirty'[x] = dirty[x]
        /\ dirty'[b] = UNION {Named(call[q]) : q \in {x \in Req : Changes(x)}}
        /\ walk' \in [Builder -> [state : {"unused", "walking", "done"},
                                  todo : SUBSET Path, found : SUBSET Path]]
        /\ dirty' \in [Builder -> SUBSET Paths]
    <2>1. /\ walk \in [Builder -> [state : {"unused", "walking", "done"},
                                   todo : SUBSET Path, found : SUBSET Path]]
          /\ dirty \in [Builder -> SUBSET Paths]
      BY DEF VaultInv, Bookkeeping, VaultTypes, IndexTypeOK
    <2>2. Begun \in [state : {"unused", "walking", "done"}, todo : SUBSET Path, found : SUBSET Path]
      BY DEF Begun, Walk, Root, Path
    <2>3. UNION {Named(call[q]) : q \in {x \in Req : Changes(x)}} \subseteq Paths
      BY DEF VaultInv, Bookkeeping, Asked
    <2> QED
      BY <1>1, <2>1, <2>2, <2>3
  <1>5. Bookkeeping'
    <2>1. VaultTypes'
      BY <1>1, <1>4 DEF VaultInv, Bookkeeping, VaultTypes, IndexTypeOK
    <2>2. InfoOf' /\ Asked' /\ NewcomersOwe'
      BY <1>1, <1>2 DEF InfoOf, Asked, NewcomersOwe, VaultInv, Bookkeeping
    <2>3. Dirtied'
      <3>1. \A r \in Req : Changes(r) => Named(call[r]) \subseteq dirty'[b]
        BY <1>4
      <3> QED
        BY <1>1, <1>2, <1>4, <3>1 DEF Dirtied, Walking, VaultInv, Bookkeeping
    <2>4. FoundMarkdown'
      BY <1>4 DEF FoundMarkdown, VaultInv, Bookkeeping, Begun, Walk
    <2> QED
      BY <2>1, <2>2, <2>3, <2>4 DEF Bookkeeping
  <1>6. WalksSound'
    <2>1. \A p \in Path : Indexable(p) => WalkSound(b, p)'
      BY <1>1, <1>3, <1>4, BegunSound DEF Indexable
    <2>2. ASSUME NEW x \in Builder \ {b}, Walking(x)', NEW p \in Path, Indexable(p), ~Under(dirty'[x], p)
          PROVE  WalkSound(x, p)'
      BY <1>1, <1>4, <2>2 DEF WalksSound, WalkSound, Walking, VaultInv
    <2> QED
      BY <2>1, <2>2 DEF WalksSound, Under, Indexable
  <1>7. ASSUME built PROVE Unrivalled' /\ Sound' /\ Agreement'
    BY <1>1, <1>2, <1>7 DEF VaultInv, Unrivalled, Sound, Agreement, Trusted, AsLeft, Settles
  <1> QED
    BY <1>1, <1>3, <1>5, <1>6, <1>7 DEF VaultInv

\* Reading directory d, a walk finds the files in it and leaves no file behind
\* that is further down.
LEMMA VisitSound ==
    ASSUME Inv, NEW b \in Builder, NEW d,
           walk'[b].todo = (walk[b].todo \ {d})
             \cup {q \in IF IsDir(fs, d) THEN Children(fs, d) ELSE {} :
                      IsDir(fs, q) /\ Last(q) \notin Skipped},
           walk'[b].found = walk[b].found
             \cup {q \in IF IsDir(fs, d) THEN Children(fs, d) ELSE {} :
                      IsFile(fs, q) /\ IsMarkdown(q)},
           fs' = fs, NEW p \in Path, Indexable(p), WalkSound(b, p)
    PROVE  WalkSound(b, p)'
  <1>1. p \in walk'[b].found => IsFile(fs, p)
    BY DEF WalkSound
  <1>2. ASSUME IsFile(fs, p)
        PROVE  \/ p \in walk'[b].found
               \/ \E n \in 0 .. Len(p) - 1 : SubSeq(p, 1, n) \in walk'[b].todo
    <2>1. CASE p \in walk[b].found
      BY <2>1
    <2>2. CASE p \notin walk[b].found
      <3>1. PICK n \in 0 .. Len(p) - 1 : SubSeq(p, 1, n) \in walk[b].todo
        BY <1>2, <2>2 DEF WalkSound
      <3>2. /\ p \in DOMAIN fs /\ p # Root /\ Len(p) \in Nat /\ Tree(fs)
            /\ \A m \in 0 .. Len(p) - 1 : IsDir(fs, SubSeq(p, 1, m))
        BY <1>2, TypesOf, MarkdownSeen, PathLength DEF IsFile, Tree, Indexable
      <3>3. CASE SubSeq(p, 1, n) # d
        BY <3>1, <3>3
      <3>4. CASE SubSeq(p, 1, n) = d /\ n = Len(p) - 1
        <4>1. Front(p) = d
          BY <3>4 DEF Front
        <4>2. p \in Children(fs, d) /\ IsDir(fs, d)
          BY <3>1, <3>2, <3>4, <4>1 DEF Children
        <4>3. p \in walk'[b].found
          BY <1>2, <4>2 DEF Indexable
        <4> QED
          BY <4>3
      <3>5. CASE SubSeq(p, 1, n) = d /\ n # Len(p) - 1
        <4> DEFINE q == SubSeq(p, 1, n + 1)
        <4>1. n + 1 \in 1 .. Len(p) - 1 /\ n \in Nat
          BY <3>1, <3>2, <3>5
        <4>2. q \in Path /\ Len(q) = n + 1 /\ \A i \in 1 .. n + 1 : q[i] = p[i]
          BY <3>2, <4>1, AncestorPath
        <4>3. q # Root /\ Front(q) = d /\ Last(q) = p[n + 1]
          <5>1. q # Root
            BY <4>1, <4>2 DEF Root
          <5>2. Last(q) = p[n + 1]
            <6>1. Len(q) = n + 1 /\ q[n + 1] = p[n + 1]
              BY <4>1, <4>2
            <6> HIDE DEF q
            <6> QED
              BY <6>1 DEF Last
          <5>3. Front(q) = SubSeq(q, 1, n)
            <6>1. Len(q) - 1 = n
              BY <4>1, <4>2
            <6> HIDE DEF q
            <6> QED
              BY <6>1 DEF Front
          <5>4. SubSeq(q, 1, n) = SubSeq(p, 1, n)
            <6>1. n \in 0 .. Len(p) /\ n \in 0 .. Len(q)
              BY <3>2, <4>1, <4>2
            <6>2. /\ SubSeq(p, 1, n) \in Path /\ Len(SubSeq(p, 1, n)) = n
                  /\ \A i \in 1 .. n : SubSeq(p, 1, n)[i] = p[i]
              BY <6>1, AncestorPath
            <6> HIDE DEF q
            <6>3. /\ SubSeq(q, 1, n) \in Path /\ Len(SubSeq(q, 1, n)) = n
                  /\ \A i \in 1 .. n : SubSeq(q, 1, n)[i] = q[i]
              BY <4>2, <6>1, AncestorPath
            <6>4. \A i \in 1 .. n : q[i] = p[i]
              BY <4>1, <4>2
            <6> QED
              BY <6>2, <6>3, <6>4, PathEqual
          <5> HIDE DEF q
          <5> QED
            BY <3>5, <5>1, <5>2, <5>3, <5>4
        <4>4. IsDir(fs, q) /\ IsDir(fs, d)
          <5>1. n \in 0 .. Len(p) - 1 /\ n + 1 \in 0 .. Len(p) - 1
            BY <3>2, <4>1
          <5>2. \A m \in 0 .. Len(p) - 1 : IsDir(fs, SubSeq(p, 1, m))
            BY <3>2
          <5>3. IsDir(fs, SubSeq(p, 1, n)) /\ IsDir(fs, SubSeq(p, 1, n + 1))
            BY <5>1, <5>2
          <5> QED
            BY <3>5, <5>3
        <4>5. q \in Children(fs, d)
          BY <4>3, <4>4 DEF Children, IsDir
        <4>6. Last(q) \notin Skipped
          BY <4>1, <4>3 DEF Indexable
        <4>7. q \in walk'[b].todo
          BY <4>4, <4>5, <4>6
        <4> QED
          BY <4>1, <4>7
      <3> QED
        BY <3>3, <3>4, <3>5
    <2> QED
      BY <2>1, <2>2
  <1> QED
    BY <1>1, <1>2 DEF WalkSound

LEMMA ReadsVault ==
    ASSUME VaultInv, NEW b \in Builder, BuildReads(b)
    PROVE  VaultInv'
  <1>1. /\ Visit(b, fs)
        /\ UNCHANGED <<docs, built, capped, fs, call, stage, res, got, mk, indexed, crashes, raced, moved, dirty>>
    BY DEF BuildReads, Visit, vars, history
  <1>2. /\ phaseBar' = phaseBar /\ replyBar' = replyBar /\ AtomicInv'
        /\ \A r \in Req : /\ Changes(r)' <=> Changes(r)
                          /\ Touched(r)' = Touched(r)
                          /\ Took(r)' <=> Took(r)
    BY <1>1, RequestsStill DEF VaultInv
  <1> DEFINE Walks == [state : {"unused", "walking", "done"}, todo : SUBSET Path, found : SUBSET Path]
  <1>3. walk \in [Builder -> Walks] /\ Tree(fs) /\ Inv
    BY TypesOf DEF VaultInv, Bookkeeping, VaultTypes, IndexTypeOK, AtomicInv
  <1>4. PICK d \in walk[b].todo :
           LET entries == IF IsDir(fs, d) THEN Children(fs, d) ELSE {}
               dirs    == {q \in entries : IsDir(fs, q) /\ Last(q) \notin Skipped}
               files   == {q \in entries : IsFile(fs, q) /\ IsMarkdown(q)}
           IN  walk' = [walk EXCEPT ![b].todo = (@ \ {d}) \cup dirs,
                                    ![b].found = @ \cup files]
    BY <1>1 DEF Visit
  <1> DEFINE entries == IF IsDir(fs, d) THEN Children(fs, d) ELSE {}
             dirs    == {q \in entries : IsDir(fs, q) /\ Last(q) \notin Skipped}
             files   == {q \in entries : IsFile(fs, q) /\ IsMarkdown(q)}
  <1>5. entries \subseteq Path
    BY <1>3 DEF Children, Tree
  <1>6. /\ walk'[b].todo = (walk[b].todo \ {d}) \cup dirs
        /\ walk'[b].found = walk[b].found \cup files
        /\ \A x \in Builder \ {b} : walk'[x] = walk[x]
        /\ walk'[b].state = walk[b].state
    BY <1>3, <1>4
  <1>7. walk' \in [Builder -> Walks]
    <2>1. dirs \subseteq Path /\ files \subseteq Path
      BY <1>5
    <2>2. walk' = [walk EXCEPT ![b].todo = (@ \ {d}) \cup dirs, ![b].found = @ \cup files]
      BY <1>4
    <2> HIDE DEF dirs, files, entries
    <2>3. walk[b] \in Walks
      BY <1>3
    <2>4. /\ (walk[b].todo \ {d}) \cup dirs \in SUBSET Path
          /\ walk[b].found \cup files \in SUBSET Path
      BY <2>1, <2>3
    <2> DEFINE T == (walk[b].todo \ {d}) \cup dirs
               F == walk[b].found \cup files
    <2>5. walk' = [walk EXCEPT ![b] = [walk[b] EXCEPT !.todo = T, !.found = F]]
      BY <1>3, <2>2
    <2> HIDE DEF T, F
    <2>6. [walk[b] EXCEPT !.todo = T, !.found = F] \in Walks
      BY <2>3, <2>4 DEF T, F
    <2> HIDE DEF Walks
    <2> QED
      BY <1>3, <2>5, <2>6
  <1>8. Bookkeeping'
    <2>1. VaultTypes'
      BY <1>1, <1>7 DEF VaultInv, Bookkeeping, VaultTypes, IndexTypeOK
    <2>2. InfoOf' /\ Asked' /\ NewcomersOwe'
      BY <1>1, <1>2 DEF InfoOf, Asked, NewcomersOwe, VaultInv, Bookkeeping
    <2>3. \A x \in Builder : Walking(x)' <=> Walking(x)
      BY <1>6 DEF Walking
    <2>4. Dirtied'
      BY <1>1, <1>2, <2>3 DEF Dirtied, VaultInv, Bookkeeping
    <2>5. FoundMarkdown'
      BY <1>6 DEF FoundMarkdown, VaultInv, Bookkeeping
    <2> QED
      BY <2>1, <2>2, <2>4, <2>5 DEF Bookkeeping
  <1>9. WalksSound'
    <2>1. ASSUME NEW p \in Path, Indexable(p), WalkSound(b, p) PROVE WalkSound(b, p)'
      BY <1>1, <1>3, <1>6, <2>1, VisitSound
    <2>2. ASSUME NEW x \in Builder \ {b}, NEW p, WalkSound(x, p) PROVE WalkSound(x, p)'
      BY <1>1, <1>6, <2>2 DEF WalkSound
    <2>3. \A x \in Builder : Walking(x)' <=> Walking(x)
      BY <1>6 DEF Walking
    <2> QED
      BY <1>1, <2>1, <2>2, <2>3 DEF WalksSound, VaultInv, Under, Indexable
  <1>10. ASSUME built PROVE Unrivalled' /\ Sound' /\ Agreement'
    BY <1>1, <1>2, <1>10 DEF VaultInv, Unrivalled, Sound, Agreement, Trusted, AsLeft, Settles
  <1> QED
    BY <1>1, <1>2, <1>8, <1>9, <1>10 DEF VaultInv

LEMMA EndsVault ==
    ASSUME VaultInv, NEW b \in Builder, BuildEnds(b)
    PROVE  VaultInv'
  <1> DEFINE found == walk[b].found
             Walks == [state : {"unused", "walking", "done"}, todo : SUBSET Path, found : SUBSET Path]
  <1>1. /\ Walking(b) /\ walk[b].todo = {} /\ built' = TRUE
        /\ walk' = [walk EXCEPT ![b] = Walk("done", {}, {})]
        /\ raced' = dirty[b] /\ moved' = {} /\ dirty' = [dirty EXCEPT ![b] = {}]
        /\ UNCHANGED <<fs, call, stage, res, got, mk, indexed, crashes>>
    BY DEF BuildEnds, Swap, vars
  <1>2. /\ docs' \subseteq found /\ capped' \in BOOLEAN
        /\ ~capped' => docs' = found
    <2>1. \/ docs' = found /\ capped' = FALSE
          \/ docs' \subseteq found /\ capped' = TRUE
      BY DEF BuildEnds, Swap
    <2> QED
      BY <2>1
  <1>3. /\ phaseBar' = phaseBar /\ replyBar' = replyBar /\ AtomicInv'
        /\ \A r \in Req : /\ Changes(r)' <=> Changes(r)
                          /\ Touched(r)' = Touched(r)
                          /\ Took(r)' <=> Took(r)
    BY <1>1, RequestsStill DEF VaultInv
  <1>4. /\ walk \in [Builder -> Walks] /\ dirty \in [Builder -> SUBSET Paths]
        /\ \A p \in found : IsMarkdown(p)
    BY DEF VaultInv, Bookkeeping, VaultTypes, IndexTypeOK, FoundMarkdown
  <1>5. /\ walk'[b] = Walk("done", {}, {}) /\ ~Walking(b)'
        /\ \A x \in Builder \ {b} : walk'[x] = walk[x] /\ dirty'[x] = dirty[x]
        /\ walk' \in [Builder -> Walks] /\ dirty' \in [Builder -> SUBSET Paths]
    BY <1>1, <1>4 DEF Walk, Walking
  <1>6. Bookkeeping'
    <2>1. docs' \in SUBSET Path /\ \A p \in docs' : IsMarkdown(p)
      BY <1>2, <1>4
    <2>2. VaultTypes'
      BY <1>1, <1>2, <1>4, <1>5, <2>1 DEF VaultInv, Bookkeeping, VaultTypes, IndexTypeOK
    <2>3. InfoOf' /\ Asked' /\ NewcomersOwe'
      BY <1>1, <1>3 DEF InfoOf, Asked, NewcomersOwe, VaultInv, Bookkeeping
    <2>4. Dirtied' /\ FoundMarkdown'
      BY <1>1, <1>3, <1>5 DEF Dirtied, FoundMarkdown, Walking, Walk, VaultInv, Bookkeeping
    <2> QED
      BY <2>2, <2>3, <2>4 DEF Bookkeeping
  <1>7. WalksSound'
    <2> SUFFICES ASSUME NEW x \in Builder \ {b}, Walking(x)', NEW p \in Path, Indexable(p),
                        ~Under(dirty'[x], p)
                 PROVE  WalkSound(x, p)'
      BY <1>5 DEF WalksSound, Under, Indexable
    <2>1. WalkSound(x, p)
      BY <1>5 DEF VaultInv, WalksSound, Walking
    <2> QED
      BY <1>1, <1>5, <2>1 DEF WalkSound
  <1>8. \A r \in Req : ~Trusted(r)'
    <2>1. \A r \in Req : Changes(r) => Named(call[r]) \subseteq dirty[b]
      BY <1>1 DEF VaultInv, Bookkeeping, Dirtied
    <2> QED
      BY <1>1, <1>3, <2>1 DEF Trusted
  <1>9. Agreement'
    <2> SUFFICES ASSUME ~capped', NEW p \in Path, Settles(p)' PROVE p \in docs' <=> IsFile(fs', p)
      BY DEF Agreement
    <2>1. Indexable(p) /\ ~Under(dirty[b], p)
      BY <1>1 DEF Settles, Under, Indexable
    <2>2. WalkSound(b, p)
      BY <1>1, <2>1 DEF VaultInv, WalksSound
    <2>3. p \in found <=> IsFile(fs, p)
      BY <1>1, <2>2 DEF WalkSound
    <2> QED
      BY <1>1, <1>2, <2>3
  <1>10. Unrivalled' /\ Sound'
    BY <1>8 DEF Unrivalled, Sound
  <1> QED
    BY <1>3, <1>6, <1>7, <1>9, <1>10 DEF VaultInv

\* A new run owes nobody anything, and its Build starts from what is there.
LEMMA NewRunVault ==
    ASSUME VaultInv, AtomicInv', NewRun, UNCHANGED <<fs, call>>,
           indexed' \subseteq Req, dirty' \in [Builder -> SUBSET Paths],
           \A r \in Req :
              /\ stage'[r] = "info" => stage[r] = "info"
              /\ Changes(r)' => Changes(r) /\ Named(call[r]) \subseteq dirty'[Boot]
              /\ phaseBar'[r] = "idle" => phaseBar[r] = "idle" /\ (r \in indexed' => r \in indexed)
    PROVE  VaultInv'
  <1> DEFINE Walks == [state : {"unused", "walking", "done"}, todo : SUBSET Path, found : SUBSET Path]
  <1>1. /\ crashes < MaxCrashes /\ crashes' = crashes + 1
        /\ docs' = {} /\ built' = FALSE /\ capped' = FALSE /\ raced' = {} /\ moved' = {}
        /\ walk' = [b \in Builder |-> IF b = Boot THEN Begun
                                      ELSE IF Walking(b) THEN Walk("done", {}, {})
                                      ELSE walk[b]]
    BY DEF NewRun
  <1>2. Inv /\ walk \in [Builder -> Walks] /\ crashes \in 0 .. MaxCrashes
    BY DEF VaultInv, AtomicInv, Bookkeeping, VaultTypes, IndexTypeOK
  <1>3. /\ walk'[Boot] = Begun
        /\ \A b \in Builder \ {Boot} : walk'[b] \in {Walk("done", {}, {}), walk[b]} /\ ~Walking(b)'
    BY <1>1, IndexAssumption DEF Walking, Walk
  <1>4. walk' \in [Builder -> Walks]
    <2>1. Begun \in Walks /\ Walk("done", {}, {}) \in Walks
      BY DEF Begun, Walk, Root, Path
    <2> HIDE DEF Walks
    <2> QED
      BY <1>1, <1>2, <2>1
  <1>5. VaultTypes'
    <2>1. crashes' \in 0 .. MaxCrashes
      BY <1>1, <1>2, CrashesAssumption
    <2> QED
      BY <1>1, <1>4, <2>1 DEF VaultTypes, IndexTypeOK
  <1>6. InfoOf' /\ Asked' /\ NewcomersOwe'
    BY DEF InfoOf, Asked, NewcomersOwe, VaultInv, Bookkeeping
  <1>7. Dirtied'
    BY <1>3 DEF Dirtied
  <1>8. FoundMarkdown'
    BY <1>3 DEF FoundMarkdown, VaultInv, Bookkeeping, Begun, Walk
  <1>9. WalksSound'
    <2>1. \A p \in Path : Indexable(p) => WalkSound(Boot, p)'
      BY <1>2, <1>3, IndexAssumption, BegunSound DEF Indexable
    <2> QED
      BY <1>3, <2>1 DEF WalksSound, Indexable
  <1> QED
    BY <1>1, <1>5, <1>6, <1>7, <1>8, <1>9 DEF VaultInv, Bookkeeping

LEMMA RestartVault ==
    ASSUME VaultInv, Restart
    PROVE  VaultInv'
  <1>1. /\ NewRun /\ UNCHANGED <<fs, call, res, got, mk>>
        /\ indexed' = indexed \cup {r \in Req : Owes(r)}
        /\ dirty' = [b \in Builder |-> {}]
        /\ stage' = [r \in Req |-> IF r \in {q \in Req : InFlight(q)} THEN "killed" ELSE stage[r]]
    BY DEF Restart, Killed
  <1>2. \A r \in Req : stage'[r] = IF InFlight(r) THEN "killed" ELSE stage[r]
    BY <1>1
  <1>3. KillsSome
    BY <1>1, <1>2 DEF KillsSome
  <1>4. AtomicInv'
    BY <1>3, KillKeeps DEF VaultInv
  <1>5. \A r \in Req : /\ stage'[r] = "info" => stage[r] = "info"
                       /\ ~Changes(r)'
    BY <1>1, <1>2 DEF Changes, InFlight, Owes, Waiting
  <1>6. \A r \in Req : phaseBar'[r] = "idle" => phaseBar[r] = "idle" /\ (r \in indexed' => r \in indexed)
    <2> SUFFICES ASSUME NEW r \in Req, phaseBar'[r] = "idle"
                 PROVE  phaseBar[r] = "idle" /\ (r \in indexed' => r \in indexed)
      OBVIOUS
    <2>1. stage'[r] = "idle"
      <3>1. PhaseOf(r)' = "idle"
        BY DEF phaseBar
      <3> QED
        BY <3>1 DEF PhaseOf
    <2>2. stage[r] = "idle"
      BY <1>2, <2>1
    <2> QED
      BY <1>1, <2>2 DEF Owes, phaseBar, PhaseOf
  <1>7. indexed' \subseteq Req /\ dirty' \in [Builder -> SUBSET Paths]
    BY <1>1 DEF VaultInv, Bookkeeping, VaultTypes
  <1> QED
    BY <1>1, <1>4, <1>5, <1>6, <1>7, NewRunVault

LEMMA HandoverVault ==
    ASSUME VaultInv, Handover
    PROVE  VaultInv'
  <1> DEFINE D == UNION {Named(call[r]) : r \in {x \in Req : Changes(x)}}
  <1>1. /\ NewRun /\ UNCHANGED <<fs, call, stage, res, got, mk>>
        /\ indexed' = indexed \cup {r \in Req : Changes(r)}
        /\ dirty' = [b \in Builder |-> IF b = Boot THEN D ELSE {}]
    BY DEF Handover, vars
  <1>2. phaseBar' = phaseBar
    BY <1>1 DEF phaseBar, PhaseOf
  <1>3. AtomicInv'
    <2>1. Inv'
      BY <1>1, StepInv DEF vars, VaultInv, AtomicInv
    <2> QED
      BY <1>1, <2>1 DEF VaultInv, AtomicInv, AllSuit, TempsReady
  <1>4. \A r \in Req : Changes(r)' => Changes(r)
    BY <1>1 DEF Changes, InFlight, Owes
  <1>5. \A r \in Req : Changes(r) => Named(call[r]) \subseteq D
    OBVIOUS
  <1>6. D \subseteq Paths
    BY DEF VaultInv, Bookkeeping, Asked
  <1> HIDE DEF D
  <1>7. dirty' \in [Builder -> SUBSET Paths] /\ dirty'[Boot] = D
    BY <1>1, <1>6, IndexAssumption
  <1>8. \A r \in Req : Changes(r) => phaseBar[r] # "idle"
    BY BarsTell DEF Changes, Owes, phaseBar, PhaseOf, VaultInv, AtomicInv
  <1>9. indexed' \subseteq Req
    BY <1>1 DEF VaultInv, Bookkeeping, VaultTypes
  <1> QED
    BY <1>1, <1>2, <1>3, <1>4, <1>5, <1>7, <1>8, <1>9, NewRunVault

\* The requests of the old run are none of the new index's business.
LEMMA OldRunVault ==
    ASSUME VaultInv, OldRunEnds
    PROVE  VaultInv'
  <1> DEFINE old == {r \in Req : OfOldRun(r)}
  <1>1. /\ UNCHANGED <<fs, call, res, got, mk, docs, built, capped, walk, indexed, crashes,
                      raced, moved, dirty>>
        /\ stage' = [r \in Req |-> IF r \in old THEN "killed" ELSE stage[r]]
    BY DEF OldRunEnds, Killed, indexVars, history
  <1>2. \A r \in Req : stage'[r] = IF r \in old THEN "killed" ELSE stage[r]
    BY <1>1
  <1>3. KillsSome
    BY <1>1, <1>2 DEF KillsSome, OfOldRun
  <1>4. AtomicInv' /\ Inv /\ Inv'
    BY <1>3, KillKeeps DEF VaultInv, AtomicInv
  <1>5. \A r \in Req \ old : phaseBar'[r] = phaseBar[r] /\ replyBar'[r] = replyBar[r]
    BY <1>1, <1>2 DEF phaseBar, replyBar, PhaseOf
  <1>6. \A r \in Req \ old : Stays(r)
    BY <1>1, <1>4, <1>5, OthersStay
  <1>7. \A r \in old : /\ ~Changes(r)' /\ Touched(r)' = {} /\ r \in indexed
                       /\ phaseBar'[r] # "idle"
    <2> SUFFICES ASSUME NEW r \in old
                 PROVE  /\ ~Changes(r)' /\ Touched(r)' = {} /\ r \in indexed
                        /\ phaseBar'[r] # "idle"
      OBVIOUS
    <2>1. stage'[r] = "killed" /\ r \in indexed
      BY <1>2 DEF OfOldRun
    <2>2. ~Changes(r)' /\ phaseBar'[r] # "idle"
      BY <2>1 DEF Changes, InFlight, Waiting, Owes, phaseBar, PhaseOf
    <2> QED
      BY <2>1, <2>2 DEF Touched
  <1>8. \A r \in Req : /\ call'[r] = call[r] /\ (Changes(r)' => Changes(r))
                       /\ (phaseBar'[r] = "idle" => phaseBar[r] = "idle")
                       /\ (stage'[r] = "info" => stage[r] = "info")
    BY <1>1, <1>2, <1>5, <1>6, <1>7 DEF Stays
  <1> HIDE DEF old
  <1>9. Bookkeeping'
    <2>1. VaultTypes' /\ FoundMarkdown'
      BY <1>1 DEF VaultTypes, IndexTypeOK, FoundMarkdown, VaultInv, Bookkeeping
    <2>2. InfoOf' /\ Asked' /\ NewcomersOwe'
      BY <1>1, <1>8 DEF InfoOf, Asked, NewcomersOwe, VaultInv, Bookkeeping
    <2>3. Dirtied'
      BY <1>1, <1>8 DEF Dirtied, VaultInv, Bookkeeping, Walking
    <2> QED
      BY <2>1, <2>2, <2>3 DEF Bookkeeping
  <1>10. WalksSound'
    BY <1>1 DEF WalksSound, WalkSound, Walking, VaultInv
  <1>11. ASSUME built PROVE Unrivalled' /\ Sound' /\ Agreement'
    <2>0. Unrivalled /\ Sound /\ Agreement
      BY <1>11 DEF VaultInv
    <2>1. \A r \in Req : Trusted(r)' => Trusted(r) /\ r \notin old
      BY <1>1, <1>7, <1>8 DEF Trusted
    <2>2. Unrivalled'
      BY <1>1, <1>8, <2>0, <2>1 DEF Unrivalled
    <2>3. Sound'
      BY <1>1, <1>6, <2>0, <2>1 DEF Sound, AsLeft, Stays
    <2>4. ASSUME NEW p \in Path, Settles(p)' PROVE Settles(p)
      <3>1. Indexable(p) /\ ~Under(raced, p) /\ ~Under(moved, p) /\ \A r \in Req : p \notin Touched(r)'
        BY <1>1, <2>4 DEF Settles
      <3>2. \A r \in Req \ old : p \notin Touched(r)
        BY <1>6, <3>1 DEF Stays
      <3>3. ASSUME NEW r \in old, r \in Req, p \in Touched(r) PROVE FALSE
        <4>1. Changes(r) /\ ~Trusted(r)
          BY <1>7, <2>0, <3>3 DEF Touched, Unrivalled
        <4>2. p \in Named(call[r])
          BY <3>3 DEF Touched, Named
        <4>3. p \in raced
          BY <4>1, <4>2 DEF Trusted
        <4> QED
          BY <3>1, <4>3, UnderItself
      <3> QED
        BY <3>1, <3>2, <3>3 DEF Settles
    <2>5. Agreement'
      BY <1>1, <2>0, <2>4 DEF Agreement
    <2> QED
      BY <2>2, <2>3, <2>5
  <1> QED
    BY <1>1, <1>4, <1>9, <1>10, <1>11 DEF VaultInv

LEMMA VaultStarts == VaultInit => VaultInv
  <1> SUFFICES ASSUME VaultInit PROVE VaultInv
    OBVIOUS
  <1>1. /\ Init /\ docs = {} /\ built = FALSE /\ capped = FALSE /\ walk = FreshWalk
        /\ indexed = {} /\ crashes = 0 /\ raced = {} /\ moved = {}
        /\ dirty = [b \in Builder |-> {}]
    BY DEF VaultInit, IndexInit
  <1>2. AtomicInv /\ Inv
    BY <1>1, AtomicStarts DEF AtomicInv
  <1>3. \A r \in Req : stage[r] = "idle" /\ ~Changes(r)
    BY <1>1 DEF Init, Changes, InFlight, Waiting, Owes
  <1>4. \A b \in Builder : walk[b] = IF b = Boot THEN Begun ELSE Unused
    BY <1>1 DEF FreshWalk
  <1>5. VaultTypes
    <2>1. walk \in [Builder -> [state : {"unused", "walking", "done"},
                               todo : SUBSET Path, found : SUBSET Path]]
      <3>1. /\ Begun \in [state : {"unused", "walking", "done"}, todo : SUBSET Path, found : SUBSET Path]
            /\ Unused \in [state : {"unused", "walking", "done"}, todo : SUBSET Path, found : SUBSET Path]
        BY DEF Begun, Unused, Walk, Root, Path
      <3> QED
        BY <1>1, <3>1 DEF FreshWalk
    <2>2. dirty \in [Builder -> SUBSET Paths]
      BY <1>1
    <2>3. crashes \in 0 .. MaxCrashes
      BY <1>1, CrashesAssumption
    <2> QED
      BY <1>1, <2>1, <2>2, <2>3 DEF VaultTypes, IndexTypeOK
  <1>6. InfoOf /\ Asked /\ NewcomersOwe /\ Dirtied
    BY <1>1, <1>3 DEF InfoOf, Asked, NewcomersOwe, Dirtied
  <1>7. FoundMarkdown
    BY <1>4 DEF FoundMarkdown, Begun, Unused, Walk
  <1>8. WalksSound
    <2> SUFFICES ASSUME NEW b \in Builder, Walking(b), NEW p \in Path, Indexable(p)
                 PROVE  WalkSound(b, p)
      BY DEF WalksSound
    <2>1. walk[b].found = {} /\ walk[b].todo = {Root}
      BY <1>4 DEF Walking, Begun, Unused, Walk
    <2> QED
      BY <2>1, RootAbove DEF WalkSound, Indexable
  <1> QED
    BY <1>1, <1>2, <1>5, <1>6, <1>7, <1>8 DEF VaultInv, Bookkeeping

LEMMA VaultStep == VaultInv /\ [VaultNext]_vaultVars => VaultInv'
  <1> SUFFICES ASSUME VaultInv, [VaultNext]_vaultVars PROVE VaultInv'
    OBVIOUS
  <1>1. ASSUME NEW r \in Req, HandlerStarts(r) \/ HandlerContinues(r) \/ UpdateIndex(r)
        PROVE  VaultInv'
    BY <1>1, StartsVault, ContinuesVault, UpdatesVault
  <1>2. ASSUME NEW b \in Builder, Reindex(b) \/ BuildReads(b) \/ BuildEnds(b)
        PROVE  VaultInv'
    BY <1>2, ReindexVault, ReadsVault, EndsVault
  <1>3. CASE Restart \/ Handover \/ OldRunEnds
    BY <1>3, RestartVault, HandoverVault, OldRunVault
  <1>4. CASE UNCHANGED vaultVars
    <2>1. UNCHANGED <<fs, call, stage, res, got, mk, docs, built, capped, walk, indexed,
                     crashes, raced, moved, dirty>>
      BY <1>4 DEF vaultVars, vars, indexVars, history
    <2>2. /\ phaseBar' = phaseBar /\ AtomicInv'
          /\ \A r \in Req : /\ Changes(r)' <=> Changes(r)
                            /\ Touched(r)' = Touched(r)
                            /\ Took(r)' <=> Took(r)
      BY <2>1, RequestsStill DEF VaultInv
    <2>3. Bookkeeping'
      BY <2>1, <2>2 DEF VaultInv, Bookkeeping, VaultTypes, IndexTypeOK, InfoOf, Asked, NewcomersOwe,
                        Dirtied, FoundMarkdown, Walking
    <2>4. WalksSound'
      BY <2>1 DEF VaultInv, WalksSound, WalkSound, Walking
    <2>5. built => Unrivalled' /\ Sound' /\ Agreement'
      BY <2>1, <2>2 DEF VaultInv, Unrivalled, Sound, Agreement, Trusted, AsLeft, Settles
    <2> QED
      BY <2>1, <2>2, <2>3, <2>4, <2>5 DEF VaultInv
  <1> QED
    BY <1>1, <1>2, <1>3, <1>4 DEF VaultNext, VaultQuiet

\* The invariants hold in every reachable state.
THEOREM VaultInvariance == VaultSpec => []VaultInv
  BY VaultStarts, VaultStep, PTL DEF VaultSpec

\* What the handlers, the index and the runs add leaves the Manager's calls as
\* Files has them: every step of Vault is one of Files or leaves its variables
\* alone.  So whatever is proved of Spec holds of VaultSpec.
THEOREM VaultRunsFiles == VaultSpec => Spec
  <1>1. VaultInit => Init
    BY DEF VaultInit
  <1>2. VaultInv /\ [VaultNext]_vaultVars => [Next]_vars
    <2> SUFFICES ASSUME VaultInv, [VaultNext]_vaultVars PROVE Next \/ UNCHANGED vars
      OBVIOUS
    <2>1. ASSUME NEW r \in Req, HandlerStarts(r) \/ HandlerContinues(r) PROVE Next
      BY <2>1 DEF HandlerStarts, HandlerContinues, Next
    <2>2. ASSUME NEW r \in Req, UpdateIndex(r) PROVE UNCHANGED vars
      BY <2>2 DEF UpdateIndex
    <2>3. ASSUME NEW b \in Builder, Reindex(b) \/ BuildReads(b) \/ BuildEnds(b)
          PROVE  UNCHANGED vars
      BY <2>3 DEF Reindex, BuildReads, BuildEnds
    <2>4. ASSUME Restart PROVE Crash \/ UNCHANGED vars
      <3> DEFINE S == {r \in Req : InFlight(r)}
      <3>1. Killed(S) /\ UNCHANGED <<fs, call, res, got, mk>>
        BY <2>4 DEF Restart
      <3>2. CASE S = {}
        <4>1. stage' = stage
          BY <3>1, <3>2, TypesOf DEF Killed, VaultInv, AtomicInv
        <4> QED
          BY <3>1, <4>1 DEF vars
      <3>3. CASE S # {}
        BY <3>1, <3>3 DEF Crash
      <3> QED
        BY <3>2, <3>3
    <2>5. ASSUME Handover PROVE UNCHANGED vars
      BY <2>5 DEF Handover
    <2>6. ASSUME OldRunEnds PROVE Crash
      <3> DEFINE S == {r \in Req : OfOldRun(r)}
      <3>1. Killed(S) /\ S # {} /\ UNCHANGED <<fs, call, res, got, mk>>
        BY <2>6 DEF OldRunEnds
      <3>2. S \in SUBSET {r \in Req : InFlight(r)}
        BY DEF OfOldRun
      <3> QED
        BY <3>1, <3>2 DEF Crash
    <2>7. ASSUME VaultQuiet \/ UNCHANGED vaultVars PROVE UNCHANGED vars
      BY <2>7 DEF VaultQuiet, vaultVars
    <2> QED
      BY <2>1, <2>2, <2>3, <2>4, <2>5, <2>6, <2>7 DEF VaultNext, Next
  <1> QED
    BY <1>1, <1>2, VaultInvariance, PTL DEF VaultSpec, Spec

\* The vault's variables keep their types.
THEOREM VaultTyping == VaultSpec => []VaultTypeOK
  <1>1. VaultInv => VaultTypeOK
    BY DEF VaultInv, AtomicInv, Inv, Bookkeeping, VaultTypes, VaultTypeOK
  <1> QED
    BY <1>1, VaultInvariance, PTL

(***************************************************************************)
(* Whatever order the requests, their index updates, the Builds, restarts   *)
(* and overlapping runs take their steps in, the index lists a markdown     *)
(* file exactly if it is on disk, for every path that nobody is changing    *)
(* and whose changes since the last Build did not overlap.                  *)
(***************************************************************************)
THEOREM IndexKeepsUp == VaultSpec => []IndexAgrees
  <1>1. VaultInv => IndexAgrees
    <2> SUFFICES ASSUME VaultInv, built, ~capped, NEW p \in DOMAIN fs \cup docs,
                        Undisputed(p), ~Under(moved, p)
                 PROVE  p \in docs <=> IsFile(fs, p)
      BY DEF IndexAgrees
    <2>1. p \in Path
      BY TypesOf DEF VaultInv, AtomicInv, Tree, Bookkeeping, VaultTypes, IndexTypeOK
    <2>2. \A r \in Req : p \notin Touched(r)
      BY <2>1, UnderItself DEF Touched, Named, Undisputed
    <2> QED
      BY <2>1, <2>2 DEF VaultInv, Agreement, Settles, Undisputed
  <1> QED
    BY <1>1, VaultInvariance, PTL

-----------------------------------------------------------------------------
(* What a Build answers for.                                                *)

\* A walk goes into no directory that is skipped, and finds nothing in one.
Unskipped(d) == \A i \in 1 .. Len(d) : d[i] \notin Skipped

WalksApart ==
    \A b \in Builder :
        /\ \A d \in walk[b].todo : Unskipped(d)
        /\ \A p \in walk[b].found : Indexable(p)

LEMMA EntryApart ==
    ASSUME Tree(fs), NEW d \in Path, Unskipped(d), NEW q \in Children(fs, d)
    PROVE  /\ Last(q) \notin Skipped => Unskipped(q)
           /\ IsMarkdown(q) => Indexable(q)
  <1>1. q \in Path /\ q # Root /\ Front(q) = d
    BY DEF Children, Tree
  <1>2. Len(q) \in Nat /\ Len(q) # 0
    BY <1>1, PathLength DEF Root
  <1>3. Len(q) - 1 \in 0 .. Len(q)
    BY <1>2
  <1>4. Len(d) = Len(q) - 1 /\ \A i \in 1 .. Len(q) - 1 : d[i] = q[i]
    BY <1>1, <1>3, AncestorPath DEF Front
  <1>5. \A i \in 1 .. Len(q) - 1 : q[i] \notin Skipped
    BY <1>4 DEF Unskipped
  <1>6. Last(q) = q[Len(q)]
    BY DEF Last
  <1>7. \A i \in 1 .. Len(q) : i = Len(q) \/ i \in 1 .. Len(q) - 1
    BY <1>2
  <1> QED
    BY <1>5, <1>6, <1>7 DEF Unskipped, Indexable

LEMMA WalksStayApart == VaultInv /\ WalksApart /\ [VaultNext]_vaultVars => WalksApart'
  <1> SUFFICES ASSUME VaultInv, WalksApart, [VaultNext]_vaultVars PROVE WalksApart'
    OBVIOUS
  <1> DEFINE Walks == [state : {"unused", "walking", "done"}, todo : SUBSET Path, found : SUBSET Path]
  <1>1. walk \in [Builder -> Walks] /\ Tree(fs)
    BY TypesOf DEF VaultInv, Bookkeeping, VaultTypes, IndexTypeOK, AtomicInv
  <1>2. ASSUME \A b \in Builder : walk'[b] \in {walk[b], Begun, Walk("done", {}, {})}
        PROVE  WalksApart'
    <2>1. Len(Root) = 0
      BY DEF Root
    <2>2. \A d \in {Root} : Unskipped(d)
      BY <2>1 DEF Unskipped
    <2> QED
      BY <1>2, <2>2 DEF WalksApart, Begun, Walk, Unskipped, Indexable
  <1>3. ASSUME NEW b \in Builder, BuildReads(b) PROVE WalksApart'
    <2>1. PICK d \in walk[b].todo :
             LET entries == IF IsDir(fs, d) THEN Children(fs, d) ELSE {}
                 dirs    == {q \in entries : IsDir(fs, q) /\ Last(q) \notin Skipped}
                 files   == {q \in entries : IsFile(fs, q) /\ IsMarkdown(q)}
             IN  walk' = [walk EXCEPT ![b].todo = (@ \ {d}) \cup dirs,
                                      ![b].found = @ \cup files]
      BY <1>3 DEF BuildReads, Visit
    <2>2. /\ \A q \in walk'[b].todo \ walk[b].todo :
                q \in Children(fs, d) /\ Last(q) \notin Skipped
          /\ \A q \in walk'[b].found \ walk[b].found : q \in Children(fs, d) /\ IsMarkdown(q)
          /\ \A x \in Builder \ {b} : walk'[x] = walk[x]
      BY <1>1, <2>1
    <2>3. d \in Path /\ Unskipped(d)
      BY <1>1 DEF WalksApart
    <2>4. /\ \A q \in walk'[b].todo : Unskipped(q)
          /\ \A p \in walk'[b].found : Indexable(p)
      BY <1>1, <2>2, <2>3, EntryApart DEF WalksApart
    <2> QED
      BY <2>2, <2>4 DEF WalksApart, Unskipped, Indexable
  <1>4. CASE \E b \in Builder : Reindex(b) \/ BuildEnds(b)
    BY <1>1, <1>2, <1>4 DEF Reindex, StartBuild, BuildEnds, Swap
  <1>5. CASE Restart \/ Handover
    BY <1>1, <1>2, <1>5 DEF Restart, Handover, NewRun
  <1>6. CASE UNCHANGED walk
    BY <1>2, <1>6
  <1> QED
    BY <1>3, <1>4, <1>5, <1>6
    DEF VaultNext, vaultVars, indexVars, HandlerStarts, HandlerContinues, UpdateIndex, OldRunEnds, VaultQuiet

(***************************************************************************)
(* Whatever happened before and whatever else happens meanwhile, a Build    *)
(* that the limit does not cut short leaves an index that is right about    *)
(* every path no request has named while the Build ran: one that runs alone *)
(* (dirty[b] = {}) leaves exactly the files on disk.  It is the safe half   *)
(* of Repaired.                                                             *)
(***************************************************************************)
THEOREM BuildFindsAll ==
    VaultSpec => [][\A b \in Builder : BuildEnds(b) /\ ~capped' =>
                        /\ \A p \in Path : ~Under(dirty[b], p) => (p \in docs' <=> p \in OnDisk(fs))
                        /\ dirty[b] = {} => docs' = OnDisk(fs)]_vaultVars
  <1> DEFINE Right(b) ==
               BuildEnds(b) /\ ~capped' =>
                   /\ \A p \in Path : ~Under(dirty[b], p) => (p \in docs' <=> p \in OnDisk(fs))
                   /\ dirty[b] = {} => docs' = OnDisk(fs)
  <1>1. VaultInit => WalksApart
    <2>1. Len(Root) = 0
      BY DEF Root
    <2> QED
      BY <2>1 DEF VaultInit, IndexInit, FreshWalk, Begun, Unused, Walk, WalksApart, Unskipped
  <1>2. VaultSpec => []WalksApart
    BY <1>1, WalksStayApart, VaultInvariance, PTL DEF VaultSpec
  <1>3. VaultInv /\ WalksApart /\ [VaultNext]_vaultVars => \A b \in Builder : Right(b)
    <2> SUFFICES ASSUME VaultInv, WalksApart, NEW b \in Builder, BuildEnds(b), ~capped'
                 PROVE  Right(b)
      OBVIOUS
    <2>1. Walking(b) /\ walk[b].todo = {} /\ docs' = walk[b].found
      BY DEF BuildEnds, Swap
    <2>2. docs' \subseteq Path /\ OnDisk(fs) \subseteq Path
      BY <2>1, TypesOf DEF VaultInv, AtomicInv, Bookkeeping, VaultTypes, IndexTypeOK, OnDisk, Tree
    <2>3. ASSUME NEW p \in Path, ~Under(dirty[b], p) PROVE p \in docs' <=> p \in OnDisk(fs)
      <3>1. Indexable(p) => (p \in docs' <=> IsFile(fs, p))
        BY <2>1, <2>3 DEF VaultInv, WalksSound, WalkSound
      <3>2. p \in docs' => Indexable(p)
        BY <2>1 DEF WalksApart
      <3> QED
        BY <3>1, <3>2 DEF OnDisk, IsFile
    <2>4. dirty[b] = {} => docs' = OnDisk(fs)
      <3>1. dirty[b] = {} => \A p : ~Under(dirty[b], p)
        BY DEF Under
      <3> QED
        BY <2>2, <2>3, <3>1
    <2> QED
      BY <2>3, <2>4
  <1> QED
    BY <1>2, <1>3, VaultInvariance, PTL DEF VaultSpec

=============================================================================

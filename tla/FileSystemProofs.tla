-------------------------- MODULE FileSystemProofs ---------------------------
(***************************************************************************)
(* Facts about paths, and that every call on a tree leaves a tree.          *)
(***************************************************************************)
EXTENDS FileSystem, SequenceTheorems, TLAPS

\* The length of a path is a number.
LEMMA PathLength ==
    ASSUME NEW p \in Path
    PROVE  Len(p) \in Nat
  BY DEF Path

\* An ancestor of a path is the path it agrees with up to its length.
LEMMA AncestorPath ==
    ASSUME NEW p \in Path, NEW n \in 0 .. Len(p)
    PROVE  /\ SubSeq(p, 1, n) \in Path
           /\ Len(SubSeq(p, 1, n)) = n
           /\ \A i \in 1 .. n : SubSeq(p, 1, n)[i] = p[i]
  BY DEF Path

\* Paths of one length and with the same elements are equal.
LEMMA PathEqual ==
    ASSUME NEW p \in Path, NEW q \in Path, Len(p) = Len(q),
           \A i \in 1 .. Len(p) : p[i] = q[i]
    PROVE  p = q
  BY SeqEqual DEF Path

\* A path is a prefix of another if it agrees with it as far as it goes.
LEMMA PrefixElements ==
    ASSUME NEW p \in Path, NEW q \in Path
    PROVE  IsPrefix(p, q) <=>
              Len(p) <= Len(q) /\ \A i \in 1 .. Len(p) : p[i] = q[i]
  BY DEF IsPrefix, Path

\* What a rebased path is made of: the new directory, then the old rest.
LEMMA RebaseElements ==
    ASSUME NEW p \in Path, NEW from \in Path, NEW to \in Path,
           IsPrefix(from, p)
    PROVE  /\ Rebase(p, from, to) \in Path
           /\ Len(Rebase(p, from, to)) = Len(to) + Len(p) - Len(from)
           /\ \A i \in 1 .. Len(to) : Rebase(p, from, to)[i] = to[i]
           /\ \A i \in Len(from) + 1 .. Len(p) :
                 Rebase(p, from, to)[Len(to) + i - Len(from)] = p[i]
<1> DEFINE rest == SubSeq(p, Len(from) + 1, Len(p))
<1>1. Len(from) \in Nat /\ Len(p) \in Nat /\ Len(to) \in Nat
  BY PathLength
<1>2. Len(from) <= Len(p)
  BY <1>1, PrefixElements
<1>3. /\ rest \in Path /\ Len(rest) = Len(p) - Len(from)
      /\ \A i \in 1 .. Len(p) - Len(from) : rest[i] = p[Len(from) + i]
  <2> DEFINE m == Len(from) + 1
             n == Len(p)
  <2>1. m \in Int /\ n \in Int /\ \A i \in m .. n : p[i] \in Name \cup Req
    BY <1>1 DEF Path
  <2> HIDE DEF m, n
  <2>2. /\ SubSeq(p, m, n) \in Path
        /\ Len(SubSeq(p, m, n)) = IF m <= n THEN n - m + 1 ELSE 0
        /\ \A i \in 1 .. n - m + 1 : SubSeq(p, m, n)[i] = p[m + i - 1]
    BY <2>1, SubSeqProperties DEF Path
  <2>3. n - m + 1 = Len(p) - Len(from) /\ \A i \in Int : m + i - 1 = Len(from) + i
    BY <1>1 DEF m, n
  <2>4. Len(SubSeq(p, m, n)) = Len(p) - Len(from)
    BY <1>1, <1>2, <2>2 DEF m, n
  <2>5. rest = SubSeq(p, m, n)
    BY DEF m, n
  <2> QED
    <3>1. \A i \in 1 .. Len(p) - Len(from) : rest[i] = p[m + i - 1]
      BY <2>2, <2>3, <2>5
    <3>2. \A i \in 1 .. Len(p) - Len(from) : i \in Int
      BY <1>1
    <3>3. \A i \in 1 .. Len(p) - Len(from) : rest[i] = p[Len(from) + i]
      BY <2>3, <3>1, <3>2
    <3> QED
      BY <2>2, <2>4, <2>5, <3>3
<1> HIDE DEF rest
<1>4. /\ to \o rest \in Path /\ Len(to \o rest) = Len(to) + Len(rest)
      /\ \A i \in 1 .. Len(to) : (to \o rest)[i] = to[i]
      /\ \A i \in 1 .. Len(rest) : (to \o rest)[Len(to) + i] = rest[i]
  <2>1. to \in Seq(Name \cup Req) /\ rest \in Seq(Name \cup Req) /\ Len(rest) \in Nat
    BY <1>3 DEF Path
  <2>2. /\ to \o rest \in Path /\ Len(to \o rest) = Len(to) + Len(rest)
        /\ \A i \in 1 .. Len(to) + Len(rest) :
              (to \o rest)[i] = IF i <= Len(to) THEN to[i] ELSE rest[i - Len(to)]
    BY <2>1, ConcatProperties DEF Path
  <2>3. ASSUME NEW i \in 1 .. Len(rest) PROVE (to \o rest)[Len(to) + i] = rest[i]
    <3>1. /\ Len(to) + i \in 1 .. Len(to) + Len(rest)
          /\ ~(Len(to) + i <= Len(to)) /\ (Len(to) + i) - Len(to) = i
      BY <1>1, <2>1
    <3> QED
      BY <2>2, <3>1
  <2>4. ASSUME NEW i \in 1 .. Len(to) PROVE (to \o rest)[i] = to[i]
    BY <1>1, <2>1, <2>2
  <2> QED
    BY <2>2, <2>3, <2>4
<1>5. ASSUME NEW i \in Len(from) + 1 .. Len(p)
      PROVE  (to \o rest)[Len(to) + i - Len(from)] = p[i]
  <2>1. i - Len(from) \in 1 .. Len(rest) /\ Len(from) + (i - Len(from)) = i
        /\ Len(to) + i - Len(from) = Len(to) + (i - Len(from))
    BY <1>1, <1>2, <1>3
  <2> QED
    BY <1>3, <1>4, <2>1
<1>6. Rebase(p, from, to) = to \o rest
  BY DEF Rebase, rest
<1> QED
  BY <1>1, <1>3, <1>4, <1>5, <1>6

\* The parent of a path is its longest strict ancestor.
LEMMA ParentPath ==
    ASSUME NEW p \in Path, p # <<>>
    PROVE  /\ Front(p) \in Path
           /\ Len(p) \in Nat \ {0}
           /\ Len(Front(p)) = Len(p) - 1
           /\ Last(p) \in Name \cup Req
           /\ \A n \in 0 .. Len(p) - 1 : SubSeq(p, 1, n) = SubSeq(Front(p), 1, n)
<1>1. Len(p) \in Nat \ {0}
  BY DEF Path
<1>2. /\ Front(p) \in Path
      /\ Len(Front(p)) = Len(p) - 1
      /\ \A i \in 1 .. Len(p) - 1 : Front(p)[i] = p[i]
  <2>1. Len(p) - 1 \in 0 .. Len(p)
    BY <1>1
  <2> QED
    BY <2>1, AncestorPath DEF Front
<1>3. Last(p) \in Name \cup Req
  BY <1>1 DEF Last, Path
<1>4. ASSUME NEW n \in 0 .. Len(p) - 1
      PROVE  SubSeq(p, 1, n) = SubSeq(Front(p), 1, n)
  <2>1. n \in 0 .. Len(p) /\ n \in 0 .. Len(Front(p))
    BY <1>1, <1>2
  <2> QED
    BY <1>1, <1>2, <2>1, AncestorPath, PathEqual
<1> QED
  BY <1>1, <1>2, <1>3, <1>4

\* Whatever a path in the tree extends is a directory of it.
LEMMA AncestorIsDir ==
    ASSUME NEW t, Tree(t), NEW q \in DOMAIN t, NEW p \in Path,
           IsPrefix(p, q), p # q
    PROVE  IsDir(t, p)
<1>1. q \in Path
  BY DEF Tree
<1>2. Len(p) \in 0 .. Len(q) /\ p = SubSeq(q, 1, Len(p))
  BY <1>1 DEF IsPrefix, Path
<1>3. Len(p) # Len(q)
  BY <1>1, <1>2, PathEqual
<1>4. Len(p) \in 0 .. Len(q) - 1
  BY <1>1, <1>2, <1>3 DEF Path
<1> QED
  BY <1>2, <1>4 DEF Tree

\* A new entry in an existing directory.
LEMMA PutTree ==
    ASSUME NEW t, Tree(t), NEW p \in Path, p \notin DOMAIN t,
           IsDir(t, Front(p)), NEW n \in Node
    PROVE  Tree(Put(t, p, n))
<1> DEFINE u == Put(t, p, n)
<1>1. DOMAIN u = DOMAIN t \cup {p} /\ u[p] = n /\ \A q \in DOMAIN t : u[q] = t[q]
  BY DEF Put
<1>2. p # Root
  BY DEF Tree, IsDir
<1>3. \A q \in DOMAIN t : IsDir(t, q) => IsDir(u, q)
  BY <1>1 DEF IsDir
<1>4. ASSUME NEW m \in 0 .. Len(p) - 1
      PROVE  IsDir(u, SubSeq(p, 1, m))
  <2>1. Front(p) \in Path /\ Front(p) \in DOMAIN t /\ Len(Front(p)) = Len(p) - 1
    BY <1>2, ParentPath DEF IsDir, Path, Root
  <2>2. SubSeq(p, 1, m) = SubSeq(Front(p), 1, m)
    BY <1>2, ParentPath DEF Path, Root
  <2>3. CASE m = Len(p) - 1
    <3>1. SubSeq(p, 1, m) = Front(p)
      BY <2>3 DEF Front
    <3> QED
      BY <1>3, <2>1, <3>1
  <2>4. CASE m # Len(p) - 1
    <3>1. m \in 0 .. Len(Front(p)) - 1
      BY <2>1, <2>4 DEF Path
    <3> QED
      BY <1>3, <2>1, <2>2, <3>1 DEF Tree, IsDir
  <2> QED
    BY <2>3, <2>4
<1>5. ASSUME NEW q \in DOMAIN t, NEW m \in 0 .. Len(q) - 1
      PROVE  IsDir(u, SubSeq(q, 1, m))
  BY <1>3 DEF Tree, IsDir
<1> QED
  BY <1>1, <1>3, <1>4, <1>5 DEF Tree, IsDir

\* An entry with nothing in it goes.
LEMMA DropTree ==
    ASSUME NEW t, Tree(t), NEW p \in Path, p # Root, Children(t, p) = {}
    PROVE  Tree(Drop(t, p))
<1> DEFINE u == Drop(t, p)
<1>1. DOMAIN u = DOMAIN t \ {p} /\ \A q \in DOMAIN u : u[q] = t[q]
  BY DEF Drop
<1>2. ASSUME NEW q \in DOMAIN u, NEW m \in 0 .. Len(q) - 1
      PROVE  SubSeq(q, 1, m) # p
  <2>1. q \in DOMAIN t /\ q \in Path /\ q # p
    BY <1>1 DEF Tree
  <2> DEFINE c == SubSeq(q, 1, m + 1)
  <2>2. c \in Path /\ c # Root /\ Front(c) = SubSeq(q, 1, m)
    BY <2>1 DEF Path, Root, Front
  <2>3. c \in DOMAIN t
    <3>1. CASE m + 1 = Len(q)
      <4>1. c = q
        BY <2>1, <3>1 DEF Path
      <4> QED
        BY <2>1, <4>1
    <3>2. CASE m + 1 # Len(q)
      <4>1. m + 1 \in 0 .. Len(q) - 1
        BY <2>1, <3>2 DEF Path
      <4> QED
        BY <2>1, <4>1 DEF Tree, IsDir
    <3> QED
      BY <3>1, <3>2
  <2> QED
    BY <2>2, <2>3 DEF Children
<1>3. \A q \in DOMAIN t : q # p /\ IsDir(t, q) => IsDir(u, q)
  BY <1>1 DEF IsDir
<1> QED
  BY <1>1, <1>2, <1>3 DEF Tree, IsDir

\* A file has nothing in it.
LEMMA FileIsLeaf ==
    ASSUME NEW t, Tree(t), NEW p, ~IsDir(t, p)
    PROVE  Children(t, p) = {}
<1>1. SUFFICES ASSUME NEW q \in DOMAIN t, q # Root, Front(q) = p
               PROVE  FALSE
  BY DEF Children
<1>2. q \in Path /\ Len(q) - 1 \in 0 .. Len(q) - 1
  BY <1>1, ParentPath DEF Tree, Path, Root
<1> QED
  BY <1>1, <1>2 DEF Tree, Front

\* New content for some of the files.
LEMMA RewriteTree ==
    ASSUME NEW t, Tree(t), NEW c \in Content, NEW F,
           \A p \in DOMAIN t : p \in F => ~IsDir(t, p)
    PROVE  Tree([p \in DOMAIN t |-> IF p \in F THEN FileNode(c) ELSE t[p]])
  BY DEF Tree, IsDir, FileNode, Node

\* A directory above a directory above an entry is above the entry.
LEMMA PrefixTransitive ==
    ASSUME NEW p \in Path, NEW q \in Path, NEW s \in Path,
           IsPrefix(p, q), IsPrefix(q, s)
    PROVE  IsPrefix(p, s)
<1>1. Len(p) <= Len(q) /\ \A i \in 1 .. Len(p) : p[i] = q[i]
  BY PrefixElements, PathLength
<1>2. Len(q) <= Len(s) /\ \A i \in 1 .. Len(q) : q[i] = s[i]
  BY PrefixElements
<1>3. Len(p) <= Len(s) /\ \A i \in 1 .. Len(p) : p[i] = s[i]
  BY <1>1, <1>2, PathLength
<1> QED
  BY <1>3, PrefixElements, PathLength

\* An ancestor of a path is a prefix of it.
LEMMA AncestorPrefix ==
    ASSUME NEW p \in Path, NEW n \in 0 .. Len(p)
    PROVE  IsPrefix(SubSeq(p, 1, n), p)
<1> DEFINE s == SubSeq(p, 1, n)
<1>1. s \in Path /\ Len(s) = n /\ \A i \in 1 .. n : s[i] = p[i]
  BY AncestorPath
<1> HIDE DEF s
<1>2. IsPrefix(s, p)
  BY <1>1, PrefixElements, PathLength
<1> QED
  BY <1>2 DEF s

\* Rebasing there and back leads to the same path.
LEMMA RebaseBack ==
    ASSUME NEW p \in Path, NEW from \in Path, NEW to \in Path,
           IsPrefix(from, p)
    PROVE  /\ IsPrefix(to, Rebase(p, from, to))
           /\ Rebase(Rebase(p, from, to), to, from) = p
<1> DEFINE q == Rebase(p, from, to)
<1>1. /\ q \in Path
      /\ Len(q) = Len(to) + Len(p) - Len(from)
      /\ \A i \in 1 .. Len(to) : q[i] = to[i]
      /\ \A i \in Len(from) + 1 .. Len(p) : q[Len(to) + i - Len(from)] = p[i]
  BY RebaseElements, PathLength
<1>2. Len(from) <= Len(p) /\ \A i \in 1 .. Len(from) : from[i] = p[i]
  BY PrefixElements, PathLength
<1>3. IsPrefix(to, q)
  BY <1>1, <1>2, PrefixElements, PathLength
<1> DEFINE b == Rebase(q, to, from)
<1>4. /\ b \in Path
      /\ Len(b) = Len(from) + Len(q) - Len(to)
      /\ \A i \in 1 .. Len(from) : b[i] = from[i]
      /\ \A i \in Len(to) + 1 .. Len(q) : b[Len(from) + i - Len(to)] = q[i]
  <2> HIDE DEF q
  <2> QED
    BY <1>1, <1>3, RebaseElements, PathLength
<1>5. ASSUME NEW i \in 1 .. Len(p)
      PROVE  b[i] = p[i]
  <2>1. CASE i <= Len(from)
    BY <1>2, <1>4, <2>1
  <2>2. CASE i > Len(from)
    <3> DEFINE j == Len(to) + i - Len(from)
    <3>1. j \in Len(to) + 1 .. Len(q) /\ Len(from) + j - Len(to) = i
      BY <1>1, <1>2, <2>2
    <3>2. q[j] = p[i]
      BY <1>1, <2>2
    <3> QED
      BY <1>4, <3>1, <3>2
  <2> QED
    BY <2>1, <2>2
<1>6. Len(b) = Len(p)
  BY <1>1, <1>4
<1> HIDE DEF b
<1> QED
  BY <1>3, <1>4, <1>5, <1>6, PathEqual DEF b

\* A rebased path keeps its last component, and the rest of it is rebased.
LEMMA RebaseStrict ==
    ASSUME NEW p \in Path, NEW from \in Path, NEW to \in Path,
           IsPrefix(from, p)
    PROVE  /\ p = from => Rebase(p, from, to) = to
           /\ p # from => /\ Len(p) > Len(from)
                          /\ p # <<>> /\ Rebase(p, from, to) # <<>>
                          /\ Last(Rebase(p, from, to)) = Last(p)
<1> DEFINE q == Rebase(p, from, to)
<1>1. /\ q \in Path
      /\ Len(q) = Len(to) + Len(p) - Len(from)
      /\ \A i \in 1 .. Len(to) : q[i] = to[i]
      /\ \A i \in Len(from) + 1 .. Len(p) : q[Len(to) + i - Len(from)] = p[i]
  BY RebaseElements, PathLength
<1>2. Len(from) <= Len(p) /\ \A i \in 1 .. Len(from) : from[i] = p[i]
  BY PrefixElements, PathLength
<1> HIDE DEF q
<1>3. ASSUME p = from PROVE q = to
  BY <1>1, <1>3, PathEqual
<1>4. ASSUME p # from PROVE Len(p) > Len(from)
  BY <1>2, <1>4, PathEqual
<1>5. ASSUME p # from
      PROVE  p # <<>> /\ q # <<>> /\ Last(q) = Last(p)
  <2>1. Len(p) > 0 /\ Len(q) > 0
    BY <1>1, <1>2, <1>4, <1>5
  <2>2. Len(p) \in Len(from) + 1 .. Len(p) /\ Len(to) + Len(p) - Len(from) = Len(q)
    BY <1>1, <1>4, <1>5
  <2>3. q[Len(q)] = p[Len(p)]
    BY <1>1, <2>2
  <2> QED
    BY <2>1, <2>3 DEF Last
<1> QED
  BY <1>3, <1>4, <1>5 DEF q

\* The ancestors of a rebased path: those of `to', and rebased ones.
LEMMA RebaseAncestors ==
    ASSUME NEW p \in Path, NEW from \in Path, NEW to \in Path,
           IsPrefix(from, p), NEW n \in 0 .. Len(Rebase(p, from, to))
    PROVE  /\ n <= Len(to) => SubSeq(Rebase(p, from, to), 1, n) = SubSeq(to, 1, n)
           /\ n >= Len(to) =>
                \E m \in Len(from) .. Len(p) :
                    /\ IsPrefix(from, SubSeq(p, 1, m))
                    /\ SubSeq(Rebase(p, from, to), 1, n) = Rebase(SubSeq(p, 1, m), from, to)
                    /\ m - Len(from) = n - Len(to)
<1> DEFINE q == Rebase(p, from, to)
<1>1. /\ q \in Path
      /\ Len(q) = Len(to) + Len(p) - Len(from)
      /\ \A i \in 1 .. Len(to) : q[i] = to[i]
      /\ \A i \in Len(from) + 1 .. Len(p) : q[Len(to) + i - Len(from)] = p[i]
  BY RebaseElements, PathLength
<1>2. Len(from) <= Len(p) /\ \A i \in 1 .. Len(from) : from[i] = p[i]
  BY PrefixElements, PathLength
<1> HIDE DEF q
<1>0. n \in 0 .. Len(q)
  BY DEF q
<1> DEFINE s == SubSeq(q, 1, n)
<1>3. s \in Path /\ Len(s) = n /\ \A i \in 1 .. n : s[i] = q[i]
  BY <1>0, <1>1, AncestorPath
<1>4. ASSUME n <= Len(to) PROVE s = SubSeq(to, 1, n)
  <2>1. /\ SubSeq(to, 1, n) \in Path /\ Len(SubSeq(to, 1, n)) = n
        /\ \A i \in 1 .. n : SubSeq(to, 1, n)[i] = to[i]
    BY <1>0, <1>4, AncestorPath
  <2>2. \A i \in 1 .. n : s[i] = to[i]
    BY <1>0, <1>1, <1>3, <1>4
  <2> HIDE DEF s
  <2> QED
    BY <1>3, <2>1, <2>2, PathEqual
<1>5. ASSUME n >= Len(to)
      PROVE  \E m \in Len(from) .. Len(p) :
                /\ IsPrefix(from, SubSeq(p, 1, m))
                /\ s = Rebase(SubSeq(p, 1, m), from, to)
                /\ m - Len(from) = n - Len(to)
  <2> DEFINE m == n - Len(to) + Len(from)
             x == SubSeq(p, 1, m)
             y == Rebase(x, from, to)
  <2>1. m \in Len(from) .. Len(p) /\ m \in 0 .. Len(p)
    BY <1>0, <1>1, <1>2, <1>5
  <2>2. x \in Path /\ Len(x) = m /\ \A i \in 1 .. m : x[i] = p[i]
    BY <2>1, AncestorPath
  <2> HIDE DEF x
  <2>3. IsPrefix(from, x)
    BY <1>2, <2>1, <2>2, PrefixElements, PathLength
  <2>4. /\ y \in Path
        /\ Len(y) = Len(to) + Len(x) - Len(from)
        /\ \A i \in 1 .. Len(to) : y[i] = to[i]
        /\ \A i \in Len(from) + 1 .. Len(x) : y[Len(to) + i - Len(from)] = x[i]
    BY <2>2, <2>3, RebaseElements, PathLength
  <2> HIDE DEF y
  <2>5. Len(y) = n
    BY <1>0, <1>1, <2>2, <2>4
  <2>6. ASSUME NEW i \in 1 .. n PROVE s[i] = y[i]
    <3>1. CASE i <= Len(to)
      BY <1>1, <1>3, <2>4, <3>1
    <3>2. CASE i > Len(to)
      <4> DEFINE j == i - Len(to) + Len(from)
      <4>1. /\ j \in Len(from) + 1 .. Len(x) /\ j \in Len(from) + 1 .. Len(p)
            /\ j \in 1 .. m /\ Len(to) + j - Len(from) = i
        BY <1>0, <1>1, <1>2, <2>1, <2>2, <3>2
      <4>2. y[i] = x[j] /\ q[i] = p[j] /\ x[j] = p[j]
        BY <1>1, <2>2, <2>4, <4>1
      <4> QED
        BY <1>3, <4>2
    <3> QED
      BY <3>1, <3>2
  <2>7. s = y
    <3> HIDE DEF s
    <3> QED
      BY <1>3, <2>4, <2>5, <2>6, PathEqual
  <2>8. m - Len(from) = n - Len(to)
    BY <1>0
  <2> HIDE DEF m
  <2> QED
    BY <2>1, <2>3, <2>7, <2>8 DEF x, y
<1> QED
  BY <1>4, <1>5 DEF q

-----------------------------------------------------------------------------
(* os.Rename.                                                              *)

\* Where each entry of a tree after os.Rename comes from.
LEMMA MovedEntries ==
    ASSUME NEW t, Tree(t), NEW from \in Path, NEW to \in Path,
           Renamable(t, from, to), NEW q \in DOMAIN MoveTree(t, from, to)
    PROVE  LET u == MoveTree(t, from, to)
           IN  \/ /\ q \in DOMAIN t /\ u[q] = t[q]
                  /\ ~IsPrefix(from, q) /\ ~IsPrefix(to, q)
               \/ \E x \in DOMAIN t :
                     /\ IsPrefix(from, x)
                     /\ q = Rebase(x, from, to)
                     /\ u[q] = t[x]
<1> DEFINE u == MoveTree(t, from, to)
           stay == {p \in DOMAIN t : ~IsPrefix(from, p) /\ p # to}
           moved == {Rebase(p, from, to) : p \in {x \in DOMAIN t : IsPrefix(from, x)}}
<1>1. /\ DOMAIN u = stay \cup moved
      /\ u[q] = IF IsPrefix(to, q) THEN t[Rebase(q, to, from)] ELSE t[q]
  BY DEF MoveTree
<1>2. DOMAIN t \subseteq Path
  BY DEF Tree
<1>3. CASE q \in stay
  <2>1. ~IsPrefix(to, q)
    BY <1>2, <1>3, AncestorIsDir DEF Renamable
  <2> QED
    BY <1>1, <1>3, <2>1
<1>4. CASE q \in moved
  <2>1. PICK x \in DOMAIN t : IsPrefix(from, x) /\ q = Rebase(x, from, to)
    BY <1>4
  <2>2. IsPrefix(to, q) /\ Rebase(q, to, from) = x
    BY <1>2, <2>1, RebaseBack
  <2> QED
    BY <1>1, <2>1, <2>2
<1> QED
  BY <1>1, <1>3, <1>4

\* What is not moved and not overwritten is still there.
LEMMA StayingEntries ==
    ASSUME NEW t, Tree(t), NEW from \in Path, NEW to \in Path,
           Renamable(t, from, to), NEW q \in DOMAIN t,
           ~IsPrefix(from, q), q # to
    PROVE  q \in DOMAIN MoveTree(t, from, to) /\ MoveTree(t, from, to)[q] = t[q]
<1>1. q \in Path
  BY DEF Tree
<1>2. ~IsPrefix(to, q)
  BY <1>1, AncestorIsDir DEF Renamable
<1> QED
  BY <1>2 DEF MoveTree

\* What is in the directory moved is found, unchanged, at its new place.
LEMMA MovingEntries ==
    ASSUME NEW t, Tree(t), NEW from \in Path, NEW to \in Path,
           Renamable(t, from, to), NEW x \in DOMAIN t, IsPrefix(from, x)
    PROVE  /\ Rebase(x, from, to) \in DOMAIN MoveTree(t, from, to)
           /\ MoveTree(t, from, to)[Rebase(x, from, to)] = t[x]
<1>1. x \in Path
  BY DEF Tree
<1>2. IsPrefix(to, Rebase(x, from, to)) /\ Rebase(Rebase(x, from, to), to, from) = x
  BY <1>1, RebaseBack
<1> QED
  BY <1>2 DEF MoveTree

\* os.Rename of a file or of a whole directory leaves a tree.
LEMMA MoveTreeTree ==
    ASSUME NEW t, Tree(t), NEW from \in Path, NEW to \in Path,
           Renamable(t, from, to)
    PROVE  Tree(MoveTree(t, from, to))
<1> DEFINE u == MoveTree(t, from, to)
<1>1. DOMAIN t \subseteq Path /\ \A q \in DOMAIN t : t[q] \in Node
  BY DEF Tree
<1>2. from # Root /\ to # Root
  <2>1. Root \in Path /\ Len(Root) = 0
    BY DEF Root, Path
  <2>2. IsPrefix(Root, to)
    BY <2>1, PrefixElements, PathLength
  <2>3. IsDir(t, Root)
    BY DEF Tree
  <2> QED
    BY <2>2, <2>3 DEF Renamable
<1>3. \A d \in Path : IsDir(t, d) /\ ~IsPrefix(from, d) => IsDir(u, d)
  BY StayingEntries DEF Renamable, IsDir
<1>4. ASSUME NEW n \in 0 .. Len(to) - 1
      PROVE  IsDir(u, SubSeq(to, 1, n))
  <2> DEFINE d == SubSeq(to, 1, n)
  <2>1. d \in Path /\ IsPrefix(d, to) /\ d # to
    <3>1. n \in 0 .. Len(to) /\ n # Len(to)
      BY PathLength
    <3>2. d \in Path /\ Len(d) = n /\ IsPrefix(d, to)
      BY <3>1, AncestorPath, AncestorPrefix
    <3> QED
      BY <3>1, <3>2
  <2>2. IsDir(t, d)
    <3>1. Front(to) \in DOMAIN t /\ Front(to) \in Path /\ Len(Front(to)) = Len(to) - 1
      BY <1>2, ParentPath DEF Renamable, IsDir, Root
    <3>2. d = SubSeq(Front(to), 1, n)
      BY <1>2, ParentPath DEF Root
    <3>3. CASE n = Len(to) - 1
      BY <3>3 DEF Renamable, Front
    <3>4. CASE n # Len(to) - 1
      <4>1. n \in 0 .. Len(Front(to)) - 1
        BY <3>1, <3>4, PathLength
      <4> QED
        BY <3>1, <3>2, <4>1 DEF Tree
    <3> QED
      BY <3>3, <3>4
  <2>3. ~IsPrefix(from, d)
    <3>1. SUFFICES ASSUME IsPrefix(from, d) PROVE FALSE
      OBVIOUS
    <3>2. IsDir(t, from)
      BY <2>1, <2>2, <3>1, AncestorIsDir DEF IsDir
    <3>3. IsPrefix(from, to)
      BY <2>1, <3>1, PrefixTransitive
    <3> QED
      BY <3>2, <3>3 DEF Renamable
  <2> QED
    BY <1>3, <2>1, <2>2, <2>3
<1>5. ASSUME NEW q \in DOMAIN u
      PROVE  /\ q \in Path /\ u[q] \in Node
             /\ \A n \in 0 .. Len(q) - 1 : IsDir(u, SubSeq(q, 1, n))
  <2>1. CASE /\ q \in DOMAIN t /\ u[q] = t[q]
             /\ ~IsPrefix(from, q) /\ ~IsPrefix(to, q)
    <3>1. q \in Path /\ u[q] \in Node
      BY <1>1, <2>1
    <3>2. ASSUME NEW n \in 0 .. Len(q) - 1
          PROVE  IsDir(u, SubSeq(q, 1, n))
      <4> DEFINE d == SubSeq(q, 1, n)
      <4>1. d \in Path /\ IsPrefix(d, q)
        <5>1. n \in 0 .. Len(q)
          BY <3>1, PathLength
        <5> QED
          BY <3>1, <5>1, AncestorPath, AncestorPrefix
      <4>2. IsDir(t, d)
        BY <2>1 DEF Tree
      <4>3. ~IsPrefix(from, d)
        BY <2>1, <3>1, <4>1, PrefixTransitive
      <4> QED
        BY <1>3, <4>1, <4>2, <4>3
    <3> QED
      BY <3>1, <3>2
  <2>2. CASE \E x \in DOMAIN t :
                IsPrefix(from, x) /\ q = Rebase(x, from, to) /\ u[q] = t[x]
    <3>1. PICK x \in DOMAIN t :
                IsPrefix(from, x) /\ q = Rebase(x, from, to) /\ u[q] = t[x]
      BY <2>2
    <3>2. x \in Path /\ q \in Path /\ u[q] \in Node
      BY <1>1, <3>1, RebaseElements
    <3>3. ASSUME NEW n \in 0 .. Len(q) - 1
          PROVE  IsDir(u, SubSeq(q, 1, n))
      <4>0. n \in 0 .. Len(q) /\ n \in Nat /\ Len(to) \in Nat /\ Len(q) \in Nat
        BY <3>2, PathLength
      <4>1. CASE n < Len(to)
        <5>1. SubSeq(q, 1, n) = SubSeq(to, 1, n)
          <6>1. n \in 0 .. Len(Rebase(x, from, to)) /\ n <= Len(to)
            BY <3>1, <4>0, <4>1
          <6>2. SubSeq(Rebase(x, from, to), 1, n) = SubSeq(to, 1, n)
            BY <3>1, <3>2, <6>1, RebaseAncestors
          <6> QED
            BY <3>1, <6>2
        <5>2. n \in 0 .. Len(to) - 1
          BY <4>0, <4>1
        <5> QED
          BY <1>4, <5>1, <5>2
      <4>2. CASE n >= Len(to)
        <5>1. PICK m \in Len(from) .. Len(x) :
                 /\ IsPrefix(from, SubSeq(x, 1, m))
                 /\ SubSeq(q, 1, n) = Rebase(SubSeq(x, 1, m), from, to)
                 /\ m - Len(from) = n - Len(to)
          <6>1. n \in 0 .. Len(Rebase(x, from, to))
            BY <3>1, <4>0
          <6>2. \E m \in Len(from) .. Len(x) :
                   /\ IsPrefix(from, SubSeq(x, 1, m))
                   /\ SubSeq(Rebase(x, from, to), 1, n) = Rebase(SubSeq(x, 1, m), from, to)
                   /\ m - Len(from) = n - Len(to)
            BY <3>1, <3>2, <4>2, <6>1, RebaseAncestors
          <6> QED
            BY <3>1, <6>2
        <5>2. m \in 0 .. Len(x) - 1
          <6>1. Len(q) = Len(to) + Len(x) - Len(from)
            BY <3>1, <3>2, RebaseElements
          <6>2. Len(from) \in Nat /\ Len(x) \in Nat
            BY <3>2, PathLength
          <6> QED
            BY <4>0, <5>1, <6>1, <6>2
        <5> DEFINE y == SubSeq(x, 1, m)
        <5>3. y \in DOMAIN t /\ t[y].kind = "dir"
          BY <5>2 DEF Tree, IsDir
        <5> HIDE DEF y
        <5>4. Rebase(y, from, to) \in DOMAIN u /\ u[Rebase(y, from, to)] = t[y]
          BY <5>1, <5>3, MovingEntries DEF y
        <5> QED
          BY <5>1, <5>3, <5>4 DEF IsDir, y
      <4> QED
        BY <4>0, <4>1, <4>2
    <3> QED
      BY <3>2, <3>3
  <2> QED
    BY <2>1, <2>2, MovedEntries
<1>6. IsDir(u, Root)
  <2>1. Len(to) \in Nat \ {0}
    BY <1>2, ParentPath DEF Root
  <2>2. 0 \in 0 .. Len(to) - 1
    BY <2>1
  <2>3. SubSeq(to, 1, 0) = Root
    BY DEF Root, Path
  <2> QED
    BY <1>4, <2>2, <2>3
<1> QED
  BY <1>5, <1>6 DEF Tree

\* A moved entry has the last component of the one it was, unless it is the
\* one that was named.
LEMMA MovedNames ==
    ASSUME NEW t, Tree(t), NEW from \in Path, NEW to \in Path,
           Renamable(t, from, to), NEW q \in DOMAIN MoveTree(t, from, to)
    PROVE  \E x \in DOMAIN t :
              /\ MoveTree(t, from, to)[q] = t[x]
              /\ \/ q = x
                 \/ q = to /\ x = from
                 \/ q # Root /\ x # Root /\ Last(q) = Last(x)
<1>1. DOMAIN t \subseteq Path
  BY DEF Tree
<1>2. \A x \in DOMAIN t : IsPrefix(from, x) =>
         \/ x = from /\ Rebase(x, from, to) = to
         \/ /\ x # Root /\ Rebase(x, from, to) # Root
            /\ Last(Rebase(x, from, to)) = Last(x)
  BY <1>1, RebaseStrict DEF Root
<1> QED
  BY <1>2, MovedEntries

=============================================================================

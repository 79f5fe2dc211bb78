--------------------------- MODULE LookupsProofs ----------------------------
(***************************************************************************)
(* The two ways to a file, for every disk, root, index and query.  Of       *)
(* searching: a query finds what embeds it, typing on narrows it, tiers are *)
(* kept, and as the comparison of Search is a strict total order, neither   *)
(* the order of the index nor the sort can show in an answer.  Of browsing: *)
(* no path leads out of the root, what a listing offers is taken back, and  *)
(* the listing and the index agree.                                         *)
(***************************************************************************)
EXTENDS Lookups, SequenceTheorems, FiniteSetTheorems, WellFoundedInduction, TLAPS

-----------------------------------------------------------------------------
(* Numbers *)

\* What Offset and the first difference of two paths rest on.
LEMMA LeastNat ==
    ASSUME NEW S \in SUBSET Nat, S # {}
    PROVE  \E m \in S : \A k \in S : m <= k
  <1>1. PICK m \in S : \A k \in S : <<k, m>> \notin OpToRel(<, Nat)
    BY WFMin, NatLessThanWellFounded
  <1>2. \A k \in S : ~(k < m)
    BY <1>1 DEF OpToRel
  <1> QED
    BY <1>2

LEMMA PenaltyBounds ==
    ASSUME NEW n \in Nat
    PROVE  Penalty(n) \in 0 .. 120
  <1>1. n \div 4 \in Nat
    OBVIOUS
  <1> QED
    BY <1>1 DEF Penalty

\* What a sequence begins with.
LEMMA Beginnings ==
    ASSUME NEW S, NEW p \in Seq(S), NEW k \in 0 .. Len(p)
    PROVE  /\ SubSeq(p, 1, k) \in Seq(S)
           /\ Len(SubSeq(p, 1, k)) = k
           /\ \A i \in 1 .. k : SubSeq(p, 1, k)[i] = p[i]
           /\ \A j \in 0 .. k : SubSeq(SubSeq(p, 1, k), 1, j) = SubSeq(p, 1, j)
  <1>1. Len(p) \in Nat /\ \A i \in 1 .. Len(p) : p[i] \in S
    BY LenProperties, ElementOfSeq
  <1>2. \A j \in 0 .. Len(p) : /\ SubSeq(p, 1, j) \in Seq(S)
                               /\ Len(SubSeq(p, 1, j)) = j
                               /\ \A i \in 1 .. j : SubSeq(p, 1, j)[i] = p[i]
    <2> SUFFICES ASSUME NEW j \in 0 .. Len(p)
                 PROVE  /\ SubSeq(p, 1, j) \in Seq(S)
                        /\ Len(SubSeq(p, 1, j)) = j
                        /\ \A i \in 1 .. j : SubSeq(p, 1, j)[i] = p[i]
      OBVIOUS
    <2>1. j \in Int /\ 1 \in Int /\ \A i \in 1 .. j : p[i] \in S
      BY <1>1
    <2>2. /\ SubSeq(p, 1, j) \in Seq(S)
          /\ Len(SubSeq(p, 1, j)) = IF 1 <= j THEN j - 1 + 1 ELSE 0
          /\ \A i \in 1 .. j - 1 + 1 : SubSeq(p, 1, j)[i] = p[1 + i - 1]
      BY <2>1, SubSeqProperties
    <2> QED
      BY <2>2
  <1> SUFFICES ASSUME NEW j \in 0 .. k
               PROVE  SubSeq(SubSeq(p, 1, k), 1, j) = SubSeq(p, 1, j)
    BY <1>2
  <1> DEFINE s == SubSeq(p, 1, k)
  <1>3. s \in Seq(S) /\ Len(s) = k /\ \A i \in 1 .. k : s[i] = p[i]
    BY <1>2
  <1> HIDE DEF s
  <1>4. j \in Int /\ 1 \in Int /\ \A i \in 1 .. j : s[i] \in S
    BY <1>1, <1>3
  <1>5. /\ SubSeq(s, 1, j) \in Seq(S)
        /\ Len(SubSeq(s, 1, j)) = IF 1 <= j THEN j - 1 + 1 ELSE 0
        /\ \A i \in 1 .. j - 1 + 1 : SubSeq(s, 1, j)[i] = s[1 + i - 1]
    BY <1>4, SubSeqProperties
  <1>6. Len(SubSeq(s, 1, j)) = j /\ \A i \in 1 .. j : SubSeq(s, 1, j)[i] = p[i]
    BY <1>3, <1>5
  <1>7. SubSeq(s, 1, j) = SubSeq(p, 1, j)
    BY <1>2, <1>5, <1>6, SeqEqual
  <1> QED
    BY <1>7 DEF s

-----------------------------------------------------------------------------
(* Documents *)

LEMMA Runes == Letter \subseteq Rune /\ Rune \subseteq Nat /\ Slash \in Rune /\ Slash \notin Letter
  BY RankingAssumption DEF Rune

LEMMA RunesAreNats == ASSUME NEW s \in Seq(Rune) PROVE s \in Seq(Nat)
  BY Runes, SeqMonotonic

\* The sequences that documents are made of.
LEMMA PartsTyped ==
    ASSUME NEW dir \in Dirs, NEW name \in Names
    PROVE  /\ dir \in Seq(Rune) /\ name \in Seq(Rune)
           /\ \A i \in 1 .. Len(name) : name[i] # Slash
  <1>1. dir \in Seq(Rune) /\ name \in Seq(Letter)
    BY RankingAssumption
  <1>2. name \in Seq(Rune)
    BY <1>1, Runes, SeqMonotonic
  <1>3. \A i \in 1 .. Len(name) : name[i] \in Letter
    BY <1>1, ElementOfSeq
  <1> QED
    BY <1>1, <1>2, <1>3, Runes

LEMMA LoweredIs ==
    ASSUME NEW s \in Seq(Rune)
    PROVE  /\ Lowered(s) \in Seq(Rune)
           /\ Len(Lowered(s)) = Len(s)
           /\ \A i \in 1 .. Len(s) : Lowered(s)[i] = Lower[s[i]]
  <1>1. Len(s) \in Nat /\ \A i \in 1 .. Len(s) : s[i] \in Rune
    BY LenProperties, ElementOfSeq
  <1>2. \A i \in 1 .. Len(s) : Lower[s[i]] \in Rune
    BY <1>1, RankingAssumption
  <1>3. PICK n, t : n = Len(s) /\ t = [i \in 1 .. n |-> Lower[s[i]]]
    OBVIOUS
  <1>4. n \in Nat /\ t \in [1 .. n -> Rune]
    BY <1>1, <1>2, <1>3
  <1>5. t \in Seq(Rune) /\ Len(t) = n
    BY <1>4, SeqDef, LenProperties
  <1>6. Lowered(s) = t
    BY <1>3 DEF Lowered
  <1> QED
    BY <1>3, <1>5, <1>6

\* A text has so many bytes, and more than what it begins with.
LEMMA BytesFinite ==
    ASSUME NEW s \in Seq(Rune)
    PROVE  IsFiniteSet(Bytes(s)) /\ Size(s) \in Nat
  <1>1. Len(s) \in Nat
    BY LenProperties
  <1>2. IsFiniteSet(1 .. Len(s)) /\ IsFiniteSet(1 .. 4)
    <2>1. 1 \in Int /\ 4 \in Int /\ Len(s) \in Int
      BY <1>1
    <2> QED
      BY <2>1, FS_Interval
  <1>3. IsFiniteSet((1 .. Len(s)) \X (1 .. 4))
    BY <1>2, FS_Product
  <1>4. Bytes(s) \in SUBSET ((1 .. Len(s)) \X (1 .. 4))
    BY DEF Bytes
  <1>5. IsFiniteSet(Bytes(s))
    BY <1>3, <1>4, FS_Subset
  <1> QED
    BY <1>5, FS_CardinalityType DEF Size

LEMMA BeginningSmaller ==
    ASSUME NEW s \in Seq(Rune), NEW t \in Seq(Rune), Len(s) < Len(t),
           \A i \in 1 .. Len(s) : s[i] = t[i]
    PROVE  Size(s) < Size(t)
  <1>1. Len(s) \in Nat /\ Len(t) \in Nat
    BY LenProperties
  <1>2. PICK i : i = Len(s) + 1
    OBVIOUS
  <1>3. i \in 1 .. Len(t) /\ i \notin 1 .. Len(s)
    BY <1>1, <1>2
  <1>4. Width[t[i]] \in 1 .. 4
    <2>1. t[i] \in Rune
      BY <1>3, ElementOfSeq
    <2> QED
      BY <2>1, RankingAssumption
  <1>5. <<i, 1>> \in Bytes(t) /\ <<i, 1>> \notin Bytes(s)
    BY <1>3, <1>4 DEF Bytes
  <1>6. Bytes(s) \in SUBSET Bytes(t)
    <2>1. 1 .. Len(s) \subseteq 1 .. Len(t)
      BY <1>1
    <2> QED
      BY <2>1 DEF Bytes
  <1>7. /\ Cardinality(Bytes(s)) <= Cardinality(Bytes(t))
        /\ Cardinality(Bytes(t)) = Cardinality(Bytes(s)) => Bytes(t) = Bytes(s)
    BY <1>6, BytesFinite, FS_Subset
  <1>8. Size(s) \in Nat /\ Size(t) \in Nat
    BY BytesFinite
  <1> QED
    BY <1>5, <1>7, <1>8 DEF Size

\* A path is its directory, a slash, and its name.
LEMMA PathParts ==
    ASSUME NEW dir \in Dirs, NEW name \in Names
    PROVE  LET path == dir \o <<Slash>> \o name
           IN  /\ path \in Seq(Rune)
               /\ Len(path) = Len(dir) + 1 + Len(name)
               /\ path[Len(dir) + 1] = Slash
               /\ \A i \in 1 .. Len(name) : path[Len(dir) + 1 + i] = name[i]
  <1>1. dir \in Seq(Rune) /\ name \in Seq(Rune) /\ <<Slash>> \in Seq(Rune)
    BY PartsTyped, Runes
  <1>2. Len(dir) \in Nat /\ Len(name) \in Nat /\ Len(<<Slash>>) = 1 /\ <<Slash>>[1] = Slash
    BY <1>1, LenProperties
  <1> DEFINE pre == dir \o <<Slash>>
  <1>3. /\ pre \in Seq(Rune)
        /\ Len(pre) = Len(dir) + Len(<<Slash>>)
        /\ \A i \in 1 .. Len(dir) + Len(<<Slash>>) :
              pre[i] = IF i <= Len(dir) THEN dir[i] ELSE <<Slash>>[i - Len(dir)]
    BY <1>1, ConcatProperties
  <1>4. Len(pre) = Len(dir) + 1 /\ pre[Len(dir) + 1] = Slash
    BY <1>2, <1>3
  <1>p. pre \in Seq(Rune) /\ name \in Seq(Rune)
    BY <1>1, <1>3
  <1> HIDE DEF pre
  <1>5. /\ pre \o name \in Seq(Rune)
        /\ Len(pre \o name) = Len(pre) + Len(name)
        /\ \A i \in 1 .. Len(pre) + Len(name) :
              (pre \o name)[i] = IF i <= Len(pre) THEN pre[i] ELSE name[i - Len(pre)]
    BY <1>p, ConcatProperties
  <1>6. (pre \o name)[Len(dir) + 1] = Slash
    BY <1>2, <1>4, <1>5
  <1>7. \A i \in 1 .. Len(name) : (pre \o name)[Len(dir) + 1 + i] = name[i]
    <2> SUFFICES ASSUME NEW i \in 1 .. Len(name) PROVE (pre \o name)[Len(dir) + 1 + i] = name[i]
      OBVIOUS
    <2>1. PICK k : k = Len(dir) + 1 + i
      OBVIOUS
    <2>2. k \in 1 .. Len(pre) + Len(name) /\ ~(k <= Len(pre)) /\ k - Len(pre) = i
      BY <1>2, <1>4, <2>1
    <2> QED
      BY <1>5, <2>1, <2>2
  <1> QED
    BY <1>4, <1>5, <1>6, <1>7 DEF pre

LEMMA DocParts ==
    ASSUME NEW d \in AllDocs
    PROVE  /\ d = [name |-> d.name, path |-> d.path, lowerName |-> d.lowerName, lowerPath |-> d.lowerPath]
           /\ d.lowerName = Lowered(d.name) /\ d.lowerPath = Lowered(d.path)
           /\ \E dir \in Dirs, name \in Names : d.name = name /\ d.path = dir \o <<Slash>> \o name
  <1>1. PICK dir \in Dirs, name \in Names : d = Doc(dir, name)
    BY DEF AllDocs
  <1>2. PICK path, ln, lp : path = dir \o <<Slash>> \o name /\ ln = Lowered(name) /\ lp = Lowered(path)
    OBVIOUS
  <1>3. d = [name |-> name, path |-> path, lowerName |-> ln, lowerPath |-> lp]
    BY <1>1, <1>2 DEF Doc
  <1>4. d.name = name /\ d.path = path /\ d.lowerName = ln /\ d.lowerPath = lp
    BY <1>3
  <1> QED
    BY <1>2, <1>3, <1>4

LEMMA DocTyped ==
    ASSUME NEW d \in AllDocs
    PROVE  /\ d.path \in Seq(Rune) /\ Size(d.path) \in Nat
           /\ d.lowerName \in Seq(Rune) /\ Size(d.lowerName) \in Nat
           /\ d.lowerPath \in Seq(Rune) /\ Size(d.lowerPath) \in Nat
  <1>1. PICK dir \in Dirs, name \in Names : d.name = name /\ d.path = dir \o <<Slash>> \o name
    BY DocParts
  <1>2. d.name \in Seq(Rune) /\ d.path \in Seq(Rune)
    BY <1>1, PartsTyped, PathParts
  <1>3. d.lowerName \in Seq(Rune) /\ d.lowerPath \in Seq(Rune)
    BY <1>2, DocParts, LoweredIs
  <1> QED
    BY <1>2, <1>3, BytesFinite

\* A match within a name is at a place in it.
LEMMA AtNat ==
    ASSUME NEW q \in Seq(Rune), NEW d \in AllDocs
    PROVE  At(q, d) \in Nat
  <1>1. CASE Tier(q, d) # 3
    BY <1>1 DEF At
  <1>2. CASE Tier(q, d) = 3
    <2>1. PICK s, o : s = d.lowerName /\ o = Offset(q, s)
      OBVIOUS
    <2>2. Occurrences(q, s) # {}
      BY <1>2, <2>1 DEF Tier, NoMatch
    <2>3. Occurrences(q, s) \in SUBSET Nat
      BY DEF Occurrences
    <2>4. o \in Occurrences(q, s)
      BY <2>1, <2>2, <2>3, LeastNat DEF Offset
    <2>5. s \in Seq(Rune) /\ Len(s) \in Nat /\ Len(q) \in Nat
      BY <2>1, DocTyped, LenProperties
    <2>6. o \in 0 .. Len(s)
      BY <2>4, <2>5 DEF Occurrences
    <2>7. SubSeq(s, 1, o) \in Seq(Rune)
      BY <2>5, <2>6, Beginnings
    <2> QED
      BY <1>2, <2>1, <2>7, BytesFinite DEF At
  <1> QED
    BY <1>1, <1>2

LEMMA TierRange ==
    ASSUME NEW q, NEW d
    PROVE  Tier(q, d) \in 1 .. 7
  BY DEF Tier, NoMatch

LEMMA ScoreInt ==
    ASSUME NEW q \in Seq(Rune), NEW d \in AllDocs
    PROVE  ScoreDoc(q, d) \in Int
  <1> DEFINE a == At(q, d)
             n == Penalty(Size(d.lowerName))
             p == Penalty(Size(d.lowerPath))
  <1>1. a \in Nat
    BY AtNat
  <1>3. n \in 0 .. 120 /\ p \in 0 .. 120
    BY DocTyped, PenaltyBounds
  <1>2. ScoreDoc(q, d) \in {1000, 850 - n, 650 - a - n, 450 - p, 300 - n, 150 - p}
    BY TierRange DEF ScoreDoc, Score
  <1> HIDE DEF a, n, p
  <1> QED
    BY <1>1, <1>2, <1>3

\* The last slash of a path tells where the name begins, so that a path has one
\* document.
LEMMA OneDocOfPath ==
    ASSUME NEW d \in AllDocs, NEW e \in AllDocs, d.path = e.path
    PROVE  d = e
  <1>1. PICK ddir \in Dirs, dname \in Names : d.name = dname /\ d.path = ddir \o <<Slash>> \o dname
    BY DocParts
  <1>2. PICK edir \in Dirs, ename \in Names : e.name = ename /\ e.path = edir \o <<Slash>> \o ename
    BY DocParts
  <1>3. /\ ddir \in Seq(Rune) /\ edir \in Seq(Rune)
        /\ dname \in Seq(Rune) /\ ename \in Seq(Rune)
        /\ \A i \in 1 .. Len(dname) : dname[i] # Slash
        /\ \A i \in 1 .. Len(ename) : ename[i] # Slash
    BY PartsTyped
  <1>l. Len(ddir) \in Nat /\ Len(edir) \in Nat /\ Len(dname) \in Nat /\ Len(ename) \in Nat
    BY <1>3, LenProperties
  <1> DEFINE path == d.path
  <1>4. /\ Len(path) = Len(ddir) + 1 + Len(dname)
        /\ path[Len(ddir) + 1] = Slash
        /\ \A i \in 1 .. Len(dname) : path[Len(ddir) + 1 + i] = dname[i]
    BY <1>1, PathParts
  <1>5. /\ Len(path) = Len(edir) + 1 + Len(ename)
        /\ path[Len(edir) + 1] = Slash
        /\ \A i \in 1 .. Len(ename) : path[Len(edir) + 1 + i] = ename[i]
    BY <1>2, PathParts
  <1> HIDE DEF path
  <1>6. ~(Len(ddir) < Len(edir))
    <2> SUFFICES ASSUME Len(ddir) < Len(edir) PROVE FALSE
      OBVIOUS
    <2> DEFINE i == Len(edir) - Len(ddir)
    <2>1. i \in 1 .. Len(dname) /\ Len(ddir) + 1 + i = Len(edir) + 1
      BY <1>l, <1>4, <1>5
    <2>2. path[Len(ddir) + 1 + i] = dname[i] /\ path[Len(edir) + 1] = Slash
      BY <1>4, <1>5, <2>1
    <2>3. dname[i] # Slash
      BY <1>3, <2>1
    <2> HIDE DEF i
    <2> QED
      BY <2>1, <2>2, <2>3
  <1>7. ~(Len(edir) < Len(ddir))
    <2> SUFFICES ASSUME Len(edir) < Len(ddir) PROVE FALSE
      OBVIOUS
    <2> DEFINE i == Len(ddir) - Len(edir)
    <2>1. i \in 1 .. Len(ename) /\ Len(edir) + 1 + i = Len(ddir) + 1
      BY <1>l, <1>4, <1>5
    <2>2. path[Len(edir) + 1 + i] = ename[i] /\ path[Len(ddir) + 1] = Slash
      BY <1>4, <1>5, <2>1
    <2>3. ename[i] # Slash
      BY <1>3, <2>1
    <2> HIDE DEF i
    <2> QED
      BY <2>1, <2>2, <2>3
  <1>8. Len(ddir) = Len(edir) /\ Len(dname) = Len(ename)
    BY <1>l, <1>4, <1>5, <1>6, <1>7
  <1>9. \A i \in 1 .. Len(dname) : dname[i] = ename[i]
    BY <1>l, <1>4, <1>5, <1>8
  <1>10. dname = ename
    BY <1>3, <1>8, <1>9, SeqEqual
  <1>11. d.name = e.name /\ d.path = e.path
    BY <1>1, <1>2, <1>10
  <1>12. d.lowerName = e.lowerName /\ d.lowerPath = e.lowerPath
    BY <1>11, DocParts
  <1> QED
    BY <1>11, <1>12, DocParts

-----------------------------------------------------------------------------
(* The comparison *)

\* Paths of one size are ordered by their first difference: neither begins the
\* other.
LEMMA Differ ==
    ASSUME NEW s \in Seq(Rune), NEW t \in Seq(Rune), Size(s) = Size(t), s # t
    PROVE  \E i \in 1 .. Len(s) : i <= Len(t) /\ s[i] # t[i]
  <1>1. Len(s) \in Nat /\ Len(t) \in Nat /\ Size(s) \in Nat
    BY LenProperties, BytesFinite
  <1> SUFFICES ASSUME \A i \in 1 .. Len(s) : i <= Len(t) => s[i] = t[i]
               PROVE  FALSE
    OBVIOUS
  <1>2. CASE Len(s) = Len(t)
    <2>1. \A i \in 1 .. Len(s) : s[i] = t[i]
      BY <1>1, <1>2
    <2> QED
      BY <1>2, <2>1, SeqEqual
  <1>3. CASE Len(s) < Len(t)
    <2>1. \A i \in 1 .. Len(s) : s[i] = t[i]
      BY <1>1, <1>3
    <2>2. Size(s) < Size(t)
      BY <1>3, <2>1, BeginningSmaller
    <2> QED
      BY <1>1, <2>2
  <1>4. CASE Len(t) < Len(s)
    <2>1. \A i \in 1 .. Len(t) : t[i] = s[i]
      BY <1>1, <1>4
    <2>2. Size(t) < Size(s)
      BY <1>4, <2>1, BeginningSmaller
    <2> QED
      BY <1>1, <2>2
  <1> QED
    BY <1>1, <1>2, <1>3, <1>4

LEMMA LessOrder ==
    ASSUME NEW s \in Seq(Rune), NEW t \in Seq(Rune), NEW u \in Seq(Rune)
    PROVE  /\ ~Less(s, s)
           /\ Less(s, t) /\ Less(t, u) => Less(s, u)
           /\ Size(s) = Size(t) /\ s # t => Less(s, t) \/ Less(t, s)
  <1>l. Len(s) \in Nat /\ Len(t) \in Nat /\ Len(u) \in Nat
    BY LenProperties
  <1>n. /\ \A i \in 1 .. Len(s) : s[i] \in Nat
        /\ \A i \in 1 .. Len(t) : t[i] \in Nat
        /\ \A i \in 1 .. Len(u) : u[i] \in Nat
    BY Runes, ElementOfSeq
  <1>1. ~Less(s, s)
    BY <1>n DEF Less
  <1>2. ASSUME Less(s, t), Less(t, u)
        PROVE  Less(s, u)
    <2>1. PICK i \in 1 .. Len(s) : i <= Len(t) /\ s[i] < t[i] /\ \A k \in 1 .. i - 1 : s[k] = t[k]
      BY <1>2 DEF Less
    <2>2. PICK j \in 1 .. Len(t) : j <= Len(u) /\ t[j] < u[j] /\ \A k \in 1 .. j - 1 : t[k] = u[k]
      BY <1>2 DEF Less
    <2>3. CASE i <= j
      <3>1. i \in 1 .. Len(t) /\ i \in 1 .. Len(u)
        BY <1>l, <2>1, <2>2, <2>3
      <3>2. s[i] < u[i]
        <4>1. s[i] \in Nat /\ t[i] \in Nat /\ u[i] \in Nat
          BY <1>n, <3>1
        <4>2. CASE i < j
          <5>1. t[i] = u[i]
            BY <1>l, <2>2, <4>2
          <5> QED
            BY <2>1, <5>1
        <4>3. CASE i = j
          BY <2>1, <2>2, <4>1, <4>3
        <4> QED
          BY <1>l, <2>3, <4>2, <4>3
      <3>3. \A k \in 1 .. i - 1 : s[k] = u[k]
        BY <2>1, <2>2, <2>3
      <3> QED
        BY <1>l, <3>1, <3>2, <3>3 DEF Less
    <2>4. CASE j < i
      <3>1. j \in 1 .. Len(s) /\ j <= Len(u)
        BY <1>l, <2>1, <2>2, <2>4
      <3>2. s[j] < u[j]
        <4>1. s[j] = t[j]
          BY <1>l, <2>1, <2>4
        <4> QED
          BY <2>2, <4>1
      <3>3. \A k \in 1 .. j - 1 : s[k] = u[k]
        BY <2>1, <2>2, <2>4
      <3> QED
        BY <3>1, <3>2, <3>3 DEF Less
    <2> QED
      BY <2>3, <2>4
  <1>3. ASSUME Size(s) = Size(t), s # t
        PROVE  Less(s, t) \/ Less(t, s)
    <2> DEFINE D == {i \in 1 .. Len(s) : i <= Len(t) /\ s[i] # t[i]}
    <2>1. D # {}
      BY <1>3, Differ
    <2>2. D \in SUBSET Nat
      BY <1>l
    <2> HIDE DEF D
    <2>3. PICK m \in D : \A k \in D : m <= k
      BY <2>1, <2>2, LeastNat
    <2>4. m \in 1 .. Len(s) /\ m \in 1 .. Len(t) /\ s[m] # t[m]
      BY <1>l, <2>3 DEF D
    <2>5. \A k \in 1 .. m - 1 : s[k] = t[k]
      BY <1>l, <2>3, <2>4 DEF D
    <2>6. s[m] < t[m] \/ t[m] < s[m]
      BY <1>n, <2>4
    <2> QED
      BY <2>4, <2>5, <2>6 DEF Less
  <1> QED
    BY <1>1, <1>2, <1>3

(***************************************************************************)
(* The comparison that Search sorts with is a strict total order of the     *)
(* documents, for every query: no two are left in the order the index       *)
(* happened to be walked in.                                                *)
(***************************************************************************)
THEOREM BeforeOrders ==
    ASSUME NEW q \in Seq(Rune), NEW d \in AllDocs, NEW e \in AllDocs, NEW f \in AllDocs
    PROVE  /\ ~Before(q, d, d)
           /\ Before(q, d, e) /\ Before(q, e, f) => Before(q, d, f)
           /\ d # e => Before(q, d, e) \/ Before(q, e, d)
  <1>1. ScoreDoc(q, d) \in Int /\ ScoreDoc(q, e) \in Int /\ ScoreDoc(q, f) \in Int
    BY ScoreInt
  <1>2. /\ d.path \in Seq(Rune) /\ e.path \in Seq(Rune) /\ f.path \in Seq(Rune)
        /\ Size(d.path) \in Nat /\ Size(e.path) \in Nat /\ Size(f.path) \in Nat
    BY DocTyped
  <1>3. ~Before(q, d, d)
    BY <1>1, <1>2, LessOrder DEF Before
  <1>4. ASSUME Before(q, d, e), Before(q, e, f)
        PROVE  Before(q, d, f)
    <2>1. Size(d.path) = Size(e.path) /\ Size(e.path) = Size(f.path)
             => (Less(d.path, e.path) /\ Less(e.path, f.path) => Less(d.path, f.path))
      BY <1>2, LessOrder
    <2> QED
      BY <1>1, <1>2, <1>4, <2>1 DEF Before
  <1>5. ASSUME d # e
        PROVE  Before(q, d, e) \/ Before(q, e, d)
    <2>1. Size(d.path) = Size(e.path) => Less(d.path, e.path) \/ Less(e.path, d.path)
      BY <1>2, <1>5, LessOrder, OneDocOfPath
    <2> QED
      BY <1>1, <1>2, <2>1 DEF Before
  <1> QED
    BY <1>3, <1>4, <1>5

\* A better tier scores higher, whatever the lengths.
LEMMA TiersScore ==
    ASSUME NEW q \in Seq(Rune), NEW d \in AllDocs, NEW e \in AllDocs,
           Tier(q, d) < Tier(q, e), Tier(q, e) # NoMatch, Near(At(q, d), Size(d.lowerName))
    PROVE  ScoreDoc(q, d) > ScoreDoc(q, e)
  <1> DEFINE t == Tier(q, d)   u == Tier(q, e)
             a == At(q, d)     b == At(q, e)
             n == Penalty(Size(d.lowerName))   k == Penalty(Size(e.lowerName))
             p == Penalty(Size(d.lowerPath))   r == Penalty(Size(e.lowerPath))
  <1>1. a \in Nat /\ b \in Nat
    BY AtNat
  <1>2. n \in 0 .. 120 /\ k \in 0 .. 120 /\ p \in 0 .. 120 /\ r \in 0 .. 120
    BY DocTyped, PenaltyBounds
  <1>3. t \in 1 .. 7 /\ u \in 1 .. 6 /\ t < u /\ a + n < 200
    BY TierRange DEF Near, NoMatch
  <1>4. /\ t = 1 => ScoreDoc(q, d) = 1000
        /\ t = 2 => ScoreDoc(q, d) = 850 - n
        /\ t = 3 => ScoreDoc(q, d) = 650 - a - n
        /\ t = 4 => ScoreDoc(q, d) = 450 - p
        /\ t = 5 => ScoreDoc(q, d) = 300 - n
    BY DEF ScoreDoc, Score
  <1>5. /\ u = 2 => ScoreDoc(q, e) = 850 - k
        /\ u = 3 => ScoreDoc(q, e) = 650 - b - k
        /\ u = 4 => ScoreDoc(q, e) = 450 - r
        /\ u = 5 => ScoreDoc(q, e) = 300 - k
        /\ u = 6 => ScoreDoc(q, e) = 150 - r
    BY DEF ScoreDoc, Score
  <1> HIDE DEF t, u, a, b, n, k, p, r
  <1>6. u = 2 \/ u = 3 \/ u = 4 \/ u = 5 \/ u = 6
    BY <1>3
  <1>7. CASE t = 1
    BY <1>1, <1>2, <1>3, <1>4, <1>5, <1>6, <1>7
  <1>8. CASE t = 2
    BY <1>1, <1>2, <1>3, <1>4, <1>5, <1>6, <1>8
  <1>9. CASE t = 3
    BY <1>1, <1>2, <1>3, <1>4, <1>5, <1>6, <1>9
  <1>10. CASE t = 4
    BY <1>1, <1>2, <1>3, <1>4, <1>5, <1>6, <1>10
  <1>11. CASE t = 5
    BY <1>1, <1>2, <1>3, <1>4, <1>5, <1>6, <1>11
  <1> QED
    BY <1>3, <1>7, <1>8, <1>9, <1>10, <1>11

-----------------------------------------------------------------------------
(* Sequences, from their ends.                                              *)

LEMMA Whole ==
    ASSUME NEW S, NEW p \in Seq(S)
    PROVE  SubSeq(p, 1, 0) = <<>> /\ SubSeq(p, 1, Len(p)) = p
  BY SubSeqFull, SubSeqEmpty

LEMMA Ends ==
    ASSUME NEW S, NEW p \in Seq(S), p # <<>>
    PROVE  /\ Len(p) \in Nat \ {0}
           /\ Front(p) = SubSeq(p, 1, Len(p) - 1) /\ Last(p) = p[Len(p)]
           /\ Front(p) \in Seq(S) /\ Last(p) \in S
           /\ Len(Front(p)) = Len(p) - 1
           /\ \A k \in 1 .. Len(p) - 1 : Front(p)[k] = p[k]
           /\ p = Append(Front(p), Last(p))
  <1>1. Len(p) \in Nat \ {0}
    BY EmptySeq
  <1>2. Front(p) = SubSeq(p, 1, Len(p) - 1) /\ Last(p) = p[Len(p)]
    BY DEF Front, Last
  <1>3. Last(p) \in S
    BY <1>1, <1>2, ElementOfSeq
  <1>4. /\ Front(p) \in Seq(S) /\ Len(Front(p)) = Len(p) - 1
        /\ \A k \in 1 .. Len(p) - 1 : Front(p)[k] = p[k]
    <2> DEFINE n == Len(p) - 1
    <2>1. n \in 0 .. Len(p)
      BY <1>1
    <2> HIDE DEF n
    <2>2. /\ SubSeq(p, 1, n) \in Seq(S) /\ Len(SubSeq(p, 1, n)) = n
          /\ \A k \in 1 .. n : SubSeq(p, 1, n)[k] = p[k]
      BY <2>1, Beginnings
    <2> QED
      BY <1>2, <2>2 DEF n
  <1> HIDE DEF Front, Last
  <1>5. /\ Append(Front(p), Last(p)) \in Seq(S)
        /\ Len(Append(Front(p), Last(p))) = Len(p) - 1 + 1
        /\ \A i \in 1 .. Len(p) - 1 : Append(Front(p), Last(p))[i] = Front(p)[i]
        /\ Append(Front(p), Last(p))[Len(p) - 1 + 1] = Last(p)
    BY <1>3, <1>4, AppendProperties
  <1>6. \A i \in 1 .. Len(p) : Append(Front(p), Last(p))[i] = p[i]
    BY <1>1, <1>2, <1>4, <1>5
  <1>7. p = Append(Front(p), Last(p))
    BY <1>1, <1>5, <1>6, SeqEqual
  <1> QED
    BY <1>1, <1>2, <1>3, <1>4, <1>7

LEMMA Appended ==
    ASSUME NEW S, NEW p \in Seq(S), NEW x \in S
    PROVE  /\ Append(p, x) \in Seq(S) /\ Append(p, x) # <<>>
           /\ Len(Append(p, x)) = Len(p) + 1
           /\ Front(Append(p, x)) = p /\ Last(Append(p, x)) = x
           /\ \A k \in 0 .. Len(p) : SubSeq(Append(p, x), 1, k) = SubSeq(p, 1, k)
  <1> DEFINE q == Append(p, x)
  <1>1. /\ q \in Seq(S) /\ q # <<>> /\ Len(q) = Len(p) + 1 /\ Len(p) \in Nat
        /\ \A k \in 1 .. Len(p) : q[k] = p[k]
        /\ q[Len(p) + 1] = x
    BY AppendProperties, LenProperties
  <1> HIDE DEF q
  <1>2. /\ Front(q) \in Seq(S) /\ Len(Front(q)) = Len(q) - 1 /\ Last(q) = q[Len(q)]
        /\ Front(q) = SubSeq(q, 1, Len(q) - 1)
        /\ \A k \in 1 .. Len(q) - 1 : Front(q)[k] = q[k]
    BY <1>1, Ends
  <1>3. Front(q) = p
    <2>1. Len(Front(q)) = Len(p) /\ \A k \in 1 .. Len(Front(q)) : Front(q)[k] = p[k]
      BY <1>1, <1>2
    <2> QED
      BY <1>2, <2>1, SeqEqual
  <1>4. SubSeq(q, 1, Len(p)) = p /\ Len(p) \in 0 .. Len(q)
    BY <1>1, <1>2, <1>3
  <1>5. \A k \in 0 .. Len(p) : SubSeq(q, 1, k) = SubSeq(p, 1, k)
    <2>1. \A k \in 0 .. Len(p) : SubSeq(SubSeq(q, 1, Len(p)), 1, k) = SubSeq(q, 1, k)
      BY <1>1, <1>4, Beginnings
    <2> QED
      BY <1>4, <2>1
  <1> QED
    BY <1>1, <1>2, <1>3, <1>5 DEF q

\* One longer.
LEMMA Longer ==
    ASSUME NEW S, NEW p \in Seq(S), NEW k \in 1 .. Len(p)
    PROVE  /\ SubSeq(p, 1, k) # <<>>
           /\ Front(SubSeq(p, 1, k)) = SubSeq(p, 1, k - 1)
           /\ Last(SubSeq(p, 1, k)) = p[k]
           /\ p[k] \in S
           /\ SubSeq(p, 1, k) = Append(SubSeq(p, 1, k - 1), p[k])
  <1> DEFINE s == SubSeq(p, 1, k)
  <1>1. Len(p) \in Nat /\ k \in 0 .. Len(p) /\ k - 1 \in 0 .. k /\ p[k] \in S
    BY LenProperties, ElementOfSeq
  <1>2. /\ s \in Seq(S) /\ Len(s) = k /\ s[k] = p[k]
        /\ SubSeq(s, 1, k - 1) = SubSeq(p, 1, k - 1)
    BY <1>1, Beginnings
  <1> HIDE DEF s
  <1>3. s # <<>>
    BY <1>2, EmptySeq
  <1>4. Front(s) = SubSeq(s, 1, Len(s) - 1) /\ Last(s) = s[Len(s)] /\ s = Append(Front(s), Last(s))
    BY <1>2, <1>3, Ends
  <1> QED
    BY <1>1, <1>2, <1>3, <1>4 DEF s

-----------------------------------------------------------------------------
(* Recursion over sequences, from their ends.                               *)

\* The values along p, up to n, of what is base at <<>> and step[v][x] after x.
Walked(w, p, n, base, step) ==
    /\ w[0] = base
    /\ \A k \in 1 .. n : w[k] = step[w[k - 1]][p[k]]

LEMMA WalkExists ==
    ASSUME NEW S, NEW V, NEW base \in V, NEW step \in [V -> [S -> V]], NEW p \in Seq(S)
    PROVE  \E w \in [0 .. Len(p) -> V] : Walked(w, p, Len(p), base, step)
  <1> DEFINE Without == {n \in 0 .. Len(p) :
                           ~\E w \in [0 .. n -> V] : Walked(w, SubSeq(p, 1, n), n, base, step)}
  <1>1. Len(p) \in Nat
    BY LenProperties
  <1>2. Without = {}
    <2> SUFFICES ASSUME Without # {} PROVE FALSE
      OBVIOUS
    <2>0. Without \in SUBSET Nat
      BY <1>1
    <2>1. PICK n \in Without : \A k \in Without : n <= k
      <3> HIDE DEF Without
      <3> QED
        BY <2>0, LeastNat
    <2> HIDE DEF Without
    <2>2. n \in Nat /\ n \in 0 .. Len(p) /\ ~\E w \in [0 .. n -> V] : Walked(w, SubSeq(p, 1, n), n, base, step)
      BY <1>1, <2>1 DEF Without
    <2> DEFINE s == SubSeq(p, 1, n)
    <2>3. s \in Seq(S) /\ Len(s) = n /\ \A k \in 1 .. n : s[k] = p[k]
      BY <2>2, Beginnings
    <2>4. CASE n = 0
      <3> DEFINE w == [k \in 0 .. 0 |-> base]
      <3>1. w \in [0 .. n -> V] /\ Walked(w, s, n, base, step)
        <4> HIDE DEF s
        <4> QED
          BY <2>3, <2>4 DEF Walked
      <3> QED
        BY <2>2, <3>1
    <2>5. CASE n # 0
      <3> DEFINE r == SubSeq(p, 1, n - 1)
      <3>1. n - 1 \in 0 .. Len(p) /\ n - 1 \notin Without
        BY <1>1, <2>1, <2>2, <2>5
      <3>2. PICK v \in [0 .. n - 1 -> V] : Walked(v, r, n - 1, base, step)
        BY <3>1 DEF Without
      <3>3. Len(r) = n - 1 /\ \A k \in 1 .. n - 1 : r[k] = p[k]
        BY <3>1, Beginnings
      <3> HIDE DEF r, s
      <3>4. /\ v[0] = base
            /\ \A k \in 1 .. n - 1 : v[k] = step[v[k - 1]][p[k]]
        BY <3>2, <3>3 DEF Walked
      <3>5. p[n] \in S /\ v[n - 1] \in V
        BY <1>1, <2>2, <2>5, ElementOfSeq
      <3> DEFINE x == step[v[n - 1]][p[n]]
      <3>6. x \in V
        BY <3>5
      <3>12. x = step[v[n - 1]][p[n]]
        OBVIOUS
      <3> HIDE DEF x
      <3> DEFINE w == [k \in 0 .. n |-> IF k = n THEN x ELSE v[k]]
      <3>7. w \in [0 .. n -> V]
        <4>1. \A k \in 0 .. n : k # n => k \in 0 .. n - 1
          BY <2>2
        <4>2. \A k \in 0 .. n - 1 : v[k] \in V
          OBVIOUS
        <4> QED
          BY <3>6, <4>1, <4>2
      <3>8. \A k \in 1 .. n : w[k] = step[w[k - 1]][s[k]]
        <4> SUFFICES ASSUME NEW k \in 1 .. n PROVE w[k] = step[w[k - 1]][s[k]]
          OBVIOUS
        <4>0. k \in 0 .. n /\ k - 1 \in 0 .. n /\ k - 1 # n
          BY <2>2
        <4>1. s[k] = p[k] /\ w[k - 1] = v[k - 1]
          BY <2>3, <4>0
        <4>2. CASE k = n
          BY <3>12, <4>0, <4>1, <4>2
        <4>3. CASE k # n
          <5>1. k \in 1 .. n - 1
            BY <2>2, <4>3
          <5> QED
            BY <3>4, <4>0, <4>1, <4>3, <5>1
        <4> QED
          BY <4>2, <4>3
      <3>9. w[0] = base
        <4>1. 0 \in 0 .. n /\ 0 # n
          BY <2>2, <2>5
        <4> QED
          BY <3>4, <4>1
      <3> HIDE DEF w
      <3>11. Walked(w, s, n, base, step)
        BY <3>8, <3>9 DEF Walked
      <3> QED
        BY <2>2, <3>7, <3>11 DEF s
    <2> QED
      BY <2>4, <2>5
  <1>3. Len(p) \in 0 .. Len(p) /\ SubSeq(p, 1, Len(p)) = p
    BY <1>1, Whole
  <1> QED
    BY <1>2, <1>3

\* A walk goes on from where another one of the same way has ended.
LEMMA WalksAgree ==
    ASSUME NEW base, NEW step, NEW p, NEW r, NEW v, NEW w, NEW m \in Nat \ {0},
           Walked(w, p, m, base, step), Walked(v, r, m - 1, base, step),
           \A k \in 1 .. m - 1 : r[k] = p[k]
    PROVE  w[m] = step[v[m - 1]][p[m]]
  <1> DEFINE Apart == {k \in 0 .. m - 1 : v[k] # w[k]}
  <1>0. Apart \in SUBSET Nat
    OBVIOUS
  <1>1. Apart = {}
    <2> SUFFICES ASSUME Apart # {} PROVE FALSE
      OBVIOUS
    <2>1. PICK n \in Apart : \A k \in Apart : n <= k
      <3> HIDE DEF Apart
      <3> QED
        BY <1>0, LeastNat
    <2>2. n # 0
      BY <2>1 DEF Walked
    <2>3. n - 1 \in 0 .. m - 1 /\ v[n - 1] = w[n - 1]
      BY <2>1, <2>2
    <2>4. n \in 1 .. m - 1 /\ n \in 1 .. m /\ r[n] = p[n] /\ v[n] # w[n]
      BY <2>1, <2>2
    <2> HIDE DEF Apart
    <2>5. v[n] = step[v[n - 1]][r[n]] /\ w[n] = step[w[n - 1]][p[n]]
      BY <2>4 DEF Walked
    <2> QED
      BY <2>3, <2>4, <2>5
  <1>2. v[m - 1] = w[m - 1]
    BY <1>1
  <1>3. w[m] = step[w[m - 1]][p[m]]
    <2>1. m \in 1 .. m
      OBVIOUS
    <2> QED
      BY <2>1 DEF Walked
  <1> QED
    BY <1>2, <1>3

Recurs(f, S, base, step) ==
    \A p \in Seq(S) : f[p] = IF p = <<>> THEN base ELSE step[f[Front(p)]][Last(p)]

LEMMA Recursion ==
    ASSUME NEW S, NEW V, NEW base \in V, NEW step \in [V -> [S -> V]]
    PROVE  \E f \in [Seq(S) -> V] : Recurs(f, S, base, step)
  <1> DEFINE W(p) == CHOOSE w : w \in [0 .. Len(p) -> V] /\ Walked(w, p, Len(p), base, step)
             f == [p \in Seq(S) |-> W(p)[Len(p)]]
  <1>1. \A p \in Seq(S) : W(p) \in [0 .. Len(p) -> V] /\ Walked(W(p), p, Len(p), base, step)
    BY WalkExists
  <1> HIDE DEF W
  <1>2. f \in [Seq(S) -> V]
    <2> SUFFICES ASSUME NEW p \in Seq(S) PROVE W(p)[Len(p)] \in V
      OBVIOUS
    <2>1. Len(p) \in 0 .. Len(p)
      BY LenProperties
    <2> QED
      BY <1>1, <2>1
  <1>3. \A p \in Seq(S) : f[p] = IF p = <<>> THEN base ELSE step[f[Front(p)]][Last(p)]
    <2> SUFFICES ASSUME NEW p \in Seq(S)
                 PROVE  f[p] = IF p = <<>> THEN base ELSE step[f[Front(p)]][Last(p)]
      OBVIOUS
    <2>1. CASE p = <<>>
      BY <1>1, <2>1, EmptySeq DEF Walked
    <2>2. CASE p # <<>>
      <3>1. PICK r, m : r = Front(p) /\ m = Len(p)
        OBVIOUS
      <3>2. /\ r \in Seq(S) /\ m \in Nat \ {0} /\ Len(r) = m - 1 /\ Last(p) = p[m]
            /\ \A k \in 1 .. m - 1 : r[k] = p[k]
        BY <2>2, <3>1, Ends
      <3>3. PICK a, b : a = W(p) /\ b = W(r)
        OBVIOUS
      <3>4. Walked(a, p, m, base, step) /\ Walked(b, r, m - 1, base, step)
        BY <1>1, <3>1, <3>2, <3>3
      <3>5. a[m] = step[b[m - 1]][p[m]]
        <4>1. PICK q, s, z : q = p /\ s = step /\ z = base
          OBVIOUS
        <4>2. m \in Nat \ {0} /\ \A k \in 1 .. m - 1 : r[k] = q[k]
          BY <3>2, <4>1
        <4>3. Walked(a, q, m, z, s) /\ Walked(b, r, m - 1, z, s)
          BY <3>4, <4>1
        <4>4. a[m] = s[b[m - 1]][q[m]]
          BY <4>2, <4>3, WalksAgree
        <4> QED
          BY <4>1, <4>4
      <3>6. f[p] = a[m] /\ f[r] = b[m - 1]
        BY <3>1, <3>2, <3>3
      <3> QED
        BY <2>2, <3>1, <3>2, <3>5, <3>6
    <2> QED
      BY <2>1, <2>2
  <1> QED
    BY <1>2, <1>3 DEF Recurs

\* Induction over sequences: T is the set of those that have the property.
LEMMA SeqInduction ==
    ASSUME NEW S, NEW T, <<>> \in T,
           \A p \in Seq(S) : p # <<>> /\ Front(p) \in T => p \in T
    PROVE  \A p \in Seq(S) : p \in T
  <1> SUFFICES ASSUME NEW q \in Seq(S), q \notin T PROVE FALSE
    OBVIOUS
  <1> DEFINE Lengths == {n \in Nat : \E p \in Seq(S) : p \notin T /\ Len(p) = n}
  <1>1. Lengths \in SUBSET Nat /\ Len(q) \in Lengths
    BY LenProperties
  <1>2. PICK n \in Lengths : \A k \in Lengths : n <= k
    <2> HIDE DEF Lengths
    <2> QED
      BY <1>1, LeastNat
  <1>3. PICK p \in Seq(S) : p \notin T /\ Len(p) = n
    BY <1>2
  <1>4. p # <<>>
    BY <1>3
  <1>5. Front(p) \in Seq(S) /\ Len(Front(p)) = n - 1 /\ n \in Nat \ {0}
    BY <1>3, <1>4, Ends
  <1>6. Front(p) \notin T
    BY <1>3, <1>4
  <1>7. n - 1 \in Lengths
    BY <1>5, <1>6
  <1> QED
    BY <1>2, <1>5, <1>7

-----------------------------------------------------------------------------
(* Where paths lead.                                                        *)

LEMMA MarksApart ==
    /\ Nowhere \notin Seq(Part) /\ Missing \notin Seq(Part)
    /\ Broken \notin Seq(Part) /\ Refused \notin Seq(Part)
  BY BrowseAssumption

LEMMA MissingNotBroken == Missing # Broken
  <1>1. Missing[1] = "missing" /\ Broken[1] = "broken"
    BY DEF Missing, Broken
  <1> QED
    BY <1>1

Led == Seq(Part) \cup {Missing, Broken}

LEMMA NodesTold ==
    ASSUME Disk(world), NEW p \in DOMAIN world
    PROVE  /\ p \in Seq(Part) /\ p # <<>>
           /\ world[p].kind \in {"dir", "file", "link"} /\ world[p].to \in Seq(Part)
           /\ world[p].kind # "link" => world[p].to = <<>>
           /\ Front(p) # <<>> => Front(p) \in DOMAIN world /\ world[Front(p)].kind = "dir"
           /\ world[p].to \in DOMAIN world => world[world[p].to].kind # "link"
  <1>1. <<>> \in Seq(Part)
    BY EmptySeq
  <1>2. p \in Seq(Part) \ {<<>>}
    BY DEF Disk
  <1>3. world[p] \in Node
    BY DEF Disk
  <1>4. /\ world[p].kind \in {"dir", "file", "link"} /\ world[p].to \in Seq(Part)
        /\ world[p].kind # "link" => world[p].to = <<>>
    BY <1>1, <1>3 DEF Node
  <1>5. /\ Front(p) # <<>> => Front(p) \in DOMAIN world /\ world[Front(p)].kind = "dir"
        /\ world[p].to \in DOMAIN world => world[world[p].to].kind # "link"
    BY DEF Disk
  <1> QED
    BY <1>2, <1>4, <1>5

LEMMA FollowLed ==
    ASSUME Disk(world), NEW p \in Seq(Part)
    PROVE  Follow(p) \in Led
  <1>2. CASE p = <<>>
    BY <1>2 DEF Follow, Exists, KindOf, Led
  <1>3. CASE p # <<>> /\ p \in DOMAIN world
    <2>1. world[p].to \in Seq(Part)
      BY <1>3, NodesTold
    <2> QED
      BY <1>3, <2>1 DEF Follow, Led
  <1>4. CASE p # <<>> /\ p \notin DOMAIN world
    BY <1>4 DEF Follow, Exists, Led
  <1> QED
    BY <1>2, <1>3, <1>4

LEMMA EnterLed ==
    ASSUME Disk(world), NEW dir \in Led, NEW x \in Part
    PROVE  Enter(dir, x) \in Led
  <1>1. CASE dir \in {Missing, Broken}
    BY <1>1 DEF Enter, Led
  <1>2. CASE dir \notin {Missing, Broken}
    <2>1. dir \in Seq(Part)
      BY <1>2 DEF Led
    <2>2. Append(dir, x) \in Seq(Part)
      BY <2>1, Appended
    <2>3. Follow(Append(dir, x)) \in Led
      BY <2>2, FollowLed
    <2> QED
      BY <1>2, <2>3 DEF Enter, Led
  <1> QED
    BY <1>1, <1>2

\* The recursion of Physical has a solution.
LEMMA PhysicalIs ==
    ASSUME Disk(world)
    PROVE  /\ \A p \in Seq(Part) : Physical[p] \in Led
           /\ Physical[<<>>] = <<>>
           /\ \A p \in Seq(Part) : p # <<>> => Physical[p] = Enter(Physical[Front(p)], Last(p))
  <1> DEFINE step == [dir \in Led |-> [x \in Part |-> Enter(dir, x)]]
             Walks0(f) == f = [p \in Seq(Part) |-> IF p = <<>> THEN <<>> ELSE Enter(f[Front(p)], Last(p))]
  <1>1. <<>> \in Led /\ <<>> \in Seq(Part)
    BY EmptySeq DEF Led
  <1>2. step \in [Led -> [Part -> Led]]
    BY EnterLed
  <1>3. \A dir \in Led, x \in Part : step[dir][x] = Enter(dir, x)
    OBVIOUS
  <1>4. PICK f \in [Seq(Part) -> Led] :
            \A p \in Seq(Part) : f[p] = IF p = <<>> THEN <<>> ELSE step[f[Front(p)]][Last(p)]
    <2>1. PICK s, z : s = step /\ z = <<>>
      OBVIOUS
    <2>2. s \in [Led -> [Part -> Led]] /\ z \in Led
      BY <1>1, <1>2, <2>1
    <2>3. PICK f \in [Seq(Part) -> Led] : Recurs(f, Part, z, s)
      BY <2>2, Recursion
    <2> QED
      BY <2>1, <2>3 DEF Recurs
  <1> HIDE DEF step
  <1>5. \A p \in Seq(Part) :
            (IF p = <<>> THEN <<>> ELSE step[f[Front(p)]][Last(p)])
              = (IF p = <<>> THEN <<>> ELSE Enter(f[Front(p)], Last(p)))
    <2> SUFFICES ASSUME NEW p \in Seq(Part), p # <<>>
                 PROVE  step[f[Front(p)]][Last(p)] = Enter(f[Front(p)], Last(p))
      OBVIOUS
    <2>1. Front(p) \in Seq(Part) /\ Last(p) \in Part
      BY Ends
    <2>2. f[Front(p)] \in Led
      BY <2>1
    <2> QED
      BY <1>3, <2>1, <2>2
  <1>6. Walks0(f)
    BY <1>4, <1>5
  <1>7. Physical = CHOOSE g : Walks0(g)
    BY DEF Physical
  <1>8. Walks0(Physical)
    BY <1>6, <1>7
  <1>9. \A p \in Seq(Part) : Physical[p] = IF p = <<>> THEN <<>> ELSE Enter(Physical[Front(p)], Last(p))
    BY <1>8
  <1>10. \A p \in Seq(Part) : Physical[p] \in Led
    <2> DEFINE T == {p \in Seq(Part) : Physical[p] \in Led}
    <2>1. <<>> \in T
      BY <1>1, <1>9
    <2>2. \A p \in Seq(Part) : p # <<>> /\ Front(p) \in T => p \in T
      <3> SUFFICES ASSUME NEW p \in Seq(Part), p # <<>>, Physical[Front(p)] \in Led
                   PROVE  Physical[p] \in Led
        OBVIOUS
      <3>1. Last(p) \in Part
        BY Ends
      <3> QED
        BY <1>9, <3>1, EnterLed
    <2> HIDE DEF T
    <2>3. \A p \in Seq(Part) : p \in T
      BY <2>1, <2>2, SeqInduction
    <2> QED
      BY <2>3 DEF T
  <1> QED
    BY <1>1, <1>9, <1>10

LEMMA PlaceNext ==
    ASSUME Disk(world), NEW p \in Seq(Part), NEW k \in 1 .. Len(p)
    PROVE  /\ Place(p, k) = Enter(Place(p, k - 1), p[k])
           /\ Place(p, k) \in Led /\ Place(p, k - 1) \in Led /\ p[k] \in Part
  <1>1. k \in 0 .. Len(p) /\ k - 1 \in 0 .. Len(p)
    BY LenProperties
  <1>2. SubSeq(p, 1, k) \in Seq(Part) /\ SubSeq(p, 1, k - 1) \in Seq(Part)
    BY <1>1, Beginnings
  <1>3. /\ SubSeq(p, 1, k) # <<>> /\ p[k] \in Part
        /\ Front(SubSeq(p, 1, k)) = SubSeq(p, 1, k - 1) /\ Last(SubSeq(p, 1, k)) = p[k]
    BY Longer
  <1> QED
    BY <1>2, <1>3, PhysicalIs DEF Place

LEMMA PlaceAfter ==
    ASSUME Disk(world), NEW p \in Seq(Part), NEW k \in 0 .. Len(p) - 1
    PROVE  Place(p, k + 1) = Enter(Place(p, k), p[k + 1])
  <1>1. PICK n : n = k + 1
    OBVIOUS
  <1>2. n \in 1 .. Len(p) /\ k = n - 1
    BY <1>1, LenProperties
  <1>3. Place(p, n) = Enter(Place(p, n - 1), p[n])
    BY <1>2, PlaceNext
  <1> QED
    BY <1>1, <1>2, <1>3

\* There is no way on from where there is nothing.
LEMMA LostForGood ==
    ASSUME Disk(world), NEW p \in Seq(Part), NEW j \in 0 .. Len(p), NEW k \in j .. Len(p),
           Place(p, j) \in {Missing, Broken}
    PROVE  Place(p, k) = Place(p, j)
  <1> DEFINE Found == {i \in j .. Len(p) : Place(p, i) # Place(p, j)}
  <1> SUFFICES ASSUME Found # {} PROVE FALSE
    BY LenProperties
  <1>1. Found \in SUBSET Nat
    BY LenProperties
  <1>2. PICK i \in Found : \A l \in Found : i <= l
    <2> HIDE DEF Found
    <2> QED
      BY <1>1, LeastNat
  <1>3. i \in j .. Len(p) /\ Place(p, i) # Place(p, j) /\ i # j /\ Len(p) \in Nat
    BY <1>2, LenProperties
  <1>4. i \in 1 .. Len(p) /\ i - 1 \in j .. Len(p)
    BY <1>3
  <1>5. Place(p, i - 1) = Place(p, j)
    BY <1>2, <1>4
  <1>6. Place(p, i) = Enter(Place(p, i - 1), p[i])
    BY <1>4, PlaceNext
  <1> QED
    BY <1>3, <1>5, <1>6 DEF Enter

\* What is there is reached through directories.
LEMMA ThroughDirs ==
    ASSUME Disk(world), NEW p \in Seq(Part), NEW j \in 0 .. Len(p), NEW k \in j .. Len(p),
           Place(p, k) \notin {Missing, Broken}
    PROVE  /\ Place(p, j) \notin {Missing, Broken}
           /\ j < k => KindOf(Place(p, j)) = "dir"
  <1>1. Place(p, j) \notin {Missing, Broken}
    BY LostForGood
  <1>2. ASSUME j < k, KindOf(Place(p, j)) # "dir" PROVE FALSE
    <2>1. j + 1 \in 1 .. Len(p) /\ j + 1 \in 0 .. Len(p) /\ k \in j + 1 .. Len(p) /\ j + 1 - 1 = j
      BY <1>2, LenProperties
    <2>2. Place(p, j + 1) = Enter(Place(p, j), p[j + 1])
      BY <2>1, PlaceNext
    <2>3. Place(p, j + 1) = Broken
      BY <1>1, <1>2, <2>2 DEF Enter
    <2> QED
      BY <2>1, <2>3, LostForGood
  <1> QED
    BY <1>1, <1>2

\* A path without links leads to itself.
LEMMA PlainPath ==
    ASSUME Disk(world), NEW q \in Seq(Part), Exists(q), KindOf(q) # "link"
    PROVE  Physical[q] = q
  <1> DEFINE T == {p \in Seq(Part) : Exists(p) /\ KindOf(p) # "link" => Physical[p] = p}
  <1>1. <<>> \in T
    BY EmptySeq, PhysicalIs
  <1>2. \A p \in Seq(Part) : p # <<>> /\ Front(p) \in T => p \in T
    <2> SUFFICES ASSUME NEW p \in Seq(Part), p # <<>>, Front(p) \in T, Exists(p), KindOf(p) # "link"
                 PROVE  Physical[p] = p
      OBVIOUS
    <2>1. p \in DOMAIN world
      BY DEF Exists
    <2>2. Exists(Front(p)) /\ KindOf(Front(p)) = "dir"
      BY <2>1, NodesTold DEF Exists, KindOf
    <2>3. Physical[Front(p)] = Front(p) /\ Front(p) \in Seq(Part)
      BY <2>2
    <2>4. p = Append(Front(p), Last(p))
      BY Ends
    <2>5. Enter(Front(p), Last(p)) = Follow(p)
      BY <2>2, <2>3, <2>4, MarksApart DEF Enter
    <2>6. Follow(p) = p
      BY DEF Follow
    <2> QED
      BY <2>3, <2>5, <2>6, PhysicalIs
  <1> HIDE DEF T
  <1>3. q \in T
    BY <1>1, <1>2, SeqInduction
  <1> QED
    BY <1>3 DEF T

\* What is led to is there, and is no link.
LEMMA FollowEnds ==
    ASSUME Disk(world), NEW p \in Seq(Part), Follow(p) # Missing
    PROVE  Exists(Follow(p)) /\ KindOf(Follow(p)) # "link"
  <1>1. Exists(p)
    BY DEF Follow
  <1>2. CASE KindOf(p) # "link"
    BY <1>1, <1>2 DEF Follow
  <1>3. CASE KindOf(p) = "link"
    <2>1. p # <<>> /\ p \in DOMAIN world
      BY <1>1, <1>3 DEF KindOf, Exists
    <2>2. Exists(world[p].to) /\ Follow(p) = world[p].to
      BY <1>1, <1>3 DEF Follow
    <2>3. world[p].to \in DOMAIN world => world[world[p].to].kind # "link"
      BY <2>1, NodesTold
    <2> QED
      BY <2>2, <2>3 DEF Exists, KindOf
  <1> QED
    BY <1>2, <1>3

LEMMA LedToPlace ==
    ASSUME Disk(world), NEW p \in Seq(Part), Physical[p] \notin {Missing, Broken}
    PROVE  /\ Physical[p] \in Seq(Part)
           /\ Exists(Physical[p]) /\ KindOf(Physical[p]) # "link"
           /\ Physical[Physical[p]] = Physical[p]
  <1>1. Physical[p] \in Seq(Part)
    BY PhysicalIs DEF Led
  <1>2. Exists(Physical[p]) /\ KindOf(Physical[p]) # "link"
    <2>1. CASE p = <<>>
      BY <2>1, PhysicalIs DEF Exists, KindOf
    <2>2. CASE p # <<>>
      <3>1. Front(p) \in Seq(Part) /\ Last(p) \in Part
        BY <2>2, Ends
      <3> DEFINE dir == Physical[Front(p)]
      <3>2. dir \in Led /\ Physical[p] = Enter(dir, Last(p))
        BY <2>2, <3>1, PhysicalIs
      <3>3. dir \notin {Missing, Broken} /\ KindOf(dir) = "dir"
        BY <3>2 DEF Enter
      <3>4. dir \in Seq(Part) /\ Physical[p] = Follow(Append(dir, Last(p)))
        BY <3>2, <3>3 DEF Enter, Led
      <3>5. Append(dir, Last(p)) \in Seq(Part)
        BY <3>1, <3>4, Appended
      <3> QED
        BY <3>4, <3>5, FollowEnds
    <2> QED
      BY <2>1, <2>2
  <1> QED
    BY <1>1, <1>2, PlainPath

-----------------------------------------------------------------------------
(* The resolver.                                                            *)

RootLen == Len(RootPath)

LEMMA RootTold ==
    /\ RootPath \in Seq(Part) /\ RootLen \in Nat
    /\ SubSeq(RootPath, 1, RootLen) = RootPath
  BY BrowseAssumption, LenProperties, Whole DEF RootLen

LEMMA WithinMeans ==
    ASSUME NEW p
    PROVE  Within(p) <=> RootLen <= Len(p) /\ SubSeq(p, 1, RootLen) = RootPath
  BY RootTold DEF Within, IsPrefix, RootLen

LEMMA WithinOn ==
    ASSUME NEW p \in Seq(Part), NEW k \in 0 .. Len(p), RootLen <= k
    PROVE  Within(SubSeq(p, 1, k)) <=> Within(p)
  <1>1. Len(p) \in Nat /\ RootLen \in 0 .. k
    BY RootTold, LenProperties
  <1>2. Len(SubSeq(p, 1, k)) = k /\ SubSeq(SubSeq(p, 1, k), 1, RootLen) = SubSeq(p, 1, RootLen)
    BY <1>1, Beginnings
  <1>3. Within(SubSeq(p, 1, k)) <=> RootLen <= k /\ SubSeq(p, 1, RootLen) = RootPath
    BY <1>2, WithinMeans
  <1>4. Within(p) <=> RootLen <= Len(p) /\ SubSeq(p, 1, RootLen) = RootPath
    BY WithinMeans
  <1> QED
    BY <1>1, <1>3, <1>4

\* The last place on the way, and what evalSymlinks makes of it.
LastPlace(p, n) ==
    /\ n \in 0 .. Len(p) /\ Place(p, n) # Missing
    /\ \A k \in 0 .. Len(p) : Place(p, k) # Missing => k <= n

LEMMA LastPlaceIs ==
    ASSUME Disk(world), NEW p \in Seq(Part)
    PROVE  \E n : LastPlace(p, n)
  <1> DEFINE Short == {i \in 0 .. Len(p) : Place(p, Len(p) - i) # Missing}
  <1>1. Len(p) \in Nat /\ <<>> \in Seq(Part)
    BY LenProperties, EmptySeq
  <1>2. Place(p, 0) # Missing
    BY <1>1, MarksApart, PhysicalIs, Whole DEF Place
  <1>3. Len(p) \in Short
    BY <1>1, <1>2
  <1>4. PICK i \in Short : \A l \in Short : i <= l
    <2>1. Short \in SUBSET Nat
      BY <1>1
    <2> HIDE DEF Short
    <2> QED
      BY <1>3, <2>1, LeastNat
  <1>5. PICK n : n = Len(p) - i
    OBVIOUS
  <1>6. n \in 0 .. Len(p) /\ Place(p, n) # Missing
    BY <1>1, <1>4, <1>5
  <1>7. ASSUME NEW k \in 0 .. Len(p), Place(p, k) # Missing PROVE k <= n
    <2>1. Len(p) - (Len(p) - k) = k /\ Len(p) - k \in 0 .. Len(p)
      BY <1>1
    <2>2. Len(p) - k \in Short
      BY <1>7, <2>1
    <2>3. i <= Len(p) - k /\ i \in 0 .. Len(p)
      BY <1>4, <2>2
    <2> HIDE DEF Short
    <2> QED
      BY <1>1, <1>5, <1>7, <2>3
  <1> QED
    BY <1>6, <1>7 DEF LastPlace

LEMMA RealPathIs ==
    ASSUME NEW p \in Seq(Part), NEW n, LastPlace(p, n)
    PROVE  RealPath(p) = IF Place(p, n) = Broken THEN Broken
                         ELSE Place(p, n) \o SubSeq(p, n + 1, Len(p))
  <1> DEFINE found == {k \in 0 .. Len(p) : Physical[SubSeq(p, 1, k)] # Missing}
             Greatest(k) == k \in found /\ \A j \in found : j <= k
  <1>1. Len(p) \in Nat
    BY LenProperties
  <1>2. Greatest(n)
    BY DEF LastPlace, Place
  <1>3. \A k : Greatest(k) => k = n
    BY <1>1, <1>2
  <1>4. n = CHOOSE k \in found : \A j \in found : j <= k
    BY <1>2, <1>3
  <1> QED
    BY <1>4 DEF RealPath, Place

LEMMA PlacesBefore ==
    ASSUME Disk(world), NEW p \in Seq(Part), NEW n, LastPlace(p, n)
    PROVE  \A k \in 0 .. Len(p) : Place(p, k) # Missing <=> k <= n
  <1> SUFFICES ASSUME NEW k \in 0 .. Len(p), k <= n, Place(p, k) = Missing PROVE FALSE
    BY DEF LastPlace
  <1>1. n \in k .. Len(p) /\ Place(p, n) # Missing
    BY LenProperties DEF LastPlace
  <1> QED
    BY <1>1, LostForGood

LEMMA HomeIs ==
    ASSUME Disk(world), NEW p \in Seq(Part), NEW n, LastPlace(p, n)
    PROVE  \A h \in Home(p) : h = Place(p, n)
  <1>1. Len(p) \in Nat /\ n \in 0 .. Len(p)
    BY LenProperties DEF LastPlace
  <1> DEFINE there == {k \in 0 .. Len(p) : Place(p, k) # Missing}
  <1>2. \A k : k \in there <=> k \in 0 .. n
    BY <1>1, PlacesBefore
  <1> HIDE DEF there
  <1>3. \A k \in there : k + 1 \notin there => k = n
    BY <1>1, <1>2
  <1>4. Home(p) = {Place(p, k) : k \in {j \in there : j + 1 \notin there}}
    BY DEF Home, there
  <1> QED
    BY <1>3, <1>4

\* Of a path that leads somewhere this is where it leads.
LEMMA RealPathThere ==
    ASSUME Disk(world), NEW p \in Seq(Part), Physical[p] \notin {Missing, Broken}
    PROVE  RealPath(p) = Physical[p]
  <1>1. Len(p) \in Nat /\ SubSeq(p, 1, Len(p)) = p
    BY LenProperties, Whole
  <1>5. Place(p, Len(p)) = Physical[p] /\ Place(p, Len(p)) # Missing
    BY <1>1 DEF Place
  <1>6. Len(p) \in 0 .. Len(p) /\ \A k \in 0 .. Len(p) : k <= Len(p)
    BY <1>1
  <1>2. LastPlace(p, Len(p)) /\ Place(p, Len(p)) = Physical[p]
    BY <1>5, <1>6 DEF LastPlace
  <1>3. SubSeq(p, Len(p) + 1, Len(p)) = <<>>
    BY <1>1, SubSeqEmpty
  <1>4. Physical[p] \in Seq(Part)
    BY LedToPlace
  <1> QED
    BY <1>2, <1>3, <1>4, RealPathIs, ConcatEmptySeq

LEMMA CleanIs ==
    /\ Clean[<<>>] = <<>>
    /\ \A p \in Seq(Part \cup {DotDot}) :
          /\ Clean[p] \in Seq(Part)
          /\ p # <<>> /\ Last(p) # DotDot => Clean[p] = Append(Clean[Front(p)], Last(p))
  <1> DEFINE Asks == Part \cup {DotDot}
             After(p, x) == IF x # DotDot THEN Append(p, x) ELSE IF p = <<>> THEN p ELSE Front(p)
             step == [p \in Seq(Part) |-> [x \in Asks |-> After(p, x)]]
             Cleans(f) == f = [p \in Seq(Asks) |->
                                 IF p = <<>> THEN <<>> ELSE After(f[Front(p)], Last(p))]
  <1>1. <<>> \in Seq(Part) /\ <<>> \in Seq(Asks)
    BY EmptySeq
  <1>2. ASSUME NEW p \in Seq(Part), NEW x \in Asks PROVE After(p, x) \in Seq(Part)
    <2>1. CASE x # DotDot
      BY <2>1, Appended
    <2>2. CASE x = DotDot /\ p # <<>>
      BY <2>2, Ends
    <2> QED
      BY <2>1, <2>2
  <1> HIDE DEF After, Asks
  <1>3. step \in [Seq(Part) -> [Asks -> Seq(Part)]]
    BY <1>2
  <1>4. PICK f \in [Seq(Asks) -> Seq(Part)] :
            \A p \in Seq(Asks) : f[p] = IF p = <<>> THEN <<>> ELSE step[f[Front(p)]][Last(p)]
    <2>1. PICK s, z : s = step /\ z = <<>>
      OBVIOUS
    <2>2. s \in [Seq(Part) -> [Asks -> Seq(Part)]] /\ z \in Seq(Part)
      BY <1>1, <1>3, <2>1
    <2>3. PICK f \in [Seq(Asks) -> Seq(Part)] : Recurs(f, Asks, z, s)
      BY <2>2, Recursion
    <2> QED
      BY <2>1, <2>3 DEF Recurs
  <1>5. ASSUME NEW p \in Seq(Asks), p # <<>>
        PROVE  step[f[Front(p)]][Last(p)] = After(f[Front(p)], Last(p))
    <2>1. Front(p) \in Seq(Asks) /\ Last(p) \in Asks
      BY <1>5, Ends
    <2>2. f[Front(p)] \in Seq(Part)
      BY <2>1
    <2> QED
      BY <2>1, <2>2
  <1> HIDE DEF step
  <1>6. Cleans(f)
    BY <1>4, <1>5
  <1>7. Clean = CHOOSE g : Cleans(g)
    BY DEF Clean, After, Asks
  <1>8. Cleans(Clean)
    BY <1>6, <1>7
  <1>9. \A p \in Seq(Asks) : Clean[p] = IF p = <<>> THEN <<>> ELSE After(Clean[Front(p)], Last(p))
    BY <1>8
  <1>10. \A p \in Seq(Asks) : Clean[p] \in Seq(Part)
    <2> DEFINE T == {p \in Seq(Asks) : Clean[p] \in Seq(Part)}
    <2>1. <<>> \in T
      BY <1>1, <1>9
    <2>2. \A p \in Seq(Asks) : p # <<>> /\ Front(p) \in T => p \in T
      <3> SUFFICES ASSUME NEW p \in Seq(Asks), p # <<>>, Clean[Front(p)] \in Seq(Part)
                   PROVE  Clean[p] \in Seq(Part)
        OBVIOUS
      <3>1. Last(p) \in Asks
        BY Ends
      <3> QED
        BY <1>2, <1>9, <3>1
    <2> HIDE DEF T
    <2>3. \A p \in Seq(Asks) : p \in T
      BY <2>1, <2>2, SeqInduction
    <2> QED
      BY <2>3 DEF T
  <1> QED
    BY <1>1, <1>9, <1>10 DEF After, Asks

\* A path without ".." is left as it is.
LEMMA CleanPlain ==
    ASSUME NEW q \in Seq(Part)
    PROVE  Clean[q] = q
  <1> DEFINE T == {p \in Seq(Part) : Clean[p] = p}
  <1>1. <<>> \in T
    BY EmptySeq, CleanIs
  <1>2. \A p \in Seq(Part) : p # <<>> /\ Front(p) \in T => p \in T
    <2> SUFFICES ASSUME NEW p \in Seq(Part), p # <<>>, Clean[Front(p)] = Front(p)
                 PROVE  Clean[p] = p
      OBVIOUS
    <2>1. p \in Seq(Part \cup {DotDot})
      BY SeqMonotonic
    <2>3. Last(p) \in Part /\ p = Append(Front(p), Last(p))
      BY Ends
    <2>2. Last(p) # DotDot
      BY <2>3, BrowseAssumption
    <2> QED
      BY <2>1, <2>2, <2>3, CleanIs
  <1> HIDE DEF T
  <1>3. q \in T
    BY <1>1, <1>2, SeqInduction
  <1> QED
    BY <1>3 DEF T

LEMMA ResolveTold ==
    ASSUME NEW p, p.abs \in BOOLEAN, p.parts \in Seq(Part \cup {DotDot}), Resolve(p) # Refused
    PROVE  Resolve(p) \in Seq(Part) /\ Allowed(Resolve(p))
  <1>1. Resolve(p) = Absolute(p) /\ Allowed(Absolute(p))
    BY DEF Resolve
  <1>2. RootPath \in Seq(Part \cup {DotDot})
    BY RootTold, SeqMonotonic
  <1>3. RootPath \o p.parts \in Seq(Part \cup {DotDot})
    BY <1>2, ConcatProperties
  <1>4. Absolute(p) \in Seq(Part)
    BY <1>3, CleanIs DEF Absolute
  <1> QED
    BY <1>1, <1>4

LEMMA ResolvePlain ==
    ASSUME NEW p \in Seq(Part)
    PROVE  /\ Resolve(Abs(p)) = IF Allowed(p) THEN p ELSE Refused
           /\ Resolve(Abs(p)) # Refused <=> Allowed(p)
  <1>1. Abs(p).abs = TRUE /\ Abs(p).parts = p
    BY DEF Abs
  <1>2. Absolute(Abs(p)) = p
    BY <1>1, CleanPlain DEF Absolute
  <1>3. p # Refused
    BY MarksApart
  <1> QED
    BY <1>1, <1>2, <1>3 DEF Resolve

\* What is allowed by where it really is, is where it is allowed.
LEMMA NothingEscapes ==
    ASSUME Disk(world), RootAccepted, ~FollowSymlinks,
           NEW p \in Seq(Part), Allowed(p), NEW h \in Home(p)
    PROVE  Within(h)
  <1>1. PICK n : LastPlace(p, n)
    BY LastPlaceIs
  <1> DEFINE real == Place(p, n)
             tail == SubSeq(p, n + 1, Len(p))
             L == RootLen
  <1>2. Len(p) \in Nat /\ n \in 0 .. Len(p) /\ real # Missing
    BY <1>1, LenProperties DEF LastPlace
  <1>3. h = real
    BY <1>1, HomeIs
  <1>4. L <= Len(p) /\ SubSeq(p, 1, L) = RootPath /\ L \in Nat
    BY WithinMeans, RootTold DEF Allowed
  <1>5. Place(p, L) \notin {Missing, Broken} /\ L \in 0 .. Len(p)
    <2>1. Place(p, L) = Physical[RootPath]
      BY <1>4 DEF Place
    <2> QED
      BY <1>2, <1>4, <2>1 DEF RootAccepted, IsDir
  <1>6. L <= n
    BY <1>1, <1>5 DEF LastPlace
  <1>7. RealPath(p) # Broken /\ Within(RealPath(p))
    BY DEF Allowed
  <1>8. real # Broken /\ RealPath(p) = real \o tail
    BY <1>1, <1>7, RealPathIs
  <1>9. SubSeq(p, 1, n) \in Seq(Part)
    BY <1>2, Beginnings
  <1>10. real \in Seq(Part) /\ Physical[real] = real /\ Len(real) \in Nat
    BY <1>2, <1>8, <1>9, LedToPlace, LenProperties DEF Place
  <1>11. /\ tail \in Seq(Part) /\ Len(tail) = Len(p) - n
         /\ \A i \in 1 .. Len(p) - n : tail[i] = p[n + i]
    <2>1. n + 1 \in Int /\ Len(p) \in Int /\ \A i \in n + 1 .. Len(p) : p[i] \in Part
      BY <1>2, ElementOfSeq
    <2>2. /\ tail \in Seq(Part)
          /\ Len(tail) = IF n + 1 <= Len(p) THEN Len(p) - (n + 1) + 1 ELSE 0
          /\ \A i \in 1 .. Len(p) - (n + 1) + 1 : tail[i] = p[n + 1 + i - 1]
      BY <2>1, SubSeqProperties
    <2> HIDE DEF tail
    <2> QED
      BY <1>2, <2>2
  <1> HIDE DEF real, tail
  <1>12. PICK rp : rp = real \o tail
    OBVIOUS
  <1>13. /\ rp \in Seq(Part) /\ Len(rp) = Len(real) + Len(tail)
         /\ \A i \in 1 .. Len(real) + Len(tail) :
               rp[i] = IF i <= Len(real) THEN real[i] ELSE tail[i - Len(real)]
    BY <1>10, <1>11, <1>12, ConcatProperties
  <1>14. L <= Len(rp) /\ SubSeq(rp, 1, L) = RootPath
    BY <1>7, <1>8, <1>12, WithinMeans
  <1>15. \A i \in 1 .. L : rp[i] = RootPath[i]
    <2>1. L \in 0 .. Len(rp)
      BY <1>4, <1>14
    <2> QED
      BY <1>13, <1>14, <2>1, Beginnings
  <1>16. CASE L <= Len(real)
    <2>1. \A i \in 1 .. L : real[i] = RootPath[i]
      BY <1>4, <1>10, <1>11, <1>13, <1>14, <1>15, <1>16
    <2>2. /\ SubSeq(real, 1, L) \in Seq(Part) /\ Len(SubSeq(real, 1, L)) = L
          /\ \A i \in 1 .. L : SubSeq(real, 1, L)[i] = real[i]
      BY <1>4, <1>10, <1>16, Beginnings
    <2>3. RootPath \in Seq(Part) /\ Len(RootPath) = L
      BY RootTold DEF RootLen
    <2>4. SubSeq(real, 1, L) = RootPath
      BY <2>1, <2>2, <2>3, SeqEqual
    <2> QED
      BY <1>3, <1>16, <2>4, WithinMeans
  <1>17. CASE Len(real) < L
    <2>1. PICK m : m = Len(real)
      OBVIOUS
    <2>2. m \in Nat /\ m < L /\ n < Len(p) /\ 1 \in 1 .. Len(p) - n
      BY <1>2, <1>4, <1>10, <1>11, <1>13, <1>14, <1>17, <2>1
    <2>3. m \in 0 .. L /\ m + 1 \in 1 .. L /\ n + 1 \in 0 .. Len(p) /\ n + 1 \in 1 .. Len(p)
      BY <1>2, <1>4, <2>2
    <2>4. RootPath[m + 1] = p[n + 1]
      <3>1. PICK i : i = m + 1
        OBVIOUS
      <3>2. i \in 1 .. Len(real) + Len(tail) /\ ~(i <= Len(real)) /\ i - Len(real) = 1
        BY <1>2, <1>11, <2>1, <2>2, <3>1
      <3>3. rp[i] = tail[1]
        BY <1>13, <3>2
      <3> QED
        BY <1>11, <1>15, <2>2, <2>3, <3>1, <3>3
    <2>5. SubSeq(RootPath, 1, m) = real
      <3>1. /\ SubSeq(RootPath, 1, m) \in Seq(Part) /\ Len(SubSeq(RootPath, 1, m)) = m
            /\ \A i \in 1 .. m : SubSeq(RootPath, 1, m)[i] = RootPath[i]
        BY <2>3, RootTold, Beginnings DEF RootLen
      <3>2. \A i \in 1 .. m : real[i] = RootPath[i]
        BY <1>4, <1>10, <1>11, <1>13, <1>15, <2>1, <2>2
      <3> QED
        BY <1>10, <2>1, <3>1, <3>2, SeqEqual
    <2>6. Place(RootPath, m) = real
      BY <1>10, <2>5 DEF Place
    <2>7. Place(RootPath, m + 1) = Enter(real, RootPath[m + 1])
      <3>1. m \in 0 .. Len(RootPath) - 1
        BY <1>4, <2>2 DEF RootLen
      <3> QED
        BY <2>6, <3>1, RootTold, PlaceAfter
    <2>8. Place(p, n + 1) = Enter(real, p[n + 1])
      <3>1. n \in 0 .. Len(p) - 1
        BY <1>2, <2>2
      <3> QED
        BY <3>1, PlaceAfter DEF real
    <2>9. Place(p, n + 1) = Missing
      <3>1. ~(n + 1 <= n)
        BY <1>2
      <3> QED
        BY <1>1, <2>3, <3>1 DEF LastPlace
    <2>10. Place(RootPath, m + 1) = Missing
      BY <2>4, <2>7, <2>8, <2>9
    <2>11. Place(RootPath, L) = Physical[RootPath]
      BY RootTold DEF Place
    <2>12. m + 1 \in 0 .. Len(RootPath) /\ L \in m + 1 .. Len(RootPath)
      BY <1>4, <2>2 DEF RootLen
    <2>13. Place(RootPath, L) = Missing
      BY <2>10, <2>12, RootTold, LostForGood
    <2> QED
      BY <2>11, <2>13 DEF RootAccepted, IsDir
  <1> QED
    BY <1>4, <1>10, <1>16, <1>17

-----------------------------------------------------------------------------
(* Browsing.                                                                *)

\* The disk stands still.
LEMMA SamePhysical == ASSUME world' = world PROVE Physical' = Physical
  BY DEF Physical, Enter, Follow, Exists, KindOf

LEMMA SameIsDir == ASSUME world' = world, NEW p PROVE IsDir(p)' <=> IsDir(p)
  BY SamePhysical DEF IsDir, KindOf

LEMMA SameRealPath == ASSUME world' = world, NEW p PROVE RealPath(p)' = RealPath(p)
  BY SamePhysical DEF RealPath

LEMMA SameAllowed == ASSUME world' = world, NEW p PROVE Allowed(p)' <=> Allowed(p)
  BY SameRealPath DEF Allowed, Within

LEMMA SameLists == ASSUME world' = world, NEW p PROVE Lists(p)' <=> Lists(p)
  BY SameAllowed, SameIsDir DEF Lists, Resolve, Abs, Absolute, Clean

\* The directories from the root down to p.
DownTo(p) == {SubSeq(p, 1, k) : k \in RootLen .. Len(p)}

BrowseInv ==
    /\ Disk(world) /\ RootAccepted
    /\ named # Nowhere => named \in Seq(Part) /\ Allowed(named)
    /\ at # Nowhere =>
          /\ at \in Seq(Part) /\ Within(at)
          /\ \A dir \in DownTo(at) : Lists(dir)
          /\ \A k \in RootLen + 1 .. Len(at) : Visible(at[k])

\* A directory is in directories.
LEMMA DirsAbove ==
    ASSUME Disk(world), NEW q \in Seq(Part), Exists(q), KindOf(q) = "dir"
    PROVE  \A k \in 0 .. Len(q) : KindOf(SubSeq(q, 1, k)) = "dir"
  <1> DEFINE T == {p \in Seq(Part) : Exists(p) /\ KindOf(p) = "dir" =>
                                       \A k \in 0 .. Len(p) : KindOf(SubSeq(p, 1, k)) = "dir"}
  <1>1. <<>> \in T
    <2>1. <<>> \in Seq(Part) /\ Len(<<>>) = 0 /\ SubSeq(<<>>, 1, 0) = <<>>
      BY EmptySeq, Whole
    <2>2. \A k \in 0 .. Len(<<>>) : k = 0
      BY <2>1
    <2> QED
      BY <2>1, <2>2 DEF KindOf
  <1>2. \A p \in Seq(Part) : p # <<>> /\ Front(p) \in T => p \in T
    <2> SUFFICES ASSUME NEW p \in Seq(Part), p # <<>>, Front(p) \in T, Exists(p), KindOf(p) = "dir",
                        NEW k \in 0 .. Len(p)
                 PROVE  KindOf(SubSeq(p, 1, k)) = "dir"
      OBVIOUS
    <2>1. /\ Front(p) \in Seq(Part) /\ Len(p) \in Nat \ {0}
          /\ Front(p) = SubSeq(p, 1, Len(p) - 1) /\ Len(Front(p)) = Len(p) - 1
      BY Ends
    <2>2. CASE k = Len(p)
      BY <2>2, Whole
    <2>3. CASE k # Len(p)
      <3>1. Exists(Front(p)) /\ KindOf(Front(p)) = "dir"
        <4>1. p \in DOMAIN world
          BY DEF Exists
        <4> QED
          BY <4>1, NodesTold DEF Exists, KindOf
      <3>2. PICK n : n = Len(p) - 1
        OBVIOUS
      <3>3. n \in 0 .. Len(p) /\ k \in 0 .. n
        BY <2>1, <2>3, <3>2
      <3>4. KindOf(SubSeq(Front(p), 1, k)) = "dir"
        BY <2>1, <3>1, <3>2, <3>3
      <3>5. SubSeq(Front(p), 1, k) = SubSeq(p, 1, k)
        BY <2>1, <3>2, <3>3, Beginnings
      <3> QED
        BY <3>4, <3>5
    <2> QED
      BY <2>2, <2>3
  <1> HIDE DEF T
  <1>3. q \in T
    BY <1>1, <1>2, SeqInduction
  <1> QED
    BY <1>3 DEF T

LEMMA BrowseStarts == BrowseInit => BrowseInv
  <1> SUFFICES ASSUME BrowseInit PROVE BrowseInv
    OBVIOUS
  <1>1. Disk(world)
    BY BrowseAssumption DEF BrowseInit
  <1> QED
    BY <1>1 DEF BrowseInit, BrowseInv

LEMMA BrowseStep == BrowseInv /\ [BrowseNext]_browseVars => BrowseInv'
  <1> SUFFICES ASSUME BrowseInv, [BrowseNext]_browseVars PROVE BrowseInv'
    OBVIOUS
  <1>1. world' = world
    BY DEF BrowseNext, browseVars, OpenRoot, OpenParent, OpenEntry, NamePath
  <1>2. Disk(world)' /\ RootAccepted'
    <2>1. IsDir(RootPath)' <=> IsDir(RootPath)
      BY <1>1, SameIsDir
    <2> QED
      BY <1>1, <2>1 DEF BrowseInv, RootAccepted, Disk
  <1>3. ASSUME named' # Nowhere PROVE named' \in Seq(Part) /\ Allowed(named)'
    <2>1. PICK p : p = named'
      OBVIOUS
    <2>2. p \in Seq(Part) /\ Allowed(p)
      <3>1. CASE named' = named
        BY <1>3, <2>1, <3>1 DEF BrowseInv
      <3>2. CASE \E q \in Asked : NamePath(q)
        <4>1. PICK q \in Asked : NamePath(q)
          BY <3>2
        <4>2. q.abs \in BOOLEAN /\ q.parts \in Seq(Part \cup {DotDot})
          BY BrowseAssumption
        <4> QED
          BY <2>1, <4>1, <4>2, ResolveTold DEF NamePath
      <3> QED
        BY <3>1, <3>2 DEF BrowseNext, browseVars, OpenRoot, OpenParent, OpenEntry
    <2>3. Allowed(p)'
      BY <1>1, <2>2, SameAllowed
    <2> QED
      BY <2>1, <2>2, <2>3 DEF Allowed, Within, RealPath
  <1>4. ASSUME at' # Nowhere
        PROVE  \E p \in Seq(Part) :
                  /\ p = at' /\ Within(p)
                  /\ \A k \in RootLen .. Len(p) : Lists(SubSeq(p, 1, k))
                  /\ \A k \in RootLen + 1 .. Len(p) : Visible(p[k])
    <2>1. CASE at' = at
      BY <1>4, <2>1 DEF BrowseInv, DownTo
    <2>2. CASE OpenRoot
      <3>1. at' = RootPath /\ Lists(RootPath)
        BY <2>2 DEF OpenRoot
      <3>2. SubSeq(RootPath, 1, RootLen) = RootPath /\ Len(RootPath) = RootLen /\ RootLen \in Nat
        BY RootTold DEF RootLen
      <3>3. Within(RootPath)
        BY <3>2, RootTold, WithinMeans
      <3>4. \A k \in RootLen .. Len(RootPath) : Lists(SubSeq(RootPath, 1, k))
        <4>1. \A k \in RootLen .. Len(RootPath) : k = RootLen
          BY <3>2
        <4> QED
          BY <3>1, <3>2, <4>1
      <3>5. RootLen + 1 .. Len(RootPath) = {}
        BY <3>2
      <3>6. RootPath \in Seq(Part)
        BY BrowseAssumption
      <3> QED
        BY <3>1, <3>3, <3>4, <3>5, <3>6
    <2>3. CASE OpenParent
      <3>1. at # Nowhere /\ at # RootPath /\ at' = Front(at) /\ Lists(Front(at))
        BY <2>3 DEF OpenParent, Parent
      <3>2. /\ at \in Seq(Part) /\ Within(at)
            /\ \A k \in RootLen .. Len(at) : Lists(SubSeq(at, 1, k))
            /\ \A k \in RootLen + 1 .. Len(at) : Visible(at[k])
        BY <3>1 DEF BrowseInv, DownTo
      <3>3. Len(at) \in Nat /\ RootLen \in Nat /\ RootLen <= Len(at) /\ SubSeq(at, 1, RootLen) = RootPath
        BY <3>2, RootTold, WithinMeans, LenProperties
      <3>4. RootLen # Len(at)
        BY <3>1, <3>2, <3>3, Whole
      <3>5. PICK n : n = Len(at) - 1
        OBVIOUS
      <3>6. at # <<>> /\ n \in 0 .. Len(at) /\ RootLen <= n
        BY <3>3, <3>4, <3>5, EmptySeq
      <3>7. /\ Front(at) = SubSeq(at, 1, n) /\ Front(at) \in Seq(Part) /\ Len(Front(at)) = n
            /\ \A k \in 1 .. n : Front(at)[k] = at[k]
        BY <3>2, <3>5, <3>6, Ends
      <3>8. Within(Front(at))
        BY <3>2, <3>6, <3>7, WithinOn
      <3>9. \A k \in 0 .. n : SubSeq(Front(at), 1, k) = SubSeq(at, 1, k)
        BY <3>2, <3>6, <3>7, Beginnings
      <3>10. \A k \in RootLen .. n : Lists(SubSeq(Front(at), 1, k))
        <4>1. \A k \in RootLen .. n : k \in 0 .. n /\ k \in RootLen .. Len(at)
          BY <3>3, <3>5, <3>6
        <4> QED
          BY <3>2, <3>9, <4>1
      <3>11. \A k \in RootLen + 1 .. n : Visible(Front(at)[k])
        <4>1. \A k \in RootLen + 1 .. n : k \in 1 .. n /\ k \in RootLen + 1 .. Len(at)
          BY <3>3, <3>5, <3>6
        <4> QED
          BY <3>2, <3>7, <4>1
      <3> QED
        BY <3>1, <3>7, <3>8, <3>10, <3>11
    <2>4. CASE \E x \in Part : OpenEntry(x)
      <3>1. PICK x \in Part : OpenEntry(x)
        BY <2>4
      <3>2. PICK p : p = Append(at, x)
        OBVIOUS
      <3>3. at # Nowhere /\ x \in Entries(at) /\ Lists(p) /\ at' = p
        BY <3>1, <3>2 DEF OpenEntry
      <3>4. /\ at \in Seq(Part) /\ Within(at)
            /\ \A k \in RootLen .. Len(at) : Lists(SubSeq(at, 1, k))
            /\ \A k \in RootLen + 1 .. Len(at) : Visible(at[k])
        BY <3>3 DEF BrowseInv, DownTo
      <3>5. Len(at) \in Nat /\ RootLen \in Nat /\ RootLen <= Len(at)
        BY <3>4, RootTold, WithinMeans, LenProperties
      <3>6. /\ p \in Seq(Part) /\ Len(p) = Len(at) + 1
            /\ \A k \in 0 .. Len(at) : SubSeq(p, 1, k) = SubSeq(at, 1, k)
            /\ \A k \in 1 .. Len(at) : p[k] = at[k]
            /\ p[Len(at) + 1] = x
        BY <3>2, <3>4, Appended, AppendProperties
      <3>7. Within(p)
        BY <3>4, <3>5, <3>6, WithinMeans
      <3>8. \A k \in RootLen .. Len(p) : Lists(SubSeq(p, 1, k))
        <4> SUFFICES ASSUME NEW k \in RootLen .. Len(p) PROVE Lists(SubSeq(p, 1, k))
          OBVIOUS
        <4>1. CASE k = Len(p)
          BY <3>3, <3>6, <4>1, Whole
        <4>2. CASE k # Len(p)
          <5>1. k \in 0 .. Len(at) /\ k \in RootLen .. Len(at)
            BY <3>5, <3>6, <4>2
          <5> QED
            BY <3>4, <3>6, <5>1
        <4> QED
          BY <4>1, <4>2
      <3>9. \A k \in RootLen + 1 .. Len(p) : Visible(p[k])
        <4> SUFFICES ASSUME NEW k \in RootLen + 1 .. Len(p) PROVE Visible(p[k])
          OBVIOUS
        <4>1. CASE k = Len(at) + 1
          <5>1. Visible(x)
            BY <3>3 DEF Entries
          <5> QED
            BY <3>6, <4>1, <5>1
        <4>2. CASE k # Len(at) + 1
          <5>1. k \in 1 .. Len(at) /\ k \in RootLen + 1 .. Len(at)
            BY <3>5, <3>6, <4>2
          <5> QED
            BY <3>4, <3>6, <5>1
        <4> QED
          BY <4>1, <4>2
      <3> QED
        BY <3>3, <3>6, <3>7, <3>8, <3>9
    <2> QED
      BY <2>1, <2>2, <2>3, <2>4 DEF BrowseNext, browseVars, NamePath
  <1>5. ASSUME at' # Nowhere
        PROVE  /\ at' \in Seq(Part) /\ Within(at)'
               /\ \A dir \in DownTo(at') : Lists(dir)'
               /\ \A k \in RootLen + 1 .. Len(at') : Visible(at[k])'
    <2>1. PICK p \in Seq(Part) :
                  /\ p = at' /\ Within(p)
                  /\ \A k \in RootLen .. Len(p) : Lists(SubSeq(p, 1, k))
                  /\ \A k \in RootLen + 1 .. Len(p) : Visible(p[k])
      BY <1>4, <1>5
    <2>2. \A dir \in DownTo(p) : Lists(dir)'
      BY <1>1, <2>1, SameLists DEF DownTo
    <2> QED
      BY <2>1, <2>2 DEF Within, Visible
  <1> QED
    BY <1>2, <1>3, <1>5 DEF BrowseInv, DownTo, RootLen

-----------------------------------------------------------------------------
(* Theorems of browsing.                                                    *)

LookupsInv ==
    /\ way \in {"browse", "search"}
    /\ way = "browse" => BrowseInv
    /\ way = "search" => at = Nowhere /\ named = Nowhere

(***************************************************************************)
(* The invariant of browsing: a path that Resolve answered leads below the  *)
(* root, and a directory on the screen was reached through directories that *)
(* can all be listed, none of them hidden or ignored.                       *)
(***************************************************************************)
THEOREM BrowseInvariance == LookupsSpec => []LookupsInv
  <1>1. LookupsInit => LookupsInv
    BY BrowseStarts DEF LookupsInit, LookupsInv
  <1>2. LookupsInv /\ [LookupsNext]_lookupsVars => LookupsInv'
    <2> SUFFICES ASSUME LookupsInv, [LookupsNext]_lookupsVars PROVE LookupsInv'
      OBVIOUS
    <2>1. way' = way
      BY DEF LookupsNext, lookupsVars
    <2>2. CASE way = "browse"
      <3>1. [BrowseNext]_browseVars
        BY <2>2 DEF LookupsNext, lookupsVars
      <3> QED
        BY <2>1, <2>2, <3>1, BrowseStep DEF LookupsInv
    <2>3. CASE way = "search"
      <3>1. at' = at /\ named' = named
        BY <2>3 DEF LookupsNext, lookupsVars, browseVars
      <3> QED
        BY <2>1, <2>3, <3>1 DEF LookupsInv
    <2> QED
      BY <2>2, <2>3 DEF LookupsInv
  <1> QED
    BY <1>1, <1>2, PTL DEF LookupsSpec

(***************************************************************************)
(* Where links may not be followed, no path that Resolve answers leads out  *)
(* of the root, nor does the first thing that would be made for it: for     *)
(* every disk, every request and every root that Validate accepts.          *)
(***************************************************************************)
THEOREM StaysConfined == LookupsSpec => []Confined
  <1>1. LookupsInv => Confined
    <2> SUFFICES ASSUME LookupsInv, named # Nowhere
                 PROVE  Within(named) /\ (FollowSymlinks \/ \A h \in Home(named) : Within(h))
      BY DEF Confined
    <2>1. BrowseInv
      BY DEF LookupsInv
    <2>2. Disk(world) /\ RootAccepted /\ named \in Seq(Part) /\ Allowed(named)
      BY <2>1 DEF BrowseInv
    <2>3. Within(named)
      BY <2>2 DEF Allowed
    <2>4. ~FollowSymlinks => \A h \in Home(named) : Within(h)
      BY <2>2, NothingEscapes
    <2> QED
      BY <2>3, <2>4
  <1> QED
    BY <1>1, BrowseInvariance, PTL

(***************************************************************************)
(* What a listing offers is taken back as it stands, for every disk and     *)
(* however deep: every entry within the root, and the parent, up to the     *)
(* root and no further.                                                     *)
(***************************************************************************)
THEOREM OffersTaken == LookupsSpec => []OfferedTaken
  <1>1. LookupsInv => OfferedTaken
    <2> SUFFICES ASSUME LookupsInv, at # Nowhere PROVE OfferedTaken
      BY DEF OfferedTaken
    <2>1. BrowseInv
      BY DEF LookupsInv
    <2>2. /\ Disk(world) /\ RootAccepted /\ at \in Seq(Part) /\ Within(at)
          /\ \A k \in RootLen .. Len(at) : Lists(SubSeq(at, 1, k))
      BY <2>1 DEF BrowseInv, DownTo
    <2>3. Len(at) \in Nat /\ RootLen \in Nat /\ RootLen <= Len(at) /\ SubSeq(at, 1, RootLen) = RootPath
      BY <2>2, RootTold, WithinMeans, LenProperties
    <2>4. Lists(at)
      <3>1. Len(at) \in RootLen .. Len(at) /\ SubSeq(at, 1, Len(at)) = at
        BY <2>2, <2>3, Whole
      <3> QED
        BY <2>2, <3>1
    <2>5. ASSUME NEW x \in Entries(at), Within(Physical[Append(at, x)])
          PROVE  Resolve(Abs(Append(at, x))) = Append(at, x)
      <3>1. PICK p : p = Append(at, x)
        OBVIOUS
      <3>2. x \in Part /\ Physical[p] # Missing
        BY <2>5, <3>1 DEF Entries, InDir
      <3>3. /\ p \in Seq(Part) /\ p # <<>> /\ Len(p) = Len(at) + 1
            /\ Front(p) = at /\ Last(p) = x
            /\ \A k \in 0 .. Len(at) : SubSeq(p, 1, k) = SubSeq(at, 1, k)
        BY <2>2, <3>1, <3>2, Appended
      <3>4. Physical[at] \notin {Missing, Broken} /\ KindOf(Physical[at]) = "dir"
        BY <2>4 DEF Lists, IsDir
      <3>5. Physical[p] # Broken
        <4>1. Physical[p] = Enter(Physical[at], x)
          BY <2>2, <3>3, PhysicalIs
        <4>2. Physical[at] \in Seq(Part)
          BY <2>2, <3>4, LedToPlace
        <4>3. Append(Physical[at], x) \in Seq(Part)
          BY <3>2, <4>2, Appended
        <4>4. Physical[p] = Follow(Append(Physical[at], x))
          BY <3>4, <4>1 DEF Enter
        <4>5. Follow(Append(Physical[at], x)) # Missing
          BY <3>2, <4>4
        <4>6. Exists(Physical[p])
          BY <2>2, <4>3, <4>4, <4>5, FollowEnds
        <4>7. CASE Physical[p] = <<>>
          BY <4>7, EmptySeq, MarksApart
        <4>8. CASE Physical[p] \in DOMAIN world
          <5>1. Physical[p] \in Seq(Part)
            BY <2>2, <4>8 DEF Disk
          <5> QED
            BY <5>1, MarksApart
        <4> QED
          BY <4>6, <4>7, <4>8 DEF Exists
      <3>6. RealPath(p) = Physical[p]
        BY <2>2, <3>2, <3>3, <3>5, RealPathThere
      <3>7. Within(p)
        BY <2>3, <3>3, WithinMeans
      <3>8. Allowed(p)
        BY <2>5, <3>1, <3>5, <3>6, <3>7 DEF Allowed
      <3> QED
        BY <3>1, <3>3, <3>8, ResolvePlain
    <2>6. ASSUME NEW p \in Parent(at) PROVE Lists(p)
      <3>1. p = Front(at) /\ at # RootPath
        BY <2>6 DEF Parent
      <3>2. RootLen # Len(at)
        BY <2>2, <2>3, <3>1, Whole
      <3>3. PICK n : n = Len(at) - 1
        OBVIOUS
      <3>4. at # <<>> /\ n \in RootLen .. Len(at)
        BY <2>3, <3>2, <3>3, EmptySeq
      <3>5. Front(at) = SubSeq(at, 1, n)
        BY <2>2, <3>3, <3>4, Ends
      <3> QED
        BY <2>2, <3>1, <3>4, <3>5
    <2> QED
      BY <2>5, <2>6 DEF OfferedTaken
  <1> QED
    BY <1>1, BrowseInvariance, PTL

(***************************************************************************)
(* In the directories that listings lead to without links, a visible file   *)
(* is listed just if Build indexes it, for every disk and root.             *)
(***************************************************************************)
THEOREM TreeAndIndexAgree == LookupsSpec => []TreeMatchesIndex
  <1>1. LookupsInv => TreeMatchesIndex
    <2> SUFFICES ASSUME LookupsInv, at # Nowhere, Physical[at] = at,
                        NEW x \in InDir(at), KindOf(Append(at, x)) = "file", Visible(x)
                 PROVE  x \in Entries(at) <=> Indexed(Append(at, x))
      BY DEF TreeMatchesIndex
    <2>1. BrowseInv
      BY DEF LookupsInv
    <2>2. /\ Disk(world) /\ RootAccepted /\ at \in Seq(Part) /\ Within(at)
          /\ \A k \in RootLen .. Len(at) : Lists(SubSeq(at, 1, k))
          /\ \A k \in RootLen + 1 .. Len(at) : Visible(at[k])
      BY <2>1 DEF BrowseInv, DownTo
    <2>3. Len(at) \in Nat /\ RootLen \in Nat /\ RootLen <= Len(at) /\ SubSeq(at, 1, RootLen) = RootPath
      BY <2>2, RootTold, WithinMeans, LenProperties
    <2>4. KindOf(at) = "dir" /\ Len(at) \in RootLen .. Len(at)
      <3>1. Len(at) \in RootLen .. Len(at) /\ SubSeq(at, 1, Len(at)) = at
        BY <2>2, <2>3, Whole
      <3> QED
        BY <2>2, <3>1 DEF Lists, IsDir
    <2>5. PICK p : p = Append(at, x)
      OBVIOUS
    <2>6. x \in Part /\ p \in DOMAIN world /\ KindOf(p) = "file"
      BY <2>5 DEF InDir
    <2>7. /\ p \in Seq(Part) /\ p # <<>> /\ Len(p) = Len(at) + 1
          /\ Front(p) = at /\ Last(p) = x
          /\ \A k \in 0 .. Len(at) : SubSeq(p, 1, k) = SubSeq(at, 1, k)
          /\ \A k \in 1 .. Len(at) : p[k] = at[k]
      BY <2>2, <2>5, <2>6, Appended, AppendProperties
    <2>8. Physical[p] = p
      BY <2>2, <2>6, <2>7, PlainPath DEF Exists
    <2>9. x \in Entries(at) <=> x \in Markdown
      <3>1. ~IsDir(p)
        BY <2>6, <2>8 DEF IsDir
      <3>2. Physical[p] # Missing
        BY <2>7, <2>8, MarksApart
      <3> QED
        BY <2>5, <3>1, <3>2 DEF Entries
    <2>10. \A k \in RootLen .. Len(at) : KindOf(SubSeq(at, 1, k)) = "dir"
      <3>1. Exists(at)
        BY <2>2, <2>4, LedToPlace, MarksApart
      <3>2. \A k \in RootLen .. Len(at) : k \in 0 .. Len(at)
        BY <2>3
      <3> QED
        BY <2>2, <2>4, <3>1, <3>2, DirsAbove
    <2>11. Within(p) /\ p # RootPath
      <3>1. RootLen \in 0 .. Len(at) /\ Len(p) # RootLen /\ RootLen <= Len(p)
        BY <2>3, <2>7
      <3>2. SubSeq(p, 1, RootLen) = RootPath
        BY <2>3, <2>7, <3>1
      <3>3. Within(p)
        BY <3>1, <3>2, WithinMeans
      <3> QED
        BY <3>1, <3>3 DEF RootLen
    <2>12. \A k \in RootLen .. Len(p) - 1 : KindOf(SubSeq(p, 1, k)) = "dir"
      <3>1. \A k \in RootLen .. Len(p) - 1 : k \in RootLen .. Len(at) /\ k \in 0 .. Len(at)
        BY <2>3, <2>7
      <3> QED
        BY <2>7, <2>10, <3>1
    <2>13. \A k \in RootLen + 1 .. Len(p) - 1 : Walks(p[k])
      <3>1. \A k \in RootLen + 1 .. Len(p) - 1 : k \in RootLen + 1 .. Len(at) /\ k \in 1 .. Len(at)
        BY <2>3, <2>7
      <3> QED
        BY <2>2, <2>7, <3>1 DEF Visible, Walks
    <2>14. Indexed(p) <=> x \in Markdown
      BY <2>6, <2>7, <2>11, <2>12, <2>13 DEF Indexed, RootLen
    <2> QED
      BY <2>5, <2>9, <2>14
  <1> QED
    BY <1>1, BrowseInvariance, PTL

-----------------------------------------------------------------------------
(* Queries in names and paths.                                              *)

\* The recursion of Met has a solution.
LEMMA MetIs ==
    ASSUME NEW q \in Seq(Nat)
    PROVE  /\ Met(q, <<>>) = 0
           /\ \A t \in Seq(Nat), x \in Nat :
                 /\ Met(q, t) \in 0 .. Len(q)
                 /\ Met(q, Append(t, x)) =
                      IF Met(q, t) < Len(q) /\ x = q[Met(q, t) + 1] THEN Met(q, t) + 1 ELSE Met(q, t)
  <1> DEFINE V == 0 .. Len(q)
             On(i, x) == IF i < Len(q) /\ x = q[i + 1] THEN i + 1 ELSE i
             step == [i \in V |-> [x \in Nat |-> On(i, x)]]
             Counts(f) == f = [t \in Seq(Nat) |-> IF t = <<>> THEN 0 ELSE On(f[Front(t)], Last(t))]
  <1>1. Len(q) \in Nat /\ 0 \in V /\ <<>> \in Seq(Nat)
    BY LenProperties, EmptySeq
  <1>2. ASSUME NEW i \in V, NEW x PROVE On(i, x) \in V
    BY <1>1
  <1>3. V \subseteq Nat
    BY <1>1
  <1> HIDE DEF V, On
  <1>4. step \in [V -> [Nat -> V]]
    BY <1>2
  <1>5. PICK f \in [Seq(Nat) -> V] : \A t \in Seq(Nat) : f[t] = IF t = <<>> THEN 0 ELSE step[f[Front(t)]][Last(t)]
    <2>1. PICK s, z : s = step /\ z = 0
      OBVIOUS
    <2>2. s \in [V -> [Nat -> V]] /\ z \in V
      BY <1>1, <1>4, <2>1
    <2>3. PICK f \in [Seq(Nat) -> V] : Recurs(f, Nat, z, s)
      BY <2>2, Recursion
    <2> QED
      BY <2>1, <2>3 DEF Recurs
  <1>6. ASSUME NEW t \in Seq(Nat), t # <<>>
        PROVE  step[f[Front(t)]][Last(t)] = On(f[Front(t)], Last(t))
    <2>1. Front(t) \in Seq(Nat) /\ Last(t) \in Nat
      BY <1>6, Ends
    <2>2. f[Front(t)] \in V
      BY <2>1
    <2> QED
      BY <2>1, <2>2
  <1> HIDE DEF step
  <1>7. Counts(f)
    BY <1>5, <1>6
  <1>8. PICK F : F = CHOOSE g : Counts(g)
    OBVIOUS
  <1>9. Counts(F)
    BY <1>7, <1>8
  <1>10. \A t : Met(q, t) = F[t]
    BY <1>8 DEF Met, On
  <1>11. \A t \in Seq(Nat) : F[t] = IF t = <<>> THEN 0 ELSE On(F[Front(t)], Last(t))
    BY <1>9
  <1>12. \A t \in Seq(Nat) : F[t] \in V
    <2> DEFINE T == {t \in Seq(Nat) : F[t] \in V}
    <2>1. <<>> \in T
      BY <1>1, <1>11
    <2>2. \A t \in Seq(Nat) : t # <<>> /\ Front(t) \in T => t \in T
      BY <1>2, <1>11
    <2> HIDE DEF T
    <2>3. \A t \in Seq(Nat) : t \in T
      BY <2>1, <2>2, SeqInduction
    <2> QED
      BY <2>3 DEF T
  <1>13. ASSUME NEW t \in Seq(Nat), NEW x \in Nat PROVE F[Append(t, x)] = On(F[t], x)
    <2>1. Append(t, x) \in Seq(Nat) /\ Append(t, x) # <<>> /\ Front(Append(t, x)) = t /\ Last(Append(t, x)) = x
      BY Appended
    <2> QED
      BY <1>11, <2>1
  <1>14. F[<<>>] = 0
    BY <1>1, <1>11
  <1> HIDE DEF Counts
  <1>15. ASSUME NEW t \in Seq(Nat), NEW x \in Nat
         PROVE  /\ Met(q, t) \in 0 .. Len(q)
                /\ Met(q, Append(t, x)) =
                     IF Met(q, t) < Len(q) /\ x = q[Met(q, t) + 1] THEN Met(q, t) + 1 ELSE Met(q, t)
    <2>1. Met(q, t) = F[t] /\ Met(q, Append(t, x)) = F[Append(t, x)]
      BY <1>10
    <2>2. F[t] \in V /\ F[Append(t, x)] = On(F[t], x)
      BY <1>12, <1>13
    <2> QED
      BY <2>1, <2>2 DEF On, V
  <1>16. Met(q, <<>>) = 0
    BY <1>10, <1>14
  <1> QED
    BY <1>15, <1>16

\* f places the first k runes of q in s.
Places(f, q, k, s) ==
    /\ f \in [1 .. k -> 1 .. Len(s)]
    /\ \A i \in 1 .. k : s[f[i]] = q[i]
    /\ \A i \in 1 .. k - 1 : f[i] < f[i + 1]

Placed(q, k, s) == \E f : Places(f, q, k, s)

LEMMA EmbeddedIs ==
    ASSUME NEW q, NEW s
    PROVE  Embedded(q, s) <=> Placed(q, Len(q), s)
  BY DEF Embedded, Placed, Places

\* What rises from place to place rises to the end.
LEMMA Rises ==
    ASSUME NEW k \in Nat, NEW n \in Nat, NEW f \in [1 .. k -> 1 .. n],
           \A i \in 1 .. k - 1 : f[i] < f[i + 1],
           NEW i \in 1 .. k
    PROVE  f[i] <= f[k]
  <1> DEFINE Late == {m \in 0 .. k - i : ~(f[i] <= f[i + m])}
  <1> SUFFICES ASSUME Late # {} PROVE FALSE
    <2>1. k - i \in 0 .. k - i /\ i + (k - i) = k
      OBVIOUS
    <2> QED
      BY <2>1
  <1>1. Late \in SUBSET Nat
    OBVIOUS
  <1>2. PICK m \in Late : \A l \in Late : m <= l
    <2> HIDE DEF Late
    <2> QED
      BY <1>1, LeastNat
  <1>3. m \in 0 .. k - i /\ ~(f[i] <= f[i + m]) /\ f[i] \in Nat
    BY <1>2
  <1>4. m # 0
    BY <1>3
  <1>5. PICK j : j = i + m - 1
    OBVIOUS
  <1>6. j \in 1 .. k - 1 /\ j + 1 = i + m /\ j \in 1 .. k /\ j + 1 \in 1 .. k
    BY <1>3, <1>4, <1>5
  <1>10. PICK l : l = m - 1
    OBVIOUS
  <1>7. l \in 0 .. k - i /\ ~(m <= l) /\ i + l = j
    BY <1>3, <1>4, <1>5, <1>10
  <1>8. f[i] <= f[j]
    <2>1. l \notin Late
      <3> HIDE DEF Late
      <3> QED
        BY <1>2, <1>7
    <2> QED
      BY <1>7, <2>1
  <1>9. f[j] < f[j + 1] /\ f[j] \in 1 .. n /\ f[j + 1] \in 1 .. n
    BY <1>6
  <1> QED
    BY <1>3, <1>6, <1>8, <1>9

\* The last rune has its place at the end, or all of them have one before it.
LEMMA PlacedBefore ==
    ASSUME NEW q \in Seq(Nat), NEW r \in Seq(Nat), NEW x \in Nat, NEW k \in 1 .. Len(q),
           Placed(q, k, Append(r, x))
    PROVE  /\ Placed(q, k - 1, r)
           /\ Placed(q, k, r) \/ x = q[k]
  <1>1. PICK t : t = Append(r, x)
    OBVIOUS
  <1>2. /\ Len(r) \in Nat /\ Len(q) \in Nat /\ Len(t) = Len(r) + 1
        /\ \A i \in 1 .. Len(r) : t[i] = r[i]
        /\ t[Len(r) + 1] = x
    BY <1>1, AppendProperties, LenProperties
  <1>3. PICK f : Places(f, q, k, t)
    BY <1>1 DEF Placed
  <1>4. /\ f \in [1 .. k -> 1 .. Len(r) + 1]
        /\ \A i \in 1 .. k : t[f[i]] = q[i]
        /\ \A i \in 1 .. k - 1 : f[i] < f[i + 1]
    BY <1>2, <1>3 DEF Places
  <1>10. \A i \in 1 .. k : f[i] \in Nat /\ 1 <= f[i] /\ f[i] <= Len(r) + 1
    <2>1. \A i \in 1 .. k : f[i] \in 1 .. Len(r) + 1
      BY <1>4
    <2> QED
      BY <1>2, <2>1
  <1>5. \A i \in 1 .. k : f[i] <= f[k]
    <2>1. PICK n, m : n = Len(r) + 1 /\ m = k
      OBVIOUS
    <2>2. n \in Nat /\ m \in Nat /\ f \in [1 .. m -> 1 .. n] /\ \A i \in 1 .. m - 1 : f[i] < f[i + 1]
      BY <1>2, <1>4, <2>1
    <2>3. \A i \in 1 .. m : f[i] <= f[m]
      BY <2>2, Rises
    <2> QED
      BY <2>1, <2>3
  <1>6. ASSUME NEW m \in 0 .. k, \A i \in 1 .. m : f[i] <= Len(r)
        PROVE  Placed(q, m, r)
    <2> DEFINE g == [i \in 1 .. m |-> f[i]]
    <2>1. \A i \in 1 .. m : i \in 1 .. k /\ f[i] \in 1 .. Len(r) /\ g[i] = f[i]
      <3>1. \A i \in 1 .. m : i \in 1 .. k
        BY <1>2
      <3> QED
        BY <1>2, <1>6, <1>10, <3>1
    <2>2. \A i \in 1 .. m - 1 : i \in 1 .. m /\ i + 1 \in 1 .. m /\ i \in 1 .. k - 1
      BY <1>2
    <2>3. g \in [1 .. m -> 1 .. Len(r)]
      BY <2>1
    <2> HIDE DEF g
    <2>4. \A i \in 1 .. m : r[g[i]] = q[i]
      BY <1>2, <1>4, <2>1
    <2>5. \A i \in 1 .. m - 1 : g[i] < g[i + 1]
      BY <1>4, <2>1, <2>2
    <2> QED
      BY <2>3, <2>4, <2>5 DEF Placed, Places
  <1>7. Placed(q, k - 1, r)
    <2>1. \A i \in 1 .. k - 1 : f[i] <= Len(r)
      <3> SUFFICES ASSUME NEW i \in 1 .. k - 1 PROVE f[i] <= Len(r)
        OBVIOUS
      <3>1. i \in 1 .. k /\ i + 1 \in 1 .. k
        BY <1>2
      <3>2. f[i] < f[i + 1]
        BY <1>4
      <3>3. f[i] \in Nat /\ f[i + 1] \in Nat /\ f[i + 1] <= Len(r) + 1
        BY <1>10, <3>1
      <3>4. PICK u, v : u = f[i] /\ v = f[i + 1]
        OBVIOUS
      <3>5. u < v /\ u \in Nat /\ v \in Nat /\ v <= Len(r) + 1
        BY <3>2, <3>3, <3>4
      <3>6. u <= Len(r)
        BY <1>2, <3>5
      <3> QED
        BY <3>4, <3>6
    <2>2. k - 1 \in 0 .. k
      BY <1>2
    <2> QED
      BY <1>6, <2>1, <2>2
  <1>8. CASE f[k] <= Len(r)
    <2>1. \A i \in 1 .. k : f[i] <= Len(r)
      <3> SUFFICES ASSUME NEW i \in 1 .. k PROVE f[i] <= Len(r)
        OBVIOUS
      <3>1. f[i] <= f[k]
        BY <1>5
      <3>2. f[i] \in Nat /\ f[k] \in Nat
        BY <1>2, <1>10
      <3> QED
        BY <1>2, <1>8, <3>1, <3>2
    <2>2. k \in 0 .. k
      BY <1>2
    <2> QED
      BY <1>6, <1>7, <2>1, <2>2
  <1>9. CASE ~(f[k] <= Len(r))
    <2>1. f[k] = Len(r) + 1
      <3>1. f[k] \in Nat /\ f[k] <= Len(r) + 1
        BY <1>2, <1>10
      <3> QED
        BY <1>2, <1>9, <3>1
    <2>2. t[f[k]] = q[k]
      BY <1>2, <1>4
    <2> QED
      BY <1>2, <1>7, <2>1, <2>2
  <1> QED
    BY <1>8, <1>9

\* A place more, at the end.
LEMMA PlacedAfter ==
    ASSUME NEW q \in Seq(Nat), NEW r \in Seq(Nat), NEW x \in Nat, NEW k \in 0 .. Len(q),
           Placed(q, k, r)
    PROVE  /\ Placed(q, k, Append(r, x))
           /\ k < Len(q) /\ x = q[k + 1] => Placed(q, k + 1, Append(r, x))
  <1>1. PICK t : t = Append(r, x)
    OBVIOUS
  <1>2. /\ Len(r) \in Nat /\ Len(q) \in Nat /\ Len(t) = Len(r) + 1
        /\ \A i \in 1 .. Len(r) : t[i] = r[i]
        /\ t[Len(r) + 1] = x
    BY <1>1, AppendProperties, LenProperties
  <1>3. PICK f : Places(f, q, k, r)
    BY DEF Placed
  <1>4. /\ f \in [1 .. k -> 1 .. Len(r)]
        /\ \A i \in 1 .. k : r[f[i]] = q[i]
        /\ \A i \in 1 .. k - 1 : f[i] < f[i + 1]
    BY <1>3 DEF Places
  <1>5. \A i \in 1 .. k : f[i] \in 1 .. Len(r) /\ t[f[i]] = q[i]
    BY <1>2, <1>4
  <1>6. Placed(q, k, t)
    <2>1. 1 .. Len(r) \subseteq 1 .. Len(t)
      BY <1>2
    <2>2. f \in [1 .. k -> 1 .. Len(t)]
      BY <1>4, <2>1
    <2> QED
      BY <1>4, <1>5, <2>2 DEF Placed, Places
  <1>7. ASSUME k < Len(q), x = q[k + 1] PROVE Placed(q, k + 1, t)
    <2>1. PICK n : n = k + 1
      OBVIOUS
    <2>2. n \in Nat /\ n - 1 = k
      BY <1>2, <2>1
    <2> DEFINE g == [i \in 1 .. n |-> IF i = n THEN Len(t) ELSE f[i]]
    <2>3. \A i \in 1 .. n : i # n => i \in 1 .. k
      BY <1>2, <2>1
    <2>4. g \in [1 .. n -> 1 .. Len(t)]
      BY <1>2, <1>5, <2>3
    <2>5. \A i \in 1 .. n : g[i] = IF i = n THEN Len(t) ELSE f[i]
      OBVIOUS
    <2> HIDE DEF g
    <2>6. \A i \in 1 .. n : t[g[i]] = q[i]
      BY <1>2, <1>5, <1>7, <2>1, <2>3, <2>5
    <2>7. \A i \in 1 .. n - 1 : g[i] < g[i + 1]
      <3> SUFFICES ASSUME NEW i \in 1 .. n - 1 PROVE g[i] < g[i + 1]
        OBVIOUS
      <3>1. i \in 1 .. n /\ i + 1 \in 1 .. n /\ i # n /\ i \in 1 .. k
        BY <1>2, <2>1
      <3>2. CASE i + 1 = n
        <4>1. g[i] = f[i] /\ g[i + 1] = Len(t)
          BY <2>5, <3>1, <3>2
        <4>2. f[i] \in 1 .. Len(r)
          BY <1>5, <3>1
        <4> QED
          BY <1>2, <4>1, <4>2
      <3>3. CASE i + 1 # n
        <4>1. i \in 1 .. k - 1
          BY <1>2, <2>1, <3>1, <3>3
        <4> QED
          BY <1>4, <2>5, <3>1, <3>3, <4>1
      <3> QED
        BY <3>2, <3>3
    <2> QED
      BY <2>1, <2>4, <2>6, <2>7 DEF Placed, Places
  <1> QED
    BY <1>1, <1>6, <1>7

\* subsequence is greedy, and loses nothing by it.
LEMMA GreedyFinds ==
    ASSUME NEW q \in Seq(Nat), NEW s \in Seq(Nat)
    PROVE  Subsequence(q, s) <=> Embedded(q, s)
  <1> DEFINE Best(t) == /\ Placed(q, Met(q, t), t)
                        /\ \A k \in 0 .. Len(q) : Placed(q, k, t) => k <= Met(q, t)
             T == {t \in Seq(Nat) : Best(t)}
  <1>1. Len(q) \in Nat
    BY LenProperties
  <1>2. <<>> \in T
    <2>1. Met(q, <<>>) = 0 /\ <<>> \in Seq(Nat) /\ Len(<<>>) = 0
      BY MetIs, EmptySeq
    <2>2. Placed(q, 0, <<>>)
      <3>1. Places([i \in 1 .. 0 |-> 1], q, 0, <<>>)
        BY DEF Places
      <3> QED
        BY <3>1 DEF Placed
    <2>3. ASSUME NEW k \in 0 .. Len(q), Placed(q, k, <<>>) PROVE k <= 0
      <3>1. PICK f : f \in [1 .. k -> 1 .. 0]
        BY <2>1, <2>3 DEF Placed, Places
      <3>2. ASSUME k # 0 PROVE FALSE
        <4>1. 1 \in 1 .. k
          BY <1>1, <3>2
        <4>2. f[1] \in 1 .. 0
          BY <3>1, <4>1
        <4> QED
          BY <4>2
      <3> QED
        BY <3>2
    <2> QED
      BY <2>1, <2>2, <2>3
  <1>3. ASSUME NEW t \in Seq(Nat), t # <<>>, Front(t) \in T PROVE t \in T
    <2>1. PICK r, x : r = Front(t) /\ x = Last(t)
      OBVIOUS
    <2>2. r \in Seq(Nat) /\ x \in Nat /\ t = Append(r, x)
      BY <1>3, <2>1, Ends
    <2>3. PICK i : i = Met(q, r)
      OBVIOUS
    <2>4. /\ i \in 0 .. Len(q) /\ Placed(q, i, r) /\ \A k \in 0 .. Len(q) : Placed(q, k, r) => k <= i
          /\ Met(q, t) = IF i < Len(q) /\ x = q[i + 1] THEN i + 1 ELSE i
      <3>1. Best(r)
        BY <1>3, <2>1
      <3>2. i \in 0 .. Len(q) /\ Met(q, t) = IF i < Len(q) /\ x = q[i + 1] THEN i + 1 ELSE i
        <4> HIDE DEF Best, T
        <4> QED
          BY <2>2, <2>3, MetIs
      <3> QED
        BY <2>3, <3>1, <3>2
    <2>5. Placed(q, Met(q, t), t)
      BY <2>2, <2>4, PlacedAfter
    <2>6. ASSUME NEW k \in 0 .. Len(q), Placed(q, k, t), ~(k <= Met(q, t)) PROVE FALSE
      <3>1. k \in 1 .. Len(q) /\ i < k
        BY <1>1, <2>4, <2>6
      <3>2. Placed(q, k - 1, r) /\ (Placed(q, k, r) \/ x = q[k])
        BY <2>2, <2>6, <3>1, PlacedBefore
      <3>3. ~Placed(q, k, r)
        BY <1>1, <2>4, <3>1
      <3>4. k - 1 \in 0 .. Len(q)
        BY <1>1, <3>1
      <3>5. k - 1 <= i
        BY <2>4, <3>2, <3>4
      <3>6. k = i + 1
        BY <1>1, <2>4, <3>1, <3>5
      <3> QED
        BY <1>1, <2>4, <2>6, <3>1, <3>2, <3>3, <3>6
    <2> QED
      BY <2>5, <2>6
  <1> HIDE DEF T
  <1>4. s \in T
    BY <1>2, <1>3, SeqInduction
  <1>5. Best(s)
    BY <1>4 DEF T
  <1>6. Met(q, s) \in 0 .. Len(q)
    BY MetIs
  <1>7. Len(q) \in 0 .. Len(q)
    BY <1>1
  <1> QED
    BY <1>1, <1>5, <1>6, <1>7, EmbeddedIs DEF Subsequence

\* A run of runes is found in order.
LEMMA RunEmbedded ==
    ASSUME NEW q \in Seq(Nat), NEW s \in Seq(Nat), NEW o \in Nat, o + Len(q) <= Len(s),
           \A i \in 1 .. Len(q) : s[o + i] = q[i]
    PROVE  Embedded(q, s)
  <1> DEFINE f == [i \in 1 .. Len(q) |-> o + i]
  <1>1. Len(q) \in Nat /\ Len(s) \in Nat
    BY LenProperties
  <1>2. f \in [1 .. Len(q) -> 1 .. Len(s)]
    <2>1. \A i \in 1 .. Len(q) : o + i \in 1 .. Len(s)
      BY <1>1
    <2> QED
      BY <2>1
  <1>3. \A i \in 1 .. Len(q) - 1 : f[i] < f[i + 1]
    <2>1. \A i \in 1 .. Len(q) - 1 : i \in 1 .. Len(q) /\ i + 1 \in 1 .. Len(q)
      BY <1>1
    <2> QED
      BY <1>1, <2>1
  <1>4. \A i \in 1 .. Len(q) : s[f[i]] = q[i]
    OBVIOUS
  <1> QED
    BY <1>2, <1>3, <1>4 DEF Embedded

\* What is found in the name is found in the path.
LEMMA NameInPath ==
    ASSUME NEW q \in Seq(Nat), NEW d \in AllDocs, Embedded(q, d.lowerName)
    PROVE  Embedded(q, d.lowerPath)
  <1>1. PICK dir \in Dirs, name \in Names : d.name = name /\ d.path = dir \o <<Slash>> \o name
    BY DocParts
  <1>2. PICK s, t, o : s = d.lowerPath /\ t = d.lowerName /\ o = Len(dir) + 1
    OBVIOUS
  <1>3. o \in Nat /\ Len(t) \in Nat /\ Len(q) \in Nat
    <2>1. t \in Seq(Rune) /\ dir \in Seq(Rune)
      BY <1>1, <1>2, DocTyped, PartsTyped
    <2> QED
      BY <1>2, <2>1, LenProperties
  <1>4. Len(s) = o + Len(t) /\ \A i \in 1 .. Len(t) : s[o + i] = t[i]
    <2>1. PICK path : path = d.path
      OBVIOUS
    <2>2. /\ path \in Seq(Rune) /\ name \in Seq(Rune)
          /\ Len(path) = o + Len(name)
          /\ \A i \in 1 .. Len(name) : path[o + i] = name[i]
      BY <1>1, <1>2, <2>1, PathParts, PartsTyped
    <2>3. s = Lowered(path) /\ t = Lowered(name)
      <3>1. d.lowerName = Lowered(d.name) /\ d.lowerPath = Lowered(d.path)
        BY DocParts
      <3> QED
        BY <1>1, <1>2, <2>1, <3>1
    <2>4. /\ Len(s) = Len(path) /\ \A i \in 1 .. Len(path) : s[i] = Lower[path[i]]
          /\ Len(t) = Len(name) /\ \A i \in 1 .. Len(name) : t[i] = Lower[name[i]]
      BY <2>2, <2>3, LoweredIs
    <2>5. \A i \in 1 .. Len(name) : o + i \in 1 .. Len(path)
      BY <1>3, <2>2, <2>4
    <2> QED
      BY <2>2, <2>4, <2>5
  <1>5. PICK f \in [1 .. Len(q) -> 1 .. Len(t)] :
           /\ \A i \in 1 .. Len(q) : t[f[i]] = q[i]
           /\ \A i \in 1 .. Len(q) - 1 : f[i] < f[i + 1]
    BY <1>2 DEF Embedded
  <1> DEFINE g == [i \in 1 .. Len(q) |-> o + f[i]]
  <1>6. \A i \in 1 .. Len(q) : f[i] \in 1 .. Len(t) /\ g[i] = o + f[i]
    BY <1>5
  <1>7. g \in [1 .. Len(q) -> 1 .. Len(s)]
    BY <1>3, <1>4, <1>6
  <1> HIDE DEF g
  <1>8. \A i \in 1 .. Len(q) : s[g[i]] = q[i]
    BY <1>4, <1>5, <1>6
  <1>9. \A i \in 1 .. Len(q) - 1 : g[i] < g[i + 1]
    <2> SUFFICES ASSUME NEW i \in 1 .. Len(q) - 1 PROVE g[i] < g[i + 1]
      OBVIOUS
    <2>1. i \in 1 .. Len(q) /\ i + 1 \in 1 .. Len(q) /\ f[i] < f[i + 1]
      BY <1>3, <1>5
    <2>2. f[i] \in Nat /\ f[i + 1] \in Nat /\ g[i] = o + f[i] /\ g[i + 1] = o + f[i + 1]
      BY <1>3, <1>6, <2>1
    <2> QED
      BY <1>3, <2>1, <2>2
  <1> QED
    BY <1>2, <1>7, <1>8, <1>9 DEF Embedded

\* The offsets of q in s are where it runs.
LEMMA OccurrenceRuns ==
    ASSUME NEW q \in Seq(Nat), NEW s \in Seq(Nat), Occurrences(q, s) # {}
    PROVE  Embedded(q, s)
  <1>1. PICK i \in 0 .. Len(s) - Len(q) : SubSeq(s, i + 1, i + Len(q)) = q
    BY DEF Occurrences
  <1>2. Len(s) \in Nat /\ Len(q) \in Nat
    BY LenProperties
  <1>3. PICK a, b : a = i + 1 /\ b = i + Len(q)
    OBVIOUS
  <1>8. i \in Nat /\ i + Len(q) <= Len(s) /\ a \in Int /\ b \in Int
    BY <1>2, <1>3
  <1>4. \A k \in a .. b : s[k] \in Nat
    <2>1. \A k \in a .. b : k \in 1 .. Len(s)
      BY <1>2, <1>3, <1>8
    <2> QED
      BY <2>1, ElementOfSeq
  <1>5. \A k \in 1 .. b - a + 1 : SubSeq(s, a, b)[k] = s[a + k - 1]
    BY <1>4, <1>8, SubSeqProperties
  <1>6. \A k \in 1 .. Len(q) : s[i + k] = q[k]
    <2> SUFFICES ASSUME NEW k \in 1 .. Len(q) PROVE s[i + k] = q[k]
      OBVIOUS
    <2>1. k \in 1 .. b - a + 1 /\ a + k - 1 = i + k
      BY <1>2, <1>3, <1>8
    <2> QED
      BY <1>1, <1>3, <1>5, <2>1
  <1> QED
    BY <1>6, <1>8, RunEmbedded

LEMMA PrefixRuns ==
    ASSUME NEW q \in Seq(Nat), NEW s \in Seq(Nat), IsPrefix(q, s)
    PROVE  Embedded(q, s)
  <1>1. Len(q) <= Len(s) /\ SubSeq(s, 1, Len(q)) = q
    BY DEF IsPrefix
  <1>2. Len(s) \in Nat /\ Len(q) \in Nat
    BY LenProperties
  <1>3. \A i \in 1 .. Len(q) : q[i] = s[i]
    <2>1. Len(q) \in 0 .. Len(s)
      BY <1>1, <1>2
    <2> QED
      BY <1>1, <2>1, Beginnings
  <1>4. \A i \in 1 .. Len(q) : s[0 + i] = q[i]
    BY <1>2, <1>3
  <1>5. 0 \in Nat /\ 0 + Len(q) <= Len(s)
    BY <1>1, <1>2
  <1> QED
    BY <1>4, <1>5, RunEmbedded

\* Every tier but the last finds an embedding, and the last leaves none.
LEMMA TierEmbeds ==
    ASSUME NEW q \in Seq(Nat), NEW d \in AllDocs
    PROVE  Tier(q, d) # NoMatch <=> Embedded(q, d.lowerPath)
  <1>1. d.lowerName \in Seq(Nat) /\ d.lowerPath \in Seq(Nat)
    BY DocTyped, RunesAreNats
  <1>2. PICK name, path : name = d.lowerName /\ path = d.lowerPath
    OBVIOUS
  <1>3. name \in Seq(Nat) /\ path \in Seq(Nat)
    BY <1>1, <1>2
  <1>4. IsPrefix(q, name) => Embedded(q, name)
    BY <1>3, PrefixRuns
  <1>5. Occurrences(q, name) # {} => Embedded(q, name)
    BY <1>3, OccurrenceRuns
  <1>6. Subsequence(q, name) => Embedded(q, name)
    BY <1>3, GreedyFinds
  <1>7. Occurrences(q, path) # {} => Embedded(q, path)
    BY <1>3, OccurrenceRuns
  <1>8. Subsequence(q, path) <=> Embedded(q, path)
    BY <1>3, GreedyFinds
  <1>9. Embedded(q, name) => Embedded(q, path)
    BY <1>2, NameInPath
  <1>10. name = q => Embedded(q, name)
    <2>1. name = q => IsPrefix(q, name)
      <3>1. Len(name) \in Nat /\ SubSeq(name, 1, Len(name)) = name
        BY <1>3, LenProperties, Whole
      <3> QED
        BY <3>1 DEF IsPrefix
    <2> QED
      BY <1>4, <2>1
  <1> QED
    BY <1>2, <1>4, <1>5, <1>6, <1>7, <1>8, <1>9, <1>10 DEF Tier, NoMatch

-----------------------------------------------------------------------------
(* Theorems of searching.                                                   *)

SearchInv ==
    /\ typed \in Seq(Rune)
    /\ docs \subseteq AllDocs /\ IsFiniteSet(docs)

(***************************************************************************)
(* What is typed is made of the runes of paths, and the index is a finite   *)
(* set of documents.                                                        *)
(***************************************************************************)
THEOREM SearchInvariance == LookupsSpec => []SearchInv
  <1>1. LookupsInit => SearchInv
    <2> SUFFICES ASSUME LookupsInit PROVE SearchInv
      OBVIOUS
    <2>1. typed = <<>>
      BY DEF LookupsInit, RankingInit
    <2>2. docs \subseteq AllDocs /\ IsFiniteSet(docs)
      BY FS_EmptySet DEF LookupsInit, RankingInit
    <2> QED
      BY <2>1, <2>2, EmptySeq DEF SearchInv
  <1>2. SearchInv /\ [LookupsNext]_lookupsVars => SearchInv'
    <2> SUFFICES ASSUME SearchInv, [LookupsNext]_lookupsVars PROVE SearchInv'
      OBVIOUS
    <2>1. docs' = docs
      BY DEF LookupsNext, RankingNext, TypeLetter, lookupsVars, rankingVars
    <2>2. (typed' = typed) \/ \E c \in Rune : typed' = Append(typed, c)
      <3>1. \A c \in Rune : Lower[c] \in Rune
        BY RankingAssumption
      <3> QED
        BY <3>1 DEF LookupsNext, RankingNext, TypeLetter, lookupsVars, rankingVars
    <2>3. typed' \in Seq(Rune)
      BY <2>2, Appended DEF SearchInv
    <2> QED
      BY <2>1, <2>3 DEF SearchInv
  <1> QED
    BY <1>1, <1>2, PTL DEF LookupsSpec

LEMMA TypedRunes == ASSUME SearchInv PROVE typed \in Seq(Nat)
  BY RunesAreNats DEF SearchInv

(***************************************************************************)
(* A query finds just the documents in whose path its runes occur in their  *)
(* order, whatever their case, for every index and query: no shortcut of    *)
(* scoreDoc finds another one, and the greedy search of subsequence misses  *)
(* none.                                                                    *)
(***************************************************************************)
THEOREM FindsWhatEmbeds == LookupsSpec => []FindsEmbedded
  <1>1. SearchInv => FindsEmbedded
    <2> SUFFICES ASSUME SearchInv, typed # <<>>
                 PROVE  Hits(typed) = {d \in docs : Embedded(typed, d.lowerPath)}
      BY DEF FindsEmbedded
    <2>1. \A d \in docs : Tier(typed, d) # NoMatch <=> Embedded(typed, d.lowerPath)
      BY TypedRunes, TierEmbeds DEF SearchInv
    <2> QED
      BY <2>1 DEF Hits
  <1> QED
    BY <1>1, SearchInvariance, PTL

(***************************************************************************)
(* Typing on never brings up a file that was not found before, for every    *)
(* index: what follows the query in a path follows the rest of it.          *)
(***************************************************************************)
THEOREM TypingNarrows == LookupsSpec => Narrows
  <1>1. SearchInv /\ [LookupsNext]_lookupsVars =>
          [typed # <<>> => Hits(typed') \subseteq Hits(typed)]_rankingVars
    <2> SUFFICES ASSUME SearchInv, [LookupsNext]_lookupsVars, ~UNCHANGED rankingVars, typed # <<>>
                 PROVE  Hits(typed') \subseteq Hits(typed)
      OBVIOUS
    <2>1. PICK c \in Rune : typed' = Append(typed, c)
      <3>1. \A c \in Rune : Lower[c] \in Rune
        BY RankingAssumption
      <3> QED
        BY <3>1 DEF LookupsNext, RankingNext, TypeLetter, lookupsVars
    <2>2. PICK q, x : q = typed /\ x = c
      OBVIOUS
    <2>3. q \in Seq(Nat) /\ x \in Nat /\ q # <<>> /\ typed' = Append(q, x)
      BY <2>1, <2>2, TypedRunes, Runes
    <2>4. ASSUME NEW d \in docs, Tier(Append(q, x), d) # NoMatch PROVE Tier(q, d) # NoMatch
      <3>1. PICK t, s : t = Append(q, x) /\ s = d.lowerPath
        OBVIOUS
      <3>2. /\ t \in Seq(Nat) /\ Len(t) = Len(q) + 1 /\ Len(q) \in Nat
            /\ \A i \in 1 .. Len(q) : t[i] = q[i]
        BY <2>3, <3>1, AppendProperties, LenProperties
      <3>3. d \in AllDocs
        BY DEF SearchInv
      <3>4. Embedded(t, s)
        BY <2>4, <3>1, <3>2, <3>3, TierEmbeds
      <3>5. PICK f \in [1 .. Len(t) -> 1 .. Len(s)] :
               /\ \A i \in 1 .. Len(t) : s[f[i]] = t[i]
               /\ \A i \in 1 .. Len(t) - 1 : f[i] < f[i + 1]
        BY <3>4 DEF Embedded
      <3> DEFINE g == [i \in 1 .. Len(q) |-> f[i]]
      <3>6. \A i \in 1 .. Len(q) : i \in 1 .. Len(t) /\ g[i] = f[i] /\ g[i] \in 1 .. Len(s)
        <4>1. \A i \in 1 .. Len(q) : i \in 1 .. Len(t)
          BY <3>2
        <4>2. \A i \in 1 .. Len(t) : f[i] \in 1 .. Len(s)
          BY <3>5
        <4> QED
          BY <4>1, <4>2
      <3>7. g \in [1 .. Len(q) -> 1 .. Len(s)]
        BY <3>6
      <3> HIDE DEF g
      <3>8. \A i \in 1 .. Len(q) : s[g[i]] = q[i]
        BY <3>2, <3>5, <3>6
      <3>9. \A i \in 1 .. Len(q) - 1 : g[i] < g[i + 1]
        <4>1. \A i \in 1 .. Len(q) - 1 : i \in 1 .. Len(q) /\ i + 1 \in 1 .. Len(q) /\ i \in 1 .. Len(t) - 1
          BY <3>2
        <4> QED
          BY <3>5, <3>6, <4>1
      <3>10. Embedded(q, s)
        BY <3>7, <3>8, <3>9 DEF Embedded
      <3> QED
        BY <2>3, <3>1, <3>3, <3>10, TierEmbeds
    <2> QED
      BY <2>2, <2>3, <2>4 DEF Hits
  <1> QED
    BY <1>1, SearchInvariance, PTL DEF LookupsSpec, Narrows

(***************************************************************************)
(* What is found of a better tier comes first, for every index and query.   *)
(***************************************************************************)
THEOREM TiersStayKept == LookupsSpec => []TiersKept
  <1>1. SearchInv => TiersKept
    <2> SUFFICES ASSUME SearchInv, NEW d \in Hits(typed), NEW e \in Hits(typed),
                        Near(At(typed, d), Size(d.lowerName)), Tier(typed, d) < Tier(typed, e)
                 PROVE  Before(typed, d, e)
      BY DEF TiersKept
    <2>1. d \in AllDocs /\ e \in AllDocs /\ Tier(typed, e) # NoMatch /\ typed \in Seq(Rune)
      BY DEF Hits, SearchInv
    <2> QED
      BY <2>1, TiersScore DEF Before
  <1> QED
    BY <1>1, SearchInvariance, PTL

-----------------------------------------------------------------------------
(* The answer is one.                                                       *)

\* f lists S, each document before the next ones.
Lines(f, q, S) ==
    LET n == Cardinality(S)
    IN  /\ f \in [1 .. n -> S]
        /\ \A d \in S : \E i \in 1 .. n : f[i] = d
        /\ \A i, j \in 1 .. n : i < j => Before(q, f[i], f[j])

\* What all the others are before.
LEMMA LastInLine ==
    ASSUME NEW q \in Seq(Rune), NEW S \in SUBSET AllDocs, IsFiniteSet(S), NEW x \in S,
           NEW f, Lines(f, q, S \ {x})
    PROVE  \E m \in S : \A d \in S \ {m} : Before(q, d, m)
  <1> DEFINE T == S \ {x}
  <1>1. PICK n : n = Cardinality(T)
    OBVIOUS
  <1>2. n \in Nat
    BY <1>1, FS_RemoveElement, FS_CardinalityType
  <1>3. /\ f \in [1 .. n -> T]
        /\ \A d \in T : \E i \in 1 .. n : f[i] = d
        /\ \A i, j \in 1 .. n : i < j => Before(q, f[i], f[j])
    BY <1>1 DEF Lines
  <1>4. CASE n = 0
    <2>1. T = {}
      BY <1>2, <1>3, <1>4
    <2> QED
      BY <2>1
  <1>5. CASE n # 0
    <2>1. n \in 1 .. n
      BY <1>2, <1>5
    <2>2. PICK l : l = f[n]
      OBVIOUS
    <2>3. l \in T
      BY <1>3, <2>1, <2>2
    <2>4. \A d \in T : d # l => Before(q, d, l)
      <3> SUFFICES ASSUME NEW d \in T, d # l PROVE Before(q, d, l)
        OBVIOUS
      <3>1. PICK i \in 1 .. n : f[i] = d
        BY <1>3
      <3>2. i < n
        BY <1>2, <2>2, <3>1
      <3> QED
        BY <1>3, <2>1, <2>2, <3>1, <3>2
    <2>5. l # x /\ l \in AllDocs /\ x \in AllDocs
      BY <2>3
    <2>6. CASE Before(q, l, x)
      <3>1. \A d \in S \ {x} : Before(q, d, x)
        <4> SUFFICES ASSUME NEW d \in S \ {x}, d # l PROVE Before(q, d, x)
          BY <2>6
        <4>1. d \in AllDocs /\ Before(q, d, l)
          BY <2>4
        <4> QED
          BY <2>5, <2>6, <4>1, BeforeOrders
      <3> QED
        BY <3>1
    <2>7. CASE Before(q, x, l)
      <3>1. \A d \in S \ {l} : Before(q, d, l)
        BY <2>4, <2>7
      <3>2. l \in S
        BY <2>3
      <3> QED
        BY <3>1, <3>2
    <2>8. Before(q, l, x) \/ Before(q, x, l)
      BY <2>5, BeforeOrders
    <2> QED
      BY <2>6, <2>7, <2>8
  <1> QED
    BY <1>4, <1>5

\* One more at the end.
LEMMA LinedUp ==
    ASSUME NEW q \in Seq(Rune), NEW S, IsFiniteSet(S), NEW m \in S, NEW f, Lines(f, q, S \ {m}),
           \A d \in S \ {m} : Before(q, d, m)
    PROVE  \E g : Lines(g, q, S)
  <1>1. PICK n, k, T : n = Cardinality(S) /\ k = Cardinality(T) /\ T = S \ {m}
    OBVIOUS
  <1>2. n \in Nat /\ k \in Nat /\ k = n - 1
    BY <1>1, FS_RemoveElement, FS_CardinalityType
  <1>3. /\ f \in [1 .. k -> T]
        /\ \A d \in T : \E i \in 1 .. k : f[i] = d
        /\ \A i, j \in 1 .. k : i < j => Before(q, f[i], f[j])
    BY <1>1 DEF Lines
  <1> DEFINE g == [i \in 1 .. n |-> IF i = n THEN m ELSE f[i]]
  <1>4. \A i \in 1 .. n : i # n => i \in 1 .. k
    BY <1>2
  <1>5. \A i \in 1 .. k : i \in 1 .. n /\ i # n
    BY <1>2
  <1>6. g \in [1 .. n -> S]
    BY <1>1, <1>3, <1>4
  <1>7. \A i \in 1 .. n : g[i] = IF i = n THEN m ELSE f[i]
    OBVIOUS
  <1> HIDE DEF g
  <1>8. \A d \in S : \E i \in 1 .. n : g[i] = d
    <2>1. n \in 1 .. n
      BY <1>2
    <2> QED
      BY <1>1, <1>3, <1>5, <1>7, <2>1
  <1>9. ASSUME NEW i \in 1 .. n, NEW j \in 1 .. n, i < j PROVE Before(q, g[i], g[j])
    <2>1. i # n /\ i \in 1 .. k
      BY <1>2, <1>4, <1>9
    <2>2. CASE j = n
      <3>1. g[i] = f[i] /\ g[j] = m
        BY <1>7, <2>1, <2>2
      <3>2. f[i] \in S \ {m}
        BY <1>1, <1>3, <2>1
      <3> QED
        BY <3>1, <3>2
    <2>3. CASE j # n
      BY <1>3, <1>4, <1>7, <1>9, <2>1, <2>3
    <2> QED
      BY <2>2, <2>3
  <1> QED
    BY <1>1, <1>6, <1>8, <1>9 DEF Lines

LEMMA LineExists ==
    ASSUME NEW q \in Seq(Rune), NEW S \in SUBSET AllDocs, IsFiniteSet(S)
    PROVE  \E f : Lines(f, q, S)
  <1> DEFINE Bad(U) == U \in SUBSET AllDocs /\ IsFiniteSet(U) /\ ~\E f : Lines(f, q, U)
             Sizes == {n \in Nat : \E U : Bad(U) /\ Cardinality(U) = n}
  <1> SUFFICES ASSUME Bad(S) PROVE FALSE
    OBVIOUS
  <1>1. Sizes \in SUBSET Nat /\ Cardinality(S) \in Sizes
    BY FS_CardinalityType
  <1>2. PICK n \in Sizes : \A k \in Sizes : n <= k
    <2> HIDE DEF Sizes
    <2> QED
      BY <1>1, LeastNat
  <1>3. PICK U : Bad(U) /\ Cardinality(U) = n
    BY <1>2
  <1>4. ASSUME NEW x \in U PROVE \E f : Lines(f, q, U \ {x})
    <2>1. PICK V : V = U \ {x}
      OBVIOUS
    <2>2. V \in SUBSET AllDocs /\ IsFiniteSet(V) /\ Cardinality(V) = n - 1 /\ Cardinality(V) \in Nat /\ n \in Nat
      BY <1>2, <1>3, <2>1, FS_RemoveElement, FS_CardinalityType
    <2>3. Cardinality(V) \notin Sizes
      <3> HIDE DEF Sizes
      <3> QED
        BY <1>2, <2>2
    <2>4. ~Bad(V)
      BY <2>2, <2>3
    <2> QED
      BY <2>1, <2>2, <2>4
  <1>5. CASE U = {}
    <2>1. Cardinality(U) = 0
      BY <1>5, FS_EmptySet
    <2>2. Lines([i \in 1 .. 0 |-> 1], q, U)
      BY <1>5, <2>1 DEF Lines
    <2> QED
      BY <1>3, <2>2
  <1>6. CASE U # {}
    <2>1. PICK x \in U : TRUE
      BY <1>6
    <2>2. PICK f : Lines(f, q, U \ {x})
      BY <1>4
    <2>3. U \in SUBSET AllDocs /\ IsFiniteSet(U) /\ ~\E g : Lines(g, q, U)
      BY <1>3
    <2>4. PICK m \in U : \A d \in U \ {m} : Before(q, d, m)
      BY <2>2, <2>3, LastInLine
    <2>5. PICK g : Lines(g, q, U \ {m})
      BY <1>4
    <2> QED
      BY <2>3, <2>4, <2>5, LinedUp
  <1> QED
    BY <1>5, <1>6

\* Search's orders of what it found.
Sorted(q) ==
    {s \in SetToSeqs(Hits(q)) :
        \A i, j \in 1 .. Cardinality(Hits(q)) : i < j => ~Before(q, s[j], s[i])}

LEMMA SortedLines ==
    ASSUME NEW q \in Seq(Rune), Hits(q) \subseteq AllDocs, IsFiniteSet(Hits(q)), NEW f
    PROVE  f \in Sorted(q) <=> Lines(f, q, Hits(q))
  <1>1. PICK S, n : S = Hits(q) /\ n = Cardinality(S)
    OBVIOUS
  <1>2. n \in Nat /\ IsFiniteSet(S) /\ S \subseteq AllDocs
    BY <1>1, FS_CardinalityType
  <1>3. f \in Sorted(q) <=>
          /\ f \in [1 .. n -> S]
          /\ \A i, j \in 1 .. n : i # j => f[i] # f[j]
          /\ \A i, j \in 1 .. n : i < j => ~Before(q, f[j], f[i])
    BY <1>1 DEF Sorted, SetToSeqs
  <1>4. Lines(f, q, S) <=>
          /\ f \in [1 .. n -> S]
          /\ \A d \in S : \E i \in 1 .. n : f[i] = d
          /\ \A i, j \in 1 .. n : i < j => Before(q, f[i], f[j])
    BY <1>1 DEF Lines
  <1>5. ASSUME f \in [1 .. n -> S], \A i, j \in 1 .. n : i # j => f[i] # f[j]
        PROVE  \A d \in S : \E i \in 1 .. n : f[i] = d
    <2>1. f \in Injection(1 .. n, S)
      BY <1>5 DEF Injection, IsInjective
    <2>2. Cardinality(1 .. n) = n
      BY <1>2, FS_Interval
    <2>3. f \in Surjection(1 .. n, S)
      BY <1>1, <1>2, <2>1, <2>2, FS_Injection
    <2> QED
      BY <2>3 DEF Surjection
  <1>6. ASSUME f \in [1 .. n -> S], \A i, j \in 1 .. n : i < j => Before(q, f[i], f[j])
        PROVE  /\ \A i, j \in 1 .. n : i # j => f[i] # f[j]
               /\ \A i, j \in 1 .. n : i < j => ~Before(q, f[j], f[i])
    <2>1. \A i \in 1 .. n : f[i] \in AllDocs
      BY <1>2, <1>6
    <2>2. \A i, j \in 1 .. n : i < j => f[i] # f[j] /\ ~Before(q, f[j], f[i])
      BY <1>6, <2>1, BeforeOrders
    <2>3. \A i, j \in 1 .. n : i # j => i < j \/ j < i
      BY <1>2
    <2> QED
      BY <2>2, <2>3
  <1>7. ASSUME f \in [1 .. n -> S], \A i, j \in 1 .. n : i # j => f[i] # f[j],
               \A i, j \in 1 .. n : i < j => ~Before(q, f[j], f[i])
        PROVE  \A i, j \in 1 .. n : i < j => Before(q, f[i], f[j])
    <2>1. \A i \in 1 .. n : f[i] \in AllDocs
      BY <1>2, <1>7
    <2>2. \A i, j \in 1 .. n : i < j => i # j
      BY <1>2
    <2> QED
      BY <1>7, <2>1, <2>2, BeforeOrders
  <1> QED
    BY <1>1, <1>3, <1>4, <1>5, <1>6, <1>7

LEMMA OneLine ==
    ASSUME NEW q \in Seq(Rune), NEW S \in SUBSET AllDocs, IsFiniteSet(S),
           NEW f, NEW g, Lines(f, q, S), Lines(g, q, S)
    PROVE  f = g
  <1>1. PICK n : n = Cardinality(S)
    OBVIOUS
  <1>2. /\ n \in Nat
        /\ f \in [1 .. n -> S]
        /\ \A d \in S : \E i \in 1 .. n : f[i] = d
        /\ \A i, j \in 1 .. n : i < j => Before(q, f[i], f[j])
        /\ g \in [1 .. n -> S]
        /\ \A d \in S : \E i \in 1 .. n : g[i] = d
        /\ \A i, j \in 1 .. n : i < j => Before(q, g[i], g[j])
    BY <1>1, FS_CardinalityType DEF Lines
  <1> DEFINE Apart == {i \in 1 .. n : f[i] # g[i]}
  <1> SUFFICES ASSUME Apart # {} PROVE FALSE
    <2>1. ASSUME Apart = {} PROVE f = g
      <3>1. \A i \in 1 .. n : f[i] = g[i]
        BY <2>1
      <3> QED
        BY <1>2, <3>1
    <2> QED
      BY <2>1
  <1>3. Apart \in SUBSET Nat
    OBVIOUS
  <1>4. PICK i \in Apart : \A k \in Apart : i <= k
    <2> HIDE DEF Apart
    <2> QED
      BY <1>3, LeastNat
  <1>5. i \in 1 .. n /\ f[i] # g[i] /\ \A k \in 1 .. n : k < i => f[k] = g[k]
    BY <1>4
  <1> HIDE DEF Apart
  <1>6. f[i] \in S /\ g[i] \in S
    BY <1>2, <1>5
  <1>7. PICK k \in 1 .. n : f[k] = g[i]
    BY <1>2, <1>6
  <1>8. PICK m \in 1 .. n : g[m] = f[i]
    BY <1>2, <1>6
  <1>9. \A a \in S : ~Before(q, a, a)
    BY BeforeOrders
  <1>10. i < k
    <2>1. k # i
      BY <1>5, <1>7
    <2>2. ASSUME k < i PROVE FALSE
      <3>1. g[k] = g[i] /\ Before(q, g[k], g[i])
        BY <1>2, <1>5, <1>7, <2>2
      <3> QED
        BY <1>6, <1>9, <3>1
    <2> QED
      BY <1>2, <1>5, <2>1, <2>2
  <1>11. i < m
    <2>1. m # i
      BY <1>5, <1>8
    <2>2. ASSUME m < i PROVE FALSE
      <3>1. f[m] = f[i] /\ Before(q, f[m], f[i])
        BY <1>2, <1>5, <1>8, <2>2
      <3> QED
        BY <1>6, <1>9, <3>1
    <2> QED
      BY <1>2, <1>5, <2>1, <2>2
  <1>12. Before(q, f[i], g[i]) /\ Before(q, g[i], f[i])
    BY <1>2, <1>5, <1>7, <1>8, <1>10, <1>11
  <1>13. f[i] \in AllDocs /\ g[i] \in AllDocs
    BY <1>6
  <1> QED
    BY <1>12, <1>13, BeforeOrders

(***************************************************************************)
(* A query has one answer, for every index, limit and query: the hits can   *)
(* be sorted, and in one way only, whatever order the map was walked in.    *)
(***************************************************************************)
THEOREM AnswerIsOne == LookupsSpec => []OneAnswer
  <1>1. SearchInv => OneAnswer
    <2> SUFFICES ASSUME SearchInv PROVE Cardinality(Answers(typed)) = 1
      BY DEF OneAnswer
    <2>1. PICK q, S : q = typed /\ S = Hits(q)
      OBVIOUS
    <2>q. q \in Seq(Rune)
      BY <2>1 DEF SearchInv
    <2>2. S \in SUBSET AllDocs /\ IsFiniteSet(S)
      <3>1. S \in SUBSET docs
        BY <2>1 DEF Hits
      <3>2. IsFiniteSet(docs) /\ docs \subseteq AllDocs
        BY DEF SearchInv
      <3> QED
        BY <3>1, <3>2, FS_Subset
    <2>3. PICK f : Lines(f, q, S)
      BY <2>2, <2>q, LineExists
    <2>4. \A g : g \in Sorted(q) <=> g = f
      BY <2>1, <2>2, <2>3, <2>q, SortedLines, OneLine
    <2>5. Answers(q) = {SubSeq(s, 1, IF Len(s) > Limit THEN Limit ELSE Len(s)) : s \in Sorted(q)}
      BY DEF Answers, Sorted
    <2>6. \E a : Answers(q) = {a}
      <3> DEFINE Cut(s) == SubSeq(s, 1, IF Len(s) > Limit THEN Limit ELSE Len(s))
      <3>1. Answers(q) = {Cut(s) : s \in Sorted(q)}
        BY <2>5
      <3> HIDE DEF Cut
      <3>2. Answers(q) = {Cut(f)}
        BY <2>4, <3>1
      <3> QED
        BY <3>2
    <2> QED
      BY <2>1, <2>6, FS_Singleton
  <1> QED
    BY <1>1, SearchInvariance, PTL

=============================================================================

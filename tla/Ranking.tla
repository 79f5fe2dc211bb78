------------------------------ MODULE Ranking -------------------------------
(***************************************************************************)
(* internal/search/search.go: which documents a query finds, and in which   *)
(* order.  Texts are sequences of runes, numbered as Unicode does it.  On   *)
(* UTF-8, which strings.ToLower always returns, searching for bytes is      *)
(* searching for runes, and the order of bytes is the order of runes; what  *)
(* the code counts, lengths and offsets, it counts in bytes.  The query is  *)
(* trimmed, and grows as it is typed.                                       *)
(***************************************************************************)
EXTENDS Integers, FiniteSets, SequencesExt

CONSTANTS
    Letter,     \* the runes that occur in names
    Slash,      \* the rune between names
    Lower,      \* Lower[c]: c in lower case
    Width,      \* Width[c]: how many bytes c takes
    Names,      \* names of files
    Dirs,       \* paths of directories
    Limit,      \* how many results are asked for
    IndexSize,  \* bound of the model: documents in the index
    MaxQuery    \* bound of the model: the longest query

Rune == Letter \cup {Slash}

ASSUME RankingAssumption ==
    /\ Letter \subseteq Nat
    /\ Slash \in Nat \ Letter
    /\ Lower \in [Rune -> Rune]
    /\ Width \in [Rune -> 1 .. 4]
    /\ Names \subseteq Seq(Letter)
    /\ Dirs \subseteq Seq(Rune)
    /\ Limit \in Nat \ {0}
    /\ IndexSize \in Nat
    /\ MaxQuery \in Nat

VARIABLES
    typed,  \* what has been typed, in lower case
    docs    \* the index

rankingVars == <<typed, docs>>

Lowered(s) == [i \in 1 .. Len(s) |-> Lower[s[i]]]

\* The bytes of s: the k-th of its i-th rune.
Bytes(s) == {b \in (1 .. Len(s)) \X (1 .. 4) : b[2] <= Width[s[b[1]]]}

Size(s) == Cardinality(Bytes(s))

Doc(dir, name) ==
    LET path == dir \o <<Slash>> \o name
    IN  [name |-> name, path |-> path, lowerName |-> Lowered(name), lowerPath |-> Lowered(path)]

AllDocs == {Doc(dir, name) : dir \in Dirs, name \in Names}

-----------------------------------------------------------------------------
(* Matching *)

\* The offsets of q in s.
Occurrences(q, s) == {i \in 0 .. Len(s) - Len(q) : SubSeq(s, i + 1, i + Len(q)) = q}

Offset(q, s) == CHOOSE i \in Occurrences(q, s) : \A j \in Occurrences(q, s) : i <= j

\* How many runes of q, from its first on, have been met at the end of s.
Met(q, s) ==
    LET met[t \in Seq(Nat)] ==
          IF t = <<>> THEN 0
          ELSE LET i == met[Front(t)]
               IN  IF i < Len(q) /\ Last(t) = q[i + 1] THEN i + 1 ELSE i
    IN  met[s]

Subsequence(q, s) == Met(q, s) = Len(q)

\* Mutant: the fuzzy search in paths looks in the directory only.
TierOfParts(q, d) ==
    IF d.lowerName = q THEN 1
    ELSE IF IsPrefix(q, d.lowerName) THEN 2
    ELSE IF Occurrences(q, d.lowerName) # {} THEN 3
    ELSE IF Occurrences(q, d.lowerPath) # {} THEN 4
    ELSE IF Subsequence(q, d.lowerName) THEN 5
    ELSE IF Subsequence(q, SubSeq(d.lowerPath, 1, Len(d.lowerPath) - Len(d.lowerName))) THEN 6
    ELSE 7

\* Mutant: the path is looked at only for a query with a slash.
TierBySlash(q, d) ==
    IF d.lowerName = q THEN 1
    ELSE IF IsPrefix(q, d.lowerName) THEN 2
    ELSE IF Occurrences(q, d.lowerName) # {} THEN 3
    ELSE IF Subsequence(q, d.lowerName) THEN 5
    ELSE IF (\E i \in 1 .. Len(q) : q[i] = Slash) /\ Subsequence(q, d.lowerPath) THEN 6
    ELSE 7

\* The cases of scoreDoc in their order; the last is no match.
NoMatch == 7

Tier(q, d) ==
    IF d.lowerName = q THEN 1
    ELSE IF IsPrefix(q, d.lowerName) THEN 2
    ELSE IF Occurrences(q, d.lowerName) # {} THEN 3
    ELSE IF Occurrences(q, d.lowerPath) # {} THEN 4
    ELSE IF Subsequence(q, d.lowerName) THEN 5
    ELSE IF Subsequence(q, d.lowerPath) THEN 6
    ELSE NoMatch

Hits(q) == IF q = <<>> THEN {} ELSE {d \in docs : Tier(q, d) # NoMatch}

-----------------------------------------------------------------------------
(* Ranking *)

Penalty(n) == IF n \div 4 > 120 THEN 120 ELSE n \div 4

\* Mutant: fuzzy matches of names start from the same score as those of paths
\* that contain the query.
ScoreFuzzily(tier, at, name, path) ==
    CASE tier = 1 -> 1000
      [] tier = 2 -> 850 - Penalty(name)
      [] tier = 3 -> 650 - at - Penalty(name)
      [] tier = 4 -> 450 - Penalty(path)
      [] tier = 5 -> 450 - Penalty(name)
      [] OTHER    -> 150 - Penalty(path)

\* Of a match at this offset of a name of this size in a path of this size.
Score(tier, at, name, path) ==
    CASE tier = 1 -> 1000
      [] tier = 2 -> 850 - Penalty(name)
      [] tier = 3 -> 650 - at - Penalty(name)
      [] tier = 4 -> 450 - Penalty(path)
      [] tier = 5 -> 300 - Penalty(name)
      [] OTHER    -> 150 - Penalty(path)

\* strings.Index of a substring of the name.
At(q, d) ==
    IF Tier(q, d) = 3 THEN Size(SubSeq(d.lowerName, 1, Offset(q, d.lowerName))) ELSE 0

ScoreDoc(q, d) == Score(Tier(q, d), At(q, d), Size(d.lowerName), Size(d.lowerPath))

\* Go's order of strings, for texts of which neither begins the other.
Less(s, t) ==
    \E i \in 1 .. Len(s) : i <= Len(t) /\ s[i] < t[i] /\ \A j \in 1 .. i - 1 : s[j] = t[j]

\* Mutant: ties are broken on the lowercased path.
BeforeLowered(q, d, e) ==
    \/ ScoreDoc(q, d) > ScoreDoc(q, e)
    \/ /\ ScoreDoc(q, d) = ScoreDoc(q, e)
       /\ \/ Size(d.lowerPath) < Size(e.lowerPath)
          \/ Size(d.lowerPath) = Size(e.lowerPath) /\ Less(d.lowerPath, e.lowerPath)

Before(q, d, e) ==
    \/ ScoreDoc(q, d) > ScoreDoc(q, e)
    \/ /\ ScoreDoc(q, d) = ScoreDoc(q, e)
       /\ \/ Size(d.path) < Size(e.path)
          \/ Size(d.path) = Size(e.path) /\ Less(d.path, e.path)

\* What Search may answer: the map is walked in any order and sort.Slice is
\* not stable, so any order of the hits in which none comes after one that it
\* is before.
Answers(q) ==
    LET sorted == {s \in SetToSeqs(Hits(q)) :
                     \A i, j \in 1 .. Cardinality(Hits(q)) : i < j => ~Before(q, s[j], s[i])}
    IN  {SubSeq(s, 1, IF Len(s) > Limit THEN Limit ELSE Len(s)) : s \in sorted}

-----------------------------------------------------------------------------

RankingInit ==
    /\ typed = <<>>
    /\ docs \in {D \in SUBSET AllDocs : IsFiniteSet(D) /\ Cardinality(D) = IndexSize}

TypeLetter(c) ==
    /\ Len(typed) < MaxQuery
    /\ typed' = Append(typed, Lower[c])
    /\ UNCHANGED docs

RankingNext == \E c \in Rune : TypeLetter(c)

-----------------------------------------------------------------------------

(***************************************************************************)
(* A query finds just the documents in whose path its runes occur in their  *)
(* order, whatever their case, though every case but the last two looks for *)
(* less.                                                                    *)
(***************************************************************************)
Embedded(q, s) ==
    \E f \in [1 .. Len(q) -> 1 .. Len(s)] :
        /\ \A i \in 1 .. Len(q) : s[f[i]] = q[i]
        /\ \A i \in 1 .. Len(q) - 1 : f[i] < f[i + 1]

FindsEmbedded == typed # <<>> => Hits(typed) = {d \in docs : Embedded(typed, d.lowerPath)}

(***************************************************************************)
(* Typing on never brings up a file that was not found before.              *)
(***************************************************************************)
Narrows == [][typed # <<>> => Hits(typed') \subseteq Hits(typed)]_rankingVars

(***************************************************************************)
(* A query has one answer, though the index is walked in any order, the     *)
(* sort is not stable, and paths may differ only in case.                   *)
(***************************************************************************)
OneAnswer == Cardinality(Answers(typed)) = 1

(***************************************************************************)
(* "Match tiers, best to worst": a document of a better tier comes first,   *)
(* as long as a match within a name is not too far from its beginning, and  *)
(* whatever the lengths of the paths.                                       *)
(***************************************************************************)
Near(at, name) == at + Penalty(name) < 200

TiersKept ==
    \A d, e \in Hits(typed) :
        /\ Near(At(typed, d), Size(d.lowerName))
        /\ Tier(typed, d) < Tier(typed, e)
        => Before(typed, d, e)

=============================================================================

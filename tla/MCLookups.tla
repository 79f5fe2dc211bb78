----------------------------- MODULE MCLookups ------------------------------
(***************************************************************************)
(* Ranking over names of one to three runes that begin, contain and repeat  *)
(* one another, below a root and a directory in it.  The letters are I, i,  *)
(* and two of two bytes: the last is I with a dot, which in lower case is i *)
(* and shorter.  Two names differ only in case.  Browse over a root         *)
(* with a directory and a note that may each be anything, a note in the     *)
(* directory, a dotfile and an ignored directory; links lead into the root, *)
(* out of it, and nowhere.                                                  *)
(***************************************************************************)
EXTENDS Lookups

CONSTANTS vault, other, dir, note, dotfile, vendor

MCNames == {<<2>>, <<2, 3>>, <<1, 3>>, <<3, 4>>, <<2, 3, 2>>, <<3, 3>>}
MCDirs == {<<0, 3>>, <<0, 4, 2>>}
MCLower == <<2, 2, 3, 2>> @@ 0 :> 0
MCWidth == <<1, 1, 2, 2>> @@ 0 :> 1

MCPart == {vault, other, dir, note, dotfile, vendor}
MCHidden == {dotfile}
MCIgnored == {vendor}
MCMarkdown == {note, dotfile}
MCRoot == <<vault>>

Links == {Link(<<vault>>), Link(<<vault, vendor>>), Link(<<other>>), Link(<<other, note>>), Link(<<dir>>)}
Anything == Links \cup {Dir, File}

Below(d) ==
    IF d # Dir THEN {[p \in {} |-> File]}
    ELSE {[p \in {<<vault, dir, note>>} |-> n] : n \in Anything} \cup {[p \in {} |-> File]}

RealRoot(d, n, below) ==
    below @@ <<vault>> :> Dir @@ <<vault, dir>> :> d @@ <<vault, note>> :> n
      @@ <<vault, dotfile>> :> File
      @@ <<vault, vendor>> :> Dir @@ <<vault, vendor, note>> :> File
      @@ <<other>> :> Dir @@ <<other, note>> :> File

LinkedRoot == <<vault>> :> Link(<<other>>) @@ <<other>> :> Dir @@ <<other, note>> :> File

LostRoot == <<vault>> :> Link(<<dir>>) @@ <<other>> :> Dir @@ <<other, note>> :> File

MCWorlds ==
    {LinkedRoot, LostRoot} \cup UNION {{RealRoot(d, n, b) : n \in Anything, b \in Below(d)} : d \in Anything}

MCAsked ==
    [abs : BOOLEAN, parts : BoundedSeq({DotDot, vault, dir, note}, 3)]

=============================================================================

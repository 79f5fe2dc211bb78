------------------------------- MODULE Browse -------------------------------
(***************************************************************************)
(* internal/files/path.go and tree.go: which paths a request may name, and  *)
(* what the listing of a directory offers to name next; beside them, which  *)
(* files the walk of internal/search/index.go takes up.  A path is the      *)
(* sequence of its names from "/".                                          *)
(***************************************************************************)
EXTENDS Integers, SequencesExt

CONSTANTS
    Part,           \* names
    DotDot,         \* ".."
    Hidden,         \* those that begin with a dot
    Ignored,        \* those of the configuration's ignore list
    Markdown,       \* those with a markdown extension
    RootPath,       \* the configured root
    FollowSymlinks,
    Worlds,         \* what may be on disk
    Asked,          \* bound of the model: paths that requests name
    MaxDepth        \* bound of the model: links may be opened forever

\* A node is a directory, a file, or a symbolic link.  Where a link leads is
\* where the chain of links that it begins ends.
Node == [kind : {"dir", "file"}, to : {<<>>}] \cup [kind : {"link"}, to : Seq(Part)]

Dir == [kind |-> "dir", to |-> <<>>]
File == [kind |-> "file", to |-> <<>>]
Link(p) == [kind |-> "link", to |-> p]

\* What stands for a path where there is none.
Nowhere == <<"nowhere">>
Missing == <<"missing">>
Broken == <<"broken">>
Refused == <<"refused">>

\* A disk has its nodes in directories, and a chain of links ends at no link.
Disk(w) ==
    /\ DOMAIN w \subseteq Seq(Part) \ {<<>>}
    /\ \A p \in DOMAIN w :
          /\ w[p] \in Node
          /\ Front(p) # <<>> => Front(p) \in DOMAIN w /\ w[Front(p)].kind = "dir"
          /\ w[p].to \in DOMAIN w => w[w[p].to].kind # "link"

ASSUME BrowseAssumption ==
    /\ DotDot \notin Part
    /\ Hidden \cup Ignored \cup Markdown \subseteq Part
    /\ RootPath \in Seq(Part)
    /\ FollowSymlinks \in BOOLEAN
    /\ {Nowhere, Missing, Broken, Refused} \cap Seq(Part) = {}
    /\ \A w \in Worlds : Disk(w)
    /\ MaxDepth \in Nat
    /\ \A p \in Asked : p.abs \in BOOLEAN /\ p.parts \in Seq(Part \cup {DotDot})

VARIABLES
    world,      \* the disk
    at,         \* the directory whose listing is on the screen, or Nowhere
    named       \* where a request leads that names any path, or Nowhere

browseVars == <<world, at, named>>

-----------------------------------------------------------------------------
(* The operating system *)

Exists(p) == p = <<>> \/ p \in DOMAIN world

KindOf(p) == IF p = <<>> THEN "dir" ELSE world[p].kind

Follow(p) ==
    IF ~Exists(p) THEN Missing
    ELSE IF KindOf(p) # "link" THEN p
    ELSE IF Exists(world[p].to) THEN world[p].to ELSE Missing

Enter(dir, x) ==
    IF dir \in {Missing, Broken} THEN dir
    ELSE IF KindOf(dir) # "dir" THEN Broken
    ELSE Follow(Append(dir, x))

\* filepath.EvalSymlinks
Physical[p \in Seq(Part)] ==
    IF p = <<>> THEN <<>> ELSE Enter(Physical[Front(p)], Last(p))

\* os.Stat
IsDir(p) == Physical[p] \notin {Missing, Broken} /\ KindOf(Physical[p]) = "dir"

-----------------------------------------------------------------------------
(* Resolver *)

Abs(parts) == [abs |-> TRUE, parts |-> parts]

\* filepath.Clean of an absolute path
Clean[parts \in Seq(Part \cup {DotDot})] ==
    IF parts = <<>> THEN <<>>
    ELSE LET p == Clean[Front(parts)]
         IN  IF Last(parts) # DotDot THEN Append(p, Last(parts))
             ELSE IF p = <<>> THEN p ELSE Front(p)

Absolute(p) == Clean[IF p.abs THEN p.parts ELSE RootPath \o p.parts]

Within(p) == IsPrefix(RootPath, p)

\* evalSymlinks: of a path that does not exist, the nearest ancestor that does.
RealPath(p) ==
    LET found == {k \in 0 .. Len(p) : Physical[SubSeq(p, 1, k)] # Missing}
        last == CHOOSE k \in found : \A j \in found : j <= k
        real == Physical[SubSeq(p, 1, last)]
    IN  IF real = Broken THEN Broken ELSE real \o SubSeq(p, last + 1, Len(p))

\* Mutant: links are resolved only in what exists.
AllowedIfMissing(p) ==
    /\ Within(p)
    /\ \/ FollowSymlinks
       \/ Physical[p] = Missing
       \/ Physical[p] # Broken /\ Within(Physical[p])

Allowed(p) ==
    /\ Within(p)
    /\ \/ FollowSymlinks
       \/ RealPath(p) # Broken /\ Within(RealPath(p))

Resolve(p) ==
    IF p.abs \/ p.parts # <<>> THEN IF Allowed(Absolute(p)) THEN Absolute(p) ELSE Refused
    ELSE Refused

\* What Validate asks of the root.
RootAccepted == IsDir(RootPath)

-----------------------------------------------------------------------------
(* Lister *)

Lists(p) == Resolve(Abs(p)) # Refused /\ IsDir(p)

InDir(p) == {x \in Part : Append(Physical[p], x) \in DOMAIN world}

\* Mutant: the listing takes no notice of the ignore list.
VisibleIgnored(x) == x \notin Hidden

Visible(x) == x \notin Hidden \cup Ignored

Entries(p) ==
    {x \in InDir(p) : /\ Visible(x)
                      /\ Physical[Append(p, x)] # Missing
                      /\ IsDir(Append(p, x)) \/ x \in Markdown}

\* Mutant: the root has a parent.
ParentAlways(p) == IF p # <<>> THEN {Front(p)} ELSE {}

Parent(p) == IF p # RootPath THEN {Front(p)} ELSE {}

-----------------------------------------------------------------------------
(* Build's walk, which follows no links *)

Walks(x) == x \notin Hidden \cup Ignored

Indexed(p) ==
    /\ Within(p) /\ p # RootPath
    /\ p \in DOMAIN world
    /\ \A k \in Len(RootPath) .. Len(p) - 1 : KindOf(SubSeq(p, 1, k)) = "dir"
    /\ \A k \in Len(RootPath) + 1 .. Len(p) - 1 : Walks(p[k])
    /\ KindOf(p) # "dir"
    /\ Last(p) \in Markdown

-----------------------------------------------------------------------------

\* Validate has accepted the root.
BrowseInit == world \in Worlds /\ RootAccepted /\ at = Nowhere /\ named = Nowhere

\* Any request with a path, which Resolve admits.
NamePath(p) ==
    /\ at = Nowhere /\ named = Nowhere
    /\ Resolve(p) # Refused
    /\ named' = Resolve(p)
    /\ UNCHANGED <<world, at>>

\* Tree, without a path
OpenRoot ==
    /\ named = Nowhere
    /\ Lists(RootPath)
    /\ at' = RootPath
    /\ UNCHANGED <<world, named>>

\* Tree, with a path of the listing
OpenEntry(x) ==
    /\ at # Nowhere
    /\ Len(at) < MaxDepth
    /\ x \in Entries(at)
    /\ Lists(Append(at, x))
    /\ at' = Append(at, x)
    /\ UNCHANGED <<world, named>>

\* The API names the parent, though the page has no use for it.
OpenParent ==
    /\ at # Nowhere
    /\ \E p \in Parent(at) : Lists(p) /\ at' = p
    /\ UNCHANGED <<world, named>>

BrowseNext ==
    \/ OpenRoot \/ OpenParent
    \/ \E x \in Part : OpenEntry(x)
    \/ \E p \in Asked : NamePath(p)

-----------------------------------------------------------------------------

(***************************************************************************)
(* "An absolute path guaranteed to be within the root": by its name, and    *)
(* unless links may be followed, by where it is, or where the first thing   *)
(* made for it would be.                                                    *)
(***************************************************************************)
Place(p, k) == Physical[SubSeq(p, 1, k)]

Home(p) ==
    LET there == {k \in 0 .. Len(p) : Place(p, k) # Missing}
    IN  {Place(p, k) : k \in {j \in there : j + 1 \notin there}}

Confined ==
    named # Nowhere =>
        /\ Within(named)
        /\ FollowSymlinks \/ \A h \in Home(named) : Within(h)

(***************************************************************************)
(* What a listing offers the server takes back as it stands: every entry    *)
(* that is within the root, and the parent.                                 *)
(***************************************************************************)
OfferedTaken ==
    at # Nowhere =>
        /\ \A x \in Entries(at) :
              Within(Physical[Append(at, x)]) => Resolve(Abs(Append(at, x))) = Append(at, x)
        /\ \A p \in Parent(at) : Lists(p)

(***************************************************************************)
(* Search and tree agree on the directories that listings lead to without   *)
(* links: a file there is listed just if Build indexes it.  They differ on  *)
(* dotfiles and files with an ignored name, which Build takes up, and links.*)
(***************************************************************************)
TreeMatchesIndex ==
    at # Nowhere /\ Physical[at] = at =>
        \A x \in InDir(at) :
            KindOf(Append(at, x)) = "file" /\ Visible(x) => (x \in Entries(at) <=> Indexed(Append(at, x)))

(***************************************************************************)
(* "Follow symlinked directories when indexing and resolving paths": where  *)
(* links may be followed, a file that a listing offers is also found by a   *)
(* search.  Build follows none, so what is below a link is not.             *)
(***************************************************************************)
LinksIndexed ==
    FollowSymlinks /\ at # Nowhere /\ KindOf(RootPath) = "dir" =>
        \A x \in Entries(at) : ~IsDir(Append(at, x)) => Indexed(Append(at, x))

(***************************************************************************)
(* "Reports whether ... the root directory is usable": a root that Validate *)
(* accepts can be listed.  One that is a symbolic link is accepted, and     *)
(* then every path below it is refused, as it leads out of the root.        *)
(***************************************************************************)
RootUsable == RootAccepted => Lists(RootPath)

=============================================================================

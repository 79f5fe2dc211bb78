----------------------------- MODULE FileSystem -----------------------------
(***************************************************************************)
(* The directory tree under the configured root, as the operating system   *)
(* presents it to internal/files and internal/search.  The code does not   *)
(* implement it: these operators say what os.Stat, os.Mkdir, os.CreateTemp, *)
(* os.Rename, os.Remove and os.ReadDir do for their callers.               *)
(*                                                                         *)
(* A tree is a function whose DOMAIN is the set of paths that exist.  A    *)
(* path is the sequence of its components below the root, so the root is   *)
(* the empty sequence.                                                     *)
(***************************************************************************)
EXTENDS Naturals, Sequences, SequencesExt

CONSTANTS
    Name,       \* components a user may name
    Markdown,   \* the names with a markdown extension
    Req,        \* API requests; also the components os.CreateTemp invents
    Original    \* contents that are on disk before any request

\* Not wholly written and synced: a crash may leave any part of it.
CONSTANTS Torn, NoData

ASSUME NamesAssumption ==
    /\ Markdown \subseteq Name
    /\ Name \cap Req = {}
    /\ Torn \notin Req \cup Original
    /\ NoData \notin Req \cup Original \cup {Torn}

Path == Seq(Name \cup Req)
Root == <<>>

\* The content written by request r is identified with r itself.
Content == Req \cup Original
Node == [kind : {"dir", "file"}, data : Content \cup {Torn, NoData}]

DirNode == [kind |-> "dir", data |-> NoData]
FileNode(c) == [kind |-> "file", data |-> c]

IsMarkdown(p) == p # Root /\ Last(p) \in Markdown
IsTemp(p) == p # Root /\ Last(p) \in Req

-----------------------------------------------------------------------------
(* What os.Stat answers.                                                   *)

IsDir(t, p) == p \in DOMAIN t /\ t[p].kind = "dir"
IsFile(t, p) == p \in DOMAIN t /\ t[p].kind = "file"

\* ENOENT.  A path below a file is not Missing: that is ENOTDIR.
Missing(t, p) ==
    /\ p \notin DOMAIN t
    /\ \A q \in DOMAIN t : IsPrefix(q, p) => t[q].kind = "dir"

Children(t, d) == {q \in DOMAIN t : q # Root /\ Front(q) = d}

\* Every entry sits in a directory, and so does that one, up to the root.
Tree(t) ==
    /\ DOMAIN t \subseteq Path
    /\ IsDir(t, Root)
    /\ \A p \in DOMAIN t :
          /\ t[p] \in Node
          /\ \A n \in 0 .. Len(p) - 1 : IsDir(t, SubSeq(p, 1, n))

-----------------------------------------------------------------------------
(* What the calls that change the tree do.                                 *)

Put(t, p, n) == [q \in DOMAIN t \cup {p} |-> IF q = p THEN n ELSE t[q]]
Drop(t, p) == [q \in DOMAIN t \ {p} |-> t[q]]

\* os.Remove: a file, or a directory with nothing in it.
Removable(t, p) == p \in DOMAIN t /\ Children(t, p) = {}

Rebase(p, from, to) == to \o SubSeq(p, Len(from) + 1, Len(p))

\* os.Rename replaces a file but never a directory (Go answers EEXIST), and
\* does not move a directory onto a file or into itself.
Renamable(t, from, to) ==
    /\ from \in DOMAIN t
    /\ to # Root
    /\ IsDir(t, Front(to))
    /\ ~IsDir(t, to)
    /\ IsDir(t, from) => to \notin DOMAIN t /\ ~IsPrefix(from, to)

MoveTree(t, from, to) ==
    LET stay  == {q \in DOMAIN t : ~IsPrefix(from, q) /\ q # to}
        moved == {Rebase(q, from, to) : q \in {x \in DOMAIN t : IsPrefix(from, x)}}
    IN  [q \in stay \cup moved |->
            IF IsPrefix(to, q) THEN t[Rebase(q, to, from)] ELSE t[q]]

\* The tree a directory listing or a walk for markdown shows: no temp files.
Settled(t) == [p \in {q \in DOMAIN t : ~IsTemp(q)} |-> t[p]]

=============================================================================

------------------------------ MODULE MCVault -------------------------------
(***************************************************************************)
(* Vault with a markdown file in a directory and a free markdown name that  *)
(* requests work on, and two files they leave alone: one at the root and    *)
(* one in a directory the index skips.  Two files on disk fill the index.   *)
(***************************************************************************)
EXTENDS Vault

CONSTANTS note, memo, dir, box, dot, o1

MCName == {note, memo, dir, box, dot}
MCMarkdown == {note, memo}
MCOriginal == {o1}
MCSkipped == {dot}

MCPaths == {<<note>>, <<dir>>, <<dir, note>>, <<box>>}

\* For liveness, which is checked without symmetry.
MCFewPaths == {<<note>>, <<dir>>}

MCTrees ==
    {Root :> DirNode @@ <<memo>> :> FileNode(o1)
        @@ <<dir>> :> DirNode @@ <<dir, note>> :> FileNode(o1)
        @@ <<dot>> :> DirNode @@ <<dot, memo>> :> FileNode(o1)}

Symmetry == Permutations(Req)

=============================================================================

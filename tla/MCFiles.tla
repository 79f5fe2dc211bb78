------------------------------ MODULE MCFiles -------------------------------
(***************************************************************************)
(* Files on a directory with a markdown file in it, a free markdown name   *)
(* and a free directory name; a request may ask anything of any of them.    *)
(***************************************************************************)
EXTENDS Files

CONSTANTS note, dir, box, o1

MCName == {note, dir, box}
MCMarkdown == {note}
MCOriginal == {o1}

MCPaths == {Root, <<note>>, <<dir>>, <<dir, note>>, <<box>>}

MCTrees == {Root :> DirNode @@ <<dir>> :> DirNode @@ <<dir, note>> :> FileNode(o1)}

Symmetry == Permutations(Req)
=============================================================================

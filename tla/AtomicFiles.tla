----------------------------- MODULE AtomicFiles ----------------------------
(***************************************************************************)
(* What files.Manager promises each caller, whatever the other requests    *)
(* do: a call takes effect at most once, in one step that shows no          *)
(* half-written file, between its arrival and its answer; it answers "ok"   *)
(* only after that step, and "refused" only if it changed nothing.  What it *)
(* does not promise is that the effect still fits what the call was told at *)
(* its first look: there is no lock, so a Create may replace a file made    *)
(* meanwhile.                                                              *)
(***************************************************************************)
EXTENDS FileSystem

CONSTANTS Paths, Trees

VARIABLES
    tree,    \* the vault without the temp files
    ask,     \* ask[r]: the call
    phase,   \* phase[r]: how far it is
    reply,   \* reply[r]: its answer
    seen     \* seen[r]: the content a read was given

vars == <<tree, ask, phase, reply, seen>>

NoAsk == [op |-> "none", path |-> Root, to |-> Root]
Asks == [op : {"read", "save", "create", "delete", "rename", "mkdir",
               "delete_dir", "rename_dir"},
         path : Paths, to : Paths]

Init ==
    /\ tree \in {Settled(t) : t \in Trees}
    /\ ask = [r \in Req |-> NoAsk]
    /\ phase = [r \in Req |-> "idle"]
    /\ reply = [r \in Req |-> "none"]
    /\ seen = [r \in Req |-> NoData]

Close(r, v) ==
    /\ phase' = [phase EXCEPT ![r] = "closed"]
    /\ reply' = [reply EXCEPT ![r] = v]

Advance(r, ph) == phase' = [phase EXCEPT ![r] = ph] /\ UNCHANGED reply

Open(r) ==
    /\ phase[r] = "idle"
    /\ \E c \in Asks : ask' = [ask EXCEPT ![r] = c]
    /\ Advance(r, "open") \/ Advance(r, "begun") \/ Close(r, "refused")
    /\ UNCHANGED <<tree, seen>>

\* From here on the call may have made directories: no more refusals.
Begin(r) ==
    /\ phase[r] = "open"
    /\ Advance(r, "begun")
    /\ UNCHANGED <<tree, ask, seen>>

GiveUp(r) ==
    /\ \/ phase[r] = "open" /\ (Close(r, "refused") \/ Close(r, "failed"))
       \/ phase[r] \in {"begun", "applied"} /\ Close(r, "failed")
    /\ UNCHANGED <<tree, ask, seen>>

Give(r) ==
    /\ phase[r] = "open"
    /\ ask[r].op = "read"
    /\ IsFile(tree, ask[r].path)
    /\ seen' = [seen EXCEPT ![r] = tree[ask[r].path].data]
    /\ Close(r, "ok")
    /\ UNCHANGED <<tree, ask>>

\* The way to the path the call puts something at, or the directory it asks for.
Way(r) ==
    CASE ask[r].op = "mkdir" -> ask[r].path
      [] ask[r].op = "create" -> Front(ask[r].path)
      [] ask[r].op \in {"rename", "rename_dir"} -> Front(ask[r].to)
      [] OTHER -> Root

MakeDir(r) ==
    /\ phase[r] = "begun"
    /\ \E n \in 1 .. Len(Way(r)) :
          LET q == SubSeq(Way(r), 1, n)
          IN  /\ q \notin DOMAIN tree
              /\ IsDir(tree, Front(q))
              /\ tree' = Put(tree, q, DirNode)
              /\ \/ UNCHANGED <<phase, reply>>
                 \/ n = Len(Way(r)) /\ ask[r].op = "mkdir" /\ Close(r, "ok")
    /\ UNCHANGED <<ask, seen>>

DirMade(r) ==
    /\ phase[r] = "begun"
    /\ ask[r].op = "mkdir"
    /\ IsDir(tree, ask[r].path)
    /\ Close(r, "ok")
    /\ UNCHANGED <<tree, ask, seen>>

\* The one step in which the call takes effect.
Effect(r) ==
    LET p == ask[r].path
        q == ask[r].to
    IN  \/ /\ ask[r].op \in {"save", "create"}
           /\ IsDir(tree, Front(p)) /\ ~IsDir(tree, p)
           /\ tree' = Put(tree, p, FileNode(r))
        \/ /\ ask[r].op \in {"delete", "delete_dir"}
           /\ Removable(tree, p)
           /\ tree' = Drop(tree, p)
        \/ /\ ask[r].op \in {"rename", "rename_dir"}
           /\ Renamable(tree, p, q)
           /\ tree' = MoveTree(tree, p, q)

Apply(r) ==
    /\ phase[r] \in {"open", "begun"}
    /\ Effect(r)
    /\ Advance(r, "applied") \/ Close(r, "ok")
    /\ UNCHANGED <<ask, seen>>

Confirm(r) ==
    /\ phase[r] = "applied"
    /\ Close(r, "ok")
    /\ UNCHANGED <<tree, ask, seen>>

\* A crash closes what is open without an answer and without an effect.
Kill ==
    /\ \E S \in SUBSET Req :
          phase' = [r \in Req |-> IF r \in S /\ phase[r] # "idle" THEN "closed"
                                                                ELSE phase[r]]
    /\ UNCHANGED <<tree, ask, reply, seen>>

Next ==
    \/ \E r \in Req :
          \/ Open(r) \/ Begin(r) \/ GiveUp(r) \/ Give(r) \/ MakeDir(r)
          \/ DirMade(r) \/ Apply(r) \/ Confirm(r)
    \/ Kill

Spec == Init /\ [][Next]_vars

=============================================================================
